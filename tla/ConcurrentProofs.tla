-------------------------- MODULE ConcurrentProofs --------------------------
(***************************************************************************)
(* What holds whatever the requests in service do to each other, for any   *)
(* number of them, and of users, sessions and methods: an identity counts  *)
(* as confirmed only by proof, a session acts for a registered user only   *)
(* after presenting its credentials, and codes expire.                     *)
(*                                                                         *)
(* Each takes an invariant that speaks of the copies requests hold as      *)
(* well as of what is stored, since a copy may be saved long after another *)
(* request has changed what it was taken from.  The three invariants are   *)
(* independent of each other; each has a part of its own below.            *)
(***************************************************************************)
EXTENDS CodeTimes, RautherProofs

(* ConfirmedByProof.  By itself it is not inductive: a stale copy may be   *)
(* saved at any time.  It is once it is said of the copies that requests   *)
(* hold as well.                                                           *)

\* Every confirmed identity of the user is among the proved ones.
Vouched(u, P) ==
    \A k \in Keys : u.auths[k].confirmed => <<k, GetUID(u, k)>> \in P

\* A local of type *User
CopyVouched(u, P) == u # Nil => Vouched(u, P)

CopiesVouched ==
    \A p \in Procs : CopyVouched(loc[p].User, proved) /\ CopyVouched(loc[p].u, proved)

VouchedInv == TypeOK /\ ConfirmedByProof /\ CopiesVouched

(* What the setters do to the identities a user holds confirmed.           *)

\* A new user has confirmed nothing.
LEMMA NewUserVouched ==
  ASSUME NEW id, NEW P
  PROVE  Vouched(NewUser(id), P)
  BY DEF Vouched, NewUser, ZeroIdentity

\* A new uid is not confirmed.
LEMMA SetUIDVouched ==
  ASSUME NEW u \in User, NEW P, Vouched(u, P), NEW k \in Keys, NEW uid
  PROVE  Vouched(SetUID(u, k, uid), P) /\ GetUID(SetUID(u, k, uid), k) = uid
  BY DEF Vouched, SetUID, GetUID, User, Identity, ZeroIdentity

\* Passwords, codes, times and flags have no part in it.
LEMMA SetPasswordVouched ==
  ASSUME NEW u \in User, NEW P, Vouched(u, P), NEW k \in Keys, NEW v
  PROVE  Vouched(SetPassword(u, k, v), P) /\ Vouched(SetOTP(u, k, v), P)
  BY DEF Vouched, SetPassword, SetOTP, GetUID, User, Identity

LEMMA SetCodeVouched ==
  ASSUME NEW u \in User, NEW P, Vouched(u, P), NEW k \in Keys, NEW v
  PROVE  Vouched(SetConfirmCode(u, k, v), P) /\ Vouched(SetRecoveryCode(u, k, v), P)
  <1>1. Vouched(SetConfirmCode(u, k, v), P)
    BY DEF Vouched, SetConfirmCode, GetUID, User, Identity
  <1>2. Vouched(SetRecoveryCode(u, k, v), P)
    BY DEF Vouched, SetRecoveryCode, GetUID, User, Identity
  <1> QED BY <1>1, <1>2

LEMMA StampVouched ==
  ASSUME NEW u \in User, NEW P, Vouched(u, P), NEW k \in Keys
  PROVE  /\ Vouched(StampCode(u, k), P)
         /\ Vouched(ClearStamp(u, k), P) /\ GetUID(ClearStamp(u, k), k) = GetUID(u, k)
  <1>1. ASSUME NEW t
        PROVE  Vouched(SetCodeSentTime(u, k, t), P) /\ GetUID(SetCodeSentTime(u, k, t), k) = GetUID(u, k)
    BY DEF Vouched, SetCodeSentTime, GetUID, User, Identity
  <1> QED BY <1>1 DEF StampCode, ClearStamp

LEMMA SetFlagVouched ==
  ASSUME NEW u \in User, NEW P, Vouched(u, P), NEW b
  PROVE  Vouched(SetGuest(u, b), P) /\ Vouched(SetTemp(u, b), P)
  BY DEF Vouched, SetGuest, SetTemp, GetUID, User

\* Confirming an identity calls for proof.
LEMMA SetConfirmedVouched ==
  ASSUME NEW u \in User, NEW P, Vouched(u, P), NEW k \in Keys,
         <<k, GetUID(u, k)>> \in P
  PROVE  Vouched(SetConfirmed(u, k, TRUE), P)
  BY DEF Vouched, SetConfirmed, GetUID, User, Identity

\* Time confirms nothing.
LEMMA AgedVouched ==
  ASSUME NEW u \in User, NEW P, Vouched(u, P)
  PROVE  Vouched(Aged(u), P)
  <1>1. ASSUME NEW k \in Keys
        PROVE  Aged(u).auths[k].confirmed = u.auths[k].confirmed
    <2>1. Aged(u).auths[k] =
            [u.auths[k] EXCEPT !.sentAt = IF @ \in 0 .. MaxAge - 1 THEN @ + 1 ELSE @]
      BY DEF Aged, User
    <2> QED BY <2>1 DEF User, Identity
  <1> QED BY <1>1, AgedType DEF Vouched

\* Nor does linking or merging what two vouched users hold.
LEMMA LinkVouched ==
  ASSUME NEW current \in User, NEW link \in User, NEW k \in Keys, NEW P,
         Vouched(current, P), Vouched(link, P)
  PROVE  Vouched(LinkIdentity(current, link, k), P)
  <1> DEFINE v == SetUID(current, k, GetUID(link, k))
             w == IF k \in PasswordKeys THEN SetPassword(v, k, link.auths[k].password) ELSE v
             c == link.auths[k].confirmed
  <1>1. link.auths[k] \in Identity
    BY DEF User
  <1>2. v \in User /\ Vouched(v, P) /\ GetUID(v, k) = GetUID(link, k)
    BY UserFacts, SetUIDType, SetUIDVouched
  <1>3. link.auths[k].password \in Passwords \cup Codes \cup {Empty} /\ c \in BOOLEAN
    BY <1>1 DEF Identity
  <1>4. w \in User /\ Vouched(w, P) /\ GetUID(w, k) = GetUID(link, k)
    <2> HIDE DEF v
    <2>1. SetPassword(v, k, link.auths[k].password) \in User
      BY <1>2, <1>3, SetPasswordType
    <2>2. Vouched(SetPassword(v, k, link.auths[k].password), P)
      BY <1>2, SetPasswordVouched
    <2>3. GetUID(SetPassword(v, k, link.auths[k].password), k) = GetUID(v, k)
      BY <1>2 DEF SetPassword, GetUID, User, Identity
    <2> QED BY <1>2, <2>1, <2>2, <2>3
  <1>5. LinkIdentity(current, link, k) = SetConfirmed(w, k, c)
    BY DEF LinkIdentity
  <1> HIDE DEF w
  <1>6. CASE c = TRUE
    <2>1. <<k, GetUID(w, k)>> \in P
      BY <1>4, <1>6 DEF Vouched
    <2> QED BY <1>4, <1>5, <1>6, <2>1, SetConfirmedVouched
  <1>7. CASE c = FALSE
    <2>1. Vouched(SetConfirmed(w, k, FALSE), P)
      BY <1>4 DEF Vouched, SetConfirmed, GetUID, User, Identity
    <2> QED BY <1>5, <1>7, <2>1
  <1> QED BY <1>3, <1>6, <1>7

LEMMA MergeVouched ==
  ASSUME NEW current \in User, NEW link \in User, NEW P,
         Vouched(current, P), Vouched(link, P)
  PROVE  Vouched(MergeIdentities(current, link), P)
  <1> DEFINE m == MergeIdentities(current, link)
  <1>1. ASSUME NEW k \in Keys, m.auths[k].confirmed
        PROVE  <<k, GetUID(m, k)>> \in P
    <2>1. m.auths[k] = IF Moves(current, link, k) THEN Moved(link, k) ELSE current.auths[k]
      BY DEF MergeIdentities, User
    <2>2. CASE Moves(current, link, k)
      <3>1. m.auths[k].uid = GetUID(link, k) /\ link.auths[k].confirmed
        BY <2>1, <2>2 DEF Moved, Moves, ZeroIdentity
      <3> QED BY <3>1 DEF Vouched, GetUID
    <2>3. CASE ~Moves(current, link, k)
      BY <1>1, <2>1, <2>3 DEF Vouched, GetUID
    <2> QED BY <2>2, <2>3
  <1> QED BY <1>1 DEF Vouched

----------------------------------------------------------------------------
(* Loads, saves and copies.                                                *)

\* What a handler finds is vouched for, and found under its own uid.
LEMMA FoundVouched ==
  ASSUME VouchedInv, NEW p \in Procs
  PROVE  /\ CopyVouched(Found(p), proved)
         /\ Found(p) # Nil => GetUID(Found(p), arg[p].key) = arg[p].uid
         /\ \A id : CopyVouched(LoadByID(users, id), proved)
  <1>1. Storer(users)
    BY TypeParts DEF VouchedInv
  <1>2. \A id \in Stored(users) : Vouched(users[id], proved)
    BY DEF VouchedInv, ConfirmedByProof, Vouched
  <1>3. ASSUME NEW id PROVE CopyVouched(LoadByID(users, id), proved)
    BY <1>2 DEF LoadByID, CopyVouched, Stored
  <1> DEFINE owners == Owners(users, arg[p].key, arg[p].uid)
             owner == CHOOSE id \in owners : TRUE
  <1>4. CASE owners = {}
    BY <1>3, <1>4 DEF Found, LoadByUID, CopyVouched
  <1>5. CASE owners # {}
    <2>1. owner \in owners
      BY <1>5
    <2>2. owner \in Stored(users) /\ GetUID(users[owner], arg[p].key) = arg[p].uid
      BY <2>1 DEF Owners
    <2>3. Found(p) = users[owner]
      BY <1>5 DEF Found, LoadByUID
    <2> QED BY <1>2, <1>3, <2>2, <2>3 DEF CopyVouched
  <1> QED BY <1>3, <1>4, <1>5

\* Proof given once counts for ever.
LEMMA MoreProof ==
  ASSUME NEW u, NEW P, NEW Q, P \subseteq Q
  PROVE  /\ Vouched(u, P) => Vouched(u, Q)
         /\ CopyVouched(u, P) => CopyVouched(u, Q)
  BY DEF Vouched, CopyVouched

\* Stored users stay vouched for if the user saved, if any, is.
LEMMA StoreVouched ==
  ASSUME VouchedInv, proved \subseteq proved',
         \/ UNCHANGED users
         \/ \E u \in User : Vouched(u, proved') /\ Save(u)
         \/ \E id : users' = RemoveByID(users, id)
  PROVE  ConfirmedByProof'
  <1>1. Storer(users)
    BY TypeParts DEF VouchedInv
  <1>2. \A id \in Stored(users) : Vouched(users[id], proved')
    BY MoreProof DEF VouchedInv, ConfirmedByProof, Vouched
  <1>3. ASSUME NEW id \in UserIds, users'[id] # Nil
        PROVE  Vouched(users'[id], proved')
    <2>1. CASE UNCHANGED users
      BY <1>2, <1>3, <2>1 DEF Stored
    <2>2. ASSUME NEW u \in User, Vouched(u, proved'), Save(u)
          PROVE  Vouched(users'[id], proved')
      <3>1. users'[id] = IF id = u.id THEN u ELSE users[id]
        BY <1>1, <2>2 DEF Save, Put, Storer
      <3> QED BY <1>2, <1>3, <2>2, <3>1 DEF Stored
    <2>3. ASSUME NEW i, users' = RemoveByID(users, i)
          PROVE  Vouched(users'[id], proved')
      <3>1. users'[id] = IF id = i THEN Nil ELSE users[id]
        BY <1>1, <2>3 DEF RemoveByID, Storer
      <3> QED BY <1>2, <1>3, <3>1 DEF Stored
    <2> QED BY <2>1, <2>2, <2>3
  <1> QED BY <1>3 DEF ConfirmedByProof, Stored, Vouched

\* A request that goes on with vouched copies leaves all copies vouched for,
LEMMA CopyTaken ==
  ASSUME VouchedInv, proved \subseteq proved', NEW p \in Procs, NEW l, NEW label,
         Continue(p, l, label),
         CopyVouched(l.User, proved'), CopyVouched(l.u, proved')
  PROVE  CopiesVouched'
  <1>1. loc \in [Procs -> Locals] /\ loc' = [loc EXCEPT ![p] = l]
    BY TypeParts DEF VouchedInv, ControlOK, Continue
  <1>2. ASSUME NEW q \in Procs
        PROVE  CopyVouched(loc'[q].User, proved') /\ CopyVouched(loc'[q].u, proved')
    <2>1. CASE q = p
      BY <1>1, <2>1
    <2>2. CASE q # p
      BY <1>1, <2>2, MoreProof DEF VouchedInv, CopiesVouched
    <2> QED BY <2>1, <2>2
  <1> QED BY <1>2 DEF CopiesVouched

\* with a vouched user in hand,
LEMMA UserTaken ==
  ASSUME VouchedInv, proved \subseteq proved', NEW p \in Procs, NEW u, NEW label,
         \/ Continue(p, [loc[p] EXCEPT !.u = u], label)
         \/ \E id : Continue(p, [loc[p] EXCEPT !.u = u, !.removeUserID = id], label),
         Vouched(u, proved')
  PROVE  CopiesVouched'
  <1>1. loc[p] \in Locals
    BY RequestFacts DEF VouchedInv
  <1>2. CopyVouched(loc[p].User, proved') /\ CopyVouched(u, proved')
    BY MoreProof DEF VouchedInv, CopiesVouched, CopyVouched
  <1>3. CASE Continue(p, [loc[p] EXCEPT !.u = u], label)
    <2> DEFINE l == [loc[p] EXCEPT !.u = u]
    <2>1. l.User = loc[p].User /\ l.u = u
      BY <1>1 DEF Locals
    <2> HIDE DEF l
    <2> QED BY <1>2, <1>3, <2>1, CopyTaken DEF l
  <1>4. ASSUME NEW id, Continue(p, [loc[p] EXCEPT !.u = u, !.removeUserID = id], label)
        PROVE  CopiesVouched'
    <2> DEFINE l == [loc[p] EXCEPT !.u = u, !.removeUserID = id]
    <2>1. l.User = loc[p].User /\ l.u = u
      BY <1>1 DEF Locals
    <2> HIDE DEF l
    <2> QED BY <1>2, <1>4, <2>1, CopyTaken DEF l
  <1> QED BY <1>3, <1>4

\* and one that takes no new copy or returns.
LEMMA NoCopyTaken ==
  ASSUME VouchedInv, proved \subseteq proved', NEW p \in Procs,
         loc' = loc \/ Return(p) \/ \E label : Continue(p, loc[p], label)
  PROVE  CopiesVouched'
  <1>1. CASE loc' = loc
    BY <1>1, MoreProof DEF VouchedInv, CopiesVouched
  <1>2. CASE Return(p)
    <2>1. loc \in [Procs -> Locals] /\ loc' = [loc EXCEPT ![p] = NoLoc]
      BY <1>2, TypeParts DEF VouchedInv, ControlOK, Return
    <2> QED BY <2>1, MoreProof DEF VouchedInv, CopiesVouched, CopyVouched, NoLoc
  <1>3. ASSUME NEW label, Continue(p, loc[p], label)
        PROVE  CopiesVouched'
    BY <1>3, MoreProof, CopyTaken DEF VouchedInv, CopiesVouched
  <1> QED BY <1>1, <1>2, <1>3

\* Most steps take no new copy and save, if anything, the user in hand.
Plain(p) ==
    /\ UNCHANGED proved
    /\ \/ UNCHANGED users
       \/ loc[p].u \in User /\ Save(loc[p].u)
       \/ \E id : users' = RemoveByID(users, id)
    /\ loc' = loc \/ Return(p) \/ \E label : Continue(p, loc[p], label)

LEMMA PlainVouched ==
  ASSUME VouchedInv, NEW p \in Procs, Plain(p)
  PROVE  ConfirmedByProof' /\ CopiesVouched'
  <1>1. loc[p].u \in User => Vouched(loc[p].u, proved')
    BY UserFacts DEF Plain, VouchedInv, CopiesVouched, CopyVouched
  <1> QED BY <1>1, StoreVouched, NoCopyTaken DEF Plain

----------------------------------------------------------------------------
(* The handlers.                                                           *)

\* checkSession reads a user; the rest is plain.
LEMMA SharedVouched ==
  ASSUME VouchedInv, NEW p \in Procs, Shared(p)
  PROVE  ConfirmedByProof' /\ CopiesVouched'
  <1>0. TypeOK /\ loc[p] \in Locals
    BY RequestFacts DEF VouchedInv
  <1>1. CASE GetUserID(p)
    <2> DEFINE l == [loc[p] EXCEPT !.UserID = sessions[arg[p].s]]
    <2>1. l.User = loc[p].User /\ l.u = loc[p].u
      BY <1>0 DEF Locals
    <2>2. UNCHANGED <<users, proved>> /\ \E label : Continue(p, l, label)
      BY <1>1 DEF GetUserID, store, history
    <2>3. CopyVouched(l.User, proved') /\ CopyVouched(l.u, proved')
      BY <2>1, <2>2 DEF VouchedInv, CopiesVouched
    <2> HIDE DEF l
    <2> QED BY <2>2, <2>3, CopyTaken, StoreVouched
  <1>2. CASE LoadUser(p)
    <2> DEFINE user == LoadByID(users, loc[p].UserID)
               l == [loc[p] EXCEPT !.User = user,
                                   !.UserIsGuest = user # Nil /\ GuestUser /\ user.guest]
    <2>1. l.User = user /\ l.u = loc[p].u
      BY <1>0 DEF Locals
    <2>2. UNCHANGED <<users, proved>> /\ \E label : Continue(p, l, label)
      BY <1>2 DEF LoadUser, store, history
    <2>3. CopyVouched(l.User, proved') /\ CopyVouched(l.u, proved')
      BY <2>1, <2>2, FoundVouched DEF VouchedInv, CopiesVouched
    <2> HIDE DEF l
    <2> QED BY <2>2, <2>3, CopyTaken, StoreVouched
  <1>3. CASE SaveAndReturn(p)
    <2>1. pc[p] = "save"
      BY <1>3 DEF SaveAndReturn, At
    <2>2. loc[p].u \in User
      BY <1>0, <2>1, LabelFacts DEF HoldsUser
    <2> QED BY <1>3, <2>2, PlainVouched DEF SaveAndReturn, SaveFails, Plain
  <1>4. CASE RemoveGuest(p)
    BY <1>4, PlainVouched DEF RemoveGuest, Plain, history
  <1> QED BY <1>1, <1>2, <1>3, <1>4 DEF Shared

\* auth creates guests, who have confirmed nothing.
LEMMA SessionVouched ==
  ASSUME VouchedInv, NEW p \in Procs, SessionStep(p)
  PROVE  ConfirmedByProof' /\ CopiesVouched'
  <1>0. TypeOK /\ loc[p] \in Locals
    BY RequestFacts DEF VouchedInv
  <1>1. CASE AuthBegin(p) \/ SignOutBegin(p)
    BY <1>1, PlainVouched
       DEF AuthBegin, SignOutBegin, BeginWithSession, Begin, Plain, store
  <1>2. CASE AuthLoadSession(p)
    <2> DEFINE l == [loc[p] EXCEPT !.UserID = sessions[arg[p].s]]
    <2>1. l.User = loc[p].User /\ l.u = loc[p].u
      BY <1>0 DEF Locals
    <2>2. UNCHANGED <<users, proved>> /\ \E label : Continue(p, l, label)
      BY <1>2 DEF AuthLoadSession, store, history
    <2>3. CopyVouched(l.User, proved') /\ CopyVouched(l.u, proved')
      BY <2>1, <2>2 DEF VouchedInv, CopiesVouched
    <2> HIDE DEF l
    <2> QED BY <2>2, <2>3, CopyTaken, StoreVouched
  <1>3. CASE AuthLoadUser(p) \/ AuthCreateGuest(p)
    BY <1>3, PlainVouched DEF AuthLoadUser, AuthCreateGuest, Plain, store, history
  <1>4. CASE AuthUnbind(p) \/ AuthNoGuest(p) \/ BindGuest(p) \/ SignOutUnbind(p)
    BY <1>4, PlainVouched
       DEF AuthUnbind, AuthNoGuest, BindGuest, SignOutUnbind, Plain, history
  <1>5. CASE SignOutRemoveGuest(p)
    BY <1>5, PlainVouched DEF SignOutRemoveGuest, Plain, history
  <1>6. CASE CreateGuestUser(p)
    <2>1. PICK id \in FreeIds :
            LET u == SetGuest(NewUser(id), TRUE)
            IN  \/ /\ Save(u)
                   /\ Continue(p, [loc[p] EXCEPT !.u = u], "guest.bind")
                \/ SaveFails(u) /\ Return(p)
      BY <1>6 DEF CreateGuestUser
    <2> DEFINE u == SetGuest(NewUser(id), TRUE)
    <2>2. u \in User
      BY NewUserType, SetFlagType DEF FreeIds
    <2>3. UNCHANGED proved
      BY <1>6 DEF CreateGuestUser, history
    <2>4. Vouched(u, proved')
      BY NewUserType, NewUserVouched, SetFlagVouched DEF FreeIds
    <2> HIDE DEF u
    <2>5. CASE Save(u) /\ Continue(p, [loc[p] EXCEPT !.u = u], "guest.bind")
      BY <2>2, <2>3, <2>4, <2>5, StoreVouched, UserTaken
    <2>6. CASE SaveFails(u) /\ Return(p)
      BY <2>3, <2>6, PlainVouched DEF Plain, SaveFails
    <2> QED BY <2>1, <2>5, <2>6 DEF u
  <1> QED BY <1>1, <1>2, <1>3, <1>4, <1>5, <1>6 DEF SessionStep

\* A step that only takes a vouched user in hand.
LEMMA TakeVouched ==
  ASSUME VouchedInv, NEW p \in Procs, NEW u, NEW label, UNCHANGED users,
         proved \subseteq proved', Vouched(u, proved'),
         \/ Continue(p, [loc[p] EXCEPT !.u = u], label)
         \/ \E id : Continue(p, [loc[p] EXCEPT !.u = u, !.removeUserID = id], label)
  PROVE  ConfirmedByProof' /\ CopiesVouched'
  BY StoreVouched, UserTaken

\* register sets an unconfirmed identity, login writes back what it loaded.
LEMMA PasswordVouched ==
  ASSUME VouchedInv, NEW p \in Procs, PasswordStep(p)
  PROVE  ConfirmedByProof' /\ CopiesVouched'
  <1>0. TypeOK /\ loc[p] \in Locals
    BY RequestFacts DEF VouchedInv
  <1>1. CASE SignUpBegin(p) \/ SignInBegin(p)
    BY <1>1, PlainVouched
       DEF SignUpBegin, SignInBegin, BeginWithSession, Begin, Plain, store
  <1>2. CASE SignUpRefuse(p) \/ SignInRefuse(p) \/ SignUpNotFound(p)
    BY <1>2, PlainVouched
       DEF SignUpRefuse, SignInRefuse, SignUpNotFound, Refuse, Plain, store, history
  <1>3. CASE SignUpBind(p) \/ SignInBind(p) \/ SignUpRemoveTemp(p)
    BY <1>3, PlainVouched DEF SignUpBind, SignInBind, SignUpRemoveTemp, Plain, history
  <1>4. CASE SignInSave(p)
    <2>1. loc[p].u \in User
      BY <1>0, <1>4, LabelFacts DEF SignInSave, At, HoldsUser
    <2> QED BY <1>4, <2>1, PlainVouched DEF SignInSave, SaveFails, Plain, history
  <1>5. CASE SignUpTakeOver(p)
    <2> DEFINE l == [loc[p] EXCEPT !.removeUserID = Found(p).id]
    <2>1. l.User = loc[p].User /\ l.u = loc[p].u
      BY <1>0 DEF Locals
    <2>2. UNCHANGED <<users, proved>> /\ Continue(p, l, "signUp.remove")
      BY <1>5 DEF SignUpTakeOver, store, history
    <2>3. CopyVouched(l.User, proved') /\ CopyVouched(l.u, proved')
      BY <2>1, <2>2 DEF VouchedInv, CopiesVouched
    <2> HIDE DEF l
    <2> QED BY <2>2, <2>3, CopyTaken, StoreVouched
  <1>6. CASE SignUpSave(p)
    <2>1. pc[p] = "signUp.save" /\ arg[p].op = "signUp"
      BY <1>0, <1>6, LabelFacts DEF SignUpSave, At, OnRoute
    <2> DEFINE k == arg[p].key
               v(base) == SetPassword(SetUID(base, k, arg[p].uid), k, arg[p].secret)
               w(base, code) == IF ConfirmableUser THEN WithConfirmCode(v(base), k, code)
                                                   ELSE v(base)
    <2>2. PICK base \in SignUpBase(p), code \in Codes :
            \/ /\ Save(w(base, code))
               /\ Continue(p, [loc[p] EXCEPT !.u = w(base, code)], "signUp.bind")
            \/ SaveFails(w(base, code)) /\ Return(p)
      BY <1>6 DEF SignUpSave
    <2>3. k \in Keys /\ arg[p].uid \in UIDs /\ arg[p].secret \in Passwords
      BY <1>0, <2>1, KeyFacts
    <2>4. UNCHANGED proved
      BY <1>6 DEF SignUpSave
    <2>5. base \in User /\ Vouched(base, proved)
      <3>1. ASSUME loc[p].UserIsGuest
            PROVE  /\ SetGuest(loc[p].User, FALSE) \in User
                   /\ Vouched(SetGuest(loc[p].User, FALSE), proved)
        <4>1. loc[p].User \in User
          BY <1>0, <2>1, <3>1, LabelFacts
        <4>2. Vouched(loc[p].User, proved)
          BY <4>1, UserFacts DEF VouchedInv, CopiesVouched, CopyVouched
        <4> QED BY <4>1, <4>2, SetFlagType, SetFlagVouched
      <3>2. \A id \in FreeIds : NewUser(id) \in User /\ Vouched(NewUser(id), proved)
        BY NewUserType, NewUserVouched DEF FreeIds
      <3> QED BY <3>1, <3>2 DEF SignUpBase
    <2>6. SetUID(base, k, arg[p].uid) \in User /\ Vouched(SetUID(base, k, arg[p].uid), proved)
      BY <2>3, <2>5, SetUIDType, SetUIDVouched
    <2>7. v(base) \in User /\ Vouched(v(base), proved)
      BY <2>3, <2>6, SetPasswordType, SetPasswordVouched
    <2> HIDE DEF v
    <2>8. SetConfirmCode(v(base), k, code) \in User /\ Vouched(SetConfirmCode(v(base), k, code), proved)
      BY <2>3, <2>7, SetCodeType, SetCodeVouched
    <2>9. /\ WithConfirmCode(v(base), k, code) \in User
          /\ Vouched(WithConfirmCode(v(base), k, code), proved)
      BY <2>3, <2>8, StampType, StampVouched DEF WithConfirmCode
    <2>10. w(base, code) \in User /\ Vouched(w(base, code), proved')
      BY <2>4, <2>7, <2>9
    <2> HIDE DEF w
    <2>11. CASE Save(w(base, code)) /\ Continue(p, [loc[p] EXCEPT !.u = w(base, code)], "signUp.bind")
      BY <2>4, <2>10, <2>11, StoreVouched, UserTaken
    <2>12. CASE SaveFails(w(base, code)) /\ Return(p)
      BY <2>4, <2>12, PlainVouched DEF Plain, SaveFails
    <2> QED BY <2>2, <2>11, <2>12
  <1>7. CASE SignInLoad(p)
    <2>1. UNCHANGED <<users, proved>>
      BY <1>7 DEF SignInLoad, store
    <2>2. Vouched(Found(p), proved')
      BY <1>7, <2>1, FoundVouched DEF SignInLoad, SignInAccepted, CopyVouched
    <2> QED BY <1>7, <2>1, <2>2, TakeVouched DEF SignInLoad
  <1> QED BY <1>1, <1>2, <1>3, <1>4, <1>5, <1>6, <1>7 DEF PasswordStep

\* A client that enters the code of an identity proves to hold it.
LEMMA ProofGiven ==
  ASSUME NEW p \in Procs, NEW shown \in BOOLEAN, Proves(p, shown)
  PROVE  /\ proved \subseteq proved'
         /\ shown => <<arg[p].key, arg[p].uid>> \in proved'
  BY DEF Proves

\* A user found by its uid, confirmed by a client that has shown it holds it.
LEMMA ConfirmFound ==
  ASSUME VouchedInv, NEW p \in Procs, Found(p) # Nil, arg[p].key \in Keys,
         proved \subseteq proved', <<arg[p].key, arg[p].uid>> \in proved'
  PROVE  Vouched(SetConfirmed(ClearStamp(Found(p), arg[p].key), arg[p].key, TRUE), proved')
  <1> DEFINE k == arg[p].key
             v == ClearStamp(Found(p), k)
  <1>1. Found(p) \in User /\ Vouched(Found(p), proved') /\ GetUID(Found(p), k) = arg[p].uid
    BY RequestFacts, FoundVouched, MoreProof DEF VouchedInv, CopyVouched
  <1>2. v \in User /\ Vouched(v, proved') /\ GetUID(v, k) = arg[p].uid
    BY <1>1, StampType, StampVouched
  <1> HIDE DEF v
  <1>3. Vouched(SetConfirmed(v, k, TRUE), proved')
    BY <1>2, SetConfirmedVouched
  <1> QED BY <1>3 DEF v

\* confirm takes a proof; the other routes of codes confirm nothing.
LEMMA CodeVouched ==
  ASSUME VouchedInv, NEW p \in Procs, CodeStep(p)
  PROVE  ConfirmedByProof' /\ CopiesVouched'
  <1>0. TypeOK /\ loc[p] \in Locals
    BY RequestFacts DEF VouchedInv
  <1>1. CASE ConfirmBegin(p) \/ ResendBegin(p) \/ RequestRecoveryBegin(p) \/ RecoveryBegin(p)
    BY <1>1, PlainVouched
       DEF ConfirmBegin, ResendBegin, RequestRecoveryBegin, RecoveryBegin,
           BeginWithSession, Begin, Plain, store
  <1>2. CASE ConfirmRefuse(p) \/ ResendRefuse(p) \/ RequestRecoveryRefuse(p) \/ RecoveryRefuse(p)
    BY <1>2, PlainVouched
       DEF ConfirmRefuse, ResendRefuse, RequestRecoveryRefuse, RecoveryRefuse, Refuse,
           Plain, store, history
  <1>3. CASE ConfirmLoad(p)
    <2>1. pc[p] = "confirm" /\ arg[p].op = "confirm" /\ Found(p) # Nil /\ UNCHANGED users
      BY <1>0, <1>3, LabelFacts DEF ConfirmLoad, ConfirmAccepted, At, OnRoute, AllRoutes, store
    <2>2. arg[p].key \in Keys
      BY <1>0, <2>1, KeyFacts
    <2>3. proved \subseteq proved' /\ <<arg[p].key, arg[p].uid>> \in proved'
      BY <1>3, ProofGiven DEF ConfirmLoad, ConfirmAccepted
    <2>4. Vouched(SetConfirmed(ClearStamp(Found(p), arg[p].key), arg[p].key, TRUE), proved')
      BY <2>1, <2>2, <2>3, ConfirmFound
    <2> QED BY <1>3, <2>1, <2>3, <2>4, TakeVouched DEF ConfirmLoad
  <1>4. CASE ResendNewCode(p)
    <2>1. pc[p] = "resend" /\ arg[p].op = "resend" /\ UNCHANGED <<users, proved>>
      BY <1>0, <1>4, LabelFacts DEF ResendNewCode, At, OnRoute, AllRoutes, store, history
    <2>2. loc[p].User \in User /\ arg[p].key \in Keys
      BY <1>0, <1>4, <2>1, KeyFacts, RequestFacts DEF ResendNewCode, ResendAccepted
    <2>3. Vouched(loc[p].User, proved)
      BY <2>2, UserFacts DEF VouchedInv, CopiesVouched, CopyVouched
    <2>4. PICK code \in Codes :
            Continue(p, [loc[p] EXCEPT !.u = SetConfirmCode(StampCode(loc[p].User, arg[p].key),
                                                            arg[p].key, code)], "save")
      BY <1>4 DEF ResendNewCode
    <2>5. Vouched(SetConfirmCode(StampCode(loc[p].User, arg[p].key), arg[p].key, code), proved')
      BY <2>1, <2>2, <2>3, StampType, StampVouched, SetCodeVouched
    <2> QED BY <2>1, <2>4, <2>5, TakeVouched
  <1>5. CASE RequestRecoveryLoad(p)
    <2>1. pc[p] = "requestRecovery" /\ UNCHANGED <<users, proved>> /\ Found(p) # Nil
      BY <1>5 DEF RequestRecoveryLoad, RequestRecoveryAccepted, At, store, history
    <2>2. arg[p].op = "requestRecovery"
      BY <1>0, <2>1, LabelFacts DEF OnRoute, AllRoutes
    <2>3. Found(p) \in User /\ arg[p].key \in Keys /\ Vouched(Found(p), proved)
      BY <1>0, <2>1, <2>2, KeyFacts, RequestFacts, FoundVouched DEF CopyVouched
    <2>4. PICK code \in Codes :
            Continue(p, [loc[p] EXCEPT !.u = SetRecoveryCode(StampCode(Found(p), arg[p].key),
                                                             arg[p].key, code)], "save")
      BY <1>5 DEF RequestRecoveryLoad
    <2>5. Vouched(SetRecoveryCode(StampCode(Found(p), arg[p].key), arg[p].key, code), proved')
      BY <2>1, <2>3, StampType, StampVouched, SetCodeVouched
    <2> QED BY <2>1, <2>4, <2>5, TakeVouched
  <1>6. CASE RecoveryLoad(p)
    <2>1. pc[p] = "recovery" /\ UNCHANGED <<users, proved>> /\ Found(p) # Nil
      BY <1>6 DEF RecoveryLoad, RecoveryAccepted, At, store, history
    <2>2. arg[p].op = "recovery"
      BY <1>0, <2>1, LabelFacts DEF OnRoute, AllRoutes
    <2> DEFINE k == arg[p].key
               v == ClearStamp(Found(p), k)
               w == SetPassword(v, k, arg[p].secret)
    <2>3. /\ Found(p) \in User /\ k \in Keys /\ Vouched(Found(p), proved)
          /\ arg[p].secret \in Passwords
      BY <1>0, <2>1, <2>2, KeyFacts, RequestFacts, FoundVouched DEF CopyVouched
    <2>4. v \in User /\ Vouched(v, proved)
      BY <2>3, StampType, StampVouched
    <2>5. w \in User /\ Vouched(w, proved)
      BY <2>3, <2>4, SetPasswordType, SetPasswordVouched
    <2>6. Vouched(NewPassword(Found(p), k, arg[p].secret), proved')
      BY <2>1, <2>3, <2>5, SetCodeVouched DEF NewPassword
    <2> QED BY <1>6, <2>1, <2>6, TakeVouched DEF RecoveryLoad
  <1> QED BY <1>1, <1>2, <1>3, <1>4, <1>5, <1>6 DEF CodeStep

\* link confirms an identity with its code, or finds it confirmed; linking
\* and merging carry over what is vouched for.
LEMMA LinkStepVouched ==
  ASSUME VouchedInv, NEW p \in Procs, LinkStep(p)
  PROVE  ConfirmedByProof' /\ CopiesVouched'
  <1>0. TypeOK /\ loc[p] \in Locals
    BY RequestFacts DEF VouchedInv
  <1>1. CASE InitLinkBegin(p) \/ LinkBegin(p)
    <2>1. \E a : BeginLinkRoute(p, a)
      <3>1. CASE InitLinkBegin(p)
        BY <3>1 DEF InitLinkBegin
      <3>2. CASE LinkBegin(p)
        BY <3>2 DEF LinkBegin
      <3> QED BY <1>1, <3>1, <3>2
    <2> QED BY <2>1, PlainVouched DEF BeginLinkRoute, Begin, Plain, store
  <1>2. CASE InitLinkRefuse(p) \/ LinkRefuse(p) \/ LinkAccountRefuse(p)
    BY <1>2, PlainVouched
       DEF InitLinkRefuse, LinkRefuse, LinkAccountRefuse, Refuse, Plain, store, history
  <1>3. CASE LinkSave(p)
    <2>1. loc[p].u \in User
      BY <1>0, <1>3, LabelFacts DEF LinkSave, At, HoldsUser
    <2> QED BY <1>3, <2>1, PlainVouched DEF LinkSave, SaveFails, Plain, history
  <1>4. CASE InitLinkPrepare(p)
    <2>1. pc[p] = "initLink" /\ arg[p].op = "initLink" /\ UNCHANGED <<users, proved>>
      BY <1>0, <1>4, LabelFacts DEF InitLinkPrepare, At, OnRoute, AllRoutes, store, history
    <2> DEFINE k == arg[p].key
               w(base, code) == IF base.auths[k].confirmed THEN base
                                ELSE StampCode(SetConfirmCode(base, k, code), k)
    <2>2. k \in Keys /\ arg[p].uid \in UIDs
      BY <1>0, <2>1, KeyFacts
    <2>3. PICK base \in InitLinkUser(p), code \in Codes :
            Continue(p, [loc[p] EXCEPT !.u = w(base, code)], "save")
      BY <1>4 DEF InitLinkPrepare
    <2>4. base \in User /\ Vouched(base, proved)
      <3>1. Found(p) # Nil => Found(p) \in User /\ Vouched(Found(p), proved)
        BY <1>0, RequestFacts, FoundVouched DEF CopyVouched
      <3>2. ASSUME NEW id \in UserIds
            PROVE  TempUser(id, k, arg[p].uid) \in User /\ Vouched(TempUser(id, k, arg[p].uid), proved)
        BY <2>2, TempUserType, NewUserType, NewUserVouched, SetFlagType, SetFlagVouched,
           SetUIDVouched DEF TempUser
      <3> QED BY <3>1, <3>2 DEF InitLinkUser, FreeIds
    <2>5. Vouched(StampCode(SetConfirmCode(base, k, code), k), proved)
      BY <2>2, <2>4, SetCodeType, SetCodeVouched, StampVouched
    <2>6. Vouched(w(base, code), proved')
      BY <2>1, <2>4, <2>5
    <2> HIDE DEF w
    <2> QED BY <2>1, <2>3, <2>6, TakeVouched
  <1>5. CASE LinkLoad(p)
    <2>1. pc[p] = "link" /\ Found(p) # Nil /\ UNCHANGED users
      BY <1>5 DEF LinkLoad, LinkAccepted, At, store
    <2>2. arg[p].op = "link"
      BY <1>0, <2>1, LabelFacts DEF OnRoute, AllRoutes
    <2> DEFINE k == arg[p].key
               c == SetConfirmed(ClearStamp(Found(p), k), k, TRUE)
               v == IF Found(p).auths[k].confirmed THEN Found(p) ELSE c
               w == IF Merging(p) THEN v ELSE SetPassword(v, k, arg[p].secret)
    <2>3. Found(p) \in User /\ k \in Keys
      BY <1>0, <2>1, <2>2, KeyFacts, RequestFacts
    <2>4. LinkCodeMatches(p) \in BOOLEAN
      BY DEF LinkCodeMatches
    <2>5. /\ proved \subseteq proved'
          /\ LinkCodeMatches(p) => <<k, arg[p].uid>> \in proved'
      BY <1>5, <2>4, ProofGiven DEF LinkLoad
    <2>6. c \in User /\ (LinkCodeMatches(p) => Vouched(c, proved'))
      BY <2>1, <2>3, <2>5, ConfirmFound, StampType, SetConfirmedType
    <2>7. Vouched(Found(p), proved')
      BY <2>1, <2>5, FoundVouched, MoreProof DEF CopyVouched
    <2>8. Found(p).auths[k].confirmed \/ LinkCodeMatches(p)
      BY <1>5 DEF LinkLoad, LinkAccepted
    <2>9. v \in User /\ Vouched(v, proved')
      BY <2>3, <2>6, <2>7, <2>8
    <2>10. Continue(p, [loc[p] EXCEPT !.u = w], "link.save")
      BY <1>5 DEF LinkLoad
    <2> HIDE DEF v
    <2>11. Vouched(w, proved')
      BY <2>3, <2>9, SetPasswordVouched
    <2> HIDE DEF w
    <2> QED BY <2>1, <2>5, <2>10, <2>11, TakeVouched
  <1>6. CASE LinkAccountRemove(p)
    <2>1. pc[p] = "linkAccount"
      BY <1>6 DEF LinkAccountRemove, At
    <2>2. arg[p].op \in {"link", "otpAuth", "social"}
      BY <1>0, <2>1, LabelFacts DEF OnRoute
    <2>3. loc[p].u \in User /\ loc[p].User \in User /\ arg[p].key \in Keys
      BY <1>0, <1>6, <2>1, <2>2, KeyFacts, LabelFacts, RequestFacts
         DEF HoldsUser, LinkAccountRemove, LinkPossible, CanLink
    <2>4. Vouched(loc[p].u, proved) /\ Vouched(loc[p].User, proved)
      BY <2>3, UserFacts DEF VouchedInv, CopiesVouched, CopyVouched
    <2>5. Vouched(Linked(p), proved)
      BY <2>3, <2>4, LinkVouched, MergeVouched DEF Linked
    <2>6. UNCHANGED proved
      BY <1>6 DEF LinkAccountRemove
    <2>7. CopiesVouched'
      BY <1>6, <2>5, <2>6, UserTaken DEF LinkAccountRemove
    <2>8. ConfirmedByProof'
      BY <1>6, <2>6, StoreVouched DEF LinkAccountRemove
    <2> QED BY <2>7, <2>8
  <1>7. CASE MiddlewareUserID(p)
    <2> DEFINE l == [loc[p] EXCEPT !.UserID = sessions[arg[p].s]]
    <2>1. l.User = loc[p].User /\ l.u = loc[p].u
      BY <1>0 DEF Locals
    <2>2. UNCHANGED <<users, proved>> /\ Continue(p, l, "middleware.load")
      BY <1>7 DEF MiddlewareUserID, store, history
    <2>3. CopyVouched(l.User, proved') /\ CopyVouched(l.u, proved')
      BY <2>1, <2>2 DEF VouchedInv, CopiesVouched
    <2> HIDE DEF l
    <2> QED BY <2>2, <2>3, CopyTaken, StoreVouched
  <1>8. CASE UserMiddleware(p)
    <2>1. UNCHANGED <<users, proved>>
      BY <1>8 DEF UserMiddleware, store, history
    <2>2. CASE Return(p)
      BY <2>1, <2>2, PlainVouched DEF Plain
    <2>3. CASE Continue(p, NoLoc, "getUserID")
      <3>1. CopyVouched(NoLoc.User, proved') /\ CopyVouched(NoLoc.u, proved')
        BY DEF NoLoc, CopyVouched
      <3> QED BY <2>1, <2>3, <3>1, CopyTaken, StoreVouched
    <2> QED BY <1>8, <2>2, <2>3 DEF UserMiddleware
  <1> QED BY <1>1, <1>2, <1>3, <1>4, <1>5, <1>6, <1>7, <1>8 DEF LinkStep

\* otp/auth confirms with the code; otp/code confirms nothing.
LEMMA OTPVouched ==
  ASSUME VouchedInv, NEW p \in Procs, OTPStep(p)
  PROVE  ConfirmedByProof' /\ CopiesVouched'
  <1>0. TypeOK /\ loc[p] \in Locals
    BY RequestFacts DEF VouchedInv
  <1>1. CASE OTPCodeBegin(p) \/ OTPAuthBegin(p)
    BY <1>1, PlainVouched
       DEF OTPCodeBegin, OTPAuthBegin, BeginWithSession, Begin, Plain, store
  <1>2. CASE OTPCodeRefuse(p) \/ OTPAuthRefuse(p)
    BY <1>2, PlainVouched
       DEF OTPCodeRefuse, OTPAuthRefuse, Refuse, Plain, store, history
  <1>3. CASE OTPAuthRemove(p) \/ OTPAuthBind(p)
    BY <1>3, PlainVouched DEF OTPAuthRemove, OTPAuthBind, Plain, history
  <1>4. CASE OTPCodePrepare(p)
    <2>1. pc[p] = "otpCode" /\ arg[p].op = "otpCode" /\ UNCHANGED <<users, proved>>
      BY <1>0, <1>4, LabelFacts DEF OTPCodePrepare, At, OnRoute, AllRoutes, store, history
    <2> DEFINE k == arg[p].key
    <2>2. k \in Keys /\ arg[p].uid \in UIDs
      BY <1>0, <2>1, KeyFacts
    <2>3. PICK base \in OTPCodeUser(p), code \in Codes :
            Continue(p, [loc[p] EXCEPT !.u = SetOTP(StampCode(base, k), k, code)], "save")
      BY <1>4 DEF OTPCodePrepare
    <2>4. base \in User /\ Vouched(base, proved)
      <3>1. Found(p) # Nil => /\ Found(p) \in User /\ SetTemp(Found(p), FALSE) \in User
                              /\ Vouched(Found(p), proved)
                              /\ Vouched(SetTemp(Found(p), FALSE), proved)
        BY <1>0, RequestFacts, FoundVouched, SetFlagType, SetFlagVouched DEF CopyVouched
      <3>2. ASSUME NEW id \in UserIds, NEW b \in BOOLEAN
            PROVE  /\ SetUID(SetGuest(NewUser(id), b), k, arg[p].uid) \in User
                   /\ Vouched(SetUID(SetGuest(NewUser(id), b), k, arg[p].uid), proved)
                   /\ SetUID(SetTemp(NewUser(id), b), k, arg[p].uid) \in User
                   /\ Vouched(SetUID(SetTemp(NewUser(id), b), k, arg[p].uid), proved)
        BY <2>2, NewUserType, NewUserVouched, SetFlagType, SetFlagVouched,
           SetUIDType, SetUIDVouched
      <3> QED BY <3>1, <3>2, FlagsAreBooleans DEF OTPCodeUser, TempUser, FreeIds
    <2>5. Vouched(SetOTP(StampCode(base, k), k, code), proved')
      BY <2>1, <2>2, <2>4, StampType, StampVouched, SetPasswordVouched
    <2> QED BY <2>1, <2>3, <2>5, TakeVouched
  <1>5. ASSUME OTPAuthJoinGuest(p) \/ OTPAuthReplaceGuest(p) \/ OTPAuthLogin(p)
                 \/ OTPAuthLink(p)
        PROVE  /\ UNCHANGED users /\ arg[p].key \in Keys /\ arg[p].uid \in UIDs
               /\ pc[p] = "otpAuth"
               /\ proved \subseteq proved' /\ <<arg[p].key, arg[p].uid>> \in proved'
               /\ Vouched(SetConfirmed(Entered(p), arg[p].key, TRUE), proved')
    <2>1. /\ pc[p] = "otpAuth" /\ OTPAccepted(p) /\ UNCHANGED users
          /\ Proves(p, OTPMatches(p))
      BY <1>5 DEF OTPAuthJoinGuest, OTPAuthReplaceGuest, OTPAuthLogin, OTPAuthLink, At, store
    <2>2. arg[p].op = "otpAuth"
      BY <1>0, <2>1, LabelFacts DEF OnRoute, AllRoutes
    <2>3. arg[p].key \in Keys /\ arg[p].uid \in UIDs
      BY <1>0, <2>1, <2>2, KeyFacts
    <2>4. OTPMatches(p) \in BOOLEAN /\ OTPMatches(p) /\ Found(p) # Nil
      BY <2>1 DEF OTPMatches, OTPAccepted
    <2>5. proved \subseteq proved' /\ <<arg[p].key, arg[p].uid>> \in proved'
      BY <2>1, <2>4, ProofGiven
    <2>6. Vouched(SetConfirmed(Entered(p), arg[p].key, TRUE), proved')
      BY <2>3, <2>4, <2>5, ConfirmFound DEF Entered
    <2> QED BY <2>1, <2>3, <2>5, <2>6
  <1>6. CASE OTPAuthJoinGuest(p)
    <2> DEFINE k == arg[p].key
               v == SetUID(loc[p].User, k, arg[p].uid)
               w == SetGuest(v, FALSE)
    <2>1. loc[p].User \in User
      BY <1>0, <1>5, <1>6, LabelFacts DEF OTPAuthJoinGuest
    <2>2. Vouched(loc[p].User, proved)
      BY <2>1, UserFacts DEF VouchedInv, CopiesVouched, CopyVouched
    <2>3. v \in User /\ Vouched(v, proved) /\ GetUID(v, k) = arg[p].uid
      BY <1>5, <1>6, <2>1, <2>2, SetUIDType, SetUIDVouched
    <2> HIDE DEF v
    <2>4. w \in User /\ Vouched(w, proved) /\ GetUID(w, k) = arg[p].uid
      <3>1. GetUID(SetGuest(v, FALSE), k) = GetUID(v, k)
        BY <2>3 DEF SetGuest, GetUID, User
      <3> QED BY <2>3, <3>1, SetFlagType, SetFlagVouched
    <2> HIDE DEF w
    <2>5. Vouched(SetConfirmed(w, k, TRUE), proved')
      BY <1>5, <1>6, <2>4, MoreProof, SetConfirmedVouched
    <2>6. Continue(p, [loc[p] EXCEPT !.u = SetConfirmed(w, k, TRUE),
                                     !.removeUserID = Found(p).id], "otpAuth.remove")
      BY <1>6 DEF OTPAuthJoinGuest, v, w
    <2> QED BY <1>5, <1>6, <2>5, <2>6, TakeVouched
  <1>7. CASE OTPAuthReplaceGuest(p)
    <2>1. Continue(p, [loc[p] EXCEPT !.u = SetConfirmed(Entered(p), arg[p].key, TRUE),
                                     !.removeUserID = loc[p].UserID], "otpAuth.remove")
      BY <1>7 DEF OTPAuthReplaceGuest
    <2> QED BY <1>5, <1>7, <2>1, TakeVouched
  <1>8. CASE OTPAuthLogin(p) \/ OTPAuthLink(p)
    <2>1. PICK label \in {"otpAuth.bind", "linkAccount"} :
            Continue(p, [loc[p] EXCEPT !.u = SetConfirmed(Entered(p), arg[p].key, TRUE)], label)
      BY <1>8 DEF OTPAuthLogin, OTPAuthLink
    <2> QED BY <1>5, <1>8, <2>1, TakeVouched
  <1>9. CASE OTPAuthSave(p)
    <2>1. pc[p] = "otpAuth.save" /\ loc[p].u \in User
      BY <1>0, <1>9, LabelFacts DEF OTPAuthSave, At, HoldsUser
    <2>2. arg[p].op = "otpAuth"
      BY <1>0, <2>1, LabelFacts DEF OnRoute
    <2>3. arg[p].key \in Keys
      BY <1>0, <2>1, <2>2, KeyFacts
    <2> DEFINE w == Consumed(loc[p].u, arg[p].key)
    <2>4. UNCHANGED proved
      BY <1>9 DEF OTPAuthSave, history
    <2>5. w \in User /\ Vouched(w, proved')
      BY <2>1, <2>3, <2>4, UserFacts, SetPasswordType, SetPasswordVouched
         DEF Consumed, VouchedInv, CopiesVouched, CopyVouched
    <2>6. Save(w) \/ UNCHANGED users
      BY <1>9 DEF OTPAuthSave, SaveFails
    <2> HIDE DEF w
    <2>7. ConfirmedByProof'
      BY <2>4, <2>5, <2>6, StoreVouched
    <2>8. CopiesVouched'
      BY <1>9, <2>4, NoCopyTaken DEF OTPAuthSave
    <2> QED BY <2>7, <2>8
  <1> QED BY <1>1, <1>2, <1>3, <1>4, <1>6, <1>7, <1>8, <1>9 DEF OTPStep

\* The provider's word is proof.
LEMMA SocialVouched ==
  ASSUME VouchedInv, NEW p \in Procs, SocialStep(p)
  PROVE  ConfirmedByProof' /\ CopiesVouched'
  <1>0. TypeOK /\ loc[p] \in Locals
    BY RequestFacts DEF VouchedInv
  <1>1. CASE SocialBegin(p)
    BY <1>1, PlainVouched DEF SocialBegin, BeginWithSession, Begin, Plain, store
  <1>2. CASE SocialRefuse(p)
    BY <1>2, PlainVouched DEF SocialRefuse, Refuse, Plain, store, history
  <1>3. CASE SocialSave(p)
    <2>1. loc[p].u \in User
      BY <1>0, <1>3, LabelFacts DEF SocialSave, At, HoldsUser
    <2> QED BY <1>3, <2>1, PlainVouched DEF SocialSave, SaveFails, Plain, history
  <1>4. CASE SocialBind(p)
    BY <1>4, PlainVouched DEF SocialBind, Plain, history
  <1>5. CASE SocialLoad(p)
    <2>1. pc[p] = "social" /\ arg[p].op = "social" /\ UNCHANGED users
      BY <1>0, <1>5, LabelFacts DEF SocialLoad, At, OnRoute, AllRoutes, store
    <2> DEFINE k == arg[p].key
    <2>2. k \in Keys /\ arg[p].uid \in UIDs
      BY <1>0, <2>1, KeyFacts
    <2>3. proved \subseteq proved' /\ <<k, arg[p].uid>> \in proved'
      BY <1>5, ProofGiven DEF SocialLoad
    <2>4. PICK u \in SocialUser(p) :
            \E label : Continue(p, [loc[p] EXCEPT !.u = u], label)
      BY <1>5 DEF SocialLoad
    <2>5. Vouched(u, proved')
      <3>1. Found(p) # Nil => Vouched(Found(p), proved')
        BY <2>3, FoundVouched, MoreProof DEF CopyVouched
      <3>2. ASSUME NEW id \in UserIds, NEW link \in BOOLEAN
            PROVE  Vouched(NewSocialUser(id, k, arg[p].uid, link), proved')
        <4> DEFINE t == SetTemp(NewUser(id), link)
                   v == SetUID(t, k, arg[p].uid)
        <4>1. t \in User /\ Vouched(t, proved')
          BY NewUserType, NewUserVouched, SetFlagType, SetFlagVouched
        <4> HIDE DEF t
        <4>2. v \in User /\ Vouched(v, proved') /\ GetUID(v, k) = arg[p].uid
          BY <2>2, <4>1, SetUIDType, SetUIDVouched
        <4>3. NewSocialUser(id, k, arg[p].uid, link) =
                IF ConfirmableUser THEN SetConfirmed(v, k, TRUE) ELSE v
          BY DEF NewSocialUser, t
        <4> HIDE DEF v
        <4>4. Vouched(SetConfirmed(v, k, TRUE), proved')
          BY <2>2, <2>3, <4>2, SetConfirmedVouched
        <4> QED BY <4>2, <4>3, <4>4
      <3>3. SignedIn(p) \in BOOLEAN
        BY DEF SignedIn
      <3> QED BY <3>1, <3>2, <3>3 DEF SocialUser, FreeIds
    <2> QED BY <2>1, <2>3, <2>4, <2>5, TakeVouched
  <1> QED BY <1>1, <1>2, <1>3, <1>4, <1>5 DEF SocialStep

\* The profile is saved as it was read.
LEMMA ProfileVouched ==
  ASSUME VouchedInv, NEW p \in Procs, ProfileStep(p)
  PROVE  ConfirmedByProof' /\ CopiesVouched'
  <1>1. CASE ProfileBegin(p)
    BY <1>1, PlainVouched DEF ProfileBegin, BeginWithSession, Begin, Plain, store
  <1>2. CASE ProfileRefuse(p)
    BY <1>2, PlainVouched DEF ProfileRefuse, Refuse, Plain, store, history
  <1>3. CASE UpdateProfile(p)
    <2>1. UNCHANGED <<users, proved>> /\ Vouched(loc[p].User, proved')
      BY <1>3 DEF UpdateProfile, store, history, VouchedInv, CopiesVouched, CopyVouched
    <2> QED BY <1>3, <2>1, TakeVouched DEF UpdateProfile
  <1> QED BY <1>1, <1>2, <1>3 DEF ProfileStep

\* Time confirms nothing, in the storer or in the copies.
LEMMA TickVouched ==
  ASSUME VouchedInv, Tick
  PROVE  ConfirmedByProof' /\ CopiesVouched'
  <1>1. TypeOK /\ Storer(users) /\ proved' = proved
    BY TypeParts DEF VouchedInv, Tick, history
  <1>2. \A u \in User \cup {Nil} :
          CopyVouched(u, proved) => CopyVouched(AgedOrNil(u), proved')
    BY <1>1, AgedVouched, UserFacts DEF AgedOrNil, CopyVouched
  <1>3. ASSUME NEW id \in UserIds
        PROVE  CopyVouched(users'[id], proved')
    <2>1. users'[id] = AgedOrNil(users[id]) /\ users[id] \in User \cup {Nil}
      BY <1>1 DEF Tick, Storer
    <2>2. CopyVouched(users[id], proved)
      BY DEF CopyVouched, VouchedInv, ConfirmedByProof, Stored, Vouched
    <2> QED BY <1>2, <2>1, <2>2
  <1>4. ASSUME NEW p \in Procs
        PROVE  CopyVouched(loc'[p].User, proved') /\ CopyVouched(loc'[p].u, proved')
    <2>1. loc[p] \in Locals
      BY <1>1, RequestFacts
    <2>2. loc'[p].User = AgedOrNil(loc[p].User) /\ loc'[p].u = AgedOrNil(loc[p].u)
      BY <2>1 DEF Tick, Locals
    <2>3. loc[p].User \in User \cup {Nil} /\ loc[p].u \in User \cup {Nil}
      BY <1>1, RequestFacts
    <2> QED BY <1>2, <2>2, <2>3 DEF VouchedInv, CopiesVouched
  <1>5. ConfirmedByProof'
    BY <1>3 DEF ConfirmedByProof, Stored, CopyVouched, Vouched
  <1>6. CopiesVouched'
    BY <1>4 DEF CopiesVouched
  <1> QED BY <1>5, <1>6

----------------------------------------------------------------------------
(* The theorem.                                                            *)

\* A step of the program keeps stored users and copies vouched for.
LEMMA NextVouched == VouchedInv /\ [Next]_vars => VouchedInv'
  <1> SUFFICES ASSUME VouchedInv, [Next]_vars PROVE VouchedInv'
    OBVIOUS
  <1>1. TypeOK'
    BY NextTyped DEF VouchedInv
  <1>2. CASE Tick
    BY <1>1, <1>2, TickVouched DEF VouchedInv
  <1>3. ASSUME NEW p \in Procs, Step(p)
        PROVE  ConfirmedByProof' /\ CopiesVouched'
    BY <1>3, SharedVouched, SessionVouched, PasswordVouched, CodeVouched,
       LinkStepVouched, OTPVouched, SocialVouched, ProfileVouched DEF Step
  <1>4. CASE UNCHANGED vars
    <2>1. UNCHANGED <<users, loc, proved>>
      BY <1>4 DEF vars
    <2> QED BY <1>1, <2>1 DEF VouchedInv, ConfirmedByProof, CopiesVouched, Stored
  <1> QED BY <1>1, <1>2, <1>3, <1>4 DEF Next, VouchedInv

\* An identity counts as confirmed only after a client has entered a code
\* sent to it or a provider has vouched for it: through every interleaving of
\* requests, stale copy, linking, merge and failed save.
THEOREM ConfirmedOnlyByProof == Spec => []ConfirmedByProof
  <1>1. Init => VouchedInv
    <2> SUFFICES ASSUME Init PROVE VouchedInv
      OBVIOUS
    <2>1. TypeOK
      BY InitTyped
    <2>2. ConfirmedByProof /\ CopiesVouched
      BY DEF Init, ConfirmedByProof, CopiesVouched, CopyVouched, Stored, NoLoc
    <2> QED BY <2>1, <2>2 DEF VouchedInv
  <1>2. VouchedInv /\ [Next]_vars => VouchedInv'
    BY NextVouched
  <1>3. VouchedInv => ConfirmedByProof
    BY DEF VouchedInv
  <1> QED BY <1>1, <1>2, <1>3, PTL DEF Spec

----------------------------------------------------------------------------
(* SessionAuthenticated.  A session may act for a user it has shown no     *)
(* credentials of only while that user is a guest nobody else has to do    *)
(* with.                                                                   *)

\* A guest that has no identity yet: there is nothing to log in to it with.
Blank(u) == u.guest /\ u.auths = [k \in Keys |-> ZeroIdentity]

BlankIf(v, id) == v # Nil /\ v.id = id => Blank(v)

\* Wherever a copy of user id is kept, it is blank.
AllBlank(id) ==
    /\ BlankIf(users[id], id)
    /\ \A p \in Procs : BlankIf(loc[p].User, id) /\ BlankIf(loc[p].u, id)

\* Where a handler goes on to bind its session to the user in hand.
Binding == {"guest.bind", "signUp.bind", "signIn.bind", "otpAuth.remove",
            "otpAuth.bind", "social.save", "social.bind"}

InHand(label, l, id) ==
    \/ l.UserID = id
    \/ l.User # Nil /\ l.User.id = id
    \/ label \in Binding /\ l.u.id = id

\* The session acts as user id, or a request of it is about to.
Claims(s, id) ==
    \/ sessions[s] = id
    \/ \E p \in Procs : arg[p].s = s /\ InHand(pc[p], loc[p], id)

SoleAt(id) ==
    \A s \in Sessions :
        Claims(s, id) /\ <<s, id>> \notin authed
          => AllBlank(id) /\ \A t \in Sessions : Claims(t, id) => t = s

SoleClaim == \A id \in UserIds : SoleAt(id)

IdleEmpty == \A p \in Procs : pc[p] = "idle" => loc[p] = NoLoc

SessionInv == TypeOK /\ IdleEmpty /\ SoleClaim

\* The invariant says more than the property: a registered user is not blank.
LEMMA SoleClaimIsEnough == SessionInv => SessionAuthenticated
  <1> SUFFICES ASSUME SessionInv, NEW s \in Sessions, Bound(s),
                      ~users[sessions[s]].guest
               PROVE  <<s, sessions[s]>> \in authed
    BY DEF SessionAuthenticated
  <1> DEFINE id == sessions[s]
  <1>1. id \in UserIds /\ users[id] # Nil /\ users[id].id = id
    BY DEF Bound, Stored, SessionInv, TypeOK
  <1>2. ~AllBlank(id)
    BY <1>1 DEF AllBlank, BlankIf, Blank
  <1> QED BY <1>1, <1>2 DEF SessionInv, SoleClaim, SoleAt, Claims

----------------------------------------------------------------------------
(* What a step has to see to.                                              *)

\* A free id is claimed by nobody, and there is no copy of its user.
LEMMA FreeFacts ==
  ASSUME TypeOK, NEW id \in FreeIds
  PROVE  /\ id \in UserIds /\ users[id] = Nil
         /\ \A s \in Sessions : ~Claims(s, id)
         /\ \A p \in Procs : /\ loc[p].User # Nil => loc[p].User.id # id
                             /\ loc[p].u # Nil => loc[p].u.id # id
  <1>1. id \in UserIds /\ id \notin Referenced /\ id # Nil
    BY NilIsNoValue DEF FreeIds
  <1>2. users[id] = Nil /\ \A s \in Sessions : sessions[s] # id
    BY <1>1 DEF Referenced, Stored
  <1>3. ASSUME NEW p \in Procs
        PROVE  /\ loc[p].UserID # id
               /\ loc[p].User # Nil => loc[p].User.id # id
               /\ loc[p].u # Nil => loc[p].u.id # id
    BY <1>1 DEF Referenced, IdsOf
  <1>4. ASSUME NEW p \in Procs PROVE ~InHand(pc[p], loc[p], id)
    <2>1. pc[p] \in Binding => loc[p].u # Nil
      BY RequestFacts DEF RequestOK, HoldsUser, Binding
    <2> QED BY <1>3, <2>1 DEF InHand
  <1> QED BY <1>1, <1>2, <1>3, <1>4 DEF Claims

\* A copy drawn from copies: of a user nobody has met, or blank if they are;
\* or of one of the users A the session of the step authenticates as.
Drawn(v, A) ==
    v # Nil => v.id \in A \cup FreeIds \/ (AllBlank(v.id) => Blank(v))

\* What the step has the right to do with the users A.
Proven(s, A) ==
    \A id \in A : /\ s \in Sessions /\ <<s, id>> \in authed'
                  /\ id \in FreeIds \/ ~AllBlank(id) \/ Claims(s, id)

\* The invariant holds of id after a step of p that claims for its session s,
\* and copies, only what it has the right to.
LEMMA StepSole ==
  ASSUME SessionInv, TypeOK', NEW p \in Procs, NEW s, NEW A, NEW id \in UserIds,
         \A q \in Procs : q # p => /\ pc'[q] = pc[q] /\ arg'[q] = arg[q]
                                   /\ loc'[q] = loc[q],
         \A t \in Sessions :
            sessions'[t] = id \/ (arg'[p].s = t /\ InHand(pc'[p], loc'[p], id))
              => Claims(t, id) \/ (t = s /\ id \in A),
         Drawn(users'[id], A), Drawn(loc'[p].User, A), Drawn(loc'[p].u, A),
         Proven(s, A),
         \A t : <<t, id>> \in authed => id \in FreeIds \/ <<t, id>> \in authed'
  PROVE  SoleAt(id)'
  <1> SUFFICES ASSUME NEW t \in Sessions, Claims(t, id)', <<t, id>> \notin authed'
               PROVE  AllBlank(id)' /\ \A r \in Sessions : Claims(r, id)' => r = t
    BY DEF SoleAt
  <1>0. TypeOK
    BY DEF SessionInv
  <1>1. ASSUME NEW r \in Sessions, Claims(r, id)'
        PROVE  Claims(r, id) \/ (r = s /\ id \in A)
    <2>1. CASE sessions'[r] = id
      BY <2>1
    <2>2. ASSUME NEW q \in Procs, arg'[q].s = r, InHand(pc'[q], loc'[q], id)
          PROVE  Claims(r, id) \/ (r = s /\ id \in A)
      <3>1. CASE q = p
        BY <2>2, <3>1
      <3>2. CASE q # p
        BY <2>2, <3>2 DEF Claims
      <3> QED BY <3>1, <3>2
    <2> QED BY <1>1, <2>1, <2>2 DEF Claims
  <1>2. ASSUME Claims(t, id), <<t, id>> \notin authed
        PROVE  /\ id \notin FreeIds /\ AllBlank(id)
               /\ \A r \in Sessions : Claims(r, id) => r = t
    BY <1>0, <1>2, FreeFacts DEF SessionInv, SoleClaim, SoleAt
  <1>3. Claims(t, id) /\ <<t, id>> \notin authed
    <2>1. Claims(t, id)
      BY <1>1 DEF Proven
    <2>2. id \notin FreeIds
      BY <1>0, <2>1, FreeFacts
    <2> QED BY <2>1, <2>2
  <1>4. id \notin A
    BY <1>2, <1>3 DEF Proven
  <1>5. ASSUME NEW v, Drawn(v, A) PROVE BlankIf(v, id)
    BY <1>2, <1>3, <1>4, <1>5 DEF Drawn, BlankIf
  <1>6. ASSUME NEW q \in Procs
        PROVE  BlankIf(loc'[q].User, id) /\ BlankIf(loc'[q].u, id)
    <2>1. CASE q = p
      BY <1>5, <2>1
    <2>2. CASE q # p
      BY <1>2, <1>3, <2>2 DEF AllBlank
    <2> QED BY <2>1, <2>2
  <1>7. AllBlank(id)'
    BY <1>5, <1>6 DEF AllBlank
  <1> QED BY <1>1, <1>2, <1>3, <1>4, <1>7

\* The copies there are already
LEMMA OldDrawn ==
  ASSUME TypeOK, NEW p \in Procs, NEW A
  PROVE  /\ Drawn(loc[p].User, A) /\ Drawn(loc[p].u, A) /\ Drawn(Nil, A)
         /\ \A id : Drawn(LoadByID(users, id), A)
  BY DEF Drawn, AllBlank, BlankIf, LoadByID, TypeOK

\* and the storer's after a call.
StoreStep(A) ==
    \/ UNCHANGED users
    \/ \E v \in User : Save(v) /\ Drawn(v, A)
    \/ \E id : users' = RemoveByID(users, id)

LEMMA StoreDrawn ==
  ASSUME TypeOK, NEW A, StoreStep(A), NEW id \in UserIds
  PROVE  Drawn(users'[id], A)
  <1>1. Drawn(users[id], A) /\ Drawn(Nil, A)
    BY DEF Drawn, AllBlank, BlankIf, TypeOK
  <1>2. ASSUME NEW v \in User, Save(v), Drawn(v, A)
        PROVE  Drawn(users'[id], A)
    <2>1. users'[id] = IF id = v.id THEN v ELSE users[id]
      BY <1>2 DEF Save, Put, TypeOK
    <2> QED BY <1>1, <1>2, <2>1
  <1>3. ASSUME NEW i, users' = RemoveByID(users, i)
        PROVE  Drawn(users'[id], A)
    <2>1. users'[id] = IF id = i THEN Nil ELSE users[id]
      BY <1>3 DEF RemoveByID, TypeOK
    <2> QED BY <1>1, <2>1
  <1> QED BY <1>1, <1>2, <1>3 DEF StoreStep

\* The session of the step is left alone, or bound to nobody or to a user the
\* step may claim.
Rebinds(s, A) ==
    \/ UNCHANGED sessions
    \/ \E x : /\ sessions' = [sessions EXCEPT ![s] = x]
              /\ x = Nil \/ x \in A \/ Claims(s, x)

\* A request goes on, with users in hand it may have in hand,
LEMMA ContinueSole ==
  ASSUME SessionInv, TypeOK', NEW p \in Procs, NEW A, NEW l, NEW label,
         label # "idle", Continue(p, l, label),
         \A id \in UserIds : InHand(label, l, id) => Claims(arg[p].s, id) \/ id \in A,
         Drawn(l.User, A), Drawn(l.u, A), StoreStep(A),
         Rebinds(arg[p].s, A), Proven(arg[p].s, A), authed \subseteq authed'
  PROVE  SessionInv'
  <1>0. TypeOK /\ IdleEmpty
    BY DEF SessionInv
  <1>1. /\ pc' = [pc EXCEPT ![p] = label] /\ loc' = [loc EXCEPT ![p] = l] /\ arg' = arg
        /\ pc \in [Procs -> Labels] /\ loc \in [Procs -> Locals]
    BY <1>0 DEF Continue, Goto, TypeOK
  <1>2. pc'[p] = label /\ loc'[p] = l
    BY <1>1
  <1>3. \A q \in Procs : q # p => pc'[q] = pc[q] /\ arg'[q] = arg[q] /\ loc'[q] = loc[q]
    BY <1>1
  <1>4. IdleEmpty'
    BY <1>0, <1>2, <1>3 DEF IdleEmpty
  <1>5. ASSUME NEW t \in Sessions, NEW id \in UserIds, sessions'[t] = id
        PROVE  Claims(t, id) \/ (t = arg[p].s /\ id \in A)
    <2>1. sessions \in [Sessions -> UserIds \cup {Nil}] /\ id # Nil
      BY <1>0, NilIsNoValue DEF TypeOK
    <2> QED BY <1>5, <2>1 DEF Rebinds, Claims
  <1>6. ASSUME NEW id \in UserIds PROVE SoleAt(id)'
    <2>1. Drawn(users'[id], A) /\ Drawn(loc'[p].User, A) /\ Drawn(loc'[p].u, A)
      BY <1>0, <1>2, StoreDrawn
    <2>2. \A t \in Sessions :
            sessions'[t] = id \/ (arg'[p].s = t /\ InHand(pc'[p], loc'[p], id))
              => Claims(t, id) \/ (t = arg[p].s /\ id \in A)
      BY <1>1, <1>2, <1>5
    <2>3. \A t : <<t, id>> \in authed => id \in FreeIds \/ <<t, id>> \in authed'
      OBVIOUS
    <2> QED BY <1>3, <2>1, <2>2, <2>3, StepSole
  <1> QED BY <1>4, <1>6 DEF SessionInv, SoleClaim

\* as it is,
LEMMA PassSole ==
  ASSUME SessionInv, TypeOK', NEW p \in Procs, NEW label,
         label # "idle", Continue(p, loc[p], label),
         label \in Binding => pc[p] \in Binding,
         StoreStep({}), Rebinds(arg[p].s, {}), UNCHANGED authed
  PROVE  SessionInv'
  <1>1. \A id : InHand(label, loc[p], id) => Claims(arg[p].s, id)
    BY DEF InHand, Claims
  <1>2. Drawn(loc[p].User, {}) /\ Drawn(loc[p].u, {})
    BY OldDrawn DEF SessionInv
  <1> QED BY <1>1, <1>2, ContinueSole DEF Proven

\* with another user in hand, and perhaps one to remove,
LEMMA TakeSole ==
  ASSUME SessionInv, TypeOK', NEW p \in Procs, NEW A, NEW u, NEW label, label # "idle",
         \/ Continue(p, [loc[p] EXCEPT !.u = u], label)
         \/ \E id : Continue(p, [loc[p] EXCEPT !.u = u, !.removeUserID = id], label),
         label \in Binding => u.id \in A \/ Claims(arg[p].s, u.id),
         Drawn(u, A), StoreStep(A), UNCHANGED sessions,
         Proven(arg[p].s, A), authed \subseteq authed'
  PROVE  SessionInv'
  <1>1. PICK l : /\ Continue(p, l, label) /\ l.u = u
                 /\ l.User = loc[p].User /\ l.UserID = loc[p].UserID
    <2>1. loc[p] \in Locals
      BY RequestFacts DEF SessionInv
    <2> DEFINE same(l) == l.u = u /\ l.User = loc[p].User /\ l.UserID = loc[p].UserID
    <2>2. /\ same([loc[p] EXCEPT !.u = u])
          /\ \A id : same([loc[p] EXCEPT !.u = u, !.removeUserID = id])
      BY <2>1 DEF Locals
    <2> QED BY <2>2
  <1>2. \A id : InHand(label, l, id) => Claims(arg[p].s, id) \/ id \in A
    BY <1>1 DEF InHand, Claims
  <1>3. Drawn(l.User, A) /\ Drawn(l.u, A)
    BY <1>1, OldDrawn DEF SessionInv
  <1> QED BY <1>1, <1>2, <1>3, ContinueSole DEF Rebinds

\* or returns.
LEMMA ReturnSole ==
  ASSUME SessionInv, TypeOK', NEW p \in Procs, Return(p),
         StoreStep({}), Rebinds(arg[p].s, {}), UNCHANGED authed
  PROVE  SessionInv'
  <1>0. TypeOK /\ IdleEmpty
    BY DEF SessionInv
  <1>1. /\ pc' = [pc EXCEPT ![p] = "idle"] /\ loc' = [loc EXCEPT ![p] = NoLoc]
        /\ arg' = [arg EXCEPT ![p] = NoArg]
        /\ pc \in [Procs -> Labels] /\ loc \in [Procs -> Locals] /\ arg \in [Procs -> Args]
    BY <1>0 DEF Return, Goto, TypeOK
  <1>2. pc'[p] = "idle" /\ loc'[p] = NoLoc
    BY <1>1
  <1>3. \A q \in Procs : q # p => pc'[q] = pc[q] /\ arg'[q] = arg[q] /\ loc'[q] = loc[q]
    BY <1>1
  <1>4. IdleEmpty'
    BY <1>0, <1>2, <1>3 DEF IdleEmpty
  <1>5. NoLoc.User = Nil /\ NoLoc.u = Nil /\ NoLoc.UserID = Nil
    BY DEF NoLoc
  <1>6. ASSUME NEW id \in UserIds PROVE SoleAt(id)'
    <2>1. Drawn(users'[id], {}) /\ Drawn(Nil, {})
      BY <1>0, StoreDrawn, OldDrawn
    <2>2. id # Nil
      BY NilIsNoValue
    <2>3. ~InHand("idle", NoLoc, id)
      BY <1>5, <2>2 DEF InHand, Binding
    <2>4. ASSUME NEW t \in Sessions, sessions'[t] = id PROVE Claims(t, id)
      BY <1>0, <2>2, <2>4 DEF Rebinds, Claims, TypeOK
    <2>5. Drawn(loc'[p].User, {}) /\ Drawn(loc'[p].u, {})
      BY <1>2, <1>5, <2>1
    <2>6. \A t \in Sessions :
            sessions'[t] = id \/ (arg'[p].s = t /\ InHand(pc'[p], loc'[p], id))
              => Claims(t, id) \/ (t = arg[p].s /\ id \in {})
      BY <1>2, <2>3, <2>4
    <2>7. Proven(arg[p].s, {})
      BY DEF Proven
    <2>8. \A t : <<t, id>> \in authed => id \in FreeIds \/ <<t, id>> \in authed'
      OBVIOUS
    <2> QED BY <1>3, <2>1, <2>5, <2>6, <2>7, <2>8, StepSole
  <1> QED BY <1>4, <1>6 DEF SessionInv, SoleClaim

\* A request that arrives has no user in hand.
LEMMA BeginSole ==
  ASSUME SessionInv, TypeOK', NEW p \in Procs, NEW a, NEW label,
         label \in FirstLabels, Begin(p, a, label)
  PROVE  SessionInv'
  <1>0. TypeOK /\ IdleEmpty
    BY DEF SessionInv
  <1>1. /\ pc' = [pc EXCEPT ![p] = label] /\ loc' = loc /\ arg' = [arg EXCEPT ![p] = a]
        /\ authed' = {x \in authed : x[2] \notin FreeIds}
        /\ UNCHANGED <<users, sessions>>
        /\ loc[p] = NoLoc
        /\ pc \in [Procs -> Labels] /\ loc \in [Procs -> Locals] /\ arg \in [Procs -> Args]
    BY <1>0 DEF Begin, At, Goto, store, TypeOK, IdleEmpty
  <1>2. label # "idle" /\ label \notin Binding
    BY DEF FirstLabels, Binding
  <1>3. \A q \in Procs : q # p => pc'[q] = pc[q] /\ arg'[q] = arg[q] /\ loc'[q] = loc[q]
    BY <1>1
  <1>4. IdleEmpty'
    BY <1>0, <1>1, <1>2 DEF IdleEmpty
  <1>5. NoLoc.User = Nil /\ NoLoc.u = Nil /\ NoLoc.UserID = Nil
    BY DEF NoLoc
  <1>6. ASSUME NEW id \in UserIds PROVE SoleAt(id)'
    <2>1. Drawn(users'[id], {}) /\ Drawn(Nil, {})
      BY <1>0, <1>1, StoreDrawn, OldDrawn DEF StoreStep
    <2>2. ~InHand(label, NoLoc, id)
      BY <1>2, <1>5, NilIsNoValue DEF InHand
    <2>3. \A t : <<t, id>> \in authed => id \in FreeIds \/ <<t, id>> \in authed'
      BY <1>1
    <2>4. \A t \in Sessions : sessions'[t] = id => Claims(t, id)
      BY <1>1 DEF Claims
    <2>5. Drawn(loc'[p].User, {}) /\ Drawn(loc'[p].u, {})
      BY <1>1, <1>5, <2>1
    <2>6. \A t \in Sessions :
            sessions'[t] = id \/ (arg'[p].s = t /\ InHand(pc'[p], loc'[p], id))
              => Claims(t, id) \/ (t = arg[p].s /\ id \in {})
      BY <1>1, <2>2, <2>4
    <2>7. Proven(arg[p].s, {})
      BY DEF Proven
    <2> QED BY <1>3, <2>1, <2>3, <2>5, <2>6, <2>7, StepSole
  <1> QED BY <1>4, <1>6 DEF SessionInv, SoleClaim

----------------------------------------------------------------------------
(* Where a handler gets its user from.                                     *)

\* A user found by an identity has one, so no copy rule applies to it.
LEMMA FoundNotBlank ==
  ASSUME TypeOK, NEW p \in Procs, arg[p].key \in Keys, Found(p) # Nil
  PROVE  Found(p) \in User /\ ~AllBlank(Found(p).id)
  <1> DEFINE owners == Owners(users, arg[p].key, arg[p].uid)
             owner == CHOOSE id \in owners : TRUE
  <1>1. owners # {} /\ Found(p) = users[owner]
    BY DEF Found, LoadByUID
  <1>2. owner \in Stored(users) /\ Present(users[owner], arg[p].key)
    BY <1>1 DEF Owners
  <1>3. owner \in UserIds /\ users[owner] # Nil /\ users[owner].id = owner
    BY <1>2 DEF Stored, TypeOK
  <1>4. ~Blank(users[owner])
    BY <1>2 DEF Blank, Present
  <1> QED BY <1>1, <1>3, <1>4, RequestFacts DEF AllBlank, BlankIf

\* Nor to the current user of a request, once it has an identity.
LEMMA CurrentNotBlank ==
  ASSUME TypeOK, NEW p \in Procs, loc[p].User # Nil, ~Blank(loc[p].User)
  PROVE  ~AllBlank(loc[p].User.id)
  BY DEF AllBlank, BlankIf

LEMMA HasIdentity ==
  ASSUME NEW u \in User, NEW k \in Keys, GetUID(u, k) # Empty
  PROVE  ~Blank(u)
  BY DEF Blank, GetUID, ZeroIdentity

LEMMA HasConfirmed ==
  ASSUME NEW u \in User, Confirmed(u)
  PROVE  ~Blank(u)
  BY DEF Blank, Confirmed, ZeroIdentity

\* Setters keep the id.
LEMMA StampId ==
  ASSUME NEW u \in User, NEW k \in Keys
  PROVE  StampCode(u, k).id = u.id /\ ClearStamp(u, k).id = u.id
  BY DEF StampCode, ClearStamp, SetCodeSentTime, User

LEMMA TempUserId ==
  ASSUME NEW id \in UserIds, NEW k \in Keys, NEW uid \in UIDs
  PROVE  TempUser(id, k, uid) \in User /\ TempUser(id, k, uid).id = id
  <1>1. SetTemp(NewUser(id), TRUE) \in User /\ SetTemp(NewUser(id), TRUE).id = id
    BY NewUserType, SetFlagType
  <1> QED BY <1>1, SetUIDType DEF TempUser

LEMMA LinkedId ==
  ASSUME NEW current \in User, NEW link \in User, NEW k \in Keys
  PROVE  /\ LinkIdentity(current, link, k).id = current.id
         /\ MergeIdentities(current, link).id = current.id
  <1> DEFINE v == SetUID(current, k, GetUID(link, k))
             w == IF k \in PasswordKeys THEN SetPassword(v, k, link.auths[k].password) ELSE v
  <1>1. link.auths[k] \in Identity
    BY DEF User
  <1>2. v \in User /\ v.id = current.id
    BY UserFacts, SetUIDType
  <1>3. w \in User /\ w.id = current.id
    BY <1>1, <1>2, SetPasswordType DEF Identity
  <1> HIDE DEF w
  <1>4. SetConfirmed(w, k, link.auths[k].confirmed).id = current.id
    BY <1>1, <1>3, SetConfirmedType DEF Identity
  <1> QED BY <1>4 DEF LinkIdentity, MergeIdentities, User, w

----------------------------------------------------------------------------
(* The handlers.                                                           *)

\* A refused request.
LEMMA RefuseSole ==
  ASSUME SessionInv, TypeOK', NEW p \in Procs, Refuse(p)
  PROVE  SessionInv'
  BY ReturnSole DEF Refuse, store, history, StoreStep, Rebinds

\* checkSession takes the user its session is bound to.
LEMMA SharedSole ==
  ASSUME SessionInv, TypeOK', NEW p \in Procs, Shared(p)
  PROVE  SessionInv'
  <1>0. TypeOK /\ loc[p] \in Locals
    BY RequestFacts DEF SessionInv
  <1>1. CASE GetUserID(p)
    <2> DEFINE id == sessions[arg[p].s]
               l == [loc[p] EXCEPT !.UserID = id]
               label == IF id = Nil THEN arg[p].op ELSE "loadUser"
    <2>1. pc[p] = "getUserID"
      BY <1>1 DEF GetUserID, At
    <2>2. label # "idle" /\ label \notin Binding
      BY <1>0, <2>1, LabelFacts DEF ArgOK, AllRoutes, Binding
    <2>3. Continue(p, l, label) /\ UNCHANGED <<users, sessions, authed>>
      BY <1>1 DEF GetUserID, store, history
    <2>4. l.User = loc[p].User /\ l.u = loc[p].u /\ l.UserID = id
      BY <1>0 DEF Locals
    <2>5. \A i \in UserIds : InHand(label, l, i) => Claims(arg[p].s, i)
      BY <2>2, <2>4 DEF InHand, Claims
    <2>6. Drawn(l.User, {}) /\ Drawn(l.u, {})
      BY <1>0, <2>4, OldDrawn
    <2> HIDE DEF l, label
    <2> QED BY <2>2, <2>3, <2>5, <2>6, ContinueSole DEF StoreStep, Rebinds, Proven
  <1>2. CASE LoadUser(p)
    <2> DEFINE user == LoadByID(users, loc[p].UserID)
               l == [loc[p] EXCEPT !.User = user,
                                   !.UserIsGuest = user # Nil /\ GuestUser /\ user.guest]
               label == arg[p].op
    <2>1. pc[p] = "loadUser"
      BY <1>2 DEF LoadUser, At
    <2>2. label # "idle" /\ label \notin Binding
      BY <1>0, <2>1, LabelFacts DEF ArgOK, AllRoutes, Binding
    <2>3. Continue(p, l, label) /\ UNCHANGED <<users, sessions, authed>>
      BY <1>2 DEF LoadUser, store, history
    <2>4. l.User = user /\ l.u = loc[p].u /\ l.UserID = loc[p].UserID
      BY <1>0 DEF Locals
    <2>5. user # Nil => user.id = loc[p].UserID
      BY <1>0 DEF LoadByID, TypeOK
    <2>6. \A i \in UserIds : InHand(label, l, i) => Claims(arg[p].s, i)
      BY <2>2, <2>4, <2>5 DEF InHand, Claims
    <2>7. Drawn(l.User, {}) /\ Drawn(l.u, {})
      BY <1>0, <2>4, OldDrawn
    <2> HIDE DEF l, label
    <2> QED BY <2>2, <2>3, <2>6, <2>7, ContinueSole DEF StoreStep, Rebinds, Proven
  <1>3. CASE SaveAndReturn(p)
    <2>1. loc[p].u \in User /\ Drawn(loc[p].u, {})
      BY <1>0, <1>3, LabelFacts, OldDrawn DEF SaveAndReturn, At, HoldsUser
    <2>2. StoreStep({})
      BY <1>3, <2>1 DEF SaveAndReturn, SaveFails, StoreStep
    <2> QED BY <1>3, <2>2, ReturnSole DEF SaveAndReturn, Rebinds
  <1>4. CASE RemoveGuest(p)
    BY <1>4, ReturnSole DEF RemoveGuest, Rebinds, StoreStep, history
  <1> QED BY <1>1, <1>2, <1>3, <1>4 DEF Shared

\* The one new claim without credentials: to a guest drawn from the free ids.
LEMMA NewGuestSole ==
  ASSUME SessionInv, TypeOK', NEW p \in Procs, pc[p] = "guest.save",
         NEW id \in FreeIds, NEW u, u = SetGuest(NewUser(id), TRUE), Save(u),
         Continue(p, [loc[p] EXCEPT !.u = u], "guest.bind"),
         UNCHANGED <<sessions, authed>>
  PROVE  SessionInv'
  <1>0. TypeOK /\ IdleEmpty /\ loc[p] \in Locals /\ id \in UserIds
    BY RequestFacts DEF SessionInv, FreeIds
  <1>1. u \in User /\ u.id = id /\ Blank(u)
    <2>1. NewUser(id) \in User /\ NewUser(id).auths = [k \in Keys |-> ZeroIdentity]
      BY <1>0, NewUserType DEF NewUser
    <2> QED BY <1>0, <2>1, SetFlagType, NewUserType DEF Blank, SetGuest, User
  <1> DEFINE l == [loc[p] EXCEPT !.u = u]
  <1>2. /\ pc' = [pc EXCEPT ![p] = "guest.bind"] /\ loc' = [loc EXCEPT ![p] = l]
        /\ arg' = arg
        /\ pc \in [Procs -> Labels] /\ loc \in [Procs -> Locals]
        /\ l.u = u /\ l.User = loc[p].User /\ l.UserID = loc[p].UserID
    BY <1>0 DEF Continue, Goto, TypeOK, Locals
  <1> HIDE DEF l
  <1>3. pc'[p] = "guest.bind" /\ loc'[p] = l
    BY <1>2
  <1>4. \A q \in Procs : q # p => pc'[q] = pc[q] /\ arg'[q] = arg[q] /\ loc'[q] = loc[q]
    BY <1>2
  <1>5. IdleEmpty'
    BY <1>0, <1>3, <1>4 DEF IdleEmpty
  <1>6. users' = [users EXCEPT ![id] = u]
    BY <1>1 DEF Save, Put
  <1>7. \A i \in UserIds : InHand("guest.bind", l, i) => i = id \/ InHand(pc[p], loc[p], i)
    BY <1>1, <1>2 DEF InHand
  <1>8. ASSUME NEW i \in UserIds, i # id PROVE SoleAt(i)'
    <2>1. StoreStep({})
      BY <1>0, <1>1 DEF StoreStep, Drawn
    <2>2. Drawn(users'[i], {}) /\ Drawn(loc'[p].User, {}) /\ Drawn(loc'[p].u, {})
      BY <1>0, <1>1, <1>2, <1>3, <2>1, StoreDrawn, OldDrawn DEF Drawn
    <2>3. \A t \in Sessions :
            sessions'[t] = i \/ (arg'[p].s = t /\ InHand(pc'[p], loc'[p], i))
              => Claims(t, i) \/ (t = arg[p].s /\ i \in {})
      BY <1>2, <1>3, <1>7, <1>8 DEF Claims
    <2>4. Proven(arg[p].s, {})
      BY DEF Proven
    <2>5. \A t : <<t, i>> \in authed => i \in FreeIds \/ <<t, i>> \in authed'
      OBVIOUS
    <2> QED BY <1>4, <2>2, <2>3, <2>4, <2>5, StepSole
  <1>9. SoleAt(id)'
    <2>1. /\ \A s \in Sessions : ~Claims(s, id)
          /\ \A q \in Procs : /\ loc[q].User # Nil => loc[q].User.id # id
                              /\ loc[q].u # Nil => loc[q].u.id # id
      BY <1>0, FreeFacts
    <2>2. AllBlank(id)'
      <3>1. BlankIf(users'[id], id)
        BY <1>0, <1>1, <1>6 DEF BlankIf, TypeOK
      <3>2. ASSUME NEW q \in Procs
            PROVE  BlankIf(loc'[q].User, id) /\ BlankIf(loc'[q].u, id)
        <4>1. CASE q = p
          BY <1>1, <1>2, <1>3, <2>1, <4>1 DEF BlankIf
        <4>2. CASE q # p
          BY <1>4, <2>1, <4>2 DEF BlankIf
        <4> QED BY <4>1, <4>2
      <3> QED BY <3>1, <3>2 DEF AllBlank
    <2>3. ASSUME NEW t \in Sessions, Claims(t, id)' PROVE t = arg[p].s
      <3>1. sessions'[t] # id
        BY <2>1 DEF Claims
      <3>2. PICK q \in Procs : arg'[q].s = t /\ InHand(pc'[q], loc'[q], id)
        BY <2>3, <3>1 DEF Claims
      <3>3. q = p
        BY <1>4, <2>1, <3>2 DEF Claims
      <3> QED BY <1>2, <3>2, <3>3
    <2> QED BY <2>2, <2>3 DEF SoleAt
  <1> QED BY <1>5, <1>8, <1>9 DEF SessionInv, SoleClaim

\* auth and signOut.
LEMMA SessionStepSole ==
  ASSUME SessionInv, TypeOK', NEW p \in Procs, SessionStep(p)
  PROVE  SessionInv'
  <1>0. TypeOK
    BY DEF SessionInv
  <1>1. CASE AuthBegin(p) \/ SignOutBegin(p)
    BY <1>1, BeginSole DEF AuthBegin, SignOutBegin, BeginWithSession, FirstLabels
  <1>2. CASE AuthLoadSession(p)
    <2> DEFINE id == sessions[arg[p].s]
               l == [loc[p] EXCEPT !.UserID = id]
               label == IF id = Nil THEN "auth.guest" ELSE "auth.load"
    <2>1. label # "idle" /\ label \notin Binding
      BY DEF Binding
    <2>2. Continue(p, l, label) /\ UNCHANGED <<users, sessions, authed>>
      BY <1>2 DEF AuthLoadSession, store, history
    <2>3. l.User = loc[p].User /\ l.u = loc[p].u /\ l.UserID = id
      BY <1>0, RequestFacts DEF Locals
    <2>4. \A i \in UserIds : InHand(label, l, i) => Claims(arg[p].s, i)
      BY <2>1, <2>3 DEF InHand, Claims
    <2>5. Drawn(l.User, {}) /\ Drawn(l.u, {})
      BY <1>0, <2>3, OldDrawn
    <2> HIDE DEF l, label
    <2> QED BY <2>1, <2>2, <2>4, <2>5, ContinueSole DEF StoreStep, Rebinds, Proven
  <1>3. CASE AuthLoadUser(p)
    <2>1. PICK label \in {"auth.unbind", "auth.guest"} : Continue(p, loc[p], label)
      BY <1>3 DEF AuthLoadUser
    <2> QED BY <1>3, <2>1, PassSole DEF AuthLoadUser, Binding, StoreStep, Rebinds, store, history
  <1>4. CASE AuthUnbind(p)
    BY <1>4, PassSole DEF AuthUnbind, Binding, StoreStep, Rebinds, history
  <1>5. CASE AuthCreateGuest(p)
    BY <1>5, PassSole DEF AuthCreateGuest, Binding, StoreStep, Rebinds, store, history
  <1>6. CASE AuthNoGuest(p)
    BY <1>6, ReturnSole DEF AuthNoGuest, StoreStep, Rebinds, history
  <1>7. CASE CreateGuestUser(p)
    <2>1. pc[p] = "guest.save" /\ UNCHANGED <<sessions, authed>>
      BY <1>7 DEF CreateGuestUser, At, history
    <2>2. PICK id \in FreeIds :
            LET u == SetGuest(NewUser(id), TRUE)
            IN  \/ /\ Save(u)
                   /\ Continue(p, [loc[p] EXCEPT !.u = u], "guest.bind")
                \/ SaveFails(u) /\ Return(p)
      BY <1>7 DEF CreateGuestUser
    <2>3. CASE UNCHANGED users /\ Return(p)
      BY <2>1, <2>3, ReturnSole DEF StoreStep, Rebinds
    <2> QED BY <2>1, <2>2, <2>3, NewGuestSole DEF SaveFails
  <1>8. CASE BindGuest(p)
    <2>1. pc[p] = "guest.bind" /\ Claims(arg[p].s, loc[p].u.id)
      BY <1>8 DEF BindGuest, At, Claims, InHand, Binding
    <2> QED BY <1>8, <2>1, ReturnSole DEF BindGuest, StoreStep, Rebinds, history
  <1>9. CASE SignOutUnbind(p)
    <2>1. Rebinds(arg[p].s, {}) /\ StoreStep({}) /\ UNCHANGED authed
      BY <1>9 DEF SignOutUnbind, StoreStep, Rebinds, history
    <2>2. Return(p) \/ \E label \in {"signOut.remove", "guest.save"} : Continue(p, loc[p], label)
      BY <1>9 DEF SignOutUnbind
    <2> QED BY <2>1, <2>2, PassSole, ReturnSole DEF Binding
  <1>10. CASE SignOutRemoveGuest(p)
    BY <1>10, PassSole DEF SignOutRemoveGuest, Binding, StoreStep, Rebinds, history
  <1> QED BY <1>1, <1>2, <1>3, <1>4, <1>5, <1>6, <1>7, <1>8, <1>9, <1>10 DEF SessionStep

\* signUp and signIn.
LEMMA PasswordSole ==
  ASSUME SessionInv, TypeOK', NEW p \in Procs, PasswordStep(p)
  PROVE  SessionInv'
  <1>0. TypeOK
    BY DEF SessionInv
  <1>1. CASE SignUpBegin(p) \/ SignInBegin(p)
    BY <1>1, BeginSole DEF SignUpBegin, SignInBegin, BeginWithSession, FirstLabels
  <1>2. CASE SignUpRefuse(p) \/ SignInRefuse(p)
    BY <1>2, RefuseSole DEF SignUpRefuse, SignInRefuse
  <1>3. CASE SignUpTakeOver(p)
    <2> DEFINE l == [loc[p] EXCEPT !.removeUserID = Found(p).id]
    <2>1. Continue(p, l, "signUp.remove") /\ UNCHANGED <<users, sessions, authed>>
      BY <1>3 DEF SignUpTakeOver, store, history
    <2>2. l.User = loc[p].User /\ l.u = loc[p].u /\ l.UserID = loc[p].UserID
      BY <1>0, RequestFacts DEF Locals
    <2>3. \A i \in UserIds : InHand("signUp.remove", l, i) => Claims(arg[p].s, i)
      BY <2>2 DEF InHand, Claims, Binding
    <2>4. Drawn(l.User, {}) /\ Drawn(l.u, {})
      BY <1>0, <2>2, OldDrawn
    <2> HIDE DEF l
    <2> QED BY <2>1, <2>3, <2>4, ContinueSole DEF StoreStep, Rebinds, Proven
  <1>4. CASE SignUpRemoveTemp(p) \/ SignUpNotFound(p)
    BY <1>4, PassSole DEF SignUpRemoveTemp, SignUpNotFound, Binding, StoreStep, Rebinds,
                          store, history
  <1>5. CASE SignUpSave(p)
    <2>1. pc[p] = "signUp.save" /\ arg[p].op = "signUp" /\ UNCHANGED sessions
      BY <1>5, <1>0, LabelFacts DEF SignUpSave, At, OnRoute
    <2> DEFINE k == arg[p].key
               v(base) == SetPassword(SetUID(base, k, arg[p].uid), k, arg[p].secret)
               w(base, code) == IF ConfirmableUser THEN WithConfirmCode(v(base), k, code)
                                                   ELSE v(base)
    <2>2. PICK base \in SignUpBase(p), code \in Codes :
            \/ /\ Save(w(base, code))
               /\ Continue(p, [loc[p] EXCEPT !.u = w(base, code)], "signUp.bind")
               /\ Authenticates(p, w(base, code).id, TRUE)
            \/ SaveFails(w(base, code)) /\ Return(p) /\ UNCHANGED authed
      BY <1>5 DEF SignUpSave
    <2>3. k \in Keys /\ arg[p].uid \in UIDs /\ arg[p].secret \in Passwords /\ arg[p].s \in Sessions
      BY <1>0, <2>1, KeyFacts
    <2>4. base \in User /\ (base.id \in FreeIds \/ Claims(arg[p].s, base.id))
      <3>1. ASSUME loc[p].UserIsGuest
            PROVE  /\ SetGuest(loc[p].User, FALSE) \in User
                   /\ SetGuest(loc[p].User, FALSE).id = loc[p].User.id
                   /\ Claims(arg[p].s, loc[p].User.id)
        <4>1. loc[p].User \in User /\ loc[p].User # Nil
          BY <1>0, <2>1, <3>1, LabelFacts, UserFacts
        <4> QED BY <4>1, SetFlagType DEF Claims, InHand
      <3>2. \A id \in FreeIds : NewUser(id) \in User /\ NewUser(id).id = id
        BY NewUserType DEF FreeIds
      <3>3. CASE GuestUser /\ loc[p].UserIsGuest
        BY <3>1, <3>3 DEF SignUpBase
      <3>4. CASE ~(GuestUser /\ loc[p].UserIsGuest)
        BY <3>2, <3>4 DEF SignUpBase
      <3> QED BY <3>3, <3>4
    <2>5. v(base) \in User /\ v(base).id = base.id
      <3>1. SetUID(base, k, arg[p].uid) \in User /\ SetUID(base, k, arg[p].uid).id = base.id
        BY <2>3, <2>4, SetUIDType
      <3> QED BY <2>3, <3>1, SetPasswordType
    <2>6. WithConfirmCode(v(base), k, code) \in User /\ WithConfirmCode(v(base), k, code).id = base.id
      <3>1. /\ SetConfirmCode(v(base), k, code) \in User
            /\ SetConfirmCode(v(base), k, code).id = base.id
        BY <2>3, <2>5, SetCodeType
      <3> QED BY <2>3, <3>1, StampType, StampId DEF WithConfirmCode
    <2>7. w(base, code) \in User /\ w(base, code).id = base.id
      BY <2>5, <2>6
    <2> HIDE DEF w
    <2>8. CASE SaveFails(w(base, code)) /\ Return(p) /\ UNCHANGED authed
      BY <2>1, <2>8, ReturnSole DEF SaveFails, StoreStep, Rebinds
    <2>9. CASE /\ Save(w(base, code))
               /\ Continue(p, [loc[p] EXCEPT !.u = w(base, code)], "signUp.bind")
               /\ Authenticates(p, w(base, code).id, TRUE)
      <3> DEFINE A == {w(base, code).id}
      <3>1. authed' = authed \cup {<<arg[p].s, w(base, code).id>>}
        BY <2>9 DEF Authenticates
      <3>2. Proven(arg[p].s, A) /\ Drawn(w(base, code), A)
        BY <2>3, <2>4, <2>7, <3>1 DEF Proven, Drawn
      <3>3. StoreStep(A)
        BY <2>7, <2>9, <3>2 DEF StoreStep
      <3> QED BY <2>1, <2>9, <3>1, <3>2, <3>3, TakeSole
    <2> QED BY <2>2, <2>8, <2>9
  <1>6. CASE SignUpBind(p)
    <2>1. Claims(arg[p].s, loc[p].u.id)
      BY <1>6 DEF SignUpBind, At, Claims, InHand, Binding
    <2> QED BY <1>6, <2>1, ReturnSole DEF SignUpBind, StoreStep, Rebinds, history
  <1>7. CASE SignInLoad(p)
    <2>1. pc[p] = "signIn" /\ arg[p].op = "signIn" /\ SignInAccepted(p)
      BY <1>0, <1>7, LabelFacts DEF SignInLoad, At, OnRoute, AllRoutes
    <2>2. arg[p].s \in Sessions /\ arg[p].key \in Keys
      BY <1>0, <2>1, KeyFacts
    <2>3. Found(p) \in User /\ ~AllBlank(Found(p).id)
      BY <1>0, <2>1, <2>2, FoundNotBlank DEF SignInAccepted
    <2> DEFINE A == {Found(p).id}
    <2>4. authed' = authed \cup {<<arg[p].s, Found(p).id>>}
      BY <1>7, <2>1 DEF SignInLoad, SignInAccepted, Authenticates
    <2>5. Proven(arg[p].s, A) /\ Drawn(Found(p), A)
      BY <2>2, <2>3, <2>4 DEF Proven, Drawn
    <2>6. /\ Continue(p, [loc[p] EXCEPT !.u = Found(p)], "signIn.bind")
          /\ UNCHANGED <<users, sessions>>
      BY <1>7 DEF SignInLoad, store
    <2> QED BY <2>4, <2>5, <2>6, TakeSole DEF StoreStep
  <1>8. CASE SignInBind(p)
    <2>1. Claims(arg[p].s, loc[p].u.id)
      BY <1>8 DEF SignInBind, At, Claims, InHand, Binding
    <2> QED BY <1>8, <2>1, PassSole DEF SignInBind, Binding, StoreStep, Rebinds, history
  <1>9. CASE SignInSave(p)
    <2>1. loc[p].u \in User /\ Drawn(loc[p].u, {})
      BY <1>0, <1>9, LabelFacts, OldDrawn DEF SignInSave, At, HoldsUser
    <2>2. StoreStep({}) /\ UNCHANGED <<sessions, authed>>
      BY <1>9, <2>1 DEF SignInSave, SaveFails, StoreStep, history
    <2>3. Return(p) \/ Continue(p, loc[p], "removeGuest")
      BY <1>9 DEF SignInSave
    <2> QED BY <2>2, <2>3, PassSole, ReturnSole DEF Binding, Rebinds
  <1> QED BY <1>1, <1>2, <1>3, <1>4, <1>5, <1>6, <1>7, <1>8, <1>9 DEF PasswordStep

\* A handler that has only read goes on to "save" with a user of an id that is
\* free, or that has an identity.
LEMMA GoSaveSole ==
  ASSUME SessionInv, TypeOK', NEW p \in Procs, NEW u \in User,
         u.id \in FreeIds \/ ~AllBlank(u.id),
         NEW label, label # "idle", label \notin Binding,
         Continue(p, [loc[p] EXCEPT !.u = u], label),
         UNCHANGED <<users, sessions, authed>>
  PROVE  SessionInv'
  <1>1. Drawn(u, {}) /\ Proven(arg[p].s, {}) /\ StoreStep({})
    BY DEF Drawn, Proven, StoreStep
  <1> QED BY <1>1, TakeSole

\* confirm, resend, requestRecovery and recovery.
LEMMA CodeSole ==
  ASSUME SessionInv, TypeOK', NEW p \in Procs, CodeStep(p)
  PROVE  SessionInv'
  <1>0. TypeOK /\ "save" \notin Binding
    BY DEF SessionInv, Binding
  <1>1. CASE ConfirmBegin(p) \/ ResendBegin(p) \/ RequestRecoveryBegin(p) \/ RecoveryBegin(p)
    BY <1>1, BeginSole DEF ConfirmBegin, ResendBegin, RequestRecoveryBegin, RecoveryBegin,
                           BeginWithSession, FirstLabels
  <1>2. CASE ConfirmRefuse(p) \/ ResendRefuse(p) \/ RequestRecoveryRefuse(p) \/ RecoveryRefuse(p)
    BY <1>2, RefuseSole
       DEF ConfirmRefuse, ResendRefuse, RequestRecoveryRefuse, RecoveryRefuse
  <1>3. ASSUME pc[p] \in {"confirm", "requestRecovery", "recovery"}, Found(p) # Nil
        PROVE  /\ arg[p].key \in Keys /\ Found(p) \in User /\ ~AllBlank(Found(p).id)
               /\ pc[p] = "recovery" => arg[p].secret \in Passwords
    <2>1. arg[p].op = pc[p]
      BY <1>0, <1>3, LabelFacts DEF OnRoute, AllRoutes
    <2> QED BY <1>0, <1>3, <2>1, KeyFacts, FoundNotBlank
  <1>4. CASE ConfirmLoad(p)
    <2> DEFINE k == arg[p].key
               u == SetConfirmed(ClearStamp(Found(p), k), k, TRUE)
    <2>1. pc[p] = "confirm" /\ Found(p) # Nil /\ Continue(p, [loc[p] EXCEPT !.u = u], "save")
      BY <1>4 DEF ConfirmLoad, ConfirmAccepted, At
    <2>2. u \in User /\ u.id = Found(p).id
      <3>1. ClearStamp(Found(p), k) \in User /\ ClearStamp(Found(p), k).id = Found(p).id
        BY <1>3, <2>1, StampType, StampId
      <3> QED BY <1>3, <2>1, <3>1, SetConfirmedType
    <2> HIDE DEF u
    <2> QED BY <1>0, <1>3, <1>4, <2>1, <2>2, GoSaveSole DEF ConfirmLoad, store
  <1>5. CASE ResendNewCode(p)
    <2>1. pc[p] = "resend" /\ arg[p].op = "resend"
      BY <1>0, <1>5, LabelFacts DEF ResendNewCode, At, OnRoute, AllRoutes
    <2>2. loc[p].User \in User /\ arg[p].key \in Keys /\ ~AllBlank(loc[p].User.id)
      BY <1>0, <1>5, <2>1, KeyFacts, RequestFacts, CurrentNotBlank, HasIdentity
         DEF ResendNewCode, ResendAccepted
    <2>3. PICK code \in Codes :
            Continue(p, [loc[p] EXCEPT !.u = SetConfirmCode(StampCode(loc[p].User, arg[p].key),
                                                            arg[p].key, code)], "save")
      BY <1>5 DEF ResendNewCode
    <2> DEFINE u == SetConfirmCode(StampCode(loc[p].User, arg[p].key), arg[p].key, code)
    <2>4. u \in User /\ u.id = loc[p].User.id
      <3>1. /\ StampCode(loc[p].User, arg[p].key) \in User
            /\ StampCode(loc[p].User, arg[p].key).id = loc[p].User.id
        BY <2>2, StampType, StampId
      <3> QED BY <2>2, <3>1, SetCodeType
    <2> HIDE DEF u
    <2> QED BY <1>0, <1>5, <2>2, <2>3, <2>4, GoSaveSole DEF ResendNewCode, store, history, u
  <1>6. CASE RequestRecoveryLoad(p)
    <2>1. pc[p] = "requestRecovery" /\ Found(p) # Nil
      BY <1>6 DEF RequestRecoveryLoad, RequestRecoveryAccepted, At
    <2>2. PICK code \in Codes :
            Continue(p, [loc[p] EXCEPT !.u = SetRecoveryCode(StampCode(Found(p), arg[p].key),
                                                             arg[p].key, code)], "save")
      BY <1>6 DEF RequestRecoveryLoad
    <2> DEFINE u == SetRecoveryCode(StampCode(Found(p), arg[p].key), arg[p].key, code)
    <2>3. u \in User /\ u.id = Found(p).id
      <3>1. StampCode(Found(p), arg[p].key) \in User
            /\ StampCode(Found(p), arg[p].key).id = Found(p).id
        BY <1>3, <2>1, StampType, StampId
      <3> QED BY <1>3, <2>1, <3>1, SetCodeType
    <2> HIDE DEF u
    <2> QED BY <1>0, <1>3, <1>6, <2>1, <2>2, <2>3, GoSaveSole
            DEF RequestRecoveryLoad, store, history, u
  <1>7. CASE RecoveryLoad(p)
    <2> DEFINE u == NewPassword(Found(p), arg[p].key, arg[p].secret)
    <2>1. pc[p] = "recovery" /\ Found(p) # Nil /\ Continue(p, [loc[p] EXCEPT !.u = u], "save")
      BY <1>7 DEF RecoveryLoad, RecoveryAccepted, At
    <2>2. u \in User /\ u.id = Found(p).id
      <3> DEFINE v == ClearStamp(Found(p), arg[p].key)
                 w == SetPassword(v, arg[p].key, arg[p].secret)
      <3>1. v \in User /\ v.id = Found(p).id
        BY <1>3, <2>1, StampType, StampId
      <3>2. w \in User /\ w.id = Found(p).id
        BY <1>3, <2>1, <3>1, SetPasswordType
      <3> HIDE DEF w
      <3>3. SetRecoveryCode(w, arg[p].key, Empty) \in User
            /\ SetRecoveryCode(w, arg[p].key, Empty).id = Found(p).id
        BY <1>3, <2>1, <3>2, SetCodeType
      <3> QED BY <3>3 DEF NewPassword, w
    <2> HIDE DEF u
    <2> QED BY <1>0, <1>3, <1>7, <2>1, <2>2, GoSaveSole DEF RecoveryLoad, store, history
  <1> QED BY <1>1, <1>2, <1>4, <1>5, <1>6, <1>7 DEF CodeStep

\* initLink, link and linkAccount: nobody but the current user is claimed.
LEMMA LinkSole ==
  ASSUME SessionInv, TypeOK', NEW p \in Procs, LinkStep(p)
  PROVE  SessionInv'
  <1>0. TypeOK /\ "save" \notin Binding /\ "link.save" \notin Binding /\ "linkAccount" \notin Binding
    BY DEF SessionInv, Binding
  <1>1. CASE InitLinkBegin(p) \/ LinkBegin(p)
    <2>1. \E a : Begin(p, a, "middleware")
      <3>1. CASE InitLinkBegin(p)
        BY <3>1 DEF InitLinkBegin, BeginLinkRoute
      <3>2. CASE LinkBegin(p)
        BY <3>2 DEF LinkBegin, BeginLinkRoute
      <3> QED BY <1>1, <3>1, <3>2
    <2> QED BY <2>1, BeginSole DEF FirstLabels
  <1>2. CASE InitLinkRefuse(p) \/ LinkRefuse(p) \/ LinkAccountRefuse(p)
    BY <1>2, RefuseSole DEF InitLinkRefuse, LinkRefuse, LinkAccountRefuse
  <1>3. CASE InitLinkPrepare(p)
    <2>1. pc[p] = "initLink" /\ arg[p].op = "initLink"
      BY <1>0, <1>3, LabelFacts DEF InitLinkPrepare, At, OnRoute, AllRoutes
    <2>2. arg[p].key \in Keys /\ arg[p].uid \in UIDs
      BY <1>0, <2>1, KeyFacts
    <2> DEFINE k == arg[p].key
               w(base, code) == IF base.auths[k].confirmed THEN base
                                ELSE StampCode(SetConfirmCode(base, k, code), k)
    <2>3. PICK base \in InitLinkUser(p), code \in Codes :
            Continue(p, [loc[p] EXCEPT !.u = w(base, code)], "save")
      BY <1>3 DEF InitLinkPrepare
    <2>4. base \in User /\ (base.id \in FreeIds \/ ~AllBlank(base.id))
      <3>1. \A id \in FreeIds : TempUser(id, k, arg[p].uid) \in User
                                /\ TempUser(id, k, arg[p].uid).id = id
        BY <2>2, TempUserId DEF FreeIds
      <3> QED BY <1>0, <2>2, <3>1, FoundNotBlank DEF InitLinkUser
    <2>5. SetConfirmCode(base, k, code) \in User /\ SetConfirmCode(base, k, code).id = base.id
      BY <2>2, <2>4, SetCodeType
    <2>6. w(base, code) \in User /\ w(base, code).id = base.id
      BY <2>2, <2>4, <2>5, StampType, StampId
    <2> HIDE DEF w
    <2> QED BY <1>0, <1>3, <2>3, <2>4, <2>6, GoSaveSole DEF InitLinkPrepare, store, history
  <1>4. CASE LinkLoad(p)
    <2>1. pc[p] = "link" /\ arg[p].op = "link"
      BY <1>0, <1>4, LabelFacts DEF LinkLoad, At, OnRoute, AllRoutes
    <2>2. /\ Found(p) \in User /\ ~AllBlank(Found(p).id)
          /\ arg[p].key \in Keys /\ arg[p].secret \in Passwords
      BY <1>0, <1>4, <2>1, KeyFacts, FoundNotBlank DEF LinkLoad, LinkAccepted
    <2> DEFINE k == arg[p].key
               c == ClearStamp(Found(p), k)
               v == IF Found(p).auths[k].confirmed THEN Found(p) ELSE SetConfirmed(c, k, TRUE)
               w == IF Merging(p) THEN v ELSE SetPassword(v, k, arg[p].secret)
    <2>3. Continue(p, [loc[p] EXCEPT !.u = w], "link.save")
      BY <1>4 DEF LinkLoad
    <2>4. c \in User /\ c.id = Found(p).id
      BY <2>2, StampType, StampId
    <2>5. v \in User /\ v.id = Found(p).id
      BY <2>2, <2>4, SetConfirmedType
    <2> HIDE DEF v
    <2>6. w \in User /\ w.id = Found(p).id
      BY <2>2, <2>5, SetPasswordType
    <2> HIDE DEF w
    <2> QED BY <1>0, <1>4, <2>2, <2>3, <2>6, GoSaveSole DEF LinkLoad, store
  <1>5. CASE LinkSave(p)
    <2>1. loc[p].u \in User /\ Drawn(loc[p].u, {})
      BY <1>0, <1>5, LabelFacts, OldDrawn DEF LinkSave, At, HoldsUser
    <2>2. StoreStep({}) /\ UNCHANGED <<sessions, authed>>
      BY <1>5, <2>1 DEF LinkSave, SaveFails, StoreStep, history
    <2>3. Return(p) \/ Continue(p, loc[p], "linkAccount")
      BY <1>5 DEF LinkSave
    <2> QED BY <2>2, <2>3, PassSole, ReturnSole DEF Binding, Rebinds
  <1>6. CASE LinkAccountRemove(p)
    <2>1. pc[p] = "linkAccount" /\ arg[p].op \in {"link", "otpAuth", "social"}
      BY <1>0, <1>6, LabelFacts DEF LinkAccountRemove, At, OnRoute
    <2>2. loc[p].u \in User /\ arg[p].key \in Keys
      BY <1>0, <2>1, KeyFacts, LabelFacts DEF HoldsUser
    <2>3. loc[p].User \in User /\ loc[p].User # Nil /\ Confirmed(loc[p].User)
      BY <1>0, <1>6, RequestFacts DEF LinkAccountRemove, LinkPossible, CanLink
    <2>4. Linked(p) \in User /\ Linked(p).id = loc[p].User.id
      BY <2>2, <2>3, LinkIdentityType, MergeIdentitiesType, LinkedId DEF Linked
    <2>5. ~AllBlank(loc[p].User.id) /\ Claims(arg[p].s, loc[p].User.id)
      BY <1>0, <2>3, HasConfirmed, CurrentNotBlank DEF Claims, InHand
    <2>6. Drawn(Linked(p), {}) /\ Proven(arg[p].s, {})
      BY <2>4, <2>5 DEF Drawn, Proven
    <2>7. /\ \E label \in {"social.save", "save"} :
               Continue(p, [loc[p] EXCEPT !.u = Linked(p)], label)
          /\ UNCHANGED <<sessions, authed>> /\ StoreStep({})
      BY <1>6 DEF LinkAccountRemove, StoreStep
    <2> QED BY <2>4, <2>5, <2>6, <2>7, TakeSole
  <1>7. CASE MiddlewareUserID(p)
    <2> DEFINE id == sessions[arg[p].s]
               l == [loc[p] EXCEPT !.UserID = id]
    <2>1. pc[p] = "middleware" /\ loc[p] \in Locals
      BY <1>0, <1>7, RequestFacts DEF MiddlewareUserID, At
    <2>2. Continue(p, l, "middleware.load") /\ UNCHANGED <<users, sessions, authed>>
      BY <1>7 DEF MiddlewareUserID, store, history
    <2>3. l.User = loc[p].User /\ l.u = loc[p].u /\ l.UserID = id
      BY <2>1 DEF Locals
    <2>4. \A i \in UserIds : InHand("middleware.load", l, i) => Claims(arg[p].s, i)
      BY <2>1, <2>3 DEF InHand, Claims, Binding
    <2>5. Drawn(l.User, {}) /\ Drawn(l.u, {})
      BY <1>0, <2>3, OldDrawn
    <2> HIDE DEF l
    <2> QED BY <2>1, <2>2, <2>4, <2>5, ContinueSole DEF StoreStep, Rebinds, Proven, Binding
  <1>8. CASE UserMiddleware(p)
    <2>1. UNCHANGED <<users, sessions, authed>> /\ (Return(p) => Refuse(p))
      BY <1>8 DEF UserMiddleware, store, history, Refuse
    <2>2. CASE Return(p)
      BY <2>1, <2>2, RefuseSole
    <2>3. CASE Continue(p, NoLoc, "getUserID")
      <3>1. StoreStep({}) /\ Rebinds(arg[p].s, {}) /\ Proven(arg[p].s, {})
            /\ authed \subseteq authed'
        BY <2>1 DEF StoreStep, Rebinds, Proven
      <3>2. \A i \in UserIds : InHand("getUserID", NoLoc, i)
                              => Claims(arg[p].s, i) \/ i \in {}
        BY NilIsNoValue DEF InHand, NoLoc, Binding
      <3>3. Drawn(NoLoc.User, {}) /\ Drawn(NoLoc.u, {})
        BY DEF NoLoc, Drawn
      <3>4. "getUserID" # "idle"
        OBVIOUS
      <3> HIDE DEF NoLoc
      <3> QED BY <2>3, <3>1, <3>2, <3>3, <3>4, ContinueSole
    <2> QED BY <1>8, <2>2, <2>3 DEF UserMiddleware
  <1> QED BY <1>1, <1>2, <1>3, <1>4, <1>5, <1>6, <1>7, <1>8 DEF LinkStep

\* A code taken from a guest that is blank still leaves it blank.
LEMMA ConsumedDrawn ==
  ASSUME NEW u \in User, NEW k \in Keys, NEW A, Drawn(u, A)
  PROVE  Consumed(u, k) \in User /\ Drawn(Consumed(u, k), A)
  <1>1. Consumed(u, k) \in User /\ Consumed(u, k).id = u.id
    BY SetPasswordType DEF Consumed
  <1>2. ASSUME Blank(u) PROVE Blank(Consumed(u, k))
    <2>1. Consumed(u, k).guest = u.guest
      BY DEF Consumed, SetOTP, User
    <2>2. Consumed(u, k).auths = [u.auths EXCEPT ![k].password = Empty]
      BY DEF Consumed, SetOTP, User
    <2>3. u.auths = [j \in Keys |-> ZeroIdentity]
      BY <1>2 DEF Blank
    <2>4. [ZeroIdentity EXCEPT !.password = Empty] = ZeroIdentity
      <3>1. ZeroIdentity \in Identity /\ ZeroIdentity.password = Empty
        BY DEF ZeroIdentity, Identity
      <3>2. \A y \in Identity : [y EXCEPT !.password = y.password] = y
        BY DEF Identity
      <3> QED BY <3>1, <3>2
    <2>5. Consumed(u, k).auths = [j \in Keys |-> ZeroIdentity]
      BY <2>2, <2>3, <2>4
    <2> QED BY <1>2, <2>1, <2>5 DEF Blank
  <1> QED BY <1>1, <1>2, UserFacts DEF Drawn

\* otpCode and otpAuth.
LEMMA OTPSole ==
  ASSUME SessionInv, TypeOK', NEW p \in Procs, OTPStep(p)
  PROVE  SessionInv'
  <1>0. TypeOK /\ "save" \notin Binding /\ "linkAccount" \notin Binding
    BY DEF SessionInv, Binding
  <1>1. CASE OTPCodeBegin(p) \/ OTPAuthBegin(p)
    <2>1. \E a : Begin(p, a, "getUserID")
      <3>1. CASE OTPCodeBegin(p)
        BY <3>1 DEF OTPCodeBegin, BeginWithSession
      <3>2. CASE OTPAuthBegin(p)
        BY <3>2 DEF OTPAuthBegin, BeginWithSession
      <3> QED BY <1>1, <3>1, <3>2
    <2> QED BY <2>1, BeginSole DEF FirstLabels
  <1>2. CASE OTPCodeRefuse(p) \/ OTPAuthRefuse(p)
    BY <1>2, RefuseSole DEF OTPCodeRefuse, OTPAuthRefuse
  <1>3. CASE OTPCodePrepare(p)
    <2>1. pc[p] = "otpCode" /\ arg[p].op = "otpCode"
      BY <1>0, <1>3, LabelFacts DEF OTPCodePrepare, At, OnRoute, AllRoutes
    <2>2. arg[p].key \in Keys /\ arg[p].uid \in UIDs
      BY <1>0, <2>1, KeyFacts
    <2> DEFINE k == arg[p].key
               u(base, code) == SetOTP(StampCode(base, k), k, code)
    <2>3. PICK base \in OTPCodeUser(p), code \in Codes :
            Continue(p, [loc[p] EXCEPT !.u = u(base, code)], "save")
      BY <1>3 DEF OTPCodePrepare
    <2>4. base \in User /\ (base.id \in FreeIds \/ ~AllBlank(base.id))
      <3>1. ASSUME NEW id \in FreeIds
            PROVE  /\ TempUser(id, k, arg[p].uid) \in User
                   /\ TempUser(id, k, arg[p].uid).id = id
                   /\ SetUID(SetGuest(NewUser(id), GuestUser), k, arg[p].uid) \in User
                   /\ SetUID(SetGuest(NewUser(id), GuestUser), k, arg[p].uid).id = id
        <4>1. id \in UserIds
          BY DEF FreeIds
        <4>2. SetGuest(NewUser(id), GuestUser) \in User /\ SetGuest(NewUser(id), GuestUser).id = id
          BY <4>1, NewUserType, SetFlagType, FlagsAreBooleans
        <4> QED BY <2>2, <4>1, <4>2, TempUserId, SetUIDType
      <3>2. Found(p) # Nil => /\ Found(p) \in User /\ ~AllBlank(Found(p).id)
                              /\ SetTemp(Found(p), FALSE) \in User
                              /\ SetTemp(Found(p), FALSE).id = Found(p).id
        BY <1>0, <2>2, FoundNotBlank, SetFlagType
      <3> QED BY <3>1, <3>2 DEF OTPCodeUser
    <2>5. StampCode(base, k) \in User /\ StampCode(base, k).id = base.id
      BY <2>2, <2>4, StampType, StampId
    <2>6. u(base, code) \in User /\ u(base, code).id = base.id
      BY <2>2, <2>5, SetPasswordType
    <2> HIDE DEF u
    <2> QED BY <1>0, <1>3, <2>3, <2>4, <2>6, GoSaveSole DEF OTPCodePrepare, store, history
  <1>4. ASSUME OTPAuthJoinGuest(p) \/ OTPAuthReplaceGuest(p) \/ OTPAuthLogin(p)
                 \/ OTPAuthLink(p)
        PROVE  /\ pc[p] = "otpAuth" /\ OTPMatches(p) /\ UNCHANGED <<users, sessions>>
               /\ arg[p].key \in Keys /\ arg[p].uid \in UIDs /\ arg[p].s \in Sessions
               /\ Found(p) \in User /\ ~AllBlank(Found(p).id)
               /\ SetConfirmed(Entered(p), arg[p].key, TRUE) \in User
               /\ SetConfirmed(Entered(p), arg[p].key, TRUE).id = Found(p).id
    <2>1. pc[p] = "otpAuth" /\ OTPAccepted(p) /\ UNCHANGED <<users, sessions>>
      BY <1>4 DEF OTPAuthJoinGuest, OTPAuthReplaceGuest, OTPAuthLogin, OTPAuthLink, At, store
    <2>2. arg[p].op = "otpAuth"
      BY <1>0, <2>1, LabelFacts DEF OnRoute, AllRoutes
    <2>3. arg[p].key \in Keys /\ arg[p].uid \in UIDs /\ arg[p].s \in Sessions
      BY <1>0, <2>1, <2>2, KeyFacts
    <2>4. Found(p) \in User /\ ~AllBlank(Found(p).id) /\ OTPMatches(p)
      BY <1>0, <2>1, <2>3, FoundNotBlank DEF OTPAccepted
    <2>5. Entered(p) \in User /\ Entered(p).id = Found(p).id
      BY <2>3, <2>4, StampType, StampId DEF Entered
    <2> QED BY <2>1, <2>3, <2>4, <2>5, SetConfirmedType
  <1>5. CASE OTPAuthJoinGuest(p)
    <2>1. loc[p].User \in User /\ loc[p].User # Nil
      BY <1>0, <1>4, <1>5, LabelFacts, UserFacts DEF OTPAuthJoinGuest
    <2> DEFINE k == arg[p].key
               v == SetGuest(SetUID(loc[p].User, k, arg[p].uid), FALSE)
               u == SetConfirmed(v, k, TRUE)
               A == {loc[p].User.id}
    <2>2. SetUID(loc[p].User, k, arg[p].uid) \in User
          /\ SetUID(loc[p].User, k, arg[p].uid).id = loc[p].User.id
      BY <1>4, <1>5, <2>1, SetUIDType
    <2>3. v \in User /\ v.id = loc[p].User.id
      BY <2>2, SetFlagType
    <2> HIDE DEF v
    <2>4. u \in User /\ u.id = loc[p].User.id
      BY <1>4, <1>5, <2>3, SetConfirmedType
    <2>5. Continue(p, [loc[p] EXCEPT !.u = u, !.removeUserID = Found(p).id], "otpAuth.remove")
      BY <1>5 DEF OTPAuthJoinGuest, v
    <2>6. authed' = authed \cup {<<arg[p].s, loc[p].User.id>>}
      BY <1>4, <1>5 DEF OTPAuthJoinGuest, Authenticates
    <2>7. Proven(arg[p].s, A) /\ Drawn(u, A)
      BY <1>4, <1>5, <2>1, <2>4, <2>6 DEF Proven, Drawn, Claims, InHand
    <2> HIDE DEF u
    <2> QED BY <1>4, <1>5, <2>4, <2>5, <2>6, <2>7, TakeSole DEF StoreStep
  <1>6. CASE OTPAuthReplaceGuest(p) \/ OTPAuthLogin(p)
    <2> DEFINE u == SetConfirmed(Entered(p), arg[p].key, TRUE)
               A == {Found(p).id}
    <2>1. u.id = Found(p).id
      BY <1>4, <1>6
    <2>2. \/ Continue(p, [loc[p] EXCEPT !.u = u, !.removeUserID = loc[p].UserID], "otpAuth.remove")
          \/ Continue(p, [loc[p] EXCEPT !.u = u], "otpAuth.bind")
      BY <1>6 DEF OTPAuthReplaceGuest, OTPAuthLogin
    <2>3. authed' = authed \cup {<<arg[p].s, Found(p).id>>}
      BY <1>4, <1>6 DEF OTPAuthReplaceGuest, OTPAuthLogin, Authenticates
    <2>4. Proven(arg[p].s, A) /\ Drawn(u, A)
      BY <1>4, <1>6, <2>1, <2>3 DEF Proven, Drawn
    <2> HIDE DEF u
    <2> QED BY <1>4, <1>6, <2>1, <2>2, <2>3, <2>4, TakeSole DEF StoreStep
  <1>7. CASE OTPAuthLink(p)
    BY <1>0, <1>4, <1>7, GoSaveSole DEF OTPAuthLink
  <1>8. CASE OTPAuthRemove(p)
    <2>1. pc[p] \in Binding
      BY <1>8 DEF OTPAuthRemove, At, Binding
    <2> QED BY <1>8, <2>1, PassSole DEF OTPAuthRemove, StoreStep, Rebinds, history
  <1>9. CASE OTPAuthBind(p)
    <2>1. Claims(arg[p].s, loc[p].u.id)
      BY <1>9 DEF OTPAuthBind, At, Claims, InHand, Binding
    <2> QED BY <1>9, <2>1, PassSole DEF OTPAuthBind, Binding, StoreStep, Rebinds
  <1>10. CASE OTPAuthSave(p)
    <2>1. pc[p] = "otpAuth.save" /\ arg[p].op = "otpAuth" /\ loc[p].u \in User
      BY <1>0, <1>10, LabelFacts DEF OTPAuthSave, At, OnRoute, HoldsUser
    <2> DEFINE u == Consumed(loc[p].u, arg[p].key)
    <2>2. u \in User /\ Drawn(u, {})
      BY <1>0, <2>1, KeyFacts, OldDrawn, ConsumedDrawn
    <2> HIDE DEF u
    <2>3. StoreStep({})
      BY <1>10, <2>2 DEF OTPAuthSave, SaveFails, StoreStep, u
    <2> QED BY <1>10, <2>3, ReturnSole DEF OTPAuthSave, Rebinds, history
  <1> QED BY <1>1, <1>2, <1>3, <1>5, <1>6, <1>7, <1>8, <1>9, <1>10 DEF OTPStep

\* social and profile.
LEMMA SocialSole ==
  ASSUME SessionInv, TypeOK', NEW p \in Procs, SocialStep(p)
  PROVE  SessionInv'
  <1>0. TypeOK
    BY DEF SessionInv
  <1>1. CASE SocialBegin(p)
    BY <1>1, BeginSole DEF SocialBegin, BeginWithSession, FirstLabels
  <1>2. CASE SocialRefuse(p)
    BY <1>2, RefuseSole DEF SocialRefuse
  <1>3. CASE SocialLoad(p)
    <2>1. pc[p] = "social" /\ arg[p].op = "social"
      BY <1>0, <1>3, LabelFacts DEF SocialLoad, At, OnRoute, AllRoutes
    <2>2. arg[p].key \in Keys /\ arg[p].uid \in UIDs /\ arg[p].s \in Sessions
      BY <1>0, <2>1, KeyFacts
    <2>3. PICK u \in SocialUser(p) :
            /\ Continue(p, [loc[p] EXCEPT !.u = u],
                        IF SignedIn(p) THEN "linkAccount" ELSE "social.save")
            /\ Authenticates(p, u.id, ~SignedIn(p))
      BY <1>3 DEF SocialLoad
    <2>4. u \in User /\ (u.id \in FreeIds \/ ~AllBlank(u.id))
      <3>1. ASSUME NEW id \in UserIds, NEW link \in BOOLEAN
            PROVE  /\ NewSocialUser(id, arg[p].key, arg[p].uid, link) \in User
                   /\ NewSocialUser(id, arg[p].key, arg[p].uid, link).id = id
        <4> DEFINE v == SetUID(SetTemp(NewUser(id), link), arg[p].key, arg[p].uid)
        <4>1. SetTemp(NewUser(id), link) \in User /\ SetTemp(NewUser(id), link).id = id
          BY NewUserType, SetFlagType
        <4>2. v \in User /\ v.id = id
          BY <2>2, <4>1, SetUIDType
        <4> HIDE DEF v
        <4>3. SetConfirmed(v, arg[p].key, TRUE) \in User
              /\ SetConfirmed(v, arg[p].key, TRUE).id = id
          BY <2>2, <4>2, SetConfirmedType
        <4> QED BY <4>2, <4>3 DEF NewSocialUser, v
      <3>2. SignedIn(p) \in BOOLEAN
        BY DEF SignedIn
      <3> QED BY <1>0, <2>2, <3>1, <3>2, FoundNotBlank DEF SocialUser, FreeIds
    <2>5. UNCHANGED <<users, sessions>>
      BY <1>3 DEF SocialLoad, store
    <2>6. CASE SignedIn(p)
      <3>1. UNCHANGED authed
        BY <2>3, <2>6 DEF Authenticates
      <3> QED BY <2>3, <2>4, <2>5, <2>6, <3>1, GoSaveSole DEF Binding
    <2>7. CASE ~SignedIn(p)
      <3> DEFINE A == {u.id}
      <3>1. authed' = authed \cup {<<arg[p].s, u.id>>}
        BY <2>3, <2>7 DEF Authenticates
      <3>2. Proven(arg[p].s, A) /\ Drawn(u, A)
        BY <2>2, <2>4, <3>1 DEF Proven, Drawn
      <3> QED BY <2>3, <2>5, <2>7, <3>1, <3>2, TakeSole DEF StoreStep
    <2> QED BY <2>6, <2>7
  <1>4. CASE SocialSave(p)
    <2>1. pc[p] = "social.save" /\ loc[p].u \in User /\ Drawn(loc[p].u, {})
      BY <1>0, <1>4, LabelFacts, OldDrawn DEF SocialSave, At, HoldsUser
    <2>2. StoreStep({}) /\ UNCHANGED <<sessions, authed>>
      BY <1>4, <2>1 DEF SocialSave, SaveFails, StoreStep, history
    <2>3. Return(p) \/ Continue(p, loc[p], "social.bind")
      BY <1>4 DEF SocialSave
    <2> QED BY <2>1, <2>2, <2>3, PassSole, ReturnSole DEF Binding, Rebinds
  <1>5. CASE SocialBind(p)
    <2>1. Claims(arg[p].s, loc[p].u.id)
      BY <1>5 DEF SocialBind, At, Claims, InHand, Binding
    <2>2. Rebinds(arg[p].s, {}) /\ StoreStep({}) /\ UNCHANGED authed
      BY <1>5, <2>1 DEF SocialBind, Rebinds, StoreStep, history
    <2>3. Return(p) \/ Continue(p, loc[p], "removeGuest")
      BY <1>5 DEF SocialBind
    <2> QED BY <2>2, <2>3, PassSole, ReturnSole DEF Binding
  <1> QED BY <1>1, <1>2, <1>3, <1>4, <1>5 DEF SocialStep

LEMMA ProfileSole ==
  ASSUME SessionInv, TypeOK', NEW p \in Procs, ProfileStep(p)
  PROVE  SessionInv'
  <1>1. CASE ProfileBegin(p)
    BY <1>1, BeginSole DEF ProfileBegin, BeginWithSession, FirstLabels
  <1>2. CASE ProfileRefuse(p)
    BY <1>2, RefuseSole DEF ProfileRefuse
  <1>3. CASE UpdateProfile(p)
    <2>1. Drawn(loc[p].User, {}) /\ Proven(arg[p].s, {}) /\ "save" \notin Binding
      BY OldDrawn DEF SessionInv, Proven, Binding
    <2>2. /\ Continue(p, [loc[p] EXCEPT !.u = loc[p].User], "save")
          /\ UNCHANGED <<users, sessions, authed>>
      BY <1>3 DEF UpdateProfile, store, history
    <2> QED BY <2>1, <2>2, TakeSole DEF StoreStep
  <1> QED BY <1>1, <1>2, <1>3 DEF ProfileStep

\* Time changes nobody's hands, and a blank guest stays blank.
LEMMA TickSole ==
  ASSUME SessionInv, TypeOK', Tick
  PROVE  SessionInv'
  <1>0. TypeOK /\ IdleEmpty /\ SoleClaim
    BY DEF SessionInv
  <1>1. ASSUME NEW v \in User \cup {Nil}
        PROVE  /\ AgedOrNil(v) = Nil <=> v = Nil
               /\ v # Nil => /\ AgedOrNil(v).id = v.id
                             /\ Blank(v) => Blank(AgedOrNil(v))
    <2>1. CASE v = Nil
      BY <2>1 DEF AgedOrNil
    <2>2. ASSUME v \in User, v # Nil
          PROVE  Aged(v) # Nil /\ Aged(v).id = v.id /\ (Blank(v) => Blank(Aged(v)))
      <3>1. Aged(v) \in User /\ Aged(v).id = v.id /\ Aged(v) # Nil
        BY <2>2, AgedType, UserFacts
      <3>2. Aged(v).guest = v.guest
        BY <2>2 DEF Aged, User
      <3>3. ASSUME Blank(v), NEW k \in Keys PROVE Aged(v).auths[k] = ZeroIdentity
        BY <2>2, <3>3, AgedType DEF Blank, Present
      <3>4. Aged(v).auths \in [Keys -> Identity]
        BY <3>1 DEF User
      <3> QED BY <3>1, <3>2, <3>3, <3>4 DEF Blank
    <2> QED BY <2>1, <2>2 DEF AgedOrNil
  <1>2. ASSUME NEW p \in Procs
        PROVE  /\ loc'[p].User = AgedOrNil(loc[p].User) /\ loc'[p].u = AgedOrNil(loc[p].u)
               /\ loc'[p].UserID = loc[p].UserID
               /\ loc[p] = NoLoc => loc'[p] = NoLoc
    <2>1. loc'[p] = [loc[p] EXCEPT !.User = AgedOrNil(@), !.u = AgedOrNil(@)]
      BY DEF Tick
    <2>2. loc[p] \in Locals
      BY <1>0, RequestFacts
    <2>3. loc[p] = NoLoc => loc'[p] = NoLoc
      <3>1. \A l \in Locals : [l EXCEPT !.User = l.User, !.u = l.u] = l
        BY DEF Locals
      <3>2. NoLoc.User = Nil /\ NoLoc.u = Nil /\ AgedOrNil(Nil) = Nil
        BY DEF NoLoc, AgedOrNil
      <3> QED BY <2>1, <2>2, <3>1, <3>2
    <2> QED BY <2>1, <2>2, <2>3 DEF Locals
  <1>3. UNCHANGED <<sessions, pc, arg, authed>>
    BY DEF Tick, history
  <1>4. ASSUME NEW p \in Procs, NEW id \in UserIds, InHand(pc'[p], loc'[p], id)
        PROVE  InHand(pc[p], loc[p], id)
    <2>1. pc[p] \in Binding => loc[p].u # Nil
      BY <1>0, RequestFacts DEF RequestOK, HoldsUser, Binding
    <2> QED BY <1>0, <1>1, <1>2, <1>3, <1>4, <2>1, RequestFacts DEF InHand
  <1>5. ASSUME NEW s \in Sessions, NEW id \in UserIds, Claims(s, id)' PROVE Claims(s, id)
    BY <1>3, <1>4, <1>5 DEF Claims
  <1>6. ASSUME NEW id \in UserIds, AllBlank(id) PROVE AllBlank(id)'
    <2>1. users'[id] = AgedOrNil(users[id]) /\ users[id] \in User \cup {Nil}
      BY <1>0 DEF Tick, TypeOK
    <2>2. ASSUME NEW v \in User \cup {Nil}, BlankIf(v, id) PROVE BlankIf(AgedOrNil(v), id)
      BY <1>1, <2>2 DEF BlankIf
    <2>3. \A p \in Procs : loc[p].User \in User \cup {Nil} /\ loc[p].u \in User \cup {Nil}
      BY <1>0, RequestFacts
    <2> QED BY <1>2, <1>6, <2>1, <2>2, <2>3 DEF AllBlank
  <1>7. SoleClaim'
    BY <1>0, <1>3, <1>5, <1>6 DEF SoleClaim, SoleAt
  <1>8. IdleEmpty'
    BY <1>0, <1>2, <1>3 DEF IdleEmpty
  <1> QED BY <1>7, <1>8 DEF SessionInv

----------------------------------------------------------------------------
\* The program starts with nobody bound to anybody.
LEMMA InitSole == Init => SessionInv
  <1> SUFFICES ASSUME Init PROVE SessionInv
    OBVIOUS
  <1>1. TypeOK /\ IdleEmpty
    BY InitTyped DEF Init, IdleEmpty
  <1>2. ASSUME NEW s \in Sessions, NEW id \in UserIds PROVE ~Claims(s, id)
    BY NilIsNoValue DEF Init, NoLoc, Claims, InHand, Binding
  <1> QED BY <1>1, <1>2 DEF SessionInv, SoleClaim, SoleAt

LEMMA NextSole == SessionInv /\ [Next]_vars => SessionInv'
  <1> SUFFICES ASSUME SessionInv, [Next]_vars PROVE SessionInv'
    OBVIOUS
  <1>0. TypeOK'
    BY NextTyped DEF SessionInv
  <1>1. CASE Tick
    BY <1>0, <1>1, TickSole
  <1>2. ASSUME NEW p \in Procs, Step(p) PROVE SessionInv'
    BY <1>0, <1>2, SharedSole, SessionStepSole, PasswordSole, CodeSole, LinkSole,
       OTPSole, SocialSole, ProfileSole DEF Step
  <1>3. CASE UNCHANGED vars
    <2>1. UNCHANGED <<users, sessions, pc, arg, loc, authed>>
      BY <1>3 DEF vars
    <2> QED BY <1>0, <2>1 DEF SessionInv, SoleClaim, SoleAt, IdleEmpty, Claims, AllBlank
  <1> QED BY <1>1, <1>2, <1>3 DEF Next

\* No session ever acts for a registered user it has neither registered nor
\* presented the password, the code or the social token of, for any number of
\* concurrent requests, sessions, users and methods: a user that becomes
\* registered under a session was this session's guest and nobody else's.
THEOREM SessionsAuthenticated == Spec => []SessionAuthenticated
  <1>1. Init => SessionInv
    BY InitSole
  <1>2. SessionInv /\ [Next]_vars => SessionInv'
    BY NextSole
  <1>3. SessionInv => SessionAuthenticated
    BY SoleClaimIsEnough
  <1> QED BY <1>1, <1>2, <1>3, PTL DEF Spec
----------------------------------------------------------------------------
(* OTPsExpire and CodesExpireTogether, for every life time.  The sent time *)
(* a record remembers is never younger than the codes it stands for.       *)

\* The kinds of code an identity with the key is sent.
KindsOf(k) == IF k \in OTPKeys THEN {"otp"} ELSE {"confirmation", "recovery"}

CodeKeys == PasswordKeys \cup OTPKeys

\* Every sent time the user remembers is that of a code sent to the identity,
\* or earlier.
Dated(u, ages) ==
    \A k \in CodeKeys :
        SentAt(u, k) # Nil =>
          /\ GetUID(u, k) \in UIDs
          /\ \E kind \in KindsOf(k) :
               LET age == ages[kind][<<k, GetUID(u, k)>>]
               IN  age # Nil /\ age <= SentAt(u, k)

CopyDated(u, ages) == u # Nil => Dated(u, ages)

StoredDated == \A id \in UserIds : CopyDated(users[id], codeAge)

CopiesDated ==
    \A p \in Procs : CopyDated(loc[p].User, codeAge) /\ CopyDated(loc[p].u, codeAge)

DatedInv == TypeOK /\ codeAge \in CodeAges /\ StoredDated /\ CopiesDated

----------------------------------------------------------------------------
(* What the setters do to the times a user remembers.                      *)

\* Every time v remembers, u remembers of the same identity.
Inherits(v, u) ==
    \A k \in Keys : \/ SentAt(v, k) = Nil
                    \/ SentAt(v, k) = SentAt(u, k) /\ GetUID(v, k) = GetUID(u, k)

\* What is inherited is dated as well.
LEMMA InheritsDated ==
  ASSUME NEW u, NEW v, NEW ages, Dated(u, ages), Inherits(v, u)
  PROVE  Dated(v, ages)
  BY DEF Dated, Inherits, CodeKeys, Keys

\* A new user remembers nothing.
LEMMA NewUserDated ==
  ASSUME NEW id, NEW ages
  PROVE  Dated(NewUser(id), ages)
  BY DEF Dated, NewUser, SentAt, ZeroIdentity, CodeKeys, Keys

\* A new uid comes without a time, and nothing else but StampCode touches it.
LEMMA SetUIDInherits ==
  ASSUME NEW u \in User, NEW k \in Keys, NEW uid
  PROVE  Inherits(SetUID(u, k, uid), u) /\ GetUID(SetUID(u, k, uid), k) = uid
  BY DEF Inherits, SetUID, SentAt, GetUID, User, Identity, ZeroIdentity

LEMMA SetPasswordInherits ==
  ASSUME NEW u \in User, NEW k \in Keys, NEW v
  PROVE  /\ Inherits(SetPassword(u, k, v), u)
         /\ GetUID(SetPassword(u, k, v), k) = GetUID(u, k)
         /\ Inherits(SetOTP(u, k, v), u)
  <1>1. Inherits(SetPassword(u, k, v), u) /\ GetUID(SetPassword(u, k, v), k) = GetUID(u, k)
    BY DEF Inherits, SetPassword, SentAt, GetUID, User, Identity
  <1>2. Inherits(SetOTP(u, k, v), u)
    BY DEF Inherits, SetOTP, SentAt, GetUID, User, Identity
  <1> QED BY <1>1, <1>2

LEMMA SetCodeInherits ==
  ASSUME NEW u \in User, NEW k \in Keys, NEW v
  PROVE  /\ Inherits(SetConfirmCode(u, k, v), u)
         /\ GetUID(SetConfirmCode(u, k, v), k) = GetUID(u, k)
         /\ Inherits(SetRecoveryCode(u, k, v), u)
  <1>1. /\ Inherits(SetConfirmCode(u, k, v), u)
        /\ GetUID(SetConfirmCode(u, k, v), k) = GetUID(u, k)
    BY DEF Inherits, SetConfirmCode, SentAt, GetUID, User, Identity
  <1>2. Inherits(SetRecoveryCode(u, k, v), u)
    BY DEF Inherits, SetRecoveryCode, SentAt, GetUID, User, Identity
  <1> QED BY <1>1, <1>2

LEMMA SetConfirmedInherits ==
  ASSUME NEW u \in User, NEW k \in Keys, NEW b
  PROVE  Inherits(SetConfirmed(u, k, b), u)
  BY DEF Inherits, SetConfirmed, SentAt, GetUID, User, Identity

LEMMA SetFlagInherits ==
  ASSUME NEW u \in User, NEW b
  PROVE  /\ Inherits(SetGuest(u, b), u) /\ Inherits(SetTemp(u, b), u)
         /\ \A k \in Keys : GetUID(SetTemp(u, b), k) = GetUID(u, k)
  BY DEF Inherits, SetGuest, SetTemp, SentAt, GetUID, User

LEMMA ClearInherits ==
  ASSUME NEW u \in User, NEW k \in Keys
  PROVE  Inherits(ClearStamp(u, k), u)
  <1>1. Inherits(SetCodeSentTime(u, k, Nil), u)
    BY DEF Inherits, SetCodeSentTime, SentAt, GetUID, User, Identity
  <1> QED BY <1>1 DEF ClearStamp, Inherits

\* Linking moves the identity without its time, and so does merging.
LEMMA LinkInherits ==
  ASSUME NEW current \in User, NEW link \in User, NEW k \in Keys
  PROVE  Inherits(LinkIdentity(current, link, k), current)
  <1> DEFINE v == SetUID(current, k, GetUID(link, k))
             w == IF k \in PasswordKeys THEN SetPassword(v, k, link.auths[k].password) ELSE v
  <1>1. link.auths[k].password \in Passwords \cup Codes \cup {Empty}
    BY DEF User, Identity
  <1>2. v \in User /\ Inherits(v, current)
    BY UserFacts, SetUIDType, SetUIDInherits
  <1>3. LinkIdentity(current, link, k) = SetConfirmed(w, k, link.auths[k].confirmed)
    BY DEF LinkIdentity
  <1> HIDE DEF v
  <1>4. w \in User /\ Inherits(w, v)
    BY <1>1, <1>2, SetPasswordType, SetPasswordInherits DEF Inherits
  <1> HIDE DEF w
  <1>5. Inherits(LinkIdentity(current, link, k), w)
    BY <1>3, <1>4, SetConfirmedInherits
  <1> QED BY <1>2, <1>4, <1>5 DEF Inherits

LEMMA MergeInherits ==
  ASSUME NEW current \in User, NEW link \in User
  PROVE  Inherits(MergeIdentities(current, link), current)
  <1>1. ASSUME NEW k \in Keys
        PROVE  LET m == MergeIdentities(current, link)
               IN  m.auths[k] = current.auths[k] \/ m.auths[k].sentAt = Nil
    <2>1. MergeIdentities(current, link).auths[k] =
            IF Moves(current, link, k) THEN Moved(link, k) ELSE current.auths[k]
      BY DEF MergeIdentities, User
    <2>2. Moved(link, k).sentAt = Nil
      BY DEF Moved, ZeroIdentity
    <2> QED BY <2>1, <2>2
  <1> QED BY <1>1 DEF Inherits, SentAt, GetUID

\* StampCode needs a code sent just now.
LEMMA StampDated ==
  ASSUME NEW u \in User, NEW ages, Dated(u, ages), NEW k \in CodeKeys, GetUID(u, k) \in UIDs,
         NEW kind \in KindsOf(k), ages[kind][<<k, GetUID(u, k)>>] = 0
  PROVE  Dated(StampCode(u, k), ages)
  <1>1. 0 # Nil /\ 0 <= 0
    BY NilIsNoValue, MaxAgeIsNat DEF Ages
  <1> DEFINE v == SetCodeSentTime(u, k, 0)
  <1>2. /\ SentAt(v, k) = 0 /\ GetUID(v, k) = GetUID(u, k)
        /\ \A j \in CodeKeys \ {k} : SentAt(v, j) = SentAt(u, j) /\ GetUID(v, j) = GetUID(u, j)
    BY DEF SetCodeSentTime, SentAt, GetUID, User, Identity, CodeKeys, Keys
  <1> HIDE DEF v
  <1>3. Dated(v, ages)
    <2>1. ASSUME NEW j \in CodeKeys, SentAt(v, j) # Nil
          PROVE  /\ GetUID(v, j) \in UIDs
                 /\ \E x \in KindsOf(j) : /\ ages[x][<<j, GetUID(v, j)>>] # Nil
                                          /\ ages[x][<<j, GetUID(v, j)>>] <= SentAt(v, j)
      <3>1. CASE j = k
        BY <1>1, <1>2, <3>1
      <3>2. CASE j # k
        BY <1>2, <2>1, <3>2 DEF Dated
      <3> QED BY <3>1, <3>2
    <2> QED BY <2>1 DEF Dated
  <1> QED BY <1>3 DEF StampCode, v

----------------------------------------------------------------------------
(* The ages of codes.                                                      *)

\* A request that sends a code of the kind to x makes its age nought; no step
\* of a request makes a code older.
LEMMA Fresher ==
  ASSUME Ageing, ~Tick, NEW kind \in Kinds, NEW x \in Keys \X UIDs
  PROVE  /\ codeAge'[kind][x] \in {codeAge[kind][x], 0}
         /\ \A p \in Procs : Sends(p, kind) /\ SentTo(p) = x => codeAge'[kind][x] = 0
  BY DEF Ageing

\* The ages stay ages.
LEMMA AgeingTyped ==
  ASSUME codeAge \in CodeAges, Ageing
  PROVE  codeAge' \in CodeAges
  <1>1. \A t \in Ages \cup {Nil} : Older(t) \in Ages \cup {Nil}
    BY MaxAgeIsNat DEF Older, Ages
  <1>2. 0 \in Ages
    BY MaxAgeIsNat DEF Ages
  <1>3. \A kind \in Kinds, x \in Keys \X UIDs : codeAge[kind][x] \in Ages \cup {Nil}
    BY DEF CodeAges
  <1> QED BY <1>1, <1>2, <1>3 DEF Ageing, CodeAges

\* What is dated stays dated while nothing grows older.
LEMMA StaysDated ==
  ASSUME Ageing, ~Tick, NEW u \in User \cup {Nil}, CopyDated(u, codeAge)
  PROVE  CopyDated(u, codeAge')
  <1> SUFFICES ASSUME u # Nil, NEW k \in CodeKeys, SentAt(u, k) # Nil
               PROVE  /\ GetUID(u, k) \in UIDs
                      /\ \E kind \in KindsOf(k) :
                           LET age == codeAge'[kind][<<k, GetUID(u, k)>>]
                           IN  age # Nil /\ age <= SentAt(u, k)
    BY DEF CopyDated, Dated
  <1> DEFINE x == <<k, GetUID(u, k)>>
  <1>1. GetUID(u, k) \in UIDs
    BY DEF CopyDated, Dated
  <1>2. PICK kind \in KindsOf(k) :
          codeAge[kind][x] # Nil /\ codeAge[kind][x] <= SentAt(u, k)
    BY DEF CopyDated, Dated
  <1>3. kind \in Kinds /\ x \in Keys \X UIDs
    BY <1>1 DEF KindsOf, Kinds, CodeKeys, Keys
  <1>4. codeAge'[kind][x] \in {codeAge[kind][x], 0}
    BY <1>3, Fresher
  <1>5. SentAt(u, k) \in Ages
    BY DEF User, Identity, SentAt, CodeKeys, Keys
  <1>6. 0 # Nil /\ 0 <= SentAt(u, k)
    BY <1>5, NilIsNoValue, MaxAgeIsNat DEF Ages
  <1> QED BY <1>1, <1>2, <1>4, <1>6

\* What the user named in the request remembers is dated, under its uid.
LEMMA FoundDated ==
  ASSUME DatedInv, NEW p \in Procs
  PROVE  /\ CopyDated(Found(p), codeAge)
         /\ Found(p) # Nil => GetUID(Found(p), arg[p].key) = arg[p].uid
         /\ \A id : CopyDated(LoadByID(users, id), codeAge)
  <1>1. ASSUME NEW id PROVE CopyDated(LoadByID(users, id), codeAge)
    BY DEF LoadByID, CopyDated, DatedInv, StoredDated
  <1> DEFINE owners == Owners(users, arg[p].key, arg[p].uid)
             owner == CHOOSE id \in owners : TRUE
  <1>2. CASE owners = {}
    BY <1>1, <1>2 DEF Found, LoadByUID, CopyDated
  <1>3. CASE owners # {}
    <2>1. owner \in owners
      BY <1>3
    <2>2. owner \in UserIds /\ GetUID(users[owner], arg[p].key) = arg[p].uid
      BY <2>1 DEF Owners, Stored
    <2>3. Found(p) = users[owner]
      BY <1>3 DEF Found, LoadByUID
    <2> QED BY <1>1, <2>2, <2>3 DEF DatedInv, StoredDated
  <1> QED BY <1>1, <1>2, <1>3

----------------------------------------------------------------------------
(* Loads, saves and copies.                                                *)

\* A step of a request, which makes no code older
Acts == Ageing /\ ~Tick

\* Whatever a request has at hand is dated after its step as well.
LEMMA Carried ==
  ASSUME DatedInv, Acts, NEW p \in Procs
  PROVE  /\ CopyDated(Found(p), codeAge')
         /\ CopyDated(loc[p].User, codeAge') /\ CopyDated(loc[p].u, codeAge')
         /\ \A id : CopyDated(LoadByID(users, id), codeAge')
  <1>1. Storer(users) /\ TypeOK
    BY TypeParts DEF DatedInv
  <1>2. CopyDated(Found(p), codeAge')
    BY <1>1, RequestFacts, FoundDated, StaysDated DEF Acts
  <1>3. CopyDated(loc[p].User, codeAge') /\ CopyDated(loc[p].u, codeAge')
    BY <1>1, RequestFacts, StaysDated DEF Acts, DatedInv, CopiesDated
  <1>4. \A id : CopyDated(LoadByID(users, id), codeAge')
    BY <1>1, LoadType, FoundDated, StaysDated DEF Acts
  <1> QED BY <1>2, <1>3, <1>4

\* Stored users stay dated if the user saved, if any, is.
LEMMA StoreDated ==
  ASSUME DatedInv, Acts,
         \/ UNCHANGED users
         \/ \E u \in User : Dated(u, codeAge') /\ Save(u)
         \/ \E id : users' = RemoveByID(users, id)
  PROVE  StoredDated'
  <1>1. Storer(users)
    BY TypeParts DEF DatedInv
  <1>2. \A id \in UserIds : CopyDated(users[id], codeAge')
    BY <1>1, StaysDated DEF Acts, DatedInv, StoredDated, Storer
  <1>3. ASSUME NEW id \in UserIds
        PROVE  CopyDated(users'[id], codeAge')
    <2>1. CASE UNCHANGED users
      BY <1>2, <2>1
    <2>2. ASSUME NEW u \in User, Dated(u, codeAge'), Save(u)
          PROVE  CopyDated(users'[id], codeAge')
      <3>1. users'[id] = IF id = u.id THEN u ELSE users[id]
        BY <1>1, <2>2 DEF Save, Put, Storer
      <3> QED BY <1>2, <2>2, <3>1 DEF CopyDated
    <2>3. ASSUME NEW i, users' = RemoveByID(users, i)
          PROVE  CopyDated(users'[id], codeAge')
      <3>1. users'[id] = IF id = i THEN Nil ELSE users[id]
        BY <1>1, <2>3 DEF RemoveByID, Storer
      <3> QED BY <1>2, <3>1 DEF CopyDated
    <2> QED BY <2>1, <2>2, <2>3
  <1> QED BY <1>3 DEF StoredDated

\* A request that goes on with dated copies leaves all copies dated,
LEMMA CopyKept ==
  ASSUME DatedInv, Acts, NEW p \in Procs, NEW l, NEW label,
         Continue(p, l, label),
         CopyDated(l.User, codeAge'), CopyDated(l.u, codeAge')
  PROVE  CopiesDated'
  <1>1. loc \in [Procs -> Locals] /\ loc' = [loc EXCEPT ![p] = l]
    BY TypeParts DEF DatedInv, ControlOK, Continue
  <1>2. ASSUME NEW q \in Procs
        PROVE  CopyDated(loc'[q].User, codeAge') /\ CopyDated(loc'[q].u, codeAge')
    <2>1. CASE q = p
      BY <1>1, <2>1
    <2>2. CASE q # p
      BY <1>1, <2>2, Carried
    <2> QED BY <2>1, <2>2
  <1> QED BY <1>2 DEF CopiesDated

\* with a dated user in hand,
LEMMA UserKept ==
  ASSUME DatedInv, Acts, NEW p \in Procs, NEW u, NEW label,
         \/ Continue(p, [loc[p] EXCEPT !.u = u], label)
         \/ \E id : Continue(p, [loc[p] EXCEPT !.u = u, !.removeUserID = id], label),
         Dated(u, codeAge')
  PROVE  CopiesDated'
  <1>1. loc[p] \in Locals
    BY RequestFacts DEF DatedInv
  <1>2. CopyDated(loc[p].User, codeAge') /\ CopyDated(u, codeAge')
    BY Carried DEF CopyDated
  <1>3. CASE Continue(p, [loc[p] EXCEPT !.u = u], label)
    <2> DEFINE l == [loc[p] EXCEPT !.u = u]
    <2>1. l.User = loc[p].User /\ l.u = u
      BY <1>1 DEF Locals
    <2> HIDE DEF l
    <2> QED BY <1>2, <1>3, <2>1, CopyKept DEF l
  <1>4. ASSUME NEW id, Continue(p, [loc[p] EXCEPT !.u = u, !.removeUserID = id], label)
        PROVE  CopiesDated'
    <2> DEFINE l == [loc[p] EXCEPT !.u = u, !.removeUserID = id]
    <2>1. l.User = loc[p].User /\ l.u = u
      BY <1>1 DEF Locals
    <2> HIDE DEF l
    <2> QED BY <1>2, <1>4, <2>1, CopyKept DEF l
  <1> QED BY <1>3, <1>4

\* and one that takes no new copy or returns.
LEMMA NoCopyKept ==
  ASSUME DatedInv, Acts, NEW p \in Procs,
         loc' = loc \/ Return(p) \/ \E label : Continue(p, loc[p], label)
  PROVE  CopiesDated'
  <1>1. CASE loc' = loc
    BY <1>1, Carried DEF CopiesDated
  <1>2. CASE Return(p)
    <2>1. loc \in [Procs -> Locals] /\ loc' = [loc EXCEPT ![p] = NoLoc]
      BY <1>2, TypeParts DEF DatedInv, ControlOK, Return
    <2>2. \A q \in Procs : loc'[q] = loc[q] \/ loc'[q] = NoLoc
      BY <2>1
    <2>3. CopyDated(NoLoc.User, codeAge') /\ CopyDated(NoLoc.u, codeAge')
      BY DEF NoLoc, CopyDated
    <2> QED BY <2>2, <2>3, Carried DEF CopiesDated
  <1>3. ASSUME NEW label, Continue(p, loc[p], label)
        PROVE  CopiesDated'
    BY <1>3, Carried, CopyKept
  <1> QED BY <1>1, <1>2, <1>3

\* Most steps take no new copy and save, if anything, the user in hand.
Writes(p) ==
    /\ \/ UNCHANGED users
       \/ loc[p].u \in User /\ Save(loc[p].u)
       \/ \E id : users' = RemoveByID(users, id)
    /\ loc' = loc \/ Return(p) \/ \E label : Continue(p, loc[p], label)

LEMMA WritesDated ==
  ASSUME DatedInv, Acts, NEW p \in Procs, Writes(p)
  PROVE  StoredDated' /\ CopiesDated'
  <1>1. loc[p].u \in User => Dated(loc[p].u, codeAge')
    BY UserFacts, Carried DEF CopyDated
  <1> QED BY <1>1, StoreDated, NoCopyKept DEF Writes

\* A step that only takes a dated user in hand.
LEMMA TakeDated ==
  ASSUME DatedInv, Acts, NEW p \in Procs, NEW u, NEW label, UNCHANGED users,
         Dated(u, codeAge'),
         \/ Continue(p, [loc[p] EXCEPT !.u = u], label)
         \/ \E id : Continue(p, [loc[p] EXCEPT !.u = u, !.removeUserID = id], label)
  PROVE  StoredDated' /\ CopiesDated'
  BY StoreDated, UserKept

\* A user stamped for a code that is being sent
LEMMA SentDated ==
  ASSUME DatedInv, Acts, NEW p \in Procs, NEW k \in CodeKeys, NEW uid \in UIDs,
         NEW kind \in KindsOf(k), Sends(p, kind), SentTo(p) = <<k, uid>>,
         NEW u \in User, Dated(u, codeAge'), GetUID(u, k) = uid
  PROVE  Dated(StampCode(u, k), codeAge')
  <1>1. kind \in Kinds /\ <<k, uid>> \in Keys \X UIDs
    BY DEF KindsOf, Kinds, CodeKeys, Keys
  <1>2. codeAge'[kind][<<k, uid>>] = 0
    BY <1>1, Fresher DEF Acts
  <1> QED BY <1>2, StampDated

----------------------------------------------------------------------------
(* The handlers.                                                           *)

\* checkSession reads a user; the rest writes what is at hand.
LEMMA SharedDated ==
  ASSUME DatedInv, Acts, NEW p \in Procs, Shared(p)
  PROVE  StoredDated' /\ CopiesDated'
  <1>0. TypeOK /\ loc[p] \in Locals
    BY RequestFacts DEF DatedInv
  <1>1. CASE GetUserID(p)
    <2> DEFINE l == [loc[p] EXCEPT !.UserID = sessions[arg[p].s]]
    <2>1. l.User = loc[p].User /\ l.u = loc[p].u
      BY <1>0 DEF Locals
    <2>2. UNCHANGED users /\ \E label : Continue(p, l, label)
      BY <1>1 DEF GetUserID, store
    <2> HIDE DEF l
    <2> QED BY <2>1, <2>2, Carried, CopyKept, StoreDated
  <1>2. CASE LoadUser(p)
    <2> DEFINE user == LoadByID(users, loc[p].UserID)
               l == [loc[p] EXCEPT !.User = user,
                                   !.UserIsGuest = user # Nil /\ GuestUser /\ user.guest]
    <2>1. l.User = user /\ l.u = loc[p].u
      BY <1>0 DEF Locals
    <2>2. UNCHANGED users /\ \E label : Continue(p, l, label)
      BY <1>2 DEF LoadUser, store
    <2>3. CopyDated(user, codeAge')
      BY Carried
    <2> HIDE DEF l, user
    <2> QED BY <2>1, <2>2, <2>3, Carried, CopyKept, StoreDated
  <1>3. CASE SaveAndReturn(p)
    <2>1. loc[p].u \in User
      BY <1>0, <1>3, LabelFacts DEF SaveAndReturn, At, HoldsUser
    <2> QED BY <1>3, <2>1, WritesDated DEF SaveAndReturn, SaveFails, Writes
  <1>4. CASE RemoveGuest(p)
    BY <1>4, WritesDated DEF RemoveGuest, Writes
  <1> QED BY <1>1, <1>2, <1>3, <1>4 DEF Shared

\* auth creates guests, who remember nothing.
LEMMA SessionDated ==
  ASSUME DatedInv, Acts, NEW p \in Procs, SessionStep(p)
  PROVE  StoredDated' /\ CopiesDated'
  <1>0. TypeOK /\ loc[p] \in Locals
    BY RequestFacts DEF DatedInv
  <1>1. CASE AuthBegin(p) \/ SignOutBegin(p)
    BY <1>1, WritesDated
       DEF AuthBegin, SignOutBegin, BeginWithSession, Begin, Writes, store
  <1>2. CASE AuthLoadSession(p)
    <2> DEFINE l == [loc[p] EXCEPT !.UserID = sessions[arg[p].s]]
    <2>1. l.User = loc[p].User /\ l.u = loc[p].u
      BY <1>0 DEF Locals
    <2>2. UNCHANGED users /\ \E label : Continue(p, l, label)
      BY <1>2 DEF AuthLoadSession, store
    <2> HIDE DEF l
    <2> QED BY <2>1, <2>2, Carried, CopyKept, StoreDated
  <1>3. CASE \/ AuthLoadUser(p) \/ AuthCreateGuest(p)
             \/ AuthUnbind(p) \/ AuthNoGuest(p) \/ BindGuest(p)
    BY <1>3, WritesDated
       DEF AuthLoadUser, AuthCreateGuest, AuthUnbind, AuthNoGuest, BindGuest, Writes, store
  <1>4. CASE SignOutUnbind(p) \/ SignOutRemoveGuest(p)
    BY <1>4, WritesDated DEF SignOutUnbind, SignOutRemoveGuest, Writes
  <1>5. CASE CreateGuestUser(p)
    <2>1. PICK id \in FreeIds :
            LET u == SetGuest(NewUser(id), TRUE)
            IN  \/ /\ Save(u)
                   /\ Continue(p, [loc[p] EXCEPT !.u = u], "guest.bind")
                \/ SaveFails(u) /\ Return(p)
      BY <1>5 DEF CreateGuestUser
    <2> DEFINE u == SetGuest(NewUser(id), TRUE)
    <2>2. u \in User /\ Dated(u, codeAge')
      BY NewUserType, NewUserDated, SetFlagType, SetFlagInherits, InheritsDated DEF FreeIds
    <2> HIDE DEF u
    <2>3. CASE Save(u) /\ Continue(p, [loc[p] EXCEPT !.u = u], "guest.bind")
      BY <2>2, <2>3, StoreDated, UserKept
    <2>4. CASE SaveFails(u) /\ Return(p)
      BY <2>4, WritesDated DEF Writes, SaveFails
    <2> QED BY <2>1, <2>3, <2>4 DEF u
  <1> QED BY <1>1, <1>2, <1>3, <1>4, <1>5 DEF SessionStep

\* register stamps the code it sends; login writes back what it loaded.
LEMMA PasswordDated ==
  ASSUME DatedInv, Acts, NEW p \in Procs, PasswordStep(p)
  PROVE  StoredDated' /\ CopiesDated'
  <1>0. TypeOK /\ loc[p] \in Locals /\ pc \in [Procs -> Labels]
    BY RequestFacts, TypeParts DEF DatedInv, ControlOK
  <1>1. CASE SignUpBegin(p) \/ SignInBegin(p)
    BY <1>1, WritesDated
       DEF SignUpBegin, SignInBegin, BeginWithSession, Begin, Writes, store
  <1>2. CASE SignUpRefuse(p) \/ SignInRefuse(p) \/ SignUpNotFound(p)
    BY <1>2, WritesDated
       DEF SignUpRefuse, SignInRefuse, SignUpNotFound, Refuse, Writes, store
  <1>3. CASE SignUpBind(p) \/ SignInBind(p) \/ SignUpRemoveTemp(p)
    BY <1>3, WritesDated DEF SignUpBind, SignInBind, SignUpRemoveTemp, Writes
  <1>4. CASE SignInSave(p)
    <2>1. loc[p].u \in User
      BY <1>0, <1>4, LabelFacts DEF SignInSave, At, HoldsUser
    <2> QED BY <1>4, <2>1, WritesDated DEF SignInSave, SaveFails, Writes
  <1>5. CASE SignUpTakeOver(p)
    <2> DEFINE l == [loc[p] EXCEPT !.removeUserID = Found(p).id]
    <2>1. l.User = loc[p].User /\ l.u = loc[p].u
      BY <1>0 DEF Locals
    <2>2. UNCHANGED users /\ Continue(p, l, "signUp.remove")
      BY <1>5 DEF SignUpTakeOver, store
    <2> HIDE DEF l
    <2> QED BY <2>1, <2>2, Carried, CopyKept, StoreDated
  <1>6. CASE SignUpSave(p)
    <2>1. pc[p] = "signUp.save" /\ arg[p].op = "signUp"
      BY <1>0, <1>6, LabelFacts DEF SignUpSave, At, OnRoute
    <2> DEFINE k == arg[p].key
               v(base) == SetPassword(SetUID(base, k, arg[p].uid), k, arg[p].secret)
               w(base, code) == IF ConfirmableUser THEN WithConfirmCode(v(base), k, code)
                                                   ELSE v(base)
    <2>2. PICK base \in SignUpBase(p), code \in Codes :
            \/ /\ Save(w(base, code))
               /\ Continue(p, [loc[p] EXCEPT !.u = w(base, code)], "signUp.bind")
            \/ SaveFails(w(base, code)) /\ Return(p)
      BY <1>6 DEF SignUpSave
    <2>3. k \in PasswordKeys /\ k \in Keys /\ arg[p].uid \in UIDs /\ arg[p].secret \in Passwords
      BY <1>0, <2>1, KeyFacts DEF PasswordOps
    <2>4. base \in User /\ Dated(base, codeAge')
      <3>1. ASSUME loc[p].UserIsGuest
            PROVE  /\ SetGuest(loc[p].User, FALSE) \in User
                   /\ Dated(SetGuest(loc[p].User, FALSE), codeAge')
        <4>1. loc[p].User \in User
          BY <1>0, <2>1, <3>1, LabelFacts
        <4>2. Dated(loc[p].User, codeAge')
          BY <4>1, UserFacts, Carried DEF CopyDated
        <4> QED BY <4>1, <4>2, SetFlagType, SetFlagInherits, InheritsDated
      <3>2. \A id \in FreeIds : NewUser(id) \in User /\ Dated(NewUser(id), codeAge')
        BY NewUserType, NewUserDated DEF FreeIds
      <3> QED BY <3>1, <3>2 DEF SignUpBase
    <2> DEFINE t == SetUID(base, k, arg[p].uid)
    <2>5. t \in User /\ Dated(t, codeAge') /\ GetUID(t, k) = arg[p].uid
      BY <2>3, <2>4, SetUIDType, SetUIDInherits, InheritsDated
    <2>6. v(base) = SetPassword(t, k, arg[p].secret)
      OBVIOUS
    <2> HIDE DEF t, v
    <2>7. v(base) \in User /\ Dated(v(base), codeAge') /\ GetUID(v(base), k) = arg[p].uid
      BY <2>3, <2>5, <2>6, SetPasswordType, SetPasswordInherits, InheritsDated
    <2> DEFINE c == SetConfirmCode(v(base), k, code)
    <2>8. c \in User /\ Dated(c, codeAge') /\ GetUID(c, k) = arg[p].uid
      BY <2>3, <2>7, SetCodeType, SetCodeInherits, InheritsDated
    <2>9. WithConfirmCode(v(base), k, code) = StampCode(c, k)
      BY DEF WithConfirmCode
    <2> HIDE DEF c
    <2>10. WithConfirmCode(v(base), k, code) \in User
      BY <2>3, <2>8, <2>9, StampType
    <2>11. w(base, code) \in User
      BY <2>7, <2>10
    <2>12. CASE SaveFails(w(base, code)) /\ Return(p)
      BY <2>12, WritesDated DEF Writes, SaveFails
    <2>13. CASE Save(w(base, code)) /\ Continue(p, [loc[p] EXCEPT !.u = w(base, code)], "signUp.bind")
      <3>1. pc'[p] = "signUp.bind"
        BY <1>0, <2>13 DEF Continue, Goto
      <3>2. ConfirmableUser => Sends(p, "confirmation")
        BY <2>1, <3>1 DEF Sends, Passes, At
      <3>3. SentTo(p) = <<k, arg[p].uid>>
        BY <2>1 DEF SentTo
      <3>4. k \in CodeKeys /\ "confirmation" \in KindsOf(k)
        BY <2>3, KindsDisjoint DEF CodeKeys, KindsOf
      <3>5. ConfirmableUser => Dated(StampCode(c, k), codeAge')
        BY <2>3, <2>8, <3>2, <3>3, <3>4, SentDated
      <3>6. Dated(w(base, code), codeAge')
        BY <2>7, <2>9, <3>5
      <3> HIDE DEF w
      <3> QED BY <2>11, <2>13, <3>6, StoreDated, UserKept
    <2> QED BY <2>2, <2>12, <2>13
  <1>7. CASE SignInLoad(p)
    <2>1. UNCHANGED users
      BY <1>7 DEF SignInLoad, store
    <2>2. Dated(Found(p), codeAge')
      BY <1>7, Carried DEF SignInLoad, SignInAccepted, CopyDated
    <2> QED BY <1>7, <2>1, <2>2, TakeDated DEF SignInLoad
  <1> QED BY <1>1, <1>2, <1>3, <1>4, <1>5, <1>6, <1>7 DEF PasswordStep

\* A user found by its uid, confirmed with its time cleared.
LEMMA ClearDated ==
  ASSUME DatedInv, Acts, NEW p \in Procs, Found(p) # Nil, arg[p].key \in Keys
  PROVE  /\ Found(p) \in User /\ Dated(Found(p), codeAge')
         /\ LET v == ClearStamp(Found(p), arg[p].key)
            IN  /\ v \in User /\ Dated(v, codeAge')
                /\ SetConfirmed(v, arg[p].key, TRUE) \in User
                /\ Dated(SetConfirmed(v, arg[p].key, TRUE), codeAge')
  <1> DEFINE v == ClearStamp(Found(p), arg[p].key)
  <1>1. Found(p) \in User /\ Dated(Found(p), codeAge')
    BY RequestFacts, Carried DEF DatedInv, CopyDated
  <1>2. v \in User /\ Dated(v, codeAge')
    BY <1>1, StampType, ClearInherits, InheritsDated
  <1> HIDE DEF v
  <1>3. SetConfirmed(v, arg[p].key, TRUE) \in User /\ Dated(SetConfirmed(v, arg[p].key, TRUE), codeAge')
    BY <1>2, SetConfirmedType, SetConfirmedInherits, InheritsDated
  <1> QED BY <1>1, <1>2, <1>3 DEF v

\* resend and the request for a recovery stamp the codes they send.
LEMMA CodeDated ==
  ASSUME DatedInv, Acts, NEW p \in Procs, CodeStep(p)
  PROVE  StoredDated' /\ CopiesDated'
  <1>0. TypeOK /\ loc[p] \in Locals /\ pc \in [Procs -> Labels]
    BY RequestFacts, TypeParts DEF DatedInv, ControlOK
  <1>1. CASE ConfirmBegin(p) \/ ResendBegin(p) \/ RequestRecoveryBegin(p) \/ RecoveryBegin(p)
    BY <1>1, WritesDated
       DEF ConfirmBegin, ResendBegin, RequestRecoveryBegin, RecoveryBegin,
           BeginWithSession, Begin, Writes, store
  <1>2. CASE ConfirmRefuse(p) \/ ResendRefuse(p) \/ RequestRecoveryRefuse(p) \/ RecoveryRefuse(p)
    BY <1>2, WritesDated
       DEF ConfirmRefuse, ResendRefuse, RequestRecoveryRefuse, RecoveryRefuse, Refuse,
           Writes, store
  <1>3. CASE ConfirmLoad(p)
    <2>1. pc[p] = "confirm" /\ arg[p].op = "confirm" /\ Found(p) # Nil /\ UNCHANGED users
      BY <1>0, <1>3, LabelFacts DEF ConfirmLoad, ConfirmAccepted, At, OnRoute, AllRoutes, store
    <2>2. arg[p].key \in Keys
      BY <1>0, <2>1, KeyFacts
    <2>3. Dated(SetConfirmed(ClearStamp(Found(p), arg[p].key), arg[p].key, TRUE), codeAge')
      BY <2>1, <2>2, ClearDated
    <2> QED BY <1>3, <2>1, <2>3, TakeDated DEF ConfirmLoad
  <1>4. CASE ResendNewCode(p)
    <2>1. pc[p] = "resend" /\ arg[p].op = "resend" /\ UNCHANGED users
      BY <1>0, <1>4, LabelFacts DEF ResendNewCode, At, OnRoute, AllRoutes, store
    <2> DEFINE k == arg[p].key
               uid == GetUID(loc[p].User, k)
    <2>2. loc[p].User \in User /\ k \in PasswordKeys /\ k \in Keys
      BY <1>0, <1>4, <2>1, KeyFacts, RequestFacts DEF ResendNewCode, ResendAccepted, PasswordOps
    <2>3. uid \in UIDs
      BY <1>4, <2>2, UserFacts DEF ResendNewCode, ResendAccepted
    <2>4. Dated(loc[p].User, codeAge')
      BY <2>2, UserFacts, Carried DEF CopyDated
    <2>5. PICK code \in Codes :
            Continue(p, [loc[p] EXCEPT !.u = SetConfirmCode(StampCode(loc[p].User, k),
                                                            k, code)], "save")
      BY <1>4 DEF ResendNewCode
    <2>6. Sends(p, "confirmation") /\ SentTo(p) = <<k, uid>>
      BY <1>0, <2>1, <2>5 DEF Sends, SentTo, Passes, At, Continue, Goto
    <2>7. k \in CodeKeys /\ "confirmation" \in KindsOf(k)
      BY <2>2, KindsDisjoint DEF CodeKeys, KindsOf
    <2>8. Dated(StampCode(loc[p].User, k), codeAge')
      BY <2>2, <2>3, <2>4, <2>6, <2>7, SentDated
    <2>9. Dated(SetConfirmCode(StampCode(loc[p].User, k), k, code), codeAge')
      BY <2>2, <2>8, StampType, SetCodeInherits, InheritsDated
    <2> QED BY <2>1, <2>5, <2>9, TakeDated
  <1>5. CASE RequestRecoveryLoad(p)
    <2>1. pc[p] = "requestRecovery" /\ UNCHANGED users /\ Found(p) # Nil
      BY <1>5 DEF RequestRecoveryLoad, RequestRecoveryAccepted, At, store
    <2>2. arg[p].op = "requestRecovery"
      BY <1>0, <2>1, LabelFacts DEF OnRoute, AllRoutes
    <2> DEFINE k == arg[p].key
    <2>3. k \in PasswordKeys /\ k \in Keys /\ arg[p].uid \in UIDs
      BY <1>0, <2>1, <2>2, KeyFacts DEF PasswordOps
    <2>4. Found(p) \in User /\ Dated(Found(p), codeAge') /\ GetUID(Found(p), k) = arg[p].uid
      BY <2>1, <2>3, ClearDated, FoundDated
    <2>5. PICK code \in Codes :
            Continue(p, [loc[p] EXCEPT !.u = SetRecoveryCode(StampCode(Found(p), k),
                                                             k, code)], "save")
      BY <1>5 DEF RequestRecoveryLoad
    <2>6. Sends(p, "recovery") /\ SentTo(p) = <<k, arg[p].uid>>
      BY <1>0, <2>1, <2>2, <2>5 DEF Sends, SentTo, Passes, At, Continue, Goto
    <2>7. k \in CodeKeys /\ "recovery" \in KindsOf(k)
      BY <2>3, KindsDisjoint DEF CodeKeys, KindsOf
    <2>8. Dated(StampCode(Found(p), k), codeAge')
      BY <2>3, <2>4, <2>6, <2>7, SentDated
    <2>9. Dated(SetRecoveryCode(StampCode(Found(p), k), k, code), codeAge')
      BY <2>3, <2>4, <2>8, StampType, SetCodeInherits, InheritsDated
    <2> QED BY <2>1, <2>5, <2>9, TakeDated
  <1>6. CASE RecoveryLoad(p)
    <2>1. pc[p] = "recovery" /\ UNCHANGED users /\ Found(p) # Nil
      BY <1>6 DEF RecoveryLoad, RecoveryAccepted, At, store
    <2>2. arg[p].op = "recovery"
      BY <1>0, <2>1, LabelFacts DEF OnRoute, AllRoutes
    <2> DEFINE k == arg[p].key
               v == ClearStamp(Found(p), k)
               w == SetPassword(v, k, arg[p].secret)
    <2>3. k \in Keys /\ arg[p].secret \in Passwords
      BY <1>0, <2>1, <2>2, KeyFacts, LabelFacts DEF ArgOK
    <2>4. v \in User /\ Dated(v, codeAge')
      BY <2>1, <2>3, ClearDated
    <2>5. NewPassword(Found(p), k, arg[p].secret) = SetRecoveryCode(w, k, Empty)
      BY DEF NewPassword
    <2> HIDE DEF v
    <2>6. w \in User /\ Dated(w, codeAge')
      BY <2>3, <2>4, SetPasswordType, SetPasswordInherits, InheritsDated
    <2> HIDE DEF w
    <2>7. Dated(NewPassword(Found(p), k, arg[p].secret), codeAge')
      BY <2>3, <2>5, <2>6, SetCodeInherits, InheritsDated
    <2> QED BY <1>6, <2>1, <2>7, TakeDated DEF RecoveryLoad
  <1> QED BY <1>1, <1>2, <1>3, <1>4, <1>5, <1>6 DEF CodeStep

\* initLink stamps the code it sends; linking and merging move no time.
LEMMA LinkStepDated ==
  ASSUME DatedInv, Acts, NEW p \in Procs, LinkStep(p)
  PROVE  StoredDated' /\ CopiesDated'
  <1>0. TypeOK /\ loc[p] \in Locals /\ pc \in [Procs -> Labels] /\ loc \in [Procs -> Locals]
    BY RequestFacts, TypeParts DEF DatedInv, ControlOK
  <1>1. CASE InitLinkBegin(p) \/ LinkBegin(p)
    <2>1. \E a : BeginLinkRoute(p, a)
      <3>1. CASE InitLinkBegin(p)
        BY <3>1 DEF InitLinkBegin
      <3>2. CASE LinkBegin(p)
        BY <3>2 DEF LinkBegin
      <3> QED BY <1>1, <3>1, <3>2
    <2> QED BY <2>1, WritesDated DEF BeginLinkRoute, Begin, Writes, store
  <1>2. CASE InitLinkRefuse(p) \/ LinkRefuse(p) \/ LinkAccountRefuse(p)
    BY <1>2, WritesDated
       DEF InitLinkRefuse, LinkRefuse, LinkAccountRefuse, Refuse, Writes, store
  <1>3. CASE LinkSave(p)
    <2>1. loc[p].u \in User
      BY <1>0, <1>3, LabelFacts DEF LinkSave, At, HoldsUser
    <2> QED BY <1>3, <2>1, WritesDated DEF LinkSave, SaveFails, Writes
  <1>4. CASE InitLinkPrepare(p)
    <2>1. pc[p] = "initLink" /\ arg[p].op = "initLink" /\ UNCHANGED users
      BY <1>0, <1>4, LabelFacts DEF InitLinkPrepare, At, OnRoute, AllRoutes, store
    <2> DEFINE k == arg[p].key
               w(base, code) == IF base.auths[k].confirmed THEN base
                                ELSE StampCode(SetConfirmCode(base, k, code), k)
    <2>2. k \in PasswordKeys /\ k \in Keys /\ arg[p].uid \in UIDs
      BY <1>0, <2>1, KeyFacts DEF PasswordOps
    <2>3. PICK base \in InitLinkUser(p), code \in Codes :
            Continue(p, [loc[p] EXCEPT !.u = w(base, code)], "save")
      BY <1>4 DEF InitLinkPrepare
    <2>4. base \in User /\ Dated(base, codeAge') /\ GetUID(base, k) = arg[p].uid
      <3>1. Found(p) # Nil => /\ Found(p) \in User /\ Dated(Found(p), codeAge')
                              /\ GetUID(Found(p), k) = arg[p].uid
        BY <2>2, ClearDated, FoundDated
      <3>2. ASSUME NEW id \in UserIds
            PROVE  LET t == TempUser(id, k, arg[p].uid)
                   IN  t \in User /\ Dated(t, codeAge') /\ GetUID(t, k) = arg[p].uid
        <4> DEFINE t == SetTemp(NewUser(id), TRUE)
        <4>1. t \in User /\ Dated(t, codeAge')
          BY NewUserType, NewUserDated, SetFlagType, SetFlagInherits, InheritsDated
        <4>2. TempUser(id, k, arg[p].uid) = SetUID(t, k, arg[p].uid)
          BY DEF TempUser
        <4> HIDE DEF t
        <4> QED BY <2>2, <4>1, <4>2, SetUIDType, SetUIDInherits, InheritsDated
      <3> QED BY <3>1, <3>2 DEF InitLinkUser, FreeIds
    <2> DEFINE c == SetConfirmCode(base, k, code)
    <2>5. c \in User /\ Dated(c, codeAge') /\ GetUID(c, k) = arg[p].uid
      BY <2>2, <2>4, SetCodeType, SetCodeInherits, InheritsDated
    <2>6. CASE base.auths[k].confirmed
      BY <2>1, <2>3, <2>4, <2>6, TakeDated
    <2>7. CASE ~base.auths[k].confirmed
      <3>1. ~StampCode(c, k).auths[k].confirmed
        BY <2>2, <2>4, <2>7 DEF StampCode, SetCodeSentTime, SetConfirmCode, User, Identity
      <3> HIDE DEF c
      <3>2. Continue(p, [loc[p] EXCEPT !.u = StampCode(c, k)], "save")
        BY <2>3, <2>7 DEF c
      <3>3. pc'[p] = "save" /\ loc'[p].u = StampCode(c, k)
        BY <1>0, <3>2 DEF Continue, Goto, Locals
      <3>4. Sends(p, "confirmation") /\ SentTo(p) = <<k, arg[p].uid>>
        BY <2>1, <3>1, <3>3 DEF Sends, SentTo, Passes, At
      <3>5. k \in CodeKeys /\ "confirmation" \in KindsOf(k)
        BY <2>2, KindsDisjoint DEF CodeKeys, KindsOf
      <3>6. Dated(StampCode(c, k), codeAge')
        BY <2>2, <2>5, <3>4, <3>5, SentDated
      <3> QED BY <2>1, <3>2, <3>6, TakeDated
    <2> QED BY <2>6, <2>7
  <1>5. CASE LinkLoad(p)
    <2>1. pc[p] = "link" /\ Found(p) # Nil /\ UNCHANGED users
      BY <1>5 DEF LinkLoad, LinkAccepted, At, store
    <2>2. arg[p].op = "link"
      BY <1>0, <2>1, LabelFacts DEF OnRoute, AllRoutes
    <2> DEFINE k == arg[p].key
               v == IF Found(p).auths[k].confirmed THEN Found(p)
                    ELSE SetConfirmed(ClearStamp(Found(p), k), k, TRUE)
               w == IF Merging(p) THEN v ELSE SetPassword(v, k, arg[p].secret)
    <2>3. k \in Keys
      BY <1>0, <2>1, <2>2, KeyFacts
    <2>4. v \in User /\ Dated(v, codeAge')
      BY <2>1, <2>3, ClearDated
    <2>5. Continue(p, [loc[p] EXCEPT !.u = w], "link.save")
      BY <1>5 DEF LinkLoad
    <2> HIDE DEF v
    <2>6. Dated(w, codeAge')
      BY <2>3, <2>4, SetPasswordInherits, InheritsDated
    <2> HIDE DEF w
    <2> QED BY <2>1, <2>5, <2>6, TakeDated
  <1>6. CASE LinkAccountRemove(p)
    <2>1. pc[p] = "linkAccount"
      BY <1>6 DEF LinkAccountRemove, At
    <2>2. arg[p].op \in {"link", "otpAuth", "social"}
      BY <1>0, <2>1, LabelFacts DEF OnRoute
    <2>3. loc[p].u \in User /\ loc[p].User \in User /\ arg[p].key \in Keys
      BY <1>0, <1>6, <2>1, <2>2, KeyFacts, LabelFacts, RequestFacts
         DEF HoldsUser, LinkAccountRemove, LinkPossible, CanLink
    <2>4. Dated(loc[p].User, codeAge')
      BY <2>3, UserFacts, Carried DEF CopyDated
    <2>5. Dated(Linked(p), codeAge')
      BY <2>3, <2>4, LinkInherits, MergeInherits, InheritsDated DEF Linked
    <2>6. CopiesDated'
      BY <1>6, <2>5, UserKept DEF LinkAccountRemove
    <2>7. StoredDated'
      BY <1>6, StoreDated DEF LinkAccountRemove
    <2> QED BY <2>6, <2>7
  <1>7. CASE MiddlewareUserID(p)
    <2> DEFINE l == [loc[p] EXCEPT !.UserID = sessions[arg[p].s]]
    <2>1. l.User = loc[p].User /\ l.u = loc[p].u
      BY <1>0 DEF Locals
    <2>2. UNCHANGED users /\ Continue(p, l, "middleware.load")
      BY <1>7 DEF MiddlewareUserID, store
    <2> HIDE DEF l
    <2> QED BY <2>1, <2>2, Carried, CopyKept, StoreDated
  <1>8. CASE UserMiddleware(p)
    <2>1. UNCHANGED users
      BY <1>8 DEF UserMiddleware, store
    <2>2. CASE Return(p)
      BY <2>1, <2>2, WritesDated DEF Writes
    <2>3. CASE Continue(p, NoLoc, "getUserID")
      <3>1. CopyDated(NoLoc.User, codeAge') /\ CopyDated(NoLoc.u, codeAge')
        BY DEF NoLoc, CopyDated
      <3> QED BY <2>1, <2>3, <3>1, CopyKept, StoreDated
    <2> QED BY <1>8, <2>2, <2>3 DEF UserMiddleware
  <1> QED BY <1>1, <1>2, <1>3, <1>4, <1>5, <1>6, <1>7, <1>8 DEF LinkStep

\* otp/code stamps the code it sends; otp/auth clears the time.
LEMMA OTPDated ==
  ASSUME DatedInv, Acts, NEW p \in Procs, OTPStep(p)
  PROVE  StoredDated' /\ CopiesDated'
  <1>0. TypeOK /\ loc[p] \in Locals /\ pc \in [Procs -> Labels]
    BY RequestFacts, TypeParts DEF DatedInv, ControlOK
  <1>1. CASE OTPCodeBegin(p) \/ OTPAuthBegin(p)
    <2>1. \E a : BeginWithSession(p, a)
      <3>1. CASE OTPCodeBegin(p)
        BY <3>1 DEF OTPCodeBegin
      <3>2. CASE OTPAuthBegin(p)
        BY <3>2 DEF OTPAuthBegin
      <3> QED BY <1>1, <3>1, <3>2
    <2> QED BY <2>1, WritesDated DEF BeginWithSession, Begin, Writes, store
  <1>2. CASE OTPCodeRefuse(p) \/ OTPAuthRefuse(p)
    BY <1>2, WritesDated DEF OTPCodeRefuse, OTPAuthRefuse, Refuse, Writes, store
  <1>3. CASE OTPAuthRemove(p) \/ OTPAuthBind(p)
    BY <1>3, WritesDated DEF OTPAuthRemove, OTPAuthBind, Writes
  <1>4. CASE OTPCodePrepare(p)
    <2>1. pc[p] = "otpCode" /\ arg[p].op = "otpCode" /\ UNCHANGED users
      BY <1>0, <1>4, LabelFacts DEF OTPCodePrepare, At, OnRoute, AllRoutes, store
    <2> DEFINE k == arg[p].key
               uid == arg[p].uid
    <2>2. k \in OTPKeys /\ k \in Keys /\ uid \in UIDs
      BY <1>0, <2>1, KeyFacts
    <2>3. PICK base \in OTPCodeUser(p), code \in Codes :
            Continue(p, [loc[p] EXCEPT !.u = SetOTP(StampCode(base, k), k, code)], "save")
      BY <1>4 DEF OTPCodePrepare
    <2>4. base \in User /\ Dated(base, codeAge') /\ GetUID(base, k) = uid
      <3>1. ASSUME Found(p) # Nil
            PROVE  /\ Found(p) \in User /\ Dated(Found(p), codeAge')
                   /\ GetUID(Found(p), k) = uid
                   /\ SetTemp(Found(p), FALSE) \in User
                   /\ Dated(SetTemp(Found(p), FALSE), codeAge')
                   /\ GetUID(SetTemp(Found(p), FALSE), k) = uid
        <4>1. Found(p) \in User /\ Dated(Found(p), codeAge') /\ GetUID(Found(p), k) = uid
          BY <2>2, <3>1, ClearDated, FoundDated
        <4> DEFINE t == SetTemp(Found(p), FALSE)
        <4>2. t \in User /\ Inherits(t, Found(p)) /\ GetUID(t, k) = GetUID(Found(p), k)
          BY <2>2, <4>1, SetFlagType, SetFlagInherits
        <4> HIDE DEF t
        <4>3. Dated(t, codeAge')
          BY <4>1, <4>2, InheritsDated
        <4> QED BY <4>1, <4>2, <4>3 DEF t
      <3>2. ASSUME NEW t \in User, Dated(t, codeAge')
            PROVE  /\ SetUID(t, k, uid) \in User /\ Dated(SetUID(t, k, uid), codeAge')
                   /\ GetUID(SetUID(t, k, uid), k) = uid
        BY <2>2, <3>2, SetUIDType, SetUIDInherits, InheritsDated
      <3>3. ASSUME NEW id \in UserIds, NEW b \in BOOLEAN
            PROVE  /\ SetGuest(NewUser(id), b) \in User /\ Dated(SetGuest(NewUser(id), b), codeAge')
                   /\ SetTemp(NewUser(id), b) \in User /\ Dated(SetTemp(NewUser(id), b), codeAge')
        BY NewUserType, NewUserDated, SetFlagType, SetFlagInherits, InheritsDated
      <3> DEFINE Good(t) == t \in User /\ Dated(t, codeAge') /\ GetUID(t, k) = uid
      <3>4. Found(p) # Nil => Good(Found(p)) /\ Good(SetTemp(Found(p), FALSE))
        BY <3>1
      <3>5. \A id \in UserIds : /\ Good(SetUID(SetGuest(NewUser(id), GuestUser), k, uid))
                                /\ Good(TempUser(id, k, uid))
        BY <3>2, <3>3, FlagsAreBooleans DEF TempUser
      <3> HIDE DEF Good
      <3>6. Good(base)
        BY <3>4, <3>5 DEF OTPCodeUser, FreeIds
      <3> QED BY <3>6 DEF Good
    <2>5. Sends(p, "otp") /\ SentTo(p) = <<k, uid>>
      BY <1>0, <2>1, <2>3 DEF Sends, SentTo, Passes, At, Continue, Goto
    <2>6. k \in CodeKeys /\ "otp" \in KindsOf(k)
      BY <2>2 DEF CodeKeys, KindsOf
    <2>7. Dated(StampCode(base, k), codeAge')
      BY <2>2, <2>4, <2>5, <2>6, SentDated
    <2>8. Dated(SetOTP(StampCode(base, k), k, code), codeAge')
      BY <2>2, <2>4, <2>7, StampType, SetPasswordInherits, InheritsDated
    <2> QED BY <2>1, <2>3, <2>8, TakeDated
  <1>5. ASSUME OTPAuthJoinGuest(p) \/ OTPAuthReplaceGuest(p) \/ OTPAuthLogin(p)
                 \/ OTPAuthLink(p)
        PROVE  /\ UNCHANGED users /\ arg[p].key \in Keys /\ arg[p].uid \in UIDs
               /\ pc[p] = "otpAuth"
               /\ Dated(SetConfirmed(Entered(p), arg[p].key, TRUE), codeAge')
    <2>1. pc[p] = "otpAuth" /\ OTPAccepted(p) /\ UNCHANGED users
      BY <1>5 DEF OTPAuthJoinGuest, OTPAuthReplaceGuest, OTPAuthLogin, OTPAuthLink, At, store
    <2>2. arg[p].op = "otpAuth"
      BY <1>0, <2>1, LabelFacts DEF OnRoute, AllRoutes
    <2>3. arg[p].key \in Keys /\ arg[p].uid \in UIDs
      BY <1>0, <2>1, <2>2, KeyFacts
    <2>4. Dated(SetConfirmed(Entered(p), arg[p].key, TRUE), codeAge')
      BY <2>1, <2>3, ClearDated DEF Entered, OTPAccepted
    <2> QED BY <2>1, <2>3, <2>4
  <1>6. CASE OTPAuthJoinGuest(p)
    <2> DEFINE k == arg[p].key
               v == SetUID(loc[p].User, k, arg[p].uid)
               w == SetGuest(v, FALSE)
               x == SetConfirmed(w, k, TRUE)
    <2>1. loc[p].User \in User
      BY <1>0, <1>5, <1>6, LabelFacts DEF OTPAuthJoinGuest
    <2>2. Dated(loc[p].User, codeAge')
      BY <2>1, UserFacts, Carried DEF CopyDated
    <2>3. v \in User /\ Dated(v, codeAge')
      BY <1>5, <1>6, <2>1, <2>2, SetUIDType, SetUIDInherits, InheritsDated
    <2> HIDE DEF v
    <2>4. w \in User /\ Dated(w, codeAge')
      BY <2>3, SetFlagType, SetFlagInherits, InheritsDated
    <2> HIDE DEF w
    <2>5. Dated(x, codeAge')
      BY <1>5, <1>6, <2>4, SetConfirmedInherits, InheritsDated
    <2>6. Continue(p, [loc[p] EXCEPT !.u = x, !.removeUserID = Found(p).id], "otpAuth.remove")
      BY <1>6 DEF OTPAuthJoinGuest, v, w
    <2> HIDE DEF x
    <2> QED BY <1>5, <1>6, <2>5, <2>6, TakeDated
  <1>7. CASE OTPAuthReplaceGuest(p)
    <2>1. Continue(p, [loc[p] EXCEPT !.u = SetConfirmed(Entered(p), arg[p].key, TRUE),
                                     !.removeUserID = loc[p].UserID], "otpAuth.remove")
      BY <1>7 DEF OTPAuthReplaceGuest
    <2> QED BY <1>5, <1>7, <2>1, TakeDated
  <1>8. CASE OTPAuthLogin(p) \/ OTPAuthLink(p)
    <2>1. PICK label \in {"otpAuth.bind", "linkAccount"} :
            Continue(p, [loc[p] EXCEPT !.u = SetConfirmed(Entered(p), arg[p].key, TRUE)], label)
      BY <1>8 DEF OTPAuthLogin, OTPAuthLink
    <2> QED BY <1>5, <1>8, <2>1, TakeDated
  <1>9. CASE OTPAuthSave(p)
    <2>1. pc[p] = "otpAuth.save" /\ loc[p].u \in User
      BY <1>0, <1>9, LabelFacts DEF OTPAuthSave, At, HoldsUser
    <2>2. arg[p].op = "otpAuth"
      BY <1>0, <2>1, LabelFacts DEF OnRoute
    <2>3. arg[p].key \in Keys
      BY <1>0, <2>1, <2>2, KeyFacts
    <2> DEFINE w == Consumed(loc[p].u, arg[p].key)
    <2>4. Dated(loc[p].u, codeAge')
      BY <2>1, UserFacts, Carried DEF CopyDated
    <2>5. w \in User /\ Dated(w, codeAge')
      BY <2>1, <2>3, <2>4, SetPasswordType, SetPasswordInherits, InheritsDated DEF Consumed
    <2>6. Save(w) \/ UNCHANGED users
      BY <1>9 DEF OTPAuthSave, SaveFails
    <2> HIDE DEF w
    <2>7. StoredDated'
      BY <2>5, <2>6, StoreDated
    <2>8. CopiesDated'
      BY <1>9, NoCopyKept DEF OTPAuthSave
    <2> QED BY <2>7, <2>8
  <1> QED BY <1>1, <1>2, <1>3, <1>4, <1>6, <1>7, <1>8, <1>9 DEF OTPStep

\* A social login sends no code.
LEMMA SocialDated ==
  ASSUME DatedInv, Acts, NEW p \in Procs, SocialStep(p)
  PROVE  StoredDated' /\ CopiesDated'
  <1>0. TypeOK /\ loc[p] \in Locals
    BY RequestFacts DEF DatedInv
  <1>1. CASE SocialBegin(p) \/ SocialRefuse(p)
    BY <1>1, WritesDated
       DEF SocialBegin, BeginWithSession, Begin, SocialRefuse, Refuse, Writes, store
  <1>2. CASE SocialSave(p)
    <2>1. loc[p].u \in User
      BY <1>0, <1>2, LabelFacts DEF SocialSave, At, HoldsUser
    <2> QED BY <1>2, <2>1, WritesDated DEF SocialSave, SaveFails, Writes
  <1>3. CASE SocialBind(p)
    BY <1>3, WritesDated DEF SocialBind, Writes
  <1>4. CASE SocialLoad(p)
    <2>1. pc[p] = "social" /\ arg[p].op = "social" /\ UNCHANGED users
      BY <1>0, <1>4, LabelFacts DEF SocialLoad, At, OnRoute, AllRoutes, store
    <2> DEFINE k == arg[p].key
    <2>2. k \in Keys /\ arg[p].uid \in UIDs
      BY <1>0, <2>1, KeyFacts
    <2>3. PICK u \in SocialUser(p) :
            \E label : Continue(p, [loc[p] EXCEPT !.u = u], label)
      BY <1>4 DEF SocialLoad
    <2>4. Dated(u, codeAge')
      <3>1. Found(p) # Nil => Dated(Found(p), codeAge')
        BY <2>2, ClearDated
      <3>2. ASSUME NEW id \in UserIds, NEW link \in BOOLEAN
            PROVE  Dated(NewSocialUser(id, k, arg[p].uid, link), codeAge')
        <4> DEFINE t == SetTemp(NewUser(id), link)
                   v == SetUID(t, k, arg[p].uid)
        <4>1. t \in User /\ Dated(t, codeAge')
          BY NewUserType, NewUserDated, SetFlagType, SetFlagInherits, InheritsDated
        <4> HIDE DEF t
        <4>2. v \in User /\ Dated(v, codeAge')
          BY <2>2, <4>1, SetUIDType, SetUIDInherits, InheritsDated
        <4>3. NewSocialUser(id, k, arg[p].uid, link) =
                IF ConfirmableUser THEN SetConfirmed(v, k, TRUE) ELSE v
          BY DEF NewSocialUser, t
        <4> HIDE DEF v
        <4> QED BY <2>2, <4>2, <4>3, SetConfirmedInherits, InheritsDated
      <3>3. SignedIn(p) \in BOOLEAN
        BY DEF SignedIn
      <3> QED BY <3>1, <3>2, <3>3 DEF SocialUser, FreeIds
    <2> QED BY <2>1, <2>3, <2>4, TakeDated
  <1> QED BY <1>1, <1>2, <1>3, <1>4 DEF SocialStep

\* The profile is saved as it was read.
LEMMA ProfileDated ==
  ASSUME DatedInv, Acts, NEW p \in Procs, ProfileStep(p)
  PROVE  StoredDated' /\ CopiesDated'
  <1>1. CASE ProfileBegin(p) \/ ProfileRefuse(p)
    BY <1>1, WritesDated
       DEF ProfileBegin, BeginWithSession, Begin, ProfileRefuse, Refuse, Writes, store
  <1>2. CASE UpdateProfile(p)
    <2>1. UNCHANGED users /\ Dated(loc[p].User, codeAge')
      BY <1>2, Carried DEF UpdateProfile, store, CopyDated
    <2> QED BY <1>2, <2>1, TakeDated DEF UpdateProfile
  <1> QED BY <1>1, <1>2 DEF ProfileStep

----------------------------------------------------------------------------
(* Time.                                                                   *)

\* Everything grows older by the same measure, which keeps the order of ages.
LEMMA OlderOrder ==
  /\ \A s, t \in Ages : s <= t => Older(s) <= Older(t)
  /\ \A t \in Ages : Older(t) # Nil
  /\ Older(Nil) = Nil
  BY MaxAgeIsNat, NilIsNoValue DEF Ages, Older

LEMMA AgedDated ==
  ASSUME codeAge \in CodeAges, Ageing, Tick, NEW u \in User, Dated(u, codeAge)
  PROVE  Dated(Aged(u), codeAge')
  <1>1. ASSUME NEW k \in Keys
        PROVE  /\ SentAt(Aged(u), k) = Older(SentAt(u, k))
               /\ GetUID(Aged(u), k) = GetUID(u, k)
               /\ SentAt(u, k) \in Ages \cup {Nil}
    <2>1. Aged(u).auths[k] = [u.auths[k] EXCEPT !.sentAt = Older(@)]
      BY DEF Aged, User, Older
    <2>2. u.auths[k] \in Identity
      BY DEF User
    <2> QED BY <2>1, <2>2 DEF SentAt, GetUID, Identity
  <1> SUFFICES ASSUME NEW k \in CodeKeys, SentAt(Aged(u), k) # Nil
               PROVE  /\ GetUID(Aged(u), k) \in UIDs
                      /\ \E kind \in KindsOf(k) :
                           LET age == codeAge'[kind][<<k, GetUID(Aged(u), k)>>]
                           IN  age # Nil /\ age <= SentAt(Aged(u), k)
    BY DEF Dated
  <1>2. k \in Keys
    BY DEF CodeKeys, Keys
  <1>3. SentAt(u, k) # Nil /\ SentAt(u, k) \in Ages
    BY <1>1, <1>2, OlderOrder
  <1> DEFINE x == <<k, GetUID(u, k)>>
  <1>4. PICK kind \in KindsOf(k) : codeAge[kind][x] # Nil /\ codeAge[kind][x] <= SentAt(u, k)
    BY <1>3 DEF Dated
  <1>5. GetUID(u, k) \in UIDs
    BY <1>3 DEF Dated
  <1>6. kind \in Kinds /\ x \in Keys \X UIDs
    BY <1>2, <1>5 DEF KindsOf, Kinds
  <1>7. codeAge'[kind][x] = Older(codeAge[kind][x]) /\ codeAge[kind][x] \in Ages
    BY <1>4, <1>6 DEF Ageing, CodeAges
  <1>8. codeAge'[kind][x] # Nil /\ codeAge'[kind][x] <= SentAt(Aged(u), k)
    BY <1>1, <1>2, <1>3, <1>4, <1>7, OlderOrder
  <1> QED BY <1>1, <1>2, <1>5, <1>8

LEMMA TickDated ==
  ASSUME DatedInv, Ageing, Tick
  PROVE  StoredDated' /\ CopiesDated'
  <1>1. TypeOK /\ Storer(users) /\ codeAge \in CodeAges
    BY TypeParts DEF DatedInv
  <1>2. \A u \in User \cup {Nil} :
          CopyDated(u, codeAge) => CopyDated(AgedOrNil(u), codeAge')
    BY <1>1, AgedDated, UserFacts DEF AgedOrNil, CopyDated
  <1>3. ASSUME NEW id \in UserIds
        PROVE  CopyDated(users'[id], codeAge')
    <2>1. users'[id] = AgedOrNil(users[id]) /\ users[id] \in User \cup {Nil}
      BY <1>1 DEF Tick, Storer
    <2> QED BY <1>2, <2>1 DEF DatedInv, StoredDated
  <1>4. ASSUME NEW p \in Procs
        PROVE  CopyDated(loc'[p].User, codeAge') /\ CopyDated(loc'[p].u, codeAge')
    <2>1. loc[p] \in Locals /\ loc[p].User \in User \cup {Nil} /\ loc[p].u \in User \cup {Nil}
      BY <1>1, RequestFacts
    <2>2. loc'[p].User = AgedOrNil(loc[p].User) /\ loc'[p].u = AgedOrNil(loc[p].u)
      BY <2>1 DEF Tick, Locals
    <2> QED BY <1>2, <2>1, <2>2 DEF DatedInv, CopiesDated
  <1> QED BY <1>3, <1>4 DEF StoredDated, CopiesDated

\* A step of the program keeps stored users and copies dated.
LEMMA NextDated == DatedInv /\ [TimedNext]_<<vars, codeAge>> => DatedInv'
  <1> SUFFICES ASSUME DatedInv, [TimedNext]_<<vars, codeAge>> PROVE DatedInv'
    OBVIOUS
  <1>1. CASE UNCHANGED <<vars, codeAge>>
    <2>1. TypeOK'
      BY <1>1, NextTyped DEF DatedInv
    <2>2. UNCHANGED <<users, loc, codeAge>>
      BY <1>1 DEF vars
    <2>3. StoredDated' /\ CopiesDated'
      BY <2>2 DEF DatedInv, StoredDated, CopiesDated
    <2> QED BY <2>1, <2>2, <2>3 DEF DatedInv
  <1>2. CASE TimedNext
    <2>1. TypeOK' /\ codeAge' \in CodeAges
      BY <1>2, NextTyped, AgeingTyped DEF DatedInv, TimedNext
    <2>2. CASE Tick
      BY <1>2, <2>1, <2>2, TickDated DEF DatedInv, TimedNext
    <2>3. ASSUME NEW p \in Procs, Step(p), ~Tick
          PROVE  StoredDated' /\ CopiesDated'
      BY <1>2, <2>3, SharedDated, SessionDated, PasswordDated, CodeDated,
         LinkStepDated, OTPDated, SocialDated, ProfileDated DEF Step, TimedNext, Acts
    <2> QED BY <1>2, <2>1, <2>2, <2>3 DEF Next, TimedNext, DatedInv
  <1> QED BY <1>1, <1>2

----------------------------------------------------------------------------
(* Who makes a request go on.                                              *)

\* A step of a request leaves the others where they are.
MovesAlone(p) == \E label : pc' = [pc EXCEPT ![p] = label]

LEMMA StepsAlone ==
  ASSUME NEW p \in Procs, Step(p)
  PROVE  MovesAlone(p)
  <1>1. \A l, label : Continue(p, l, label) => MovesAlone(p)
    BY DEF Continue, Goto, MovesAlone
  <1>2. Return(p) \/ Refuse(p) => MovesAlone(p)
    BY DEF Return, Refuse, Goto, MovesAlone
  <1>3. \A a, label : Begin(p, a, label) \/ BeginWithSession(p, a) \/ BeginLinkRoute(p, a)
                      => MovesAlone(p)
    BY DEF Begin, BeginWithSession, BeginLinkRoute, Goto, MovesAlone
  <1>4. Shared(p) => MovesAlone(p)
    BY <1>1, <1>2 DEF Shared, GetUserID, LoadUser, SaveAndReturn, RemoveGuest
  <1>5. SessionStep(p) => MovesAlone(p)
    BY <1>1, <1>2, <1>3
       DEF SessionStep, AuthBegin, AuthLoadSession, AuthLoadUser, AuthUnbind, AuthCreateGuest,
           AuthNoGuest, CreateGuestUser, BindGuest, SignOutBegin, SignOutUnbind,
           SignOutRemoveGuest
  <1>6. PasswordStep(p) => MovesAlone(p)
    BY <1>1, <1>2, <1>3
       DEF PasswordStep, SignUpBegin, SignUpRefuse, SignUpTakeOver, SignUpRemoveTemp,
           SignUpNotFound, SignUpSave, SignUpBind, SignInBegin, SignInRefuse, SignInLoad,
           SignInBind, SignInSave
  <1>7. CodeStep(p) => MovesAlone(p)
    BY <1>1, <1>2, <1>3
       DEF CodeStep, ConfirmBegin, ConfirmRefuse, ConfirmLoad, ResendBegin, ResendRefuse,
           ResendNewCode, RequestRecoveryBegin, RequestRecoveryRefuse, RequestRecoveryLoad,
           RecoveryBegin, RecoveryRefuse, RecoveryLoad
  <1>8. LinkStep(p) => MovesAlone(p)
    BY <1>1, <1>2, <1>3
       DEF LinkStep, MiddlewareUserID, UserMiddleware, InitLinkBegin, InitLinkRefuse,
           InitLinkPrepare, LinkBegin, LinkRefuse, LinkLoad, LinkSave, LinkAccountRefuse,
           LinkAccountRemove
  <1>9. OTPStep(p) => MovesAlone(p)
    BY <1>1, <1>2, <1>3
       DEF OTPStep, OTPCodeBegin, OTPCodeRefuse, OTPCodePrepare, OTPAuthBegin, OTPAuthRefuse,
           OTPAuthJoinGuest, OTPAuthReplaceGuest, OTPAuthLogin, OTPAuthLink, OTPAuthRemove,
           OTPAuthBind, OTPAuthSave
  <1>10. SocialStep(p) => MovesAlone(p)
    BY <1>1, <1>2, <1>3
       DEF SocialStep, SocialBegin, SocialRefuse, SocialLoad, SocialSave, SocialBind
  <1>11. ProfileStep(p) => MovesAlone(p)
    BY <1>1, <1>2, <1>3 DEF ProfileStep, ProfileBegin, ProfileRefuse, UpdateProfile
  <1> QED BY <1>4, <1>5, <1>6, <1>7, <1>8, <1>9, <1>10, <1>11 DEF Step

\* A request that goes on has taken a step of its own.
LEMMA OwnStep ==
  ASSUME TypeOK, Next, NEW p \in Procs, pc'[p] # pc[p]
  PROVE  Step(p)
  <1>1. ~Tick
    BY DEF Tick
  <1>2. PICK q \in Procs : Step(q)
    BY <1>1 DEF Next
  <1>3. PICK label : pc' = [pc EXCEPT ![q] = label]
    BY <1>2, StepsAlone DEF MovesAlone
  <1>4. q = p
    BY <1>3 DEF TypeOK
  <1> QED BY <1>2, <1>4

\* Only its check takes a request past the label where it enters a code.
LEMMA CodeChecked ==
  ASSUME TypeOK, NEW p \in Procs, Step(p), pc'[p] # "idle"
  PROVE  /\ At(p, "confirm") => ConfirmAccepted(p)
         /\ At(p, "recovery") => RecoveryAccepted(p)
         /\ At(p, "link") => LinkAccepted(p)
         /\ At(p, "otpAuth") => OTPAccepted(p)
  <1> DEFINE Entry == {"confirm", "recovery", "link", "otpAuth"}
  <1>1. ~Refuse(p)
    BY DEF TypeOK, Refuse, Return, Goto
  <1>2. Shared(p) => pc[p] \notin Entry
    BY DEF Shared, GetUserID, LoadUser, SaveAndReturn, RemoveGuest, At
  <1>3. SessionStep(p) => pc[p] \notin Entry
    BY DEF SessionStep, AuthBegin, AuthLoadSession, AuthLoadUser, AuthUnbind, AuthCreateGuest,
           AuthNoGuest, CreateGuestUser, BindGuest, SignOutBegin, SignOutUnbind,
           SignOutRemoveGuest, BeginWithSession, Begin, At
  <1>4. PasswordStep(p) => pc[p] \notin Entry
    BY DEF PasswordStep, SignUpBegin, SignUpRefuse, SignUpTakeOver, SignUpRemoveTemp,
           SignUpNotFound, SignUpSave, SignUpBind, SignInBegin, SignInRefuse, SignInLoad,
           SignInBind, SignInSave, BeginWithSession, Begin, At
  <1>5. SocialStep(p) \/ ProfileStep(p) => pc[p] \notin Entry
    BY DEF SocialStep, SocialBegin, SocialRefuse, SocialLoad, SocialSave, SocialBind,
           ProfileStep, ProfileBegin, ProfileRefuse, UpdateProfile, BeginWithSession, Begin, At
  <1>6. CodeStep(p) => /\ At(p, "confirm") => ConfirmAccepted(p)
                       /\ At(p, "recovery") => RecoveryAccepted(p)
                       /\ ~At(p, "link") /\ ~At(p, "otpAuth")
    BY <1>1 DEF CodeStep, ConfirmBegin, ConfirmRefuse, ConfirmLoad, ResendBegin, ResendRefuse,
           ResendNewCode, RequestRecoveryBegin, RequestRecoveryRefuse, RequestRecoveryLoad,
           RecoveryBegin, RecoveryRefuse, RecoveryLoad, BeginWithSession, Begin, At
  <1>7. LinkStep(p) => /\ At(p, "link") => LinkAccepted(p)
                       /\ ~At(p, "confirm") /\ ~At(p, "recovery") /\ ~At(p, "otpAuth")
    <2>1. InitLinkBegin(p) \/ LinkBegin(p) => At(p, "idle")
      <3>1. \A a : BeginLinkRoute(p, a) => At(p, "idle")
        BY DEF BeginLinkRoute, Begin
      <3>2. CASE InitLinkBegin(p)
        BY <3>1, <3>2 DEF InitLinkBegin
      <3>3. CASE LinkBegin(p)
        BY <3>1, <3>3 DEF LinkBegin
      <3> QED BY <3>2, <3>3
    <2>2. InitLinkPrepare(p) => At(p, "initLink")
      BY DEF InitLinkPrepare
    <2>3. LinkLoad(p) => At(p, "link") /\ LinkAccepted(p)
      BY DEF LinkLoad
    <2>4. LinkSave(p) => At(p, "link.save")
      BY DEF LinkSave
    <2>5. LinkAccountRemove(p) => At(p, "linkAccount")
      BY DEF LinkAccountRemove
    <2>6. ~InitLinkRefuse(p) /\ ~LinkRefuse(p) /\ ~LinkAccountRefuse(p)
      BY <1>1 DEF InitLinkRefuse, LinkRefuse, LinkAccountRefuse
    <2>7. /\ MiddlewareUserID(p) => At(p, "middleware")
          /\ UserMiddleware(p) => At(p, "middleware.load")
      BY DEF MiddlewareUserID, UserMiddleware
    <2> QED BY <2>1, <2>2, <2>3, <2>4, <2>5, <2>6, <2>7 DEF LinkStep, At
  <1>8. OTPStep(p) => /\ At(p, "otpAuth") => OTPAccepted(p)
                      /\ ~At(p, "confirm") /\ ~At(p, "recovery") /\ ~At(p, "link")
    <2>1. OTPCodeBegin(p) \/ OTPAuthBegin(p) => At(p, "idle")
      BY DEF OTPCodeBegin, OTPAuthBegin, BeginWithSession, Begin
    <2>2. ~OTPCodeRefuse(p) /\ ~OTPAuthRefuse(p)
      BY <1>1 DEF OTPCodeRefuse, OTPAuthRefuse
    <2>3. OTPCodePrepare(p) => At(p, "otpCode")
      BY DEF OTPCodePrepare
    <2>4. \/ OTPAuthJoinGuest(p) \/ OTPAuthReplaceGuest(p) \/ OTPAuthLogin(p) \/ OTPAuthLink(p)
          => At(p, "otpAuth") /\ OTPAccepted(p)
      BY DEF OTPAuthJoinGuest, OTPAuthReplaceGuest, OTPAuthLogin, OTPAuthLink
    <2>5. /\ OTPAuthRemove(p) => At(p, "otpAuth.remove")
          /\ OTPAuthBind(p) => At(p, "otpAuth.bind")
          /\ OTPAuthSave(p) => At(p, "otpAuth.save")
      BY DEF OTPAuthRemove, OTPAuthBind, OTPAuthSave
    <2> QED BY <2>1, <2>2, <2>3, <2>4, <2>5 DEF OTPStep, At
  <1> QED BY <1>2, <1>3, <1>4, <1>5, <1>6, <1>7, <1>8 DEF Step, At

\* The code of an identity whose time has not run out was sent in time.
LEMMA UnexpiredInTime ==
  ASSUME DatedInv, CodeSentTimeUser, NEW p \in Procs, Found(p) # Nil,
         arg[p].key \in CodeKeys, ~CodeExpired(Found(p), arg[p].key)
  PROVE  \E kind \in KindsOf(arg[p].key) : InTime(p, kind)
  <1> DEFINE k == arg[p].key
             sent == SentAt(Found(p), k)
             age(kind) == codeAge[kind][<<k, arg[p].uid>>]
  <1>1. Found(p) \in User /\ Dated(Found(p), codeAge) /\ GetUID(Found(p), k) = arg[p].uid
    BY RequestFacts, FoundDated DEF DatedInv, CopyDated
  <1>2. sent # Nil /\ ~(sent > LifeTime(k))
    BY DEF CodeExpired
  <1>3. sent \in Ages /\ k \in Keys
    BY <1>1, <1>2 DEF User, Identity, SentAt, CodeKeys, Keys
  <1>4. PICK kind \in KindsOf(k) : age(kind) # Nil /\ age(kind) <= sent
    BY <1>1, <1>2 DEF Dated
  <1>5. arg[p].uid \in UIDs
    BY <1>1, <1>2 DEF Dated
  <1>6. age(kind) \in Ages
    BY <1>3, <1>4, <1>5 DEF DatedInv, CodeAges, KindsOf, Kinds
  <1>7. LifeTime(k) \in Nat
    BY DelaysBelowMaxAge DEF LifeTime
  <1>8. age(kind) <= LifeTime(k)
    BY <1>2, <1>3, <1>4, <1>6, <1>7, MaxAgeIsNat DEF Ages
  <1> QED BY <1>4, <1>8 DEF InTime

\* A code a request gets past with was sent in time, or the other that shares
\* its sent time was.
LEMMA AcceptedInTime ==
  ASSUME DatedInv, CodeSentTimeUser, Next, NEW p \in Procs
  PROVE  /\ Accepts(p, "otp") => InTime(p, "otp")
         /\ Accepts(p, "confirmation") \/ Accepts(p, "recovery")
              => InTime(p, "confirmation") \/ InTime(p, "recovery")
  <1>0. TypeOK
    BY DEF DatedInv
  <1>1. ASSUME Accepts(p, "otp")
        PROVE  InTime(p, "otp")
    <2>1. pc[p] = "otpAuth" /\ pc'[p] \notin {"idle", "otpAuth"}
      BY <1>1 DEF Accepts, Passes, At
    <2>2. OTPAccepted(p)
      BY <1>0, <2>1, OwnStep, CodeChecked DEF At
    <2>3. arg[p].key \in OTPKeys
      BY <1>0, <2>1, LabelFacts, KeyFacts DEF OnRoute, AllRoutes
    <2>4. Found(p) # Nil /\ ~CodeExpired(Found(p), arg[p].key)
      BY <2>2 DEF OTPAccepted
    <2> QED BY <2>3, <2>4, UnexpiredInTime DEF CodeKeys, KindsOf
  <1>2. ASSUME Accepts(p, "confirmation") \/ Accepts(p, "recovery")
        PROVE  InTime(p, "confirmation") \/ InTime(p, "recovery")
    <2>1. /\ pc[p] \in {"confirm", "link", "recovery"}
          /\ pc'[p] \notin {"idle", "confirm", "link", "recovery"}
          /\ pc[p] = "link" => ~Found(p).auths[arg[p].key].confirmed
      BY <1>2 DEF Accepts, Passes, At
    <2>2. \/ ConfirmAccepted(p) \/ RecoveryAccepted(p)
          \/ LinkAccepted(p) /\ ~Found(p).auths[arg[p].key].confirmed
      BY <1>0, <2>1, OwnStep, CodeChecked DEF At
    <2>3. Found(p) # Nil /\ ~CodeExpired(Found(p), arg[p].key)
      BY <2>2 DEF ConfirmAccepted, RecoveryAccepted, LinkAccepted, LinkCodeMatches
    <2>4. arg[p].key \in PasswordKeys
      BY <1>0, <2>1, LabelFacts, KeyFacts DEF OnRoute, AllRoutes, PasswordOps
    <2> QED BY <2>3, <2>4, UnexpiredInTime, KindsDisjoint DEF CodeKeys, KindsOf
  <1> QED BY <1>1, <1>2

----------------------------------------------------------------------------
(* The theorems.                                                           *)

\* At the start nothing is stored, and no code has been sent.
LEMMA InitDated == TimedInit => DatedInv
  <1> SUFFICES ASSUME TimedInit PROVE DatedInv
    OBVIOUS
  <1>1. TypeOK
    BY InitTyped DEF TimedInit
  <1>2. codeAge \in CodeAges
    BY DEF TimedInit, CodeAges
  <1>3. StoredDated /\ CopiesDated
    BY DEF TimedInit, Init, StoredDated, CopiesDated, CopyDated, NoLoc
  <1> QED BY <1>1, <1>2, <1>3 DEF DatedInv

\* The sent time of a stored identity, and of every copy of it a request
\* holds, is never later than that of the last code sent to it.
THEOREM SentTimesTrue == TimedSpec => []DatedInv
  BY InitDated, NextDated, PTL DEF TimedSpec

\* otpAuthHandler takes no one-time password after its life time, wherever
\* the identity has been moved and whichever stale copy of it was saved since.
THEOREM OTPsDoExpire == CodeSentTimeUser => (TimedSpec => OTPsExpire)
  <1> DEFINE InTimeStep == \A p \in Procs : Accepts(p, "otp") => InTime(p, "otp")
  <1> SUFFICES ASSUME CodeSentTimeUser PROVE TimedSpec => OTPsExpire
    OBVIOUS
  <1>1. DatedInv /\ [TimedNext]_<<vars, codeAge>> => [InTimeStep]_<<vars, codeAge>>
    BY AcceptedInTime DEF TimedNext
  <1>2. OTPsExpire <=> [][InTimeStep]_<<vars, codeAge>>
    BY PTL DEF OTPsExpire
  <1> HIDE DEF InTimeStep
  <1> QED BY <1>1, <1>2, SentTimesTrue, PTL DEF TimedSpec

\* confirm, link and recovery take no code after the life time of the later of
\* the two codes that share a sent time (confirm.go:66, recovery.go:172).
THEOREM CodesDoExpire == CodeSentTimeUser => (TimedSpec => CodesExpireTogether)
  <1> DEFINE InTimeStep ==
               \A p \in Procs :
                 Accepts(p, "confirmation") \/ Accepts(p, "recovery")
                   => InTime(p, "confirmation") \/ InTime(p, "recovery")
  <1> SUFFICES ASSUME CodeSentTimeUser PROVE TimedSpec => CodesExpireTogether
    OBVIOUS
  <1>1. DatedInv /\ [TimedNext]_<<vars, codeAge>> => [InTimeStep]_<<vars, codeAge>>
    BY AcceptedInTime DEF TimedNext
  <1>2. CodesExpireTogether <=> [][InTimeStep]_<<vars, codeAge>>
    BY PTL DEF CodesExpireTogether
  <1> HIDE DEF InTimeStep
  <1> QED BY <1>1, <1>2, SentTimesTrue, PTL DEF TimedSpec
=============================================================================
