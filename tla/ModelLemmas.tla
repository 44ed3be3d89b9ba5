---------------------------- MODULE ModelLemmas ----------------------------
(***************************************************************************)
(* What the setters of the user record and the methods of the storer       *)
(* return, for every value of the constants.                               *)
(***************************************************************************)
EXTENDS UserStore, TLAPS

(* Setters return a user, with the id of the one they were called on.      *)

\* A created user has no identity and the id it was given.
LEMMA NewUserType ==
  ASSUME NEW id \in UserIds
  PROVE  NewUser(id) \in User /\ NewUser(id).id = id
  BY DEF NewUser, User, ZeroIdentity, Identity

\* SetUID puts an identity of its own in place of the old one.
LEMMA SetUIDType ==
  ASSUME NEW u \in User, NEW k \in Keys, NEW uid \in UIDs \cup {Empty}
  PROVE  SetUID(u, k, uid) \in User /\ SetUID(u, k, uid).id = u.id
  BY DEF SetUID, User, ZeroIdentity, Identity

\* SetPassword and SetOTP change a field of an identity.
LEMMA SetPasswordType ==
  ASSUME NEW u \in User, NEW k \in Keys, NEW pw \in Passwords \cup Codes \cup {Empty}
  PROVE  /\ SetPassword(u, k, pw) \in User /\ SetPassword(u, k, pw).id = u.id
         /\ SetOTP(u, k, pw) \in User      /\ SetOTP(u, k, pw).id = u.id
  BY DEF SetPassword, SetOTP, User, Identity

\* So do the setters of the codes and of the confirmation,
LEMMA SetCodeType ==
  ASSUME NEW u \in User, NEW k \in Keys, NEW code \in Codes \cup {Empty}
  PROVE  /\ SetConfirmCode(u, k, code) \in User  /\ SetConfirmCode(u, k, code).id = u.id
         /\ SetRecoveryCode(u, k, code) \in User /\ SetRecoveryCode(u, k, code).id = u.id
  <1>1. SetConfirmCode(u, k, code) \in User  /\ SetConfirmCode(u, k, code).id = u.id
    BY DEF SetConfirmCode, User, Identity
  <1>2. SetRecoveryCode(u, k, code) \in User /\ SetRecoveryCode(u, k, code).id = u.id
    BY DEF SetRecoveryCode, User, Identity
  <1> QED BY <1>1, <1>2

LEMMA SetConfirmedType ==
  ASSUME NEW u \in User, NEW k \in Keys, NEW ok \in BOOLEAN
  PROVE  SetConfirmed(u, k, ok) \in User /\ SetConfirmed(u, k, ok).id = u.id
  BY DEF SetConfirmed, User, Identity

\* and of the time a code was sent.
LEMMA SetCodeSentTimeType ==
  ASSUME NEW u \in User, NEW k \in Keys, NEW t \in Ages \cup {Nil}
  PROVE  SetCodeSentTime(u, k, t) \in User /\ SetCodeSentTime(u, k, t).id = u.id
  BY DEF SetCodeSentTime, User, Identity

\* The flags of the record.
LEMMA SetFlagType ==
  ASSUME NEW u \in User, NEW b \in BOOLEAN
  PROVE  /\ SetGuest(u, b) \in User /\ SetGuest(u, b).id = u.id
         /\ SetTemp(u, b) \in User  /\ SetTemp(u, b).id = u.id
  BY DEF SetGuest, SetTemp, User

\* Time changes nothing about a user but the ages of its codes.
LEMMA AgedType ==
  ASSUME NEW u \in User
  PROVE  /\ Aged(u) \in User
         /\ Aged(u).id = u.id
         /\ \A k \in Keys : /\ GetUID(Aged(u), k) = GetUID(u, k)
                            /\ Present(Aged(u), k) => Present(u, k)
  <1>1. Aged(u) \in User /\ Aged(u).id = u.id
    <2>1. \A t \in Ages \cup {Nil} :
            (IF t \in 0 .. MaxAge - 1 THEN t + 1 ELSE t) \in Ages \cup {Nil}
      BY MaxAgeIsNat DEF Ages
    <2>2. \A x \in Identity, t \in Ages \cup {Nil} :
            [x EXCEPT !.sentAt = t] \in Identity
      BY DEF Identity
    <2>3. \A k \in Keys : u.auths[k] \in Identity /\ u.auths[k].sentAt \in Ages \cup {Nil}
      BY DEF User, Identity
    <2> QED BY <2>1, <2>2, <2>3 DEF Aged, User
  <1>2. ASSUME NEW k \in Keys
        PROVE  /\ GetUID(Aged(u), k) = GetUID(u, k)
               /\ Present(Aged(u), k) => Present(u, k)
    <2>1. Aged(u).auths[k] =
            [u.auths[k] EXCEPT !.sentAt = IF @ \in 0 .. MaxAge - 1 THEN @ + 1 ELSE @]
      BY DEF Aged, User
    <2>2. u.auths[k] \in Identity
      BY DEF User
    <2>3. GetUID(Aged(u), k) = GetUID(u, k)
      BY <2>1, <2>2 DEF GetUID, Identity
    <2>4. u.auths[k] = ZeroIdentity => Aged(u).auths[k] = ZeroIdentity
      <3>1. Nil \notin 0 .. MaxAge - 1
        BY NilIsNoValue, MaxAgeIsNat DEF Ages
      <3>2. u.auths[k] = ZeroIdentity => u.auths[k].sentAt = Nil
        BY DEF ZeroIdentity
      <3>3. \A y \in Identity : [y EXCEPT !.sentAt = y.sentAt] = y
        BY DEF Identity
      <3>4. u.auths[k].sentAt = Nil => Aged(u).auths[k] = u.auths[k]
        BY <2>1, <2>2, <3>1, <3>3
      <3> QED BY <3>2, <3>4
    <2> QED BY <2>3, <2>4 DEF Present
  <1> QED BY <1>1, <1>2

----------------------------------------------------------------------------
(* The storer.                                                             *)

\* The storer's map: users at their own ids.
Storer(users) ==
    /\ users \in [UserIds -> User \cup {Nil}]
    /\ \A id \in UserIds : users[id] # Nil => users[id].id = id

\* What a load returns is nil or a stored user.
LEMMA LoadType ==
  ASSUME NEW users, Storer(users)
  PROVE  /\ \A id : LoadByID(users, id) \in User \cup {Nil}
         /\ \A k, uid : LoadByUID(users, k, uid) \in User \cup {Nil}
  <1>1. ASSUME NEW id PROVE LoadByID(users, id) \in User \cup {Nil}
    BY DEF LoadByID, Storer
  <1>2. ASSUME NEW k, NEW uid PROVE LoadByUID(users, k, uid) \in User \cup {Nil}
    <2> DEFINE owner == CHOOSE id \in Owners(users, k, uid) : TRUE
    <2>1. CASE Owners(users, k, uid) = {}
      BY <2>1 DEF LoadByUID
    <2>2. CASE Owners(users, k, uid) # {}
      <3>1. owner \in Owners(users, k, uid)
        BY <2>2
      <3>2. owner \in UserIds
        BY <3>1 DEF Owners, Stored
      <3>3. LoadByUID(users, k, uid) = users[owner]
        BY <2>2 DEF LoadByUID
      <3> QED BY <3>2, <3>3 DEF Storer
    <2> QED BY <2>1, <2>2
  <1> QED BY <1>1, <1>2

\* Put, RemoveByID and the passing of time leave a storer.
LEMMA StorerSteps ==
  ASSUME NEW users, Storer(users)
  PROVE  /\ \A u \in User : Storer(Put(users, u))
         /\ \A id : Storer(RemoveByID(users, id))
         /\ Storer([id \in UserIds |-> IF users[id] = Nil THEN Nil ELSE Aged(users[id])])
  <1>1. ASSUME NEW u \in User PROVE Storer(Put(users, u))
    <2>1. u.id \in UserIds
      BY DEF User
    <2> QED BY <2>1 DEF Storer, Put
  <1>2. ASSUME NEW id PROVE Storer(RemoveByID(users, id))
    BY DEF Storer, RemoveByID
  <1>3. Storer([id \in UserIds |-> IF users[id] = Nil THEN Nil ELSE Aged(users[id])])
    BY AgedType DEF Storer
  <1> QED BY <1>1, <1>2, <1>3

\* Save keeps identities unique: the user it puts shares none with others.
LEMMA PutUnique ==
  ASSUME NEW users, Storer(users), Unique(users),
         NEW u \in User, ~IsDuplicate(users, u)
  PROVE  Unique(Put(users, u))
  <1>1. u.id \in UserIds /\ u # Nil
    BY NilIsNoValue DEF User
  <1> DEFINE new == Put(users, u)
  <1>2. new[u.id] = u /\ \A i \in UserIds : i # u.id => new[i] = users[i]
    BY <1>1 DEF Storer, Put
  <1>3. ASSUME NEW k \in Keys, NEW i \in Stored(users), i # u.id,
               Present(users[i], k), Present(u, k),
               GetUID(users[i], k) = GetUID(u, k)
        PROVE  FALSE
    BY <1>3 DEF IsDuplicate, Owners
  <1>4. ASSUME NEW k \in Keys, NEW i \in Stored(new), NEW j \in Stored(new),
               Present(new[i], k), Present(new[j], k),
               GetUID(new[i], k) = GetUID(new[j], k)
        PROVE  i = j
    <2>1. i \in UserIds /\ j \in UserIds
      BY DEF Stored
    <2>2. CASE i = u.id /\ j # u.id
      BY <1>2, <1>3, <1>4, <2>1, <2>2 DEF Stored
    <2>3. CASE i # u.id /\ j = u.id
      BY <1>2, <1>3, <1>4, <2>1, <2>3 DEF Stored
    <2>4. CASE i # u.id /\ j # u.id
      <3>1. i \in Stored(users) /\ j \in Stored(users)
        BY <1>2, <2>1, <2>4 DEF Stored
      <3> QED BY <1>2, <1>4, <2>1, <2>4, <3>1 DEF Unique
    <2> QED BY <2>2, <2>3, <2>4
  <1> QED BY <1>4 DEF Unique

\* So does removing a user,
LEMMA RemoveUnique ==
  ASSUME NEW users, Storer(users), Unique(users), NEW id
  PROVE  Unique(RemoveByID(users, id))
  BY DEF Unique, RemoveByID, Stored, Storer

\* and the passing of time.
LEMMA AgedUnique ==
  ASSUME NEW users, Storer(users), Unique(users)
  PROVE  Unique([id \in UserIds |-> IF users[id] = Nil THEN Nil ELSE Aged(users[id])])
  <1> DEFINE new == [id \in UserIds |-> IF users[id] = Nil THEN Nil ELSE Aged(users[id])]
  <1>1. ASSUME NEW i \in Stored(new)
        PROVE  i \in Stored(users) /\ new[i] = Aged(users[i]) /\ users[i] \in User
    BY DEF Stored, Storer
  <1> HIDE DEF new
  <1>2. ASSUME NEW k \in Keys, NEW i \in Stored(new), NEW j \in Stored(new),
               Present(new[i], k), Present(new[j], k),
               GetUID(new[i], k) = GetUID(new[j], k)
        PROVE  i = j
    <2>1. /\ Present(users[i], k) /\ Present(users[j], k)
          /\ GetUID(users[i], k) = GetUID(users[j], k)
      BY <1>1, <1>2, AgedType
    <2> QED BY <1>1, <2>1 DEF Unique
  <1> QED BY <1>2 DEF Unique, new
=============================================================================
