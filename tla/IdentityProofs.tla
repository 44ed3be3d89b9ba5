--------------------------- MODULE IdentityProofs ---------------------------
(***************************************************************************)
(* What becomes of identities and of guests when requests are served one   *)
(* after the other and Save does not fail: accounts come by further        *)
(* identities only once they are confirmed, guests hold no confirmed one,  *)
(* and no removal of a guest or a temporary user takes along an identity   *)
(* somebody proved to hold.                                                *)
(*                                                                         *)
(* The invariant, on top of the two of SequentialProofs, follows what each *)
(* label may still owe: a guest that is bound to its session but not yet   *)
(* saved, a session without a user, an identity removed with its parked    *)
(* user and not yet saved with another.                                    *)
(***************************************************************************)
EXTENDS SequentialProofs

\* Where guests exist, every session with a token has a user, and no merge
\* takes the user of another session away.
Steady == ~MergeAccount /\ (GuestUser => PasswordAuthableUser)

----------------------------------------------------------------------------
(* Users and their identities.                                             *)

Holds(u) == \E k \in Keys : GetUID(u, k) # Empty
Single(u) == \A j, k \in Keys : GetUID(u, j) # Empty /\ GetUID(u, k) # Empty => j = k
SameUIDs(u, v) == \A k \in Keys : GetUID(u, k) = GetUID(v, k)

\* The user has no identity but x.
OnlyHas(u, x) == \A k \in Keys : GetUID(u, k) # Empty => <<k, GetUID(u, k)>> = x

\* Guests and temporary users have one identity at most, and guests one of an
\* OTP method.
GuestOK(u) ==
    /\ u.guest => /\ GuestUser /\ ~u.temp
                  /\ \A k \in Keys \ OTPKeys : GetUID(u, k) = Empty
    /\ u.guest \/ u.temp => Single(u)
    /\ Steady /\ u.guest => ~Confirmed(u)

Guests(us) == {id \in Stored(us) : us[id].guest}

\* What a saved user owes to the stored one it replaces.
Replaces(u, v) ==
    /\ u.guest => v.guest /\ SameUIDs(u, v)
    /\ Holds(v) /\ ~Confirmed(v)
         => \A k \in Keys : GetUID(v, k) = Empty => GetUID(u, k) = Empty
    /\ Steady => \A k \in Keys : GetUID(v, k) # Empty => GetUID(u, k) = GetUID(v, k)

Follows(us, ss, u) ==
    /\ us[u.id] # Nil => Replaces(u, us[u.id])
    /\ us[u.id] = Nil /\ u.guest => Unbound(ss, u.id)

----------------------------------------------------------------------------
(* The invariant: what is stored.                                          *)

\* A guest that a session comes back to has shown that its identity is its
\* own, but for the guests in L, about to be saved confirmed.
StoreOK(us, ss, L) ==
    /\ \A id \in Stored(us) : GuestOK(us[id])
    /\ \A s \in Sessions :
         ss[s] \in Guests(us) /\ Holds(us[ss[s]]) => Confirmed(us[ss[s]]) \/ ss[s] \in L

\* Every session with a token has a user, but for those in G, every user of a
\* session is stored, but for those in D, and a guest belongs to one session.
GuestsBound(us, ss, iss, G, D) ==
    /\ \A s, t \in Sessions : ss[s] \in Guests(us) /\ ss[t] = ss[s] => s = t
    /\ GuestUser => \A s \in Sessions :
         /\ s \in iss /\ ss[s] = Nil => s \in G
         /\ ss[s] # Nil => ss[s] \in Stored(us) \/ s \in D

\* Every proved identity has an owner, but for those in R.
ProvedOwned(us, P, R) == \A x \in P : Owners(us, x[1], x[2]) # {} \/ x \in R

\* The exceptions, label by label.
Logging(label, l) == IF label = "otpAuth.save" THEN {l.u.id} ELSE {}

Userless(label, a) ==
    IF label \in {"auth.guest", "guest.save", "guest.bind", "signOut.remove"}
    THEN {a.s} ELSE {}

Adrift(label, a) == IF label = "otpAuth.bind" THEN {a.s} ELSE {}

Restored(label, a) ==
    IF \/ label \in {"signUp.save", "social.save", "otpAuth.bind", "otpAuth.save"}
       \/ label = "save" /\ a.op \in {"link", "otpAuth"}
       \/ label = "linkAccount" /\ a.op = "social"
    THEN {Named(a)} ELSE {}

----------------------------------------------------------------------------
(* The invariant: the request at a label, with parameters a and locals l.  *)

\* The copy of the session's user.
SessionUserOK(l) ==
    l.User # Nil => /\ GuestOK(l.User)
                    /\ l.UserIsGuest = (GuestUser /\ l.User.guest)
                    /\ l.User.guest /\ Holds(l.User) => Confirmed(l.User)

Logins == {"otpAuth.remove", "otpAuth.bind", "otpAuth.save"}

\* The user in hand.
InHandOK(label, l, us, ss) ==
    /\ label \in Pending => GuestOK(l.u) /\ Follows(us, ss, l.u)
    /\ label \in Logins => Confirmed(l.u)
    /\ label \in {"otpAuth.remove", "social.save", "signIn.bind", "signIn.save"} => ~l.u.guest
    /\ label = "otpAuth.bind" /\ l.u.guest => us[l.u.id] # Nil
    /\ label \in {"signUp.bind", "signIn.bind", "social.bind"} => l.u.id \notin Guests(us)
    /\ label = "guest.bind" /\ us[l.u.id] # Nil => ~Holds(us[l.u.id])
    /\ label \in {"guest.save", "signOut.remove"} => GuestUser

IdentitiesOK(label, l, us, ss) ==
    SessionUserOK(l) /\ InHandOK(label, l, us, ss) /\ StoreOK(us, ss, Logging(label, l))

SessionRoutes == AllRoutes \ {"auth", "confirm", "requestRecovery", "recovery"}

\* Users that are there, or still there, and the sessions bound to them.
PresentOK(label, a, l, us, ss, iss) ==
    /\ label # "idle" /\ a.op \in SessionRoutes => a.s \in iss
    /\ GuestUser /\ label \in SessionRoutes => l.User # Nil
    /\ label \in ToBind => us[l.u.id] # Nil
    /\ label \in {"signUp.remove", "signUp.save"} /\ l.User # Nil => us[l.User.id] = l.User
    /\ label \in {"link.save", "linkAccount"} /\ l.User # Nil /\ GetUID(l.User, a.key) = Empty
         => us[l.User.id] = l.User
    /\ l.UserIsGuest => \A t \in Sessions : ss[t] = l.UserID => t = a.s
    /\ label \in {"otpAuth.remove", "otpAuth.bind"} /\ l.u.id \in Guests(us)
         => \A t \in Sessions : ss[t] = l.u.id => t = a.s
    /\ label = "guest.bind" => Unbound(ss, l.u.id)
    /\ label = "signOut.remove" => ss[a.s] = Nil
    /\ label \in {"signIn.save", "removeGuest"} => ss[a.s] = l.u.id

\* The users to be removed have nothing to lose but the identity at hand.
LosesOK(label, a, l, us, ss) ==
    /\ /\ l.UserIsGuest
       /\ label \in AllRoutes \cup {"signOut.remove", "signIn.bind", "signIn.save",
                                    "social.save", "social.bind", "removeGuest"}
       /\ us[l.UserID] # Nil
       => ~Holds(us[l.UserID])
    /\ l.UserIsGuest /\ label \in {"signIn.bind", "signIn.save", "social.save",
                                   "social.bind", "removeGuest"}
         => l.u.id # l.UserID
    /\ /\ label \in {"signUp.remove", "otpAuth.remove"}
       /\ l.removeUserID \in UserIds /\ us[l.removeUserID] # Nil
       => OnlyHas(us[l.removeUserID], Named(a))
    /\ label = "signUp.remove" => /\ Unbound(ss, l.removeUserID)
                                  /\ l.User # Nil => l.removeUserID # l.User.id
    /\ label = "otpAuth.remove" => /\ l.removeUserID # l.u.id
                                   /\ \A t \in Sessions : ss[t] = l.removeUserID => t = a.s

\* An identity to be linked, or to be saved again.
LinksOK(label, a, l, us) ==
    /\ label \in {"link.save", "linkAccount"} =>
         /\ GetUID(l.u, a.key) = a.uid
         /\ us[l.u.id] # Nil => SameUIDs(us[l.u.id], l.u)
         /\ Owners(us, a.key, a.uid) \subseteq {l.u.id}
    /\ label = "linkAccount" /\ a.op = "social" =>
         CanLink(l.User, a.key) /\ ~l.UserIsGuest /\ l.u.temp
    /\ label = "social.save" \/ (label = "save" /\ a.op \in {"link", "otpAuth"})
         => GetUID(l.u, a.key) = a.uid /\ Sole(us, l.u, {})

SteadyOK(label, a, l, us, ss, iss, P) ==
    /\ GuestsBound(us, ss, iss, Userless(label, a), Adrift(label, a))
    /\ ProvedOwned(us, P, Restored(label, a))
    /\ PresentOK(label, a, l, us, ss, iss)
    /\ LosesOK(label, a, l, us, ss)
    /\ LinksOK(label, a, l, us)

IdentityInv ==
    /\ \A p \in Procs :
         /\ IdentitiesOK(pc[p], loc[p], users, sessions)
         /\ Steady => SteadyOK(pc[p], arg[p], loc[p], users, sessions, issued, proved)
    /\ Procs = {} => Stored(users) = {} /\ proved = {}

----------------------------------------------------------------------------
(* Copies of users.                                                        *)

\* The same identities, and a guest if it was one.
Same(u, v) == u.id = v.id /\ u.guest = v.guest /\ SameUIDs(u, v)

\* Nothing has become of its confirmations either.
Twin(u, v) == /\ Same(u, v) /\ u.temp = v.temp
              /\ \A k \in Keys : u.auths[k].confirmed = v.auths[k].confirmed

\* The setters but SetUID and the flags keep the identities, and all but
\* SetConfirmed the confirmations.
LEMMA SettersTwin ==
  ASSUME NEW v \in User, NEW k \in Keys, NEW x
  PROVE  /\ Twin(SetPassword(v, k, x), v)
         /\ Twin(SetOTP(v, k, x), v)
         /\ Twin(SetConfirmCode(v, k, x), v)
         /\ Twin(SetRecoveryCode(v, k, x), v)
         /\ Twin(StampCode(v, k), v)
         /\ Twin(ClearStamp(v, k), v)
         /\ Same(SetConfirmed(v, k, x), v) /\ SetConfirmed(v, k, x).temp = v.temp
         /\ SetConfirmed(v, k, x).auths[k].confirmed = x
  <1> USE DEF Twin, Same, SameUIDs, User, Identity, GetUID
  <1>1. Twin(SetPassword(v, k, x), v)
    BY DEF SetPassword
  <1>2. Twin(SetOTP(v, k, x), v)
    BY DEF SetOTP
  <1>3. Twin(SetConfirmCode(v, k, x), v)
    BY DEF SetConfirmCode
  <1>4. Twin(SetRecoveryCode(v, k, x), v)
    BY DEF SetRecoveryCode
  <1>5. Twin(StampCode(v, k), v)
    BY DEF StampCode, SetCodeSentTime
  <1>6. Twin(ClearStamp(v, k), v)
    BY DEF ClearStamp, SetCodeSentTime
  <1>7. /\ Same(SetConfirmed(v, k, x), v) /\ SetConfirmed(v, k, x).temp = v.temp
        /\ SetConfirmed(v, k, x).auths[k].confirmed = x
    BY DEF SetConfirmed
  <1> HIDE DEF Twin, Same
  <1> QED BY <1>1, <1>2, <1>3, <1>4, <1>5, <1>6, <1>7

\* Both relations are transitive.
LEMMA TwinOn ==
  ASSUME NEW u, NEW v, NEW w
  PROVE  /\ Twin(u, u)
         /\ Twin(u, v) => Same(u, v)
         /\ Twin(u, v) /\ Twin(v, w) => Twin(u, w)
         /\ Same(u, v) /\ Same(v, w) => Same(u, w)
  BY DEF Twin, Same, SameUIDs

\* What is made of a user in order is in order.
LEMMA SameGuestOK ==
  ASSUME NEW u, NEW v, GuestOK(v)
  PROVE  /\ Twin(u, v) => GuestOK(u)
         /\ Same(u, v) /\ (u.temp => v.temp) /\ (Steady => ~u.guest) => GuestOK(u)
  <1>1. Same(u, v) /\ (u.temp => v.temp) =>
          /\ u.guest => /\ GuestUser /\ ~u.temp
                        /\ \A k \in Keys \ OTPKeys : GetUID(u, k) = Empty
          /\ u.guest \/ u.temp => Single(u)
    BY DEF GuestOK, Same, SameUIDs, Single
  <1>2. Twin(u, v) => (Confirmed(u) <=> Confirmed(v)) /\ Same(u, v) /\ (u.temp => v.temp)
    BY DEF Twin, Confirmed
  <1>3. Twin(u, v) => u.guest = v.guest
    BY DEF Twin, Same
  <1> QED BY <1>1, <1>2, <1>3 DEF GuestOK

\* What is made of a stored user may be saved.
LEMMA SameFollows ==
  ASSUME NEW us, NEW ss, NEW v \in User, us[v.id] = v, NEW u, Same(u, v)
  PROVE  Follows(us, ss, u)
  BY UserFacts DEF Follows, Replaces, Same, SameUIDs

\* A guest has no identity of a password or social method.
LEMMA GuestKeys ==
  ASSUME NEW v, GuestOK(v), NEW k \in PasswordKeys \cup SocialKeys, GetUID(v, k) # Empty
  PROVE  ~v.guest
  BY KindsDisjoint DEF GuestOK, Keys

\* A user with one identity has no other.
LEMMA SingleOnly ==
  ASSUME NEW v, GuestOK(v), v.guest \/ v.temp, NEW k \in Keys, NEW uid \in UIDs,
         GetUID(v, k) = uid
  PROVE  OnlyHas(v, <<k, uid>>)
  BY EmptyIsNoValue DEF GuestOK, Single, OnlyHas

\* A created user is in order, with or without its first identity.
LEMMA NewGuestOK ==
  ASSUME NEW id \in UserIds, NEW g \in BOOLEAN, NEW t \in BOOLEAN, NEW u,
         u.guest = g, u.temp = t, g => GuestUser /\ ~t, NEW k \in Keys,
         g => k \in OTPKeys /\ ~Confirmed(u),
         \A j \in Keys \ {k} : GetUID(u, j) = Empty
  PROVE  GuestOK(u)
  BY DEF GuestOK, Single

----------------------------------------------------------------------------
(* The calls to the storers.                                               *)

\* Save.
LEMMA PutIdentities ==
  ASSUME NEW us, Storer(us), NEW ss, NEW u \in User, GuestOK(u), Follows(us, ss, u),
         u.guest => SucceedsStored(us, u)
  PROVE  /\ \A L : /\ StoreOK(us, ss, L)
                   /\ \A id \in L : id = u.id /\ Confirmed(u)
                   => StoreOK(Put(us, u), ss, {})
         /\ \A iss, G, D : GuestsBound(us, ss, iss, G, D) => GuestsBound(Put(us, u), ss, iss, G, D)
         /\ \A P, R : /\ Steady /\ ProvedOwned(us, P, R)
                      /\ P \subseteq Keys \X UIDs
                      /\ \A x \in R : GetUID(u, x[1]) = x[2]
                      => ProvedOwned(Put(us, u), P, {})
  <1> DEFINE new == Put(us, u)
             v == us[u.id]
  <1>1. /\ new[u.id] = u /\ u.id \in UserIds /\ u # Nil
        /\ \A i \in UserIds \ {u.id} : new[i] = us[i]
    BY StorerEffects, UserFacts
  <1> HIDE DEF new
  <1>2. /\ u.id \in Stored(new)
        /\ \A i \in UserIds \ {u.id} : i \in Stored(new) <=> i \in Stored(us)
    BY <1>1 DEF Stored
  <1>3. ASSUME NEW L, StoreOK(us, ss, L), \A id \in L : id = u.id /\ Confirmed(u)
        PROVE  StoreOK(new, ss, {})
    <2>1. \A id \in Stored(new) : GuestOK(new[id])
      BY <1>1, <1>2, <1>3 DEF StoreOK, Stored
    <2>2. ASSUME NEW s \in Sessions, ss[s] \in Guests(new), Holds(new[ss[s]])
          PROVE  Confirmed(new[ss[s]])
      <3>1. CASE ss[s] = u.id
        <4>1. u.guest /\ Holds(u)
          BY <1>1, <2>2, <3>1 DEF Guests
        <4>2. v # Nil /\ Replaces(u, v)
          BY <3>1, <4>1 DEF Follows, Unbound
        <4>3. v.guest /\ SameUIDs(u, v) /\ Holds(v)
          BY <4>1, <4>2 DEF Replaces, SameUIDs, Holds
        <4>4. ss[s] \in Guests(us) /\ us[ss[s]] = v
          BY <1>1, <3>1, <4>2, <4>3 DEF Guests, Stored
        <4>5. Confirmed(v) \/ Confirmed(u)
          BY <1>3, <4>3, <4>4 DEF StoreOK
        <4>6. Confirmed(v) => Confirmed(u)
          BY <4>1, <4>2, <4>3 DEF SucceedsStored, Succeeds, SameUIDs, Confirmed
        <4> QED BY <1>1, <3>1, <4>5, <4>6
      <3>2. CASE ss[s] # u.id
        <4>1. ss[s] \in Guests(us) /\ new[ss[s]] = us[ss[s]]
          BY <1>1, <1>2, <2>2, <3>2 DEF Guests, Stored
        <4> QED BY <1>3, <2>2, <3>2, <4>1 DEF StoreOK
      <3> QED BY <3>1, <3>2
    <2> QED BY <2>1, <2>2 DEF StoreOK
  <1>4. ASSUME NEW iss, NEW G, NEW D, GuestsBound(us, ss, iss, G, D)
        PROVE  GuestsBound(new, ss, iss, G, D)
    <2>1. ASSUME NEW s \in Sessions, NEW t \in Sessions, ss[s] \in Guests(new), ss[t] = ss[s]
          PROVE  s = t
      <3>1. CASE ss[s] = u.id
        <4>1. v # Nil /\ v.guest
          BY <1>1, <2>1, <3>1 DEF Guests, Follows, Unbound, Replaces
        <4>2. ss[s] \in Guests(us)
          BY <1>1, <3>1, <4>1 DEF Guests, Stored
        <4> QED BY <1>4, <2>1, <4>2 DEF GuestsBound
      <3>2. CASE ss[s] # u.id
        <4>1. ss[s] \in Guests(us)
          BY <1>1, <1>2, <2>1, <3>2 DEF Guests, Stored
        <4> QED BY <1>4, <2>1, <4>1 DEF GuestsBound
      <3> QED BY <3>1, <3>2
    <2>2. Stored(us) \subseteq Stored(new)
      BY <1>1, <1>2 DEF Stored
    <2> QED BY <1>4, <2>1, <2>2 DEF GuestsBound
  <1>5. ASSUME NEW P, NEW R, Steady, ProvedOwned(us, P, R), P \subseteq Keys \X UIDs,
               \A x \in R : GetUID(u, x[1]) = x[2]
        PROVE  ProvedOwned(new, P, {})
    <2> SUFFICES ASSUME NEW x \in P PROVE Owners(new, x[1], x[2]) # {}
      BY DEF ProvedOwned
    <2> DEFINE k == x[1]
               uid == x[2]
    <2>1. k \in Keys /\ uid \in UIDs
      BY <1>5
    <2>2. \A w : GetUID(w, k) = uid => Present(w, k)
      BY <2>1, EmptyIsNoValue DEF Present, GetUID, ZeroIdentity
    <2> HIDE DEF k, uid
    <2>3. GetUID(u, k) = uid => u.id \in Owners(new, k, uid)
      BY <1>1, <1>2, <2>2 DEF Owners
    <2>4. CASE x \in R
      BY <1>5, <2>3, <2>4 DEF k, uid
    <2>5. CASE Owners(us, k, uid) # {}
      <3>1. PICK i \in Owners(us, k, uid) : TRUE
        BY <2>5
      <3>2. i \in Stored(us) /\ i \in UserIds /\ us[i] # Nil /\ GetUID(us[i], k) = uid
        BY <3>1 DEF Owners, Stored
      <3>3. CASE i = u.id
        <4>1. GetUID(u, k) = uid
          BY <1>5, <2>1, <3>2, <3>3, EmptyIsNoValue DEF Follows, Replaces
        <4> QED BY <2>3, <4>1 DEF k, uid
      <3>4. CASE i # u.id
        <4>1. i \in Stored(new) /\ new[i] = us[i]
          BY <1>1, <1>2, <3>2, <3>4
        <4>2. i \in Owners(new, k, uid)
          BY <3>1, <4>1 DEF Owners
        <4> QED BY <4>2 DEF k, uid
      <3> QED BY <3>3, <3>4
    <2> QED BY <1>5, <2>4, <2>5 DEF ProvedOwned, k, uid
  <1> QED BY <1>3, <1>4, <1>5 DEF new

\* RemoveByID.
LEMMA RemoveIdentities ==
  ASSUME NEW us, Storer(us), NEW ss, NEW id
  PROVE  /\ StoreOK(us, ss, {}) => StoreOK(RemoveByID(us, id), ss, {})
         /\ \A iss, G, D : /\ GuestsBound(us, ss, iss, G, {})
                           /\ \A s \in Sessions : ss[s] = id => s \in D
                           => GuestsBound(RemoveByID(us, id), ss, iss, G, D)
         /\ \A P, R, x : /\ ProvedOwned(us, P, R) /\ P \subseteq Keys \X UIDs
                         /\ id \in UserIds /\ us[id] # Nil => OnlyHas(us[id], x)
                         => ProvedOwned(RemoveByID(us, id), P, R \cup {x})
         /\ \A P, R : /\ ProvedOwned(us, P, R) /\ P \subseteq Keys \X UIDs
                      /\ id \in UserIds /\ us[id] # Nil => ~Holds(us[id])
                      => ProvedOwned(RemoveByID(us, id), P, R)
  <1> DEFINE new == RemoveByID(us, id)
  <1>1. \A i \in UserIds : new[i] = IF i = id THEN Nil ELSE us[i]
    BY DEF RemoveByID, Storer
  <1> HIDE DEF new
  <1>2. \A i : i \in Stored(new) => i \in Stored(us) /\ new[i] = us[i] /\ i # id
    BY <1>1 DEF Stored
  <1>3. \A i : i \in Stored(us) /\ i # id => i \in Stored(new)
    BY <1>1 DEF Stored
  <1>4. \A i : i \in Guests(new) => i \in Guests(us) /\ new[i] = us[i]
    BY <1>2 DEF Guests
  <1>5. StoreOK(us, ss, {}) => StoreOK(new, ss, {})
    BY <1>2, <1>4 DEF StoreOK
  <1>6. ASSUME NEW iss, NEW G, NEW D, GuestsBound(us, ss, iss, G, {}),
               \A s \in Sessions : ss[s] = id => s \in D
        PROVE  GuestsBound(new, ss, iss, G, D)
    BY <1>3, <1>4, <1>6 DEF GuestsBound
  \* The other users own what they owned.
  <1>7. ASSUME NEW k \in Keys, NEW uid \in UIDs, Owners(us, k, uid) # {},
               Owners(new, k, uid) = {}
        PROVE  id \in UserIds /\ us[id] # Nil /\ GetUID(us[id], k) = uid /\ uid # Empty
    <2>1. PICK i \in Owners(us, k, uid) : TRUE
      BY <1>7
    <2>2. i \in Stored(us) /\ Present(us[i], k) /\ GetUID(us[i], k) = uid
      BY <2>1 DEF Owners
    <2>3. i = id
      <3>1. i # id => i \in Stored(new) /\ new[i] = us[i]
        BY <1>2, <1>3, <2>2
      <3>2. i # id => i \in Owners(new, k, uid)
        BY <2>2, <3>1 DEF Owners
      <3> QED BY <1>7, <3>2
    <2> QED BY <2>2, <2>3, EmptyIsNoValue DEF Stored
  <1>8. ASSUME NEW P, NEW R, NEW x, ProvedOwned(us, P, R), P \subseteq Keys \X UIDs,
               id \in UserIds /\ us[id] # Nil => OnlyHas(us[id], x)
        PROVE  ProvedOwned(new, P, R \cup {x})
    <2> SUFFICES ASSUME NEW y \in P, y \notin R, Owners(new, y[1], y[2]) = {} PROVE y = x
      BY DEF ProvedOwned
    <2>1. y[1] \in Keys /\ y[2] \in UIDs /\ y = <<y[1], y[2]>>
      BY <1>8
    <2>2. Owners(us, y[1], y[2]) # {}
      BY <1>8 DEF ProvedOwned
    <2> QED BY <1>7, <1>8, <2>1, <2>2 DEF OnlyHas
  <1>9. ASSUME NEW P, NEW R, ProvedOwned(us, P, R), P \subseteq Keys \X UIDs,
               id \in UserIds /\ us[id] # Nil => ~Holds(us[id])
        PROVE  ProvedOwned(new, P, R)
    <2> SUFFICES ASSUME NEW y \in P, y \notin R, Owners(new, y[1], y[2]) = {} PROVE FALSE
      BY DEF ProvedOwned
    <2>1. y[1] \in Keys /\ y[2] \in UIDs
      BY <1>9
    <2>2. Owners(us, y[1], y[2]) # {}
      BY <1>9 DEF ProvedOwned
    <2> QED BY <1>7, <1>9, <2>1, <2>2 DEF Holds
  <1> QED BY <1>5, <1>6, <1>8, <1>9 DEF new

\* BindUser and UnbindUser.
LEMMA BindStore ==
  ASSUME NEW us, NEW ss \in [Sessions -> UserIds \cup {Nil}], NEW s, NEW id, NEW L,
         StoreOK(us, ss, {}),
         id \in Guests(us) /\ Holds(us[id]) => Confirmed(us[id]) \/ id \in L
  PROVE  StoreOK(us, [ss EXCEPT ![s] = id], L)
  BY DEF StoreOK

\* BindUser: the session has a user, and is the only one with this guest.
LEMMA BindBound ==
  ASSUME NEW us, NEW ss \in [Sessions -> UserIds \cup {Nil}], NEW s \in Sessions, NEW id,
         NEW iss, GuestsBound(us, ss, iss, {s}, {s}), id \in Stored(us), id # Nil,
         id \in Guests(us) => \A t \in Sessions : ss[t] = id => t = s,
         NEW ss2, ss2 = [ss EXCEPT ![s] = id]
  PROVE  /\ GuestsBound(us, ss2, iss, {}, {})
         /\ GuestsBound(us, ss2, iss \cup {s}, {}, {})
  BY DEF GuestsBound

\* UnbindUser: it has none.
LEMMA UnbindBound ==
  ASSUME NEW us, NEW ss \in [Sessions -> UserIds \cup {Nil}], NEW s \in Sessions,
         NEW iss, GuestsBound(us, ss, iss, {}, {}), StoreOK(us, ss, {})
  PROVE  /\ GuestsBound(us, [ss EXCEPT ![s] = Nil], iss, {s}, {})
         /\ StoreOK(us, [ss EXCEPT ![s] = Nil], {})
  BY NilIsNoValue DEF GuestsBound, StoreOK, Guests, Stored

----------------------------------------------------------------------------
(* What a step is to establish.                                            *)

\* The storer takes a user that may follow the stored one, or loses one.
Traced ==
    \/ UNCHANGED users
    \/ \E id : users' = RemoveByID(users, id)
    \/ \E u \in User : users' = Put(users, u) /\ Follows(users, sessions, u)

Kin(p) ==
    /\ Traced
    /\ IdentitiesOK(pc'[p], loc'[p], users', sessions')
    /\ Steady => SteadyOK(pc'[p], arg'[p], loc'[p], users', sessions', issued', proved')

WholeInv == SeqInv /\ OnceInv /\ IdentityInv

\* What a request has to start with.
LEMMA WholeParts ==
  ASSUME WholeInv, NEW p \in Procs
  PROVE  /\ SeqInv /\ OnceInv /\ TypeOK /\ Storer(users)
         /\ sessions \in [Sessions -> UserIds \cup {Nil}]
         /\ proved \subseteq Keys \X UIDs
         /\ AloneOK(pc[p], arg[p], loc[p], users, sessions)
         /\ CodesOnce(pc[p], arg[p], loc[p], users, spent)
         /\ LoginOnce(pc[p], arg[p], loc[p], users, spent)
         /\ IdentitiesOK(pc[p], loc[p], users, sessions)
         /\ Steady => SteadyOK(pc[p], arg[p], loc[p], users, sessions, issued, proved)
  BY TypeParts DEF WholeInv, SeqInv, OnceInv, IdentityInv, SessionsOK, HistoryOK

\* Labels at which nothing is owed.
Settled(label, a) ==
    /\ label \notin {"auth.guest", "guest.save", "guest.bind", "signOut.remove",
                     "signUp.save", "social.save", "otpAuth.bind", "otpAuth.save"}
    /\ label = "save" => a.op \notin {"link", "otpAuth"}
    /\ label = "linkAccount" => a.op # "social"

\* Then the store is in order without exceptions.
LEMMA SettledStore ==
  ASSUME WholeInv, NEW p \in Procs, Settled(pc[p], arg[p])
  PROVE  /\ StoreOK(users, sessions, {})
         /\ Steady => /\ GuestsBound(users, sessions, issued, {}, {})
                      /\ ProvedOwned(users, proved, {})
  <1>1. /\ Logging(pc[p], loc[p]) = {} /\ Userless(pc[p], arg[p]) = {}
        /\ Adrift(pc[p], arg[p]) = {} /\ Restored(pc[p], arg[p]) = {}
    BY DEF Settled, Logging, Userless, Adrift, Restored
  <1> QED BY <1>1, WholeParts DEF IdentitiesOK, SteadyOK

\* Exceptions may be added.
LEMMA StoreOn ==
  ASSUME NEW us, NEW ss
  PROVE  /\ \A L, M : StoreOK(us, ss, L) /\ L \subseteq M => StoreOK(us, ss, M)
         /\ \A iss, G, D, H, E :
              GuestsBound(us, ss, iss, G, D) /\ G \subseteq H /\ D \subseteq E
                => GuestsBound(us, ss, iss, H, E)
         /\ \A P, R, S : ProvedOwned(us, P, R) /\ R \subseteq S => ProvedOwned(us, P, S)
  <1>1. \A L, M : StoreOK(us, ss, L) /\ L \subseteq M => StoreOK(us, ss, M)
    BY DEF StoreOK
  <1>2. \A iss, G, D, H, E :
              GuestsBound(us, ss, iss, G, D) /\ G \subseteq H /\ D \subseteq E
                => GuestsBound(us, ss, iss, H, E)
    BY DEF GuestsBound
  <1>3. \A P, R, S : ProvedOwned(us, P, R) /\ R \subseteq S => ProvedOwned(us, P, S)
    BY DEF ProvedOwned
  <1> QED BY <1>1, <1>2, <1>3

\* An answered request.
LEMMA ReturnKin ==
  ASSUME WholeInv, NEW p \in Procs, Return(p), Traced, StoreOK(users', sessions', {}),
         Steady => GuestsBound(users', sessions', issued', {}, {})
                   /\ ProvedOwned(users', proved', {})
  PROVE  Kin(p)
  <1>1. pc'[p] = "idle" /\ loc'[p] = NoLoc /\ arg'[p] = NoArg
    BY WholeParts, Control
  <1>2. NoLoc.User = Nil /\ NoLoc.u = Nil /\ ~NoLoc.UserIsGuest
    BY DEF NoLoc
  <1>3. SessionUserOK(NoLoc) /\ Logging("idle", NoLoc) = {}
        /\ \A us, ss : InHandOK("idle", NoLoc, us, ss)
    BY <1>2 DEF SessionUserOK, Logging, InHandOK, Pending, Logins
  <1>4. Userless("idle", NoArg) = {} /\ Adrift("idle", NoArg) = {} /\ Restored("idle", NoArg) = {}
    BY DEF Userless, Adrift, Restored
  <1>5. \A us, ss, iss : PresentOK("idle", NoArg, NoLoc, us, ss, iss)
    BY <1>2 DEF PresentOK, SessionRoutes, AllRoutes, ToBind
  <1>6. \A us, ss : LosesOK("idle", NoArg, NoLoc, us, ss) /\ LinksOK("idle", NoArg, NoLoc, us)
    BY <1>2 DEF LosesOK, LinksOK
  <1> QED BY <1>1, <1>3, <1>4, <1>5, <1>6 DEF Kin, IdentitiesOK, SteadyOK

\* A refused one.
LEMMA RefuseKin ==
  ASSUME WholeInv, NEW p \in Procs, Settled(pc[p], arg[p]), Refuse(p)
  PROVE  Kin(p)
  BY SettledStore, ReturnKin DEF Refuse, Traced, store, history

\* A request that goes on.
LEMMA ContinueKin ==
  ASSUME WholeInv, NEW p \in Procs, NEW m, NEW label, Continue(p, m, label), Traced,
         SessionUserOK(m), InHandOK(label, m, users', sessions'),
         StoreOK(users', sessions', Logging(label, m)),
         Steady => SteadyOK(label, arg[p], m, users', sessions', issued', proved')
  PROVE  Kin(p)
  BY WholeParts, Control DEF Kin, IdentitiesOK

\* One that arrives.
LEMMA BeginKin ==
  ASSUME WholeInv, NEW p \in Procs, NEW a, NEW label \in FirstLabels,
         a.op \in SessionRoutes => a.s \in issued, Begin(p, a, label)
  PROVE  Kin(p)
  <1>1. pc[p] = "idle" /\ loc[p] = NoLoc
    BY WholeParts DEF AloneOK, CurrentOK, Begin, At
  <1>2. NoLoc.User = Nil /\ NoLoc.u = Nil /\ ~NoLoc.UserIsGuest
    BY DEF NoLoc
  <1>3. /\ pc'[p] = label /\ loc'[p] = NoLoc /\ arg'[p] = a
        /\ UNCHANGED <<users, sessions, issued, proved>>
    BY <1>1, WholeParts, Control DEF Begin, store
  <1>4. Settled(pc[p], arg[p])
    BY <1>1 DEF Settled
  <1>5. SessionUserOK(NoLoc) /\ Logging(label, NoLoc) = {}
        /\ InHandOK(label, NoLoc, users, sessions)
    BY <1>2 DEF SessionUserOK, Logging, InHandOK, Pending, Logins, FirstLabels
  <1>6. Userless(label, a) = {} /\ Adrift(label, a) = {} /\ Restored(label, a) = {}
    BY DEF Userless, Adrift, Restored, FirstLabels
  <1>7. PresentOK(label, a, NoLoc, users, sessions, issued)
    BY <1>2 DEF PresentOK, SessionRoutes, AllRoutes, ToBind, FirstLabels
  <1>8. LosesOK(label, a, NoLoc, users, sessions) /\ LinksOK(label, a, NoLoc, users)
    BY <1>2 DEF LosesOK, LinksOK, FirstLabels
  <1> QED BY <1>3, <1>4, <1>5, <1>6, <1>7, <1>8, SettledStore
          DEF Kin, Traced, IdentitiesOK, SteadyOK

\* A handler that has only read goes on to "save".
LEMMA GoSaveKin ==
  ASSUME WholeInv, NEW p \in Procs, pc[p] \in AllRoutes, arg[p].op \notin {"link", "otpAuth"},
         NEW u, GuestOK(u), Follows(users, sessions, u),
         Continue(p, [loc[p] EXCEPT !.u = u], "save"), UNCHANGED <<users, sessions, issued>>,
         Steady => ProvedOwned(users, proved', {})
  PROVE  Kin(p)
  <1> DEFINE m == [loc[p] EXCEPT !.u = u]
             a == arg[p]
             l == loc[p]
  <1>1. /\ m.u = u /\ m.User = l.User /\ m.UserID = l.UserID
        /\ m.UserIsGuest = l.UserIsGuest /\ m.removeUserID = l.removeUserID
    BY WholeParts, InHand
  <1>2. Settled(pc[p], a)
    BY DEF Settled, AllRoutes
  <1> HIDE DEF m, a, l
  <1>3. /\ Logging("save", m) = {} /\ Userless("save", a) = {}
        /\ Adrift("save", a) = {} /\ Restored("save", a) = {}
    BY DEF Logging, Userless, Adrift, Restored, a
  <1>4. SessionUserOK(m)
    BY <1>1, WholeParts DEF IdentitiesOK, SessionUserOK, l
  <1>5. InHandOK("save", m, users, sessions)
    BY <1>1 DEF InHandOK, Logins
  <1>6. Steady => PresentOK("save", a, m, users, sessions, issued)
    <2> SUFFICES ASSUME Steady PROVE PresentOK("save", a, m, users, sessions, issued)
      OBVIOUS
    <2>1. PresentOK(pc[p], a, l, users, sessions, issued) /\ pc[p] # "idle"
      BY WholeParts DEF SteadyOK, a, l, AllRoutes
    <2> QED BY <1>1, <2>1 DEF PresentOK, SessionRoutes, AllRoutes, ToBind
  <1>7. LosesOK("save", a, m, users, sessions)
    BY DEF LosesOK, AllRoutes
  <1>8. LinksOK("save", a, m, users)
    BY DEF LinksOK, a
  <1>9. Steady => SteadyOK("save", a, m, users, sessions, issued, proved')
    BY <1>2, <1>3, <1>6, <1>7, <1>8, SettledStore DEF SteadyOK, a
  <1> QED BY <1>2, <1>3, <1>4, <1>5, <1>9, SettledStore, ContinueKin DEF Traced, m, a

\* With what has become of the user found, or of the session's user.
LEMMA GoSaveSame ==
  ASSUME WholeInv, NEW p \in Procs, pc[p] \in AllRoutes, arg[p].op \notin {"link", "otpAuth"},
         NEW v \in User, users[v.id] = v, NEW u, Same(u, v), u.temp => v.temp,
         \/ Twin(u, v)
         \/ Steady => ~u.guest,
         Continue(p, [loc[p] EXCEPT !.u = u], "save"), UNCHANGED <<users, sessions, issued>>,
         Steady => ProvedOwned(users, proved', {})
  PROVE  Kin(p)
  <1>1. v.id \in Stored(users)
    BY UserFacts DEF Stored
  <1>2. GuestOK(v)
    BY <1>1, WholeParts DEF IdentitiesOK, StoreOK
  <1>3. GuestOK(u) /\ Follows(users, sessions, u)
    BY <1>2, SameGuestOK, SameFollows
  <1> QED BY <1>3, GoSaveKin

----------------------------------------------------------------------------
(* The handlers, action by action.                                         *)

\* Save, of a user nobody shares an identity with, is not refused.
LEMMA SoleSaved ==
  ASSUME NEW u, Sole(users, u, {}), ~SaveMayFail
  PROVE  ~IsDuplicate(users, u) /\ ~SaveFails(u)
  BY DEF Sole, IsDuplicate, SaveFails

\* checkSession: an issued session has a user.
LEMMA CheckSessionKin ==
  ASSUME WholeInv, NEW p \in Procs, GetUserID(p) \/ LoadUser(p)
  PROVE  Kin(p)
  <1>0. /\ TypeOK /\ Storer(users) /\ AloneOK(pc[p], arg[p], loc[p], users, sessions)
        /\ Steady => SteadyOK(pc[p], arg[p], loc[p], users, sessions, issued, proved)
    BY WholeParts
  <1> DEFINE a == arg[p]
             l == loc[p]
  <1>1. pc[p] \in {"getUserID", "loadUser"} /\ UNCHANGED <<users, sessions, issued, proved>>
    BY DEF GetUserID, LoadUser, At, store, history
  <1>2. a.op \in SessionRoutes /\ a.s \in Sessions /\ Settled(pc[p], a)
    BY <1>0, <1>1, LabelFacts DEF OnRoute, ArgOK, SessionRoutes, Settled, AllRoutes
  <1>3. /\ StoreOK(users, sessions, {})
        /\ Steady => GuestsBound(users, sessions, issued, {}, {}) /\ ProvedOwned(users, proved, {})
    BY <1>2, SettledStore
  <1>4. Steady => a.s \in issued
    BY <1>0, <1>1, <1>2 DEF SteadyOK, PresentOK
  \* On to the handler, or to "loadUser".
  <1>5. ASSUME NEW m, NEW label \in SessionRoutes \cup {"loadUser"}, Continue(p, m, label),
               SessionUserOK(m), m.u = Nil,
               Steady /\ GuestUser /\ label # "loadUser" => m.User # Nil,
               Steady /\ m.UserIsGuest =>
                 /\ \A t \in Sessions : sessions[t] = m.UserID => t = a.s
                 /\ users[m.UserID] # Nil => ~Holds(users[m.UserID])
        PROVE  Kin(p)
    <2>1. /\ label \in AllRoutes \cup {"loadUser"} /\ label # "idle"
          /\ label \notin Pending /\ label \notin Logins /\ label \notin ToBind
      BY <1>5 DEF SessionRoutes, AllRoutes, Pending, Logins, ToBind
    <2>2. InHandOK(label, m, users, sessions)
      BY <2>1 DEF InHandOK, AllRoutes, Logins
    <2>3. Logging(label, m) = {} /\ Userless(label, a) = {}
          /\ Adrift(label, a) = {} /\ Restored(label, a) = {}
      BY <2>1 DEF Logging, Userless, Adrift, Restored, AllRoutes
    <2>4. Steady => PresentOK(label, a, m, users, sessions, issued)
      BY <1>4, <1>5, <2>1 DEF PresentOK, AllRoutes, SessionRoutes, ToBind
    <2>5. Steady => LosesOK(label, a, m, users, sessions)
      BY <1>5, <2>1 DEF LosesOK, AllRoutes
    <2>6. LinksOK(label, a, m, users)
      BY <2>1 DEF LinksOK, AllRoutes
    <2> QED BY <1>1, <1>3, <1>5, <2>2, <2>3, <2>4, <2>5, <2>6, ContinueKin
            DEF Traced, SteadyOK
  <1>6. CASE GetUserID(p)
    <2>1. pc[p] = "getUserID"
      BY <1>6 DEF GetUserID, At
    <2> DEFINE id == sessions[a.s]
               m == [l EXCEPT !.UserID = id]
               label == IF id = Nil THEN a.op ELSE "loadUser"
    <2>2. m.User = Nil /\ m.u = Nil /\ ~m.UserIsGuest
      BY <1>0, <2>1 DEF AloneOK, CurrentOK, NoLoc
    <2>3. Continue(p, m, label)
      BY <1>6 DEF GetUserID
    <2>4. Steady /\ GuestUser => label = "loadUser"
      BY <1>2, <1>3, <1>4 DEF GuestsBound
    <2>5. label \in SessionRoutes \cup {"loadUser"}
      BY <1>2
    <2> HIDE DEF m, label
    <2>6. SessionUserOK(m)
      BY <2>2 DEF SessionUserOK
    <2> QED BY <1>5, <2>2, <2>3, <2>4, <2>5, <2>6
  <1>7. CASE LoadUser(p)
    <2>1. pc[p] = "loadUser"
      BY <1>7 DEF LoadUser, At
    <2> DEFINE id == sessions[a.s]
               user == LoadByID(users, l.UserID)
               m == [l EXCEPT !.User = user,
                              !.UserIsGuest = user # Nil /\ GuestUser /\ user.guest]
    <2>2. l.UserID = id /\ l.User = Nil /\ l.u = Nil
      BY <1>0, <2>1 DEF AloneOK, CurrentOK
    <2>3. /\ m.User = user /\ m.u = Nil /\ m.UserID = id
          /\ m.UserIsGuest = (user # Nil /\ GuestUser /\ user.guest)
      BY <1>0, <2>2, RequestFacts DEF Locals
    <2>4. Continue(p, m, a.op)
      BY <1>7 DEF LoadUser
    <2>5. user # Nil => id \in Stored(users) /\ user = users[id]
      BY <2>2 DEF LoadByID, Stored
    <2>6. id \in Stored(users) => user # Nil
      BY <2>2 DEF LoadByID, Stored
    <2>7. Steady /\ GuestUser => user # Nil
      BY <1>2, <1>3, <1>4, <2>6 DEF GuestsBound
    <2> HIDE DEF m, user
    <2>8. user # Nil => GuestOK(user) /\ (user.guest /\ Holds(user) => Confirmed(user))
      BY <1>2, <1>3, <2>5 DEF StoreOK, Guests
    <2>9. SessionUserOK(m)
      BY <2>3, <2>8 DEF SessionUserOK
    <2>10. Steady /\ m.UserIsGuest =>
             /\ \A t \in Sessions : sessions[t] = m.UserID => t = a.s
             /\ users[m.UserID] # Nil => ~Holds(users[m.UserID])
      <3> SUFFICES ASSUME Steady, m.UserIsGuest
                   PROVE  /\ \A t \in Sessions : sessions[t] = id => t = a.s
                          /\ ~Holds(users[id])
        BY <2>3
      <3>1. user # Nil /\ user.guest
        BY <2>3
      <3>2. id \in Guests(users)
        BY <2>5, <3>1 DEF Guests
      <3>3. ~Holds(user)
        BY <2>8, <3>1 DEF GuestOK
      <3> QED BY <1>2, <1>3, <2>5, <3>1, <3>2, <3>3 DEF GuestsBound
    <2> QED BY <1>2, <1>5, <2>3, <2>4, <2>7, <2>9, <2>10
  <1> QED BY <1>6, <1>7

\* Save at the end of a handler: for link and otpAuth it is not refused.
LEMMA SavedKin ==
  ASSUME WholeInv, ~SaveMayFail, NEW p \in Procs, SaveAndReturn(p)
  PROVE  Kin(p)
  <1> DEFINE u == loc[p].u
             a == arg[p]
             R == Restored("save", a)
  <1>0. /\ TypeOK /\ Storer(users) /\ proved \subseteq Keys \X UIDs
        /\ AloneOK("save", a, loc[p], users, sessions)
        /\ IdentitiesOK("save", loc[p], users, sessions)
        /\ Steady => SteadyOK("save", a, loc[p], users, sessions, issued, proved)
    BY WholeParts DEF SaveAndReturn, At
  <1>1. pc[p] = "save" /\ Return(p) /\ UNCHANGED <<sessions, issued, proved>>
    BY DEF SaveAndReturn, At
  <1>2. u \in User
    BY <1>0, <1>1, LabelFacts DEF HoldsUser
  <1>3. GuestOK(u) /\ Follows(users, sessions, u) /\ SucceedsStored(users, u)
    BY <1>0 DEF IdentitiesOK, InHandOK, AloneOK, HandOK, Pending
  <1>4. StoreOK(users, sessions, {})
    BY <1>0 DEF IdentitiesOK, Logging
  <1>5. Steady => /\ GuestsBound(users, sessions, issued, {}, {})
                  /\ ProvedOwned(users, proved, R)
    BY <1>0 DEF SteadyOK, Userless, Adrift
  <1>6. Steady => /\ \A x \in R : GetUID(u, x[1]) = x[2]
                  /\ R # {} => Sole(users, u, {})
    <2>1. R # {} => a.op \in {"link", "otpAuth"} /\ R = {Named(a)}
      BY DEF Restored
    <2>2. Steady => LinksOK("save", a, loc[p], users)
      BY <1>0 DEF SteadyOK
    <2> HIDE DEF R, a
    <2> QED BY <2>1, <2>2 DEF LinksOK, Named
  <1> HIDE DEF u, a, R
  <1>7. CASE users' = Put(users, u)
    <2>1. Traced
      BY <1>2, <1>3, <1>7 DEF Traced
    <2>2. StoreOK(users', sessions', {})
      BY <1>0, <1>1, <1>2, <1>3, <1>4, <1>7, PutIdentities
    <2>3. Steady => /\ GuestsBound(users', sessions', issued', {}, {})
                    /\ ProvedOwned(users', proved', {})
      BY <1>0, <1>1, <1>2, <1>3, <1>5, <1>6, <1>7, PutIdentities
    <2> QED BY <1>1, <2>1, <2>2, <2>3, ReturnKin
  <1>8. CASE SaveFails(u)
    <2>1. UNCHANGED users /\ (Steady => R = {})
      BY <1>6, <1>8, SoleSaved DEF SaveFails
    <2> QED BY <1>1, <1>4, <1>5, <2>1, ReturnKin DEF Traced
  <1>9. Save(u) \/ SaveFails(u)
    BY DEF SaveAndReturn, u
  <1> QED BY <1>7, <1>8, <1>9 DEF Save

\* The guest that is dropped holds nothing, and its session is bound anew.
LEMMA RemoveGuestKin ==
  ASSUME WholeInv, NEW p \in Procs, RemoveGuest(p)
  PROVE  Kin(p)
  <1> DEFINE id == loc[p].UserID
             a == arg[p]
  <1>0. /\ Storer(users) /\ proved \subseteq Keys \X UIDs /\ pc[p] = "removeGuest"
        /\ AloneOK("removeGuest", a, loc[p], users, sessions)
        /\ Steady => SteadyOK("removeGuest", a, loc[p], users, sessions, issued, proved)
    BY WholeParts DEF RemoveGuest, At
  <1>1. /\ users' = RemoveByID(users, id) /\ Return(p) /\ UNCHANGED <<sessions, issued, proved>>
    BY DEF RemoveGuest, history
  <1>2. loc[p].UserIsGuest
    BY <1>0 DEF AloneOK, RemovalOK
  <1>3. Settled(pc[p], a)
    BY <1>0 DEF Settled
  <1>4. Steady => /\ \A s \in Sessions : sessions[s] # id
                  /\ users[id] # Nil => ~Holds(users[id])
    <2> SUFFICES ASSUME Steady
                 PROVE  /\ \A s \in Sessions : sessions[s] # id
                        /\ users[id] # Nil => ~Holds(users[id])
      OBVIOUS
    <2>1. PresentOK("removeGuest", a, loc[p], users, sessions, issued)
          /\ LosesOK("removeGuest", a, loc[p], users, sessions)
      BY <1>0 DEF SteadyOK
    <2> QED BY <1>2, <2>1 DEF PresentOK, LosesOK
  <1> HIDE DEF id, a
  <1>5. StoreOK(users', sessions', {})
    BY <1>0, <1>1, <1>3, SettledStore, RemoveIdentities DEF a
  <1>6. Steady => /\ GuestsBound(users', sessions', issued', {}, {})
                  /\ ProvedOwned(users', proved', {})
    BY <1>0, <1>1, <1>3, <1>4, SettledStore, RemoveIdentities DEF a
  <1> QED BY <1>1, <1>5, <1>6, ReturnKin DEF Traced

\* auth and signOut: a session that loses its user is given a guest.
LEMMA SessionKin ==
  ASSUME WholeInv, ~SaveMayFail, NEW p \in Procs, SessionStep(p)
  PROVE  Kin(p)
  <1> DEFINE a == arg[p]
             l == loc[p]
             Quietly == {"auth.load", "auth.unbind", "auth.guest", "guest.save", "signOut.remove"}
  <1>0. /\ TypeOK /\ Storer(users) /\ sessions \in [Sessions -> UserIds \cup {Nil}]
        /\ proved \subseteq Keys \X UIDs
        /\ AloneOK(pc[p], a, l, users, sessions)
        /\ IdentitiesOK(pc[p], l, users, sessions)
        /\ Steady => SteadyOK(pc[p], a, l, users, sessions, issued, proved)
    BY WholeParts
  <1>1. Nil \notin UserIds
    BY NilIsNoValue
  \* Between the calls.
  <1>2. ASSUME NEW label \in Quietly, NEW m, Continue(p, m, label), Traced,
               SessionUserOK(m), label \in {"guest.save", "signOut.remove"} => GuestUser,
               StoreOK(users', sessions', {}),
               Steady =>
                 /\ GuestsBound(users', sessions', issued', Userless(label, a), {})
                 /\ ProvedOwned(users', proved', {})
                 /\ a.op \in SessionRoutes => a.s \in issued'
                 /\ m.UserIsGuest => \A t \in Sessions : sessions'[t] = m.UserID => t = a.s
                 /\ label = "signOut.remove" =>
                      /\ sessions'[a.s] = Nil
                      /\ m.UserIsGuest /\ users'[m.UserID] # Nil => ~Holds(users'[m.UserID])
        PROVE  Kin(p)
    <2>1. InHandOK(label, m, users', sessions')
      BY <1>2 DEF InHandOK, Pending, Logins
    <2>2. Logging(label, m) = {} /\ Adrift(label, a) = {} /\ Restored(label, a) = {}
      BY <1>2 DEF Logging, Adrift, Restored
    <2>3. Steady => PresentOK(label, a, m, users', sessions', issued')
      BY <1>2 DEF PresentOK, AllRoutes, SessionRoutes, ToBind
    <2>4. Steady => LosesOK(label, a, m, users', sessions')
      BY <1>2 DEF LosesOK, AllRoutes
    <2>5. LinksOK(label, a, m, users')
      BY <1>2 DEF LinksOK
    <2> QED BY <1>2, <2>1, <2>2, <2>3, <2>4, <2>5, ContinueKin DEF SteadyOK
  <1>3. SessionUserOK(l)
    BY <1>0 DEF IdentitiesOK
  <1>4. pc[p] # "otpAuth.save" => StoreOK(users, sessions, {})
    BY <1>0 DEF IdentitiesOK, Logging
  <1>5. ASSUME Steady
        PROVE  /\ pc[p] # "idle" /\ a.op \in SessionRoutes => a.s \in issued
               /\ l.UserIsGuest => \A t \in Sessions : sessions[t] = l.UserID => t = a.s
    BY <1>0, <1>5 DEF SteadyOK, PresentOK
  <1>6. ASSUME pc[p] # "idle", a.op \in {"auth", "signOut"} PROVE a.s \in Sessions
    BY <1>0, <1>6, LabelFacts DEF ArgOK
  \* A session that is unbound.
  <1>16. ASSUME a.s \in Sessions, Settled(pc[p], a), UNCHANGED <<users, issued, proved>>,
                sessions' = [sessions EXCEPT ![a.s] = Nil]
         PROVE  /\ StoreOK(users', sessions', {})
                /\ Steady => GuestsBound(users', sessions', issued', {a.s}, {})
    <2>1. /\ StoreOK(users, sessions, {})
          /\ Steady => GuestsBound(users, sessions, issued, {}, {})
      BY <1>16, SettledStore
    <2> DEFINE s == a.s
    <2>2. s \in Sessions /\ sessions' = [sessions EXCEPT ![s] = Nil]
      BY <1>16
    <2> HIDE DEF a, s
    <2>3. StoreOK(users, [sessions EXCEPT ![s] = Nil], {})
      BY <1>0, <1>1, <2>1, BindStore DEF Guests, Stored
    <2>4. Steady => GuestsBound(users, [sessions EXCEPT ![s] = Nil], issued, {s}, {})
      BY <1>0, <2>1, <2>2, UnbindBound
    <2> QED BY <1>16, <2>2, <2>3, <2>4 DEF s
  <1>7. CASE AuthBegin(p) \/ SignOutBegin(p)
    <2>1. CASE AuthBegin(p)
      BY <2>1, BeginKin DEF AuthBegin, FirstLabels, NoArg, SessionRoutes
    <2>2. CASE SignOutBegin(p)
      BY <2>2, BeginKin DEF SignOutBegin, BeginWithSession, FirstLabels, NoArg
    <2> QED BY <1>7, <2>1, <2>2
  <1>8. CASE AuthLoadSession(p)
    <2>1. pc[p] = "auth" /\ a.op = "auth" /\ UNCHANGED <<users, sessions, issued, proved>>
      BY <1>0, <1>8, LabelFacts DEF AuthLoadSession, At, OnRoute, store, history, AllRoutes
    <2> DEFINE id == sessions[a.s]
               m == [l EXCEPT !.UserID = id]
               label == IF id = Nil THEN "auth.guest" ELSE "auth.load"
    <2>2. m.User = Nil /\ ~m.UserIsGuest
      BY <1>0, <2>1 DEF AloneOK, CurrentOK, NoLoc
    <2>3. Continue(p, m, label) /\ label \in Quietly /\ label # "signOut.remove"
      BY <1>8 DEF AuthLoadSession
    <2>4. Settled(pc[p], a)
      BY <2>1 DEF Settled
    <2> HIDE DEF m, label
    <2>5. SessionUserOK(m)
      BY <2>2 DEF SessionUserOK
    <2>6. Steady => GuestsBound(users', sessions', issued', Userless(label, a), {})
                    /\ ProvedOwned(users', proved', {})
      BY <2>1, <2>4, SettledStore, StoreOn
    <2>7. a.op \notin SessionRoutes
      BY <2>1 DEF SessionRoutes
    <2>8. Traced /\ StoreOK(users', sessions', {})
      BY <1>4, <2>1 DEF Traced
    <2>9. label = "guest.save" => GuestUser
      BY DEF label
    <2> HIDE DEF a, Quietly
    <2> QED BY <1>2, <2>2, <2>3, <2>5, <2>6, <2>7, <2>8, <2>9
  <1>9. CASE AuthLoadUser(p) \/ AuthCreateGuest(p)
    <2>1. /\ pc[p] \in {"auth.load", "auth.guest"} /\ a.op = "auth"
          /\ UNCHANGED <<users, sessions, issued, proved>>
      BY <1>0, <1>9, LabelFacts
         DEF AuthLoadUser, AuthCreateGuest, At, OnRoute, store, history
    <2>2. PICK label \in {"auth.unbind", "auth.guest", "guest.save"} :
            /\ Continue(p, l, label)
            /\ pc[p] = "auth.guest" => label = "guest.save"
            /\ label = "guest.save" => GuestUser
      BY <1>9 DEF AuthLoadUser, AuthCreateGuest, NeedsGuest, At
    <2>3. Adrift(pc[p], a) = {} /\ Restored(pc[p], a) = {}
          /\ Userless(pc[p], a) \subseteq Userless(label, a)
      BY <2>1, <2>2 DEF Adrift, Restored, Userless
    <2>4. Steady => GuestsBound(users', sessions', issued', Userless(label, a), {})
                    /\ ProvedOwned(users', proved', {})
      BY <1>0, <2>1, <2>3, StoreOn DEF SteadyOK
    <2> HIDE DEF a, l
    <2>5. label \in Quietly /\ label # "signOut.remove" /\ pc[p] # "otpAuth.save" /\ pc[p] # "idle"
      BY <2>1, <2>2
    <2> HIDE DEF Quietly
    <2> QED BY <1>2, <1>3, <1>4, <1>5, <2>1, <2>2, <2>4, <2>5 DEF Traced
  <1>10. CASE AuthUnbind(p)
    <2>1. /\ pc[p] = "auth.unbind" /\ a.op = "auth" /\ UNCHANGED <<users, issued, proved>>
          /\ sessions' = [sessions EXCEPT ![a.s] = Nil] /\ Continue(p, l, "auth.guest")
      BY <1>0, <1>10, LabelFacts DEF AuthUnbind, At, OnRoute, history
    <2>2. a.s \in Sessions /\ Settled(pc[p], a) /\ Userless("auth.guest", a) = {a.s}
      BY <1>6, <2>1 DEF Settled, Userless
    <2>3. StoreOK(users', sessions', {})
      BY <1>16, <2>1, <2>2
    <2>4. Steady => GuestsBound(users', sessions', issued', Userless("auth.guest", a), {})
                    /\ ProvedOwned(users', proved', {})
      BY <1>16, <2>1, <2>2, SettledStore
    <2>5. Steady /\ l.UserIsGuest => \A t \in Sessions : sessions'[t] = l.UserID => t = a.s
      BY <1>0, <1>5, <2>1
    <2>6. a.op \notin SessionRoutes
      BY <2>1 DEF SessionRoutes
    <2> HIDE DEF a, l
    <2> QED BY <1>2, <1>3, <2>1, <2>3, <2>4, <2>5, <2>6 DEF Traced
  <1>11. CASE AuthNoGuest(p)
    <2>1. /\ pc[p] = "auth.guest" /\ a.op = "auth" /\ UNCHANGED <<users, sessions, proved>>
          /\ issued' = issued \cup {a.s} /\ Return(p) /\ ~NeedsGuest(p)
      BY <1>0, <1>11, LabelFacts DEF AuthNoGuest, At, OnRoute, history
    <2>2. Userless(pc[p], a) = {a.s} /\ Adrift(pc[p], a) = {} /\ Restored(pc[p], a) = {}
      BY <2>1 DEF Userless, Adrift, Restored
    <2>3. Steady /\ GuestUser => sessions[a.s] # Nil
      BY <2>1 DEF Steady, NeedsGuest
    <2>4. Steady => GuestsBound(users', sessions', issued', {}, {})
      BY <1>0, <2>1, <2>2, <2>3 DEF SteadyOK, GuestsBound
    <2>5. Steady => ProvedOwned(users', proved', {})
      BY <1>0, <2>1, <2>2 DEF SteadyOK
    <2> HIDE DEF a
    <2> QED BY <1>4, <2>1, <2>4, <2>5, ReturnKin DEF Traced
  <1>12. CASE CreateGuestUser(p)
    <2>1. /\ pc[p] = "guest.save" /\ a.op \in {"auth", "signOut"}
          /\ UNCHANGED <<sessions, issued, proved>>
      BY <1>0, <1>12, LabelFacts DEF CreateGuestUser, At, OnRoute, history
    <2>2. PICK id \in FreeIds :
            LET u == SetGuest(NewUser(id), TRUE)
            IN  \/ /\ Save(u)
                   /\ Continue(p, [l EXCEPT !.u = u], "guest.bind")
                \/ SaveFails(u) /\ Return(p)
      BY <1>12 DEF CreateGuestUser
    <2> DEFINE u == SetGuest(NewUser(id), TRUE)
               m == [l EXCEPT !.u = u]
    <2>3. id \in UserIds /\ users[id] = Nil /\ Unbound(sessions, id)
      BY WholeParts, FreeFacts
    <2>4. /\ u \in User /\ u.id = id /\ ~u.temp /\ u.guest
          /\ \A k \in Keys : u.auths[k] = ZeroIdentity
      <3>1. /\ NewUser(id) \in User /\ NewUser(id).id = id /\ ~NewUser(id).temp
            /\ \A k \in Keys : NewUser(id).auths[k] = ZeroIdentity
        BY <2>3, NewUserFacts DEF NewUser
      <3>2. /\ u \in User /\ u.id = NewUser(id).id /\ u.temp = NewUser(id).temp /\ u.guest = TRUE
            /\ u.auths = NewUser(id).auths
        BY <3>1, SetFlagType, FlagsSet
      <3> HIDE DEF u
      <3> QED BY <3>1, <3>2
    <2> HIDE DEF u
    <2>5. \A k \in Keys : GetUID(u, k) = Empty /\ ~u.auths[k].confirmed /\ ~Present(u, k)
      <3>1. ZeroIdentity.uid = Empty /\ ~ZeroIdentity.confirmed
        BY DEF ZeroIdentity
      <3> QED BY <2>4, <3>1 DEF GetUID, Present
    <2>6. ~IsDuplicate(users, u) /\ ~Holds(u) /\ ~Confirmed(u)
      BY <2>5 DEF IsDuplicate, Holds, Confirmed
    <2>7. users' = Put(users, u) /\ Continue(p, m, "guest.bind")
      BY <2>2, <2>6 DEF Save, SaveFails, u
    <2>8. m.u = u /\ m.User = l.User /\ m.UserID = l.UserID /\ m.UserIsGuest = l.UserIsGuest
      BY <1>0, InHand
    <2> HIDE DEF m
    <2>9. Follows(users, sessions, u) /\ SucceedsStored(users, u)
      BY <2>3, <2>4 DEF Follows, SucceedsStored
    <2>10. GuestOK(u)
      <3>1. GuestUser
        BY <1>0, <2>1 DEF IdentitiesOK, InHandOK
      <3> QED BY <2>4, <2>5, <2>6, <3>1 DEF GuestOK, Single
    <2>11. /\ Logging(pc[p], l) = {} /\ Userless(pc[p], a) = {a.s} /\ Userless("guest.bind", a) = {a.s}
           /\ Adrift(pc[p], a) = {} /\ Adrift("guest.bind", a) = {}
           /\ Restored(pc[p], a) = {} /\ Restored("guest.bind", a) = {}
           /\ Logging("guest.bind", m) = {}
      BY <2>1 DEF Logging, Userless, Adrift, Restored
    <2>12. StoreOK(users', sessions', {})
      BY <1>0, <1>4, <2>1, <2>4, <2>7, <2>9, <2>10, PutIdentities
    <2>13. Steady => /\ GuestsBound(users', sessions', issued', {a.s}, {})
                     /\ ProvedOwned(users', proved', {})
      <3>1. Steady => GuestsBound(users, sessions, issued, {a.s}, {}) /\ ProvedOwned(users, proved, {})
        BY <1>0, <2>11 DEF SteadyOK
      <3> HIDE DEF a
      <3> QED BY <1>0, <2>1, <2>4, <2>7, <2>9, <2>10, <3>1, PutIdentities
    <2>14. users'[u.id] = u
      BY <1>0, <2>4, <2>7, StorerEffects
    <2>15. InHandOK("guest.bind", m, users', sessions')
      BY <2>6, <2>8, <2>14 DEF InHandOK, Pending, Logins
    <2>16. Steady => PresentOK("guest.bind", a, m, users', sessions', issued')
      <3>1. u # Nil
        BY <2>4, UserFacts
      <3> HIDE DEF a, l
      <3> QED BY <1>5, <2>1, <2>3, <2>4, <2>8, <2>14, <3>1
              DEF PresentOK, AllRoutes, SessionRoutes, ToBind, Unbound
    <2>17. LosesOK("guest.bind", a, m, users', sessions') /\ LinksOK("guest.bind", a, m, users')
      BY DEF LosesOK, LinksOK, AllRoutes
    <2>18. SessionUserOK(m)
      BY <1>3, <2>8 DEF SessionUserOK
    <2>19. Traced
      BY <2>4, <2>7, <2>9 DEF Traced
    <2> HIDE DEF a
    <2> QED BY <2>7, <2>11, <2>12, <2>13, <2>15, <2>16, <2>17, <2>18, <2>19, ContinueKin
            DEF SteadyOK, a
  <1>13. CASE BindGuest(p)
    <2> DEFINE id == l.u.id
    <2>1. /\ pc[p] = "guest.bind" /\ a.op \in {"auth", "signOut"} /\ l.u \in User
          /\ sessions' = [sessions EXCEPT ![a.s] = id] /\ issued' = issued \cup {a.s}
          /\ Return(p) /\ UNCHANGED <<users, proved>>
      BY <1>0, <1>13, LabelFacts DEF BindGuest, At, OnRoute, HoldsUser, history
    <2>2. a.s \in Sessions /\ id \in UserIds /\ id # Nil
      BY <1>1, <1>6, <2>1, UserFacts
    <2>3. StoreOK(users', sessions', {})
      <3>1. id \in Guests(users) => ~Holds(users[id])
        BY <1>0, <2>1 DEF IdentitiesOK, InHandOK, Guests, Stored
      <3>2. StoreOK(users, sessions, {})
        BY <1>4, <2>1
      <3>3. StoreOK(users, [sessions EXCEPT ![a.s] = id], {})
        BY <1>0, <3>1, <3>2, BindStore
      <3> QED BY <2>1, <3>3
    <2>4. Steady => GuestsBound(users', sessions', issued', {}, {})
                    /\ ProvedOwned(users', proved', {})
      <3> SUFFICES ASSUME Steady
                   PROVE  GuestsBound(users', sessions', issued', {}, {})
                          /\ ProvedOwned(users', proved', {})
        OBVIOUS
      <3>1. Userless(pc[p], a) = {a.s} /\ Adrift(pc[p], a) = {} /\ Restored(pc[p], a) = {}
        BY <2>1 DEF Userless, Adrift, Restored
      <3>2. /\ GuestsBound(users, sessions, issued, {a.s}, {}) /\ ProvedOwned(users, proved, {})
            /\ PresentOK(pc[p], a, l, users, sessions, issued)
        BY <1>0, <3>1 DEF SteadyOK
      <3>3. id \in Stored(users) /\ \A t \in Sessions : sessions[t] # id
        BY <2>1, <2>2, <3>2 DEF PresentOK, ToBind, Stored, Unbound
      <3> DEFINE s == a.s
      <3> HIDE DEF a, id
      <3>5. s \in Sessions /\ GuestsBound(users, sessions, issued, {s}, {s})
        BY <2>2, <3>2, StoreOn
      <3> HIDE DEF s
      <3>6. sessions' = [sessions EXCEPT ![s] = id]
        BY <2>1 DEF s
      <3>7. sessions \in [Sessions -> UserIds \cup {Nil}]
        BY <1>0
      <3>4. GuestsBound(users, sessions', issued \cup {s}, {}, {})
        BY <2>2, <3>3, <3>5, <3>6, <3>7, BindBound
      <3> QED BY <2>1, <3>2, <3>4 DEF s
    <2> QED BY <2>1, <2>3, <2>4, ReturnKin DEF Traced
  <1>14. CASE SignOutUnbind(p)
    <2> DEFINE label == IF l.UserIsGuest THEN "signOut.remove" ELSE "guest.save"
    <2>1. /\ pc[p] = "signOut" /\ a.op = "signOut" /\ UNCHANGED <<users, issued, proved>>
          /\ sessions' = [sessions EXCEPT ![a.s] = Nil]
          /\ GuestUser => Continue(p, l, label)
          /\ ~GuestUser => Return(p)
      BY <1>0, <1>14, LabelFacts DEF SignOutUnbind, At, OnRoute, history, AllRoutes
    <2>2. a.s \in Sessions /\ Settled(pc[p], a) /\ Userless(label, a) = {a.s}
      BY <1>6, <2>1 DEF Settled, Userless
    <2>3. StoreOK(users', sessions', {})
      BY <1>16, <2>1, <2>2
    <2>4. Steady => GuestsBound(users', sessions', issued', {a.s}, {})
                    /\ ProvedOwned(users', proved', {})
      BY <1>16, <2>1, <2>2, SettledStore
    <2>5. Traced
      BY <2>1 DEF Traced
    <2>6. CASE ~GuestUser
      <3>1. Steady => GuestsBound(users', sessions', issued', {}, {})
        BY <2>4, <2>6 DEF GuestsBound
      <3> QED BY <2>1, <2>3, <2>4, <2>5, <2>6, <3>1, ReturnKin
    <2>7. CASE GuestUser
      <3>1. Steady => /\ a.s \in issued
                      /\ l.UserIsGuest => \A t \in Sessions : sessions'[t] = l.UserID => t = a.s
                      /\ sessions'[a.s] = Nil
        BY <1>0, <1>5, <2>1, <2>2 DEF SessionRoutes, AllRoutes
      <3>2. Steady /\ l.UserIsGuest /\ users[l.UserID] # Nil => ~Holds(users[l.UserID])
        BY <1>0, <2>1 DEF SteadyOK, LosesOK, AllRoutes
      <3>3. label \in Quietly
        OBVIOUS
      <3> HIDE DEF a, l, label, Quietly
      <3> QED BY <1>2, <1>3, <2>1, <2>2, <2>3, <2>4, <2>5, <2>7, <3>1, <3>2, <3>3
    <2> QED BY <2>6, <2>7
  <1>15. CASE SignOutRemoveGuest(p)
    <2> DEFINE id == l.UserID
    <2>1. /\ pc[p] = "signOut.remove" /\ a.op = "signOut" /\ UNCHANGED <<sessions, issued, proved>>
          /\ users' = RemoveByID(users, id) /\ Continue(p, l, "guest.save")
      BY <1>0, <1>15, LabelFacts DEF SignOutRemoveGuest, At, OnRoute, history
    <2>2. l.UserIsGuest /\ GuestUser
      BY <1>0, <2>1 DEF AloneOK, RemovalOK, IdentitiesOK, InHandOK
    <2>3. id \in UserIds /\ id # Nil
      BY <1>0, <1>1, <2>2, RequestFacts, UserFacts DEF RequestOK, AloneOK, CurrentOK
    <2>4. /\ Userless(pc[p], a) = {a.s} /\ Userless("guest.save", a) = {a.s}
          /\ Adrift(pc[p], a) = {} /\ Restored(pc[p], a) = {}
      BY <2>1 DEF Userless, Adrift, Restored
    <2>5. StoreOK(users', sessions', {})
      BY <1>0, <1>4, <2>1, RemoveIdentities
    <2>6. Steady => /\ GuestsBound(users', sessions', issued', {a.s}, {})
                    /\ ProvedOwned(users', proved', {})
      <3> SUFFICES ASSUME Steady
                   PROVE  /\ GuestsBound(users', sessions', issued', {a.s}, {})
                          /\ ProvedOwned(users', proved', {})
        OBVIOUS
      <3>1. /\ GuestsBound(users, sessions, issued, {a.s}, {}) /\ ProvedOwned(users, proved, {})
            /\ PresentOK(pc[p], a, l, users, sessions, issued)
            /\ LosesOK(pc[p], a, l, users, sessions)
        BY <1>0, <2>4 DEF SteadyOK
      <3>2. \A t \in Sessions : sessions[t] # id
        BY <2>1, <2>2, <2>3, <3>1 DEF PresentOK
      <3>3. users[id] # Nil => ~Holds(users[id])
        BY <2>1, <2>2, <3>1 DEF LosesOK
      <3> HIDE DEF a, id
      <3> QED BY <1>0, <2>1, <3>1, <3>2, <3>3, RemoveIdentities
    <2>7. Traced
      BY <2>1 DEF Traced
    <2> HIDE DEF a, l
    <2> QED BY <1>2, <1>3, <1>5, <2>1, <2>2, <2>4, <2>5, <2>6, <2>7
  <1> QED BY <1>7, <1>8, <1>9, <1>10, <1>11, <1>12, <1>13, <1>14, <1>15 DEF SessionStep

----------------------------------------------------------------------------
(* What a handler has read.                                                *)

\* A handler starts with a store in order and with the session's user.
LEMMA RouteFacts ==
  ASSUME WholeInv, NEW p \in Procs, pc[p] \in AllRoutes
  PROVE  /\ Settled(pc[p], arg[p])
         /\ StoreOK(users, sessions, {})
         /\ SessionUserOK(loc[p])
         /\ loc[p].User # Nil =>
              /\ loc[p].User \in User /\ users[loc[p].User.id] = loc[p].User
              /\ loc[p].User.id = loc[p].UserID /\ ~loc[p].User.temp
         /\ loc[p].UserIsGuest => GuestUser /\ loc[p].User # Nil /\ loc[p].User.guest
         /\ Steady =>
              /\ GuestsBound(users, sessions, issued, {}, {})
              /\ ProvedOwned(users, proved, {})
              /\ GuestUser /\ pc[p] \in SessionRoutes => loc[p].User # Nil
              /\ loc[p].UserIsGuest /\ users[loc[p].UserID] # Nil => ~Holds(users[loc[p].UserID])
  <1>0. /\ TypeOK
        /\ AloneOK(pc[p], arg[p], loc[p], users, sessions)
        /\ CodesOnce(pc[p], arg[p], loc[p], users, spent)
        /\ IdentitiesOK(pc[p], loc[p], users, sessions)
        /\ Steady => SteadyOK(pc[p], arg[p], loc[p], users, sessions, issued, proved)
    BY WholeParts
  <1>1. Settled(pc[p], arg[p])
    BY DEF Settled, AllRoutes
  <1>2. SessionUserOK(loc[p])
    BY <1>0 DEF IdentitiesOK
  <1>3. /\ loc[p].User \in User \cup {Nil}
        /\ loc[p].UserIsGuest => loc[p].User # Nil
    BY <1>0, RequestFacts DEF RequestOK
  <1>4. loc[p].User # Nil => /\ users[loc[p].User.id] = loc[p].User
                             /\ loc[p].User.id = loc[p].UserID /\ ~loc[p].User.temp
    BY <1>0 DEF AloneOK, CurrentOK, CodesOnce
  <1>5. Steady => /\ GuestUser /\ pc[p] \in SessionRoutes => loc[p].User # Nil
                  /\ loc[p].UserIsGuest /\ users[loc[p].UserID] # Nil => ~Holds(users[loc[p].UserID])
    BY <1>0 DEF SteadyOK, PresentOK, LosesOK
  <1>6. loc[p].UserIsGuest => GuestUser /\ loc[p].User.guest
    BY <1>2, <1>3 DEF SessionUserOK
  <1> QED BY <1>1, <1>2, <1>3, <1>4, <1>5, <1>6, SettledStore

\* The user found is in order as well.
LEMMA FoundKin ==
  ASSUME WholeInv, NEW p \in Procs, pc[p] \in AllRoutes,
         arg[p].key \in Keys, arg[p].uid \in UIDs, Found(p) # Nil
  PROVE  /\ Found(p) \in User /\ users[Found(p).id] = Found(p)
         /\ Found(p).id \in Stored(users)
         /\ GetUID(Found(p), arg[p].key) = arg[p].uid
         /\ Owners(users, arg[p].key, arg[p].uid) \subseteq {Found(p).id}
         /\ Found(p).temp => Unbound(sessions, Found(p).id)
         /\ GuestOK(Found(p))
         /\ Found(p).guest \/ Found(p).temp => OnlyHas(Found(p), Named(arg[p]))
  <1>1. /\ Found(p) \in User /\ users[Found(p).id] = Found(p)
        /\ GetUID(Found(p), arg[p].key) = arg[p].uid
        /\ Owners(users, arg[p].key, arg[p].uid) \subseteq {Found(p).id}
        /\ Found(p).temp => Unbound(sessions, Found(p).id)
    BY FoundFacts DEF WholeInv
  <1>2. Found(p).id \in Stored(users)
    BY <1>1, UserFacts DEF Stored
  <1>3. GuestOK(Found(p))
    BY <1>1, <1>2, RouteFacts DEF StoreOK
  <1> QED BY <1>1, <1>2, <1>3, SingleOnly DEF Named

\* Another user than the session's guest.
LEMMA NotTheGuest ==
  ASSUME WholeInv, NEW p \in Procs, pc[p] \in AllRoutes, loc[p].UserIsGuest,
         NEW v, users[v.id] = v, ~v.guest
  PROVE  v.id # loc[p].UserID
  BY RouteFacts

\* Ordinary users are in order.
LEMMA PlainGuestOK ==
  ASSUME NEW u, ~u.guest, ~u.temp
  PROVE  GuestOK(u)
  BY DEF GuestOK

\* A user that comes by an identity nobody owns shares none.
LEMMA NewIsSole ==
  ASSUME NEW us, Unique(us),
         NEW v \in User, us[v.id] = v \/ (\A j \in Keys : ~Present(v, j)),
         NEW k \in Keys, NEW w, w.id = v.id, Owners(us, k, GetUID(w, k)) = {},
         \A j \in Keys \ {k} : w.auths[j] = v.auths[j]
  PROVE  Sole(us, w, {})
  <1> SUFFICES ASSUME NEW j \in Keys, Present(w, j), NEW i \in Owners(us, j, GetUID(w, j))
               PROVE  i = v.id
    BY DEF Sole
  <1>1. j # k
    OBVIOUS
  <1>2. Present(v, j) /\ GetUID(v, j) = GetUID(w, j)
    BY <1>1 DEF Present, GetUID
  <1>3. us[v.id] = v /\ v.id \in Stored(us)
    BY <1>2, UserFacts DEF Stored
  <1>4. i \in Stored(us) /\ Present(us[i], j) /\ GetUID(us[i], j) = GetUID(v, j)
    BY <1>2 DEF Owners
  <1> QED BY <1>2, <1>3, <1>4 DEF Unique

\* The labels between a handler's first look at the store and its last call.
Onward == {"signUp.remove", "signUp.save", "signUp.bind", "signIn.bind", "signIn.save",
           "removeGuest", "save", "link.save", "linkAccount", "otpAuth.remove",
           "otpAuth.bind", "otpAuth.save", "social.save", "social.bind"}

\* A handler that goes on with the same user of the session.
LEMMA OnwardKin ==
  ASSUME WholeInv, NEW p \in Procs, pc[p] # "idle", NEW m, NEW label \in Onward,
         Continue(p, m, label), Traced, UNCHANGED issued,
         m.User = loc[p].User, m.UserID = loc[p].UserID, m.UserIsGuest = loc[p].UserIsGuest,
         \A t \in Sessions : t # arg[p].s => sessions'[t] = sessions[t],
         InHandOK(label, m, users', sessions'),
         StoreOK(users', sessions', Logging(label, m)),
         Steady => /\ GuestsBound(users', sessions', issued, {}, Adrift(label, arg[p]))
                   /\ ProvedOwned(users', proved', Restored(label, arg[p]))
                   /\ label \in ToBind => users'[m.u.id] # Nil
                   /\ label \in {"signUp.remove", "signUp.save"} /\ m.User # Nil
                        => users'[m.User.id] = m.User
                   /\ label \in {"link.save", "linkAccount"} /\ m.User # Nil
                      /\ GetUID(m.User, arg[p].key) = Empty
                        => users'[m.User.id] = m.User
                   /\ label \in {"otpAuth.remove", "otpAuth.bind"} /\ m.u.id \in Guests(users')
                        => \A t \in Sessions : sessions'[t] = m.u.id => t = arg[p].s
                   /\ label \in {"signIn.save", "removeGuest"} => sessions'[arg[p].s] = m.u.id
                   /\ LosesOK(label, arg[p], m, users', sessions')
                   /\ LinksOK(label, arg[p], m, users')
  PROVE  Kin(p)
  <1> DEFINE a == arg[p]
  <1>1. /\ label \notin {"auth.guest", "guest.save", "guest.bind", "signOut.remove", "idle"}
        /\ label \notin SessionRoutes
    BY DEF Onward, SessionRoutes, AllRoutes
  <1>2. Userless(label, a) = {}
    BY <1>1 DEF Userless
  <1>3. SessionUserOK(m)
    BY WholeParts DEF IdentitiesOK, SessionUserOK
  <1>4. Steady => PresentOK(label, a, m, users', sessions', issued)
    <2> SUFFICES ASSUME Steady PROVE PresentOK(label, a, m, users', sessions', issued)
      OBVIOUS
    <2>1. PresentOK(pc[p], a, loc[p], users, sessions, issued)
      BY WholeParts DEF SteadyOK
    <2>2. /\ a.op \in SessionRoutes => a.s \in issued
          /\ m.UserIsGuest => \A t \in Sessions : sessions[t] = m.UserID => t = a.s
      BY <2>1 DEF PresentOK
    <2>3. m.UserIsGuest => \A t \in Sessions : sessions'[t] = m.UserID => t = a.s
      BY <2>2
    <2> HIDE DEF a
    <2> QED BY <1>1, <2>2, <2>3 DEF PresentOK, a
  <1> QED BY <1>2, <1>3, <1>4, ContinueKin DEF SteadyOK

\* BindUser, of a stored user that is no guest.
LEMMA BoundKin ==
  ASSUME WholeInv, NEW p \in Procs, NEW s \in Sessions, NEW id \in UserIds,
         id \notin Guests(users), StoreOK(users, sessions, {}),
         Steady => /\ users[id] # Nil
                   /\ GuestsBound(users, sessions, issued, {}, {s}),
         sessions' = [sessions EXCEPT ![s] = id], UNCHANGED <<users, issued>>
  PROVE  /\ StoreOK(users', sessions', {})
         /\ Steady => GuestsBound(users', sessions', issued', {}, {})
         /\ sessions'[s] = id /\ \A t \in Sessions : t # s => sessions'[t] = sessions[t]
         /\ Traced
  <1>1. sessions \in [Sessions -> UserIds \cup {Nil}]
    BY WholeParts
  <1>2. StoreOK(users, [sessions EXCEPT ![s] = id], {})
    BY <1>1, BindStore
  <1>3. ASSUME Steady PROVE GuestsBound(users, sessions', issued, {}, {})
    <2>1. GuestsBound(users, sessions, issued, {s}, {s})
      BY <1>3, StoreOn
    <2>2. id \in Stored(users) /\ id # Nil
      BY <1>3, NilIsNoValue DEF Stored
    <2> QED BY <1>1, <2>1, <2>2, BindBound
  <1> QED BY <1>1, <1>2, <1>3 DEF Traced

\* Registering, up to the Save.
LEMMA SignUpLookKin ==
  ASSUME WholeInv, NEW p \in Procs,
         SignUpTakeOver(p) \/ SignUpNotFound(p) \/ SignUpRemoveTemp(p)
  PROVE  Kin(p)
  <1> DEFINE a == arg[p]
             l == loc[p]
  <1>0. /\ TypeOK /\ Storer(users) /\ proved \subseteq Keys \X UIDs
        /\ AloneOK(pc[p], a, l, users, sessions)
        /\ IdentitiesOK(pc[p], l, users, sessions)
        /\ Steady => SteadyOK(pc[p], a, l, users, sessions, issued, proved)
    BY WholeParts
  <1>1. pc[p] \in {"signUp", "signUp.remove"} /\ UNCHANGED <<sessions, issued, proved>>
    BY DEF SignUpTakeOver, SignUpNotFound, SignUpRemoveTemp, At, store, history
  <1>2. a.op = "signUp" /\ a.key \in Keys /\ a.uid \in UIDs
    BY <1>0, <1>1, LabelFacts, KeyFacts DEF OnRoute, AllRoutes
  <1>3. CASE SignUpTakeOver(p)
    <2> DEFINE f == Found(p)
               m == [l EXCEPT !.removeUserID = f.id]
    <2>1. /\ pc[p] = "signUp" /\ pc[p] \in AllRoutes /\ UNCHANGED users
          /\ f # Nil /\ f.temp /\ Continue(p, m, "signUp.remove")
      BY <1>3 DEF SignUpTakeOver, At, AllRoutes, store
    <2>2. /\ m.User = l.User /\ m.UserID = l.UserID /\ m.UserIsGuest = l.UserIsGuest
          /\ m.removeUserID = f.id
      BY <1>0, RequestFacts DEF Locals
    <2>3. /\ users[f.id] = f /\ OnlyHas(f, Named(a)) /\ Unbound(sessions, f.id)
      BY <1>2, <2>1, FoundKin
    <2>4. l.User # Nil => users[l.User.id] = l.User /\ f.id # l.User.id
      BY <2>1, <2>3, RouteFacts
    <2> HIDE DEF m, f
    <2>5. InHandOK("signUp.remove", m, users, sessions)
      BY DEF InHandOK, Pending, Logins
    <2>6. Logging("signUp.remove", m) = {} /\ Adrift("signUp.remove", a) = {}
          /\ Restored("signUp.remove", a) = {}
      BY DEF Logging, Adrift, Restored
    <2>7. LosesOK("signUp.remove", a, m, users, sessions) /\ LinksOK("signUp.remove", a, m, users)
      BY <2>2, <2>3, <2>4 DEF LosesOK, LinksOK, AllRoutes
    <2>8. "signUp.remove" \in Onward /\ "signUp.remove" \notin ToBind
      BY DEF Onward, ToBind
    <2>9. Traced
      BY <2>1 DEF Traced
    <2> HIDE DEF a, l
    <2> QED BY <1>1, <2>1, <2>2, <2>4, <2>5, <2>6, <2>7, <2>8, <2>9, RouteFacts, OnwardKin DEF a, l
  <1>4. CASE SignUpNotFound(p)
    <2>1. /\ pc[p] = "signUp" /\ pc[p] \in AllRoutes /\ UNCHANGED users
          /\ Continue(p, l, "signUp.save")
      BY <1>4 DEF SignUpNotFound, At, AllRoutes, store
    <2>2. InHandOK("signUp.save", l, users, sessions)
      BY DEF InHandOK, Pending, Logins
    <2>3. Logging("signUp.save", l) = {} /\ Adrift("signUp.save", a) = {}
      BY DEF Logging, Adrift
    <2>4. LosesOK("signUp.save", a, l, users, sessions) /\ LinksOK("signUp.save", a, l, users)
      BY DEF LosesOK, LinksOK, AllRoutes
    <2>5. "signUp.save" \in Onward /\ "signUp.save" \notin ToBind
      BY DEF Onward, ToBind
    <2>6. Traced
      BY <2>1 DEF Traced
    <2>7. Steady => ProvedOwned(users, proved, Restored("signUp.save", a))
      BY <2>1, RouteFacts, StoreOn
    <2>8. /\ StoreOK(users, sessions, {})
          /\ l.User # Nil => users[l.User.id] = l.User
          /\ Steady => GuestsBound(users, sessions, issued, {}, {})
      BY <2>1, RouteFacts
    <2> HIDE DEF a, l
    <2> QED BY <1>1, <2>1, <2>2, <2>3, <2>4, <2>5, <2>6, <2>7, <2>8, OnwardKin DEF a, l
  <1>5. CASE SignUpRemoveTemp(p)
    <2> DEFINE id == l.removeUserID
               R == Restored("signUp.save", a)
    <2>1. /\ pc[p] = "signUp.remove" /\ users' = RemoveByID(users, id)
          /\ Continue(p, l, "signUp.save")
      BY <1>5 DEF SignUpRemoveTemp, At
    <2>2. Settled(pc[p], a)
      BY <2>1 DEF Settled
    <2>3. /\ StoreOK(users, sessions, {})
          /\ Steady => GuestsBound(users, sessions, issued, {}, {}) /\ ProvedOwned(users, proved, {})
      BY <2>2, SettledStore
    <2>4. Steady => /\ id \in UserIds /\ users[id] # Nil => OnlyHas(users[id], Named(a))
                    /\ Unbound(sessions, id)
                    /\ l.User # Nil => id # l.User.id
                    /\ l.User # Nil => users[l.User.id] = l.User
      BY <1>0, <2>1 DEF SteadyOK, LosesOK, PresentOK
    <2>5. Logging("signUp.save", l) = {} /\ Adrift("signUp.save", a) = {}
          /\ Restored("signUp.save", a) = {} \cup {Named(a)}
      BY DEF Logging, Adrift, Restored
    <2>6. l.User \in User \cup {Nil} /\ \A u \in User : u.id \in UserIds
      BY <1>0, RequestFacts, UserFacts
    <2> HIDE DEF id, a
    <2>7. StoreOK(users', sessions', {})
      BY <1>0, <1>1, <2>1, <2>3, RemoveIdentities
    <2>8. Steady => GuestsBound(users', sessions', issued, {}, {})
      <3>1. Steady => \A t \in Sessions : sessions[t] # id
        BY <2>4 DEF Unbound
      <3> QED BY <1>0, <1>1, <2>1, <2>3, <3>1, RemoveIdentities
    <2>9. Steady => ProvedOwned(users', proved', R)
      <3>1. Steady => ProvedOwned(RemoveByID(users, id), proved, {} \cup {Named(a)})
        BY <1>0, <2>3, <2>4, RemoveIdentities
      <3> QED BY <1>1, <2>1, <2>5, <3>1
    <2>10. Steady /\ l.User # Nil => users'[l.User.id] = l.User
      <3>1. \A i \in UserIds : i # id => RemoveByID(users, id)[i] = users[i]
        BY <1>0 DEF Storer, RemoveByID
      <3> QED BY <2>1, <2>4, <2>6, <3>1
    <2>11. InHandOK("signUp.save", l, users', sessions')
      BY DEF InHandOK, Pending, Logins
    <2>12. LosesOK("signUp.save", a, l, users', sessions') /\ LinksOK("signUp.save", a, l, users')
      BY DEF LosesOK, LinksOK, AllRoutes
    <2>13. "signUp.save" \in Onward /\ "signUp.save" \notin ToBind /\ Traced
      BY <2>1 DEF Onward, ToBind, Traced
    <2> HIDE DEF l
    <2> QED BY <1>1, <2>1, <2>5, <2>7, <2>8, <2>9, <2>10, <2>11, <2>12, <2>13, OnwardKin DEF a, l
  <1> QED BY <1>3, <1>4, <1>5

\* Save, with what is owed paid.
LEMMA SavedStore ==
  ASSUME WholeInv, NEW u \in User, GuestOK(u), Follows(users, sessions, u),
         u.guest => SucceedsStored(users, u),
         users' = Put(users, u), UNCHANGED <<sessions, issued, proved>>,
         StoreOK(users, sessions, {}), NEW R,
         Steady => /\ GuestsBound(users, sessions, issued, {}, {})
                   /\ ProvedOwned(users, proved, R)
                   /\ \A x \in R : GetUID(u, x[1]) = x[2],
         Procs # {}
  PROVE  /\ StoreOK(users', sessions', {})
         /\ Steady => /\ GuestsBound(users', sessions', issued', {}, {})
                      /\ ProvedOwned(users', proved', {})
         /\ Traced
         /\ users'[u.id] = u /\ u \in User
         /\ \A i \in UserIds \ {u.id} : users'[i] = users[i]
  <1>1. Storer(users) /\ proved \subseteq Keys \X UIDs
    BY WholeParts
  <1>2. StoreOK(users', sessions', {})
    BY <1>1, PutIdentities
  <1>3. Steady => /\ GuestsBound(users', sessions', issued', {}, {})
                  /\ ProvedOwned(users', proved', {})
    BY <1>1, PutIdentities
  <1>4. users'[u.id] = u /\ \A i \in UserIds \ {u.id} : users'[i] = users[i]
    BY <1>1, StorerEffects
  <1> QED BY <1>2, <1>3, <1>4 DEF Traced

\* The user register saves: the session's guest, or a new one, with one more
\* identity.
LEMMA SignUpUser ==
  ASSUME NEW base \in User, NEW k \in PasswordKeys, NEW uid \in UIDs,
         NEW pw \in Passwords, NEW code \in Codes
  PROVE  LET v == SetPassword(SetUID(base, k, uid), k, pw)
             u == IF ConfirmableUser THEN WithConfirmCode(v, k, code) ELSE v
         IN  /\ u \in User /\ u.id = base.id
             /\ u.guest = base.guest /\ u.temp = base.temp
             /\ GetUID(u, k) = uid
             /\ \A j \in Keys \ {k} : u.auths[j] = base.auths[j]
  <1> DEFINE r == SetUID(base, k, uid)
             v == SetPassword(r, k, pw)
             c == SetConfirmCode(v, k, code)
             w == StampCode(c, k)
  <1>1. k \in Keys
    BY DEF Keys
  <1>2. /\ r \in User /\ r.id = base.id /\ r.guest = base.guest /\ r.temp = base.temp
        /\ GetUID(r, k) = uid /\ \A j \in Keys \ {k} : r.auths[j] = base.auths[j]
    BY <1>1, SetUIDType, SetUIDAfresh
  <1> HIDE DEF r
  <1>3. v \in User /\ Twin(v, r) /\ Beside(v, r, k)
    BY <1>1, <1>2, SetPasswordType, SettersTwin, SettersBeside
  <1> HIDE DEF v
  <1>4. c \in User /\ Twin(c, v) /\ Beside(c, v, k)
    BY <1>1, <1>3, SetCodeType, SettersTwin, SettersBeside
  <1> HIDE DEF c
  <1>5. w \in User /\ Twin(w, c) /\ Beside(w, c, k)
    BY <1>1, <1>4, StampType, SettersTwin, SettersBeside
  <1> HIDE DEF w
  <1>6. \A x, y : Twin(x, y) /\ Beside(x, y, k)
          => /\ x.id = y.id /\ x.guest = y.guest /\ x.temp = y.temp
             /\ GetUID(x, k) = GetUID(y, k)
             /\ \A j \in Keys \ {k} : x.auths[j] = y.auths[j]
    BY DEF Twin, Same, Beside
  <1>7. /\ v \in User /\ v.id = base.id /\ v.guest = base.guest /\ v.temp = base.temp
        /\ GetUID(v, k) = uid /\ \A j \in Keys \ {k} : v.auths[j] = base.auths[j]
    BY <1>2, <1>3, <1>6
  <1>8. /\ w \in User /\ w.id = base.id /\ w.guest = base.guest /\ w.temp = base.temp
        /\ GetUID(w, k) = uid /\ \A j \in Keys \ {k} : w.auths[j] = base.auths[j]
    <2>1. /\ c.id = base.id /\ c.guest = base.guest /\ c.temp = base.temp
          /\ GetUID(c, k) = uid /\ \A j \in Keys \ {k} : c.auths[j] = base.auths[j]
      BY <1>4, <1>6, <1>7
    <2> QED BY <1>5, <1>6, <2>1
  <1>9. ConfirmableUser \in BOOLEAN /\ WithConfirmCode(v, k, code) = w
    BY FlagsAreBooleans DEF WithConfirmCode, w, c
  <1>10. SetPassword(SetUID(base, k, uid), k, pw) = v
    BY DEF v, r
  <1> QED BY <1>7, <1>8, <1>9, <1>10

\* The user it starts from.
LEMMA SignUpBaseKin ==
  ASSUME WholeInv, NEW p \in Procs, pc[p] = "signUp.save", NEW base \in SignUpBase(p)
  PROVE  /\ base \in User /\ ~base.guest /\ ~base.temp
         /\ users[base.id] # Nil =>
              /\ SameUIDs(base, users[base.id])
              /\ Holds(users[base.id]) => Confirmed(users[base.id])
              /\ Steady => ~Holds(users[base.id])
         /\ Steady => \/ \E v \in User : users[v.id] = v /\ v.id = base.id /\ v.auths = base.auths
                      \/ \A j \in Keys : ~Present(base, j)
  <1> DEFINE v == loc[p].User
  <1>0. /\ TypeOK /\ AloneOK(pc[p], arg[p], loc[p], users, sessions)
        /\ SessionUserOK(loc[p])
        /\ Steady => PresentOK(pc[p], arg[p], loc[p], users, sessions, issued)
    BY WholeParts DEF IdentitiesOK, SteadyOK
  <1>1. CASE GuestUser /\ loc[p].UserIsGuest
    <2>1. /\ v \in User /\ v.guest /\ GuestOK(v) /\ ~v.temp
          /\ Holds(v) => Confirmed(v)
      BY <1>0, <1>1, RequestFacts DEF SessionUserOK, AloneOK, CurrentOK, RequestOK
    <2>2. base = SetGuest(v, FALSE)
      BY <1>1 DEF SignUpBase
    <2>3. /\ base \in User /\ base.id = v.id /\ base.auths = v.auths
          /\ ~base.guest /\ base.temp = v.temp
      BY <2>1, <2>2, SetFlagType, FlagsSet
    <2>4. Fresh(users, v)
      BY <1>0, <2>1, UserFacts DEF AloneOK, CurrentOK
    <2>5. Steady => ~Holds(v) /\ users[v.id] = v
      BY <1>0, <2>1, UserFacts DEF GuestOK, PresentOK
    <2>6. SameUIDs(base, v)
      BY <2>3 DEF SameUIDs, GetUID
    <2> HIDE DEF v
    <2>7. users[base.id] # Nil => users[base.id] = v
      BY <2>3, <2>4 DEF Fresh
    <2> QED BY <2>1, <2>3, <2>5, <2>6, <2>7
  <1>2. CASE ~(GuestUser /\ loc[p].UserIsGuest)
    <2>1. PICK id \in FreeIds : base = NewUser(id)
      BY <1>2 DEF SignUpBase
    <2>2. id \in UserIds /\ users[id] = Nil
      BY FreeFacts DEF WholeInv
    <2>3. base \in User /\ base.id = id /\ ~base.guest /\ ~base.temp
      BY <2>1, <2>2, NewUserFacts
    <2>4. \A j \in Keys : ~Present(base, j)
      BY <2>1 DEF NewUser, Present
    <2> QED BY <2>2, <2>3, <2>4
  <1> QED BY <1>1, <1>2

\* The Save of register: it does not fail, and gives the identity an owner.
LEMMA SignUpSaveKin ==
  ASSUME WholeInv, ~SaveMayFail, NEW p \in Procs, SignUpSave(p)
  PROVE  Kin(p)
  <1> DEFINE a == arg[p]
             l == loc[p]
             k == a.key
  <1>0. /\ TypeOK /\ SeqInv
        /\ AloneOK(pc[p], a, l, users, sessions)
        /\ IdentitiesOK(pc[p], l, users, sessions)
        /\ Steady => SteadyOK(pc[p], a, l, users, sessions, issued, proved)
    BY WholeParts
  <1>1. pc[p] = "signUp.save" /\ UNCHANGED <<sessions, issued, proved>>
    BY DEF SignUpSave, At
  <1>2. a.op = "signUp" /\ k \in Keys /\ k \in PasswordKeys /\ a.uid \in UIDs /\ a.secret \in Passwords
    BY <1>0, <1>1, LabelFacts, KeyFacts DEF OnRoute, PasswordOps
  <1>3. PICK base \in SignUpBase(p), code \in Codes :
          LET v == SetPassword(SetUID(base, k, a.uid), k, a.secret)
              u == IF ConfirmableUser THEN WithConfirmCode(v, k, code) ELSE v
          IN  \/ Save(u) /\ Continue(p, [l EXCEPT !.u = u], "signUp.bind")
              \/ SaveFails(u) /\ Return(p)
    BY DEF SignUpSave
  <1> DEFINE w == SetPassword(SetUID(base, k, a.uid), k, a.secret)
             u == IF ConfirmableUser THEN WithConfirmCode(w, k, code) ELSE w
             m == [l EXCEPT !.u = u]
  <1>4. \/ Save(u) /\ Continue(p, m, "signUp.bind")
        \/ SaveFails(u) /\ Return(p)
    BY <1>3
  <1>5. /\ base \in User /\ ~base.guest /\ ~base.temp
        /\ users[base.id] # Nil =>
              /\ SameUIDs(base, users[base.id])
              /\ Holds(users[base.id]) => Confirmed(users[base.id])
              /\ Steady => ~Holds(users[base.id])
        /\ Steady => \/ \E v \in User : users[v.id] = v /\ v.id = base.id /\ v.auths = base.auths
                     \/ \A j \in Keys : ~Present(base, j)
    BY <1>1, SignUpBaseKin
  <1>6. /\ u \in User /\ u.id = base.id
        /\ u.guest = base.guest /\ u.temp = base.temp
        /\ GetUID(u, k) = a.uid
        /\ \A j \in Keys \ {k} : u.auths[j] = base.auths[j]
    <2> HIDE DEF k, a
    <2> QED BY <1>2, <1>5, SignUpUser
  <1>7. m.u = u /\ m.User = l.User /\ m.UserID = l.UserID /\ m.UserIsGuest = l.UserIsGuest
    BY <1>0, InHand
  <1> HIDE DEF w, u, m
  <1>8. GuestOK(u) /\ ~u.guest
    BY <1>5, <1>6, PlainGuestOK
  <1>9. Follows(users, sessions, u)
    <2>1. ASSUME users[u.id] # Nil PROVE Replaces(u, users[u.id])
      <3> DEFINE v == users[u.id]
      <3>1. SameUIDs(base, v) /\ (Holds(v) => Confirmed(v)) /\ (Steady => ~Holds(v))
        BY <1>5, <1>6, <2>1
      <3> HIDE DEF v
      <3>2. Replaces(u, v)
        BY <1>8, <3>1 DEF Replaces, Holds
      <3> QED BY <3>2 DEF v
    <2> QED BY <1>8, <2>1 DEF Follows
  <1>10. Steady => Sole(users, u, {})
    <2>1. Owners(users, k, a.uid) = {} /\ Unique(users)
      BY <1>0, <1>1 DEF AloneOK, RemovalOK, SeqInv, UniqueIdentities
    <2>2. ASSUME NEW v \in User, users[v.id] = v, v.id = base.id, v.auths = base.auths
          PROVE  Sole(users, u, {})
      <3>1. \A j \in Keys \ {k} : u.auths[j] = v.auths[j]
        BY <1>6, <2>2
      <3> HIDE DEF k, a
      <3> QED BY <1>2, <1>6, <2>1, <2>2, <3>1, NewIsSole
    <2>3. ASSUME \A j \in Keys : ~Present(base, j) PROVE Sole(users, u, {})
      <3> HIDE DEF k, a
      <3> QED BY <1>2, <1>5, <1>6, <2>1, <2>3, NewIsSole
    <2> QED BY <1>5, <2>2, <2>3
  <1>11. Steady => Save(u)
    BY <1>4, <1>10, SoleSaved
  <1>12. StoreOK(users, sessions, {})
    BY <1>0, <1>1 DEF IdentitiesOK, Logging
  <1>13. Steady => GuestsBound(users, sessions, issued, {}, {}) /\ ProvedOwned(users, proved, {Named(a)})
    BY <1>0, <1>1 DEF SteadyOK, Userless, Adrift, Restored
  <1>14. CASE Save(u)
    <2>1. users' = Put(users, u)
      BY <1>14 DEF Save
    <2>2. \A x \in {Named(a)} : GetUID(u, x[1]) = x[2]
      BY <1>6 DEF Named
    <2>3. /\ StoreOK(users', sessions', {})
          /\ Steady => /\ GuestsBound(users', sessions', issued', {}, {})
                       /\ ProvedOwned(users', proved', {})
          /\ Traced /\ users'[u.id] = u
      <3> DEFINE R == {Named(a)}
      <3>1. \A x \in R : GetUID(u, x[1]) = x[2]
        BY <2>2
      <3>2. Steady => GuestsBound(users, sessions, issued, {}, {}) /\ ProvedOwned(users, proved, R)
        BY <1>13
      <3>4. u \in User /\ (u.guest => SucceedsStored(users, u)) /\ Procs # {}
        BY <1>6, <1>8
      <3> HIDE DEF R
      <3> QED BY <1>1, <1>8, <1>9, <1>12, <2>1, <3>1, <3>2, <3>4, SavedStore
    <2>4. u # Nil /\ u.id \notin Guests(users')
      BY <1>6, <1>8, <2>3, UserFacts DEF Guests
    <2>5. CASE Continue(p, m, "signUp.bind")
      <3>1. InHandOK("signUp.bind", m, users', sessions')
        BY <1>7, <2>4 DEF InHandOK, Pending, Logins
      <3>2. Logging("signUp.bind", m) = {} /\ Adrift("signUp.bind", a) = {}
            /\ Restored("signUp.bind", a) = {} /\ "signUp.bind" \in Onward
        BY DEF Logging, Adrift, Restored, Onward
      <3>3. LosesOK("signUp.bind", a, m, users', sessions') /\ LinksOK("signUp.bind", a, m, users')
        BY DEF LosesOK, LinksOK, AllRoutes
      <3> HIDE DEF k, a, l
      <3> QED BY <1>1, <1>7, <2>3, <2>4, <2>5, <3>1, <3>2, <3>3, OnwardKin DEF a, l
    <2>6. CASE SaveFails(u) /\ Return(p)
      BY <1>12, <2>3, <2>6, ReturnKin
    <2> QED BY <1>4, <2>5, <2>6
  <1>15. CASE SaveFails(u) /\ Return(p) /\ ~Steady
    <2>1. UNCHANGED users
      BY <1>15 DEF SaveFails
    <2> QED BY <1>1, <1>12, <1>15, <2>1, ReturnKin DEF Traced
  <1> QED BY <1>4, <1>11, <1>14, <1>15

\* The login with a password.
LEMMA SignInKin ==
  ASSUME WholeInv, ~SaveMayFail, NEW p \in Procs, SignInLoad(p) \/ SignInBind(p) \/ SignInSave(p)
  PROVE  Kin(p)
  <1> DEFINE a == arg[p]
             l == loc[p]
  <1>0. /\ TypeOK /\ AloneOK(pc[p], a, l, users, sessions)
        /\ IdentitiesOK(pc[p], l, users, sessions)
        /\ Steady => SteadyOK(pc[p], a, l, users, sessions, issued, proved)
    BY WholeParts
  <1>1. pc[p] \in {"signIn", "signIn.bind", "signIn.save"} /\ UNCHANGED <<issued, proved>>
    BY DEF SignInLoad, SignInBind, SignInSave, At, store, history
  <1>2. /\ a.op = "signIn" /\ a.key \in Keys /\ a.key \in PasswordKeys /\ a.uid \in UIDs
        /\ a.s \in Sessions
    BY <1>0, <1>1, LabelFacts, KeyFacts DEF OnRoute, PasswordOps, AllRoutes
  <1>3. l.UserID \in UserIds \cup {Nil} /\ (l.UserIsGuest => l.User \in User)
    BY <1>0, <1>1, LabelFacts, RequestFacts
  <1>4. CASE SignInLoad(p)
    <2> DEFINE f == Found(p)
               m == [l EXCEPT !.u = f]
    <2>1. /\ pc[p] = "signIn" /\ pc[p] \in AllRoutes /\ UNCHANGED <<users, sessions>>
          /\ f # Nil /\ ~f.temp /\ Continue(p, m, "signIn.bind")
      BY <1>4 DEF SignInLoad, SignInAccepted, At, AllRoutes, store
    <2>2. m.u = f /\ m.User = l.User /\ m.UserID = l.UserID /\ m.UserIsGuest = l.UserIsGuest
      BY <1>0, InHand
    <2>3. f \in User /\ users[f.id] = f /\ GuestOK(f) /\ GetUID(f, a.key) = a.uid
      BY <1>2, <2>1, FoundKin
    <2>4. ~f.guest
      BY <1>2, <2>3, GuestKeys, EmptyIsNoValue
    <2>5. Follows(users, sessions, f)
      BY <2>3, SameFollows, TwinOn
    <2>6. l.UserIsGuest => f.id # l.UserID
      BY <2>1, <2>3, <2>4, NotTheGuest
    <2>7. f # Nil /\ f.id \notin Guests(users)
      BY <2>3, <2>4, UserFacts DEF Guests
    <2> HIDE DEF f, m
    <2>8. InHandOK("signIn.bind", m, users, sessions)
      BY <2>2, <2>3, <2>4, <2>5, <2>7 DEF InHandOK, Logins
    <2>9. Logging("signIn.bind", m) = {} /\ Adrift("signIn.bind", a) = {}
          /\ Restored("signIn.bind", a) = {} /\ "signIn.bind" \in Onward
      BY DEF Logging, Adrift, Restored, Onward
    <2>10. Steady => LosesOK("signIn.bind", a, m, users, sessions)
      BY <2>1, <2>2, <2>6, RouteFacts DEF LosesOK
    <2>11. LinksOK("signIn.bind", a, m, users) /\ Traced
      BY <2>1 DEF LinksOK, Traced
    <2>12. /\ StoreOK(users, sessions, {})
           /\ Steady => GuestsBound(users, sessions, issued, {}, {}) /\ ProvedOwned(users, proved, {})
      BY <2>1, RouteFacts
    <2> HIDE DEF a, l
    <2> QED BY <1>1, <2>1, <2>2, <2>3, <2>7, <2>8, <2>9, <2>10, <2>11, <2>12, OnwardKin DEF a, l
  <1>5. CASE SignInBind(p)
    <2> DEFINE id == l.u.id
    <2>1. /\ pc[p] = "signIn.bind" /\ UNCHANGED users
          /\ sessions' = [sessions EXCEPT ![a.s] = id] /\ Continue(p, l, "signIn.save")
      BY <1>5 DEF SignInBind, At
    <2>2. /\ Settled(pc[p], a) /\ l.u \in User /\ id \in UserIds
      BY <1>0, <2>1, LabelFacts, UserFacts DEF Settled, HoldsUser
    <2>3. /\ StoreOK(users, sessions, {})
          /\ Steady => GuestsBound(users, sessions, issued, {}, {}) /\ ProvedOwned(users, proved, {})
      BY <2>2, SettledStore
    <2>4. /\ GuestOK(l.u) /\ Follows(users, sessions, l.u) /\ ~l.u.guest /\ id \notin Guests(users)
      BY <1>0, <2>1 DEF IdentitiesOK, InHandOK, Pending
    <2>5. Steady => users[id] # Nil
      BY <1>0, <2>1 DEF SteadyOK, PresentOK, ToBind
    <2>6. /\ StoreOK(users', sessions', {})
          /\ Steady => GuestsBound(users', sessions', issued', {}, {})
          /\ sessions'[a.s] = id /\ \A t \in Sessions : t # a.s => sessions'[t] = sessions[t]
          /\ Traced
      <3> DEFINE s == a.s
      <3>1. s \in Sessions /\ sessions' = [sessions EXCEPT ![s] = id]
        BY <1>2, <2>1
      <3>2. Steady => users[id] # Nil /\ GuestsBound(users, sessions, issued, {}, {s})
        BY <2>3, <2>5, StoreOn
      <3> HIDE DEF s, id, a, l
      <3>3. /\ StoreOK(users', sessions', {})
            /\ Steady => GuestsBound(users', sessions', issued', {}, {})
            /\ sessions'[s] = id /\ \A t \in Sessions : t # s => sessions'[t] = sessions[t]
            /\ Traced
        BY <1>1, <2>1, <2>2, <2>3, <2>4, <3>1, <3>2, BoundKin
      <3> QED BY <3>3 DEF s
    <2>7. Follows(users', sessions', l.u)
      BY <2>1, <2>4 DEF Follows
    <2>8. InHandOK("signIn.save", l, users', sessions')
      BY <2>4, <2>7 DEF InHandOK, Logins
    <2>9. Logging("signIn.save", l) = {} /\ Adrift("signIn.save", a) = {}
          /\ Restored("signIn.save", a) = {} /\ "signIn.save" \in Onward /\ "signIn.save" \notin ToBind
      BY DEF Logging, Adrift, Restored, Onward, ToBind
    <2>10. Steady => LosesOK("signIn.save", a, l, users', sessions')
      BY <1>0, <2>1 DEF SteadyOK, LosesOK, AllRoutes
    <2>11. LinksOK("signIn.save", a, l, users')
      BY DEF LinksOK
    <2> HIDE DEF a, l
    <2> QED BY <1>1, <2>1, <2>3, <2>6, <2>8, <2>9, <2>10, <2>11, OnwardKin DEF a, l, id
  <1>6. CASE SignInSave(p)
    <2> DEFINE u == l.u
    <2>1. /\ pc[p] = "signIn.save" /\ UNCHANGED sessions
          /\ \/ Save(u) /\ (IF GuestUser /\ l.UserIsGuest
                            THEN Continue(p, l, "removeGuest") ELSE Return(p))
             \/ SaveFails(u) /\ Return(p)
      BY <1>6 DEF SignInSave, At
    <2>2. Settled(pc[p], a) /\ u \in User
      BY <1>0, <2>1, LabelFacts DEF Settled, HoldsUser
    <2>3. /\ StoreOK(users, sessions, {})
          /\ Steady => GuestsBound(users, sessions, issued, {}, {}) /\ ProvedOwned(users, proved, {})
      BY <2>2, SettledStore
    <2>4. GuestOK(u) /\ Follows(users, sessions, u) /\ ~u.guest
      BY <1>0, <2>1 DEF IdentitiesOK, InHandOK, Pending
    <2>5. CASE SaveFails(u) /\ Return(p)
      BY <1>1, <2>1, <2>3, <2>5, ReturnKin DEF SaveFails, Traced
    <2>6. CASE Save(u)
      <3>1. /\ StoreOK(users', sessions', {})
            /\ Steady => /\ GuestsBound(users', sessions', issued', {}, {})
                         /\ ProvedOwned(users', proved', {})
            /\ Traced /\ users'[u.id] = u
            /\ \A i \in UserIds \ {u.id} : users'[i] = users[i]
        <4>1. users' = Put(users, u) /\ Procs # {} /\ \A x \in {} : GetUID(u, x[1]) = x[2]
          BY <2>6 DEF Save
        <4> HIDE DEF u
        <4> QED BY <1>1, <2>1, <2>2, <2>3, <2>4, <4>1, SavedStore
      <3>2. CASE Return(p)
        BY <3>1, <3>2, ReturnKin
      <3>3. CASE Continue(p, l, "removeGuest") /\ l.UserIsGuest
        <4>1. InHandOK("removeGuest", l, users', sessions')
          BY DEF InHandOK, Pending, Logins
        <4>2. Logging("removeGuest", l) = {} /\ Adrift("removeGuest", a) = {}
              /\ Restored("removeGuest", a) = {} /\ "removeGuest" \in Onward /\ "removeGuest" \notin ToBind
          BY DEF Logging, Adrift, Restored, Onward, ToBind
        <4>3. Steady => sessions'[a.s] = u.id
          BY <1>0, <2>1 DEF SteadyOK, PresentOK
        <4>4. Steady => LosesOK("removeGuest", a, l, users', sessions')
          <5>1. Steady => /\ u.id # l.UserID
                          /\ users[l.UserID] # Nil => ~Holds(users[l.UserID])
            BY <1>0, <2>1, <3>3 DEF SteadyOK, LosesOK
          <5>2. l.UserID \in UserIds
            BY <1>0, <1>3, <3>3, UserFacts DEF AloneOK, CurrentOK
          <5>3. Steady => users'[l.UserID] = users[l.UserID]
            BY <3>1, <5>1, <5>2
          <5> QED BY <5>1, <5>3 DEF LosesOK, AllRoutes
        <4>5. LinksOK("removeGuest", a, l, users')
          BY DEF LinksOK
        <4> HIDE DEF a, l
        <4> QED BY <1>1, <2>1, <3>1, <3>3, <4>1, <4>2, <4>3, <4>4, <4>5, OnwardKin DEF a, l
      <3> QED BY <2>1, <2>6, <3>2, <3>3, <2>5
    <2> QED BY <2>1, <2>5, <2>6
  <1> QED BY <1>4, <1>5, <1>6

\* register and login.
LEMMA PasswordKin ==
  ASSUME WholeInv, ~SaveMayFail, NEW p \in Procs, PasswordStep(p)
  PROVE  Kin(p)
  <1> DEFINE a == arg[p]
             l == loc[p]
  <1>1. CASE SignUpBegin(p) \/ SignInBegin(p)
    <2>1. CASE SignUpBegin(p)
      BY <2>1, BeginKin DEF SignUpBegin, BeginWithSession, FirstLabels, PasswordArg, NoArg
    <2>2. CASE SignInBegin(p)
      BY <2>2, BeginKin DEF SignInBegin, BeginWithSession, FirstLabels, PasswordArg, NoArg
    <2> QED BY <1>1, <2>1, <2>2
  <1>2. CASE SignUpRefuse(p) \/ SignInRefuse(p)
    <2>1. pc[p] \in {"signUp", "signIn"} /\ Refuse(p)
      BY <1>2 DEF SignUpRefuse, SignInRefuse, At
    <2>2. Settled(pc[p], arg[p])
      BY <2>1 DEF Settled
    <2> QED BY <2>1, <2>2, RefuseKin
  <1>3. CASE SignUpBind(p)
    <2> DEFINE id == l.u.id
    <2>0. /\ TypeOK /\ IdentitiesOK(pc[p], l, users, sessions)
          /\ Steady => SteadyOK(pc[p], a, l, users, sessions, issued, proved)
      BY WholeParts
    <2>1. /\ pc[p] = "signUp.bind" /\ UNCHANGED <<users, issued, proved>>
          /\ sessions' = [sessions EXCEPT ![a.s] = id] /\ Return(p)
      BY <1>3 DEF SignUpBind, At, history
    <2>2. /\ Settled(pc[p], a) /\ id \in UserIds
      BY <2>0, <2>1, LabelFacts, UserFacts DEF Settled, HoldsUser
    <2>3. a.s \in Sessions
      BY <2>0, <2>1, LabelFacts DEF ArgOK, OnRoute
    <2>4. /\ StoreOK(users, sessions, {})
          /\ Steady => GuestsBound(users, sessions, issued, {}, {}) /\ ProvedOwned(users, proved, {})
      BY <2>2, SettledStore
    <2>5. id \notin Guests(users) /\ (Steady => users[id] # Nil)
      BY <2>0, <2>1 DEF IdentitiesOK, InHandOK, SteadyOK, PresentOK, ToBind
    <2>6. /\ StoreOK(users', sessions', {})
          /\ Steady => GuestsBound(users', sessions', issued', {}, {})
          /\ Traced
      <3> DEFINE s == a.s
      <3>1. s \in Sessions /\ sessions' = [sessions EXCEPT ![s] = id]
        BY <2>1, <2>3
      <3>2. Steady => users[id] # Nil /\ GuestsBound(users, sessions, issued, {}, {s})
        BY <2>4, <2>5, StoreOn
      <3> HIDE DEF s, id, a, l
      <3> QED BY <2>1, <2>2, <2>4, <2>5, <3>1, <3>2, BoundKin
    <2> QED BY <2>1, <2>4, <2>6, ReturnKin
  <1> QED BY <1>1, <1>2, <1>3, SignUpLookKin, SignUpSaveKin, SignInKin DEF PasswordStep

\* A handler that is to save a twin of a stored user.
LEMMA TwinSaveKin ==
  ASSUME WholeInv, NEW p \in Procs, pc[p] \in AllRoutes, arg[p].op \notin {"link", "otpAuth"},
         NEW v \in User, users[v.id] = v, NEW u, Twin(u, v),
         Continue(p, [loc[p] EXCEPT !.u = u], "save"),
         UNCHANGED <<users, sessions, issued, proved>>
  PROVE  Kin(p)
  <1>1. Steady => ProvedOwned(users, proved', {})
    BY RouteFacts
  <1>2. Same(u, v) /\ u.temp = v.temp
    BY DEF Twin
  <1> QED BY <1>1, <1>2, GoSaveSame

\* The user found owns the identity its client has just proved to hold.
LEMMA FoundProved ==
  ASSUME WholeInv, NEW p \in Procs, pc[p] \in AllRoutes,
         arg[p].key \in Keys, arg[p].uid \in UIDs, Found(p) # Nil,
         proved' \subseteq proved \cup {Named(arg[p])}, Steady
  PROVE  ProvedOwned(users, proved', {})
  <1> DEFINE k == arg[p].key
             uid == arg[p].uid
             f == Found(p)
  <1>1. users[f.id] = f /\ f.id \in Stored(users) /\ GetUID(f, k) = uid
    BY FoundKin
  <1>2. Present(f, k)
    BY <1>1, EmptyIsNoValue DEF Present, GetUID, ZeroIdentity
  <1>3. f.id \in Owners(users, k, uid)
    BY <1>1, <1>2 DEF Owners
  <1>4. ProvedOwned(users, proved, {})
    BY RouteFacts
  <1> QED BY <1>3, <1>4 DEF ProvedOwned, Named

\* Confirming an identity.
LEMMA ConfirmKeeps ==
  ASSUME NEW v \in User, NEW k \in Keys
  PROVE  LET u == SetConfirmed(v, k, TRUE)
         IN  u \in User /\ Same(u, v) /\ u.temp = v.temp /\ Confirmed(u)
  <1> DEFINE u == SetConfirmed(v, k, TRUE)
  <1>1. u \in User
    BY SetConfirmedType
  <1>2. Same(u, v) /\ u.temp = v.temp
    BY DEF SetConfirmed, Same, SameUIDs, User, Identity, GetUID
  <1>3. u.auths[k].confirmed
    BY DEF SetConfirmed, User, Identity
  <1> HIDE DEF u
  <1>4. Confirmed(u)
    BY <1>3 DEF Confirmed
  <1> QED BY <1>1, <1>2, <1>4 DEF u

\* Confirmation and recovery: the user found keeps its identities.
LEMMA CodeKin ==
  ASSUME WholeInv, NEW p \in Procs, CodeStep(p)
  PROVE  Kin(p)
  <1> DEFINE a == arg[p]
             l == loc[p]
             k == a.key
             f == Found(p)
  <1>0. TypeOK /\ proved \subseteq Keys \X UIDs
    BY WholeParts
  <1>1. CASE ConfirmBegin(p) \/ ResendBegin(p) \/ RequestRecoveryBegin(p) \/ RecoveryBegin(p)
    <2>1. CASE ConfirmBegin(p)
      BY <2>1, BeginKin DEF ConfirmBegin, CodeArg, NoArg, FirstLabels, SessionRoutes
    <2>2. CASE ResendBegin(p)
      BY <2>2, BeginKin DEF ResendBegin, BeginWithSession, NoArg, FirstLabels
    <2>3. CASE RequestRecoveryBegin(p)
      BY <2>3, BeginKin DEF RequestRecoveryBegin, CodeArg, NoArg, FirstLabels, SessionRoutes
    <2>4. CASE RecoveryBegin(p)
      BY <2>4, BeginKin DEF RecoveryBegin, CodeArg, NoArg, FirstLabels, SessionRoutes
    <2> QED BY <1>1, <2>1, <2>2, <2>3, <2>4
  <1>2. CASE ConfirmRefuse(p) \/ ResendRefuse(p) \/ RequestRecoveryRefuse(p) \/ RecoveryRefuse(p)
    <2>1. pc[p] \in {"confirm", "resend", "requestRecovery", "recovery"} /\ Refuse(p)
      BY <1>2 DEF ConfirmRefuse, ResendRefuse, RequestRecoveryRefuse, RecoveryRefuse, At
    <2>2. Settled(pc[p], arg[p])
      BY <2>1 DEF Settled
    <2> QED BY <2>1, <2>2, RefuseKin
  <1>3. CASE ConfirmLoad(p)
    <2> DEFINE c == ClearStamp(f, k)
               u == SetConfirmed(c, k, TRUE)
    <2>1. /\ pc[p] = "confirm" /\ pc[p] \in AllRoutes /\ f # Nil
          /\ Continue(p, [l EXCEPT !.u = u], "save")
          /\ UNCHANGED <<users, sessions, issued>>
          /\ proved' \subseteq proved \cup {Named(a)}
      BY <1>3 DEF ConfirmLoad, ConfirmAccepted, At, AllRoutes, Proves, store, Named
    <2>2. /\ a.op = "confirm" /\ k \in Keys /\ k \in PasswordKeys /\ a.uid \in UIDs
      BY <1>0, <2>1, LabelFacts, KeyFacts DEF OnRoute, PasswordOps
    <2>3. /\ f \in User /\ users[f.id] = f /\ f.id \in Stored(users)
          /\ GetUID(f, k) = a.uid /\ GuestOK(f)
      BY <2>1, <2>2, FoundKin
    <2>4. ~f.guest
      BY <2>2, <2>3, GuestKeys, EmptyIsNoValue
    <2>6. Steady => ProvedOwned(users, proved', {})
      BY <2>1, <2>2, FoundProved
    <2> HIDE DEF f, k
    <2>7. c \in User /\ Twin(c, f)
      BY <2>2, <2>3, StampType, SettersTwin
    <2> HIDE DEF c
    <2>8. Same(u, c) /\ u.temp = c.temp
      BY <2>2, <2>7, ConfirmKeeps
    <2> HIDE DEF u
    <2>9. Same(u, f) /\ (u.temp => f.temp) /\ ~u.guest
      BY <2>4, <2>7, <2>8, TwinOn DEF Twin, Same
    <2> QED BY <2>1, <2>2, <2>3, <2>6, <2>9, GoSaveSame
  <1>5. CASE ResendNewCode(p)
    <2>1. /\ pc[p] = "resend" /\ pc[p] \in AllRoutes /\ l.User # Nil
          /\ UNCHANGED <<users, sessions, issued, proved>>
      BY <1>5 DEF ResendNewCode, ResendAccepted, At, AllRoutes, store, history
    <2>2. a.op = "resend" /\ k \in Keys
      BY <1>0, <2>1, LabelFacts, KeyFacts DEF OnRoute, AllRoutes
    <2>3. PICK code \in Codes :
            Continue(p, [l EXCEPT !.u = SetConfirmCode(StampCode(l.User, k), k, code)], "save")
      BY <1>5 DEF ResendNewCode
    <2>4. l.User \in User /\ users[l.User.id] = l.User
      BY <2>1, RouteFacts
    <2> HIDE DEF k, l, a
    <2>5. Twin(StampCode(l.User, k), l.User) /\ StampCode(l.User, k) \in User
      BY <2>2, <2>4, SettersTwin, StampType
    <2>6. Twin(SetConfirmCode(StampCode(l.User, k), k, code), l.User)
      <3>1. Twin(SetConfirmCode(StampCode(l.User, k), k, code), StampCode(l.User, k))
        BY <2>2, <2>5, SettersTwin
      <3> QED BY <2>5, <3>1, TwinOn
    <2> QED BY <2>1, <2>2, <2>3, <2>4, <2>6, TwinSaveKin DEF a, l
  <1>6. CASE RequestRecoveryLoad(p)
    <2>1. /\ pc[p] = "requestRecovery" /\ pc[p] \in AllRoutes /\ f # Nil
          /\ UNCHANGED <<users, sessions, issued, proved>>
      BY <1>6 DEF RequestRecoveryLoad, RequestRecoveryAccepted, At, AllRoutes, store, history
    <2>2. a.op = "requestRecovery" /\ k \in Keys /\ a.uid \in UIDs
      BY <1>0, <2>1, LabelFacts, KeyFacts DEF OnRoute, AllRoutes
    <2>3. PICK code \in Codes :
            Continue(p, [l EXCEPT !.u = SetRecoveryCode(StampCode(f, k), k, code)], "save")
      BY <1>6 DEF RequestRecoveryLoad
    <2>4. f \in User /\ users[f.id] = f
      BY <2>1, <2>2, FoundKin
    <2> HIDE DEF k, l, a, f
    <2>5. Twin(StampCode(f, k), f) /\ StampCode(f, k) \in User
      BY <2>2, <2>4, SettersTwin, StampType
    <2>6. Twin(SetRecoveryCode(StampCode(f, k), k, code), f)
      BY <2>2, <2>5, SettersTwin, TwinOn
    <2> QED BY <2>1, <2>2, <2>3, <2>4, <2>6, TwinSaveKin DEF a, l
  <1>7. CASE RecoveryLoad(p)
    <2> DEFINE c == ClearStamp(f, k)
               w == SetPassword(c, k, a.secret)
               u == SetRecoveryCode(w, k, Empty)
    <2>1. /\ pc[p] = "recovery" /\ pc[p] \in AllRoutes /\ f # Nil
          /\ UNCHANGED <<users, sessions, issued, proved>>
          /\ Continue(p, [l EXCEPT !.u = u], "save")
      BY <1>7 DEF RecoveryLoad, RecoveryAccepted, At, AllRoutes, store, history, NewPassword
    <2>2. a.op = "recovery" /\ k \in Keys /\ a.uid \in UIDs /\ a.secret \in Passwords
      BY <1>0, <2>1, LabelFacts, KeyFacts DEF OnRoute, AllRoutes
    <2>3. f \in User /\ users[f.id] = f
      BY <2>1, <2>2, FoundKin
    <2> HIDE DEF k, l, a, f
    <2>4. Twin(c, f) /\ c \in User
      BY <2>2, <2>3, SettersTwin, StampType
    <2> HIDE DEF c
    <2>5. Twin(w, c) /\ w \in User
      BY <2>2, <2>4, SettersTwin, SetPasswordType
    <2> HIDE DEF w
    <2>6. Twin(u, w)
      BY <2>2, <2>5, SettersTwin
    <2> HIDE DEF u
    <2>7. Twin(u, f)
      BY <2>4, <2>5, <2>6, TwinOn
    <2> QED BY <2>1, <2>2, <2>3, <2>7, TwinSaveKin DEF a, l
  <1> QED BY <1>1, <1>2, <1>3, <1>5, <1>6, <1>7 DEF CodeStep

\* The profile.
LEMMA ProfileKin ==
  ASSUME WholeInv, NEW p \in Procs, ProfileStep(p)
  PROVE  Kin(p)
  <1>1. CASE ProfileBegin(p)
    BY <1>1, BeginKin DEF ProfileBegin, BeginWithSession, NoArg, FirstLabels
  <1>2. CASE ProfileRefuse(p)
    <2>1. Settled(pc[p], arg[p])
      BY <1>2 DEF ProfileRefuse, At, Settled
    <2> QED BY <1>2, <2>1, RefuseKin DEF ProfileRefuse
  <1>3. CASE UpdateProfile(p)
    <2> DEFINE v == loc[p].User
    <2>1. /\ pc[p] = "profile" /\ pc[p] \in AllRoutes /\ v # Nil
          /\ UNCHANGED <<users, sessions, issued, proved>>
          /\ Continue(p, [loc[p] EXCEPT !.u = v], "save")
      BY <1>3 DEF UpdateProfile, At, AllRoutes, store, history
    <2>2. arg[p].op = "profile"
      BY <2>1, WholeParts, LabelFacts DEF OnRoute, AllRoutes
    <2>3. v \in User /\ users[v.id] = v /\ (Steady => ProvedOwned(users, proved', {}))
      BY <2>1, RouteFacts
    <2> HIDE DEF v
    <2>4. Twin(v, v) /\ Same(v, v)
      BY TwinOn
    <2> QED BY <2>1, <2>2, <2>3, <2>4, GoSaveSame
  <1> QED BY <1>1, <1>2, <1>3 DEF ProfileStep

----------------------------------------------------------------------------
(* Linking.                                                                *)

\* A created user with its first identity, not confirmed.
LEMMA CreatedFacts ==
  ASSUME NEW id \in UserIds, NEW k \in Keys, NEW uid \in UIDs, NEW b \in BOOLEAN
  PROVE  LET t == SetUID(SetTemp(NewUser(id), b), k, uid)
             g == SetUID(SetGuest(NewUser(id), b), k, uid)
         IN  /\ t \in User /\ t.id = id /\ t.temp = b /\ ~t.guest
             /\ GetUID(t, k) = uid /\ \A j \in Keys \ {k} : t.auths[j] = ZeroIdentity
             /\ g \in User /\ g.id = id /\ g.guest = b /\ ~g.temp
             /\ GetUID(g, k) = uid /\ \A j \in Keys \ {k} : g.auths[j] = ZeroIdentity
             /\ ~Confirmed(t) /\ ~Confirmed(g)
  <1> DEFINE n == NewUser(id)
  <1>1. /\ n \in User /\ n.id = id /\ ~n.temp /\ ~n.guest
        /\ \A j \in Keys : n.auths[j] = ZeroIdentity
    BY NewUserFacts DEF NewUser
  <1> HIDE DEF n
  <1>2. ASSUME NEW f \in User, f.id = id, f.auths = n.auths
        PROVE  LET w == SetUID(f, k, uid)
               IN  /\ w \in User /\ w.id = id /\ w.temp = f.temp /\ w.guest = f.guest
                   /\ GetUID(w, k) = uid /\ \A j \in Keys \ {k} : w.auths[j] = ZeroIdentity
                   /\ ~Confirmed(w)
    <2> DEFINE w == SetUID(f, k, uid)
    <2>1. /\ w \in User /\ w.id = id /\ w.temp = f.temp /\ w.guest = f.guest
          /\ GetUID(w, k) = uid /\ \A j \in Keys \ {k} : w.auths[j] = f.auths[j]
      BY <1>2, SetUIDType, SetUIDAfresh
    <2>2. ~w.auths[k].confirmed
      BY DEF SetUID, User, ZeroIdentity
    <2>3. ~ZeroIdentity.confirmed
      BY DEF ZeroIdentity
    <2> HIDE DEF w
    <2>4. \A j \in Keys \ {k} : w.auths[j] = ZeroIdentity
      BY <1>1, <1>2, <2>1
    <2>5. ~Confirmed(w)
      BY <2>2, <2>3, <2>4 DEF Confirmed
    <2> QED BY <2>1, <2>4, <2>5 DEF w
  <1>3. /\ SetTemp(n, b) \in User /\ SetTemp(n, b).id = id /\ SetTemp(n, b).temp = b
        /\ ~SetTemp(n, b).guest /\ SetTemp(n, b).auths = n.auths
        /\ SetGuest(n, b) \in User /\ SetGuest(n, b).id = id /\ SetGuest(n, b).guest = b
        /\ ~SetGuest(n, b).temp /\ SetGuest(n, b).auths = n.auths
    BY <1>1, SetFlagType, FlagsSet
  <1> QED BY <1>2, <1>3 DEF n

\* What has the identities of a user that may be saved may be saved.
LEMMA FollowsOn ==
  ASSUME NEW us, NEW ss, NEW w, NEW u, Same(w, u), Follows(us, ss, u)
  PROVE  Follows(us, ss, w)
  BY DEF Follows, Replaces, Same, SameUIDs

\* A handler that is to save a new user.
LEMMA NewSaveKin ==
  ASSUME WholeInv, NEW p \in Procs, pc[p] \in AllRoutes, arg[p].op \notin {"link", "otpAuth"},
         NEW id \in FreeIds, NEW base, base.id = id, GuestOK(base), NEW u, Twin(u, base),
         Continue(p, [loc[p] EXCEPT !.u = u], "save"),
         UNCHANGED <<users, sessions, issued, proved>>
  PROVE  Kin(p)
  <1>1. users[id] = Nil /\ Unbound(sessions, id)
    BY FreeFacts DEF WholeInv
  <1>2. GuestOK(u)
    BY SameGuestOK
  <1>3. u.id = id
    BY DEF Twin, Same
  <1>4. Follows(users, sessions, u)
    BY <1>1, <1>3 DEF Follows
  <1>5. Steady => ProvedOwned(users, proved', {})
    BY RouteFacts
  <1> QED BY <1>2, <1>4, <1>5, GoSaveKin

\* What linking makes of the current user: it loses no identity.
LEMMA LinkedKeeps ==
  ASSUME NEW current \in User, NEW link \in User, NEW k \in Keys, GetUID(current, k) = Empty
  PROVE  LET u == LinkIdentity(current, link, k)
             m == MergeIdentities(current, link)
         IN  /\ u.id = current.id /\ u.guest = current.guest /\ u.temp = current.temp
             /\ GetUID(u, k) = GetUID(link, k)
             /\ \A j \in Keys \ {k} : u.auths[j] = current.auths[j]
             /\ \A j \in Keys : GetUID(current, j) # Empty => GetUID(u, j) = GetUID(current, j)
             /\ m.id = current.id /\ m.guest = current.guest /\ m.temp = current.temp
             /\ \A j \in Keys : GetUID(current, j) # Empty => GetUID(m, j) = GetUID(current, j)
  <1> DEFINE v == SetUID(current, k, GetUID(link, k))
             w == IF k \in PasswordKeys THEN SetPassword(v, k, link.auths[k].password) ELSE v
             u == SetConfirmed(w, k, link.auths[k].confirmed)
             m == MergeIdentities(current, link)
  <1>1. link.auths[k] \in Identity
    BY DEF User
  <1>2. /\ v \in User /\ v.id = current.id /\ v.temp = current.temp /\ v.guest = current.guest
        /\ GetUID(v, k) = GetUID(link, k)
        /\ \A j \in Keys \ {k} : v.auths[j] = current.auths[j]
    BY UserFacts, SetUIDType, SetUIDAfresh
  <1> HIDE DEF v
  <1>3. w \in User /\ Beside(w, v, k) /\ Same(w, v)
    <2>1. link.auths[k].password \in Passwords \cup Codes \cup {Empty}
      BY <1>1 DEF Identity
    <2>2. Beside(v, v, k) /\ Same(v, v)
      BY DEF Beside, Same, SameUIDs
    <2>3. Twin(SetPassword(v, k, link.auths[k].password), v)
      BY <1>2, SettersTwin
    <2> QED BY <1>2, <2>1, <2>2, <2>3, SetPasswordType, SettersBeside DEF Twin
  <1> HIDE DEF w
  <1>4. Beside(u, w, k) /\ Same(u, w)
    BY <1>3, SettersBeside, SettersTwin
  <1> HIDE DEF u
  <1>5. /\ u.id = current.id /\ u.temp = current.temp /\ u.guest = current.guest
        /\ GetUID(u, k) = GetUID(link, k)
        /\ \A j \in Keys \ {k} : u.auths[j] = current.auths[j]
    BY <1>2, <1>3, <1>4 DEF Beside, Same
  <1>6. \A j \in Keys : GetUID(current, j) # Empty => GetUID(u, j) = GetUID(current, j)
    BY <1>5 DEF GetUID
  <1>7. LinkIdentity(current, link, k) = u
    BY DEF LinkIdentity, u, w, v
  <1>8. /\ m.id = current.id /\ m.temp = current.temp /\ m.guest = current.guest
        /\ \A j \in Keys : GetUID(current, j) # Empty => GetUID(m, j) = GetUID(current, j)
    BY DEF MergeIdentities, User, Moves, GetUID
  <1> HIDE DEF m
  <1> QED BY <1>5, <1>6, <1>7, <1>8 DEF m

\* initLink: the user found, or a temporary one, is given a code.
LEMMA InitLinkKin ==
  ASSUME WholeInv, NEW p \in Procs, InitLinkPrepare(p)
  PROVE  Kin(p)
  <1> DEFINE k == arg[p].key
             uid == arg[p].uid
             f == Found(p)
             w(base, code) == IF base.auths[k].confirmed THEN base
                              ELSE StampCode(SetConfirmCode(base, k, code), k)
  <1>0. TypeOK
    BY WholeParts
  <1>1. /\ pc[p] = "initLink" /\ pc[p] \in AllRoutes /\ arg[p].op = "initLink"
        /\ UNCHANGED <<users, sessions, issued, proved>>
    BY <1>0, LabelFacts DEF InitLinkPrepare, At, OnRoute, AllRoutes, store, history
  <1>2. k \in Keys /\ uid \in UIDs
    BY <1>0, <1>1, KeyFacts
  <1>3. PICK base \in InitLinkUser(p), code \in Codes :
          Continue(p, [loc[p] EXCEPT !.u = w(base, code)], "save")
    BY DEF InitLinkPrepare
  <1>4. base \in User => Twin(w(base, code), base)
    <2> SUFFICES ASSUME base \in User PROVE Twin(w(base, code), base)
      OBVIOUS
    <2> DEFINE c == SetConfirmCode(base, k, code)
               z == StampCode(c, k)
    <2> HIDE DEF k
    <2>1. c \in User /\ Twin(c, base)
      BY <1>2, SetCodeType, SettersTwin
    <2> HIDE DEF c
    <2>2. Twin(z, c)
      BY <1>2, <2>1, SettersTwin
    <2> HIDE DEF z
    <2>3. Twin(z, base) /\ Twin(base, base)
      BY <2>1, <2>2, TwinOn
    <2> QED BY <2>3 DEF z, c
  <1> DEFINE u == w(base, code)
  <1>5. Continue(p, [loc[p] EXCEPT !.u = u], "save")
    BY <1>3
  <1> HIDE DEF w, u
  <1>6. CASE f # Nil
    <2>1. base = f
      BY <1>6 DEF InitLinkUser
    <2>2. f \in User /\ users[f.id] = f
      BY <1>1, <1>2, <1>6, FoundKin
    <2> HIDE DEF f
    <2> QED BY <1>1, <1>4, <1>5, <2>1, <2>2, TwinSaveKin DEF u
  <1>7. CASE f = Nil
    <2>1. PICK id \in FreeIds : base = TempUser(id, k, uid)
      BY <1>7 DEF InitLinkUser
    <2>2. id \in UserIds
      BY FreeFacts DEF WholeInv
    <2> DEFINE b == TRUE
    <2>3. base = SetUID(SetTemp(NewUser(id), b), k, uid) /\ b \in BOOLEAN
      BY <2>1 DEF TempUser
    <2> HIDE DEF k, uid, b
    <2>4. /\ base \in User /\ base.id = id /\ ~base.guest
          /\ \A j \in Keys \ {k} : base.auths[j] = ZeroIdentity
      BY <1>2, <2>2, <2>3, CreatedFacts
    <2>5. \A j \in Keys \ {k} : GetUID(base, j) = Empty
      BY <2>4 DEF GetUID, ZeroIdentity
    <2>6. GuestOK(base)
      BY <1>2, <2>4, <2>5 DEF GuestOK, Single
    <2> QED BY <1>1, <1>4, <1>5, <2>4, <2>6, NewSaveKin DEF u
  <1> QED BY <1>6, <1>7

\* link: the user found is confirmed, to be saved and then linked.
LEMMA LinkLoadKin ==
  ASSUME WholeInv, NEW p \in Procs, LinkLoad(p)
  PROVE  Kin(p)
  <1> DEFINE a == arg[p]
             l == loc[p]
             k == a.key
             f == Found(p)
             x == ClearStamp(f, k)
             v == IF f.auths[k].confirmed THEN f ELSE SetConfirmed(x, k, TRUE)
             u == IF Merging(p) THEN v ELSE SetPassword(v, k, a.secret)
             m == [l EXCEPT !.u = u]
  <1>0. TypeOK
    BY WholeParts
  <1>1. /\ pc[p] = "link" /\ pc[p] \in AllRoutes /\ a.op = "link" /\ f # Nil
        /\ UNCHANGED <<users, sessions, issued>>
        /\ Continue(p, m, "link.save")
        /\ proved' \subseteq proved \cup {Named(a)}
    BY <1>0, LabelFacts
       DEF LinkLoad, LinkAccepted, At, OnRoute, AllRoutes, store, Proves, Named
  <1>2. k \in Keys /\ k \in PasswordKeys /\ a.uid \in UIDs /\ a.secret \in Passwords
    BY <1>0, <1>1, KeyFacts DEF PasswordOps
  <1>3. /\ f \in User /\ users[f.id] = f /\ GetUID(f, k) = a.uid /\ GuestOK(f)
        /\ Owners(users, k, a.uid) \subseteq {f.id}
    BY <1>1, <1>2, FoundKin
  <1>4. ~f.guest
    BY <1>2, <1>3, GuestKeys, EmptyIsNoValue
  <1>5. Steady => ProvedOwned(users, proved', {})
    BY <1>1, <1>2, FoundProved
  <1>6. m.u = u /\ m.User = l.User /\ m.UserID = l.UserID /\ m.UserIsGuest = l.UserIsGuest
    BY <1>0, InHand
  <1>7. /\ StoreOK(users, sessions, {})
        /\ Steady => GuestsBound(users, sessions, issued, {}, {})
        /\ l.User # Nil => users[l.User.id] = l.User
    BY <1>1, RouteFacts
  <1> HIDE DEF m, f, k
  <1>8. x \in User /\ Twin(x, f)
    BY <1>2, <1>3, StampType, SettersTwin
  <1> HIDE DEF x
  <1>9. v \in User /\ Same(v, f) /\ v.temp = f.temp
    <2>1. /\ SetConfirmed(x, k, TRUE) \in User /\ Same(SetConfirmed(x, k, TRUE), x)
          /\ SetConfirmed(x, k, TRUE).temp = x.temp
      BY <1>2, <1>8, ConfirmKeeps
    <2>2. Same(SetConfirmed(x, k, TRUE), f) /\ SetConfirmed(x, k, TRUE).temp = f.temp
      BY <1>8, <2>1, TwinOn DEF Twin
    <2>3. Same(f, f)
      BY TwinOn
    <2> QED BY <1>3, <2>1, <2>2, <2>3
  <1> HIDE DEF v
  <1>10. Same(u, f) /\ u.temp = f.temp
    <2>1. Twin(SetPassword(v, k, a.secret), v)
      BY <1>2, <1>9, SettersTwin
    <2>2. Same(SetPassword(v, k, a.secret), f) /\ SetPassword(v, k, a.secret).temp = f.temp
      BY <1>9, <2>1, TwinOn DEF Twin
    <2> QED BY <1>9, <2>2
  <1> HIDE DEF u
  <1>11. u.id = f.id /\ u.guest = f.guest /\ SameUIDs(f, u) /\ GetUID(u, k) = a.uid
    BY <1>2, <1>3, <1>10 DEF Same, SameUIDs
  <1>12. GuestOK(u) /\ Follows(users, sessions, u)
    BY <1>3, <1>4, <1>10, <1>11, SameGuestOK, SameFollows
  <1>13. InHandOK("link.save", m, users, sessions)
    BY <1>6, <1>12 DEF InHandOK, Logins
  <1>14. /\ Logging("link.save", m) = {} /\ Adrift("link.save", a) = {}
         /\ Restored("link.save", a) = {} /\ "link.save" \in Onward /\ "link.save" \notin ToBind
    BY DEF Logging, Adrift, Restored, Onward, ToBind
  <1>15. LosesOK("link.save", a, m, users, sessions)
    BY DEF LosesOK, AllRoutes
  <1>16. LinksOK("link.save", a, m, users)
    BY <1>3, <1>6, <1>11 DEF LinksOK, k
  <1>17. Traced
    BY <1>1 DEF Traced
  <1> HIDE DEF a, l
  <1> QED BY <1>1, <1>5, <1>6, <1>7, <1>13, <1>14, <1>15, <1>16, <1>17, OnwardKin DEF a, l

\* Its Save: the user to be linked is stored as it is in hand.
LEMMA LinkSaveKin ==
  ASSUME WholeInv, NEW p \in Procs, LinkSave(p)
  PROVE  Kin(p)
  <1> DEFINE a == arg[p]
             l == loc[p]
             k == a.key
             u == l.u
  <1>0. /\ TypeOK /\ AloneOK(pc[p], a, l, users, sessions)
        /\ IdentitiesOK(pc[p], l, users, sessions)
        /\ Steady => SteadyOK(pc[p], a, l, users, sessions, issued, proved)
    BY WholeParts
  <1>1. /\ pc[p] = "link.save" /\ UNCHANGED <<sessions, issued, proved>>
        /\ \/ Save(u) /\ Continue(p, l, "linkAccount")
           \/ SaveFails(u) /\ Return(p)
    BY DEF LinkSave, At, history
  <1>2. /\ a.op = "link" /\ k \in Keys /\ u \in User /\ Settled(pc[p], a)
        /\ l.User \in User \cup {Nil}
    BY <1>0, <1>1, LabelFacts, KeyFacts, RequestFacts DEF OnRoute, HoldsUser, Settled
  <1>3. /\ StoreOK(users, sessions, {})
        /\ Steady => GuestsBound(users, sessions, issued, {}, {}) /\ ProvedOwned(users, proved, {})
    BY <1>2, SettledStore
  <1>4. GuestOK(u) /\ Follows(users, sessions, u) /\ SucceedsStored(users, u)
    BY <1>0, <1>1 DEF IdentitiesOK, InHandOK, AloneOK, HandOK, Pending
  <1>5. Steady => /\ GetUID(u, k) = a.uid
                  /\ Owners(users, k, a.uid) \subseteq {u.id}
                  /\ l.User # Nil /\ GetUID(l.User, k) = Empty => users[l.User.id] = l.User
    BY <1>0, <1>1 DEF SteadyOK, LinksOK, PresentOK
  <1>6. l.User # Nil /\ GetUID(l.User, k) = Empty => u.id # l.User.id
    BY <1>0, <1>1 DEF AloneOK, CurrentOK
  <1>7. CASE SaveFails(u) /\ Return(p)
    BY <1>1, <1>3, <1>7, ReturnKin DEF SaveFails, Traced
  <1>8. CASE Save(u) /\ Continue(p, l, "linkAccount")
    <2>1. /\ StoreOK(users', sessions', {})
          /\ Steady => /\ GuestsBound(users', sessions', issued', {}, {})
                       /\ ProvedOwned(users', proved', {})
          /\ Traced /\ users'[u.id] = u
          /\ \A i \in UserIds \ {u.id} : users'[i] = users[i]
      <3>1. users' = Put(users, u) /\ Procs # {} /\ \A x \in {} : GetUID(u, x[1]) = x[2]
        BY <1>8 DEF Save
      <3> HIDE DEF u
      <3> QED BY <1>1, <1>2, <1>3, <1>4, <3>1, SavedStore
    <2> HIDE DEF u, k
    <2>2. Follows(users', sessions', u)
      BY <1>2, <2>1, SameFollows, TwinOn
    <2>3. Steady /\ l.User # Nil /\ GetUID(l.User, k) = Empty => users'[l.User.id] = l.User
      BY <1>2, <1>5, <1>6, <2>1, UserFacts
    <2>4. Steady => Owners(users', k, a.uid) \subseteq {u.id}
      <3> SUFFICES ASSUME Steady, NEW i \in Owners(users', k, a.uid), i # u.id PROVE FALSE
        OBVIOUS
      <3>1. i \in UserIds /\ users'[i] # Nil
        BY DEF Owners, Stored
      <3>2. users'[i] = users[i]
        BY <2>1, <3>1
      <3>3. i \in Owners(users, k, a.uid)
        BY <3>1, <3>2 DEF Owners, Stored
      <3> QED BY <1>5, <3>3
    <2>5. InHandOK("linkAccount", l, users', sessions')
      BY <1>4, <2>2 DEF InHandOK, Logins, u
    <2>6. /\ Logging("linkAccount", l) = {} /\ Adrift("linkAccount", a) = {}
          /\ Restored("linkAccount", a) = {} /\ "linkAccount" \in Onward /\ "linkAccount" \notin ToBind
      BY <1>2 DEF Logging, Adrift, Restored, Onward, ToBind
    <2>7. LosesOK("linkAccount", a, l, users', sessions')
      BY DEF LosesOK, AllRoutes
    <2>8. SameUIDs(u, u)
      BY DEF SameUIDs
    <2>9. Steady => LinksOK("linkAccount", a, l, users')
      BY <1>2, <1>5, <2>1, <2>4, <2>8 DEF LinksOK, u, k
    <2>10. Steady /\ l.User # Nil /\ GetUID(l.User, a.key) = Empty => users'[l.User.id] = l.User
      BY <2>3 DEF k
    <2> HIDE DEF a, l
    <2> QED BY <1>1, <1>8, <2>1, <2>5, <2>6, <2>7, <2>9, <2>10, OnwardKin DEF a, l
  <1> QED BY <1>1, <1>7, <1>8

\* linkAccount: the user to be linked goes, and its identity is in hand.
LEMMA LinkRemoveKin ==
  ASSUME WholeInv, NEW p \in Procs, LinkAccountRemove(p)
  PROVE  Kin(p)
  <1> DEFINE a == arg[p]
             l == loc[p]
             k == a.key
             link == l.u
             current == l.User
             u == Linked(p)
             m == [l EXCEPT !.u = u]
             label == IF a.op = "social" THEN "social.save" ELSE "save"
  <1>0. /\ TypeOK /\ Storer(users) /\ proved \subseteq Keys \X UIDs
        /\ AloneOK(pc[p], a, l, users, sessions)
        /\ IdentitiesOK(pc[p], l, users, sessions)
        /\ Steady => SteadyOK(pc[p], a, l, users, sessions, issued, proved)
    BY WholeParts
  <1>1. /\ pc[p] = "linkAccount" /\ LinkPossible(p) /\ UNCHANGED <<sessions, issued, proved>>
        /\ users' = RemoveByID(users, link.id) /\ Continue(p, m, label)
    BY DEF LinkAccountRemove, At
  <1>2. a.op \in {"link", "otpAuth", "social"} /\ link \in User
    BY <1>0, <1>1, LabelFacts DEF OnRoute, HoldsUser
  <1>3. k \in Keys /\ a.uid \in UIDs
    BY <1>0, <1>1, <1>2, KeyFacts
  <1>4. /\ current \in User /\ GetUID(current, k) = Empty /\ Confirmed(current)
        /\ ~l.UserIsGuest /\ (Steady => link.temp)
    BY <1>0, <1>1, RequestFacts DEF LinkPossible, CanLink, Steady
  <1>5. Fresh(users, current) /\ link.id # current.id /\ ~current.temp
    BY <1>0, <1>1, <1>4, UserFacts DEF AloneOK, CurrentOK
  <1>6. ~current.guest
    BY <1>0, <1>4, UserFacts DEF IdentitiesOK, SessionUserOK, GuestOK
  <1>7. m.u = u /\ m.User = l.User /\ m.UserID = l.UserID /\ m.UserIsGuest = l.UserIsGuest
    BY <1>0, InHand
  <1>8. StoreOK(users, sessions, {})
    BY <1>0, <1>1 DEF IdentitiesOK, Logging
  <1>9. label \in {"save", "social.save"} /\ label \in Onward /\ label \notin ToBind
    BY DEF Onward, ToBind
  <1>10. /\ Logging(label, m) = {} /\ Adrift(label, a) = {} /\ Restored(label, a) = {Named(a)}
         /\ Restored(pc[p], a) \subseteq {Named(a)}
         /\ Userless(pc[p], a) = {} /\ Adrift(pc[p], a) = {}
    BY <1>1, <1>2 DEF Logging, Adrift, Restored, Userless
  <1>11. Steady => /\ GuestsBound(users, sessions, issued, {}, {})
                   /\ ProvedOwned(users, proved, {Named(a)})
    BY <1>0, <1>10, StoreOn DEF SteadyOK
  <1>12. Steady => /\ GetUID(link, k) = a.uid
                   /\ users[link.id] # Nil => SameUIDs(users[link.id], link)
                   /\ Owners(users, k, a.uid) \subseteq {link.id}
                   /\ users[current.id] = current
    BY <1>0, <1>1, <1>4, UserFacts DEF SteadyOK, LinksOK, PresentOK
  <1>13. GuestOK(link) /\ (link.temp => Unbound(sessions, link.id))
    BY <1>0, <1>1, <1>2, UserFacts DEF IdentitiesOK, InHandOK, Pending, AloneOK, HandOK
  <1> HIDE DEF m, label
  <1>14. /\ u.id = current.id /\ u.guest = current.guest /\ u.temp = current.temp
         /\ \A j \in Keys : GetUID(current, j) # Empty => GetUID(u, j) = GetUID(current, j)
         /\ link.temp => GetUID(u, k) = GetUID(link, k)
         /\ link.temp => \A j \in Keys \ {k} : u.auths[j] = current.auths[j]
    <2> DEFINE v == LinkIdentity(current, link, k)
               w == MergeIdentities(current, link)
    <2>1. u = IF link.temp THEN v ELSE w
      BY DEF Linked
    <2> HIDE DEF v, w, u
    <2>2. /\ v.id = current.id /\ v.guest = current.guest /\ v.temp = current.temp
          /\ GetUID(v, k) = GetUID(link, k)
          /\ \A j \in Keys \ {k} : v.auths[j] = current.auths[j]
          /\ \A j \in Keys : GetUID(current, j) # Empty => GetUID(v, j) = GetUID(current, j)
          /\ w.id = current.id /\ w.guest = current.guest /\ w.temp = current.temp
          /\ \A j \in Keys : GetUID(current, j) # Empty => GetUID(w, j) = GetUID(current, j)
      <3> HIDE DEF link, current, k
      <3> QED BY <1>2, <1>3, <1>4, LinkedKeeps DEF v, w
    <2> QED BY <2>1, <2>2
  <1> HIDE DEF u, k, link, current
  <1>15. GuestOK(u) /\ ~u.guest
    BY <1>5, <1>6, <1>14, PlainGuestOK
  <1>16. Fresh(users', current)
    BY <1>0, <1>1, <1>4, <1>5, StorerEffects
  <1>17. Follows(users', sessions', u)
    <2>1. ASSUME users'[u.id] # Nil PROVE Replaces(u, users'[u.id])
      <3>1. users'[u.id] = current
        BY <1>14, <1>16, <2>1 DEF Fresh
      <3>2. Replaces(u, current)
        BY <1>4, <1>14, <1>15 DEF Replaces
      <3> QED BY <3>1, <3>2
    <2> QED BY <1>15, <2>1 DEF Follows
  <1>18. InHandOK(label, m, users', sessions')
    BY <1>7, <1>9, <1>15, <1>17 DEF InHandOK, Logins
  <1>19. StoreOK(users', sessions', {})
    BY <1>0, <1>1, <1>8, RemoveIdentities
  <1>20. Steady => GuestsBound(users', sessions', issued, {}, {})
    <2>1. Steady => \A t \in Sessions : sessions[t] # link.id
      BY <1>4, <1>13 DEF Unbound
    <2> QED BY <1>0, <1>1, <1>11, <2>1, RemoveIdentities
  <1>21. Steady => ProvedOwned(users', proved', {Named(a)})
    <2> SUFFICES ASSUME Steady PROVE ProvedOwned(users', proved', {Named(a)})
      OBVIOUS
    <2>1. OnlyHas(link, Named(a))
      <3>1. OnlyHas(link, <<k, a.uid>>)
        BY <1>3, <1>4, <1>12, <1>13, SingleOnly
      <3> QED BY <3>1 DEF Named, k
    <2>2. users[link.id] # Nil => OnlyHas(users[link.id], Named(a))
      BY <1>12, <2>1 DEF SameUIDs, OnlyHas
    <2> DEFINE R == {Named(a)}
    <2>3. ProvedOwned(RemoveByID(users, link.id), proved, R \cup {Named(a)})
      <3>1. ProvedOwned(users, proved, R)
        BY <1>11
      <3> HIDE DEF R, a
      <3> QED BY <1>0, <2>2, <3>1, RemoveIdentities
    <2>4. R \cup {Named(a)} = {Named(a)}
      OBVIOUS
    <2> HIDE DEF R
    <2> QED BY <1>1, <2>3, <2>4
  <1>22. Steady => GetUID(u, k) = a.uid /\ Sole(users', u, {})
    <2> SUFFICES ASSUME Steady PROVE GetUID(u, k) = a.uid /\ Sole(users', u, {})
      OBVIOUS
    <2>1. GetUID(u, k) = a.uid /\ \A j \in Keys \ {k} : u.auths[j] = current.auths[j]
      BY <1>4, <1>12, <1>14
    <2>2. Owners(users', k, GetUID(u, k)) = {}
      BY <1>0, <1>1, <1>12, <2>1, StorerEffects
    <2>3. Unique(users')
      <3>1. Unique(users)
        BY DEF WholeInv, SeqInv, UniqueIdentities
      <3> QED BY <1>0, <1>1, <3>1, RemoveUnique
    <2>4. users'[current.id] = current
      BY <1>0, <1>1, <1>2, <1>4, <1>5, <1>12, UserFacts DEF RemoveByID, Storer
    <2> QED BY <1>3, <1>4, <1>14, <2>1, <2>2, <2>3, <2>4, NewIsSole
  <1>23. Steady => LinksOK(label, a, m, users')
    BY <1>7, <1>9, <1>22 DEF LinksOK, k
  <1>24. LosesOK(label, a, m, users', sessions')
    BY <1>4, <1>7, <1>9 DEF LosesOK
  <1>25. Traced
    BY <1>1 DEF Traced
  <1> HIDE DEF a, l
  <1> QED BY <1>1, <1>7, <1>9, <1>10, <1>18, <1>19, <1>20, <1>21, <1>23, <1>24, <1>25, OnwardKin
          DEF a, l

\* The middleware of the link routes: the request still has no user in hand.
LEMMA MiddlewareKin ==
  ASSUME WholeInv, NEW p \in Procs, MiddlewareUserID(p) \/ UserMiddleware(p)
  PROVE  Kin(p)
  <1> DEFINE a == arg[p]
             l == loc[p]
  <1>1. /\ pc[p] \in {"middleware", "middleware.load"}
        /\ UNCHANGED <<users, sessions, issued, proved>>
    BY DEF MiddlewareUserID, UserMiddleware, At, store, history
  <1>2. Settled(pc[p], a)
    BY <1>1 DEF Settled
  <1>3. Return(p) => Refuse(p)
    BY DEF MiddlewareUserID, UserMiddleware, Refuse, Return, Continue, Goto
  <1>4. Return(p) => Kin(p)
    BY <1>2, <1>3, RefuseKin
  <1>5. ASSUME NEW m, NEW label \in {"middleware.load", "getUserID"}, Continue(p, m, label),
               m.User = Nil, m.u = Nil, ~m.UserIsGuest
        PROVE  Kin(p)
    <2>1. /\ label \notin Pending /\ label \notin Logins /\ label \notin ToBind
          /\ label \notin AllRoutes
      BY DEF Pending, Logins, ToBind, AllRoutes
    <2>2. Logging(label, m) = {} /\ Userless(label, a) = {}
          /\ Adrift(label, a) = {} /\ Restored(label, a) = {}
      BY DEF Logging, Userless, Adrift, Restored
    <2>3. SessionUserOK(m) /\ InHandOK(label, m, users, sessions)
      BY <1>5, <2>1 DEF SessionUserOK, InHandOK
    <2>4. Steady => PresentOK(label, a, m, users, sessions, issued)
      <3>1. Steady /\ a.op \in SessionRoutes => a.s \in issued
        BY <1>1, WholeParts DEF SteadyOK, PresentOK
      <3> QED BY <1>5, <2>1, <3>1 DEF PresentOK, SessionRoutes
    <2>5. LosesOK(label, a, m, users, sessions) /\ LinksOK(label, a, m, users)
      BY <1>5 DEF LosesOK, LinksOK
    <2> QED BY <1>1, <1>2, <1>5, <2>2, <2>3, <2>4, <2>5, SettledStore, ContinueKin
            DEF Traced, SteadyOK
  <1>6. /\ l.User = Nil /\ l.u = Nil
        /\ l.UserIsGuest => l.User # Nil
        /\ l \in Locals
    BY <1>1, WholeParts, RequestFacts DEF AloneOK, CurrentOK, NoLoc, RequestOK
  <1>7. CASE MiddlewareUserID(p)
    <2> DEFINE m == [l EXCEPT !.UserID = sessions[a.s]]
    <2>1. Continue(p, m, "middleware.load")
      BY <1>7 DEF MiddlewareUserID
    <2>2. m.User = Nil /\ m.u = Nil /\ ~m.UserIsGuest
      BY <1>6 DEF Locals
    <2> HIDE DEF m
    <2> QED BY <1>5, <2>1, <2>2
  <1>8. CASE UserMiddleware(p)
    <2>1. Return(p) \/ Continue(p, NoLoc, "getUserID")
      BY <1>8 DEF UserMiddleware
    <2>2. NoLoc.User = Nil /\ NoLoc.u = Nil /\ ~NoLoc.UserIsGuest
      BY DEF NoLoc
    <2> QED BY <1>4, <1>5, <2>1, <2>2
  <1> QED BY <1>7, <1>8

\* initLink, link and linkAccount.
LEMMA LinkKin ==
  ASSUME WholeInv, NEW p \in Procs, LinkStep(p)
  PROVE  Kin(p)
  <1> DEFINE a == arg[p]
             l == loc[p]
  <1>1. CASE InitLinkBegin(p) \/ LinkBegin(p)
    <2>1. CASE InitLinkBegin(p)
      BY <2>1, BeginKin DEF InitLinkBegin, BeginLinkRoute, NoArg, FirstLabels
    <2>2. CASE LinkBegin(p)
      BY <2>2, BeginKin DEF LinkBegin, BeginLinkRoute, FirstLabels
    <2> QED BY <1>1, <2>1, <2>2
  <1>2. CASE InitLinkRefuse(p) \/ LinkRefuse(p)
    <2>1. pc[p] \in {"initLink", "link"} /\ Refuse(p)
      BY <1>2 DEF InitLinkRefuse, LinkRefuse, At
    <2>2. Settled(pc[p], arg[p])
      BY <2>1 DEF Settled
    <2> QED BY <2>1, <2>2, RefuseKin
  \* A temporary user that is not stored is not refused.
  <1>3. CASE LinkAccountRefuse(p)
    <2>1. pc[p] = "linkAccount" /\ (LinkPossible(p) => ~l.u.temp) /\ Refuse(p)
      BY <1>3 DEF LinkAccountRefuse, At
    <2>2. CASE a.op # "social"
      <3>1. Settled(pc[p], a)
        BY <2>1, <2>2 DEF Settled
      <3> QED BY <2>1, <3>1, RefuseKin
    <2>3. CASE a.op = "social"
      <3>1. a.uid \in UIDs
        BY <2>1, <2>3, WholeParts, KeyFacts
      <3>2. ~Steady
        <4> SUFFICES ASSUME Steady PROVE FALSE
          OBVIOUS
        <4>1. LinksOK(pc[p], a, l, users)
          BY WholeParts DEF SteadyOK
        <4>2. GetUID(l.u, a.key) = a.uid /\ CanLink(l.User, a.key) /\ ~l.UserIsGuest /\ l.u.temp
          BY <2>1, <2>3, <4>1 DEF LinksOK
        <4> QED BY <2>1, <3>1, <4>2, EmptyIsNoValue DEF LinkPossible
      <3>3. StoreOK(users, sessions, {})
        BY <2>1, WholeParts DEF IdentitiesOK, Logging
      <3> QED BY <2>1, <3>2, <3>3, ReturnKin DEF Refuse, Traced, store
    <2> QED BY <2>2, <2>3
  <1>4. CASE MiddlewareUserID(p) \/ UserMiddleware(p)
    BY <1>4, MiddlewareKin
  <1> QED BY <1>1, <1>2, <1>3, <1>4, InitLinkKin, LinkLoadKin, LinkSaveKin, LinkRemoveKin
          DEF LinkStep

----------------------------------------------------------------------------
(* One-time passwords.                                                     *)

\* otpCode: the user found, a temporary one or a guest is given a code.
LEMMA OTPCodeKin ==
  ASSUME WholeInv, NEW p \in Procs, OTPCodePrepare(p)
  PROVE  Kin(p)
  <1> DEFINE k == arg[p].key
             uid == arg[p].uid
             f == Found(p)
             w(base, code) == SetOTP(StampCode(base, k), k, code)
  <1>0. TypeOK
    BY WholeParts
  <1>1. /\ pc[p] = "otpCode" /\ pc[p] \in AllRoutes /\ arg[p].op = "otpCode"
        /\ UNCHANGED <<users, sessions, issued, proved>>
    BY <1>0, LabelFacts DEF OTPCodePrepare, At, OnRoute, AllRoutes, store, history
  <1>2. k \in Keys /\ k \in OTPKeys /\ uid \in UIDs
    BY <1>0, <1>1, KeyFacts
  <1>3. PICK base \in OTPCodeUser(p), code \in Codes :
          Continue(p, [loc[p] EXCEPT !.u = w(base, code)], "save")
    BY DEF OTPCodePrepare
  <1>4. base \in User => Twin(w(base, code), base)
    <2> SUFFICES ASSUME base \in User PROVE Twin(w(base, code), base)
      OBVIOUS
    <2> DEFINE c == StampCode(base, k)
               z == SetOTP(c, k, code)
    <2> HIDE DEF k
    <2>1. c \in User /\ Twin(c, base)
      BY <1>2, StampType, SettersTwin
    <2> HIDE DEF c
    <2>2. Twin(z, c)
      BY <1>2, <2>1, SettersTwin
    <2> HIDE DEF z
    <2>3. Twin(z, base)
      BY <2>1, <2>2, TwinOn
    <2> QED BY <2>3 DEF z, c
  <1> DEFINE u == w(base, code)
  <1>5. Continue(p, [loc[p] EXCEPT !.u = u], "save")
    BY <1>3
  <1> HIDE DEF w, u
  <1>6. ASSUME f # Nil
        PROVE  f \in User /\ users[f.id] = f /\ GuestOK(f)
    BY <1>1, <1>2, <1>6, FoundKin
  <1>7. CASE f # Nil /\ SignedIn(p)
    <2>1. base = f
      BY <1>7 DEF OTPCodeUser
    <2> HIDE DEF f
    <2> QED BY <1>1, <1>4, <1>5, <1>6, <1>7, <2>1, TwinSaveKin DEF u
  <1>8. CASE f # Nil /\ ~SignedIn(p)
    <2> DEFINE b == FALSE
    <2>1. base = SetTemp(f, b) /\ b \in BOOLEAN
      BY <1>8 DEF OTPCodeUser
    <2> HIDE DEF f, b
    <2>2. /\ base \in User /\ base.temp = b /\ base.guest = f.guest
          /\ base.id = f.id /\ base.auths = f.auths
      BY <1>6, <1>8, <2>1, SetFlagType, FlagsSet
    <2>3. Same(base, f)
      BY <2>2 DEF Same, SameUIDs, GetUID
    <2>4. Twin(u, base)
      BY <1>4, <2>2 DEF u
    <2>5. CASE f.guest
      <3>1. f.temp = b
        BY <1>6, <1>8, <2>5 DEF GuestOK, b, User
      <3>2. Twin(base, f)
        BY <2>2, <2>3, <3>1 DEF Twin
      <3>3. Twin(u, f)
        BY <2>4, <3>2, TwinOn
      <3> QED BY <1>1, <1>5, <1>6, <1>8, <3>3, TwinSaveKin
    <2>6. CASE ~f.guest
      <3>1. Same(u, f) /\ ~u.guest
        BY <2>3, <2>4, <2>6, TwinOn DEF Same
      <3>2. u.temp => f.temp
        BY <2>2, <2>4 DEF Twin, b
      <3>3. Steady => ProvedOwned(users, proved', {})
        BY <1>1, RouteFacts
      <3> QED BY <1>1, <1>5, <1>6, <1>8, <3>1, <3>2, <3>3, GoSaveSame
    <2> QED BY <2>5, <2>6
  <1>9. CASE f = Nil /\ SignedIn(p)
    <2>1. PICK id \in FreeIds : base = TempUser(id, k, uid)
      BY <1>9 DEF OTPCodeUser
    <2>2. id \in UserIds
      BY FreeFacts DEF WholeInv
    <2> DEFINE b == TRUE
    <2>3. base = SetUID(SetTemp(NewUser(id), b), k, uid) /\ b \in BOOLEAN
      BY <2>1 DEF TempUser
    <2> HIDE DEF k, uid, b
    <2>4. /\ base \in User /\ base.id = id /\ ~base.guest
          /\ \A j \in Keys \ {k} : base.auths[j] = ZeroIdentity
      BY <1>2, <2>2, <2>3, CreatedFacts
    <2>5. \A j \in Keys \ {k} : GetUID(base, j) = Empty
      BY <2>4 DEF GetUID, ZeroIdentity
    <2>6. GuestOK(base)
      BY <1>2, <2>4, <2>5 DEF GuestOK, Single
    <2> QED BY <1>1, <1>4, <1>5, <2>4, <2>6, NewSaveKin DEF u
  <1>10. CASE f = Nil /\ ~SignedIn(p)
    <2>1. PICK id \in FreeIds : base = SetUID(SetGuest(NewUser(id), GuestUser), k, uid)
      BY <1>10 DEF OTPCodeUser
    <2>2. id \in UserIds /\ GuestUser \in BOOLEAN
      BY FreeFacts, FlagsAreBooleans DEF WholeInv
    <2> HIDE DEF k, uid
    <2>4. /\ base \in User /\ base.id = id /\ base.guest = GuestUser /\ ~base.temp
          /\ \A j \in Keys \ {k} : base.auths[j] = ZeroIdentity
          /\ ~Confirmed(base)
      BY <1>2, <2>1, <2>2, CreatedFacts
    <2>5. \A j \in Keys \ {k} : GetUID(base, j) = Empty
      BY <2>4 DEF GetUID, ZeroIdentity
    <2>6. GuestOK(base)
      BY <1>2, <2>4, <2>5, KindsDisjoint DEF GuestOK, Single
    <2> QED BY <1>1, <1>4, <1>5, <2>4, <2>6, NewSaveKin DEF u
  <1> QED BY <1>7, <1>8, <1>9, <1>10

\* otpAuth: the code is entered, by a guest that registers, to log in or to link.
LEMMA OTPAuthKin ==
  ASSUME WholeInv, NEW p \in Procs,
         OTPAuthJoinGuest(p) \/ OTPAuthReplaceGuest(p) \/ OTPAuthLogin(p) \/ OTPAuthLink(p)
  PROVE  Kin(p)
  <1> DEFINE a == arg[p]
             l == loc[p]
             k == a.key
             uid == a.uid
             f == Found(p)
             user == l.User
             r == ClearStamp(f, k)
             e == SetConfirmed(r, k, TRUE)
  <1>0. /\ TypeOK
        /\ Steady => SteadyOK(pc[p], a, l, users, sessions, issued, proved)
    BY WholeParts
  <1>1. /\ pc[p] = "otpAuth" /\ pc[p] \in AllRoutes /\ pc[p] \in SessionRoutes
        /\ OTPAccepted(p) /\ f # Nil
        /\ UNCHANGED <<users, sessions, issued>>
        /\ proved' \subseteq proved \cup {Named(a)}
    BY DEF OTPAuthJoinGuest, OTPAuthReplaceGuest, OTPAuthLogin, OTPAuthLink, OTPAccepted,
           At, AllRoutes, SessionRoutes, store, Proves, Named
  <1>2. a.op = "otpAuth" /\ k \in Keys /\ uid \in UIDs
    BY <1>0, <1>1, LabelFacts, KeyFacts DEF OnRoute, AllRoutes
  <1>3. /\ f \in User /\ users[f.id] = f /\ f.id \in Stored(users) /\ f # Nil
        /\ GetUID(f, k) = uid /\ Owners(users, k, uid) \subseteq {f.id}
        /\ GuestOK(f) /\ (f.guest => OnlyHas(f, Named(a)))
    BY <1>1, <1>2, FoundKin
  <1>4. /\ StoreOK(users, sessions, {})
        /\ Steady => GuestsBound(users, sessions, issued, {}, {})
    BY <1>1, RouteFacts
  <1>5. Steady => ProvedOwned(users, proved', {})
    BY <1>1, <1>2, FoundProved
  <1>6. /\ user # Nil => user \in User /\ users[user.id] = user /\ user.id = l.UserID /\ ~user.temp
        /\ l.UserIsGuest => user # Nil /\ user.guest
        /\ Steady /\ GuestUser => user # Nil
        /\ Steady /\ l.UserIsGuest /\ users[l.UserID] # Nil => ~Holds(users[l.UserID])
        /\ SessionUserOK(l)
    BY <1>1, RouteFacts
  <1>7. Steady /\ l.UserIsGuest => \A t \in Sessions : sessions[t] = l.UserID => t = a.s
    BY <1>0 DEF SteadyOK, PresentOK
  <1>8. Traced
    BY <1>1 DEF Traced
  <1> HIDE DEF f, k, uid
  <1>9. e \in User /\ Same(e, f) /\ e.temp = f.temp /\ Confirmed(e)
    <2>1. r \in User /\ Twin(r, f)
      BY <1>2, <1>3, StampType, SettersTwin
    <2> HIDE DEF r
    <2>2. e \in User /\ Same(e, r) /\ e.temp = r.temp /\ Confirmed(e)
      BY <1>2, <2>1, ConfirmKeeps
    <2> HIDE DEF e
    <2> QED BY <2>1, <2>2, TwinOn DEF Twin
  <1> HIDE DEF e
  <1>10. /\ Follows(users, sessions, e) /\ e.id = f.id /\ e.guest = f.guest
         /\ GetUID(e, k) = uid /\ SameUIDs(f, e)
         /\ (Steady => ~e.guest) => GuestOK(e)
    BY <1>2, <1>3, <1>9, SameGuestOK, SameFollows DEF Same, SameUIDs
  <1>11. f.guest => f.id \in Guests(users)
    BY <1>3 DEF Guests
  <1>12. f.id \in Guests(users) => f.guest
    BY <1>3 DEF Guests
  <1>13. CASE OTPAuthLink(p)
    <2> DEFINE m == [l EXCEPT !.u = e]
    <2>1. Continue(p, m, "linkAccount") /\ SignedIn(p)
      BY <1>13 DEF OTPAuthLink, Entered, e, r, f, k
    <2>2. m.u = e /\ m.User = l.User /\ m.UserID = l.UserID /\ m.UserIsGuest = l.UserIsGuest
      BY <1>0, InHand
    <2> HIDE DEF m
    <2>3. Steady => ~e.guest
      <3>1. Steady => f.temp
        BY <1>1, <2>1 DEF OTPAccepted, Steady, f
      <3> QED BY <1>3, <1>10, <3>1 DEF GuestOK
    <2>4. InHandOK("linkAccount", m, users, sessions)
      BY <1>10, <2>2, <2>3 DEF InHandOK, Logins
    <2>5. /\ Logging("linkAccount", m) = {} /\ Adrift("linkAccount", a) = {}
          /\ Restored("linkAccount", a) = {} /\ "linkAccount" \in Onward /\ "linkAccount" \notin ToBind
      BY <1>2 DEF Logging, Adrift, Restored, Onward, ToBind
    <2>6. LosesOK("linkAccount", a, m, users, sessions)
      BY DEF LosesOK, AllRoutes
    <2>7. LinksOK("linkAccount", a, m, users)
      BY <1>2, <1>3, <1>10, <2>2 DEF LinksOK, k, uid
    <2> HIDE DEF a, l
    <2> QED BY <1>1, <1>4, <1>5, <1>6, <1>8, <2>1, <2>2, <2>4, <2>5, <2>6, <2>7, OnwardKin DEF a, l, user
  <1>14. CASE OTPAuthLogin(p)
    <2> DEFINE m == [l EXCEPT !.u = e]
    <2>1. Continue(p, m, "otpAuth.bind") /\ ~SignedIn(p) /\ ~l.UserIsGuest
      BY <1>14 DEF OTPAuthLogin, Entered, e, r, f, k
    <2>2. m.u = e /\ m.User = l.User /\ m.UserID = l.UserID /\ m.UserIsGuest = l.UserIsGuest
      BY <1>0, InHand
    <2> HIDE DEF m
    <2>3. Steady => ~f.guest
      BY <1>3, <1>6, <2>1 DEF SignedIn, GuestOK
    <2>4. InHandOK("otpAuth.bind", m, users, sessions)
      BY <1>3, <1>9, <1>10, <2>2, <2>3 DEF InHandOK, Logins
    <2>5. /\ Logging("otpAuth.bind", m) = {} /\ {} \subseteq Adrift("otpAuth.bind", a)
          /\ {} \subseteq Restored("otpAuth.bind", a) /\ "otpAuth.bind" \in Onward
      BY DEF Logging, Onward
    <2>6. LosesOK("otpAuth.bind", a, m, users, sessions) /\ LinksOK("otpAuth.bind", a, m, users)
      BY DEF LosesOK, LinksOK, AllRoutes
    <2>7. Steady => /\ GuestsBound(users, sessions, issued, {}, Adrift("otpAuth.bind", a))
                    /\ ProvedOwned(users, proved', Restored("otpAuth.bind", a))
      BY <1>4, <1>5, <2>5, StoreOn
    <2>8. users[m.u.id] # Nil /\ (Steady => m.u.id \notin Guests(users))
      BY <1>3, <1>10, <1>12, <2>2, <2>3
    <2> HIDE DEF a, l
    <2> QED BY <1>1, <1>4, <1>8, <2>1, <2>2, <2>4, <2>5, <2>6, <2>7, <2>8, OnwardKin DEF a, l
  \* Before the login a user is removed.
  <1>15. ASSUME NEW u, GuestOK(u), Follows(users, sessions, u), ~u.guest, Confirmed(u),
                users[u.id] # Nil, NEW id,
                Continue(p, [l EXCEPT !.u = u, !.removeUserID = id], "otpAuth.remove"),
                Steady => /\ u.id \in Guests(users)
                               => \A t \in Sessions : sessions[t] = u.id => t = a.s
                          /\ users[id] # Nil => OnlyHas(users[id], Named(a))
                          /\ id # u.id
                          /\ \A t \in Sessions : sessions[t] = id => t = a.s
         PROVE  Kin(p)
    <2> DEFINE m == [l EXCEPT !.u = u, !.removeUserID = id]
    <2>1. /\ m.u = u /\ m.User = l.User /\ m.UserID = l.UserID /\ m.UserIsGuest = l.UserIsGuest
          /\ m.removeUserID = id
      BY <1>0, InHand
    <2>2. Continue(p, m, "otpAuth.remove")
      BY <1>15
    <2> HIDE DEF m
    <2>3. InHandOK("otpAuth.remove", m, users, sessions)
      BY <1>15, <2>1 DEF InHandOK
    <2>4. /\ Logging("otpAuth.remove", m) = {} /\ Adrift("otpAuth.remove", a) = {}
          /\ Restored("otpAuth.remove", a) = {} /\ "otpAuth.remove" \in Onward
      BY DEF Logging, Adrift, Restored, Onward
    <2>5. Steady => LosesOK("otpAuth.remove", a, m, users, sessions)
      BY <1>15, <2>1 DEF LosesOK, AllRoutes
    <2>6. LinksOK("otpAuth.remove", a, m, users)
      BY DEF LinksOK
    <2> HIDE DEF a, l
    <2> QED BY <1>1, <1>4, <1>5, <1>8, <1>15, <2>1, <2>2, <2>3, <2>4, <2>5, <2>6, OnwardKin DEF a, l
  <1>16. CASE OTPAuthReplaceGuest(p)
    <2>1. /\ Continue(p, [l EXCEPT !.u = e, !.removeUserID = l.UserID], "otpAuth.remove")
          /\ l.UserIsGuest /\ ~f.guest
      BY <1>16 DEF OTPAuthReplaceGuest, Entered, e, r, f, k
    <2>2. f.id # l.UserID
      BY <1>1, <1>3, <2>1, NotTheGuest
    <2>3. Steady /\ users[l.UserID] # Nil => OnlyHas(users[l.UserID], Named(a))
      BY <1>6, <2>1 DEF Holds, OnlyHas
    <2> HIDE DEF a, l
    <2> QED BY <1>3, <1>7, <1>9, <1>10, <1>12, <1>15, <2>1, <2>2, <2>3
  <1>17. CASE OTPAuthJoinGuest(p)
    <2> DEFINE n == SetUID(user, k, uid)
               b == FALSE
               g == SetGuest(n, b)
               u == SetConfirmed(g, k, TRUE)
    <2>1. /\ Continue(p, [l EXCEPT !.u = u, !.removeUserID = f.id], "otpAuth.remove")
          /\ l.UserIsGuest /\ f.guest
      BY <1>17 DEF OTPAuthJoinGuest, f, k, uid
    <2>2. /\ user \in User /\ users[user.id] = user /\ user.id = l.UserID /\ ~user.temp
          /\ user.guest /\ b \in BOOLEAN
      BY <1>6, <2>1
    <2>3. /\ Holds(user) => Confirmed(user)
          /\ Steady => ~Holds(user)
          /\ user # Nil
      BY <1>6, <2>1, <2>2, UserFacts DEF SessionUserOK
    <2> HIDE DEF user, a, l, b
    <2>4. /\ n \in User /\ n.id = user.id /\ n.temp = user.temp
      BY <1>2, <2>2, SetUIDType, SetUIDAfresh
    <2> HIDE DEF n
    <2>5. g \in User /\ g.id = n.id /\ g.temp = n.temp /\ g.guest = b
      BY <2>2, <2>4, SetFlagType, FlagsSet
    <2> HIDE DEF g
    <2>6. Same(u, g) /\ u.temp = g.temp /\ Confirmed(u)
      BY <1>2, <2>5, ConfirmKeeps
    <2> HIDE DEF u
    <2>7. u.id = user.id /\ ~u.temp /\ ~u.guest /\ Confirmed(u)
      BY <2>2, <2>4, <2>5, <2>6 DEF Same, b
    <2>8. GuestOK(u)
      BY <2>7, PlainGuestOK
    <2>9. Follows(users, sessions, u)
      <3>1. Replaces(u, user)
        BY <2>3, <2>7 DEF Replaces, Holds
      <3> QED BY <2>2, <2>7, <3>1 DEF Follows
    <2>10. Holds(f)
      BY <1>2, <1>3, EmptyIsNoValue DEF Holds
    <2>11. Steady => f.id # u.id /\ \A t \in Sessions : sessions[t] # f.id
      <3>1. Steady => f # user
        BY <2>3, <2>10
      <3>2. Steady => ~Confirmed(f)
        BY <1>3, <2>1 DEF GuestOK
      <3>3. \A t \in Sessions : sessions[t] = f.id => Confirmed(f)
        BY <1>3, <1>4, <1>11, <2>1, <2>10 DEF StoreOK
      <3> QED BY <1>3, <2>2, <2>7, <3>1, <3>2, <3>3
    <2> QED BY <1>3, <1>7, <1>15, <2>1, <2>2, <2>3, <2>7, <2>8, <2>9, <2>11
  <1> QED BY <1>13, <1>14, <1>16, <1>17

\* The guest of the login goes.
LEMMA OTPRemoveKin ==
  ASSUME WholeInv, NEW p \in Procs, OTPAuthRemove(p)
  PROVE  Kin(p)
  <1> DEFINE a == arg[p]
             l == loc[p]
             u == l.u
             id == l.removeUserID
             s == a.s
             R == Restored("otpAuth.bind", a)
  <1>0. /\ TypeOK /\ Storer(users) /\ proved \subseteq Keys \X UIDs
        /\ AloneOK(pc[p], a, l, users, sessions)
        /\ IdentitiesOK(pc[p], l, users, sessions)
        /\ Steady => SteadyOK(pc[p], a, l, users, sessions, issued, proved)
    BY WholeParts
  <1>1. /\ pc[p] = "otpAuth.remove" /\ users' = RemoveByID(users, id)
        /\ Continue(p, l, "otpAuth.bind") /\ UNCHANGED <<sessions, issued, proved>>
    BY DEF OTPAuthRemove, At, history
  <1>2. u \in User /\ u.id \in UserIds /\ Settled(pc[p], a)
    BY <1>0, <1>1, LabelFacts, UserFacts DEF HoldsUser, Settled
  <1>3. /\ StoreOK(users, sessions, {})
        /\ Steady => GuestsBound(users, sessions, issued, {}, {}) /\ ProvedOwned(users, proved, {})
    BY <1>2, SettledStore
  <1>4. GuestOK(u) /\ Follows(users, sessions, u) /\ Confirmed(u) /\ ~u.guest
    BY <1>0, <1>1 DEF IdentitiesOK, InHandOK, Pending, Logins
  <1>5. Steady => /\ users[u.id] # Nil
                  /\ u.id \in Guests(users) => \A t \in Sessions : sessions[t] = u.id => t = s
                  /\ id \in UserIds /\ users[id] # Nil => OnlyHas(users[id], Named(a))
                  /\ id # u.id
                  /\ \A t \in Sessions : sessions[t] = id => t \in {s}
    BY <1>0, <1>1 DEF SteadyOK, PresentOK, LosesOK, ToBind
  <1>6. /\ Logging("otpAuth.bind", l) = {} /\ Adrift("otpAuth.bind", a) = {s}
        /\ R = {} \cup {Named(a)} /\ "otpAuth.bind" \in Onward
    BY DEF Logging, Adrift, Restored, Onward
  <1> HIDE DEF u, id, s, R, a
  <1>7. users'[u.id] \in {users[u.id], Nil} /\ (id # u.id => users'[u.id] = users[u.id])
    BY <1>0, <1>1, <1>2 DEF RemoveByID, Storer
  <1>8. Follows(users', sessions', u)
    BY <1>1, <1>4, <1>7 DEF Follows
  <1>9. InHandOK("otpAuth.bind", l, users', sessions')
    BY <1>4, <1>8 DEF InHandOK, u
  <1>10. StoreOK(users', sessions', {})
    BY <1>0, <1>1, <1>3, RemoveIdentities
  <1>11. Steady => GuestsBound(users', sessions', issued, {}, {s})
    BY <1>0, <1>1, <1>3, <1>5, RemoveIdentities
  <1>12. Steady => ProvedOwned(users', proved', R)
    <2>1. Steady => ProvedOwned(RemoveByID(users, id), proved, {} \cup {Named(a)})
      BY <1>0, <1>3, <1>5, RemoveIdentities
    <2> QED BY <1>1, <1>6, <2>1
  <1>13. Steady => /\ users'[l.u.id] # Nil
                   /\ l.u.id \in Guests(users') => \A t \in Sessions : sessions'[t] = l.u.id => t = s
    BY <1>1, <1>2, <1>5, <1>7, UserFacts DEF Guests, Stored, u
  <1>14. LosesOK("otpAuth.bind", a, l, users', sessions') /\ LinksOK("otpAuth.bind", a, l, users')
    BY DEF LosesOK, LinksOK, AllRoutes
  <1>15. Traced
    BY <1>1 DEF Traced
  <1> HIDE DEF l
  <1> QED BY <1>1, <1>6, <1>9, <1>10, <1>11, <1>12, <1>13, <1>14, <1>15, OnwardKin DEF a, l, s, R

\* The session is bound to the user that logs in.
LEMMA OTPBindKin ==
  ASSUME WholeInv, NEW p \in Procs, OTPAuthBind(p)
  PROVE  Kin(p)
  <1> DEFINE a == arg[p]
             l == loc[p]
             u == l.u
             id == u.id
             s == a.s
             R == {Named(a)}
  <1>0. /\ TypeOK /\ sessions \in [Sessions -> UserIds \cup {Nil}]
        /\ IdentitiesOK(pc[p], l, users, sessions)
        /\ Steady => SteadyOK(pc[p], a, l, users, sessions, issued, proved)
    BY WholeParts
  <1>1. /\ pc[p] = "otpAuth.bind" /\ sessions' = [sessions EXCEPT ![s] = id]
        /\ Continue(p, l, "otpAuth.save") /\ UNCHANGED <<users, issued, proved>>
    BY DEF OTPAuthBind, At
  <1>2. u \in User /\ id \in UserIds /\ id # Nil /\ s \in Sessions
    <2>1. u \in User
      BY <1>0, <1>1, LabelFacts DEF HoldsUser
    <2>2. id \in UserIds /\ id # Nil
      BY <2>1, UserFacts, NilIsNoValue
    <2>3. s \in Sessions
      BY <1>0, <1>1, LabelFacts DEF OnRoute, ArgOK
    <2> QED BY <2>1, <2>2, <2>3
  <1>3. /\ GuestOK(u) /\ Follows(users, sessions, u) /\ Confirmed(u)
        /\ (u.guest => users[id] # Nil)
    BY <1>0, <1>1 DEF IdentitiesOK, InHandOK, Pending, Logins
  <1>4. StoreOK(users, sessions, {}) /\ Logging("otpAuth.save", l) = {id}
    BY <1>0, <1>1 DEF IdentitiesOK, Logging
  <1>5. /\ Userless("otpAuth.bind", a) = {} /\ Adrift("otpAuth.bind", a) = {s}
        /\ Restored("otpAuth.bind", a) = R
        /\ Adrift("otpAuth.save", a) = {} /\ Restored("otpAuth.save", a) = R
        /\ "otpAuth.save" \in Onward /\ "otpAuth.save" \notin ToBind
    BY DEF Userless, Adrift, Restored, Onward, ToBind
  <1>6. Steady => /\ GuestsBound(users, sessions, issued, {}, {s})
                  /\ ProvedOwned(users, proved, R)
                  /\ id \in Stored(users)
                  /\ id \in Guests(users) => \A t \in Sessions : sessions[t] = id => t = s
    BY <1>0, <1>1, <1>2, <1>5 DEF SteadyOK, PresentOK, ToBind, Stored
  <1> HIDE DEF id, s, R, a
  <1>7. StoreOK(users', sessions', {id})
    BY <1>0, <1>1, <1>4, BindStore
  <1>8. Steady => GuestsBound(users', sessions', issued, {}, {})
    <2> SUFFICES ASSUME Steady PROVE GuestsBound(users', sessions', issued, {}, {})
      OBVIOUS
    <2>1. GuestsBound(users, sessions, issued, {s}, {s})
      BY <1>6, StoreOn
    <2>2. GuestsBound(users, sessions', issued, {}, {})
      BY <1>0, <1>1, <1>2, <1>6, <2>1, BindBound
    <2> QED BY <1>1, <2>2
  <1>9. Follows(users', sessions', u)
    BY <1>1, <1>3 DEF Follows, id
  <1>10. InHandOK("otpAuth.save", l, users', sessions')
    BY <1>3, <1>9 DEF InHandOK
  <1>11. LosesOK("otpAuth.save", a, l, users', sessions') /\ LinksOK("otpAuth.save", a, l, users')
    BY DEF LosesOK, LinksOK, AllRoutes
  <1>12. Traced /\ \A t \in Sessions : t # s => sessions'[t] = sessions[t]
    BY <1>0, <1>1 DEF Traced
  <1> HIDE DEF l
  <1> QED BY <1>1, <1>4, <1>5, <1>6, <1>7, <1>8, <1>10, <1>11, <1>12, OnwardKin DEF a, l, s

\* Save after the login: the user is stored, confirmed.
LEMMA OTPSaveKin ==
  ASSUME WholeInv, ~SaveMayFail, NEW p \in Procs, OTPAuthSave(p)
  PROVE  Kin(p)
  <1> DEFINE a == arg[p]
             l == loc[p]
             u == l.u
             k == a.key
             w == SetOTP(u, k, Empty)
             R == {Named(a)}
             L == {u.id}
  <1>0. /\ TypeOK /\ Storer(users) /\ proved \subseteq Keys \X UIDs
        /\ AloneOK(pc[p], a, l, users, sessions)
        /\ LoginOnce(pc[p], a, l, users, spent)
        /\ IdentitiesOK(pc[p], l, users, sessions)
        /\ Steady => SteadyOK(pc[p], a, l, users, sessions, issued, proved)
    BY WholeParts
  <1>1. /\ pc[p] = "otpAuth.save" /\ (Save(w) \/ SaveFails(w))
        /\ Return(p) /\ UNCHANGED <<sessions, issued, proved>>
    BY DEF OTPAuthSave, Consumed, At, history
  <1>2. u \in User /\ a.op = "otpAuth"
    BY <1>0, <1>1, LabelFacts DEF HoldsUser, OnRoute
  <1>3. k \in Keys /\ a.uid \in UIDs
    BY <1>0, <1>1, <1>2, KeyFacts
  <1>4. GuestOK(u) /\ Follows(users, sessions, u) /\ Confirmed(u)
    BY <1>0, <1>1 DEF IdentitiesOK, InHandOK, Pending, Logins
  <1>5. StoreOK(users, sessions, L)
    BY <1>0, <1>1 DEF IdentitiesOK, Logging
  <1>6. GetUID(u, k) = a.uid /\ Sole(users, u, {}) /\ SucceedsStored(users, u)
    BY <1>0, <1>1 DEF LoginOnce, AloneOK, HandOK, Pending
  <1>7. Steady => GuestsBound(users, sessions, issued, {}, {}) /\ ProvedOwned(users, proved, R)
    BY <1>0, <1>1 DEF SteadyOK, Userless, Adrift, Restored
  <1> HIDE DEF u, k
  <1>8. /\ w \in User /\ Twin(w, u) /\ Kept(w, u) /\ GetUID(w, k) = a.uid
        /\ \A j \in Keys \ {k} : w.auths[j] = u.auths[j]
    <2>1. w \in User /\ Kept(w, u)
      BY <1>2, <1>3, SetPasswordType, SettersKeep
    <2>2. Twin(w, u)
      BY <1>2, <1>3, SettersTwin
    <2>3. GetUID(w, k) = a.uid
      BY <1>2, <1>3, <1>6, SettersKeepUID
    <2>4. \A j \in Keys \ {k} : w.auths[j] = u.auths[j]
      BY <1>2, <1>3 DEF SetOTP, User
    <2> QED BY <2>1, <2>2, <2>3, <2>4
  <1> HIDE DEF w
  <1>9. /\ GuestOK(w) /\ Follows(users, sessions, w) /\ Confirmed(w)
        /\ SucceedsStored(users, w) /\ w.id = u.id
    <2>1. Same(w, u) /\ (Confirmed(w) <=> Confirmed(u))
      BY <1>8 DEF Twin, Confirmed
    <2>2. GuestOK(w) /\ Follows(users, sessions, w)
      BY <1>4, <1>8, <2>1, SameGuestOK, FollowsOn
    <2>3. SucceedsStored(users, w)
      BY <1>2, <1>6, <1>8, KeptOn DEF SucceedsStored, Kept
    <2> QED BY <1>4, <2>1, <2>2, <2>3 DEF Same
  <1>10. users' = Put(users, w)
    <2>1. ~IsDuplicate(users, w)
      <3> SUFFICES ASSUME NEW j \in Keys, Present(w, j)
                   PROVE  Owners(users, j, GetUID(w, j)) \subseteq {w.id}
        BY DEF IsDuplicate
      <3>1. Present(u, j)
        BY <1>3, <1>6, <1>8, EmptyIsNoValue DEF Present, GetUID, ZeroIdentity
      <3>2. GetUID(w, j) = GetUID(u, j)
        BY <1>8 DEF Kept
      <3> QED BY <1>6, <1>9, <3>1, <3>2 DEF Sole
    <2> QED BY <1>1, <2>1 DEF Save, SaveFails
  <1>11. \A x \in R : GetUID(w, x[1]) = x[2]
    BY <1>8 DEF Named, k
  <1>12. \A id \in L : id = w.id /\ Confirmed(w)
    BY <1>9
  <1> HIDE DEF R, L, a
  <1>13. StoreOK(users', sessions', {})
    BY <1>0, <1>1, <1>5, <1>8, <1>9, <1>10, <1>12, PutIdentities
  <1>14. Steady => /\ GuestsBound(users', sessions', issued', {}, {})
                   /\ ProvedOwned(users', proved', {})
    BY <1>0, <1>1, <1>7, <1>8, <1>9, <1>10, <1>11, PutIdentities
  <1>15. Traced
    BY <1>8, <1>9, <1>10 DEF Traced
  <1> QED BY <1>1, <1>13, <1>14, <1>15, ReturnKin

\* otpCode and otpAuth.
LEMMA OTPKin ==
  ASSUME WholeInv, ~SaveMayFail, NEW p \in Procs, OTPStep(p)
  PROVE  Kin(p)
  <1>1. CASE OTPCodeBegin(p) \/ OTPAuthBegin(p)
    <2>1. CASE OTPCodeBegin(p)
      BY <2>1, BeginKin DEF OTPCodeBegin, BeginWithSession, NoArg, FirstLabels
    <2>2. CASE OTPAuthBegin(p)
      BY <2>2, BeginKin DEF OTPAuthBegin, BeginWithSession, NoArg, FirstLabels
    <2> QED BY <1>1, <2>1, <2>2
  <1>2. CASE OTPCodeRefuse(p) \/ OTPAuthRefuse(p)
    <2>1. pc[p] \in {"otpCode", "otpAuth"} /\ Refuse(p)
      BY <1>2 DEF OTPCodeRefuse, OTPAuthRefuse, At
    <2>2. Settled(pc[p], arg[p])
      BY <2>1 DEF Settled
    <2> QED BY <2>1, <2>2, RefuseKin
  <1> QED BY <1>1, <1>2, OTPCodeKin, OTPAuthKin, OTPRemoveKin, OTPBindKin, OTPSaveKin DEF OTPStep

\* The user a social login creates has the one identity it came with.
LEMMA SocialUserFacts ==
  ASSUME NEW id \in UserIds, NEW k \in Keys, NEW uid \in UIDs, NEW b \in BOOLEAN
  PROVE  LET u == NewSocialUser(id, k, uid, b)
         IN  /\ u \in User /\ u.id = id /\ u.temp = b /\ ~u.guest
             /\ GetUID(u, k) = uid /\ \A j \in Keys \ {k} : u.auths[j] = ZeroIdentity
  <1> DEFINE t == SetUID(SetTemp(NewUser(id), b), k, uid)
             c == SetConfirmed(t, k, TRUE)
  <1>1. /\ t \in User /\ t.id = id /\ t.temp = b /\ ~t.guest
        /\ GetUID(t, k) = uid /\ \A j \in Keys \ {k} : t.auths[j] = ZeroIdentity
    BY CreatedFacts
  <1>2. NewSocialUser(id, k, uid, b) \in {t, c}
    BY DEF NewSocialUser
  <1> HIDE DEF t
  <1>3. \A j \in Keys \ {k} : c.auths[j] = t.auths[j]
    BY <1>1 DEF SetConfirmed, User
  <1>4. c \in User /\ Same(c, t) /\ c.temp = t.temp
    BY <1>1, ConfirmKeeps
  <1> HIDE DEF c
  <1>5. /\ c \in User /\ c.id = id /\ c.temp = b /\ ~c.guest
        /\ GetUID(c, k) = uid /\ \A j \in Keys \ {k} : c.auths[j] = ZeroIdentity
    BY <1>1, <1>3, <1>4 DEF Same, SameUIDs
  <1> QED BY <1>1, <1>2, <1>5

\* The user of a social login or link, before anything is stored.
LEMMA SocialLoadKin ==
  ASSUME WholeInv, NEW p \in Procs, SocialLoad(p)
  PROVE  Kin(p)
  <1> DEFINE a == arg[p]
             l == loc[p]
             k == a.key
             uid == a.uid
             f == Found(p)
             b == SignedIn(p)
             label == IF b THEN "linkAccount" ELSE "social.save"
  <1>0. TypeOK /\ SeqInv /\ loc[p] \in Locals
    BY WholeParts, RequestFacts
  <1>1. /\ pc[p] = "social" /\ pc[p] \in AllRoutes /\ SocialAccepted(p)
        /\ UNCHANGED <<users, sessions, issued>>
        /\ proved' \subseteq proved \cup {Named(a)}
    BY DEF SocialLoad, At, AllRoutes, store, Proves, Named
  <1>2. a.op = "social" /\ k \in Keys /\ k \in SocialKeys /\ uid \in UIDs
    BY <1>0, <1>1, LabelFacts, KeyFacts DEF OnRoute, AllRoutes, ArgOK
  <1>3. PICK u \in SocialUser(p) : Continue(p, [l EXCEPT !.u = u], label)
    BY DEF SocialLoad
  <1> DEFINE m == [l EXCEPT !.u = u]
  <1>4. m.u = u /\ m.User = l.User /\ m.UserID = l.UserID /\ m.UserIsGuest = l.UserIsGuest
    BY <1>0, InHand
  <1>5. b \in BOOLEAN /\ (b <=> l.User # Nil /\ ~l.UserIsGuest)
    BY <1>0 DEF SignedIn, Locals
  <1>6. /\ StoreOK(users, sessions, {})
        /\ Steady => GuestsBound(users, sessions, issued, {}, {}) /\ ProvedOwned(users, proved, {})
        /\ Steady /\ l.UserIsGuest /\ users[l.UserID] # Nil => ~Holds(users[l.UserID])
        /\ l.User # Nil => users[l.User.id] = l.User
    BY <1>1, RouteFacts
  <1>7. /\ u \in User /\ GuestOK(u) /\ ~u.guest /\ Follows(users, sessions, u)
        /\ GetUID(u, k) = uid /\ Sole(users, u, {})
        /\ l.UserIsGuest => u.id # l.UserID
        /\ users[u.id] # Nil => SameUIDs(users[u.id], u)
        /\ Owners(users, k, uid) \subseteq {u.id}
        /\ Steady /\ b => u.temp
    <2> HIDE DEF l, b
    <2>1. CASE f # Nil
      <3>1. u = f
        BY <1>3, <2>1 DEF SocialUser
      <3>2. /\ f \in User /\ users[f.id] = f /\ GetUID(f, k) = uid /\ GuestOK(f)
            /\ Owners(users, k, uid) \subseteq {f.id}
        BY <1>1, <1>2, <2>1, FoundKin
      <3> HIDE DEF f
      <3>3. ~f.guest
        BY <1>2, <3>2, GuestKeys, EmptyIsNoValue
      <3>4. Follows(users, sessions, f)
        BY <3>2, SameFollows, TwinOn
      <3>5. l.UserIsGuest => f.id # l.UserID
        BY <1>1, <3>2, <3>3, NotTheGuest DEF l
      <3>6. Sole(users, f, {})
        <4> HIDE DEF k, a
        <4> QED BY <1>0, <1>2, <3>2, StoredIsSole
      <3>7. Steady => ~b
        BY <1>1, <2>1 DEF SocialAccepted, Steady, f, b
      <3>8. SameUIDs(f, f)
        BY DEF SameUIDs
      <3> QED BY <3>1, <3>2, <3>3, <3>4, <3>5, <3>6, <3>7, <3>8
    <2>2. CASE f = Nil
      <3>1. PICK id \in FreeIds : u = NewSocialUser(id, k, uid, b)
        BY <1>3, <2>2 DEF SocialUser, b
      <3>2. id \in UserIds /\ users[id] = Nil /\ Unbound(sessions, id) /\ id # l.UserID
        BY <1>0, FreeFacts DEF l
      <3>3. Owners(users, k, uid) = {}
        BY <1>0, <1>2, <2>2, FoundFacts
      <3> HIDE DEF f, k, uid
      <3>4. /\ u \in User /\ u.id = id /\ u.temp = b /\ ~u.guest
            /\ GetUID(u, k) = uid /\ \A j \in Keys \ {k} : u.auths[j] = ZeroIdentity
        BY <1>2, <1>5, <3>1, <3>2, SocialUserFacts
      <3>5. \A j \in Keys \ {k} : GetUID(u, j) = Empty /\ ~Present(u, j)
        <4>1. ZeroIdentity.uid = Empty
          BY DEF ZeroIdentity
        <4> QED BY <3>4, <4>1 DEF GetUID, Present
      <3>6. GuestOK(u)
        BY <3>4, <3>5 DEF GuestOK, Single
      <3>7. Follows(users, sessions, u)
        BY <3>2, <3>4 DEF Follows
      <3>8. Sole(users, u, {})
        BY <3>3, <3>4, <3>5 DEF Sole
      <3> QED BY <3>2, <3>3, <3>4, <3>6, <3>7, <3>8
    <2> QED BY <2>1, <2>2
  <1>8. ~SignedIn(p) => Continue(p, m, "social.save")
    BY <1>3
  <1>9. SignedIn(p) => Continue(p, m, "linkAccount")
    BY <1>3
  <1> HIDE DEF m, f, b
  <1>10. Steady => ProvedOwned(users, proved', {Named(a)})
    BY <1>1, <1>6 DEF ProvedOwned
  <1>11. CASE SignedIn(p)
    <2>1. InHandOK("linkAccount", m, users, sessions)
      BY <1>4, <1>7 DEF InHandOK, Logins
    <2>2. /\ Logging("linkAccount", m) = {} /\ Adrift("linkAccount", a) = {}
          /\ Restored("linkAccount", a) = {Named(a)} /\ "linkAccount" \in Onward
          /\ "linkAccount" \notin ToBind
      BY <1>2 DEF Logging, Adrift, Restored, Onward, ToBind
    <2>3. LosesOK("linkAccount", a, m, users, sessions)
      BY DEF LosesOK, AllRoutes
    <2>4. CanLink(l.User, k) /\ ~l.UserIsGuest
      BY <1>1, <1>11 DEF SocialAccepted, SignedIn
    <2>5. Steady => u.temp
      BY <1>7, <1>11 DEF b
    <2>6. Steady => LinksOK("linkAccount", a, m, users)
      BY <1>4, <1>7, <2>4, <2>5 DEF LinksOK
    <2> HIDE DEF a, l
    <2> QED BY <1>1, <1>4, <1>6, <1>9, <1>10, <1>11, <2>1, <2>2, <2>3, <2>6, OnwardKin
            DEF Traced, a, l
  <1>12. CASE ~SignedIn(p)
    <2>1. InHandOK("social.save", m, users, sessions)
      BY <1>4, <1>7 DEF InHandOK, Logins
    <2>2. /\ Logging("social.save", m) = {} /\ Adrift("social.save", a) = {}
          /\ Restored("social.save", a) = {Named(a)} /\ "social.save" \in Onward
          /\ "social.save" \notin ToBind
      BY DEF Logging, Adrift, Restored, Onward, ToBind
    <2>3. Steady => LosesOK("social.save", a, m, users, sessions)
      BY <1>4, <1>6, <1>7 DEF LosesOK, AllRoutes
    <2>4. LinksOK("social.save", a, m, users)
      BY <1>4, <1>7 DEF LinksOK
    <2> HIDE DEF a, l
    <2> QED BY <1>1, <1>4, <1>6, <1>8, <1>10, <1>12, <2>1, <2>2, <2>3, <2>4, OnwardKin
            DEF Traced, a, l
  <1> QED BY <1>11, <1>12

\* The Save of a social login.
LEMMA SocialSaveKin ==
  ASSUME WholeInv, ~SaveMayFail, NEW p \in Procs, SocialSave(p)
  PROVE  Kin(p)
  <1> DEFINE a == arg[p]
             l == loc[p]
             u == l.u
  <1>0. /\ TypeOK /\ AloneOK(pc[p], a, l, users, sessions)
        /\ IdentitiesOK(pc[p], l, users, sessions)
        /\ Steady => SteadyOK(pc[p], a, l, users, sessions, issued, proved)
    BY WholeParts
  <1>1. /\ pc[p] = "social.save" /\ UNCHANGED <<sessions, issued, proved>>
        /\ \/ Save(u) /\ Continue(p, l, "social.bind")
           \/ SaveFails(u) /\ Return(p)
    BY DEF SocialSave, At, history
  <1>2. u \in User
    BY <1>0, <1>1, LabelFacts DEF HoldsUser
  <1>3. GuestOK(u) /\ Follows(users, sessions, u) /\ ~u.guest /\ StoreOK(users, sessions, {})
    BY <1>0, <1>1 DEF IdentitiesOK, InHandOK, Pending, Logging
  <1>4. Steady => /\ GuestsBound(users, sessions, issued, {}, {})
                  /\ ProvedOwned(users, proved, {Named(a)})
                  /\ LosesOK("social.save", a, l, users, sessions)
                  /\ LinksOK("social.save", a, l, users)
    BY <1>0, <1>1 DEF SteadyOK, Userless, Adrift, Restored
  <1>5. Steady => GetUID(u, a.key) = a.uid /\ Sole(users, u, {})
    BY <1>4 DEF LinksOK
  <1>6. Steady => ~SaveFails(u)
    BY <1>5, SoleSaved
  <1>7. CASE Save(u) /\ Continue(p, l, "social.bind")
    <2>1. users' = Put(users, u)
      BY <1>7 DEF Save
    <2>2. /\ StoreOK(users', sessions', {})
          /\ Steady => /\ GuestsBound(users', sessions', issued', {}, {})
                       /\ ProvedOwned(users', proved', {})
          /\ Traced /\ users'[u.id] = u
          /\ \A i \in UserIds \ {u.id} : users'[i] = users[i]
      <3> DEFINE R == {Named(a)}
      <3>1. Steady => /\ GuestsBound(users, sessions, issued, {}, {})
                      /\ ProvedOwned(users, proved, R)
                      /\ \A x \in R : GetUID(u, x[1]) = x[2]
        BY <1>4, <1>5 DEF Named
      <3>2. Procs # {}
        OBVIOUS
      <3> HIDE DEF R, u
      <3> QED BY <1>1, <1>2, <1>3, <2>1, <3>1, <3>2, SavedStore
    <2>3. u # Nil /\ u.id \notin Guests(users')
      BY <1>2, <1>3, <2>2, UserFacts DEF Guests
    <2>4. InHandOK("social.bind", l, users', sessions')
      BY <2>3 DEF InHandOK, Pending, Logins
    <2>5. /\ Logging("social.bind", l) = {} /\ Adrift("social.bind", a) = {}
          /\ Restored("social.bind", a) = {} /\ "social.bind" \in Onward
      BY DEF Logging, Adrift, Restored, Onward
    <2>6. Steady => LosesOK("social.bind", a, l, users', sessions')
      <3>1. Steady /\ l.UserIsGuest =>
              /\ u.id # l.UserID
              /\ users[l.UserID] # Nil => ~Holds(users[l.UserID])
        BY <1>4 DEF LosesOK
      <3>2. l.UserIsGuest => l.UserID \in UserIds
        <4>1. l.UserIsGuest => l.User \in User /\ l.User.id = l.UserID
          BY <1>0, RequestFacts DEF AloneOK, CurrentOK, RequestOK
        <4> QED BY <4>1, UserFacts
      <3>3. Steady /\ l.UserIsGuest => users'[l.UserID] = users[l.UserID]
        BY <2>2, <3>1, <3>2
      <3> QED BY <3>1, <3>3 DEF LosesOK, AllRoutes
    <2>7. LinksOK("social.bind", a, l, users')
      BY DEF LinksOK
    <2> HIDE DEF a, l
    <2> QED BY <1>1, <1>7, <2>2, <2>3, <2>4, <2>5, <2>6, <2>7, OnwardKin DEF a, l
  <1>8. CASE SaveFails(u) /\ Return(p)
    <2>1. UNCHANGED users /\ ~Steady
      BY <1>6, <1>8 DEF SaveFails
    <2> QED BY <1>1, <1>3, <1>8, <2>1, ReturnKin DEF Traced
  <1> QED BY <1>1, <1>7, <1>8

\* And the binding of its session.
LEMMA SocialBindKin ==
  ASSUME WholeInv, NEW p \in Procs, SocialBind(p)
  PROVE  Kin(p)
  <1> DEFINE a == arg[p]
             l == loc[p]
             id == l.u.id
             s == a.s
  <1>0. /\ TypeOK /\ AloneOK(pc[p], a, l, users, sessions)
        /\ IdentitiesOK(pc[p], l, users, sessions)
        /\ Steady => SteadyOK(pc[p], a, l, users, sessions, issued, proved)
    BY WholeParts
  <1>1. /\ pc[p] = "social.bind" /\ UNCHANGED <<users, issued, proved>>
        /\ sessions' = [sessions EXCEPT ![s] = id]
        /\ (Continue(p, l, "removeGuest") /\ l.UserIsGuest) \/ Return(p)
    BY DEF SocialBind, At, history
  <1>2. Settled(pc[p], a) /\ id \in UserIds
    BY <1>0, <1>1, LabelFacts, UserFacts DEF Settled, HoldsUser
  <1>3. s \in Sessions
    BY <1>0, <1>1, LabelFacts DEF ArgOK, OnRoute
  <1>4. /\ StoreOK(users, sessions, {})
        /\ Steady => GuestsBound(users, sessions, issued, {}, {}) /\ ProvedOwned(users, proved, {})
    BY <1>2, SettledStore
  <1>5. id \notin Guests(users) /\ (Steady => users[id] # Nil)
    BY <1>0, <1>1 DEF IdentitiesOK, InHandOK, SteadyOK, PresentOK, ToBind
  <1>6. /\ StoreOK(users', sessions', {})
        /\ Steady => GuestsBound(users', sessions', issued', {}, {})
        /\ sessions'[s] = id /\ \A t \in Sessions : t # s => sessions'[t] = sessions[t]
        /\ Traced
    <2>1. Steady => users[id] # Nil /\ GuestsBound(users, sessions, issued, {}, {s})
      BY <1>4, <1>5, StoreOn
    <2> HIDE DEF s, id, a, l
    <2> QED BY <1>1, <1>2, <1>3, <1>4, <1>5, <2>1, BoundKin
  <1>7. Steady => ProvedOwned(users', proved', {})
    BY <1>1, <1>4
  <1>8. CASE Return(p)
    <2> HIDE DEF a, l
    <2> QED BY <1>6, <1>7, <1>8, ReturnKin
  <1>9. CASE Continue(p, l, "removeGuest") /\ l.UserIsGuest
    <2>1. InHandOK("removeGuest", l, users', sessions')
      BY DEF InHandOK, Pending, Logins
    <2>2. /\ Logging("removeGuest", l) = {} /\ Adrift("removeGuest", a) = {}
          /\ Restored("removeGuest", a) = {} /\ "removeGuest" \in Onward
          /\ "removeGuest" \notin ToBind
      BY DEF Logging, Adrift, Restored, Onward, ToBind
    <2>3. Steady => LosesOK("removeGuest", a, l, users', sessions')
      BY <1>0, <1>1 DEF SteadyOK, LosesOK, AllRoutes
    <2>4. LinksOK("removeGuest", a, l, users')
      BY DEF LinksOK
    <2> HIDE DEF a, l
    <2> QED BY <1>1, <1>6, <1>7, <1>9, <2>1, <2>2, <2>3, <2>4, OnwardKin DEF a, l, id, s
  <1> QED BY <1>1, <1>8, <1>9

\* social/login.
LEMMA SocialKin ==
  ASSUME WholeInv, ~SaveMayFail, NEW p \in Procs, SocialStep(p)
  PROVE  Kin(p)
  <1>1. CASE SocialBegin(p)
    BY <1>1, BeginKin DEF SocialBegin, BeginWithSession, NoArg, FirstLabels
  <1>2. CASE SocialRefuse(p)
    <2>1. pc[p] = "social" /\ Refuse(p)
      BY <1>2 DEF SocialRefuse, At
    <2>2. Settled(pc[p], arg[p])
      BY <2>1 DEF Settled
    <2> QED BY <2>1, <2>2, RefuseKin
  <1> QED BY <1>1, <1>2, SocialLoadKin, SocialSaveKin, SocialBindKin DEF SocialStep

\* Every step of a request.
LEMMA StepKin ==
  ASSUME WholeInv, ~SaveMayFail, NEW p \in Procs, Step(p)
  PROVE  Kin(p)
  BY SessionKin, CheckSessionKin, SavedKin, RemoveGuestKin, PasswordKin, CodeKin, LinkKin,
     OTPKin, SocialKin, ProfileKin DEF Step, Shared

----------------------------------------------------------------------------
(* Time.                                                                   *)

\* A user a moment later holds the same, and as much of it confirmed.
LEMMA AgedTwin ==
  ASSUME NEW v \in User
  PROVE  /\ Aged(v) \in User /\ Aged(v) # Nil /\ Twin(Aged(v), v)
         /\ Aged(v).id = v.id /\ Aged(v).temp = v.temp /\ Aged(v).guest = v.guest
         /\ \A k \in Keys : GetUID(Aged(v), k) = GetUID(v, k)
         /\ Holds(Aged(v)) <=> Holds(v)
         /\ Confirmed(Aged(v)) <=> Confirmed(v)
         /\ GuestOK(v) => GuestOK(Aged(v))
         /\ \A x : OnlyHas(v, x) => OnlyHas(Aged(v), x)
  <1> DEFINE w == Aged(v)
  <1>1. /\ w \in User /\ w # Nil
        /\ w.id = v.id /\ w.temp = v.temp /\ w.guest = v.guest
        /\ \A k \in Keys : /\ GetUID(w, k) = GetUID(v, k)
                           /\ w.auths[k].confirmed = v.auths[k].confirmed
    BY AgedFacts
  <1> HIDE DEF w
  <1>2. Twin(w, v)
    BY <1>1 DEF Twin, Same, SameUIDs
  <1>3. (Holds(w) <=> Holds(v)) /\ (Confirmed(w) <=> Confirmed(v))
    BY <1>1 DEF Holds, Confirmed
  <1>4. GuestOK(v) => GuestOK(w)
    BY <1>2, SameGuestOK
  <1>5. \A x : OnlyHas(v, x) => OnlyHas(w, x)
    BY <1>1 DEF OnlyHas
  <1> QED BY <1>1, <1>2, <1>3, <1>4, <1>5 DEF w

\* The store a moment later.
LEMMA AgedStore ==
  ASSUME NEW us, Storer(us), NEW new, NEW ss,
         \A i \in UserIds : \/ us[i] = Nil /\ new[i] = Nil
                            \/ us[i] \in User /\ new[i] = Aged(us[i])
  PROVE  /\ Stored(new) = Stored(us) /\ Guests(new) = Guests(us)
         /\ \A L : StoreOK(us, ss, L) => StoreOK(new, ss, L)
         /\ \A iss, G, D : GuestsBound(us, ss, iss, G, D) => GuestsBound(new, ss, iss, G, D)
         /\ \A P, R : ProvedOwned(us, P, R) /\ P \subseteq Keys \X UIDs => ProvedOwned(new, P, R)
         /\ \A k \in Keys : \A uid : Owners(new, k, uid) \subseteq Owners(us, k, uid)
         /\ \A u \in User : /\ Follows(us, ss, u) => Follows(new, ss, Aged(u))
                            /\ Sole(us, u, {}) => Sole(new, Aged(u), {})
                            /\ us[u.id] = u => new[u.id] = Aged(u)
  <1>1. Stored(new) = Stored(us)
    BY UserFacts, AgedTwin DEF Stored
  <1>2. \A i \in Stored(us) : us[i] \in User /\ new[i] = Aged(us[i])
    BY DEF Stored
  <1>3. Guests(new) = Guests(us)
    BY <1>1, <1>2, AgedTwin DEF Guests
  <1>4. ASSUME NEW L, StoreOK(us, ss, L) PROVE StoreOK(new, ss, L)
    <2>1. \A i \in Stored(new) : GuestOK(new[i])
      BY <1>1, <1>2, <1>4, AgedTwin DEF StoreOK
    <2>2. ASSUME NEW s \in Sessions, ss[s] \in Guests(new), Holds(new[ss[s]])
          PROVE  Confirmed(new[ss[s]]) \/ ss[s] \in L
      <3>1. ss[s] \in Guests(us) /\ ss[s] \in Stored(us)
        BY <1>3, <2>2 DEF Guests
      <3>2. (Holds(us[ss[s]]) <=> Holds(new[ss[s]])) /\ (Confirmed(us[ss[s]]) <=> Confirmed(new[ss[s]]))
        BY <1>2, <3>1, AgedTwin
      <3> QED BY <1>4, <2>2, <3>1, <3>2 DEF StoreOK
    <2> QED BY <2>1, <2>2 DEF StoreOK
  <1>5. ASSUME NEW iss, NEW G, NEW D, GuestsBound(us, ss, iss, G, D)
        PROVE  GuestsBound(new, ss, iss, G, D)
    BY <1>1, <1>3, <1>5 DEF GuestsBound
  <1>6. ASSUME NEW P, NEW R, ProvedOwned(us, P, R), P \subseteq Keys \X UIDs
        PROVE  ProvedOwned(new, P, R)
    <2> SUFFICES ASSUME NEW x \in P, Owners(us, x[1], x[2]) # {}
                 PROVE  Owners(new, x[1], x[2]) # {}
      BY <1>6 DEF ProvedOwned
    <2> DEFINE k == x[1]
               uid == x[2]
    <2>1. k \in Keys /\ uid \in UIDs
      BY <1>6
    <2> HIDE DEF k, uid
    <2>2. PICK i \in Stored(us) : GetUID(us[i], k) = uid
      BY DEF Owners, k, uid
    <2>3. GetUID(new[i], k) = uid
      BY <1>2, <2>1, <2>2, AgedTwin
    <2>4. Present(new[i], k)
      BY <2>1, <2>3, EmptyIsNoValue DEF Present, GetUID, ZeroIdentity
    <2>5. i \in Owners(new, k, uid)
      BY <1>1, <2>2, <2>3, <2>4 DEF Owners
    <2> QED BY <2>5 DEF k, uid
  <1>7. \A k \in Keys : \A uid : Owners(new, k, uid) \subseteq Owners(us, k, uid)
    BY <1>1, <1>2, AgedType DEF Owners
  <1>8. ASSUME NEW u \in User
        PROVE  /\ Follows(us, ss, u) => Follows(new, ss, Aged(u))
               /\ Sole(us, u, {}) => Sole(new, Aged(u), {})
               /\ us[u.id] = u => new[u.id] = Aged(u)
    <2>1. Aged(u).id = u.id /\ u.id \in UserIds /\ u # Nil
      BY AgedTwin, UserFacts
    <2>2. Sole(us, u, {}) => Sole(new, Aged(u), {})
      BY <1>7, AgedType DEF Sole
    <2>3. us[u.id] = u => new[u.id] = Aged(u)
      BY <2>1
    <2>4. ASSUME Follows(us, ss, u) PROVE Follows(new, ss, Aged(u))
      <3>1. CASE us[u.id] = Nil
        <4>1. new[u.id] = Nil
          BY <2>1, <3>1, NilIsNoValue
        <4> QED BY <2>1, <2>4, <3>1, <4>1, AgedTwin DEF Follows
      <3>2. CASE us[u.id] # Nil
        <4> DEFINE v == us[u.id]
                   w == Aged(v)
                   x == Aged(u)
        <4>1. v \in User /\ new[u.id] = w /\ Replaces(u, v)
          BY <2>1, <2>4, <3>2 DEF Follows
        <4> HIDE DEF v
        <4>2. /\ \A k \in Keys : GetUID(x, k) = GetUID(u, k) /\ GetUID(w, k) = GetUID(v, k)
              /\ x.guest = u.guest /\ w.guest = v.guest /\ w # Nil
              /\ Holds(w) <=> Holds(v)
              /\ Confirmed(w) <=> Confirmed(v)
          BY <4>1, AgedTwin
        <4> HIDE DEF w, x
        <4>3. Replaces(x, w)
          BY <4>1, <4>2 DEF Replaces, SameUIDs
        <4> QED BY <2>1, <4>1, <4>2, <4>3 DEF Follows, x
      <3> QED BY <3>1, <3>2
    <2> QED BY <2>2, <2>3, <2>4
  <1> QED BY <1>1, <1>3, <1>4, <1>5, <1>6, <1>7, <1>8

\* Time changes nothing that a request relies on.
LEMMA TickKin ==
  ASSUME WholeInv, Tick, NEW p \in Procs
  PROVE  /\ IdentitiesOK(pc'[p], loc'[p], users', sessions')
         /\ Steady => SteadyOK(pc'[p], arg'[p], loc'[p], users', sessions', issued', proved')
  <1> DEFINE label == pc[p]
             a == arg[p]
             l == loc[p]
             m == loc'[p]
  <1>0. /\ TypeOK /\ Storer(users) /\ loc[p] \in Locals /\ proved \subseteq Keys \X UIDs
        /\ AloneOK(label, a, l, users, sessions)
        /\ IdentitiesOK(label, l, users, sessions)
        /\ Steady => SteadyOK(label, a, l, users, sessions, issued, proved)
    BY WholeParts, RequestFacts
  <1>1. UNCHANGED <<sessions, issued, proved, pc, arg>>
    BY DEF Tick, history
  <1>2. /\ m.User = AgedOrNil(l.User) /\ m.u = AgedOrNil(l.u)
        /\ m.UserID = l.UserID /\ m.UserIsGuest = l.UserIsGuest
        /\ m.removeUserID = l.removeUserID
        /\ l.User \in User \cup {Nil} /\ l.u \in User \cup {Nil}
    BY <1>0 DEF Tick, Locals
  <1>3. \A i \in UserIds : \/ users[i] = Nil /\ users'[i] = Nil
                           \/ users[i] \in User /\ users'[i] = Aged(users[i])
    BY <1>0 DEF Tick, Storer, AgedOrNil
  <1>4. /\ l.User # Nil => l.User \in User /\ m.User = Aged(l.User) /\ m.User # Nil
        /\ l.User = Nil => m.User = Nil
        /\ l.u # Nil => l.u \in User /\ m.u = Aged(l.u) /\ m.u # Nil
        /\ l.u = Nil => m.u = Nil
    BY <1>2, AgedTwin DEF AgedOrNil
  <1>5. m.u.id = l.u.id
    BY <1>4, AgedTwin
  <1>6. label \in HoldsUser => l.u \in User /\ m.u = Aged(l.u) /\ l.u.id \in UserIds
    <2>1. label \in HoldsUser => l.u # Nil
      BY <1>0 DEF TypeOK, RequestOK
    <2> QED BY <1>4, <2>1, UserFacts
  <1>7. l.UserIsGuest => l.UserID \in UserIds
    <2>1. l.UserIsGuest => l.User \in User /\ l.User.id = l.UserID
      BY <1>0, RequestFacts DEF AloneOK, CurrentOK, RequestOK
    <2> QED BY <2>1, UserFacts
  <1>8. /\ Stored(users') = Stored(users) /\ Guests(users') = Guests(users)
        /\ \A i \in UserIds : users[i] = Nil <=> users'[i] = Nil
        /\ \A i \in UserIds : users'[i] # Nil =>
             /\ Holds(users'[i]) <=> Holds(users[i])
             /\ \A x : OnlyHas(users[i], x) => OnlyHas(users'[i], x)
             /\ \A k \in Keys : GetUID(users'[i], k) = GetUID(users[i], k)
    BY <1>0, <1>3, AgedStore, AgedTwin, UserFacts
  <1>9. \A L : StoreOK(users, sessions, L) => StoreOK(users', sessions, L)
    BY <1>0, <1>3, AgedStore
  <1>10. \A u \in User : /\ Follows(users, sessions, u) => Follows(users', sessions, Aged(u))
                         /\ Sole(users, u, {}) => Sole(users', Aged(u), {})
                         /\ users[u.id] = u => users'[u.id] = Aged(u)
    <2> HIDE DEF label, a, l, m
    <2> QED BY <1>0, <1>3, AgedStore
  <1>11. SessionUserOK(m)
    BY <1>0, <1>2, <1>4, AgedTwin DEF IdentitiesOK, SessionUserOK
  <1>12. InHandOK(label, m, users', sessions)
    <2>1. InHandOK(label, l, users, sessions)
      BY <1>0 DEF IdentitiesOK
    <2>2. /\ label \in Pending \cup Logins => label \in HoldsUser
          /\ label \in {"signUp.bind", "signIn.bind", "social.bind", "guest.bind"}
               => label \in HoldsUser
      BY DEF Pending, Logins, HoldsUser
    <2>3. label \in HoldsUser =>
            /\ GuestOK(l.u) => GuestOK(m.u)
            /\ Confirmed(l.u) => Confirmed(m.u)
            /\ m.u.guest = l.u.guest
            /\ Follows(users, sessions, l.u) => Follows(users', sessions, m.u)
            /\ l.u.id \in UserIds
      BY <1>6, <1>10, AgedTwin
    <2>4. /\ label \in Pending => GuestOK(m.u) /\ Follows(users', sessions, m.u)
          /\ label \in Logins => Confirmed(m.u)
          /\ label \in {"otpAuth.remove", "social.save", "signIn.bind", "signIn.save"} => ~m.u.guest
      BY <2>1, <2>2, <2>3 DEF InHandOK, Pending
    <2>5. /\ label = "otpAuth.bind" /\ m.u.guest => users'[m.u.id] # Nil
          /\ label \in {"signUp.bind", "signIn.bind", "social.bind"} => m.u.id \notin Guests(users')
          /\ label = "guest.bind" /\ users'[m.u.id] # Nil => ~Holds(users'[m.u.id])
      BY <1>5, <1>8, <2>1, <2>2, <2>3 DEF InHandOK, Logins
    <2> HIDE DEF label, l, m
    <2> QED BY <2>1, <2>4, <2>5 DEF InHandOK
  <1>13. StoreOK(users', sessions, Logging(label, m))
    <2>1. Logging(label, m) = Logging(label, l)
      BY <1>5 DEF Logging
    <2> QED BY <1>0, <1>9, <2>1 DEF IdentitiesOK
  <1>14. ASSUME Steady PROVE SteadyOK(label, a, m, users', sessions, issued, proved)
    <2>0. /\ GuestsBound(users, sessions, issued, Userless(label, a), Adrift(label, a))
          /\ ProvedOwned(users, proved, Restored(label, a))
          /\ PresentOK(label, a, l, users, sessions, issued)
          /\ LosesOK(label, a, l, users, sessions)
          /\ LinksOK(label, a, l, users)
      BY <1>0, <1>14 DEF SteadyOK
    <2>1. /\ GuestsBound(users', sessions, issued, Userless(label, a), Adrift(label, a))
          /\ ProvedOwned(users', proved, Restored(label, a))
      BY <1>0, <1>3, <2>0, AgedStore
    <2>2. label \in {"link.save", "linkAccount", "social.save"}
            \/ (label = "save" /\ a.op \in {"link", "otpAuth"})
            => label \in HoldsUser /\ a.key \in Keys
      BY <1>0, LabelFacts, KeyFacts DEF HoldsUser, OnRoute
    <2>3. PresentOK(label, a, m, users', sessions, issued)
      <3>1. label \in ToBind => users'[m.u.id] # Nil
        <4>1. label \in ToBind => label \in HoldsUser
          BY DEF ToBind, HoldsUser
        <4> QED BY <1>5, <1>6, <1>8, <2>0, <4>1 DEF PresentOK
      <3>2. m.User # Nil /\ users[l.User.id] = l.User => users'[m.User.id] = m.User
        BY <1>4, <1>10, AgedTwin
      <3>3. /\ label \in {"link.save", "linkAccount"} /\ m.User # Nil
            /\ GetUID(m.User, a.key) = Empty
            => users'[m.User.id] = m.User
        <4>1. /\ label \in {"link.save", "linkAccount"} /\ m.User # Nil
              /\ GetUID(m.User, a.key) = Empty
              => GetUID(l.User, a.key) = Empty /\ l.User # Nil
          BY <1>4, <2>2, AgedTwin
        <4> HIDE DEF label, a, l, m
        <4> QED BY <2>0, <3>2, <4>1 DEF PresentOK
      <3> HIDE DEF label, a, l, m
      <3> QED BY <1>2, <1>4, <1>5, <1>8, <2>0, <3>1, <3>2, <3>3 DEF PresentOK
    <2>4. LosesOK(label, a, m, users', sessions)
      <3>1. m.User # Nil => l.User # Nil /\ m.User.id = l.User.id
        BY <1>4, AgedTwin
      <3> HIDE DEF label, a, l, m
      <3> QED BY <1>2, <1>5, <1>7, <1>8, <2>0, <3>1 DEF LosesOK
    <2>5. LinksOK(label, a, m, users')
      <3>1. label \in HoldsUser /\ a.key \in Keys =>
              /\ GetUID(m.u, a.key) = GetUID(l.u, a.key)
              /\ Sole(users, l.u, {}) => Sole(users', m.u, {})
              /\ m.u.temp = l.u.temp
        BY <1>6, <1>10, AgedTwin
      <3>2. label \in HoldsUser /\ users'[m.u.id] # Nil =>
              /\ users[l.u.id] # Nil
              /\ SameUIDs(users[l.u.id], l.u) => SameUIDs(users'[m.u.id], m.u)
        BY <1>5, <1>6, <1>8, AgedTwin DEF SameUIDs
      <3>3. a.key \in Keys => Owners(users', a.key, a.uid) \subseteq Owners(users, a.key, a.uid)
        BY <1>0, <1>3, AgedStore
      <3>4. a.key \in Keys /\ CanLink(l.User, a.key) => CanLink(m.User, a.key)
        BY <1>4, AgedTwin DEF CanLink
      <3> HIDE DEF label, a, l, m
      <3>5. label \in {"link.save", "linkAccount"} =>
              /\ GetUID(m.u, a.key) = a.uid
              /\ users'[m.u.id] # Nil => SameUIDs(users'[m.u.id], m.u)
              /\ Owners(users', a.key, a.uid) \subseteq {m.u.id}
        BY <1>5, <2>0, <2>2, <3>1, <3>2, <3>3 DEF LinksOK
      <3>6. label = "linkAccount" /\ a.op = "social" =>
              CanLink(m.User, a.key) /\ ~m.UserIsGuest /\ m.u.temp
        BY <1>2, <2>0, <2>2, <3>1, <3>4 DEF LinksOK
      <3>7. label = "social.save" \/ (label = "save" /\ a.op \in {"link", "otpAuth"})
              => GetUID(m.u, a.key) = a.uid /\ Sole(users', m.u, {})
        BY <2>0, <2>2, <3>1 DEF LinksOK
      <3> QED BY <3>5, <3>6, <3>7 DEF LinksOK
    <2> QED BY <2>1, <2>3, <2>4, <2>5 DEF SteadyOK
  <1> QED BY <1>1, <1>11, <1>12, <1>13, <1>14 DEF IdentitiesOK

----------------------------------------------------------------------------
(* The invariant.                                                          *)

\* At the start nothing is stored, and nothing owed.
LEMMA InitIdentity == Init => IdentityInv
  <1> SUFFICES ASSUME Init PROVE IdentityInv
    OBVIOUS
  <1>1. /\ Stored(users) = {} /\ Guests(users) = {} /\ proved = {} /\ issued = {}
        /\ \A s \in Sessions : sessions[s] = Nil
    BY DEF Init, Stored, Guests
  <1>2. NoLoc.User = Nil /\ NoLoc.u = Nil /\ ~NoLoc.UserIsGuest
    BY DEF NoLoc
  <1>3. IdentitiesOK("idle", NoLoc, users, sessions)
    BY <1>1, <1>2 DEF IdentitiesOK, SessionUserOK, InHandOK, Pending, Logins, StoreOK
  <1>4. /\ GuestsBound(users, sessions, issued, Userless("idle", NoArg), Adrift("idle", NoArg))
        /\ ProvedOwned(users, proved, Restored("idle", NoArg))
    BY <1>1 DEF GuestsBound, ProvedOwned
  <1>5. /\ PresentOK("idle", NoArg, NoLoc, users, sessions, issued)
        /\ LosesOK("idle", NoArg, NoLoc, users, sessions)
        /\ LinksOK("idle", NoArg, NoLoc, users)
    BY <1>2 DEF PresentOK, LosesOK, LinksOK, SessionRoutes, AllRoutes, ToBind
  <1> QED BY <1>1, <1>3, <1>4, <1>5 DEF Init, IdentityInv, SteadyOK

\* One request at a time, every step keeps the invariant, and what the storer
\* takes may follow what it had.
LEMMA NextIdentity ==
  ASSUME OneAtATime, ~SaveMayFail, WholeInv, [Next]_vars
  PROVE  /\ IdentityInv'
         /\ Tick \/ Traced
  <1>1. CASE Tick
    <2>1. \A p \in Procs : /\ IdentitiesOK(pc'[p], loc'[p], users', sessions')
                           /\ Steady => SteadyOK(pc'[p], arg'[p], loc'[p], users', sessions',
                                                 issued', proved')
      BY <1>1, TickKin
    <2>2. Procs = {} => Stored(users') = {} /\ proved' = {}
      BY <1>1 DEF WholeInv, IdentityInv, Tick, history, Stored, AgedOrNil
    <2> QED BY <1>1, <2>1, <2>2 DEF IdentityInv
  <1>2. ASSUME NEW p \in Procs, Step(p) PROVE IdentityInv' /\ Traced
    <2>1. Kin(p)
      BY <1>2, StepKin
    <2> QED BY <2>1 DEF OneAtATime, Kin, IdentityInv
  <1>3. CASE UNCHANGED vars
    <2>1. UNCHANGED <<users, sessions, issued, pc, arg, loc, proved>>
      BY <1>3 DEF vars
    <2>2. IdentityInv'
      BY <2>1 DEF WholeInv, IdentityInv, Stored
    <2> QED BY <2>1, <2>2 DEF Traced
  <1> QED BY <1>1, <1>2, <1>3 DEF Next

\* Where copies and time are no obstacle to what the storer holds: an account
\* that holds an identity and is not confirmed comes by no further one.
LEMMA NoMoreUnconfirmed ==
  ASSUME TypeOK, Tick \/ Traced, NEW id \in Stored(users), NEW j \in Keys, NEW k \in Keys,
         GetUID(users[id], j) # Empty, GetUID(users[id], k) = Empty,
         users'[id] # Nil, GetUID(users'[id], k) # Empty
  PROVE  Confirmed(users[id])
  <1>1. Storer(users) /\ id \in UserIds /\ users[id] \in User /\ users[id].id = id
    BY TypeParts DEF Stored, Storer
  <1>2. Tick => users'[id] = Aged(users[id])
    BY <1>1, UserFacts DEF Tick, AgedOrNil
  <1>3. ~Tick
    BY <1>1, <1>2, AgedTwin
  <1>4. users' # users
    OBVIOUS
  <1>5. ASSUME NEW i, users' = RemoveByID(users, i) PROVE FALSE
    BY <1>1, <1>5 DEF RemoveByID, Storer
  <1>6. ASSUME NEW u \in User, users' = Put(users, u), Follows(users, sessions, u)
        PROVE  Confirmed(users[id])
    <2>1. u.id = id /\ users'[id] = u
      BY <1>1, <1>6, StorerEffects
    <2>2. Replaces(u, users[id])
      BY <1>1, <1>6, <2>1, UserFacts DEF Follows
    <2>3. Holds(users[id])
      BY DEF Holds
    <2> QED BY <2>1, <2>2, <2>3 DEF Replaces
  <1> QED BY <1>3, <1>4, <1>5, <1>6 DEF Traced

----------------------------------------------------------------------------
(* The theorems about identities and guests.                               *)

\* An account that holds an identity comes by a further one only once it is
\* confirmed, as long as no Save fails: otpAuth removes the parked user before
\* the Save that takes over its identity.
THEOREM LinksByConfirmed == OneAtATime /\ ~SaveMayFail => (Spec => LinksOnlyConfirmed)
  <1> DEFINE A == \A id \in Stored(users), j, k \in Keys :
                    /\ GetUID(users[id], j) # Empty
                    /\ GetUID(users[id], k) = Empty
                    /\ users'[id] # Nil
                    /\ GetUID(users'[id], k) # Empty
                    => Confirmed(users[id])
  <1> SUFFICES ASSUME OneAtATime, ~SaveMayFail PROVE Spec => [][A]_vars
    BY DEF LinksOnlyConfirmed
  <1>1. Init => WholeInv
    BY InitAlone, InitOnce, InitIdentity DEF WholeInv
  <1>2. WholeInv /\ [Next]_vars => WholeInv' /\ A
    <2> SUFFICES ASSUME WholeInv, [Next]_vars PROVE WholeInv' /\ A
      OBVIOUS
    <2>1. SeqInv' /\ OnceInv' /\ IdentityInv' /\ (Tick \/ Traced) /\ TypeOK
      BY NextAlone, NextOnce, NextIdentity DEF WholeInv, SeqInv
    <2>2. A
      BY <2>1, NoMoreUnconfirmed
    <2> QED BY <2>1, <2>2 DEF WholeInv
  <1> QED BY <1>1, <1>2, PTL DEF Spec

\* What the invariant says of a steady application's store.
LEMMA WholeMeans ==
  ASSUME OneAtATime, Steady, WholeInv
  PROVE  GuestHoldsNoConfirmed /\ ProvedIsKept
  <1>1. CASE Procs = {}
    BY <1>1 DEF WholeInv, IdentityInv, GuestHoldsNoConfirmed, ProvedIsKept
  <1>2. CASE Procs # {}
    <2>1. PICK p \in Procs : TRUE
      BY <1>2
    <2>2. GuestHoldsNoConfirmed
      BY <2>1, WholeParts DEF IdentitiesOK, StoreOK, GuestOK, GuestHoldsNoConfirmed
    <2>3. ASSUME Quiet PROVE \A x \in proved : Owners(users, x[1], x[2]) # {}
      <3>1. pc[p] = "idle"
        BY <2>1, <2>3 DEF Quiet
      <3>2. Restored("idle", arg[p]) = {}
        BY DEF Restored
      <3> QED BY <2>1, <3>1, <3>2, WholeParts DEF SteadyOK, ProvedOwned
    <2> QED BY <2>2, <2>3 DEF ProvedIsKept
  <1> QED BY <1>1, <1>2

\* No guest holds a confirmed identity, so no logout deletes one with it, in
\* an application that does not merge accounts and whose Save does not fail.
THEOREM GuestsUnconfirmed ==
  OneAtATime /\ ~SaveMayFail /\ Steady => (Spec => []GuestHoldsNoConfirmed)
  <1> SUFFICES ASSUME OneAtATime, ~SaveMayFail, Steady PROVE Spec => []GuestHoldsNoConfirmed
    OBVIOUS
  <1>1. Init => WholeInv
    BY InitAlone, InitOnce, InitIdentity DEF WholeInv
  <1>2. WholeInv /\ [Next]_vars => WholeInv'
    BY NextAlone, NextOnce, NextIdentity DEF WholeInv
  <1>3. WholeInv => GuestHoldsNoConfirmed
    BY WholeMeans
  <1> QED BY <1>1, <1>2, <1>3, PTL DEF Spec

\* Nor does any removal take along an identity somebody proved to hold.
THEOREM ProvedKept ==
  OneAtATime /\ ~SaveMayFail /\ Steady => (Spec => []ProvedIsKept)
  <1> SUFFICES ASSUME OneAtATime, ~SaveMayFail, Steady PROVE Spec => []ProvedIsKept
    OBVIOUS
  <1>1. Init => WholeInv
    BY InitAlone, InitOnce, InitIdentity DEF WholeInv
  <1>2. WholeInv /\ [Next]_vars => WholeInv'
    BY NextAlone, NextOnce, NextIdentity DEF WholeInv
  <1>3. WholeInv => ProvedIsKept
    BY WholeMeans
  <1> QED BY <1>1, <1>2, <1>3, PTL DEF Spec
=============================================================================
