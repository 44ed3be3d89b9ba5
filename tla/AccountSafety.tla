--------------------------- MODULE AccountSafety ---------------------------
(***************************************************************************)
(* What the accounts, identities and sessions of Rauther promise.          *)
(***************************************************************************)
EXTENDS Rauther

\* No request is in service.
Quiet == \A p \in Procs : pc[p] = "idle"

\* The user a session is bound to is stored.
Bound(s) == sessions[s] \in Stored(users)

----------------------------------------------------------------------------
(* Whatever the requests in service do to each other.                      *)

\* An address never comes to belong to two accounts, although register,
\* linking and otp/code all look it up first and save later: Save itself
\* looks again (UserStorer.Save, the loop over user.Auths).
UniqueIdentities == Unique(users)

\* An identity counts as confirmed only if at some time some client has
\* entered a code sent to it, or a provider has vouched for it: no copy,
\* linking, merge or stale save makes up a confirmation (confirmHandler,
\* linkPasswordAccount, otpAuthHandler, moveAuthIdentities).  It is about
\* the identity, not about who showed it: `proved` never shrinks, and a
\* stale save may bring back, confirmed, one that a merge had dropped.
ConfirmedByProof ==
    \A id \in Stored(users), k \in Keys :
        users[id].auths[k].confirmed => <<k, GetUID(users[id], k)>> \in proved

\* A session bound to a registered user has itself registered that user or
\* presented its password, code or social token (the BindUser calls), even
\* when guests become users and sessions change hands in between.
SessionAuthenticated ==
    \A s \in Sessions :
        Bound(s) /\ ~users[sessions[s]].guest => <<s, sessions[s]>> \in authed

----------------------------------------------------------------------------
(* When requests are served one after the other.                           *)

\* Nobody acts as a temporary user: its only purpose is to park an identity
\* until linking is completed (the IsTemp checks of signIn and otpAuth).
NoTempSession == \A s \in Sessions : Bound(s) => ~users[sessions[s]].temp

\* A guest holds no confirmed identity: otherwise the next logout, which
\* deletes guests, takes the identity with it (signOutHandler).
GuestHoldsNoConfirmed ==
    Quiet => \A id \in Stored(users) : users[id].guest => ~Confirmed(users[id])

\* An identity somebody proved to hold belongs to some account for ever,
\* unless its client confirmed a merge that listed it as lost: none of the
\* removals of guests and temporary users takes a proved identity along.
ProvedIsKept ==
    Quiet => \A x \in proved \ waived : Owners(users, x[1], x[2]) # {}

\* An account that holds an identity comes by a further one only once it is
\* confirmed (checkUserCanLinkAccount): neither linking and merging by way of
\* copies and temporary users, nor a guest's registration is a way around it.
LinksOnlyConfirmed ==
    [][\A id \in Stored(users), j, k \in Keys :
         /\ GetUID(users[id], j) # Empty
         /\ GetUID(users[id], k) = Empty
         /\ users'[id] # Nil
         /\ GetUID(users'[id], k) # Empty
         => Confirmed(users[id])]_vars

\* The request names an identity of the user as it is stored and carries the
\* password stored with it, or the one-time code, which is kept in its place.
\* Of a social identity, the provider's word for it is the credential.
HoldsCredentials(a, u) ==
    /\ GetUID(u, a.key) = a.uid
    /\ a.key \in SocialKeys \/ u.auths[a.key].password = a.secret

\* A registered account is removed by nothing but a merge whose request
\* confirms it and carries the credentials of that account (the RemoveByID
\* calls; the password compare of linkPasswordAccount, the code of otp/auth).
RegisteredStays ==
    [][\A id \in Stored(users) :
         users'[id] = Nil /\ ~users[id].guest /\ ~users[id].temp
           => \E p \in Procs : /\ At(p, "linkAccount")
                               /\ loc[p].u.id = id
                               /\ arg[p].confirm
                               /\ HoldsCredentials(arg[p], users[id])]_vars

\* An identity once confirmed stays confirmed while the account keeps it:
\* password resets, further codes and logins do not take it back.
ConfirmationStays ==
    [][\A id \in Stored(users), k \in Keys :
         /\ users[id].auths[k].confirmed
         /\ users'[id] # Nil
         /\ GetUID(users'[id], k) = GetUID(users[id], k)
         => users'[id].auths[k].confirmed]_vars

\* "OTP (one time password)" (README.md:116): a code logs in once, after that
\* only a newly sent one is good.  Requests served at the same time break it.
OTPUsedOnce ==
    [][\A p \in Procs :
         At(p, "otpAuth.bind") /\ pc'[p] # pc[p]
           => <<arg[p].key, arg[p].uid>> \notin spent]_vars

\* A recovery code is traded for one new password (recoveryHandler).
RecoveryUsedOnce ==
    [][\A p \in Procs :
         At(p, "recovery") /\ pc'[p] = "save"
           => <<arg[p].key, arg[p].uid>> \notin spent]_vars

\* The code of an identity is not replaced by a younger one before
\* ResendDelay has passed, whichever of the five routes that send codes
\* asks for it (checkResendTime).
CodesAreSpaced ==
    [][\A id \in Stored(users), k \in Keys :
         /\ users'[id] # Nil
         /\ GetUID(users'[id], k) = GetUID(users[id], k)
         /\ SentAt(users[id], k) # Nil /\ SentAt(users'[id], k) # Nil
         /\ SentAt(users'[id], k) < SentAt(users[id], k)
         => SentAt(users[id], k) > ResendDelay(k)]_vars

----------------------------------------------------------------------------
(* What the repository says of the program and the code does not do.       *)

\* Who has logged in is no guest: "should return not guest user" after
\* otp/auth (doc/test/test/otp.js:244, 255).
LoginMakesNoGuest ==
    Quiet => \A s \in Sessions :
        Bound(s) /\ <<s, sessions[s]>> \in authed => ~users[sessions[s]].guest
=============================================================================
