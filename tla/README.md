# Rauther in TLA+

Rauther is a Go library that adds registration, login, confirmation, recovery,
one-time passwords, social login and account linking to an HTTP service. The
application brings its user record, a storer of users and a storer of sessions;
the library finds out which interfaces they implement (its *modules*) and
registers the routes they allow. This directory holds TLA+ modules of the
handlers over the storers of the repository's example, configurations that
check them with TLC, and proofs about them for TLAPS.

    tlc -config one_client.cfg MCRauther.tla      # a run
    tlapm RautherProofs.tla                       # proofs, likewise the other modules

## The system

### Components, their state and their operations

| Component | Code | State | Operations |
|---|---|---|---|
| User record | `example/basic/models/user.go`, `user/user.go` | one identity per method (uid, password, codes, confirmed, sent time), guest and temp flags | getters, setters, `NewUser` |
| User storer | `example/basic/models/user.go`, `storage/storage.go` | the map of users, under an `RWMutex` | `LoadByUID`, `LoadByID`, `Create`, `Save`, `RemoveByID`, `RemoveByUID` |
| Sessions | `example/basic/models/sessions.go`, `session/` | session id → user id, token | `LoadByID`, `FindByToken`, `BindUser`, `UnbindUser`, `Save` |
| Middleware | `middleware.go`, `session.go` | none of its own | token → session, session → user, `checkSession` |
| Session routes | `session.go`, `authable.go`, `guest.go` | — | `auth`, `logout`, `createGuestUser` |
| Password | `password.go` | — | `register`, `login`, `initLink`, `link` |
| Codes | `confirm.go`, `recovery.go` | codes and sent time in the identity | `confirm`, `resend`, `recover`, `reset` |
| OTP | `otp.go` | the code in the identity's password | `otp/code`, `otp/auth` |
| Social | `social.go` | — | `social/login` |
| Linking | `linking.go` | — | `checkUserCanLinkAccount`, `initLinkAccount`, `linkAccount`, `mergeUsers`, `moveAuthIdentities` |
| Methods | `authtype/`, `rauther.go`, `includes.go` | the list of methods, the default sender | `AddAuthMethod`, `DefaultSender`, `InitHandlers`, `Select` |
| Start | `rauther.go`, `includes.go`, `checker/`, `modules/` | the modules that are on, the routes registered | `New`, setting a module, `InitHandlers` |
| Profile | `example/basic/main.go`, `controllers/` | — | `UpdateProfile`, a route of the application |
| Around them | `config/`, `code/`, `sender/`, `hooks/`, `common/`, `deps/` | constants | mail, wording |

### How they interact

A request passes the session middleware, which finds the session of its token,
and reaches a handler. The handler calls `checkSession` (the session's user id,
then that user), looks up the user its parameters name, decides, changes the
*copy* it holds, and saves, removes and binds in several further calls. Users
reach handlers as copies; the session is one object that all requests with its
token share. Nothing but the storer's own mutex orders the calls of two requests.

What is hard about it:

- **Two requests at once.** Every handler reads, decides on a copy and writes
  later. Only `Save`'s own loop looks again.
- **Steps half done.** Linking removes one account and then saves another; login
  binds the session and then saves.
- **Long sequences of legal calls.** Guests turn into users, temporary users into
  identities of other accounts, and logout and login delete guests. Sessions may
  stay bound to an account that a merge removed.
- **Locks.** The storer's methods loop over a map under one `RWMutex` and return
  from inside their loops.
- **Configuration.** The library asserts interfaces of the application's user in
  every handler, most of them without looking whether the assertion holds; what
  keeps them from failing is what `InitHandlers` has checked.
- **Time.** Codes expire and may not be sent too often; confirmation and recovery
  share the one sent time of an identity.

### What makes each component correct

- Storer: an identity (method, uid) belongs to one account at most; a call takes
  effect at one instant, and returns.
- Sessions: a session acts for a registered user only after presenting that
  user's credentials, never for a temporary one.
- Codes and OTP: an identity counts as confirmed only by proof; a code is good
  once; a confirmation is not taken back; codes are spaced out.
- Guests, linking, merging: removing guests and temporary users and merging
  accounts loses nothing its owner did not agree to lose; only confirmed
  accounts are linked.
- Start: a program that is not stopped at its start meets no failing assertion
  later, and none is stopped for what the library detected itself.
- Methods: `Select` finds the method a request is for, and none is left without
  a sender it needs.

## The modules

    UserModel        the user record                     ModelLemmas   lemmas on both
      UserStore      the storer, a call a step
        AtomicStore    calls that begin, take effect and end
        LockedStore    the same under RWMutex            LockedStoreProofs
          MCLockedStore
        Requests     requests in service, shared steps, time
          SessionHandlers  PasswordHandlers  CodeHandlers  ProfileHandlers
          LinkHandlers
            OTPHandlers  SocialHandlers
              Rauther      all of them: Next, Spec       RautherProofs, lemmas on steps
                AccountSafety   the properties           SequentialProofs, IdentityProofs
                                                         (requests one by one)
                  CodeTimes     ages of codes sent       ConcurrentProofs (requests at once,
                                                         of accounts, sessions and codes)
                  MCRauther, MCCodeTimes                 instances for TLC
    AuthMethods      configuration of the methods        AuthMethodsProofs, MCAuthMethods
    Startup          modules, checks, routes, assertions StartupProofs

**State.** `users` is the storer's map, `sessions` the `UserID` field of each
session object and `issued` the sessions that hold a token. `pc`, `arg` and
`loc` hold, for each request in service, where its handler is, its parameters,
and the handler's variables (`sessionInfo` and the user in hand). Four history
variables no guard reads record what clients did: `proved` (identities a client
entered a code for or a provider vouched for), `authed` (the users a session
presented credentials of), `spent` (codes used up) and `waived` (identities
given up by a merge the client confirmed).

**Actions.** One action is one call to a storer or one access to the shared
session object, with the computation and guards that follow it up to the next
such call; that is where another request may come in between. So `login` is
`SignInBegin`, the two accesses of `checkSession`, `SignInLoad` (the load and the
comparison), `SignInBind`, `SignInSave` and `RemoveGuest`. The link routes begin
with two more, those of the middleware (`MiddlewareUserID`, `UserMiddleware`). An
early return is a `…Refuse` action or the `Return` branch of a failed save.

**Abstractions.** A password hash matches the password it was made of; a code is
any member of `Codes`. A missing entry of the identity map is `ZeroIdentity`,
which is what every getter of the example returns for it. A mail that cannot be
sent is logged and nothing more, except by `otp/code`, which gives up. The
instant a code was sent is replaced by its age, up to `MaxAge`: handlers only
compare the instant with the present. Ids are drawn from those nothing refers to
any more (`FreeIds`): the example draws 64 random bits, and an id nothing refers
to cannot be told from one never drawn, so a few ids serve runs of any length.
A handler that panics (linking with no current user) ends its request there
and changes nothing. Where a program is set up with request fields its user does
not have, `fillFields` fails and the handler gives up as it does when `Save`
fails, in the same place and with the same things done before: `SaveMayFail`
stands for either, as `SocialRefuse` does for a new social user. The
application's `Merge` may refuse a merge (`LinkAccountRefuse`). `RemoveByID` does
not fail: the example's never does.

`LockedStore` opens up the one step that a call to the storer is in `Requests`:
taking the `RWMutex`, each turn of the loops over the map and over the
identities of the user to save, the write, the deferred unlock. `RWMutex` models
Go's lock as its documentation has it: a writer that waits keeps new readers
out, and the readers it kept out go before the next writer. `AtomicStore` is
what the handlers take for granted, and `CallsAreAtomic` says that `LockedStore`
implements it, with the same `users`, `call` and `answer`.

`CodeTimes` adds a history variable to `Rauther`: the age of the last
confirmation, recovery and one-time code sent to each identity. The record keeps
one sent time for all of them.

`Startup` is a program from `New` to its requests: any user model, modules set
by the application, one thing the application may have forgotten, the checks of
`InitHandlers`, the routes it registers. A request there is no more than the
interfaces its handler may come to assert; that some session has a stored user
(`bound`) is the only state of requests it depends on.

`AuthMethods` stands alone: adding methods, the default sender, the checks of
`InitHandlers`, and `Select` iterating over the methods in any order. It meets
the other modules only through the keys, which they take as constants.

Definitions called *mutated forms* are plausible wrong versions of the definition
after them. They are part of no behaviour; putting one in place of the
definition makes a property fail, which is how each property is known to have
teeth.

## The runs

| Run | Instance | Shows |
|---|---|---|
| `one_client` | every route, one device, an e-mail, a phone and a social account, 2 passwords, 2 codes, which expire | `LinksOnlyConfirmed`, `RegisteredStays`, `ConfirmationStays`, `RecoveryUsedOnce` |
| `two_sessions` | two devices that come to share accounts, any `Save` may fail | `SessionAuthenticated`, `NoTempSession`, `RegisteredStays` |
| `no_merging` | two devices, three methods, merging off | `ProvedIsKept`, `GuestHoldsNoConfirmed`, `OTPUsedOnce` |
| `concurrent_password` | two devices, two requests at once: register, login, logout, confirm, profile | `TypeOK`, `UniqueIdentities`, `ConfirmedByProof`, `SessionAuthenticated` |
| `code_times` | codes age | `CodesAreSpaced`, `OTPsExpire`, `CodesExpireTogether` |
| `locked_store` | three goroutines, two users, one address, every method | `LockedTypeOK`, `WriterIsAlone`, `CallsAreAtomic`, `CallsReturn` |
| `startup` | every user model, two modules set, one thing forgotten | `RequestsFindInterfaces`, `DetectionIsAccepted` |
| `auth_methods` | three methods, every configuration | `MethodsTypeOK`, `SelectsTheOnlyMatch`, `NoMethodLacksSender` |
| `guest_login` | violation | `LoginMakesNoGuest` |
| `otp_used_twice` | violation | `OTPUsedOnce` |
| `default_sender` | violation | `DefaultSenderIsUsed` |
| `guestless_auth` | violation | `GuestsAreOptional` |

Two devices linking and merging at once are in no run: the three invariants that
hold there, `UniqueIdentities`, `ConfirmedByProof` and `SessionAuthenticated`,
are proved for any number of them, and the others do not hold (below).

### Findings

- `guest_login`: `otp/auth` clears the guest flag of a user `otp/code` created
  only if the session has a guest of its own (`otp.go:261`). A session bound to
  an account that a merge removed has none, and is logged in as a guest with a
  confirmed identity, which the next logout deletes. The API tests expect
  otherwise (`doc/test/test/otp.js:244`, `:255`).
- `otp_used_twice`: the code is compared on a copy and cleared by a later save,
  so two requests at once use it twice (`otp.go:253`), against "one time
  password" in the repository's README.
- `default_sender`: `checkSender` gives the default sender to a loop's copy of
  the method (`includes.go:156`), against README line 297 and `rauther.go:133`.
- `guestless_auth`: `POST auth` asserts the session's user to be a `GuestUser`
  whether or not guests are on (`session.go:40`), and panics in an application
  whose user model has none, once a registered client asks for a new token.
  `checkSession` guards the same assertion, and the README presents guests as a
  layer to be enabled (line 74).

### What holds, and when

`RegisteredStays` has one exception: a merge the client confirmed, with a request
that carries the credentials of the account it removes, as stored at the time (the
password, the one-time code, the provider's word). `ConfirmedByProof` is about
identities and not about accounts: somebody has proved at some time to hold each
identity that counts as confirmed. It does not say that they have not given it up
since, for the save of an old copy (`controllers/user.go:81`, `password.go:214`)
may bring back, confirmed, an identity that a merge dropped.

`UniqueIdentities`, `ConfirmedByProof`, `SessionAuthenticated`, `OTPsExpire` and
`CodesExpireTogether` hold whatever requests do to each other. The rest hold for
requests served one after the other, some of them only under further conditions
(below). All of this is proved. Two requests at once break these:

- `RegisteredStays`: logout, and the login that drops its session's guest, remove
  an account that registered after `checkSession` saw a guest;
- `ConfirmationStays`: login, resend and recovery write a copy back;
- `OTPUsedOnce`, `RecoveryUsedOnce`: compared first, cleared later;
- `CodesAreSpaced`: the delay is checked first, the new time saved later;
- `LinksOnlyConfirmed`: two registrations of one guest, each with its own method,
  save one after the other;
- `NoTempSession`, `GuestHoldsNoConfirmed`, `ProvedIsKept`: consequences of the
  above.

With failing saves `ProvedIsKept`, `LinksOnlyConfirmed`, `OTPUsedOnce` and
`GuestHoldsNoConfirmed` are lost (linking removes, and login binds, before it
saves), so `two_sessions` checks what remains.

`ProvedIsKept` and `GuestHoldsNoConfirmed` fail through the guest of the first
finding wherever a session without a stored user can log in by a one-time
password. There are two ways to such a session. With merging on, a merge may
remove the user of another session; that is why their run has `MergeAccount` off.
And in an application with guests whose user model is no `PasswordAuthableUser`,
`POST auth` creates no guest (`session.go:47` asks for both modules), so every
session begins without a user: log in by a code, log out, and the account is
gone. Where neither is the case, no session is without a user and both
properties are proved.

Of codes (`CodesExpireTogether`): a confirmation code opens nothing after its
life time unless a recovery code for the same identity was sent since, and the
other way round, because either is stamped into the one `SentAt` (`confirm.go:66`,
`recovery.go:172`). One-time passwords have their identity's sent time to
themselves, and `OTPsExpire` holds without exception.

Of the storer (`CallsReturn`): a call returns as long as nobody calls
`RemoveByUID`, which locks the mutex and then waits for it in `LoadByUID`
(`user.go:326`), for good and with everybody behind it. Nothing calls it.

Of the start, `RequestsFindInterfaces` names the assertions that can still fail
in a running program: the user of `POST auth` above; `CustomMergeUser`, for
`CustomizableMergeAccount` forced on is never checked (`linking.go:132`);
`ConfirmableUser`, which `checkLink` takes the word of the module for and
`includeConfirmable` checks only in a program with password routes
(`linking.go:174`); and guests forced on in a program without `AuthableUser`. And
`DetectionIsAccepted` names the one case in which a program is stopped for
what `New` has turned on: a user model with `TempUser` and without
`ConfirmableUser`, or with `ConfirmableUser` turned off, as the README's example
does (line 327), so long as `LinkAccount` stays on.

### Bounds

- *Users.* Three ids (four for two devices) and `HasRoom`: a route that may create
  a user begins only while an id is left for it and for each request in service.
  The interesting situations involve a current user, the owner of the requested
  identity, and a guest or temporary user on its way out.
- *Requests.* One where a property is sequential, two where it is not. The races
  of this code are between one stale copy and one writer.
- *UIDs, passwords, codes.* Handlers only compare them for equality: one address
  makes all clients compete for it, and a second password or code tells a wrong
  guess and an old value from a good one.
- *Time.* In `code_times`, life times of one and two units, delays of one, and
  ages up to three units: below, at and above each limit. `one_client` has codes
  that are good for the instant and expire with the first unit. Elsewhere
  `CodeSentTimeUser` is off. `OTPUsedOnce` is checked without it: with sent
  times, clearing the time of a used code already keeps it from being used again.
- *Symmetry* over ids, requests, sessions, addresses, passwords and codes, which
  no definition tells apart; not over keys. No run with symmetry checks liveness.
- *Storer.* Three clients are a writer, a reader it waits for and a reader it
  keeps out, or two writers and a reader. Two users and one address contend for
  one identity.
- *Start.* All user models that respect the embedding of the interfaces. Two
  modules set reach every pair of a module and one it depends on; one thing
  forgotten at a time, since each stops the program by itself.

### Fairness

`LockedStore` assumes weak fairness of every step a client takes once its call
has begun, because Go's scheduler runs every goroutine that can run, and strong
fairness of taking the lock to write, because `sync.Mutex` hands itself to a
waiter that has waited too long. It assumes nothing of `Call`: no client has to
make one. `CallsReturn` holds under that fairness and is only model-checked.

The handlers' modules assume none and claim no liveness. A handler runs to its
end unless the process stops, no handler waits for another but in the storer,
and a request that is dropped half-way is among the behaviours of `Spec`; the
properties must hold there too. Deadlock is checked in every run of `Rauther`.
`AuthMethods` and `Startup` end by design, and `LockedStore` stops when
`RemoveByUID` is called.

## The proofs

`tlapm` checks these, for every value of the constants that meets their
assumptions.

| Module | Theorems |
|---|---|
| `RautherProofs` | `TypeCorrect == Spec => []TypeOK`, `IdentitiesUnique == Spec => []UniqueIdentities` |
| `ConcurrentProofs` | `ConfirmedOnlyByProof == Spec => []ConfirmedByProof`, `SessionsAuthenticated == Spec => []SessionAuthenticated`, `SentTimesTrue == TimedSpec => []DatedInv`, `OTPsDoExpire == CodeSentTimeUser => (TimedSpec => OTPsExpire)`, `CodesDoExpire == CodeSentTimeUser => (TimedSpec => CodesExpireTogether)` |
| `SequentialProofs` | `NobodyTemporary == OneAtATime => (Spec => []NoTempSession)` and, likewise, `RegistrationLasts` (`RegisteredStays`), `ConfirmationLasts` (`ConfirmationStays`), `CodesKeepDistance` (`CodesAreSpaced`), `RecoveryCodesOnce` (`RecoveryUsedOnce`); `OTPsOnce == OneAtATime /\ ~SaveMayFail => (Spec => OTPUsedOnce)` |
| `IdentityProofs` | `LinksByConfirmed == OneAtATime /\ ~SaveMayFail => (Spec => LinksOnlyConfirmed)`, `GuestsUnconfirmed == OneAtATime /\ ~SaveMayFail /\ Steady => (Spec => []GuestHoldsNoConfirmed)`, `ProvedKept` (`ProvedIsKept`), likewise |
| `LockedStoreProofs` | `LockedTypeCorrect == Spec => []LockedTypeOK`, `StoreIsAtomic == Spec => CallsAreAtomic`, `MapIsGuarded == Spec => []WriterIsAlone` |
| `AuthMethodsProofs` | `MethodsTypeCorrect == Spec => []MethodsTypeOK`, `SelectIsDeterminate == Spec => []SelectsTheOnlyMatch`, `SendersChecked == Spec => []NoMethodLacksSender` |
| `StartupProofs` | `InterfacesFound == Spec => []RequestsFindInterfaces`, `DetectedIsAccepted == Spec => []DetectionIsAccepted` |

Some theorems have a hypothesis on the constants. `OneAtATime` says that `Procs`
has at most one element: without it two requests at once break the property
(above).
`~SaveMayFail` says that `Save` refuses nothing but duplicates: if the `Save` at
the end of `otp/auth` fails, the code that has just logged in stays good; and where
the `Save` of a link or a login fails, the parked user or the guest it was to
replace has been removed already.
`Steady` is `~MergeAccount /\ (GuestUser => PasswordAuthableUser)`, the
applications in which no session with a token is left without a user; outside it
the two properties fail, as said above. `no_merging` is such an instance.
`CodeSentTimeUser` is the module that gives codes a time: without it they have
none and never expire.

### Requests at once

`TypeOK` is inductive because of `RequestOK`: at each label, the request has the
parameters of a route that passes the label, with a key of the route's own kind
of method, a user in hand where the handler goes on to use one, and no guest flag
without a user. Without it nothing would say that, say, `SignInBind` has a user
to bind.

`RautherProofs` shows that every step of a request is `Sound`: it makes at most
one call to the storer (`Save` of a user, or `RemoveByID`), and keeps the types
of the rest. There is one lemma per handler module and a step per action in it;
`ModelLemmas` has what setters and storer methods return. `SoundSteps` then
gives both theorems their inductive step: a save that is not refused adds no
second owner (`PutUnique`), and removing and ageing add none.

`ConcurrentProofs` has an invariant for each of three questions. `ConfirmedByProof`
speaks of stored users only and is not inductive: a request may save a copy it took
long before. It is strengthened to
`VouchedInv`, which says the same of the two copies every request holds
(`CopiesVouched`). Then each setter is shown to keep a user vouched for, with
`SetConfirmed` asking for the proof (`SetConfirmedVouched`); a load returns the
user under the uid the client named (`FoundVouched`), so the proof a handler
records is of the identity it confirms (`ConfirmFound`); and linking and merging
carry over only what was confirmed (`LinkVouched`, `MergeVouched`).

`SessionAuthenticated` is about stored users and bindings, while requests carry
copies of both for several steps. It is strengthened to `SessionInv`.
A session *claims* a user if it is bound to the user or a request of it holds the
user as its current one, or is on its way to bind to it. `SoleClaim` says: a
session that claims a user it has not authenticated as is the only one to claim
it, and every copy of that user anywhere, stored or in hand, is a *blank* guest,
one with no identity. A blank guest cannot be found by uid, so no other session
can come to claim it, and no code can be entered for it; and a handler that
registers the guest authenticates its session in the same step. `StepSole` states
what an action has to see to (which users it claims, where its copies come from),
there is a lemma per handler module and a step per action, and
`NextSole` collects them.

Both expiry properties, in the last part of the module, rest on one invariant, `DatedInv`: whenever a user record,
stored or in the hands of a request, remembers a sent time for an identity, some
code of the identity's kinds really was sent to it, and no longer ago than that.
It has to be said of copies, since a copy may be saved after another request has
sent a newer code; that only makes the remembered time an older one, and a
code expires early rather than late. `StampCode` is the one operation that could
break it, and each of the five handlers that call it sends a code to that very
identity in the same step (`SentDated`); `SetUID`, linking and merging leave the
time behind (`SetUIDInherits`, `LinkInherits`, `MergeInherits`); and time ages
both sides alike.

### Requests one after the other

`SequentialProofs` has one invariant for the first four properties. `SeqInv` says, label by
label, how the request in service relates to what is stored (`AloneOK`):

- `CurrentOK`: the copy of the session's user is still what is stored (`Fresh`),
  and it is not temporary. Linking saves to the copy only if the identity it
  links is not that of the same account.
- `RemovalOK`: whoever the handler is about to remove is a guest or temporary
  (`Dispensable`), also after the save that comes in between in `login` and
  `social/login`.
- `HandOK`: the user in hand *succeeds* the stored one it is to replace
  (`Succeeds`: no confirmation taken back, no code sooner than `ResendDelay` after
  the last, nobody made temporary); it is not temporary where its id is to be
  bound, and if it is temporary no session is bound to it. From the comparison in
  `link` and `otp/auth` until linking removes it, the request holds the
  credentials of the user as stored (`ConfirmedCredentials`,
  `LinkedCredentials`), although `LinkSave` writes it in between.

Two more parts tie the store itself down: no session is bound to a temporary
user, and a temporary user has no social identity (`TempOK`) — which is why
`social/login`, alone among the logins, need not look at the flag. `FoundFacts`
needs `UniqueIdentities`: what is found by an identity is its one owner, so it is
the session's own user or somebody else, and never an old copy.

`Fine(p)` is what a step of a request may do: save a user that succeeds the
stored one, remove one that is dispensable (or that a client confirmed a merge
of, with its credentials), or bind a session to a user that is not temporary, and end in a state
`AloneOK` again. One lemma per handler module shows each action to be `Fine`
(`StepAlone`), whether or not saves fail; `FineInOrder` and `TickInOrder` draw the
consequences for the store (`Persists`), which are the four properties.

`OnceInv`, on top of `SeqInv`, is about codes. `spent` has the identities whose
last code has been taken. No stored user, and no copy in hand, has a code for one of
them (`Clean`, `UsedUp`), but for the handlers that are about to save: `otp/auth`
between the binding and its `Save`, where the old code still is stored (`Due`), and
`otp/code` and `recover/request`, with the new code in hand (`DueInHand`). A
handler compares with the stored user it has found, a code is never empty, and so
the codes taken are not of spent identities. That the identity has one owner,
throughout the steps of a login (`Sole`), is what makes its last `Save` meet no
duplicate, and so the code go; it also takes care of the guest that `otp/auth`
joins to another, which owns the identity until it is removed. Setters keep the
codes of other identities (`Retains`), and linking and merging hand none on
(`LinkedRetains`). `OnceKeys` leaves one-time passwords out where saves may fail:
`RecoveryUsedOnce` holds in spite of that, as the recovery code counts as traded
once the new password is saved, and is gone with the same `Save`.

`IdentityProofs` adds a third invariant, `IdentityInv`, to these two (`WholeInv`).
The three properties of identities are not inductive, because a handler breaks
them on its way and repairs them by its last `Save`. So the invariant names, label
by label, what is still owed:

- `StoreOK`: a guest has one identity at most, and that of an OTP method; guests
  and temporary users never more than one (`GuestOK`). If a session comes back to
  a guest with an identity, the identity is confirmed, except for the guest
  `otp/auth` has bound and is about to save (`Logging`).
- `GuestsBound`: a session with a token has a user, and the user is stored, except
  while `auth` and `logout` create the next guest (`Userless`) and while `otp/auth`
  has removed the guest but not bound yet (`Adrift`). A guest belongs to one session.
  This is the part that needs `Steady`.
- `ProvedOwned`: every proved identity has an owner, except for the identity
  of the request while its parked user is removed and the account it goes to is
  not saved (`Restored`). `LinksOK` says that the user in hand has the identity
  then and that the `Save` meets no duplicate.
- `SessionUserOK`, `InHandOK` and `PresentOK` tie the handler's copies to that, and
  `LosesOK` says that whoever is about to be removed has no identity but the one at
  hand.

A `Save` owes to the stored user what `Replaces` says: no identity
added to an unconfirmed account that holds one, none dropped (with `Steady`), and a
guest saved as a guest was one before, with the same identities.
`Traced` is what a step may do to the store and the history, and `Kin` adds that
the request ends where the invariant holds again. One lemma per handler module
shows each action to be `Kin` (`StepKin`), `TickKin` lets time pass, and
`WholeMeans` and `NoMoreUnconfirmed` read the three properties off. `StoreOK`,
`SessionUserOK` and `InHandOK` hold with merging on as well, which is all
`LinksOnlyConfirmed` takes. `UniqueIdentities` enters once more: the owner of an
identity to be linked is the parked user and nobody else.

### The storer, the methods, the start

`LockedStoreProofs` maps each step of `LockedStore` to one of `AtomicStore` or to
none. A load takes effect when its loop finds the user or its end, a `Save` when
it writes or meets a duplicate. The invariant `LockedInv` says what each label holds of the
mutex (`MutexOK`), and what the loops have established (`LoopOK`): the users
passed over do not own the identity looked for, and the identities compared are
nobody else's. Both stay true because nobody writes while anybody loops. It also
needs `Unique(users)`: `GetUserIDByUID` answers with any owner, and that is the
right one only if there is no other.

`AuthMethodsProofs` strengthens its properties to `SelectInv`, whose `LoopOK` is
the invariant of `Select`'s loop: of the methods visited so far one at most has
the type asked for, and that is the one remembered. It is where the order of
iteration drops out. `StartupProofs` uses `StartInv`: a program that runs has
been through every check of `InitHandlers`, with the types of method it has, and
has the routes they allow. Then each route's assertions are found in what the
checks establish (`RouteFacts`, `ForcedOn`), whichever modules the application
set.

### What the proofs assume, and what they leave

The theorems on handlers use `NilIsNoValue`, `MaxAgeIsNat` and
`FlagsAreBooleans`; those on times and on requests one after the other also
`KindsDisjoint` and `DelaysBelowMaxAge`, the latter `EmptyIsNoValue` as well; those on
the storer `NilIsNoValue`, `CallsTyped`, `NilIsNoCall` and `AnswersDistinct`;
those on the methods `NoneIsNoMethod` and `DefaultKeyIsKey`; those on the start
`NoneIsNoOmission`. All but two say that values that stand for nothing are not
values and that parameters have their types. `DelaysBelowMaxAge` says ages are
told apart as far as any limit reaches. `KindsDisjoint` holds because the list of
methods is a map from keys, and a method has one type.

Of the properties the passing runs check, `CallsReturn` alone is only
model-checked: it is liveness, and needs `ENABLED`. All the others are proved.

## Not modelled

- Requests and answers: parsing, wording, hooks, the selector of the default
  request types; senders (I/O only); code generators beyond what they return.
- `register/check`, `recover/validate` and `GET auth`, which only read.
- The application's own providers of social login: a refused token changes
  nothing.
- How `CheckFieldsDefine` and `CheckMergeModuleSupport` read request types by
  reflection; that they stop a program is in `Startup`.
- The rest of the example application: wiring, and two pieces of code that range
  over the maps of users and sessions without their locks, the logging of every
  request (`main.go:47`) and the test route that empties the storers
  (`controllers/user.go:89`).
- `Sessioner`'s own lock, which each of its methods holds from its first line
  to its last, as the storer's do.
- Tokens: whoever has the token of a session is that session's client.

## Plan

In this order; all but 13 are done.

1. The record, the storer and the routes of one method: password, confirmation,
   recovery.
2. Linking, OTP and social login over the same storer; time.
3. The configuration of the methods.
4. `TypeCorrect` and `IdentitiesUnique`.
5. `ConfirmedOnlyByProof`.
6. `CodeTimes`; `LockedStore`, with the fairness of its lock and its refinement
   of `AtomicStore`, and the proofs of that.
7. The example's profile update; `Startup`.
8. `SessionsAuthenticated`.
9. Proofs about `AuthMethods`, `Startup` and `CodeTimes`.
10. Requests one after the other: `NoTempSession`, `RegisteredStays`,
    `ConfirmationStays`, `CodesAreSpaced`.
11. The same for `RecoveryUsedOnce` and `OTPUsedOnce`.
12. `LinksOnlyConfirmed`, `GuestHoldsNoConfirmed` and `ProvedIsKept`, on top of
    `SeqInv`, where saves do not fail.
13. `Accounts`: an abstract specification of accounts and identities (register,
    prove, link, merge, drop), with Rauther shown to implement it when requests
    are served one after the other.
