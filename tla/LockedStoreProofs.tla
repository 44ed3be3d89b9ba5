-------------------------- MODULE LockedStoreProofs --------------------------
(***************************************************************************)
(* The storer of the example is atomic, for any number of clients, users   *)
(* and methods, and whatever calls are made.                               *)
(***************************************************************************)
EXTENDS LockedStore, ModelLemmas

\* RemoveByUID waits for itself.
Stuck(c) == At(c, "kept") /\ call[c].op = "RemoveByUID"

\* Where a client is tells what call it makes, and whether it has its answer.
CallOK(c) ==
    /\ At(c, "idle") <=> call[c] = Nil
    /\ pc[c] \in {"rlock", "runlock"} => call[c].op \in {"LoadByUID", "LoadByID"}
    /\ At(c, "kept") => call[c].op \in {"LoadByUID", "LoadByID", "RemoveByUID"}
    /\ pc[c] \in {"lock", "drain"} =>
         call[c].op \in {"Save", "RemoveByID", "RemoveByUID"}
    /\ At(c, "scan")    => call[c].op = "LoadByUID"
    /\ At(c, "read")    => call[c].op = "LoadByID"
    /\ At(c, "compare") => call[c].op = "Save"
    /\ At(c, "delete")  => call[c].op = "RemoveByID"
    /\ At(c, "reload")  => call[c].op = "RemoveByUID"
    /\ answer[c] # Nil <=> pc[c] \in {"runlock", "list", "unlock"}
    /\ pc[c] \in {"idle", "rlock", "kept", "lock", "drain", "reload"} => seen[c] = {}

\* Where a client is tells what it holds of the mutex.
MutexOK(c) ==
    /\ pc[c] \in {"scan", "read", "runlock"} => c \in readers
    /\ At(c, "drain") => writer = c
    /\ pc[c] \in {"compare", "delete", "list", "reload", "unlock"} \/ Stuck(c)
         => writer = c /\ readers = {}

\* The users passed over own the identity no more than when they were met,
\* and the identities compared are still nobody else's.
LoopOK(c) ==
    /\ At(c, "scan") =>
         seen[c] \cap Owners(users, call[c].key, call[c].uid) = {}
    /\ At(c, "compare") =>
         \A k \in seen[c] \cap Keys :
           Owners(users, k, GetUID(call[c].user, k)) \subseteq {call[c].user.id}

LockedInv ==
    /\ LockedTypeOK
    /\ \A c \in Clients : CallOK(c) /\ MutexOK(c) /\ LoopOK(c)
    /\ Unique(users)

\* A call carries what its type says.
LEMMA CallFields ==
  ASSUME NEW x \in Calls
  PROVE  /\ x # Nil
         /\ x.op \in {"LoadByUID", "LoadByID", "Save", "RemoveByID", "RemoveByUID"}
         /\ x.op = "Save" => x.user \in User
         /\ x.op \in {"LoadByUID", "RemoveByUID"} => x.key \in Keys /\ x.uid \in UIDs
         /\ x.op \in {"LoadByID", "RemoveByID"} => x.id \in UserIds
  BY CallsTyped, NilIsNoCall DEF CallTypes

\* The storer starts empty and unlocked.
LEMMA LockedInit == Init => LockedInv
  BY DEF Init, MutexInit, LockedInv, LockedTypeOK, Labels, CallOK, MutexOK, LoopOK,
         Stuck, At, Unique, Stored

\* Calls and their answers.
LEMMA AnswerFacts ==
  /\ \A u \in User : u # Nil /\ u.id \in UserIds
  /\ Ok # Nil /\ Error # Nil /\ Nil \notin Clients
  BY NilIsNoValue, AnswersDistinct, NilIsNoCall DEF User

----------------------------------------------------------------------------
(* A step keeps the invariant.                                             *)

\* The steps that leave the map of users alone.
LEMMA CallInv == ASSUME LockedInv, NEW c \in Clients, Call(c) PROVE LockedInv'
  <1>1. PICK x \in Calls :
          /\ call' = [call EXCEPT ![c] = x]
          /\ Goto(c, IF x.op \in {"LoadByUID", "LoadByID"} THEN "rlock" ELSE "lock")
    BY DEF Call
  <1>2. LockedTypeOK'
    BY <1>1 DEF LockedInv, LockedTypeOK, Call, Goto, Labels, mutex
  <1>3. ASSUME NEW d \in Clients PROVE (CallOK(d) /\ MutexOK(d) /\ LoopOK(d))'
    <2>1. CASE d = c
      BY <1>1, <2>1, CallFields
         DEF LockedInv, LockedTypeOK, Call, Goto, At, mutex, CallOK, MutexOK, LoopOK, Stuck
    <2>2. CASE d # c
      BY <1>1, <2>2
         DEF LockedInv, LockedTypeOK, Call, Goto, At, mutex, CallOK, MutexOK, LoopOK, Stuck
    <2> QED BY <2>1, <2>2
  <1> QED BY <1>2, <1>3 DEF LockedInv, Call

LEMMA RLockInv == ASSUME LockedInv, NEW c \in Clients, RLock(c) PROVE LockedInv'
  <1>2. LockedTypeOK'
    BY DEF LockedInv, LockedTypeOK, RLock, EnterRead, WaitForWriter, Reading, Goto, Labels
  <1>3. ASSUME NEW d \in Clients PROVE (CallOK(d) /\ MutexOK(d) /\ LoopOK(d))'
    <2>1. CASE d = c
      BY <2>1, AnswerFacts
         DEF LockedInv, LockedTypeOK, RLock, EnterRead, WaitForWriter, Reading, Goto, At,
             CallOK, MutexOK, LoopOK, Stuck
    <2>2. CASE d # c
      <3>1. pc'[d] = pc[d] /\ UNCHANGED <<users, call, answer, seen, writer>>
        BY <2>2 DEF LockedInv, LockedTypeOK, RLock, EnterRead, WaitForWriter, Goto
      <3>2. readers \subseteq readers' /\ (writer = d => UNCHANGED readers)
        BY AnswerFacts DEF RLock, EnterRead, WaitForWriter
      <3> QED
        BY <3>1, <3>2 DEF LockedInv, At, CallOK, MutexOK, LoopOK, Stuck
    <2> QED BY <2>1, <2>2
  <1> QED BY <1>2, <1>3 DEF LockedInv, RLock

LEMMA LetInInv == ASSUME LockedInv, NEW c \in Clients, LetIn(c) PROVE LockedInv'
  <1>2. LockedTypeOK'
    BY DEF LockedInv, LockedTypeOK, LetIn, Reading, Goto, Labels, mutex
  <1>3. ASSUME NEW d \in Clients PROVE (CallOK(d) /\ MutexOK(d) /\ LoopOK(d))'
    <2>1. CASE d = c
      BY <2>1
         DEF LockedInv, LockedTypeOK, LetIn, Reading, Goto, At, mutex,
             CallOK, MutexOK, LoopOK, Stuck
    <2>2. CASE d # c
      BY <2>2
         DEF LockedInv, LockedTypeOK, LetIn, Reading, Goto, At, mutex,
             CallOK, MutexOK, LoopOK, Stuck
    <2> QED BY <2>1, <2>2
  <1> QED BY <1>2, <1>3 DEF LockedInv, LetIn

LEMMA LoadInv ==
  ASSUME LockedInv, NEW c \in Clients, Visit(c) \/ NotFound(c) \/ Read(c)
  PROVE  LockedInv'
  <1>1. call[c] # Nil /\ call[c] \in Calls
    BY DEF LockedInv, LockedTypeOK, CallOK, Visit, NotFound, Read, At
  <1>2. \A id : LoadByID(users, id) \in User \cup {Nil}
    BY LoadType DEF LockedInv, LockedTypeOK, Storer
  <1>3. LockedTypeOK'
    BY <1>2 DEF LockedInv, LockedTypeOK, Visit, NotFound, Read, Stored,
            Settle, Saw, Goto, Labels, mutex
  <1>4. ASSUME NEW d \in Clients PROVE (CallOK(d) /\ MutexOK(d) /\ LoopOK(d))'
    <2>1. CASE d = c
      BY <1>2, <2>1, AnswerFacts
         DEF LockedInv, LockedTypeOK, Visit, NotFound, Read, Stored, Settle, Saw, Goto, At,
             mutex, CallOK, MutexOK, LoopOK, Stuck
    <2>2. CASE d # c
      BY <2>2
         DEF LockedInv, LockedTypeOK, Visit, NotFound, Read, Settle, Saw, Goto, At,
             mutex, CallOK, MutexOK, LoopOK, Stuck
    <2> QED BY <2>1, <2>2
  <1> QED BY <1>3, <1>4 DEF LockedInv, Visit, NotFound, Read

LEMMA LockInv ==
  ASSUME LockedInv, NEW c \in Clients, Lock(c) \/ Locked(c) \/ Reload(c)
  PROVE  LockedInv'
  <1>2. LockedTypeOK'
    BY DEF LockedInv, LockedTypeOK, Lock, Locked, Reload, TakeWriter, WaitForWriter,
           Goto, Labels, mutex
  <1>3. ASSUME NEW d \in Clients PROVE (CallOK(d) /\ MutexOK(d) /\ LoopOK(d))'
    <2>1. CASE d = c
      <3>1. CASE Lock(c)
        BY <2>1, <3>1
           DEF LockedInv, LockedTypeOK, Lock, TakeWriter, Goto, At,
               CallOK, MutexOK, LoopOK, Stuck
      <3>2. CASE Locked(c)
        BY <2>1, <3>2
           DEF LockedInv, LockedTypeOK, Locked, Drained, Goto, At, mutex,
               CallOK, MutexOK, LoopOK, Stuck
      <3>3. CASE Reload(c)
        BY <2>1, <3>3
           DEF LockedInv, LockedTypeOK, Reload, WaitForWriter, Goto, At,
               CallOK, MutexOK, LoopOK, Stuck
      <3> QED BY <3>1, <3>2, <3>3
    <2>2. CASE d # c
      <3>1. pc'[d] = pc[d] /\ UNCHANGED <<users, call, answer, seen, readers>>
        BY <2>2 DEF LockedInv, LockedTypeOK, Lock, Locked, Reload, TakeWriter,
                    WaitForWriter, Goto, mutex
      <3>2. writer = d => UNCHANGED writer
        BY AnswerFacts DEF Lock, Locked, Reload, TakeWriter, WaitForWriter, mutex
      <3> QED
        BY <3>1, <3>2 DEF LockedInv, At, CallOK, MutexOK, LoopOK, Stuck
    <2> QED BY <2>1, <2>2
  <1> QED BY <1>2, <1>3 DEF LockedInv, Lock, Locked, Reload

LEMMA CompareInv ==
  ASSUME LockedInv, NEW c \in Clients, CompareIdentity(c) \/ List(c)
  PROVE  LockedInv'
  <1>1. LockedTypeOK'
    BY DEF LockedInv, LockedTypeOK, CompareIdentity, List, Settle, Saw, Goto, Labels, mutex
  <1>2. ASSUME NEW k \in Keys, NEW u \in User,
               u.id \in Owners(users, k, GetUID(u, k)), Present(u, k)
        PROVE  Owners(users, k, GetUID(u, k)) \subseteq {u.id}
    BY <1>2 DEF LockedInv, Unique, Owners
  <1>3. ASSUME NEW d \in Clients PROVE (CallOK(d) /\ MutexOK(d) /\ LoopOK(d))'
    <2>1. CASE d = c
      <3>1. CASE CompareIdentity(c)
        <4>1. call[c] \in Calls /\ call[c].user \in User
          BY <3>1, CallFields DEF LockedInv, LockedTypeOK, CallOK, CompareIdentity, At
        <4> QED
          BY <1>2, <2>1, <3>1, <4>1, AnswerFacts
             DEF LockedInv, LockedTypeOK, CompareIdentity, Settle, Saw, Goto, At, mutex,
                 CallOK, MutexOK, LoopOK, Stuck
      <3>2. CASE List(c)
        BY <2>1, <3>2
           DEF LockedInv, LockedTypeOK, List, Goto, At, mutex, CallOK, MutexOK, LoopOK, Stuck
      <3> QED BY <3>1, <3>2
    <2>2. CASE d # c
      BY <2>2
         DEF LockedInv, LockedTypeOK, CompareIdentity, List, Settle, Saw, Goto, At, mutex,
             CallOK, MutexOK, LoopOK, Stuck
    <2> QED BY <2>1, <2>2
  <1> QED BY <1>1, <1>3 DEF LockedInv, CompareIdentity, List

LEMMA ReturnInv == ASSUME LockedInv, NEW c \in Clients, Return(c) PROVE LockedInv'
  <1>1. LockedTypeOK'
    BY DEF LockedInv, LockedTypeOK, Return, RUnlock, Unlock, Settle, Goto, Labels
  <1>2. ASSUME NEW d \in Clients PROVE (CallOK(d) /\ MutexOK(d) /\ LoopOK(d))'
    <2>1. CASE d = c
      BY <2>1
         DEF LockedInv, LockedTypeOK, Return, Settle, Goto, At, CallOK, MutexOK, LoopOK, Stuck
    <2>2. CASE d # c
      BY <2>2
         DEF LockedInv, LockedTypeOK, Return, RUnlock, Unlock, Settle, Goto, At,
             CallOK, MutexOK, LoopOK, Stuck
    <2> QED BY <2>1, <2>2
  <1> QED BY <1>1, <1>2 DEF LockedInv, Return

\* The two steps that write the map: nobody else is at one of its loops.
LEMMA WriteInv ==
  ASSUME LockedInv, NEW c \in Clients, PutUser(c) \/ Delete(c)
  PROVE  LockedInv'
  <1>1. call[c] \in Calls /\ Storer(users)
    BY DEF LockedInv, LockedTypeOK, CallOK, PutUser, Delete, At, Storer
  <1>2. Storer(users') /\ Unique(users')
    <2>1. CASE PutUser(c)
      <3>1. call[c].user \in User
        BY <1>1, <2>1, CallFields DEF LockedInv, CallOK, PutUser
      <3>2. ~IsDuplicate(users, call[c].user)
        BY <2>1 DEF LockedInv, LoopOK, PutUser, IsDuplicate
      <3> QED
        BY <1>1, <2>1, <3>1, <3>2, StorerSteps, PutUnique DEF LockedInv, PutUser
    <2>2. CASE Delete(c)
      BY <1>1, <2>2, StorerSteps, RemoveUnique DEF LockedInv, Delete
    <2> QED BY <2>1, <2>2
  <1>3. LockedTypeOK'
    BY <1>2 DEF LockedInv, LockedTypeOK, PutUser, Delete, Settle, Goto, Labels, mutex, Storer
  <1>4. ASSUME NEW d \in Clients PROVE (CallOK(d) /\ MutexOK(d) /\ LoopOK(d))'
    <2>1. CASE d = c
      BY <2>1, AnswerFacts
         DEF LockedInv, LockedTypeOK, PutUser, Delete, Settle, Goto, At, mutex,
             CallOK, MutexOK, LoopOK, Stuck
    <2>2. CASE d # c
      <3>1. writer = c /\ readers = {}
        BY DEF LockedInv, MutexOK, PutUser, Delete, At
      <3>2. ~At(d, "scan") /\ ~At(d, "compare")
        BY <2>2, <3>1 DEF LockedInv, MutexOK, At
      <3> QED
        BY <2>2, <3>2
           DEF LockedInv, LockedTypeOK, PutUser, Delete, Settle, Goto, At, mutex,
               CallOK, MutexOK, LoopOK, Stuck
    <2> QED BY <2>1, <2>2
  <1> QED BY <1>2, <1>3, <1>4 DEF LockedInv

LEMMA LockedStep == LockedInv /\ [Next]_vars => LockedInv'
  <1> SUFFICES ASSUME LockedInv, [Next]_vars PROVE LockedInv'
    OBVIOUS
  <1>1. ASSUME NEW c \in Clients, Call(c) \/ Lock(c) \/ Step(c) PROVE LockedInv'
    BY <1>1, CallInv, RLockInv, LetInInv, LoadInv, LockInv, CompareInv, WriteInv, ReturnInv
       DEF Step
  <1>2. CASE UNCHANGED vars
    BY <1>2 DEF vars, LockedInv, LockedTypeOK, CallOK, MutexOK, LoopOK, Stuck, At, Unique,
                Stored, Owners
  <1> QED BY <1>1, <1>2 DEF Next

----------------------------------------------------------------------------
(* A step is a step of the atomic storer, or none.                         *)

\* The instance has operators of UserStore of its own: the same ones.
LEMMA SameOperators ==
  /\ \A k, uid : Atomic!Owners(users, k, uid) = Owners(users, k, uid)
  /\ \A id : /\ Atomic!LoadByID(users, id) = LoadByID(users, id)
            /\ Atomic!RemoveByID(users, id) = RemoveByID(users, id)
  /\ \A u : /\ Atomic!IsDuplicate(users, u) = IsDuplicate(users, u)
           /\ Atomic!Put(users, u) = Put(users, u)
  <1>1. \A k, uid : Atomic!Owners(users, k, uid) = Owners(users, k, uid)
    BY DEF Owners, Stored, Present, GetUID, ZeroIdentity, Atomic!Owners, Atomic!Stored,
           Atomic!Present, Atomic!GetUID, Atomic!ZeroIdentity
  <1>2. \A u : Atomic!IsDuplicate(users, u) = IsDuplicate(users, u)
    BY <1>1 DEF IsDuplicate, Present, GetUID, ZeroIdentity, Keys, Atomic!IsDuplicate,
                Atomic!Present, Atomic!GetUID, Atomic!ZeroIdentity, Atomic!Keys
  <1>3. \A id : /\ Atomic!LoadByID(users, id) = LoadByID(users, id)
               /\ Atomic!RemoveByID(users, id) = RemoveByID(users, id)
    BY DEF LoadByID, RemoveByID, Atomic!LoadByID, Atomic!RemoveByID
  <1>4. \A u : Atomic!Put(users, u) = Put(users, u)
    BY DEF Put, Atomic!Put
  <1> QED BY <1>1, <1>2, <1>3, <1>4

\* What the atomic storer answers is what the loop finds: there is one owner
\* or none.
LEMMA LoadedByUID ==
  ASSUME Unique(users), NEW k \in Keys, NEW uid
  PROVE  /\ \A id \in Owners(users, k, uid) : Atomic!LoadByUID(users, k, uid) = users[id]
         /\ Owners(users, k, uid) = {} => Atomic!LoadByUID(users, k, uid) = Nil
  <1> DEFINE owners == Atomic!Owners(users, k, uid)
             owner  == CHOOSE i \in owners : TRUE
  <1>1. owners = Owners(users, k, uid)
    BY SameOperators
  <1>2. ASSUME NEW id \in Owners(users, k, uid)
        PROVE  Atomic!LoadByUID(users, k, uid) = users[id]
    <2>1. owner \in owners
      BY <1>1
    <2>2. owner = id
      BY <1>1, <2>1 DEF Owners, Unique
    <2> QED BY <1>1, <2>2 DEF Atomic!LoadByUID
  <1>3. Owners(users, k, uid) = {} => Atomic!LoadByUID(users, k, uid) = Nil
    BY <1>1 DEF Atomic!LoadByUID
  <1> QED BY <1>2, <1>3

\* A load takes effect when its loop ends or finds the user.
LEMMA LoadRefines ==
  ASSUME LockedInv, NEW c \in Clients, Visit(c) \/ NotFound(c) \/ Read(c)
  PROVE  Atomic!Perform(c) \/ UNCHANGED <<users, call, answer>>
  <1>1. /\ call[c] # Nil /\ call[c] \in Calls /\ answer[c] = Nil
        /\ UNCHANGED <<users, call>>
    BY DEF LockedInv, LockedTypeOK, CallOK, Visit, NotFound, Read, At
  <1>2. CASE Visit(c)
    <2>1. call[c].op = "LoadByUID" /\ call[c].key \in Keys /\ call[c].uid \in UIDs
      BY <1>1, <1>2, CallFields DEF LockedInv, CallOK, Visit
    <2>2. ASSUME NEW id \in Owners(users, call[c].key, call[c].uid), Settle(c, users[id])
          PROVE  Atomic!Perform(c)
      <3>1. users[id] # Nil
        BY DEF Owners, Stored
      <3>2. Atomic!LoadByUID(users, call[c].key, call[c].uid) = users[id]
        BY <2>1, LoadedByUID DEF LockedInv
      <3> QED
        BY <1>1, <2>1, <2>2, <3>1, <3>2
           DEF Settle, Atomic!Perform, Atomic!Answer, Atomic!UserOrError
    <2> QED BY <1>1, <1>2, <2>2 DEF Visit
  <1>3. CASE NotFound(c)
    <2>1. call[c].op = "LoadByUID" /\ call[c].key \in Keys
      BY <1>1, <1>3, CallFields DEF LockedInv, CallOK, NotFound
    <2>2. Owners(users, call[c].key, call[c].uid) = {}
      BY <1>3 DEF LockedInv, LoopOK, NotFound, Owners
    <2>3. Atomic!LoadByUID(users, call[c].key, call[c].uid) = Nil
      BY <2>1, <2>2, LoadedByUID DEF LockedInv
    <2> QED
      BY <1>1, <1>3, <2>1, <2>3
         DEF NotFound, Settle, Atomic!Perform, Atomic!Answer, Atomic!UserOrError
  <1>4. CASE Read(c)
    <2>1. call[c].op = "LoadByID"
      BY <1>4 DEF LockedInv, CallOK, Read
    <2>2. Atomic!LoadByID(users, call[c].id) = LoadByID(users, call[c].id)
      BY SameOperators
    <2> QED
      BY <1>1, <1>4, <2>1, <2>2
         DEF Read, Settle, Atomic!Perform, Atomic!Answer, Atomic!UserOrError
  <1> QED BY <1>2, <1>3, <1>4

\* Save takes effect when it writes the map or meets another owner.
LEMMA SaveRefines ==
  ASSUME LockedInv, NEW c \in Clients, CompareIdentity(c) \/ PutUser(c)
  PROVE  Atomic!Perform(c) \/ UNCHANGED <<users, call, answer>>
  <1>1. /\ call[c] # Nil /\ call[c] \in Calls /\ answer[c] = Nil
        /\ call[c].op = "Save" /\ UNCHANGED call
    BY DEF LockedInv, LockedTypeOK, CallOK, CompareIdentity, PutUser, At
  <1>2. CASE CompareIdentity(c)
    <2>1. CASE Settle(c, Error)
      <3>1. IsDuplicate(users, call[c].user)
        <4>1. CASE answer' = answer
          BY <1>1, <2>1, <4>1, AnswerFacts DEF LockedInv, LockedTypeOK, Settle
        <4>2. CASE answer' # answer
          BY <1>2, <4>2 DEF CompareIdentity, IsDuplicate
        <4> QED BY <4>1, <4>2
      <3> QED
        BY <1>1, <1>2, <2>1, <3>1, SameOperators
           DEF CompareIdentity, Settle, Atomic!Perform, Atomic!Answer
    <2> QED BY <1>2, <2>1 DEF CompareIdentity
  <1>3. CASE PutUser(c)
    <2>1. ~IsDuplicate(users, call[c].user)
      BY <1>3 DEF LockedInv, LoopOK, PutUser, IsDuplicate
    <2> QED
      BY <1>1, <1>3, <2>1, SameOperators DEF PutUser, Settle, Atomic!Perform, Atomic!Answer
  <1> QED BY <1>2, <1>3

\* The other steps.
LEMMA OtherRefines ==
  ASSUME LockedInv, NEW c \in Clients
  PROVE  /\ Call(c) => Atomic!Begin(c)
         /\ Delete(c) => Atomic!Perform(c)
         /\ Return(c) => Atomic!End(c)
         /\ RLock(c) \/ LetIn(c) \/ Lock(c) \/ Locked(c) \/ List(c) \/ Reload(c)
              => UNCHANGED <<users, call, answer>>
  <1>1. Call(c) => Atomic!Begin(c)
    BY DEF LockedInv, CallOK, Call, Atomic!Begin
  <1>2. Delete(c) => Atomic!Perform(c)
    BY SameOperators DEF LockedInv, CallOK, Delete, At, Settle, Atomic!Perform, Atomic!Answer
  <1>3. Return(c) => Atomic!End(c)
    BY DEF LockedInv, CallOK, Return, At, Settle, Atomic!End, Atomic!Answer
  <1>4. RLock(c) \/ LetIn(c) \/ Lock(c) \/ Locked(c) \/ List(c) \/ Reload(c)
          => UNCHANGED <<users, call, answer>>
    BY DEF RLock, LetIn, Lock, Locked, List, Reload
  <1> QED BY <1>1, <1>2, <1>3, <1>4

\* The storer keeps its users at their own ids and the mutex to its clients,
\* whatever calls are made and however they interleave.
THEOREM LockedTypeCorrect == Spec => []LockedTypeOK
  <1>1. LockedInv => LockedTypeOK
    BY DEF LockedInv
  <1> QED BY <1>1, LockedInit, LockedStep, PTL DEF Spec

\* Every call of the example's storer takes effect at one instant, and the
\* effect is that of UserStore: what Requests makes of a call, one step.
THEOREM StoreIsAtomic == Spec => CallsAreAtomic
  <1>1. Init => Atomic!Init
    BY DEF Init, Atomic!Init
  <1>2. LockedInv /\ [Next]_vars => [Atomic!Next]_(Atomic!vars)
    <2> SUFFICES ASSUME LockedInv, [Next]_vars
                 PROVE  Atomic!Next \/ UNCHANGED <<users, call, answer>>
      BY DEF Atomic!vars
    <2>1. ASSUME NEW c \in Clients, Call(c) \/ Lock(c) \/ Step(c)
          PROVE  \/ Atomic!Begin(c) \/ Atomic!Perform(c) \/ Atomic!End(c)
                 \/ UNCHANGED <<users, call, answer>>
      BY <2>1, LoadRefines, SaveRefines, OtherRefines DEF Step
    <2>2. CASE UNCHANGED vars
      BY <2>2 DEF vars
    <2> QED BY <2>1, <2>2 DEF Next, Atomic!Next
  <1> QED
    BY <1>1, <1>2, LockedInit, LockedStep, PTL DEF Spec, CallsAreAtomic, Atomic!Spec

\* Nobody is at a loop over the map, or reads it, while another client may
\* write it (Go ends the program if it catches that).
THEOREM MapIsGuarded == Spec => []WriterIsAlone
  <1>1. LockedInv => WriterIsAlone
    BY DEF LockedInv, MutexOK, At, WriterIsAlone, Writing, Inside
  <1> QED BY <1>1, LockedInit, LockedStep, PTL DEF Spec
=============================================================================
