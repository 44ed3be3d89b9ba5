----------------------------- MODULE LockedStore -----------------------------
(***************************************************************************)
(* The user storer of the example (example/basic/models/user.go, from type *)
(* UserStorer on) under concurrent calls: each method takes the mutex for  *)
(* reading or writing, walks the map of users one entry at a time, and     *)
(* unlocks as it returns.                                                  *)
(***************************************************************************)
EXTENDS UserStore

CONSTANTS Clients, Calls, Ok, Error     \* see AtomicStore

\* RemoveByUID belongs to the example's storer and to no interface.
CallTypes ==
    [op : {"LoadByUID", "RemoveByUID"}, key : Keys, uid : UIDs]
    \cup [op : {"LoadByID", "RemoveByID"}, id : UserIds]
    \cup [op : {"Save"}, user : User]

ASSUME CallsTyped == Calls \subseteq CallTypes
ASSUME NilIsNoCall == Nil \notin CallTypes \cup Clients
ASSUME AnswersDistinct == Ok # Error /\ {Ok, Error} \cap (User \cup {Nil}) = {}

VARIABLES
    users,                      \* UserStorer.Users
    readers, kept, writer,      \* UserStorer.mu
    pc,                         \* where each client is in its call
    call, answer,               \* the call, and its result once it is known
    seen                        \* entries of the map, or identities, done with

mutex == <<readers, kept, writer>>
vars  == <<users, readers, kept, writer, pc, call, answer, seen>>

INSTANCE RWMutex

\* The storer the handlers reckon with.  It has the same users, and every
\* client is in the same call; the mutex and the loops are left out.
Atomic == INSTANCE AtomicStore WITH users <- users, call <- call, answer <- answer

Labels == {"idle", "rlock", "kept", "scan", "read", "runlock",
           "lock", "drain", "compare", "delete", "list", "reload", "unlock"}

LockedTypeOK ==
    /\ users \in [UserIds -> User \cup {Nil}]
    /\ \A id \in UserIds : users[id] # Nil => users[id].id = id
    /\ readers \subseteq Clients
    /\ kept \subseteq Clients
    /\ writer \in Clients \cup {Nil}
    /\ pc \in [Clients -> Labels]
    /\ call \in [Clients -> Calls \cup {Nil}]
    /\ answer \in [Clients -> User \cup {Ok, Error, Nil}]
    /\ seen \in [Clients -> SUBSET (UserIds \cup Keys)]

Init ==
    /\ users = [id \in UserIds |-> Nil]
    /\ MutexInit
    /\ pc = [c \in Clients |-> "idle"]
    /\ call = [c \in Clients |-> Nil]
    /\ answer = [c \in Clients |-> Nil]
    /\ seen = [c \in Clients |-> {}]

At(c, label)   == pc[c] = label
Goto(c, label) == pc' = [pc EXCEPT ![c] = label]
Settle(c, a)   == answer' = [answer EXCEPT ![c] = a]
Saw(c, x)      == seen' = [seen EXCEPT ![c] = @ \cup {x}]

Call(c) ==
    /\ At(c, "idle")
    /\ \E x \in Calls :
         /\ call' = [call EXCEPT ![c] = x]
         /\ Goto(c, IF x.op \in {"LoadByUID", "LoadByID"} THEN "rlock" ELSE "lock")
    /\ UNCHANGED <<users, mutex, answer, seen>>

----------------------------------------------------------------------------
(* LoadByUID and LoadByID.                                                 *)

Reading(c) == IF call[c].op = "LoadByID" THEN "read" ELSE "scan"

\* A mutated form of RLock: the loads forget the mutex.
ReadUnlocked(c) ==
    /\ At(c, "rlock")
    /\ Goto(c, Reading(c))
    /\ UNCHANGED <<users, mutex, call, answer, seen>>

RLock(c) ==
    /\ At(c, "rlock")
    /\ \/ EnterRead(c) /\ Goto(c, Reading(c))
       \/ WaitForWriter(c) /\ Goto(c, "kept")
    /\ UNCHANGED <<users, call, answer, seen>>

LetIn(c) ==
    /\ At(c, "kept")
    /\ c \in readers
    /\ Goto(c, Reading(c))
    /\ UNCHANGED <<users, mutex, call, answer, seen>>

\* One turn of the loop over s.Users, which meets the users in any order.
Visit(c) ==
    /\ At(c, "scan")
    /\ \E id \in Stored(users) \ seen[c] :
         IF id \in Owners(users, call[c].key, call[c].uid)
         THEN Settle(c, users[id]) /\ Goto(c, "runlock") /\ UNCHANGED seen
         ELSE Saw(c, id) /\ UNCHANGED <<pc, answer>>
    /\ UNCHANGED <<users, mutex, call>>

NotFound(c) ==
    /\ At(c, "scan")
    /\ Stored(users) \subseteq seen[c]
    /\ Settle(c, Error)
    /\ Goto(c, "runlock")
    /\ UNCHANGED <<users, mutex, call, seen>>

Read(c) ==
    /\ At(c, "read")
    /\ LET u == LoadByID(users, call[c].id)
       IN  Settle(c, IF u = Nil THEN Error ELSE u)
    /\ Goto(c, "runlock")
    /\ UNCHANGED <<users, mutex, call, seen>>

----------------------------------------------------------------------------
(* Save, RemoveByID and RemoveByUID.                                       *)

\* A mutated form of Lock: Save compares and writes under the read lock.
LockShared(c) ==
    /\ At(c, "lock")
    /\ IF call[c].op = "Save" THEN EnterRead(c) /\ Goto(c, "compare")
                              ELSE TakeWriter(c) /\ Goto(c, "drain")
    /\ UNCHANGED <<users, call, answer, seen>>

Lock(c) ==
    /\ At(c, "lock")
    /\ TakeWriter(c)
    /\ Goto(c, "drain")
    /\ UNCHANGED <<users, call, answer, seen>>

Locked(c) ==
    /\ At(c, "drain")
    /\ Drained
    /\ Goto(c, CASE call[c].op = "Save"       -> "compare"
                 [] call[c].op = "RemoveByID" -> "delete"
                 [] OTHER                     -> "reload")
    /\ UNCHANGED <<users, mutex, call, answer, seen>>

\* One turn of the loop over user.Auths.  GetUserIDByUID, which takes no lock,
\* answers with the first owner it meets.
CompareIdentity(c) ==
    /\ At(c, "compare")
    /\ LET u == call[c].user
       IN  \E k \in Keys \ seen[c] :
             /\ Present(u, k)
             /\ LET owners == Owners(users, k, GetUID(u, k))
                IN  \/ /\ owners \ {u.id} # {}
                       /\ Settle(c, Error)
                       /\ Goto(c, "unlock")
                       /\ UNCHANGED seen
                    \/ /\ owners = {} \/ u.id \in owners
                       /\ Saw(c, k)
                       /\ UNCHANGED <<pc, answer>>
    /\ UNCHANGED <<users, mutex, call>>

PutUser(c) ==
    /\ At(c, "compare")
    /\ LET u == call[c].user
       IN  /\ \A k \in Keys \ seen[c] : ~Present(u, k)
           /\ users' = Put(users, u)
    /\ Settle(c, Ok)
    /\ Goto(c, "unlock")
    /\ UNCHANGED <<mutex, call, seen>>

Delete(c) ==
    /\ At(c, "delete")
    /\ users' = RemoveByID(users, call[c].id)
    /\ Settle(c, Ok)
    /\ Goto(c, "list")
    /\ UNCHANGED <<mutex, call, seen>>

\* RemoveByID goes on to log every user that is left.
List(c) ==
    /\ At(c, "list")
    /\ Goto(c, "unlock")
    /\ UNCHANGED <<users, mutex, call, answer, seen>>

\* RemoveByUID, inside the lock, calls LoadByUID, which locks for reading and
\* waits for a writer: itself.  The rest of the method is never reached.
Reload(c) ==
    /\ At(c, "reload")
    /\ WaitForWriter(c)
    /\ Goto(c, "kept")
    /\ UNCHANGED <<users, call, answer, seen>>

----------------------------------------------------------------------------
\* A mutated form of Return: unlocked at the end of Save, not by defer.
ReturnUndeferred(c) ==
    /\ \/ At(c, "runlock") /\ RUnlock(c)
       \/ At(c, "unlock") /\ IF answer[c] = Error THEN UNCHANGED mutex ELSE Unlock
    /\ Goto(c, "idle")
    /\ call' = [call EXCEPT ![c] = Nil]
    /\ Settle(c, Nil)
    /\ seen' = [seen EXCEPT ![c] = {}]
    /\ UNCHANGED users

\* The deferred unlock of every return.
Return(c) ==
    /\ \/ At(c, "runlock") /\ RUnlock(c)
       \/ At(c, "unlock") /\ Unlock
    /\ Goto(c, "idle")
    /\ call' = [call EXCEPT ![c] = Nil]
    /\ Settle(c, Nil)
    /\ seen' = [seen EXCEPT ![c] = {}]
    /\ UNCHANGED users

Step(c) ==
    \/ RLock(c) \/ LetIn(c) \/ Visit(c) \/ NotFound(c) \/ Read(c)
    \/ Locked(c) \/ CompareIdentity(c) \/ PutUser(c) \/ Delete(c) \/ List(c)
    \/ Reload(c) \/ Return(c)

Next == \E c \in Clients : Call(c) \/ Lock(c) \/ Step(c)

\* The scheduler runs every goroutine that can run, and sync.Mutex hands itself
\* to whoever has waited for it too long.  Nobody has to make a call.
Fairness == \A c \in Clients : WF_vars(Step(c)) /\ SF_vars(Lock(c))

Spec == Init /\ [][Next]_vars /\ Fairness

----------------------------------------------------------------------------
(* What the lock is for.                                                   *)

Writing(c) == pc[c] \in {"compare", "delete", "list", "unlock"}
Inside(c)  == pc[c] \in {"scan", "read"} \/ Writing(c)

\* Whoever may write the map is alone in it: Go stops a program that writes a
\* map while another goroutine ranges over it (Save and RemoveByID against
\* the loops of LoadByUID and GetUserIDByUID).
WriterIsAlone == \A c, d \in Clients : Writing(c) /\ Inside(d) => c = d

\* Every call has its effect at one instant, whatever the other clients do
\* while its loops run: in particular two Saves of one new identity, each
\* comparing first and writing later, do not both succeed.
CallsAreAtomic == Atomic!Spec

\* A call returns, however many others are made, unless somebody calls
\* RemoveByUID, which never does (user.go:326).
CallsReturn ==
    \A c \in Clients :
        call[c] # Nil ~> \/ call[c] = Nil
                         \/ \E d \in Clients : /\ call[d] # Nil
                                               /\ call[d].op = "RemoveByUID"
=============================================================================
