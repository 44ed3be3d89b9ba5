----------------------------- MODULE AtomicStore -----------------------------
(***************************************************************************)
(* What the handlers take a storer of users to be (storage/storage.go):    *)
(* a call takes effect at one instant between its beginning and its end.   *)
(* The storer of the example is shown to be one (LockedStore), which is    *)
(* why a call of it is a single step in Requests.                          *)
(***************************************************************************)
EXTENDS UserStore

CONSTANTS
    Clients,    \* goroutines that call the storer
    Calls,      \* the calls they make
    Ok, Error   \* what Save and the removals answer; Error: no such user, too

VARIABLES users,    \* UserStorer.Users
          call,     \* the call each client has begun and not seen the end of
          answer    \* what it will be answered, once that is settled

Init ==
    /\ users = [id \in UserIds |-> Nil]
    /\ call = [c \in Clients |-> Nil]
    /\ answer = [c \in Clients |-> Nil]

Begin(c) ==
    /\ call[c] = Nil
    /\ \E x \in Calls : call' = [call EXCEPT ![c] = x]
    /\ UNCHANGED <<users, answer>>

Answer(c, a) == answer' = [answer EXCEPT ![c] = a]

UserOrError(u) == IF u = Nil THEN Error ELSE u

\* The call takes effect.
Perform(c) ==
    /\ call[c] # Nil
    /\ answer[c] = Nil
    /\ LET x == call[c]
       IN  \/ /\ x.op = "LoadByUID"
              /\ Answer(c, UserOrError(LoadByUID(users, x.key, x.uid)))
              /\ UNCHANGED users
           \/ /\ x.op = "LoadByID"
              /\ Answer(c, UserOrError(LoadByID(users, x.id)))
              /\ UNCHANGED users
           \/ /\ x.op = "Save"
              /\ IF IsDuplicate(users, x.user)
                 THEN Answer(c, Error) /\ UNCHANGED users
                 ELSE Answer(c, Ok) /\ users' = Put(users, x.user)
           \/ /\ x.op = "RemoveByID"
              /\ Answer(c, Ok)
              /\ users' = RemoveByID(users, x.id)
    /\ UNCHANGED call

End(c) ==
    /\ answer[c] # Nil
    /\ call' = [call EXCEPT ![c] = Nil]
    /\ Answer(c, Nil)
    /\ UNCHANGED users

Next == \E c \in Clients : Begin(c) \/ Perform(c) \/ End(c)

vars == <<users, call, answer>>

Spec == Init /\ [][Next]_vars
=============================================================================
