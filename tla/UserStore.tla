----------------------------- MODULE UserStore -----------------------------
(***************************************************************************)
(* The user storer of the example (example/basic/models/user.go, from      *)
(* type UserStorer on), as operators over its map `users`.  Every method   *)
(* holds the storer's mutex from its first line to its last, so a call is  *)
(* one atomic step; loads return copies, which is why the handlers work on *)
(* values that may be stale by the time they are saved.                    *)
(***************************************************************************)
EXTENDS UserModel

Stored(users) == {id \in UserIds : users[id] # Nil}

\* The ids of the users that own the identity (k, uid).
Owners(users, k, uid) ==
    {id \in Stored(users) : Present(users[id], k) /\ GetUID(users[id], k) = uid}

\* Iteration over a Go map starts anywhere: any owner may be met first.
LoadByUID(users, k, uid) ==
    LET owners == Owners(users, k, uid)
    IN  IF owners = {} THEN Nil ELSE users[CHOOSE id \in owners : TRUE]

\* A mutated form of LoadByID: a zero user where there is none.
LoadByIDOrZero(users, id) ==
    IF id \in Stored(users) THEN users[id] ELSE NewUser(Nil)

\* An id of Nil is not a uint: an error, like an id that is not stored.
LoadByID(users, id) == IF id \in UserIds THEN users[id] ELSE Nil

\* A mutated form of IsDuplicate: the storer compares nothing.
NeverDuplicate(users, u) == FALSE

\* Save refuses a user one of whose identities belongs to another user.
IsDuplicate(users, u) ==
    \E k \in Keys : /\ Present(u, k)
                    /\ Owners(users, k, GetUID(u, k)) \ {u.id} # {}

Put(users, u) == [users EXCEPT ![u.id] = u]

RemoveByID(users, id) == [users EXCEPT ![id] = Nil]

\* An identity belongs to one stored user at most, whatever the order of the
\* calls of concurrent requests: what LoadByUID, and so every login, takes
\* for granted, and what Save's loop over the identities is there to keep.
Unique(users) ==
    \A k \in Keys, i, j \in Stored(users) :
        (/\ Present(users[i], k) /\ Present(users[j], k)
         /\ GetUID(users[i], k) = GetUID(users[j], k)) => i = j
=============================================================================
