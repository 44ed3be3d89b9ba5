---------------------------- MODULE AuthMethods ----------------------------
(***************************************************************************)
(* The list of authentication methods: how the application fills it, what  *)
(* InitHandlers checks and adds (rauther.go, includes.go), and how a       *)
(* request is matched with a method (AuthMethods.Select, authtype.go).     *)
(*                                                                         *)
(* Go iterates over a map in an order of its own choosing, anew each time, *)
(* so the loop of Select is a process that visits the keys in any order.   *)
(***************************************************************************)
CONSTANTS
    MethodKeys,     \* keys the application may give its methods
    DefaultKey,     \* "email", the key of the method added to an empty list
    Senders,        \* senders the application has
    None,           \* the empty key, a nil sender, an absent method, no type
    PasswordAuthableUser, ConfirmableUser, RecoverableUser      \* r.Modules

Types == {"Password", "Social", "OTP"}

Method == [type : Types, sender : Senders \cup {None}]

ASSUME DefaultKeyIsKey == DefaultKey \in MethodKeys
ASSUME NoneIsNoMethod  == None \notin MethodKeys \cup Senders \cup Method \cup Types

VARIABLES
    List,           \* AuthMethods.List, None where there is no method
    ExistingTypes,  \* the types Add has been called with
    defaultSender,
    phase,          \* of the program: "configuring", "running" or "fatal"
    ask,            \* the request Select serves: its type, the Selector's key
    key,            \* the local variable of Select's loop
    left,           \* the keys the loop has still to visit
    found           \* the key of the method Select returns

vars == <<List, ExistingTypes, defaultSender, phase, ask, key, left, found>>
selection == <<ask, key, left, found>>

NoAsk == [type |-> None, key |-> None]

\* Every variable has its type, and the type of every method is an existing
\* one: its routes are registered.
MethodsTypeOK ==
    /\ List \in [MethodKeys -> Method \cup {None}]
    /\ ExistingTypes \subseteq Types
    /\ \A k \in MethodKeys : List[k] # None => List[k].type \in ExistingTypes
    /\ defaultSender \in Senders \cup {None}
    /\ phase \in {"configuring", "running", "fatal"}
    /\ ask \in [type : Types \cup {None}, key : MethodKeys \cup {None}]
    /\ key \in MethodKeys \cup {None}
    /\ left \subseteq MethodKeys
    /\ found \in MethodKeys \cup {None}

Defined == {k \in MethodKeys : List[k] # None}

Init ==
    /\ List = [k \in MethodKeys |-> None]
    /\ ExistingTypes = {}
    /\ defaultSender = None
    /\ phase = "configuring"
    /\ ask = NoAsk /\ key = None /\ left = {} /\ found = None

----------------------------------------------------------------------------
(* Configuration.                                                          *)

\* A mutated form of Add: the type is not recorded.
AddToList(k, m) == List' = [List EXCEPT ![k] = m] /\ UNCHANGED ExistingTypes

Add(k, m) == /\ List' = [List EXCEPT ![k] = m]
             /\ ExistingTypes' = ExistingTypes \cup {m.type}

AddAuthMethod ==
    /\ phase = "configuring"
    /\ \E k \in MethodKeys, m \in Method : Add(k, m)
    /\ UNCHANGED <<defaultSender, phase, selection>>

DefaultSender ==
    /\ phase = "configuring"
    /\ \E s \in Senders : defaultSender' = s
    /\ UNCHANGED <<List, ExistingTypes, phase, selection>>

\* A mutated form of ChecksSenders: only the confirmation routes check.
ChecksSendersToConfirm(types) ==
    PasswordAuthableUser /\ "Password" \in types /\ ConfirmableUser

\* includeConfirmable and includeRecoverable, of password methods only.
ChecksSenders(types) ==
    PasswordAuthableUser /\ "Password" \in types /\ (ConfirmableUser \/ RecoverableUser)

\* checkSender is fatal when a sender is missing and there is no default one.
\* What it assigns otherwise is the loop's own copy of the method: the list
\* keeps the nil sender.
SenderMissing(list) ==
    \E k \in MethodKeys : list[k] # None /\ list[k].sender = None

InitHandlers ==
    /\ phase = "configuring"
    /\ IF Defined = {}
       THEN Add(DefaultKey, [type |-> "Password", sender |-> None])
       ELSE UNCHANGED <<List, ExistingTypes>>
    /\ phase' = IF /\ ChecksSenders(ExistingTypes')
                   /\ SenderMissing(List')
                   /\ defaultSender = None
                THEN "fatal" ELSE "running"
    /\ UNCHANGED <<defaultSender, selection>>

----------------------------------------------------------------------------
(* Select.                                                                 *)

Idle == phase = "running" /\ ask = NoAsk

\* The first two cases of the switch need no loop.
Unlooped(k) == IF k # None THEN {k} \cap Defined ELSE Defined

SelectDirectly(t, k) ==
    /\ ask' = [type |-> t, key |-> k]
    /\ \/ \E j \in Unlooped(k) : found' = IF List[j].type = t THEN j ELSE None
       \/ Unlooped(k) = {} /\ found' = None
    /\ UNCHANGED <<key, left>>

SelectByLoop(t) ==
    /\ ask' = [type |-> t, key |-> None]
    /\ key' = None
    /\ left' = Defined
    /\ UNCHANGED found

OneDefined == \E k \in MethodKeys : Defined = {k}

Select ==
    /\ Idle
    /\ \E t \in Types, k \in MethodKeys \cup {None} :
         IF k # None \/ OneDefined THEN SelectDirectly(t, k) ELSE SelectByLoop(t)
    /\ UNCHANGED <<List, ExistingTypes, defaultSender, phase>>

\* A mutated form of Visit: the loop goes on after a second match.
VisitAll(k) ==
    /\ left' = left \ {k}
    /\ IF List[k].type = ask.type
       THEN key' = IF key = None THEN k ELSE None
       ELSE UNCHANGED key

\* A second method of the type asked for ends the loop without a result.
Visit(k) ==
    IF List[k].type # ask.type THEN left' = left \ {k} /\ UNCHANGED key
    ELSE IF key = None         THEN left' = left \ {k} /\ key' = k
    ELSE left' = {} /\ key' = None

SelectVisit ==
    /\ \E k \in left : Visit(k)
    /\ found' = IF left' = {} THEN key' ELSE None
    /\ UNCHANGED <<List, ExistingTypes, defaultSender, phase, ask>>

\* The handler has its method, or answers that the request is invalid.
Selected == phase = "running" /\ ask # NoAsk /\ left = {}

SelectDone ==
    /\ Selected
    /\ ask' = NoAsk /\ key' = None /\ found' = None
    /\ UNCHANGED <<List, ExistingTypes, defaultSender, phase, left>>

Next == \/ AddAuthMethod \/ DefaultSender \/ InitHandlers
        \/ Select \/ SelectVisit \/ SelectDone

Spec == Init /\ [][Next]_vars

----------------------------------------------------------------------------
\* Select returns the method the request names if it is of the type asked
\* for, and for a request that names none the only method of that type, in
\* whatever order the map is iterated (AuthMethods.Select).
Matches == {k \in Defined : List[k].type = ask.type /\ ask.key \in {None, k}}

SelectsTheOnlyMatch ==
    Selected => IF \E k \in MethodKeys : Matches = {k} THEN Matches = {found}
                                                       ELSE found = None

\* An application whose routes send codes does not come to run with a method
\* that has no sender and no default to fall back on (checkSender).
NoMethodLacksSender ==
    /\ phase = "running"
    /\ "Password" \in ExistingTypes
    /\ PasswordAuthableUser
    /\ ConfirmableUser \/ RecoverableUser
    => \/ defaultSender # None
       \/ \A k \in Defined : List[k].sender # None

\* "Add default sender, if you want not set sender for auth types"
\* (README.md:297): a method without a sender of its own has the default one
\* once InitHandlers is done.
DefaultSenderIsUsed ==
    phase = "running" /\ defaultSender # None
        => \A k \in Defined : List[k].sender # None
=============================================================================
