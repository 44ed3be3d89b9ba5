------------------------- MODULE AuthMethodsProofs -------------------------
(***************************************************************************)
(* Select finds the right method, and InitHandlers leaves none without a   *)
(* sender it needs: for any number of methods, senders and keys, in any    *)
(* order of configuration and of iteration.                                *)
(***************************************************************************)
EXTENDS AuthMethods, TLAPS

\* The methods of the type asked for.
Candidates == {k \in Defined : List[k].type = ask.type}

\* A request is served while the program runs, and nothing is left of the one
\* before when the next begins.
AskOK ==
    /\ phase # "running" => ask = NoAsk
    /\ ask = NoAsk => key = None /\ left = {} /\ found = None
    /\ ask # NoAsk => ask.type \in Types

\* The loop has met at most one candidate, and that is its local variable.
LoopOK ==
    left # {} =>
      /\ ask.key = None
      /\ left \subseteq Defined
      /\ found = None
      /\ Candidates \ left = IF key = None THEN {} ELSE {key}

SelectInv == MethodsTypeOK /\ AskOK /\ LoopOK /\ SelectsTheOnlyMatch

----------------------------------------------------------------------------
(* Configuration.                                                          *)

\* What the configuration leaves alone, and what follows from that.
LEMMA Configured ==
  ASSUME SelectInv, phase = "configuring", UNCHANGED selection
  PROVE  AskOK' /\ LoopOK' /\ SelectsTheOnlyMatch'
  BY DEF SelectInv, AskOK, LoopOK, SelectsTheOnlyMatch, Selected, selection

\* Add puts a method in the list and its type among the existing ones.
LEMMA AddType ==
  ASSUME MethodsTypeOK, NEW k \in MethodKeys, NEW m \in Method, Add(k, m)
  PROVE  /\ List' \in [MethodKeys -> Method \cup {None}]
         /\ ExistingTypes' \subseteq Types
         /\ \A j \in MethodKeys : List'[j] # None => List'[j].type \in ExistingTypes'
  <1>1. m.type \in Types
    BY DEF Method
  <1> QED BY <1>1 DEF MethodsTypeOK, Add

\* The application's calls and InitHandlers keep the invariant.
LEMMA ConfigurationKeeps ==
  ASSUME SelectInv, AddAuthMethod \/ DefaultSender \/ InitHandlers
  PROVE  SelectInv'
  <1>1. phase = "configuring" /\ UNCHANGED selection
    BY DEF AddAuthMethod, DefaultSender, InitHandlers
  <1>2. /\ List' \in [MethodKeys -> Method \cup {None}]
        /\ ExistingTypes' \subseteq Types
        /\ \A j \in MethodKeys : List'[j] # None => List'[j].type \in ExistingTypes'
    <2>1. CASE UNCHANGED <<List, ExistingTypes>>
      BY <2>1 DEF SelectInv, MethodsTypeOK
    <2>2. CASE \E k \in MethodKeys, m \in Method : Add(k, m)
      BY <2>2, AddType DEF SelectInv
    <2>3. [type |-> "Password", sender |-> None] \in Method
      BY DEF Method, Types
    <2> QED
      BY <2>1, <2>2, <2>3, DefaultKeyIsKey DEF AddAuthMethod, DefaultSender, InitHandlers
  <1>3. defaultSender' \in Senders \cup {None} /\ phase' \in {"configuring", "running", "fatal"}
    BY DEF SelectInv, MethodsTypeOK, AddAuthMethod, DefaultSender, InitHandlers
  <1>4. MethodsTypeOK'
    BY <1>1, <1>2, <1>3 DEF SelectInv, MethodsTypeOK, selection
  <1> QED BY <1>1, <1>4, Configured DEF SelectInv

----------------------------------------------------------------------------
(* Select.                                                                 *)

\* A request begins: its key or the only method decides, or the loop starts.
LEMMA SelectKeeps ==
  ASSUME SelectInv, Select
  PROVE  SelectInv'
  <1>1. PICK t \in Types, k \in MethodKeys \cup {None} :
          IF k # None \/ OneDefined THEN SelectDirectly(t, k) ELSE SelectByLoop(t)
    BY DEF Select
  <1>2. /\ UNCHANGED <<List, ExistingTypes, defaultSender, phase>>
        /\ phase = "running" /\ key = None /\ left = {} /\ found = None
    BY DEF Select, Idle, SelectInv, AskOK
  <1>3. ask' = [type |-> t, key |-> k]
    BY <1>1 DEF SelectDirectly, SelectByLoop
  <1>4. ask' # NoAsk /\ ask'.type = t /\ ask'.key = k
    BY <1>3, NoneIsNoMethod DEF NoAsk
  <1>5. AskOK'
    BY <1>2, <1>4 DEF AskOK
  <1>6. Defined' = Defined /\ Defined \subseteq MethodKeys
    BY <1>2 DEF Defined
  <1>7. Matches' = {j \in Defined : List[j].type = t /\ k \in {None, j}}
    BY <1>2, <1>4, <1>6 DEF Matches
  <1>8. CASE k # None \/ OneDefined
    <2>1. UNCHANGED <<key, left>>
      BY <1>1, <1>8 DEF SelectDirectly
    <2>2. found' \in MethodKeys \cup {None}
      BY <1>1, <1>6, <1>8 DEF SelectDirectly, Unlooped
    <2>3. MethodsTypeOK'
      BY <1>2, <1>3, <2>1, <2>2 DEF SelectInv, MethodsTypeOK
    <2>4. SelectsTheOnlyMatch'
      <3>1. CASE Unlooped(k) = {} /\ found' = None
        <4>1. Matches' = {}
          BY <1>7, <3>1 DEF Unlooped
        <4> QED BY <3>1, <4>1 DEF SelectsTheOnlyMatch
      <3>2. ASSUME NEW j \in Unlooped(k),
                   found' = IF List[j].type = t THEN j ELSE None
            PROVE  SelectsTheOnlyMatch'
        <4>1. Unlooped(k) = {j}
          BY <1>8, <3>2 DEF Unlooped, OneDefined
        <4>2. Matches' = IF List[j].type = t THEN {j} ELSE {}
          BY <1>7, <4>1 DEF Unlooped
        <4>3. j \in MethodKeys
          BY <1>6 DEF Unlooped
        <4> QED BY <3>2, <4>2, <4>3 DEF SelectsTheOnlyMatch
      <3> QED BY <1>1, <1>8, <3>1, <3>2 DEF SelectDirectly
    <2> QED BY <1>2, <1>5, <2>1, <2>3, <2>4 DEF SelectInv, LoopOK
  <1>9. CASE ~(k # None \/ OneDefined)
    <2>1. key' = None /\ left' = Defined /\ found' = None
      BY <1>1, <1>2, <1>9 DEF SelectByLoop
    <2>2. MethodsTypeOK'
      BY <1>2, <1>3, <1>6, <2>1 DEF SelectInv, MethodsTypeOK
    <2>3. LoopOK'
      BY <1>4, <1>6, <1>9, <2>1 DEF LoopOK, Candidates
    <2>4. SelectsTheOnlyMatch'
      BY <1>7, <2>1 DEF SelectsTheOnlyMatch, Selected
    <2> QED BY <1>5, <2>2, <2>3, <2>4 DEF SelectInv
  <1> QED BY <1>8, <1>9

\* The loop meets a method: of another type, the first candidate, or a second
\* one, which ends it.
LEMMA SelectVisitKeeps ==
  ASSUME SelectInv, SelectVisit
  PROVE  SelectInv'
  <1>1. PICK k \in left : Visit(k)
    BY DEF SelectVisit
  <1>2. /\ UNCHANGED <<List, ExistingTypes, defaultSender, phase, ask>>
        /\ found' = IF left' = {} THEN key' ELSE None
    BY DEF SelectVisit
  <1>3. /\ ask # NoAsk /\ ask.key = None /\ left \subseteq Defined
        /\ Candidates \ left = IF key = None THEN {} ELSE {key}
        /\ Defined \subseteq MethodKeys
    BY DEF SelectInv, AskOK, LoopOK, Defined
  <1>4. left' \subseteq left /\ key' \in {key, k, None}
    BY <1>1 DEF Visit
  <1>5. MethodsTypeOK'
    BY <1>2, <1>3, <1>4 DEF SelectInv, MethodsTypeOK
  <1>6. AskOK'
    BY <1>2, <1>3 DEF SelectInv, AskOK
  <1>7. Candidates' = Candidates /\ Matches' = Candidates
    BY <1>2, <1>3 DEF Candidates, Matches, Defined
  <1>8. CASE List[k].type = ask.type /\ key # None
    <2>1. left' = {} /\ key' = None /\ found' = None
      BY <1>1, <1>2, <1>8 DEF Visit
    <2>2. k \in Candidates /\ key \in Candidates /\ k # key
      BY <1>3, <1>8 DEF Candidates
    <2>3. ~ \E j \in MethodKeys : Matches' = {j}
      BY <1>7, <2>2
    <2> QED BY <1>5, <1>6, <2>1, <2>3 DEF SelectInv, LoopOK, SelectsTheOnlyMatch
  <1>9. CASE ~(List[k].type = ask.type /\ key # None)
    <2>1. left' = left \ {k}
      BY <1>1, <1>9 DEF Visit
    <2>2. Candidates \ left' = IF key' = None THEN {} ELSE {key'}
      <3>1. CASE List[k].type # ask.type
        <4>1. k \notin Candidates /\ key' = key
          BY <1>1, <3>1 DEF Visit, Candidates
        <4> QED BY <1>3, <2>1, <4>1
      <3>2. CASE List[k].type = ask.type
        <4>1. key = None /\ key' = k /\ k \in Candidates
          BY <1>1, <1>3, <1>9, <3>2 DEF Visit, Candidates
        <4>2. k # None
          BY <1>3, NoneIsNoMethod
        <4> QED BY <1>3, <2>1, <4>1, <4>2
      <3> QED BY <3>1, <3>2
    <2>3. LoopOK'
      BY <1>2, <1>3, <1>7, <2>1, <2>2 DEF LoopOK, Defined
    <2>4. SelectsTheOnlyMatch'
      <3>1. CASE left' # {}
        BY <3>1 DEF SelectsTheOnlyMatch, Selected
      <3>2. CASE left' = {}
        <4>1. found' = key' /\ Matches' = IF key' = None THEN {} ELSE {key'}
          BY <1>2, <1>7, <2>2, <3>2
        <4>2. key' \in MethodKeys \cup {None}
          BY <1>5 DEF MethodsTypeOK
        <4> QED BY <4>1, <4>2 DEF SelectsTheOnlyMatch
      <3> QED BY <3>1, <3>2
    <2> QED BY <1>5, <1>6, <2>3, <2>4 DEF SelectInv
  <1> QED BY <1>8, <1>9

\* Select returns.
LEMMA SelectDoneKeeps ==
  ASSUME SelectInv, SelectDone
  PROVE  SelectInv'
  <1>1. /\ ask' = NoAsk /\ key' = None /\ found' = None /\ left' = {}
        /\ UNCHANGED <<List, ExistingTypes, defaultSender, phase>>
    BY DEF SelectDone, Selected
  <1>2. MethodsTypeOK'
    BY <1>1 DEF SelectInv, MethodsTypeOK, NoAsk
  <1> QED
    BY <1>1, <1>2 DEF SelectInv, AskOK, LoopOK, SelectsTheOnlyMatch, Selected

----------------------------------------------------------------------------
(* The theorems.                                                           *)

\* The program starts with no method and no request.
LEMMA SelectInit == Init => SelectInv
  BY DEF Init, NoAsk, SelectInv, MethodsTypeOK, AskOK, LoopOK, SelectsTheOnlyMatch, Selected

\* The invariant is inductive.
LEMMA SelectNext == SelectInv /\ [Next]_vars => SelectInv'
  <1> SUFFICES ASSUME SelectInv, [Next]_vars PROVE SelectInv'
    OBVIOUS
  <1>1. CASE UNCHANGED vars
    BY <1>1 DEF vars, SelectInv, MethodsTypeOK, AskOK, LoopOK, SelectsTheOnlyMatch,
                Selected, Candidates, Matches, Defined
  <1> QED
    BY <1>1, ConfigurationKeeps, SelectKeeps, SelectVisitKeeps, SelectDoneKeeps DEF Next

\* The invariant holds throughout.
LEMMA SelectAlways == Spec => []SelectInv
  BY SelectInit, SelectNext, PTL DEF Spec

\* Every variable is well typed, and every method of the list is of a type
\* that has its routes (rauther.AddAuthMethod, AuthMethods.Add).
THEOREM MethodsTypeCorrect == Spec => []MethodsTypeOK
  <1>1. SelectInv => MethodsTypeOK
    BY DEF SelectInv
  <1> QED BY <1>1, SelectAlways, PTL

\* Whatever the order in which Go iterates over the map, and however many
\* methods there are, Select returns the only method of the type asked for,
\* or none if there is none or several.
THEOREM SelectIsDeterminate == Spec => []SelectsTheOnlyMatch
  <1>1. SelectInv => SelectsTheOnlyMatch
    BY DEF SelectInv
  <1> QED BY <1>1, SelectAlways, PTL

\* In a program that came to run, a method without a sender has a default one
\* to fall back on, if some route checks for it (checkSender).
THEOREM SendersChecked == Spec => []NoMethodLacksSender
  <1>1. Init => NoMethodLacksSender
    BY DEF Init, NoMethodLacksSender
  <1>2. NoMethodLacksSender /\ [Next]_vars => NoMethodLacksSender'
    <2> SUFFICES ASSUME NoMethodLacksSender, [Next]_vars PROVE NoMethodLacksSender'
      OBVIOUS
    <2>1. CASE AddAuthMethod \/ DefaultSender
      BY <2>1 DEF AddAuthMethod, DefaultSender, NoMethodLacksSender
    <2>2. CASE InitHandlers
      BY <2>2 DEF InitHandlers, ChecksSenders, SenderMissing, NoMethodLacksSender, Defined
    <2>3. CASE Select \/ SelectVisit \/ SelectDone \/ UNCHANGED vars
      <3>1. UNCHANGED <<List, ExistingTypes, defaultSender, phase>>
        BY <2>3 DEF Select, SelectVisit, SelectDone, vars
      <3> QED BY <3>1 DEF NoMethodLacksSender, Defined
    <2> QED BY <2>1, <2>2, <2>3 DEF Next
  <1> QED BY <1>1, <1>2, PTL DEF Spec
=============================================================================
