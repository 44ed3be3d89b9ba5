------------------------------ MODULE RWMutex ------------------------------
(***************************************************************************)
(* Go's sync.RWMutex as UserStorer uses it.  A writer first takes the      *)
(* mutex from other writers, which keeps new readers out, then waits for   *)
(* the readers inside.  When it is done, the readers it kept out are let   *)
(* in before the next writer.                                              *)
(***************************************************************************)
CONSTANT Nil
VARIABLES readers,  \* who holds the mutex for reading
          kept,     \* readers waiting for the writer
          writer    \* who has it for writing, or will once readers are gone

MutexInit == readers = {} /\ kept = {} /\ writer = Nil

\* RLock, of a client that gets it at once, and of one that has to wait.
EnterRead(c) ==
    /\ writer = Nil
    /\ readers' = readers \cup {c}
    /\ UNCHANGED <<kept, writer>>

WaitForWriter(c) ==
    /\ writer # Nil
    /\ kept' = kept \cup {c}
    /\ UNCHANGED <<readers, writer>>

RUnlock(c) == readers' = readers \ {c} /\ UNCHANGED <<kept, writer>>

\* The first half of Lock.  The second is to wait until Drained.
TakeWriter(c) ==
    /\ writer = Nil
    /\ writer' = c
    /\ UNCHANGED <<readers, kept>>

Drained == readers = {}

Unlock ==
    /\ writer' = Nil
    /\ readers' = readers \cup kept
    /\ kept' = {}
=============================================================================
