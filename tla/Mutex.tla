------------------------------- MODULE Mutex -------------------------------
(***************************************************************************)
(* What a named cross-process lock promises to the code that runs under    *)
(* it: at most one holder at a time, and the lock only changes hands       *)
(* through being free.  A holder may let go at any moment, by finishing or *)
(* by dying.  FileLock implements this module with flock(2), a lock file   *)
(* and an unlink.                                                          *)
(***************************************************************************)
CONSTANTS
    Calls,      \* the callers of withLock, in every process
    NoCall      \* "nobody": not a call (NullAssumption of FileLock)

VARIABLE holder

TypeOK == holder \in Calls \cup {NoCall}

Init == holder = NoCall

Enter(c) ==
    /\ holder = NoCall
    /\ holder' = c

Leave(c) ==
    /\ holder = c
    /\ holder' = NoCall

Next == \E c \in Calls : Enter(c) \/ Leave(c)

Spec == Init /\ [][Next]_holder
=============================================================================
