----------------------------- MODULE WriterLock -----------------------------
(***************************************************************************)
(* What the callers of acquireScanLease rely on, with no files in it: a    *)
(* lock with at most one writer, that a process must not enter twice, that *)
(* only its writer gives back, and that is free once its writer has died.  *)
(***************************************************************************)
CONSTANT Proc

VARIABLES
    up,       \* the processes that are running
    writers   \* the processes now running a scan under the lock

vars == <<up, writers>>

Init == up = {} /\ writers = {}

Start(p) == p \notin up /\ up' = up \cup {p} /\ UNCHANGED writers

Crash(p) == p \in up /\ up' = up \ {p} /\ writers' = writers \ {p}

Acquire(p) ==
    /\ p \in up /\ writers = {}
    /\ writers' = {p}
    /\ UNCHANGED up

Release(p) ==
    /\ writers = {p}
    /\ writers' = {}
    /\ UNCHANGED up

Next == \E p \in Proc : Start(p) \/ Crash(p) \/ Acquire(p) \/ Release(p)

Spec == Init /\ [][Next]_vars
=============================================================================
