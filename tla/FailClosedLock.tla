--------------------------- MODULE FailClosedLock ---------------------------
(****************************************************************************)
(* What the mutation lock promises to the owners of a state directory,      *)
(* without tasks, reentrancy or process-local sets: at any time the         *)
(* directory is free, held by one process, or behind a stale lock file that *)
(* only an operator removes.  Any process may write a free directory (its   *)
(* save takes and drops the lock within the call), only the holder writes a *)
(* held one, and nobody writes behind a stale lock.                         *)
(****************************************************************************)
EXTENDS Naturals, Sequences

CONSTANTS Process, NoProcess, MaxWrites

VARIABLES
    holder,  \* the process the lock file belongs to, or NoProcess
    stale,   \* the file is there but no live section stands behind it
    writes   \* the processes that have written the directory, oldest first

vars == <<holder, stale, writes>>

Init == holder = NoProcess /\ stale = FALSE /\ writes = <<>>

Acquire(p) ==
    /\ holder = NoProcess
    /\ holder' = p
    /\ stale' \in BOOLEAN
    /\ UNCHANGED writes

Release ==
    /\ holder # NoProcess /\ ~stale
    /\ holder' = NoProcess
    /\ UNCHANGED <<stale, writes>>

Orphan ==
    /\ holder # NoProcess /\ ~stale
    /\ stale' = TRUE
    /\ UNCHANGED <<holder, writes>>

Remove ==
    /\ stale
    /\ holder' = NoProcess
    /\ stale' = FALSE
    /\ UNCHANGED writes

Write(p) ==
    /\ ~stale
    /\ holder \in {p, NoProcess}
    /\ Len(writes) < MaxWrites
    /\ writes' = Append(writes, p)
    /\ UNCHANGED <<holder, stale>>

Next == \/ \E p \in Process : Acquire(p) \/ Write(p)
        \/ Release \/ Orphan \/ Remove

Spec == Init /\ [][Next]_vars
=============================================================================
