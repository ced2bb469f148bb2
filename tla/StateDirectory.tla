--------------------------- MODULE StateDirectory ---------------------------
(****************************************************************************)
(* The lock of module StateLock together with what it is there for: the     *)
(* writes of the stores (OrderStore.save, ManagedStateStore.save, ...),     *)
(* each wrapped in withStateDirLock and refused with StateLockedError when  *)
(* another process, or a stale file, holds the lock.                        *)
(****************************************************************************)
EXTENDS StateLock, Naturals, Sequences

CONSTANT MaxWrites   \* bound on the number of writes in a behaviour

ASSUME MaxWritesAssumption == MaxWrites \in Nat

VARIABLES
    writes,     \* the processes that have written the directory, oldest first
    disturbed   \* history: tasks another process wrote under, in their section

dirVars == <<up, lockFile, held, section, writes, disturbed>>

DirTypeOK ==
    /\ LockTypeOK
    /\ writes \in Seq(Process)
    /\ disturbed \subseteq Task

DirInit ==
    /\ LockInit
    /\ writes = <<>>
    /\ disturbed = {}

\* A store saves on behalf of task t: within t's section, or on its own.
Save(t) ==
    LET p == ProcOf[t] IN
    /\ p \in up
    /\ CanMutate(p)
    /\ Len(writes) < MaxWrites
    /\ writes' = Append(writes, p)
    /\ disturbed' = disturbed \cup {u \in Task : Inside(u) /\ ProcOf[u] # p}
    /\ UNCHANGED lockVars

DirNext ==
    \/ LockNext /\ UNCHANGED <<writes, disturbed>>
    \/ \E t \in Task : Save(t)

DirSpec == DirInit /\ [][DirNext]_dirVars

----------------------------------------------------------------------------
(* Properties *)

\* While a section is open, no other process writes the directory: the section
\* "stays atomic against OTHER PROCESSES for its whole duration" (lock.ts).
AtomicAgainstOthers == disturbed = {}

\* The promise of module FailClosedLock.
Promise == INSTANCE FailClosedLock WITH
    holder <- lockFile,
    stale <- lockFile # NoProcess /\ \A p \in Process : ~held[p]

\* Seen as one file with one holder, the lock is fail closed: it passes from one
\* process to another only through "free", nobody writes behind a stale file, and
\* only the operator clears one.
ImplementsFailClosedLock == Promise!Spec
=============================================================================
