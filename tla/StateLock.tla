------------------------------ MODULE StateLock ------------------------------
(****************************************************************************)
(* The state-directory mutation lock of src/src/persistence/lock.ts.        *)
(*                                                                          *)
(* One lock file guards one state directory.  A process takes it by         *)
(* exclusive creation and remembers in a process-local set (heldByProcess)  *)
(* that it holds it; every later section of the SAME process then runs      *)
(* without touching the file, whichever asynchronous task it belongs to.    *)
(* The lock file outlives a crash: nobody inspects or steals it, only an    *)
(* operator removes it.                                                     *)
(*                                                                          *)
(* A task is one asynchronous activity (an evaluation cycle, a command):    *)
(* section[t] says whether it runs inside withStateDirLock(Async), and      *)
(* whether that call acquired the lock ("owner") or found it held by its    *)
(* own process ("guest").  A refused acquisition throws StateLockedError    *)
(* and changes nothing, so it is no action.                                 *)
(****************************************************************************)

CONSTANTS
    Process,    \* the operating-system processes using the state directory
    Task,       \* the asynchronous activities running in them
    NoProcess,  \* the content of an absent lock file
    ProcOf      \* the process each task runs in

ASSUME NoProcessAssumption == NoProcess \notin Process
ASSUME ProcOfAssumption == ProcOf \in [Task -> Process]

VARIABLES
    up,        \* the processes that are running
    lockFile,  \* whose process id the lock file was created by, if it exists
    held,      \* per process: is the lock path in heldByProcess
    section    \* per task: "out", "owner" or "guest"

lockVars == <<up, lockFile, held, section>>

SectionState == {"out", "owner", "guest"}

LockTypeOK ==
    /\ up \subseteq Process
    /\ lockFile \in Process \cup {NoProcess}
    /\ held \in [Process -> BOOLEAN]
    /\ section \in [Task -> SectionState]

----------------------------------------------------------------------------
(* Helpers *)

Inside(t) == section[t] # "out"

\* Wrong: a store saves without the lock.
WrongCanMutate(p) == TRUE

\* A synchronous withStateDirLock section of process p runs: reentrantly when p
\* already holds the lock, else by creating and removing the file within the call.
CanMutate(p) == held[p] \/ lockFile = NoProcess

\* One task per process: no two activities of a process ever overlap.
Serial == \A t, u \in Task : ProcOf[t] = ProcOf[u] => t = u

----------------------------------------------------------------------------
(* Actions *)

LockInit ==
    /\ up = Process
    /\ lockFile = NoProcess
    /\ held = [p \in Process |-> FALSE]
    /\ section = [t \in Task |-> "out"]

\* Wrong: the file is opened with 'w', which an existing file does not refuse.
WrongEnter(t) ==
    LET p == ProcOf[t] IN
    /\ p \in up
    /\ section[t] = "out"
    /\ ~held[p]
    /\ lockFile' = p
    /\ held' = [held EXCEPT ![p] = TRUE]
    /\ section' = [section EXCEPT ![t] = "owner"]
    /\ UNCHANGED up

\* open('wx') succeeds, the metadata is written, the path joins heldByProcess.
Enter(t) ==
    LET p == ProcOf[t] IN
    /\ p \in up
    /\ section[t] = "out"
    /\ ~held[p]
    /\ lockFile = NoProcess
    /\ lockFile' = p
    /\ held' = [held EXCEPT ![p] = TRUE]
    /\ section' = [section EXCEPT ![t] = "owner"]
    /\ UNCHANGED up

\* The file is created but its metadata cannot be written: the call throws,
\* leaving the file in place and the reentrancy set unchanged.
EnterFailsMidway(t) ==
    LET p == ProcOf[t] IN
    /\ p \in up
    /\ section[t] = "out"
    /\ ~held[p]
    /\ lockFile = NoProcess
    /\ lockFile' = p
    /\ UNCHANGED <<up, held, section>>

\* The process already holds the lock: run without acquiring it.
Reenter(t) ==
    /\ ProcOf[t] \in up
    /\ section[t] = "out"
    /\ held[ProcOf[t]]
    /\ section' = [section EXCEPT ![t] = "guest"]
    /\ UNCHANGED <<up, lockFile, held>>

\* The section returns or throws.  Only the call that acquired the lock releases
\* it, whatever its guests are still doing.
Leave(t) ==
    LET p == ProcOf[t] IN
    /\ p \in up
    /\ Inside(t)
    /\ section' = [section EXCEPT ![t] = "out"]
    /\ IF section[t] = "owner"
       THEN /\ held' = [held EXCEPT ![p] = FALSE]
            /\ lockFile' = NoProcess
       ELSE UNCHANGED <<held, lockFile>>
    /\ UNCHANGED up

\* A process dies: its tasks and its reentrancy set are gone, the file is not.
Crash(p) ==
    /\ p \in up
    /\ up' = up \ {p}
    /\ held' = [held EXCEPT ![p] = FALSE]
    /\ section' = [t \in Task |-> IF ProcOf[t] = p THEN "out" ELSE section[t]]
    /\ UNCHANGED lockFile

Restart(p) ==
    /\ p \notin up
    /\ up' = up \cup {p}
    /\ UNCHANGED <<lockFile, held, section>>

\* The documented manual recovery: delete the file when no mutator is running.
OperatorRemove ==
    /\ lockFile # NoProcess
    /\ \A t \in Task : ~Inside(t)
    /\ lockFile' = NoProcess
    /\ UNCHANGED <<up, held, section>>

LockNext ==
    \/ \E t \in Task : Enter(t) \/ EnterFailsMidway(t) \/ Reenter(t) \/ Leave(t)
    \/ \E p \in Process : Crash(p) \/ Restart(p)
    \/ OperatorRemove

LockSpec == LockInit /\ [][LockNext]_lockVars

----------------------------------------------------------------------------
(* Properties *)

\* The reentrancy set and the file agree: a process believes it holds the lock
\* exactly while one of its tasks is the owner, and then the file is its own; it
\* has a single owner.  (lock.ts adds to the set after the create and deletes
\* from it before the remove; guests never do either.)
HolderConsistent ==
    /\ \A p \in Process :
          held[p] <=> \E t \in Task : ProcOf[t] = p /\ section[t] = "owner"
    /\ \A p \in Process : held[p] => lockFile = p /\ p \in up
    /\ \A t, u \in Task :
          section[t] = "owner" /\ section[u] = "owner" => t = u

\* Two sections that are open at the same time belong to one process: the promise
\* of withStateDirLockAsync that a section is exclusive across processes "for its
\* whole duration".
CrossProcessExclusion ==
    \A t, u \in Task : Inside(t) /\ Inside(u) => ProcOf[t] = ProcOf[u]

\* A section the lock was acquired for keeps the lock until that very section
\* ends or its process dies: no other task, and no operator, takes it away.
OwnerKeepsLock ==
    [][\A t \in Task :
          section[t] = "owner" /\ section'[t] = "owner"
             => lockFile' = ProcOf[t] /\ held'[ProcOf[t]]]_lockVars
=============================================================================
