------------------------ MODULE StateDirectoryProofs ------------------------
(****************************************************************************)
(* Proofs about the state directory: its lock (StateDirectory) and its      *)
(* files (StateFiles), for any processes, tasks, orders and bounds.  They   *)
(* rest on the lemmas of module StateLockProofs.                            *)
(*                                                                          *)
(* The argument about the files, in three layers.                           *)
(*   FilesBase: a bot's jobs are always the rest of a list it was given,    *)
(*     its section is the one its next job belongs to, the two bots exclude *)
(*     each other, hence a temporary file holds what its write would put in *)
(*     the file now (no lost update between the temporary file and the      *)
(*     rename).                                                             *)
(*   PaperIsKept: a paper book that holds trades has its realm marked; a    *)
(*     seed is only on its way when nothing was traded.  One lost file      *)
(*     leaves the book or the mark, and either stops the seed.              *)
(*   RealmsAreWhole: a bot that is to mark a realm has its book, or seeds   *)
(*     it before.                                                           *)
(*   OrdersAreKept: a reservation is saved before its order is recorded,    *)
(*     and kept when it is released.  So a lost ledger leaves reservations  *)
(*     nobody owns, which the live start refuses.                           *)
(*   TradingIsClean: a submission is under way only where every reservation *)
(*     but its own has its order, for it was checked before and a failed    *)
(*     save ends the section, the reservation given back.                   *)
(****************************************************************************)
EXTENDS StateDirectory, StateFiles, StateLockProofs, SequenceTheorems

USE NoProcessAssumption, ProcOfAssumption

----------------------------------------------------------------------------
(* The directory *)

LEMMA DirStepIsLockStep ==
    ASSUME [DirNext]_dirVars PROVE [LockNext]_lockVars
  BY DEF DirNext, dirVars, Save, lockVars

LEMMA DirTypeStep == DirTypeOK /\ [DirNext]_dirVars => DirTypeOK'
<1> SUFFICES ASSUME DirTypeOK, [DirNext]_dirVars PROVE DirTypeOK'
  OBVIOUS
<1>1. LockTypeOK'
  BY DirStepIsLockStep, LockTypeStep DEF DirTypeOK
<1>2. ASSUME NEW t \in Task, Save(t) PROVE DirTypeOK'
  BY <1>1, <1>2 DEF DirTypeOK, Save
<1>3. CASE UNCHANGED <<writes, disturbed>>
  BY <1>1, <1>3 DEF DirTypeOK
<1> QED
  BY <1>2, <1>3 DEF DirNext, dirVars

\* The lock invariant holds throughout a behaviour of the directory.
LEMMA DirLockInv == DirSpec => []LockIInv
<1>1. DirInit => LockIInv
  BY LockInitOK DEF DirInit
<1>2. LockIInv /\ [DirNext]_dirVars => LockIInv'
  BY DirStepIsLockStep, LockIInvStep
<1> QED
  BY <1>1, <1>2, PTL DEF DirSpec

\* Type correctness of the directory and its lock.
THEOREM DirTypeCorrect == DirSpec => []DirTypeOK
<1>1. DirInit => DirTypeOK
  BY LockInitOK DEF DirInit, DirTypeOK, LockIInv
<1> QED
  BY <1>1, DirTypeStep, PTL DEF DirSpec

\* The reentrancy set, the lock file and the owning task agree, however many
\* activities of a process overlap and whoever crashes.
THEOREM HolderAlwaysConsistent == DirSpec => []HolderConsistent
<1>1. LockIInv => HolderConsistent
  BY DEF LockIInv
<1> QED
  BY <1>1, DirLockInv, PTL

\* An owner's lock stays its own until its section ends or its process dies.
THEOREM OwnerAlwaysKeepsLock == DirSpec => OwnerKeepsLock
<1>1. ASSUME LockIInv, LockIInv' 
      PROVE  \A t \in Task : section[t] = "owner" /\ section'[t] = "owner"
                => lockFile' = ProcOf[t] /\ held'[ProcOf[t]]
  BY <1>1 DEF LockIInv, HolderConsistent
<1> QED
  BY <1>1, DirLockInv, PTL DEF OwnerKeepsLock

\* When the activities of one process never overlap, open sections exclude other
\* processes: the promise of withStateDirLockAsync.
THEOREM SerialExclusion ==
    ASSUME Serial PROVE DirSpec => []CrossProcessExclusion
<1>1. LockIInv => CrossProcessExclusion
  BY ExclusionFromInv
<1> QED
  BY <1>1, DirLockInv, PTL

\* Under the same assumption no other process writes under an open section.
THEOREM SerialAtomicity ==
    ASSUME Serial PROVE DirSpec => []AtomicAgainstOthers
<1>1. DirInit => AtomicAgainstOthers
  BY DEF DirInit, AtomicAgainstOthers
<1>2. LockIInv /\ AtomicAgainstOthers /\ [DirNext]_dirVars => AtomicAgainstOthers'
  <2> SUFFICES ASSUME LockIInv, AtomicAgainstOthers, [DirNext]_dirVars
               PROVE  AtomicAgainstOthers'
    OBVIOUS
  <2>1. ASSUME NEW t \in Task, Save(t) PROVE AtomicAgainstOthers'
    <3>1. ASSUME NEW u \in Task, Inside(u) PROVE ProcOf[u] = ProcOf[t]
      <4>1. section[u] = "owner"
        BY <3>1 DEF LockIInv, LockTypeOK, SectionState, NoGuest, Inside
      <4> QED
        BY <2>1, <4>1, OwnerExcludesWriters DEF Save
    <3> QED
      BY <2>1, <3>1 DEF Save, AtomicAgainstOthers
  <2>2. CASE UNCHANGED disturbed
    BY <2>2 DEF AtomicAgainstOthers
  <2> QED
    BY <2>1, <2>2 DEF DirNext, dirVars
<1> QED
  BY <1>1, <1>2, DirLockInv, PTL DEF DirSpec

----------------------------------------------------------------------------
(* Refinement of the fail-closed lock *)

\* A step of the lock is a step of the abstract lock, or none.
LEMMA LockStepRefines ==
    ASSUME LockIInv, [LockNext]_lockVars, UNCHANGED writes
    PROVE  [Promise!Next]_(Promise!vars)
<1> USE DEF LockIInv, LockTypeOK, SectionState, HolderConsistent, Promise!vars
<1>1. ASSUME NEW t \in Task, Enter(t) PROVE Promise!Acquire(ProcOf[t])
  BY <1>1 DEF Enter, Promise!Acquire
<1>2. ASSUME NEW t \in Task, EnterFailsMidway(t) PROVE Promise!Acquire(ProcOf[t])
  BY <1>2 DEF EnterFailsMidway, Promise!Acquire
<1>3. ASSUME NEW t \in Task, Reenter(t) PROVE UNCHANGED Promise!vars
  BY <1>3 DEF Reenter
<1>4. ASSUME NEW t \in Task, Leave(t) PROVE [Promise!Next]_(Promise!vars)
  <2>1. CASE section[t] = "owner"
    BY <1>4, <2>1 DEF Leave, Promise!Next, Promise!Release
  <2>2. CASE section[t] # "owner"
    BY <1>4, <2>2 DEF Leave
  <2> QED
    BY <2>1, <2>2
<1>5. ASSUME NEW p \in Process, Crash(p) PROVE [Promise!Next]_(Promise!vars)
  <2>1. CASE held[p]
    BY <1>5, <2>1 DEF Crash, Promise!Next, Promise!Orphan
  <2>2. CASE ~held[p]
    BY <1>5, <2>2 DEF Crash
  <2> QED
    BY <2>1, <2>2
<1>6. ASSUME NEW p \in Process, Restart(p) PROVE UNCHANGED Promise!vars
  BY <1>6 DEF Restart
<1>7. CASE OperatorRemove
  BY <1>7 DEF OperatorRemove, Inside, Promise!Next, Promise!Remove
<1>8. CASE UNCHANGED lockVars
  BY <1>8 DEF lockVars
<1> QED
  BY <1>1, <1>2, <1>3, <1>4, <1>5, <1>6, <1>7, <1>8 DEF LockNext, Promise!Next

\* The directory with its lock implements the fail-closed lock, overlapping
\* activities included: the reentrancy set and the file together behave as one
\* holder, and a file nobody stands behind blocks every write.
THEOREM RefinesFailClosedLock == DirSpec => ImplementsFailClosedLock
<1>1. DirInit => Promise!Init
  BY DEF DirInit, LockInit, Promise!Init
<1>2. ASSUME LockIInv, [DirNext]_dirVars PROVE [Promise!Next]_(Promise!vars)
  <2>1. ASSUME NEW t \in Task, Save(t) PROVE Promise!Write(ProcOf[t])
    <3>1. UNCHANGED <<lockFile, held>>
      BY <2>1 DEF Save, lockVars
    <3>2. held[ProcOf[t]] \/ lockFile = NoProcess
      BY <2>1 DEF Save, CanMutate
    <3>3. lockFile \in {ProcOf[t], NoProcess}
      BY <1>2, <3>2 DEF LockIInv, HolderConsistent
    <3>4. ~(lockFile # NoProcess /\ \A p \in Process : ~held[p])
      BY <3>2
    <3>5. UNCHANGED <<lockFile, lockFile # NoProcess /\ \A p \in Process : ~held[p]>>
      BY <3>1
    <3> QED
      BY <2>1, <3>3, <3>4, <3>5 DEF Save, Promise!Write
  <2>2. CASE LockNext /\ UNCHANGED <<writes, disturbed>>
    BY <1>2, <2>2, LockStepRefines
  <2>3. CASE UNCHANGED dirVars
    BY <2>3 DEF dirVars, Promise!vars
  <2> QED
    BY <1>2, <2>1, <2>2, <2>3 DEF DirNext, Promise!Next
<1> QED
  BY <1>1, <1>2, DirLockInv, PTL
     DEF DirSpec, ImplementsFailClosedLock, Promise!Spec

----------------------------------------------------------------------------
(* The files: what their proofs are about *)

\* What may follow a job: a section is one write, or two of a kind, or a migration.
Follows(j, k) ==
    \/ j[1] = "lock" /\ k[1] \in {"migrate", "seed", "mark", "trade", "reserve", "account", "unlock"}
    \/ j[1] = "migrate" /\ k = <<"retire", j[2]>>
    \/ j[1] = "retire" /\ k[1] \in {"migrate", "unlock"}
    \/ j[1] = "reserve" /\ k = <<"create", j[2]>>
    \/ j[1] = "account" /\ k = <<"close", j[2]>>
    \/ j[1] \in {"seed", "mark", "trade", "release", "create", "close"} /\ k[1] = "unlock"
    \/ j[1] = "unlock" /\ k[1] \in {"load", "lock", "go"}

\* The jobs of each bot.
JobsOf(t) ==
    {<<op, None>> : op \in {"lock", "unlock", "go"}} \cup
    (IF t = PaperBot
     THEN {<<op, "paper">> : op \in {"load", "seed", "mark"}} \cup {<<"trade", None>>}
          \cup {"migrate", "retire"} \X Legacy
     ELSE {<<op, "live">> : op \in {"load", "seed", "mark"}}
          \cup {"reserve", "release", "create", "account", "close"} \X Order)

\* A list of jobs of t that is carried out to its end.
Orderly(t, q) ==
    \A i \in 1 .. Len(q) :
        /\ q[i] \in JobsOf(t)
        /\ IF i = Len(q) THEN q[i][1] \in {"unlock", "load", "go"} ELSE Follows(q[i], q[i + 1])

\* The first job is one of a section that has begun.
Begun(q) == q # <<>> /\ Head(q)[1] \in Writes \cup {"retire", "unlock"}

\* The jobs of a list.
AllOf(q) == {q[i] : i \in 1 .. Len(q)}

\* The marker names the realm, the reservations of the live book.
Named(r) == disk["marker"] # None /\ r \in disk["marker"]
Reserved == IF disk["live"] = None THEN {} ELSE disk["live"].resv

FilesLock ==
    /\ LockTypeOK /\ HolderConsistent /\ NoGuest
    /\ \A t \in Task : Inside(t) => t \in Bot

\* A bot is in a section exactly while the first of its jobs is one of a section.
JobsInOrder ==
    \A t \in Bot : Orderly(t, todo[t]) /\ (Inside(t) <=> Begun(todo[t]))

\* The temporary file of t holds what its write would put in the file now.
Current(t) ==
    LET job == Head(todo[t]) IN
    /\ todo[t] # <<>> /\ job[1] \in Writes
    /\ pend[t] = <<NewContent(job)>>
    /\ NewContent(job) \in Content(FileOf(job))
    /\ job[1] = "migrate" => disk[job[2]] = None
    /\ job[1] \in {"reserve", "release", "account"} => disk["live"] # None

PendingIsCurrent == \A t \in Bot : pend[t] # <<>> => Current(t)

\* What PaperBot has still to do.
Ahead(op, x) == <<op, x>> \in AllOf(todo[PaperBot])

PaperIsKept ==
    /\ PaperBot \in on => disk["paper"] # None /\ Named("paper")
    /\ Ahead("trade", None) => PaperBot \in on
    /\ Ahead("go", None) => /\ Ahead("seed", "paper") \/ disk["paper"] # None
                            /\ Ahead("mark", "paper") \/ Named("paper")
    /\ Ahead("seed", "paper") => saved.trades = 0 /\ ~Ahead("trade", None)
    /\ saved.trades # 0 => disk["paper"] # None \/ Named("paper")
    /\ saved.trades # 0 /\ incidents = 0 => disk["paper"] # None /\ Named("paper")
    /\ PaperLossIsDetected

\* Nothing of the live realm's start or work is under way.
LiveRests == LiveBot \notin on /\ Idle(LiveBot)

\* What LiveBot has still to do; the order it is about to record as CREATED.
LiveAhead(op, x) == <<op, x>> \in AllOf(todo[LiveBot])
Creating(o) == todo[LiveBot] # <<>> /\ Head(todo[LiveBot]) = <<"create", o>>

OrdersAreKept ==
    /\ LiveAhead("seed", "live") => Reserved = {} /\ \A o \in Order : ~LiveAhead("reserve", o)
    /\ \A o \in Order :
          LiveAhead("account", o) \/ LiveAhead("close", o) \/ Creating(o) => o \in Reserved
    /\ incidents = 0 => Known \subseteq Reserved /\ saved.orders \subseteq Known
    /\ \/ saved.orders \subseteq Known
       \/ incidents # 0 /\ saved.orders \subseteq Reserved /\ LiveRests

\* No submission is under way on a reservation without its order.
TradingIsClean ==
    /\ \A o : LiveAhead("create", o) => Reserved \subseteq Known \cup {o}
    /\ \A o, x : LiveAhead("create", o) /\ LiveAhead("create", x) => o = x
    /\ \A o : LiveAhead("close", o) => o \in Known
    /\ LiveAhead("go", None) \/ LiveAhead("load", "live") =>
          Reserved \subseteq Known /\ \A o : ~LiveAhead("reserve", o)

\* In a first run the seed comes before the mark.
SeedsFirst(q) ==
    \A i, k \in 1 .. Len(q) : q[i][1] = "mark" /\ q[k][1] = "seed" => k < i

\* The realm that t is about to mark has its book, or gets it before.
MarksWhole(t) ==
    /\ SeedsFirst(todo[t])
    /\ \A r \in Realm : <<"mark", r>> \in AllOf(todo[t]) =>
          disk[r] # None \/ <<"seed", r>> \in AllOf(todo[t])

RealmsAreWhole ==
    /\ incidents = 0 => \A r \in Realm : Named(r) => disk[r] # None
    /\ \A t \in Bot : MarksWhole(t)

----------------------------------------------------------------------------
(* Lists of jobs *)

LEMMA Bots ==
    /\ PaperBot \in Task /\ LiveBot \in Task
    /\ PaperBot # LiveBot /\ ProcOf[PaperBot] # ProcOf[LiveBot]
    /\ \A t, u \in Bot : ProcOf[t] = ProcOf[u] => t = u
  BY FilesAssumption DEF Bot

LEMMA JobsAreJobs ==
    ASSUME NEW t, NEW j \in JobsOf(t) PROVE j \in Job
<1>1. PICK op, x : j = <<op, x>> /\ <<op, x>> \in Job
  <2>1. CASE \E op \in {"lock", "unlock", "go"} : j = <<op, None>>
    BY <2>1 DEF Job, File
  <2>2. CASE \E op \in {"load", "seed", "mark"}, r \in {"paper", "live"} : j = <<op, r>>
    BY <2>2 DEF Job, File, Writes
  <2>3. CASE j = <<"trade", None>>
    BY <2>3 DEF Job, File, Writes
  <2>4. CASE j \in {"migrate", "retire"} \X Legacy
    <3>1. PICK op \in {"migrate", "retire"}, f \in Legacy : j = <<op, f>>
      BY <2>4
    <3>2. f \in File /\ op \in Writes \cup {"retire"}
      BY FilesAssumption DEF File, Writes
    <3> QED
      BY <3>1, <3>2 DEF Job
  <2>5. CASE j \in {"reserve", "release", "create", "account", "close"} \X Order
    BY <2>5 DEF Job, File, Writes
  <2> QED
    BY <2>1, <2>2, <2>3, <2>4, <2>5 DEF JobsOf
<1> QED
  BY <1>1

\* What is left of a list when its first job is done.
LEMMA Rest ==
    ASSUME NEW t \in Bot, NEW q \in Seq(Job), q # <<>>, Orderly(t, q)
    PROVE  /\ Tail(q) \in Seq(Job) /\ Orderly(t, Tail(q))
           /\ \A i \in 1 .. Len(Tail(q)) : i + 1 \in 1 .. Len(q) /\ Tail(q)[i] = q[i + 1]
           /\ Head(q) = q[1] /\ 1 \in 1 .. Len(q) /\ Head(q) \in JobsOf(t)
           /\ IF Tail(q) = <<>> THEN Head(q)[1] \in {"unlock", "load", "go"}
                                ELSE Follows(Head(q), Head(Tail(q)))
<1>1. /\ Tail(q) \in Seq(Job) /\ Len(Tail(q)) = Len(q) - 1 /\ Len(q) \in Nat /\ Len(q) > 0
      /\ Head(q) = q[1]
  OBVIOUS
<1>2. \A i \in 1 .. Len(Tail(q)) : i + 1 \in 1 .. Len(q) /\ Tail(q)[i] = q[i + 1]
  BY <1>1
<1>3. Orderly(t, Tail(q))
  <2> SUFFICES ASSUME NEW i \in 1 .. Len(Tail(q))
               PROVE  /\ Tail(q)[i] \in JobsOf(t)
                      /\ IF i = Len(Tail(q)) THEN Tail(q)[i][1] \in {"unlock", "load", "go"}
                                             ELSE Follows(Tail(q)[i], Tail(q)[i + 1])
    BY Zenon DEF Orderly
  <2>1. Tail(q)[i] = q[i + 1] /\ i + 1 \in 1 .. Len(q)
    BY <1>2
  <2>2. /\ q[i + 1] \in JobsOf(t)
        /\ IF i + 1 = Len(q) THEN q[i + 1][1] \in {"unlock", "load", "go"}
                             ELSE Follows(q[i + 1], q[i + 1 + 1])
    BY <2>1 DEF Orderly
  <2>3. CASE i = Len(Tail(q))
    <3>1. i + 1 = Len(q)
      BY <1>1, <2>3
    <3> QED
      BY <2>1, <2>2, <2>3, <3>1
  <2>4. CASE i # Len(Tail(q))
    <3>1. i + 1 # Len(q) /\ i + 1 \in 1 .. Len(Tail(q))
      <4> DEFINE n == Len(Tail(q))  m == Len(q)
      <4>1. n = m - 1 /\ m \in Nat /\ i \in 1 .. n /\ i # n
        BY <1>1, <2>4
      <4> HIDE DEF n, m
      <4>2. i + 1 # m /\ i + 1 \in 1 .. n
        BY <4>1
      <4> QED
        BY <4>2 DEF n, m
    <3>2. Tail(q)[i + 1] = q[i + 1 + 1]
      BY <1>2, <3>1
    <3> QED
      BY <2>1, <2>2, <2>4, <3>1, <3>2
  <2> QED
    BY <2>3, <2>4
<1>6. q[1] \in JobsOf(t) /\ IF 1 = Len(q) THEN q[1][1] \in {"unlock", "load", "go"}
                            ELSE Follows(q[1], q[1 + 1])
  <2>1. 1 \in 1 .. Len(q)
    BY <1>1
  <2> QED
    BY <2>1, Zenon DEF Orderly
<1>4. CASE Tail(q) = <<>>
  <2>1. Len(Tail(q)) = 0
    BY <1>4, EmptySeq, Zenon
  <2>2. Len(q) = 1
    <3> DEFINE n == Len(Tail(q))  m == Len(q)
    <3>1. n = m - 1 /\ m \in Nat /\ n = 0
      BY <1>1, <2>1
    <3> HIDE DEF n, m
    <3>2. m = 1
      BY <3>1
    <3> QED
      BY <3>2 DEF m
  <2> QED
    BY <1>1, <1>2, <1>3, <1>4, <1>6, <2>2
<1>5. CASE Tail(q) # <<>>
  <2>1. Len(Tail(q)) > 0 /\ Head(Tail(q)) = Tail(q)[1]
    BY <1>1, <1>5
  <2>2. Head(Tail(q)) = q[2] /\ Len(q) # 1
    BY <1>1, <1>2, <2>1
  <2> QED
    BY <1>1, <1>2, <1>3, <1>5, <1>6, <2>2
<1> QED
  BY <1>4, <1>5

\* A job put before a list.
LEMMA Before ==
    ASSUME NEW t \in Bot, NEW q \in Seq(Job), q # <<>>, Orderly(t, q),
           NEW j \in JobsOf(t), Follows(j, q[1])
    PROVE  LET p == <<j>> \o q IN
           /\ p \in Seq(Job) /\ p # <<>> /\ Orderly(t, p)
           /\ Len(p) = Len(q) + 1 /\ Len(q) \in Nat
           /\ p[1] = j /\ Head(p) = j /\ \A i \in 1 .. Len(q) : p[i + 1] = q[i]
<1> DEFINE p == <<j>> \o q
<1>1. j \in Job
  BY JobsAreJobs
<1>2. /\ p \in Seq(Job) /\ p # <<>> /\ Len(p) = Len(q) + 1 /\ Len(q) \in Nat /\ Len(q) > 0
      /\ p[1] = j /\ Head(p) = j /\ \A i \in 1 .. Len(q) : p[i + 1] = q[i]
  BY <1>1
<1> HIDE DEF p
<1>3. ASSUME NEW i \in 1 .. Len(p)
      PROVE  /\ p[i] \in JobsOf(t)
             /\ IF i = Len(p) THEN p[i][1] \in {"unlock", "load", "go"}
                              ELSE Follows(p[i], p[i + 1])
  <2>1. CASE i = 1
    <3>1. p[2] = q[1]
      BY <1>2
    <3> QED
      BY <1>2, <2>1, <3>1
  <2>2. CASE i # 1
    <3>1. i - 1 \in 1 .. Len(q) /\ p[i] = q[i - 1] /\ (i # Len(p) => p[i + 1] = q[i])
      BY <1>2, <2>2
    <3> QED
      BY <1>2, <2>2, <3>1 DEF Orderly
  <2> QED
    BY <2>1, <2>2
<1>4. Orderly(t, p)
  BY <1>3, Zenon DEF Orderly
<1> QED
  BY <1>2, <1>4 DEF p

\* A list of one job.
LEMMA Single ==
    ASSUME NEW t \in Bot, NEW j \in JobsOf(t), j[1] \in {"unlock", "load", "go"}
    PROVE  <<j>> \in Seq(Job) /\ <<j>> # <<>> /\ Orderly(t, <<j>>) /\ <<j>>[1] = j
<1>1. j \in Job
  BY JobsAreJobs
<1> QED
  BY <1>1 DEF Orderly

LEMMA Nothing == ASSUME NEW t PROVE <<>> \in Seq(Job) /\ Orderly(t, <<>>) /\ ~Begun(<<>>)
  BY DEF Orderly, Begun

\* The jobs of a list and of what is left of it.
LEMMA AllRest ==
    ASSUME NEW t \in Bot, NEW q \in Seq(Job), q # <<>>, Orderly(t, q)
    PROVE  AllOf(q) = {Head(q)} \cup AllOf(Tail(q))
<1>1. /\ Len(q) \in Nat /\ Len(q) > 0 /\ Len(Tail(q)) = Len(q) - 1
  OBVIOUS
<1>2. AllOf(q) \subseteq {Head(q)} \cup AllOf(Tail(q))
  <2> SUFFICES ASSUME NEW i \in 1 .. Len(q), i # 1 PROVE q[i] \in AllOf(Tail(q))
    BY Rest DEF AllOf
  <2>1. i - 1 \in 1 .. Len(Tail(q))
    <3> DEFINE n == Len(Tail(q))  m == Len(q)
    <3>1. n = m - 1 /\ m \in Nat /\ i \in 1 .. m /\ i # 1
      BY <1>1
    <3> HIDE DEF n, m
    <3>2. i - 1 \in 1 .. n
      BY <3>1
    <3> QED
      BY <3>2 DEF n
  <2>2. Tail(q)[i - 1] = q[i - 1 + 1] /\ i - 1 + 1 = i
    BY <2>1, Rest
  <2> QED
    BY <2>1, <2>2 DEF AllOf
<1>3. AllOf(Tail(q)) \subseteq AllOf(q)
  BY Rest DEF AllOf
<1>4. Head(q) \in AllOf(q)
  BY Rest DEF AllOf
<1> QED
  BY <1>2, <1>3, <1>4

LEMMA AllBefore ==
    ASSUME NEW t \in Bot, NEW q \in Seq(Job), q # <<>>, Orderly(t, q),
           NEW j \in JobsOf(t), Follows(j, q[1])
    PROVE  AllOf(<<j>> \o q) = {j} \cup AllOf(q)
<1> DEFINE p == <<j>> \o q
<1>1. /\ Len(p) = Len(q) + 1 /\ Len(q) \in Nat
      /\ p[1] = j /\ \A i \in 1 .. Len(q) : p[i + 1] = q[i]
  BY Before
<1> HIDE DEF p
<1>2. AllOf(p) \subseteq {j} \cup AllOf(q)
  <2> SUFFICES ASSUME NEW i \in 1 .. Len(p), i # 1 PROVE p[i] \in AllOf(q)
    BY <1>1 DEF AllOf
  <2>1. i - 1 \in 1 .. Len(q) /\ i - 1 + 1 = i
    BY <1>1
  <2> QED
    BY <1>1, <2>1 DEF AllOf
<1>3. AllOf(q) \subseteq AllOf(p)
  <2> SUFFICES ASSUME NEW i \in 1 .. Len(q) PROVE q[i] \in AllOf(p)
    BY DEF AllOf
  <2>1. i + 1 \in 1 .. Len(p)
    BY <1>1
  <2> QED
    BY <1>1, <2>1 DEF AllOf
<1>4. j \in AllOf(p)
  <2>1. 1 \in 1 .. Len(p)
    BY <1>1
  <2> QED
    BY <1>1, <2>1 DEF AllOf
<1> QED
  BY <1>2, <1>3, <1>4 DEF p

LEMMA AllOfFew ==
    AllOf(<<>>) = {} /\ \A j : AllOf(<<j>>) = {j}
  BY DEF AllOf

\* A list t may be given: its jobs are S, and it starts with op.
Starts(t, q, op, S) ==
    /\ q \in Seq(Job) /\ q # <<>> /\ Orderly(t, q)
    /\ Head(q) = q[1] /\ q[1][1] = op /\ AllOf(q) = S

LEMMA StartsWith ==
    ASSUME NEW t \in Bot, NEW q, NEW op, NEW S, Starts(t, q, op, S),
           NEW j \in JobsOf(t), Follows(j, q[1]), NEW first, first = j[1]
    PROVE  Starts(t, <<j>> \o q, first, {j} \cup S)
<1> DEFINE p == <<j>> \o q
<1>1. q \in Seq(Job) /\ q # <<>> /\ Orderly(t, q) /\ AllOf(q) = S
  BY DEF Starts
<1>2. p \in Seq(Job) /\ p # <<>> /\ Orderly(t, p) /\ p[1] = j /\ Head(p) = j
  BY <1>1, Before
<1>3. AllOf(p) = {j} \cup S
  BY <1>1, AllBefore
<1> QED
  BY <1>2, <1>3, Zenon DEF Starts

LEMMA StartsSingle ==
    ASSUME NEW t \in Bot, NEW j \in JobsOf(t), j[1] \in {"unlock", "load", "go"}
    PROVE  Starts(t, <<j>>, j[1], {j})
<1>1. Head(<<j>>) = j /\ <<j>>[1] = j
  OBVIOUS
<1> QED
  BY <1>1, Single, AllOfFew, Zenon DEF Starts

LEMMA Associates ==
    ASSUME NEW S, NEW a \in Seq(S), NEW b \in Seq(S), NEW c \in Seq(S), NEW d \in Seq(S)
    PROVE  ((a \o b) \o c) \o d = a \o (b \o (c \o d))
<1> DEFINE ab == a \o b  cd == c \o d
<1>1. ab \in Seq(S) /\ cd \in Seq(S)
  OBVIOUS
<1> HIDE DEF ab, cd
<1>2. (ab \o c) \o d = ab \o (c \o d)
  BY <1>1
<1>3. (a \o b) \o cd = a \o (b \o cd)
  BY <1>1
<1> QED
  BY <1>2, <1>3 DEF ab, cd

LockJob == <<"lock", None>>
UnlockJob == <<"unlock", None>>

LEMMA CommonJobs ==
    ASSUME NEW t PROVE LockJob \in JobsOf(t) /\ UnlockJob \in JobsOf(t) /\ <<"go", None>> \in JobsOf(t)
  BY DEF JobsOf, LockJob, UnlockJob

\* A section and what follows it, one job at a time.
LEMMA Regroup ==
    ASSUME NEW jobs \in Seq(Job), NEW r \in Seq(Job)
    PROVE  Section(jobs) \o r = <<LockJob>> \o (jobs \o (<<UnlockJob>> \o r))
<1>1. <<LockJob>> \in Seq(Job) /\ <<UnlockJob>> \in Seq(Job)
  BY DEF Job, LockJob, UnlockJob
<1>2. Section(jobs) = (<<LockJob>> \o jobs) \o <<UnlockJob>>
  BY DEF Section, LockJob, UnlockJob
<1> QED
  BY <1>1, <1>2, Associates

\* The end of a section, before what follows it.
LEMMA Ends ==
    ASSUME NEW t \in Bot, NEW r, NEW op \in {"load", "lock", "go"}, NEW S, Starts(t, r, op, S)
    PROVE  Starts(t, <<UnlockJob>> \o r, "unlock", {UnlockJob} \cup S)
<1>1. Follows(UnlockJob, r[1]) /\ UnlockJob[1] = "unlock"
  BY DEF Starts, Follows, UnlockJob
<1> QED
  BY <1>1, CommonJobs, StartsWith

\* A section of one write, and what follows it.
LEMMA OneWrite ==
    ASSUME NEW t \in Bot, NEW j \in JobsOf(t), j[1] \in {"seed", "mark", "trade"},
           NEW r \in Seq(Job), NEW S, Starts(t, <<UnlockJob>> \o r, "unlock", S)
    PROVE  Starts(t, Section(<<j>>) \o r, "lock", {LockJob, j} \cup S)
<1>1. Follows(j, (<<UnlockJob>> \o r)[1])
  BY DEF Starts, Follows
<1>2. Starts(t, <<j>> \o (<<UnlockJob>> \o r), j[1], {j} \cup S)
  BY <1>1, StartsWith
<1>3. Follows(LockJob, (<<j>> \o (<<UnlockJob>> \o r))[1]) /\ LockJob[1] = "lock"
  BY <1>2 DEF Starts, Follows, LockJob
<1> DEFINE q == <<j>> \o (<<UnlockJob>> \o r)
<1> HIDE DEF q
<1>4. Starts(t, <<LockJob>> \o q, "lock", {LockJob} \cup ({j} \cup S))
  <2>1. Starts(t, q, j[1], {j} \cup S) /\ Follows(LockJob, q[1]) /\ LockJob[1] = "lock"
    BY <1>2, <1>3 DEF q
  <2> QED
    BY <2>1, CommonJobs, StartsWith
<1>5. j \in Job
  BY JobsAreJobs
<1>6. Section(<<j>>) \o r = <<LockJob>> \o (<<j>> \o (<<UnlockJob>> \o r))
  <2>1. <<j>> \in Seq(Job)
    BY <1>5
  <2> QED
    BY <2>1, Regroup
<1>7. {LockJob} \cup ({j} \cup S) = {LockJob, j} \cup S
  OBVIOUS
<1> QED
  BY <1>4, <1>6, <1>7 DEF q

\* A job that may be the last, and the end of a section.
GoJob == <<"go", None>>

LEMMA LastSection ==
    ASSUME NEW t \in Bot, NEW j \in JobsOf(t), j[1] \in {"seed", "mark", "trade"}
    PROVE  Starts(t, Section(<<j>>), "lock", {LockJob, j, UnlockJob})
<1>1. Starts(t, <<UnlockJob>>, "unlock", {UnlockJob})
  BY CommonJobs, StartsSingle DEF UnlockJob
<1>2. <<UnlockJob>> \o <<>> = <<UnlockJob>> /\ <<>> \in Seq(Job)
  OBVIOUS
<1>3. Starts(t, Section(<<j>>) \o <<>>, "lock", {LockJob, j} \cup {UnlockJob})
  BY <1>1, <1>2, OneWrite
<1>4. j \in Job /\ LockJob \in Job /\ UnlockJob \in Job
  BY JobsAreJobs, CommonJobs
<1>5. <<<<"lock", None>>>> \o <<j>> \o <<<<"unlock", None>>>> \in Seq(Job)
  BY <1>4 DEF LockJob, UnlockJob
<1>6. Section(<<j>>) \in Seq(Job)
  BY <1>5 DEF Section
<1>7. Section(<<j>>) \o <<>> = Section(<<j>>)
  BY <1>6
<1>8. {LockJob, j} \cup {UnlockJob} = {LockJob, j, UnlockJob}
  OBVIOUS
<1> QED
  BY <1>3, <1>7, <1>8

LEMMA MarkJobs ==
    ASSUME NEW t \in Bot, NEW r, <<"mark", r>> \in JobsOf(t)
    PROVE  Starts(t, Section(<<<<"mark", r>>>>) \o <<GoJob>>, "lock",
                  {LockJob, <<"mark", r>>, UnlockJob, GoJob})
<1>1. Starts(t, <<GoJob>>, "go", {GoJob})
  BY CommonJobs, StartsSingle DEF GoJob
<1>2. Starts(t, <<UnlockJob>> \o <<GoJob>>, "unlock", {UnlockJob} \cup {GoJob})
  BY <1>1, Ends
<1>3. <<GoJob>> \in Seq(Job) /\ <<"mark", r>>[1] = "mark"
  BY <1>1 DEF Starts
<1>4. Starts(t, Section(<<<<"mark", r>>>>) \o <<GoJob>>, "lock",
             {LockJob, <<"mark", r>>} \cup ({UnlockJob} \cup {GoJob}))
  BY <1>2, <1>3, OneWrite
<1>5. {LockJob, <<"mark", r>>} \cup ({UnlockJob} \cup {GoJob})
        = {LockJob, <<"mark", r>>, UnlockJob, GoJob}
  OBVIOUS
<1> QED
  BY <1>4, <1>5

LEMMA FirstRunJobs ==
    ASSUME NEW t \in Bot, NEW r, <<"mark", r>> \in JobsOf(t), <<"seed", r>> \in JobsOf(t)
    PROVE  Starts(t, FirstRun(r), "lock",
                  {LockJob, <<"seed", r>>, UnlockJob, <<"mark", r>>, GoJob})
<1> DEFINE m == Section(<<<<"mark", r>>>>) \o <<GoJob>>
           S == {LockJob, <<"mark", r>>, UnlockJob, GoJob}
<1>1. Starts(t, m, "lock", S)
  BY MarkJobs
<1> HIDE DEF m
<1>2. Starts(t, <<UnlockJob>> \o m, "unlock", {UnlockJob} \cup S)
  BY <1>1, Ends
<1>3. m \in Seq(Job) /\ <<"seed", r>>[1] = "seed"
  BY <1>1 DEF Starts
<1>4. Starts(t, Section(<<<<"seed", r>>>>) \o m, "lock", {LockJob, <<"seed", r>>} \cup ({UnlockJob} \cup S))
  BY <1>2, <1>3, OneWrite
<1>5. {LockJob, <<"seed", r>>} \cup ({UnlockJob} \cup S)
        = {LockJob, <<"seed", r>>, UnlockJob, <<"mark", r>>, GoJob}
  OBVIOUS
<1>6. FirstRun(r) = Section(<<<<"seed", r>>>>) \o m
  <2>1. <<"seed", r>> \in Job /\ <<"mark", r>> \in Job /\ LockJob \in Job /\ UnlockJob \in Job /\ GoJob \in Job
    BY JobsAreJobs, CommonJobs DEF GoJob
  <2>2. \A x \in Job : <<<<"lock", None>>>> \o <<x>> \o <<<<"unlock", None>>>> \in Seq(Job)
    BY <2>1 DEF LockJob, UnlockJob
  <2>3. /\ Section(<<<<"seed", r>>>>) \in Seq(Job) /\ Section(<<<<"mark", r>>>>) \in Seq(Job)
        /\ <<GoJob>> \in Seq(Job)
    BY <2>1, <2>2 DEF Section
  <2> DEFINE a == Section(<<<<"seed", r>>>>)  b == Section(<<<<"mark", r>>>>)
  <2> HIDE DEF a, b
  <2>4. (a \o b) \o <<GoJob>> = a \o (b \o <<GoJob>>)
    BY <2>3 DEF a, b
  <2>5. FirstRun(r) = (a \o b) \o <<GoJob>>
    BY Zenon DEF FirstRun, a, b, GoJob
  <2> QED
    BY <2>4, <2>5 DEF a, b, m
<1> QED
  BY <1>4, <1>5, <1>6

LEMMA TwoAndRest ==
    ASSUME NEW S, NEW a \in S, NEW b \in S, NEW q \in Seq(S)
    PROVE  <<a, b>> \o q = <<a>> \o (<<b>> \o q)
<1>1. <<a, b>> = Append(<<a>>, b)
  OBVIOUS
<1>2. <<a>> \o <<b>> = Append(<<a>>, b)
  OBVIOUS
<1> DEFINE c == <<a>>  d == <<b>>
<1>3. c \in Seq(S) /\ d \in Seq(S)
  OBVIOUS
<1> HIDE DEF c, d
<1>4. (c \o d) \o q = c \o (d \o q)
  BY <1>3
<1> QED
  BY <1>1, <1>2, <1>4 DEF c, d

\* A section of two writes.
LEMMA PairJobs ==
    ASSUME NEW t \in Bot, NEW j \in JobsOf(t), NEW k \in JobsOf(t), Follows(j, k),
           j[1] \in {"reserve", "account"}, k[1] \in {"create", "close"}
    PROVE  Starts(t, Section(<<j, k>>), "lock", {LockJob, j, k, UnlockJob})
<1>1. Starts(t, <<UnlockJob>>, "unlock", {UnlockJob})
  BY CommonJobs, StartsSingle DEF UnlockJob
<1>2. Follows(k, <<UnlockJob>>[1])
  BY <1>1 DEF Starts, Follows
<1>3. Starts(t, <<k>> \o <<UnlockJob>>, k[1], {k} \cup {UnlockJob})
  BY <1>1, <1>2, StartsWith
<1>4. (<<k>> \o <<UnlockJob>>)[1] = k
  OBVIOUS
<1>5. Starts(t, <<j>> \o (<<k>> \o <<UnlockJob>>), j[1], {j} \cup ({k} \cup {UnlockJob}))
  <2> DEFINE q == <<k>> \o <<UnlockJob>>
  <2> HIDE DEF q
  <2>1. Starts(t, q, k[1], {k} \cup {UnlockJob}) /\ Follows(j, q[1])
    BY <1>3, <1>4 DEF q
  <2>2. Starts(t, <<j>> \o q, j[1], {j} \cup ({k} \cup {UnlockJob}))
    BY <2>1, StartsWith
  <2> QED
    BY <2>2 DEF q
<1> DEFINE q == <<j>> \o (<<k>> \o <<UnlockJob>>)
<1>6. Starts(t, q, j[1], {j} \cup ({k} \cup {UnlockJob}))
  BY <1>5
<1> HIDE DEF q
<1>7. Follows(LockJob, q[1]) /\ LockJob[1] = "lock"
  BY <1>6 DEF Starts, Follows, LockJob
<1>8. Starts(t, <<LockJob>> \o q, "lock", {LockJob} \cup ({j} \cup ({k} \cup {UnlockJob})))
  BY <1>6, <1>7, CommonJobs, StartsWith
<1>9. <<LockJob>> \o q = Section(<<j, k>>)
  <2>1. j \in Job /\ k \in Job /\ LockJob \in Job /\ UnlockJob \in Job
    BY JobsAreJobs, CommonJobs
  <2>2. <<UnlockJob>> \in Seq(Job) /\ <<LockJob>> \in Seq(Job) /\ <<j, k>> \in Seq(Job)
    BY <2>1
  <2>3. q = <<j, k>> \o <<UnlockJob>>
    <3> DEFINE u == <<UnlockJob>>
    <3>1. u \in Seq(Job)
      BY <2>2
    <3> HIDE DEF u
    <3>2. <<j, k>> \o u = <<j>> \o (<<k>> \o u)
      BY <2>1, <3>1, TwoAndRest
    <3> QED
      BY <3>2 DEF q, u
  <2>4. <<LockJob>> \o (<<j, k>> \o <<UnlockJob>>) = (<<LockJob>> \o <<j, k>>) \o <<UnlockJob>>
    <3> DEFINE a == <<LockJob>>  b == <<j, k>>  c == <<UnlockJob>>
    <3>1. a \in Seq(Job) /\ b \in Seq(Job) /\ c \in Seq(Job)
      BY <2>2
    <3> HIDE DEF a, b, c
    <3>2. a \o (b \o c) = (a \o b) \o c
      BY <3>1
    <3> QED
      BY <3>2 DEF a, b, c
  <2>5. Section(<<j, k>>) = (<<LockJob>> \o <<j, k>>) \o <<UnlockJob>>
    BY Zenon DEF Section, LockJob, UnlockJob
  <2> QED
    BY <2>3, <2>4, <2>5
<1>10. {LockJob} \cup ({j} \cup ({k} \cup {UnlockJob})) = {LockJob, j, k, UnlockJob}
  OBVIOUS
<1> QED
  BY <1>8, <1>9, <1>10

\* A file of the old layout, before what follows its migration.
LEMMA MigrateJobs ==
    ASSUME NEW q, NEW op \in {"migrate", "unlock"}, NEW S, Starts(PaperBot, q, op, S),
           NEW f, legacy \subseteq Legacy
    PROVE  \E x \in {"migrate", "unlock"} :
              Starts(PaperBot, MigrateOne(f) \o q, x,
                     S \cup (IF f \in legacy THEN {<<"migrate", f>>, <<"retire", f>>} ELSE {}))
<1>1. CASE f \in legacy
  <2>1. <<"migrate", f>> \in JobsOf(PaperBot) /\ <<"retire", f>> \in JobsOf(PaperBot)
    BY <1>1 DEF JobsOf
  <2>2. <<"retire", f>>[1] = "retire" /\ <<"migrate", f>>[1] = "migrate" /\ PaperBot \in Bot
    BY DEF Bot
  <2>3. Follows(<<"retire", f>>, q[1])
    BY DEF Starts, Follows
  <2>4. Starts(PaperBot, <<<<"retire", f>>>> \o q, "retire", {<<"retire", f>>} \cup S)
    BY <2>1, <2>2, <2>3, StartsWith
  <2> DEFINE r == <<<<"retire", f>>>> \o q
  <2>5. r[1] = <<"retire", f>>
    BY DEF Starts
  <2> HIDE DEF r
  <2>6. Follows(<<"migrate", f>>, r[1])
    BY <2>5 DEF Follows
  <2>7. Starts(PaperBot, <<<<"migrate", f>>>> \o r, "migrate",
               {<<"migrate", f>>} \cup ({<<"retire", f>>} \cup S))
    <3>1. Starts(PaperBot, r, "retire", {<<"retire", f>>} \cup S)
      BY <2>4 DEF r
    <3> QED
      BY <2>1, <2>2, <2>6, <3>1, StartsWith
  <2>8. MigrateOne(f) \o q = <<<<"migrate", f>>>> \o r
    <3> DEFINE a == <<"migrate", f>>  b == <<"retire", f>>
    <3>1. a \in Job /\ b \in Job /\ q \in Seq(Job)
      BY <2>1, JobsAreJobs DEF Starts
    <3> HIDE DEF a, b
    <3>2. <<a, b>> \o q = <<a>> \o (<<b>> \o q)
      BY <3>1, TwoAndRest
    <3>3. MigrateOne(f) = <<a, b>>
      BY <1>1 DEF MigrateOne, a, b
    <3> QED
      BY <3>2, <3>3 DEF a, b, r
  <2>9. {<<"migrate", f>>} \cup ({<<"retire", f>>} \cup S)
          = S \cup (IF f \in legacy THEN {<<"migrate", f>>, <<"retire", f>>} ELSE {})
    BY <1>1
  <2> QED
    BY <2>7, <2>8, <2>9
<1>2. CASE f \notin legacy
  <2>1. MigrateOne(f) \o q = q
    BY <1>2 DEF MigrateOne, Starts
  <2>2. S \cup (IF f \in legacy THEN {<<"migrate", f>>, <<"retire", f>>} ELSE {}) = S
    BY <1>2
  <2> QED
    BY <2>1, <2>2
<1> QED
  BY <1>1, <1>2

\* What the paper engine does on start, and which jobs that leaves.
LEMMA MigrationList ==
    ASSUME legacy \subseteq Legacy
    PROVE  LET q == MigrationJobs \o <<<<"load", "paper">>>> IN
           \E S : /\ Starts(PaperBot, q, "lock", S)
                  /\ \A r : /\ <<"seed", r>> \notin S /\ <<"mark", r>> \notin S
                            /\ <<"trade", r>> \notin S /\ <<"go", r>> \notin S
<1> DEFINE f1 == "paper"  f2 == "live"  f3 == "orders"
           M(f) == IF f \in legacy THEN {<<"migrate", f>>, <<"retire", f>>} ELSE {}
           l == <<<<"load", "paper">>>>
           u == <<UnlockJob>> \o l
           S0 == {UnlockJob} \cup {<<"load", "paper">>}
           q3 == MigrateOne(f3) \o u
           q2 == MigrateOne(f2) \o q3
           q1 == MigrateOne(f1) \o q2
<1>1. PaperBot \in Bot
  BY DEF Bot
<1>2. Starts(PaperBot, u, "unlock", S0)
  <2>1. <<"load", "paper">> \in JobsOf(PaperBot) /\ <<"load", "paper">>[1] = "load"
    BY DEF JobsOf
  <2>2. Starts(PaperBot, l, "load", {<<"load", "paper">>})
    BY <1>1, <2>1, StartsSingle
  <2> HIDE DEF l
  <2> QED
    BY <1>1, <2>2, Ends
<1> HIDE DEF u, S0
<1>3. PICK x3 \in {"migrate", "unlock"} : Starts(PaperBot, q3, x3, S0 \cup M(f3))
  BY <1>2, MigrateJobs
<1> HIDE DEF q3
<1>4. PICK x2 \in {"migrate", "unlock"} : Starts(PaperBot, q2, x2, S0 \cup M(f3) \cup M(f2))
  BY <1>3, MigrateJobs
<1> HIDE DEF q2
<1>5. PICK x1 \in {"migrate", "unlock"} :
         Starts(PaperBot, q1, x1, S0 \cup M(f3) \cup M(f2) \cup M(f1))
  BY <1>4, MigrateJobs
<1> HIDE DEF q1
<1> DEFINE S1 == S0 \cup M(f3) \cup M(f2) \cup M(f1)
           S == {LockJob} \cup S1
<1>6. Starts(PaperBot, <<LockJob>> \o q1, "lock", S)
  <2>1. Follows(LockJob, q1[1]) /\ LockJob[1] = "lock"
    BY <1>5 DEF Starts, Follows, LockJob
  <2>2. Starts(PaperBot, q1, x1, S1)
    BY <1>5
  <2> HIDE DEF S1
  <2> QED
    BY <1>1, <2>1, <2>2, CommonJobs, StartsWith
<1>7. MigrationJobs \o l = <<LockJob>> \o q1
  <2> DEFINE a == MigrateOne(f1)  b == MigrateOne(f2)  c == MigrateOne(f3)
  <2>1. \A f : MigrateOne(f) \in Seq(Job)
    <3>1. ASSUME NEW f, f \in legacy PROVE MigrateOne(f) \in Seq(Job)
      <4>1. <<"migrate", f>> \in Job /\ <<"retire", f>> \in Job
        BY <3>1, JobsAreJobs DEF JobsOf
      <4> QED
        BY <3>1, <4>1 DEF MigrateOne
    <3>2. ASSUME NEW f, f \notin legacy PROVE MigrateOne(f) \in Seq(Job)
      <4>1. MigrateOne(f) = <<>>
        BY <3>2 DEF MigrateOne
      <4> QED
        BY <4>1
    <3> QED
      BY <3>1, <3>2
  <2>2. l \in Seq(Job) /\ u \in Seq(Job)
    BY <1>2 DEF Starts, Job, File
  <2>3. a \in Seq(Job) /\ b \in Seq(Job) /\ c \in Seq(Job)
    BY <2>1
  <2> HIDE DEF a, b, c, l
  <2>4. ((a \o b) \o c) \o u = a \o (b \o (c \o u))
    <3>1. u \in Seq(Job)
      BY <2>2
    <3> QED
      BY <2>3, <3>1
  <2>5. (a \o b) \o c \in Seq(Job)
    BY <2>3
  <2>6. Section((a \o b) \o c) \o l = <<LockJob>> \o (((a \o b) \o c) \o u)
    BY <2>2, <2>5, Regroup DEF u
  <2>7. MigrationJobs = Section((a \o b) \o c)
    BY Zenon DEF MigrationJobs, a, b, c
  <2>8. q1 = a \o (b \o (c \o u))
    BY Zenon DEF q1, q2, q3, a, b, c
  <2> QED
    BY <2>4, <2>6, <2>7, <2>8
<1>8. \A r : /\ <<"seed", r>> \notin S /\ <<"mark", r>> \notin S
            /\ <<"trade", r>> \notin S /\ <<"go", r>> \notin S
  BY DEF S0, LockJob, UnlockJob
<1> QED
  BY <1>6, <1>7, <1>8

\* The job that comes next.
LEMMA NextJob ==
    ASSUME NEW t \in Bot, NEW q \in Seq(Job), q # <<>>, Orderly(t, q)
    PROVE  /\ Head(q)[1] \in Writes \cup {"lock", "retire"} => Begun(Tail(q))
           /\ Head(q)[1] = "unlock" => ~Begun(Tail(q))
           /\ Head(q)[1] \in {"load", "go"} => Tail(q) = <<>>
           /\ Head(q)[1] = "migrate" => Tail(q) # <<>> /\ Head(Tail(q)) = <<"retire", Head(q)[2]>>
           /\ Head(q)[1] = "reserve" => Tail(q) # <<>> /\ Head(Tail(q)) = <<"create", Head(q)[2]>>
<1>1. IF Tail(q) = <<>> THEN Head(q)[1] \in {"unlock", "load", "go"}
                        ELSE Follows(Head(q), Head(Tail(q)))
  BY Rest
<1> QED
  BY <1>1 DEF Follows, Begun, Writes

\* A list that starts with a job outside a section has not begun one.
LEMMA NotBegun ==
    ASSUME NEW q \in Seq(Job), q = <<>> \/ Head(q)[1] \in {"lock", "load", "go"}
    PROVE  ~Begun(q)
  BY DEF Begun, Writes

LEMMA StartsOutside ==
    ASSUME NEW t, NEW q, NEW op \in {"lock", "load", "go"}, NEW S, Starts(t, q, op, S)
    PROVE  q \in Seq(Job) /\ Orderly(t, q) /\ ~Begun(q)
  BY NotBegun DEF Starts

----------------------------------------------------------------------------
(* The lock of the two bots *)

LEMMA FilesStepIsLockStep ==
    ASSUME [FilesNext]_allVars PROVE [LockNext]_lockVars
<1>1. ASSUME NEW t \in Bot, \/ Go(t) \/ Stop(t) \/ WriteTmp(t) \/ Rename(t) \/ Skip(t)
                            \/ Retire(t) \/ Fail(t)
      PROVE  UNCHANGED lockVars
  BY <1>1 DEF Go, Stop, WriteTmp, Rename, Skip, Retire, Fail
<1>2. ASSUME NEW t \in Bot, Acquire(t) \/ LockFails(t) \/ Release(t) \/ Die(t) \/ Reboot(t)
      PROVE  [LockNext]_lockVars
  <2>1. t \in Task /\ ProcOf[t] \in Process
    BY Bots DEF Bot
  <2>2. \/ Enter(t) \/ EnterFailsMidway(t) \/ Leave(t)
        \/ Crash(ProcOf[t]) \/ Restart(ProcOf[t]) \/ UNCHANGED lockVars
    BY <1>2 DEF Acquire, LockFails, Release, Die, Reboot
  <2> QED
    BY <2>1, <2>2 DEF LockNext
<1>3. CASE \/ StartPaper \/ StartLive \/ LoadPaper \/ LoadLive \/ Trade \/ Restore
           \/ \E o \in Order : Submit(o) \/ Account(o)
           \/ \E f \in File : RemoveTmp(f) \/ Lose(f)
           \/ \E F \in Portions : Backup(F)
  BY <1>3 DEF StartPaper, StartLive, LoadPaper, LoadLive, Trade, Restore, Submit, Account,
              RemoveTmp, Lose, Backup
<1>4. CASE RemoveLock
  BY <1>4 DEF RemoveLock, LockNext
<1>5. CASE UNCHANGED allVars
  BY <1>5 DEF allVars
<1> QED
  BY <1>1, <1>2, <1>3, <1>4, <1>5 DEF FilesNext

\* Whose section changes.
LEMMA SectionSteps ==
    ASSUME FilesLock, [FilesNext]_allVars
    PROVE  \A t \in Task :
              \/ section'[t] = section[t] \/ section'[t] = "out"
              \/ t \in Bot /\ Acquire(t) /\ section'[t] = "owner"
<1>1. ASSUME NEW t \in Bot, Acquire(t) \/ LockFails(t) \/ Release(t) \/ Die(t) \/ Reboot(t)
      PROVE  \A u \in Task :
                \/ section'[u] = section[u] \/ section'[u] = "out"
                \/ u \in Bot /\ Acquire(u) /\ section'[u] = "owner"
  <2>1. t \in Task /\ section \in [Task -> SectionState]
    BY Bots DEF Bot, FilesLock, LockTypeOK
  <2>2. CASE Acquire(t)
    BY <1>1, <2>1, <2>2 DEF Acquire, Enter
  <2>3. CASE LockFails(t) \/ Reboot(t)
    BY <2>3 DEF LockFails, Reboot, EnterFailsMidway, Restart, lockVars
  <2>4. CASE Release(t)
    BY <2>1, <2>4 DEF Release, Leave
  <2>5. CASE Die(t)
    BY <2>1, <2>5 DEF Die, Crash
  <2> QED
    BY <1>1, <2>2, <2>3, <2>4, <2>5
<1>2. CASE UNCHANGED section
  BY <1>2
<1>3. ASSUME NEW t \in Bot, \/ Go(t) \/ Stop(t) \/ WriteTmp(t) \/ Rename(t) \/ Skip(t)
                            \/ Retire(t) \/ Fail(t)
      PROVE  UNCHANGED section
  BY <1>3 DEF Go, Stop, WriteTmp, Rename, Skip, Retire, Fail, lockVars
<1>4. CASE \/ StartPaper \/ StartLive \/ LoadPaper \/ LoadLive \/ Trade \/ Restore
           \/ \E o \in Order : Submit(o) \/ Account(o)
           \/ \E f \in File : RemoveTmp(f) \/ Lose(f)
           \/ \E F \in Portions : Backup(F)
           \/ RemoveLock \/ UNCHANGED allVars
  <2>1. UNCHANGED section
    BY <1>4 DEF StartPaper, StartLive, LoadPaper, LoadLive, Trade, Restore, Submit, Account,
              RemoveTmp, Lose, Backup, RemoveLock, OperatorRemove, allVars, lockVars
  <2> QED
    BY <1>2, <2>1
<1> QED
  BY <1>1, <1>2, <1>3, <1>4 DEF FilesNext

LEMMA FilesLockStep ==
    ASSUME FilesLock, [FilesNext]_allVars PROVE FilesLock'
<1>1. LockTypeOK' /\ HolderConsistent'
  BY FilesStepIsLockStep, LockTypeStep, HolderStep DEF FilesLock
<1>2. NoGuest'
  BY SectionSteps DEF FilesLock, NoGuest
<1>3. ASSUME NEW t \in Task, Inside(t)' PROVE t \in Bot
  BY <1>3, SectionSteps DEF FilesLock, Inside
<1> QED
  BY <1>1, <1>2, <1>3 DEF FilesLock

\* Only one bot is in a section.
LEMMA OneInside ==
    ASSUME FilesLock, NEW t \in Bot, NEW u \in Bot, Inside(t), Inside(u) PROVE t = u
<1>1. t \in Task /\ u \in Task
  BY Bots DEF Bot
<1>2. section[t] = "owner" /\ section[u] = "owner"
  BY <1>1 DEF FilesLock, NoGuest, LockTypeOK, SectionState, Inside
<1> QED
  BY <1>1, <1>2 DEF FilesLock, HolderConsistent

----------------------------------------------------------------------------
(* The jobs of the two bots *)

\* Only t does something to its list and its section.
LEMMA OneMoves ==
    ASSUME JobsInOrder, NEW t \in Bot,
           \A u \in Bot : u # t => todo'[u] = todo[u] /\ section'[u] = section[u],
           Orderly(t, todo'[t]), Inside(t)' <=> Begun(todo'[t])
    PROVE  JobsInOrder'
<1>1. ASSUME NEW u \in Bot PROVE Orderly(u, todo'[u]) /\ (Inside(u)' <=> Begun(todo'[u]))
  <2>1. CASE u = t
    BY <2>1
  <2>2. CASE u # t
    BY <2>2 DEF JobsInOrder, Inside
  <2> QED
    BY <2>1, <2>2
<1> QED
  BY <1>1 DEF JobsInOrder

\* The lists of a start, as they are given.
LEMMA NewLists ==
    ASSUME FilesTypeOK
    PROVE  /\ \E S : Starts(PaperBot, MigrationJobs \o <<<<"load", "paper">>>>, "lock", S)
           /\ \E S : Starts(LiveBot, <<<<"load", "live">>>>, "load", S)
           /\ \E S : Starts(PaperBot, FirstRun("paper"), "lock", S)
           /\ \E S : Starts(LiveBot, FirstRun("live"), "lock", S)
           /\ \E S : Starts(PaperBot, Section(<<<<"mark", "paper">>>>) \o <<GoJob>>, "lock", S)
           /\ \A t \in Bot : \E S : Starts(t, <<GoJob>>, "go", S)
           /\ \E S : Starts(PaperBot, Section(<<<<"trade", None>>>>), "lock", S)
           /\ \A o \in Order : \E S : Starts(LiveBot, SubmitJobs(o), "lock", S)
           /\ \A o \in Order : \E S :
                 Starts(LiveBot, Section(<<<<"account", o>>, <<"close", o>>>>), "lock", S)
<1>1. PaperBot \in Bot /\ LiveBot \in Bot /\ PaperBot # LiveBot /\ legacy \subseteq Legacy
  BY Bots DEF Bot, FilesTypeOK
<1>2. /\ \A op \in {"load", "seed", "mark"} :
            <<op, "paper">> \in JobsOf(PaperBot) /\ <<op, "live">> \in JobsOf(LiveBot)
      /\ <<"trade", None>> \in JobsOf(PaperBot)
      /\ \A o \in Order, op \in {"reserve", "release", "create", "account", "close"} :
            <<op, o>> \in JobsOf(LiveBot)
  BY <1>1 DEF JobsOf
<1>3. \E S : Starts(PaperBot, MigrationJobs \o <<<<"load", "paper">>>>, "lock", S)
  BY <1>1, MigrationList
<1>4. \E S : Starts(LiveBot, <<<<"load", "live">>>>, "load", S)
  <2>1. <<"load", "live">>[1] = "load"
    OBVIOUS
  <2>2. Starts(LiveBot, <<<<"load", "live">>>>, <<"load", "live">>[1], {<<"load", "live">>})
    BY <1>1, <1>2, <2>1, StartsSingle
  <2> QED
    BY <2>1, <2>2
<1>5. /\ \E S : Starts(PaperBot, FirstRun("paper"), "lock", S)
      /\ \E S : Starts(LiveBot, FirstRun("live"), "lock", S)
      /\ \E S : Starts(PaperBot, Section(<<<<"mark", "paper">>>>) \o <<GoJob>>, "lock", S)
  BY <1>1, <1>2, FirstRunJobs, MarkJobs
<1>6. \A t \in Bot : \E S : Starts(t, <<GoJob>>, "go", S)
  <2>1. GoJob[1] = "go" /\ \A t : GoJob \in JobsOf(t)
    BY CommonJobs DEF GoJob
  <2>2. \A t \in Bot : Starts(t, <<GoJob>>, GoJob[1], {GoJob})
    BY <2>1, StartsSingle
  <2> QED
    BY <2>1, <2>2
<1>7. \E S : Starts(PaperBot, Section(<<<<"trade", None>>>>), "lock", S)
  <2>1. <<"trade", None>>[1] = "trade"
    OBVIOUS
  <2> QED
    BY <1>1, <1>2, <2>1, LastSection
<1>8. ASSUME NEW o \in Order
      PROVE  /\ \E S : Starts(LiveBot, SubmitJobs(o), "lock", S)
             /\ \E S : Starts(LiveBot, Section(<<<<"account", o>>, <<"close", o>>>>), "lock", S)
  <2>1. Follows(<<"reserve", o>>, <<"create", o>>) /\ Follows(<<"account", o>>, <<"close", o>>)
    BY DEF Follows
  <2>2. /\ <<"reserve", o>>[1] = "reserve" /\ <<"create", o>>[1] = "create"
        /\ <<"account", o>>[1] = "account" /\ <<"close", o>>[1] = "close"
    OBVIOUS
  <2>3. \E S : Starts(LiveBot, Section(<<<<"reserve", o>>, <<"create", o>>>>), "lock", S)
    BY <1>1, <1>2, <2>1, <2>2, PairJobs
  <2>4. \E S : Starts(LiveBot, Section(<<<<"account", o>>, <<"close", o>>>>), "lock", S)
    BY <1>1, <1>2, <2>1, <2>2, PairJobs
  <2> QED
    BY <2>3, <2>4 DEF SubmitJobs
<1> QED
  BY <1>3, <1>4, <1>5, <1>6, <1>7, <1>8

\* A list that may be given outside a section.
Fresh(t, q) == q \in Seq(Job) /\ Orderly(t, q) /\ ~Begun(q)

LEMMA FreshLists ==
    ASSUME FilesTypeOK
    PROVE  /\ Fresh(PaperBot, MigrationJobs \o <<<<"load", "paper">>>>)
           /\ Fresh(LiveBot, <<<<"load", "live">>>>)
           /\ Fresh(PaperBot, FirstRun("paper")) /\ Fresh(LiveBot, FirstRun("live"))
           /\ Fresh(PaperBot, Section(<<<<"mark", "paper">>>>) \o <<GoJob>>)
           /\ \A t \in Bot : Fresh(t, <<GoJob>>) /\ Fresh(t, <<>>)
           /\ Fresh(PaperBot, Section(<<<<"trade", None>>>>))
           /\ \A o \in Order :
                 /\ Fresh(LiveBot, SubmitJobs(o))
                 /\ Fresh(LiveBot, Section(<<<<"account", o>>, <<"close", o>>>>))
<1>1. \A t, q, S : \A op \in {"lock", "load", "go"} : Starts(t, q, op, S) => Fresh(t, q)
  BY StartsOutside, Zenon DEF Fresh
<1>2. \A t \in Bot : Fresh(t, <<>>)
  BY Nothing, Zenon DEF Fresh
<1> HIDE DEF Fresh
<1> QED
  BY <1>1, <1>2, NewLists

\* What LoadPaper and LoadLive may leave to be done.
LEMMA LoadLists ==
    ASSUME FilesTypeOK
    PROVE  /\ LoadPaper => \E q : Fresh(PaperBot, q) /\ todo' = [todo EXCEPT ![PaperBot] = q]
           /\ LoadLive => \E q : Fresh(LiveBot, q) /\ todo' = [todo EXCEPT ![LiveBot] = q]
<1>1. <<GoJob>> \in Seq(Job) /\ PaperBot \in Bot /\ LiveBot \in Bot
  BY FreshLists DEF Bot, Fresh
<1>2. ASSUME LoadPaper
      PROVE  \E q : Fresh(PaperBot, q) /\ todo' = [todo EXCEPT ![PaperBot] = q]
  <2>1. \/ Then(PaperBot, <<>>) \/ Then(PaperBot, FirstRun("paper"))
        \/ Then(PaperBot, (IF Marked("paper") THEN <<>> ELSE Section(<<<<"mark", "paper">>>>)) \o <<GoJob>>)
    BY <1>2 DEF LoadPaper, GoJob
  <2>2. <<>> \o <<GoJob>> = <<GoJob>>
    BY <1>1
  <2> QED
    BY <1>1, <2>1, <2>2, FreshLists DEF Then
<1>3. ASSUME LoadLive
      PROVE  \E q : Fresh(LiveBot, q) /\ todo' = [todo EXCEPT ![LiveBot] = q]
  <2>1. Then(LiveBot, <<>>) \/ Then(LiveBot, FirstRun("live")) \/ Then(LiveBot, <<GoJob>>)
    BY <1>3 DEF LoadLive, GoJob
  <2> QED
    BY <1>1, <2>1, FreshLists DEF Then
<1> QED
  BY <1>2, <1>3

\* A list that is given to t outside a section.
LEMMA GivesFresh ==
    ASSUME FilesTypeOK, JobsInOrder, UNCHANGED section, NEW t \in Bot, ~Inside(t),
           NEW q, Fresh(t, q), todo' = [todo EXCEPT ![t] = q]
    PROVE  JobsInOrder' /\ todo' \in [Bot -> Seq(Job)]
<1>1. todo \in [Bot -> Seq(Job)]
  BY DEF FilesTypeOK, Bot
<1>2. todo'[t] = q /\ todo' \in [Bot -> Seq(Job)] /\ \A u \in Bot : u # t => todo'[u] = todo[u]
  BY <1>1 DEF Fresh
<1>3. Orderly(t, todo'[t]) /\ (Inside(t)' <=> Begun(todo'[t]))
  BY <1>2 DEF Fresh, Inside
<1> QED
  BY <1>2, <1>3, OneMoves

\* The jobs that write, by the file they write.
LEMMA WriteJobs ==
    ASSUME NEW t \in Bot, NEW j \in JobsOf(t), j[1] \in Writes
    PROVE  \/ j[1] \in {"migrate", "seed"} /\ j[2] \in {"paper", "live", "orders"}
                /\ (j[1] = "seed" => j[2] \in Realm)
                /\ (j[1] = "migrate" => t = PaperBot /\ j[2] \in Legacy)
                /\ (j[1] = "seed" /\ t = LiveBot => j[2] = "live")
           \/ j[1] = "mark" /\ j[2] \in Realm /\ (t = PaperBot => j[2] = "paper")
           \/ j[1] = "trade" /\ t = PaperBot
           \/ j[1] \in {"reserve", "release", "create", "account", "close"} /\ j[2] \in Order /\ t = LiveBot
<1>1. t = PaperBot \/ t = LiveBot
  BY DEF Bot
<1>2. CASE t = PaperBot
  <2>1. CASE \E op \in {"lock", "unlock", "go"} : j = <<op, None>>
    BY <2>1 DEF Writes
  <2>2. CASE \E op \in {"load", "seed", "mark"} : j = <<op, "paper">>
    BY <1>2, <2>2, Bots DEF Writes, Realm
  <2>3. CASE j = <<"trade", None>>
    BY <1>2, <2>3
  <2>4. CASE \E op \in {"migrate", "retire"}, f \in Legacy : j = <<op, f>>
    BY <1>2, <2>4, FilesAssumption DEF Writes
  <2> QED
    BY <1>2, <2>1, <2>2, <2>3, <2>4 DEF JobsOf
<1>3. CASE t # PaperBot
  <2>1. CASE \E op \in {"lock", "unlock", "go"} : j = <<op, None>>
    BY <2>1 DEF Writes
  <2>2. CASE \E op \in {"load", "seed", "mark"} : j = <<op, "live">>
    BY <1>3, <2>2 DEF Writes, Realm
  <2>3. CASE \E op \in {"reserve", "release", "create", "account", "close"}, o \in Order : j = <<op, o>>
    BY <1>1, <1>3, <2>3
  <2> QED
    BY <1>3, <2>1, <2>2, <2>3 DEF JobsOf
<1> QED
  BY <1>2, <1>3

\* What is left of a section whose save threw.
LEMMA FailureList ==
    ASSUME NEW t \in Bot, NEW j \in JobsOf(t), j[1] \in Writes
    PROVE  LET q == AfterFailure(j) IN
           /\ q \in Seq(Job) /\ Orderly(t, q) /\ Begun(q) /\ q # <<>>
           /\ \A x \in AllOf(q) : x[1] \in {"release", "unlock"}
           /\ \A o : Head(q) # <<"create", o>>
           /\ t = PaperBot => AllOf(q) = {UnlockJob}
<1>1. CASE j[1] \in {"reserve", "create"}
  <2>1. j[2] \in Order /\ t = LiveBot /\ t # PaperBot
    BY <1>1, WriteJobs, Bots
  <2> DEFINE k == <<"release", j[2]>>  q == <<k>> \o <<UnlockJob>>
  <2>2. k \in JobsOf(t) /\ k[1] = "release" /\ Follows(k, UnlockJob)
    BY <2>1 DEF JobsOf, Follows, UnlockJob
  <2>3. Starts(t, <<UnlockJob>>, "unlock", {UnlockJob})
    BY CommonJobs, StartsSingle DEF UnlockJob
  <2>4. <<UnlockJob>>[1] = UnlockJob
    OBVIOUS
  <2>5. AfterFailure(j) = q
    BY <1>1 DEF AfterFailure, UnlockJob
  <2> HIDE DEF k
  <2>6. Starts(t, <<k>> \o <<UnlockJob>>, "release", {k} \cup {UnlockJob})
    BY <2>2, <2>3, <2>4, StartsWith
  <2>7. q \in Seq(Job) /\ Orderly(t, q) /\ q # <<>> /\ Head(q)[1] = "release"
        /\ AllOf(q) = {k} \cup {UnlockJob}
    BY <2>6 DEF Starts
  <2> HIDE DEF q
  <2>8. \A x \in AllOf(q) : x[1] \in {"release", "unlock"}
    BY <2>2, <2>7 DEF UnlockJob
  <2>9. Begun(q) /\ \A o : Head(q) # <<"create", o>>
    BY <2>7 DEF Begun, Writes
  <2> QED
    BY <2>1, <2>5, <2>7, <2>8, <2>9
<1>2. CASE j[1] \notin {"reserve", "create"}
  <2>1. AfterFailure(j) = <<UnlockJob>>
    BY <1>2 DEF AfterFailure, UnlockJob
  <2>2. <<UnlockJob>> \in Seq(Job) /\ Orderly(t, <<UnlockJob>>) /\ Begun(<<UnlockJob>>)
    BY CommonJobs, Single DEF Begun, UnlockJob
  <2>3. AllOf(<<UnlockJob>>) = {UnlockJob}
    BY AllOfFew
  <2>4. Head(<<UnlockJob>>) = UnlockJob /\ <<UnlockJob>> # <<>>
    OBVIOUS
  <2> QED
    BY <2>1, <2>2, <2>3, <2>4 DEF UnlockJob
<1> QED
  BY <1>1, <1>2

\* Every step leaves each bot an orderly list, and its section where its next job says.
LEMMA JobsStep ==
    ASSUME FilesTypeOK, FilesLock, JobsInOrder, PendingIsCurrent, [FilesNext]_allVars
    PROVE  JobsInOrder' /\ todo' \in [Bot -> Seq(Job)]
<1>1. /\ todo \in [Bot -> Seq(Job)] /\ PaperBot \in Bot /\ LiveBot \in Bot
      /\ \A t \in Bot : t \in Task /\ Orderly(t, todo[t]) /\ (Inside(t) <=> Begun(todo[t]))
      /\ section \in [Task -> SectionState]
  BY Bots DEF FilesTypeOK, FilesLock, LockTypeOK, Bot, JobsInOrder
<1>2. \A t \in Bot : Idle(t) \/ Doing(t, "lock") \/ Doing(t, "load") \/ Doing(t, "go") => ~Inside(t)
  BY <1>1, NotBegun DEF Idle, Doing
<1>3. ASSUME NEW t \in Bot, todo[t] # <<>>, Drop(t), UNCHANGED section,
             Head(todo[t])[1] \in Writes \cup {"retire", "go"}
      PROVE  JobsInOrder' /\ todo' \in [Bot -> Seq(Job)]
  <2>1. /\ todo'[t] = Tail(todo[t]) /\ Tail(todo[t]) \in Seq(Job)
        /\ Orderly(t, Tail(todo[t])) /\ \A u \in Bot : u # t => todo'[u] = todo[u]
        /\ todo' \in [Bot -> Seq(Job)]
    BY <1>1, <1>3, Rest DEF Drop
  <2>2. Inside(t)' <=> Begun(todo'[t])
    <3>1. CASE Head(todo[t])[1] \in Writes \cup {"retire"}
      <4>1. Begun(todo[t])
        BY <1>3, <3>1 DEF Begun
      <4>2. Begun(Tail(todo[t]))
        BY <1>1, <1>3, <3>1, NextJob
      <4> QED
        BY <1>1, <1>3, <2>1, <4>1, <4>2 DEF Inside
    <3>2. CASE Head(todo[t])[1] = "go"
      <4>1. Tail(todo[t]) = <<>> /\ ~Inside(t)
        BY <1>1, <1>2, <1>3, <3>2, NextJob DEF Doing, Idle
      <4> QED
        BY <1>3, <2>1, <4>1, Nothing DEF Inside
    <3> QED
      BY <1>3, <3>1, <3>2
  <2> QED
    BY <1>3, <2>1, <2>2, OneMoves
<1>4. CASE StartPaper
  BY <1>1, <1>2, <1>4, FreshLists, GivesFresh DEF StartPaper, Then, lockVars
<1>5. CASE StartLive
  BY <1>1, <1>2, <1>5, FreshLists, GivesFresh DEF StartLive, Then, lockVars
<1>6. CASE LoadPaper
  <2>1. ~Inside(PaperBot) /\ UNCHANGED section
    BY <1>1, <1>2, <1>6 DEF LoadPaper, lockVars
  <2> QED
    BY <1>1, <1>6, <2>1, LoadLists, GivesFresh
<1>7. CASE LoadLive
  <2>1. ~Inside(LiveBot) /\ UNCHANGED section
    BY <1>1, <1>2, <1>7 DEF LoadLive, lockVars
  <2> QED
    BY <1>1, <1>7, <2>1, LoadLists, GivesFresh
<1>8. CASE Trade
  BY <1>1, <1>2, <1>8, FreshLists, GivesFresh DEF Trade, Then, lockVars
<1>9. ASSUME NEW o \in Order, Submit(o) PROVE JobsInOrder' /\ todo' \in [Bot -> Seq(Job)]
  <2>1. ~Inside(LiveBot) /\ UNCHANGED section /\ Then(LiveBot, SubmitJobs(o))
    BY <1>1, <1>2, <1>9 DEF Submit, lockVars
  <2>2. Fresh(LiveBot, SubmitJobs(o))
    BY FreshLists
  <2> QED
    BY <1>1, <2>1, <2>2, GivesFresh DEF Then
<1>10. ASSUME NEW o \in Order, Account(o) PROVE JobsInOrder' /\ todo' \in [Bot -> Seq(Job)]
  <2> DEFINE q == Section(<<<<"account", o>>, <<"close", o>>>>)
  <2>1. ~Inside(LiveBot) /\ UNCHANGED section /\ Then(LiveBot, q)
    BY <1>1, <1>2, <1>10 DEF Account, lockVars
  <2>2. Fresh(LiveBot, q)
    BY FreshLists
  <2> HIDE DEF q
  <2> QED
    BY <1>1, <2>1, <2>2, GivesFresh DEF Then
<1>11. ASSUME NEW t \in Bot, Go(t) PROVE JobsInOrder' /\ todo' \in [Bot -> Seq(Job)]
  BY <1>3, <1>11 DEF Go, Doing, Idle, lockVars
<1>12. ASSUME NEW t \in Bot, Acquire(t) PROVE JobsInOrder' /\ todo' \in [Bot -> Seq(Job)]
  <2>1. /\ todo[t] # <<>> /\ Head(todo[t])[1] = "lock"
        /\ todo' = [todo EXCEPT ![t] = Tail(todo[t])]
        /\ section' = [section EXCEPT ![t] = "owner"]
    BY <1>12 DEF Acquire, Doing, Idle, Drop, Enter
  <2>2. /\ todo'[t] = Tail(todo[t]) /\ Orderly(t, Tail(todo[t])) /\ Begun(Tail(todo[t]))
        /\ todo' \in [Bot -> Seq(Job)]
        /\ \A u \in Bot : u # t => todo'[u] = todo[u] /\ section'[u] = section[u]
    BY <1>1, <2>1, Rest, NextJob
  <2>3. Inside(t)'
    BY <1>1, <2>1 DEF Inside
  <2> QED
    BY <2>2, <2>3, OneMoves
<1>13. ASSUME NEW t \in Bot, LockFails(t) PROVE JobsInOrder' /\ todo' \in [Bot -> Seq(Job)]
  <2>1. Doing(t, "lock") /\ UNCHANGED section /\ todo' = [todo EXCEPT ![t] = <<>>]
    BY <1>13 DEF LockFails, EnterFailsMidway, lockVars, Then
  <2> QED
    BY <1>2, <2>1, FreshLists, GivesFresh
<1>14. ASSUME NEW t \in Bot, Release(t) PROVE JobsInOrder' /\ todo' \in [Bot -> Seq(Job)]
  <2>1. /\ todo[t] # <<>> /\ Head(todo[t])[1] = "unlock"
        /\ todo' = [todo EXCEPT ![t] = Tail(todo[t])]
        /\ section' = [section EXCEPT ![t] = "out"]
    BY <1>14 DEF Release, Doing, Idle, Drop, Leave
  <2>2. /\ todo'[t] = Tail(todo[t]) /\ Orderly(t, Tail(todo[t])) /\ ~Begun(Tail(todo[t]))
        /\ todo' \in [Bot -> Seq(Job)]
        /\ \A u \in Bot : u # t => todo'[u] = todo[u] /\ section'[u] = section[u]
    BY <1>1, <2>1, Rest, NextJob
  <2>3. ~Inside(t)'
    BY <1>1, <2>1 DEF Inside
  <2> QED
    BY <2>2, <2>3, OneMoves
<1>15. ASSUME NEW t \in Bot, Rename(t) PROVE JobsInOrder' /\ todo' \in [Bot -> Seq(Job)]
  <2>1. todo[t] # <<>> /\ Head(todo[t])[1] \in Writes
    BY <1>15 DEF Rename, PendingIsCurrent, Current
  <2> QED
    BY <1>3, <1>15, <2>1 DEF Rename, lockVars
<1>16. ASSUME NEW t \in Bot, Skip(t) PROVE JobsInOrder' /\ todo' \in [Bot -> Seq(Job)]
  <2>1. /\ todo[t] # <<>> /\ Head(todo[t])[1] = "migrate" /\ UNCHANGED section
        /\ todo' = [todo EXCEPT ![t] = Tail(Tail(todo[t]))]
    BY <1>16 DEF Skip, Doing, Idle, lockVars
  <2> DEFINE r == Tail(todo[t])
  <2>2. r \in Seq(Job) /\ Orderly(t, r) /\ r # <<>> /\ Head(r)[1] = "retire"
    BY <1>1, <2>1, Rest, NextJob
  <2> HIDE DEF r
  <2>3. Tail(r) \in Seq(Job) /\ Orderly(t, Tail(r)) /\ Begun(Tail(r))
    BY <2>2, Rest, NextJob
  <2>4. /\ todo'[t] = Tail(r) /\ todo' \in [Bot -> Seq(Job)]
        /\ \A u \in Bot : u # t => todo'[u] = todo[u]
    BY <1>1, <2>1, <2>3 DEF r
  <2>5. Inside(t)
    BY <1>1, <2>1 DEF Begun, Writes
  <2> QED
    BY <2>1, <2>3, <2>4, <2>5, OneMoves DEF Inside
<1>17. ASSUME NEW t \in Bot, Retire(t) PROVE JobsInOrder' /\ todo' \in [Bot -> Seq(Job)]
  BY <1>3, <1>17 DEF Retire, Doing, Idle, lockVars
<1>18. ASSUME NEW t \in Bot, Fail(t) PROVE JobsInOrder' /\ todo' \in [Bot -> Seq(Job)]
  <2> DEFINE q == AfterFailure(Head(todo[t]))
  <2>1. /\ todo[t] # <<>> /\ Head(todo[t])[1] \in Writes /\ UNCHANGED section
        /\ todo' = [todo EXCEPT ![t] = q]
    BY <1>18 DEF Fail, Idle, lockVars, Then
  <2>2. Head(todo[t]) \in JobsOf(t)
    BY <1>1, <2>1, Rest
  <2>3. q \in Seq(Job) /\ Orderly(t, q) /\ Begun(q)
    BY <2>1, <2>2, FailureList
  <2> HIDE DEF q
  <2>4. /\ todo'[t] = q /\ todo' \in [Bot -> Seq(Job)]
        /\ \A u \in Bot : u # t => todo'[u] = todo[u]
    BY <1>1, <2>1, <2>3
  <2>5. Inside(t)
    BY <1>1, <2>1 DEF Begun
  <2> QED
    BY <2>1, <2>3, <2>4, <2>5, OneMoves DEF Inside
<1>19. ASSUME NEW t \in Bot, Die(t) PROVE JobsInOrder' /\ todo' \in [Bot -> Seq(Job)]
  <2>1. /\ todo' = [todo EXCEPT ![t] = <<>>]
        /\ section' = [u \in Task |-> IF ProcOf[u] = ProcOf[t] THEN "out" ELSE section[u]]
    BY <1>19 DEF Die, Crash, Then
  <2>2. /\ todo'[t] = <<>> /\ todo' \in [Bot -> Seq(Job)]
        /\ \A u \in Bot : u # t => todo'[u] = todo[u] /\ section'[u] = section[u]
    BY <1>1, <2>1, Bots
  <2>3. ~Inside(t)'
    BY <1>1, <2>1 DEF Inside
  <2> QED
    BY <2>2, <2>3, Nothing, OneMoves
<1>20. CASE UNCHANGED <<section, todo>>
  BY <1>1, <1>20 DEF JobsInOrder, Inside
<1>21. ASSUME NEW t \in Bot, Stop(t) \/ WriteTmp(t) \/ Reboot(t) PROVE UNCHANGED <<section, todo>>
  BY <1>21 DEF Stop, WriteTmp, Reboot, Restart, fileVars, lockVars
<1>22. ASSUME \/ \E f \in File : RemoveTmp(f) \/ Lose(f)
              \/ \E F \in Portions : Backup(F)
              \/ RemoveLock \/ Restore \/ UNCHANGED allVars
       PROVE  UNCHANGED <<section, todo>>
  BY <1>22 DEF RemoveTmp, Lose, Backup, RemoveLock, OperatorRemove, Restore, allVars, fileVars, lockVars
<1> HIDE DEF FilesTypeOK, FilesLock, JobsInOrder, PendingIsCurrent
<1>23. ASSUME FilesNext PROVE JobsInOrder' /\ todo' \in [Bot -> Seq(Job)]
  BY ONLY <1>23, <1>4, <1>5, <1>6, <1>7, <1>8, <1>9, <1>10, <1>11, <1>12, <1>13, <1>14, <1>15,
          <1>16, <1>17, <1>18, <1>19, <1>20, <1>21, <1>22, Zenon DEF FilesNext
<1> QED
  BY <1>20, <1>22, <1>23

----------------------------------------------------------------------------
(* What is written *)

\* The types of the four files, None apart.
LEMMA DiskTypes ==
    ASSUME FilesTypeOK
    PROVE  /\ disk["paper"] \in (0 .. MaxTrades) \cup {None}
           /\ disk["live"] \in LiveBook \cup {None}
           /\ disk["orders"] \in [Order -> Status] \cup {None}
           /\ disk["marker"] \in (SUBSET Realm) \cup {None}
           /\ None \notin 0 .. MaxTrades /\ None \notin LiveBook
           /\ None \notin [Order -> Status] /\ None \notin SUBSET Realm
  BY NoneAssumption DEF FilesTypeOK, File, Content

\* What a write is about to put in its file is a content of that file.
LEMMA WritesContent ==
    ASSUME FilesTypeOK, NEW t \in Bot, NEW j \in JobsOf(t), j[1] \in Writes, Writable(j)
    PROVE  FileOf(j) \in File /\ NewContent(j) \in Content(FileOf(j))
<1>1. CASE j[1] = "migrate"
  <2>1. j[2] \in {"paper", "live", "orders"} /\ FileOf(j) = j[2] /\ NewContent(j) = LegacyBook(j[2])
    BY <1>1, WriteJobs DEF FileOf, NewContent
  <2>2. LegacyBook("paper") \in Content("paper")
    BY FilesAssumption DEF LegacyBook, Content
  <2>3. LegacyBook("live") \in Content("live")
    BY DEF LegacyBook, Content, LiveBook
  <2>4. LegacyBook("orders") \in Content("orders")
    BY DEF LegacyBook, Content, Status
  <2> QED
    BY <2>1, <2>2, <2>3, <2>4 DEF File
<1>2. CASE j[1] = "seed"
  <2>1. j[2] \in {"paper", "live"} /\ FileOf(j) = j[2] /\ NewContent(j) = SeedBook(j[2])
    BY <1>2, WriteJobs DEF FileOf, NewContent, Realm
  <2>2. SeedBook("paper") \in Content("paper")
    BY FilesAssumption DEF SeedBook, Content
  <2>3. SeedBook("live") \in Content("live")
    BY DEF SeedBook, Content, LiveBook
  <2> QED
    BY <2>1, <2>2, <2>3 DEF File
<1>3. CASE j[1] = "mark"
  <2>1. j[2] \in Realm /\ FileOf(j) = "marker"
        /\ NewContent(j) = {j[2]} \cup (IF disk["marker"] = None THEN {} ELSE disk["marker"])
    BY <1>3, WriteJobs DEF FileOf, NewContent
  <2> QED
    BY <2>1, DiskTypes DEF File, Content
<1>4. CASE j[1] = "trade"
  BY <1>4 DEF FileOf, NewContent, FilesTypeOK, File, Content
<1>5. CASE j[1] \in {"reserve", "release", "account"}
  <2>1. j[2] \in Order /\ FileOf(j) = "live" /\ disk["live"] # None
    BY <1>5, WriteJobs DEF FileOf, Writable, Load
  <2>2. disk["live"] \in LiveBook
    BY <2>1, DiskTypes
  <2>3. CASE j[1] = "reserve"
    <3>1. NewContent(j) = [disk["live"] EXCEPT !.resv = @ \cup {j[2]}]
      BY <2>3 DEF NewContent
    <3> QED
      BY <2>1, <2>2, <3>1 DEF File, Content, LiveBook
  <2>4. CASE j[1] = "account"
    <3>1. NewContent(j) = [disk["live"] EXCEPT !.done = @ \cup {j[2]}]
      BY <2>4 DEF NewContent
    <3> QED
      BY <2>1, <2>2, <3>1 DEF File, Content, LiveBook
  <2>5. CASE j[1] = "release"
    <3>1. NewContent(j) = disk["live"]
      BY <2>5 DEF NewContent
    <3> QED
      BY <2>1, <2>2, <3>1 DEF File, Content
  <2> QED
    BY <1>5, <2>3, <2>4, <2>5
<1>6. CASE j[1] \in {"create", "close"}
  <2>1. j[2] \in Order /\ FileOf(j) = "orders"
    BY <1>6, WriteJobs DEF FileOf
  <2>2. Ledger \in [Order -> Status]
    BY DiskTypes DEF Ledger, Status
  <2>3. CASE j[1] = "create"
    <3>1. NewContent(j) = [Ledger EXCEPT ![j[2]] = "open"]
      BY <2>3 DEF NewContent
    <3> QED
      BY <2>1, <2>2, <3>1 DEF File, Content, Status
  <2>4. CASE j[1] = "close"
    <3>1. NewContent(j) = [Ledger EXCEPT ![j[2]] = "closed"]
      BY <2>4 DEF NewContent
    <3> QED
      BY <2>1, <2>2, <3>1 DEF File, Content, Status
  <2> QED
    BY <1>6, <2>3, <2>4
<1> QED
  BY <1>1, <1>2, <1>3, <1>4, <1>5, <1>6 DEF Writes

FilesBase == FilesTypeOK /\ FilesLock /\ JobsInOrder /\ PendingIsCurrent

\* Where a temporary file is pending, its writer is in its section, alone.
LEMMA PendingAlone ==
    ASSUME FilesBase, NEW t \in Bot, pend[t] # <<>>
    PROVE  /\ Inside(t) /\ todo[t] # <<>> /\ Head(todo[t])[1] \in Writes
           /\ Head(todo[t]) \in JobsOf(t) /\ todo[t] \in Seq(Job)
           /\ \A u \in Bot : u # t => pend[u] = <<>> /\ ~Inside(u)
<1>1. \A u \in Bot : pend[u] # <<>> => Inside(u) /\ todo[u] # <<>> /\ Head(todo[u])[1] \in Writes
  BY DEF FilesBase, PendingIsCurrent, Current, JobsInOrder, Begun
<1>2. todo[t] \in Seq(Job) /\ Orderly(t, todo[t])
  BY DEF FilesBase, FilesTypeOK, JobsInOrder, Bot
<1> QED
  BY <1>1, <1>2, OneInside, Rest DEF FilesBase

\* A pending write is still current when nothing it is made from changes.
LEMMA StaysCurrent ==
    ASSUME FilesBase, NEW t \in Bot, pend[t] # <<>>, pend'[t] = pend[t], todo'[t] = todo[t],
           UNCHANGED disk, mem' = mem \/ t # PaperBot
    PROVE  Current(t)'
<1> DEFINE j == Head(todo[t])
<1>1. Current(t) /\ j \in JobsOf(t) /\ j[1] \in Writes
  BY PendingAlone DEF FilesBase, PendingIsCurrent
<1>2. mem' = mem \/ j[1] # "trade"
  BY <1>1, WriteJobs
<1> HIDE DEF j
<1>3. (NewContent(j))' = NewContent(j)
  <2>1. Ledger' = Ledger /\ j' = j
    BY DEF Ledger, j
  <2>2. CASE j[1] = "trade"
    BY <1>2, <2>1, <2>2 DEF NewContent
  <2>3. CASE j[1] # "trade"
    BY <1>1, <2>1, <2>3 DEF NewContent, Writes
  <2> QED
    BY <2>2, <2>3
<1> QED
  BY <1>1, <1>3 DEF Current, j

\* Between the temporary file and the rename nothing the write is made from changes.
LEMMA PendingStep ==
    ASSUME FilesBase, [FilesNext]_allVars PROVE PendingIsCurrent'
<1> USE DEF FilesBase
<1>1. /\ DOMAIN pend = Bot /\ PaperBot \in Bot /\ LiveBot \in Bot /\ todo \in [Bot -> Seq(Job)]
      /\ \A t \in Bot : t = PaperBot \/ t = LiveBot
  BY DEF FilesTypeOK, Bot
\* Steps of a bot that is at something else than a write.
<1>2. ASSUME NEW t \in Bot, pend[t] = <<>>, UNCHANGED <<disk, pend>>,
             \A u \in Bot : u # t => todo'[u] = todo[u],
             mem' = mem \/ t = PaperBot
      PROVE  PendingIsCurrent'
  <2>1. ASSUME NEW u \in Bot, pend'[u] # <<>> PROVE Current(u)'
    <3>1. u # t /\ pend[u] # <<>> /\ pend'[u] = pend[u] /\ todo'[u] = todo[u]
      BY <1>2, <2>1
    <3>2. mem' = mem \/ u # PaperBot
      BY <1>2, <3>1
    <3> QED
      BY <1>2, <3>1, <3>2, StaysCurrent
  <2> QED
    BY <2>1 DEF PendingIsCurrent
<1>3. \A t \in Bot : Idle(t) \/ ~(Head(todo[t])[1] \in Writes) => pend[t] = <<>>
  BY PendingAlone DEF Idle
<1>4. \A t \in Bot : \A op : Doing(t, op) /\ op \notin Writes => pend[t] = <<>>
  BY <1>3 DEF Doing
<1>5. "lock" \notin Writes /\ "unlock" \notin Writes /\ "load" \notin Writes
      /\ "retire" \notin Writes /\ "go" \notin Writes
  BY DEF Writes
<1>6. CASE StartPaper \/ LoadPaper \/ Trade
  <2>1. pend[PaperBot] = <<>> /\ UNCHANGED <<disk, pend>>
    BY <1>1, <1>3, <1>4, <1>5, <1>6 DEF StartPaper, LoadPaper, Trade
  <2>2. \A u \in Bot : u # PaperBot => todo'[u] = todo[u]
    BY <1>1, <1>6, LoadLists DEF StartPaper, Trade, Then
  <2> QED
    BY <1>1, <1>2, <2>1, <2>2
<1>7. CASE StartLive \/ LoadLive \/ \E o \in Order : Submit(o) \/ Account(o)
  <2>1. pend[LiveBot] = <<>> /\ UNCHANGED <<disk, pend, mem>>
    BY <1>1, <1>3, <1>4, <1>5, <1>7 DEF StartLive, LoadLive, Submit, Account
  <2>2. \A u \in Bot : u # LiveBot => todo'[u] = todo[u]
    BY <1>1, <1>7, LoadLists DEF StartLive, Submit, Account, Then
  <2> QED
    BY <1>1, <1>2, <2>1, <2>2
<1>8. ASSUME NEW t \in Bot, \/ Go(t) \/ Stop(t) \/ Acquire(t) \/ LockFails(t) \/ Release(t)
                            \/ Skip(t) \/ Retire(t)
      PROVE  PendingIsCurrent'
  <2>1. pend[t] = <<>> /\ UNCHANGED <<disk, pend>>
    BY <1>3, <1>4, <1>5, <1>8
       DEF Go, Stop, Acquire, LockFails, Release, Skip, Retire, lockVars
  <2>2. /\ \A u \in Bot : u # t => todo'[u] = todo[u]
        /\ mem' = mem \/ t = PaperBot
    BY <1>1, <1>8
       DEF Go, Stop, Acquire, LockFails, Release, Skip, Retire, Drop, Then
  <2> QED
    BY <1>2, <2>1, <2>2
<1>9. ASSUME NEW t \in Bot, WriteTmp(t) PROVE PendingIsCurrent'
  <2> DEFINE j == Head(todo[t])
  <2>1. /\ todo[t] # <<>> /\ j[1] \in Writes /\ Writable(j)
        /\ j[1] = "migrate" => disk[FileOf(j)] = None
        /\ pend' = [pend EXCEPT ![t] = <<NewContent(j)>>]
        /\ UNCHANGED <<disk, todo, mem>>
    BY <1>9 DEF WriteTmp, Idle
  <2>2. j \in JobsOf(t)
    BY <1>1, <2>1, Rest DEF JobsInOrder
  <2>3. NewContent(j) \in Content(FileOf(j)) /\ (j[1] = "migrate" => FileOf(j) = j[2])
    BY <2>1, <2>2, WritesContent DEF FileOf
  <2>4. (NewContent(j))' = NewContent(j)
    BY <2>1 DEF NewContent, Ledger
  <2>8. j[1] \in {"reserve", "release", "account"} => disk["live"] # None
    BY <2>1 DEF Writable, Load
  <2>5. pend'[t] = <<NewContent(j)>> /\ \A u \in Bot : u # t => pend'[u] = pend[u]
    BY <1>1, <2>1
  <2> HIDE DEF j
  <2>6. Current(t)'
    <3>1. j' = j /\ todo'[t] = todo[t]
      BY <2>1 DEF j
    <3> QED
      BY <2>1, <2>3, <2>4, <2>5, <2>8, <3>1 DEF Current, j
  <2>7. ASSUME NEW u \in Bot, u # t, pend'[u] # <<>> PROVE Current(u)'
    BY <2>1, <2>5, <2>7, StaysCurrent
  <2> QED
    BY <2>6, <2>7 DEF PendingIsCurrent
<1>10. ASSUME NEW t \in Bot, Rename(t) PROVE PendingIsCurrent'
  <2>1. pend[t] # <<>> /\ pend' = [pend EXCEPT ![t] = <<>>]
    BY <1>10 DEF Rename
  <2>2. \A u \in Bot : pend'[u] = <<>>
    BY <1>1, <2>1, PendingAlone
  <2> QED
    BY <2>2 DEF PendingIsCurrent
<1>11. ASSUME NEW t \in Bot, Die(t) \/ Fail(t) PROVE PendingIsCurrent'
  <2>1. /\ pend' = [pend EXCEPT ![t] = <<>>] /\ \E q : todo' = [todo EXCEPT ![t] = q]
        /\ UNCHANGED disk /\ (mem' = mem \/ t = PaperBot)
    <3>1. CASE Die(t)
      BY <3>1 DEF Die, Then
    <3>2. CASE Fail(t)
      BY <3>2, Zenon DEF Fail, Then
    <3> QED
      BY <1>11, <3>1, <3>2
  <2>2. /\ pend'[t] = <<>>
        /\ \A u \in Bot : u # t => pend'[u] = pend[u] /\ todo'[u] = todo[u]
    BY <1>1, <2>1
  <2>3. ASSUME NEW u \in Bot, pend'[u] # <<>> PROVE Current(u)'
    <3>1. u # t
      BY <2>2, <2>3
    <3> QED
      BY <2>1, <2>2, <2>3, <3>1, StaysCurrent
  <2> QED
    BY <2>3 DEF PendingIsCurrent
<1>12. CASE UNCHANGED <<disk, pend, todo, mem>>
  <2>1. ASSUME NEW u \in Bot, pend'[u] # <<>> PROVE Current(u)'
    BY <1>12, <2>1, StaysCurrent
  <2> QED
    BY <2>1 DEF PendingIsCurrent
<1>13. ASSUME \/ \E t \in Bot : Reboot(t)
              \/ \E f \in File : RemoveTmp(f)
              \/ \E F \in Portions : Backup(F)
              \/ RemoveLock \/ UNCHANGED allVars
       PROVE  UNCHANGED <<disk, pend, todo, mem>>
  BY <1>13 DEF Reboot, RemoveTmp, Backup, RemoveLock, allVars, fileVars
<1>14. CASE Restore \/ \E f \in File : Lose(f)
  <2>1. UNCHANGED pend /\ \A t \in Bot : Idle(t)
    BY <1>14 DEF Restore, Lose
  <2> QED
    BY <1>3, <2>1 DEF PendingIsCurrent
<1>15. ASSUME FilesNext PROVE PendingIsCurrent'
  BY ONLY <1>15, <1>6, <1>7, <1>8, <1>9, <1>10, <1>11, <1>12, <1>13, <1>14, Zenon DEF FilesNext
<1> QED
  BY <1>12, <1>13, <1>15

LEMMA FilesTypeStep ==
    ASSUME FilesBase, [FilesNext]_allVars PROVE FilesTypeOK'
<1> USE DEF FilesBase
<1>1. LockTypeOK' /\ todo' \in [Bot -> Seq(Job)]
  BY FilesLockStep, JobsStep DEF FilesLock
<1>2. /\ DOMAIN disk = File /\ \A f \in File : disk[f] \in Content(f) \cup {None}
      /\ torn \subseteq File /\ legacy \subseteq Legacy
      /\ DOMAIN snap \subseteq File
      /\ \A f \in DOMAIN snap : snap[f] \in Content(f) \cup {None}
      /\ DOMAIN pend = Bot /\ on \subseteq Bot /\ mem \in 0 .. MaxTrades
      /\ incidents \in 0 .. MaxIncidents
      /\ saved \in [trades : 0 .. MaxTrades, fills : SUBSET (Order \cup {OldOrder}), orders : SUBSET Order]
      /\ MaxTrades \in Nat /\ MaxIncidents \in Nat
  BY FilesAssumption DEF FilesTypeOK, Bot
<1> DEFINE DiskOK == DOMAIN disk = File /\ \A f \in File : disk[f] \in Content(f) \cup {None}
           SnapOK == DOMAIN snap \subseteq File
                     /\ \A f \in DOMAIN snap : snap[f] \in Content(f) \cup {None}
           SavedOK == saved \in [trades : 0 .. MaxTrades, fills : SUBSET (Order \cup {OldOrder}),
                                 orders : SUBSET Order]
           RestOK == /\ torn \subseteq File /\ legacy \subseteq Legacy
                     /\ DOMAIN pend = Bot /\ on \subseteq Bot /\ mem \in 0 .. MaxTrades
                     /\ incidents \in 0 .. MaxIncidents
<1>3. ASSUME DiskOK', SnapOK', SavedOK', RestOK' PROVE FilesTypeOK'
  BY <1>1, <1>3 DEF FilesTypeOK, Bot
<1>4. ASSUME NEW t \in Bot, Rename(t) PROVE DiskOK' /\ SnapOK' /\ SavedOK' /\ RestOK'
  <2> DEFINE j == Head(todo[t])  c == NewContent(j)  f == FileOf(j)
  <2>1. pend[t] # <<>> /\ Current(t) /\ j \in JobsOf(t) /\ j[1] \in Writes
    BY <1>4, PendingAlone DEF Rename, PendingIsCurrent
  <2>2. c \in Content(f) /\ pend[t] = <<c>>
    BY <2>1 DEF Current
  <2>3. /\ disk' = [disk EXCEPT ![f] = c] /\ torn' = torn \ {f} /\ saved' = Recorded(j, c)
        /\ pend' = [pend EXCEPT ![t] = <<>>] /\ UNCHANGED <<legacy, snap, on, mem, incidents>>
    BY <1>4, <2>2 DEF Rename
  <2> HIDE DEF c
  <2>4. SavedOK'
    <3>1. j[1] = "trade" => c \in 0 .. MaxTrades
      BY <2>2 DEF FileOf, Content
    <3>2. f = "live" => c.done \subseteq Order \cup {OldOrder}
      BY <2>2 DEF Content, LiveBook
    <3>3. {o \in Order : c[o] # "none"} \subseteq Order
      OBVIOUS
    <3> DEFINE x == CASE j[1] = "trade" -> c
                      [] j = <<"migrate", "paper">> -> 0
                      [] OTHER -> saved.trades
               y == IF f = "live" THEN saved.fills \cup c.done ELSE saved.fills
               z == IF f = "orders" THEN saved.orders \cup {o \in Order : c[o] # "none"} ELSE saved.orders
    <3>4. x \in 0 .. MaxTrades
      <4>1. saved.trades \in 0 .. MaxTrades /\ 0 \in 0 .. MaxTrades
        BY <1>2
      <4>2. CASE j[1] = "trade"
        BY <3>1, <4>2
      <4>3. CASE j[1] # "trade" /\ j = <<"migrate", "paper">>
        BY <4>1, <4>3
      <4>4. CASE j[1] # "trade" /\ j # <<"migrate", "paper">>
        BY <4>1, <4>4
      <4> QED
        BY <4>2, <4>3, <4>4
    <3>5. y \subseteq Order \cup {OldOrder} /\ z \subseteq Order
      BY <1>2, <3>2, <3>3
    <3>6. saved' = [saved EXCEPT !.trades = x, !.fills = y, !.orders = z]
      BY <2>3, Zenon DEF Recorded
    <3> HIDE DEF x, y, z
    <3> QED
      BY <1>2, <3>4, <3>5, <3>6
  <2> QED
    BY <1>2, <2>2, <2>3, <2>4
<1>5. ASSUME NEW f \in File, Lose(f) PROVE DiskOK' /\ SnapOK' /\ SavedOK' /\ RestOK'
  BY <1>2, <1>5 DEF Lose
<1>6. ASSUME NEW F \in Portions, Backup(F) PROVE DiskOK' /\ SnapOK' /\ SavedOK' /\ RestOK'
  BY <1>2, <1>6 DEF Backup, Portions
<1>7. ASSUME Restore PROVE DiskOK' /\ SnapOK' /\ SavedOK' /\ RestOK'
  <2>1. \A f \in File : snap[f] \in Content(f) \cup {None}
    BY <1>2, <1>7 DEF Restore
  <2>2. snap["paper"] # None => snap["paper"] \in 0 .. MaxTrades
    BY <2>1 DEF File, Content
  <2>3. snap["live"] # None => snap["live"].done \subseteq Order \cup {OldOrder}
    BY <2>1 DEF File, Content, LiveBook
  <2>4. SavedOK'
    <3> DEFINE x == IF snap["paper"] = None THEN 0 ELSE snap["paper"]
               y == IF snap["live"] = None THEN {} ELSE snap["live"].done
    <3>1. x \in 0 .. MaxTrades /\ y \subseteq Order \cup {OldOrder}
      BY <1>2, <2>2, <2>3
    <3>2. saved' = [saved EXCEPT !.trades = x, !.fills = y, !.orders = {}]
      BY <1>7, Zenon DEF Restore
    <3> HIDE DEF x, y
    <3> QED
      BY <1>2, <3>1, <3>2
  <2>5. DiskOK' /\ SnapOK'
    BY <1>2, <1>7, <2>1 DEF Restore
  <2>6. RestOK'
    BY <1>2, <1>7 DEF Restore
  <2> QED
    BY <2>4, <2>5, <2>6
<1>8. ASSUME UNCHANGED <<disk, snap, saved>> PROVE DiskOK' /\ SnapOK' /\ SavedOK'
  BY <1>2, <1>8
<1>9. ASSUME NEW t \in Bot, WriteTmp(t) PROVE UNCHANGED <<disk, snap, saved>> /\ RestOK'
  <2> DEFINE j == Head(todo[t])
  <2>1. todo[t] # <<>> /\ j[1] \in Writes /\ Writable(j) /\ j \in JobsOf(t)
    BY <1>9, Rest DEF WriteTmp, Idle, JobsInOrder, FilesTypeOK, Bot
  <2>2. FileOf(j) \in File
    BY <2>1, WritesContent
  <2> QED
    BY <1>2, <1>9, <2>2 DEF WriteTmp
<1>10. ASSUME LoadPaper PROVE UNCHANGED <<disk, snap, saved>> /\ RestOK'
  <2>1. mem' \in 0 .. MaxTrades
    BY <1>2, <1>10, DiskTypes DEF LoadPaper
  <2> QED
    BY <1>2, <1>10, <2>1 DEF LoadPaper
<1>11. ASSUME \/ StartPaper \/ StartLive \/ LoadLive \/ RemoveLock \/ UNCHANGED allVars
              \/ \E o \in Order : Submit(o) \/ Account(o)
              \/ \E f \in File : RemoveTmp(f)
       PROVE  UNCHANGED <<disk, snap, saved>> /\ RestOK'
  BY <1>2, <1>11 DEF StartPaper, StartLive, LoadLive, RemoveLock, allVars, fileVars,
                     Submit, Account, RemoveTmp
<1>12. ASSUME NEW t \in Bot, \/ Go(t) \/ Stop(t) \/ Acquire(t) \/ LockFails(t) \/ Release(t)
                             \/ Skip(t) \/ Retire(t) \/ Fail(t) \/ Reboot(t) \/ Die(t)
       PROVE  UNCHANGED <<disk, snap, saved>> /\ RestOK'
  BY <1>2, <1>12 DEF Go, Stop, Acquire, LockFails, Release, Skip, Retire, Fail, Reboot, Die,
                     fileVars, lockVars
<1>14. ASSUME Trade PROVE UNCHANGED <<disk, snap, saved>> /\ RestOK'
  <2>1. mem' \in 0 .. MaxTrades
    BY <1>2, <1>14 DEF Trade
  <2> QED
    BY <1>2, <1>14, <2>1 DEF Trade
<1> HIDE DEF DiskOK, SnapOK, SavedOK, RestOK, FilesBase
<1>13. ASSUME FilesNext
       PROVE  (DiskOK' /\ SnapOK' /\ SavedOK' /\ RestOK') \/ (UNCHANGED <<disk, snap, saved>> /\ RestOK')
  BY ONLY <1>13, <1>4, <1>5, <1>6, <1>7, <1>9, <1>10, <1>11, <1>12, <1>14, Zenon DEF FilesNext
<1> QED
  BY <1>3, <1>8, <1>11, <1>13

\* FilesBase holds at first and is kept by every step.
LEMMA FilesInitOK == FilesInit => FilesBase
<1> SUFFICES ASSUME FilesInit PROVE FilesBase
  OBVIOUS
<1> USE DEF FilesInit
<1>1. LockTypeOK /\ HolderConsistent
  BY LockInitOK DEF LockIInv
<1>2. \A t \in Task : section[t] = "out"
  BY DEF LockInit
<1>3. FilesLock
  BY <1>1, <1>2 DEF FilesLock, NoGuest, Inside
<1>4. \A t \in Bot : todo[t] = <<>> /\ pend[t] = <<>> /\ t \in Task
  BY Bots DEF Bot
<1>5. JobsInOrder
  BY <1>2, <1>4, Nothing DEF JobsInOrder, Inside
<1>6. PendingIsCurrent
  BY <1>4 DEF PendingIsCurrent
<1>7. FilesTypeOK
  <2>1. todo \in [Bot -> Seq(Job)] /\ legacy \subseteq Legacy
    BY Nothing
  <2>2. saved \in [trades : 0 .. MaxTrades, fills : SUBSET (Order \cup {OldOrder}), orders : SUBSET Order]
    BY FilesAssumption
  <2> QED
    BY <1>1, <2>1, <2>2, FilesAssumption DEF FilesTypeOK, Bot
<1> QED
  BY <1>3, <1>5, <1>6, <1>7 DEF FilesBase

LEMMA FilesBaseStep ==
    ASSUME FilesBase, [FilesNext]_allVars PROVE FilesBase'
  BY FilesTypeStep, FilesLockStep, JobsStep, PendingStep DEF FilesBase

\* The files keep their types, a bot's section is the one its next job belongs to, and
\* a temporary file holds what its write puts in the file.
LEMMA FilesBaseHolds == FilesSpec => []FilesBase
  BY FilesInitOK, FilesBaseStep, PTL DEF FilesSpec

\* Type correctness of the files, of what the bots have to do and of the history.
THEOREM FilesTypeCorrect == FilesSpec => []FilesTypeOK
<1>1. FilesBase => FilesTypeOK
  BY DEF FilesBase
<1> QED
  BY <1>1, FilesBaseHolds, PTL

\* The sections in which the two bots write their files never overlap, across crashes,
\* lock files that could not be completed and locks removed by the operator.
THEOREM BotsExclude == FilesSpec => []CrossProcessExclusion
<1>1. ASSUME FilesBase PROVE CrossProcessExclusion
  <2>1. ASSUME NEW t \in Task, NEW u \in Task, Inside(t), Inside(u) PROVE ProcOf[t] = ProcOf[u]
    <3>1. t \in Bot /\ u \in Bot
      BY <1>1, <2>1 DEF FilesBase, FilesLock
    <3>2. t = u
      BY <1>1, <2>1, <3>1, OneInside DEF FilesBase
    <3> QED
      BY <3>2
  <2> QED
    BY <2>1 DEF CrossProcessExclusion
<1> QED
  BY <1>1, FilesBaseHolds, PTL

\* What a completed write does.
LEMMA RenameDoes ==
    ASSUME FilesBase, NEW t \in Bot, Rename(t)
    PROVE  LET j == Head(todo[t]) IN
           /\ j \in JobsOf(t) /\ j[1] \in Writes /\ todo[t] # <<>> /\ FileOf(j) \in File
           /\ NewContent(j) \in Content(FileOf(j))
           /\ j[1] = "migrate" => disk[j[2]] = None
           /\ disk'[FileOf(j)] = NewContent(j)
           /\ \A g \in File : g # FileOf(j) => disk'[g] = disk[g]
           /\ saved' = Recorded(j, NewContent(j))
           /\ todo'[t] = Tail(todo[t]) /\ \A u \in Bot : u # t => todo'[u] = todo[u]
           /\ UNCHANGED <<legacy, snap, on, mem, incidents>>
           /\ torn' = torn \ {FileOf(j)}
           /\ pend'[t] = <<>>
<1> DEFINE j == Head(todo[t])
<1>1. pend[t] # <<>> /\ j \in JobsOf(t) /\ j[1] \in Writes /\ Current(t)
  BY PendingAlone DEF Rename, FilesBase, PendingIsCurrent
<1>2. /\ NewContent(j) \in Content(FileOf(j)) /\ pend[t] = <<NewContent(j)>> /\ todo[t] # <<>>
      /\ j[1] = "migrate" => disk[j[2]] = None
  BY <1>1 DEF Current
<1>3. FileOf(j) \in File
  BY <1>1, WriteJobs DEF FileOf, File, Realm
<1>4. todo \in [Bot -> Seq(Job)] /\ DOMAIN disk = File /\ DOMAIN pend = Bot
  BY DEF FilesBase, FilesTypeOK, Bot
<1>5. /\ disk' = [disk EXCEPT ![FileOf(j)] = NewContent(j)] /\ saved' = Recorded(j, NewContent(j))
      /\ torn' = torn \ {FileOf(j)} /\ pend' = [pend EXCEPT ![t] = <<>>]
      /\ todo' = [todo EXCEPT ![t] = Tail(todo[t])]
      /\ UNCHANGED <<legacy, snap, on, mem, incidents>>
  <2>1. pend[t][1] = NewContent(j)
    BY <1>2
  <2>2. /\ disk' = [disk EXCEPT ![FileOf(j)] = pend[t][1]] /\ saved' = Recorded(j, pend[t][1])
        /\ torn' = torn \ {FileOf(j)} /\ pend' = [pend EXCEPT ![t] = <<>>]
        /\ todo' = [todo EXCEPT ![t] = Tail(todo[t])]
        /\ UNCHANGED <<legacy, snap, on, mem, incidents>>
    BY Zenon DEF Rename, Drop
  <2> HIDE DEF j
  <2> QED
    BY <2>1, <2>2, Zenon
<1> HIDE DEF j
<1>6. /\ disk'[FileOf(j)] = NewContent(j)
      /\ \A g \in File : g # FileOf(j) => disk'[g] = disk[g]
      /\ todo'[t] = Tail(todo[t]) /\ \A u \in Bot : u # t => todo'[u] = todo[u]
      /\ pend'[t] = <<>>
  BY <1>3, <1>4, <1>5
<1> QED
  BY <1>1, <1>2, <1>3, <1>5, <1>6 DEF j

----------------------------------------------------------------------------
(* The paper book *)

\* Nothing the paper book depends on is undone.
LEMMA PaperFrame ==
    ASSUME PaperIsKept, UNCHANGED <<disk, saved, incidents>>,
           legacy' \subseteq legacy, PaperBot \in on' => PaperBot \in on,
           AllOf(todo'[PaperBot]) \subseteq AllOf(todo[PaperBot]),
           Ahead("trade", None)' => PaperBot \in on',
           Ahead("go", None)' => /\ Ahead("seed", "paper") => Ahead("seed", "paper")'
                                 /\ Ahead("mark", "paper") => Ahead("mark", "paper")'
    PROVE  PaperIsKept'
  BY DEF PaperIsKept, Ahead, Named, PaperLossIsDetected

\* What a bot has to do loses the job it has done.
LEMMA AheadRest ==
    ASSUME FilesBase, NEW t \in Bot, todo[t] # <<>>
    PROVE  /\ AllOf(todo[t]) = {Head(todo[t])} \cup AllOf(Tail(todo[t]))
           /\ Head(todo[t]) \in JobsOf(t) /\ Head(todo[t]) \in AllOf(todo[t])
           /\ todo[t] \in Seq(Job) /\ Orderly(t, todo[t])
           /\ Tail(todo[t]) \in Seq(Job) /\ Orderly(t, Tail(todo[t]))
<1>1. todo[t] \in Seq(Job) /\ Orderly(t, todo[t])
  BY DEF FilesBase, FilesTypeOK, JobsInOrder, Bot
<1> QED
  BY <1>1, AllRest, Rest

\* A completed write of the paper engine.
LEMMA PaperWrites ==
    ASSUME FilesBase, PaperIsKept, Rename(PaperBot) PROVE PaperIsKept'
<1> DEFINE j == Head(todo[PaperBot])
<1>1. PaperBot \in Bot /\ PaperBot # LiveBot
  BY Bots DEF Bot
<1>2. /\ j \in JobsOf(PaperBot) /\ j[1] \in Writes /\ todo[PaperBot] # <<>>
      /\ j[1] = "migrate" => disk[j[2]] = None
      /\ disk'[FileOf(j)] = NewContent(j)
      /\ \A g \in File : g # FileOf(j) => disk'[g] = disk[g]
      /\ saved' = Recorded(j, NewContent(j))
      /\ todo'[PaperBot] = Tail(todo[PaperBot])
      /\ UNCHANGED <<legacy, on, mem, incidents>>
  BY <1>1, RenameDoes
<1>3. AllOf(todo[PaperBot]) = {j} \cup AllOf(todo'[PaperBot])
  BY <1>1, <1>2, AheadRest
<1>4. /\ \/ j[1] = "migrate" /\ j[2] \in {"paper", "live", "orders"}
         \/ j = <<"seed", "paper">> \/ j = <<"mark", "paper">> \/ j = <<"trade", None>>
  <2>1. j \in JobsOf(PaperBot) /\ j[1] \in Writes
    BY <1>2
  <2> HIDE DEF j
  <2>2. CASE \E op \in {"lock", "unlock", "go"} : j = <<op, None>>
    BY <2>1, <2>2 DEF Writes
  <2>3. CASE \E op \in {"load", "seed", "mark"} : j = <<op, "paper">>
    BY <2>1, <2>3 DEF Writes
  <2>4. CASE \E op \in {"migrate", "retire"}, f \in Legacy : j = <<op, f>>
    BY <2>1, <2>4, FilesAssumption DEF Writes
  <2> QED
    BY <2>1, <2>2, <2>3, <2>4 DEF JobsOf
<1>5. saved \in [trades : 0 .. MaxTrades, fills : SUBSET (Order \cup {OldOrder}), orders : SUBSET Order]
      /\ mem \in 0 .. MaxTrades /\ MaxTrades \in Nat
  BY FilesAssumption DEF FilesBase, FilesTypeOK
<1>6. None \notin 0 .. MaxTrades /\ None \notin SUBSET Realm /\ disk["marker"] \in (SUBSET Realm) \cup {None}
      /\ disk["paper"] \in (0 .. MaxTrades) \cup {None}
  BY DiskTypes DEF FilesBase
<1> DEFINE c == NewContent(j)
<1>7. saved'.trades = CASE j[1] = "trade" -> c
                        [] j = <<"migrate", "paper">> -> 0
                        [] OTHER -> saved.trades
  <2> DEFINE x == CASE j[1] = "trade" -> c
                    [] j = <<"migrate", "paper">> -> 0
                    [] OTHER -> saved.trades
             y == IF FileOf(j) = "live" THEN saved.fills \cup c.done ELSE saved.fills
             z == IF FileOf(j) = "orders" THEN saved.orders \cup {o \in Order : c[o] # "none"} ELSE saved.orders
  <2> HIDE DEF c, j
  <2>1. saved' = [saved EXCEPT !.trades = x, !.fills = y, !.orders = z]
    BY <1>2, Zenon DEF Recorded, c, j
  <2> HIDE DEF x, y, z
  <2>2. saved'.trades = x
    BY <1>5, <2>1
  <2> QED
    BY <2>2 DEF x
<1> HIDE DEF j
<1> USE DEF Ahead
<1>8. CASE j[1] = "migrate"
  <2>1. FileOf(j) = j[2] /\ j[1] # "trade"
    BY <1>8 DEF FileOf
  <2>2. CASE j[2] = "paper"
    <3>1. j = <<"migrate", "paper">>
      BY <1>2, <1>8, <2>2, JobsAreJobs DEF Job
    <3>2. c = 0 /\ disk'["paper"] = 0 /\ saved'.trades = 0 /\ disk["paper"] = None
      BY <1>2, <1>7, <1>8, <2>1, <2>2, <3>1 DEF NewContent, LegacyBook
    <3>3. disk'["marker"] = disk["marker"] /\ "paper" \in File /\ "marker" \in File
      BY <1>2, <2>1, <2>2 DEF File
    <3>4. 0 # None
      BY <1>5, <1>6
    <3> HIDE DEF c
    <3> QED
      BY <1>2, <1>3, <3>1, <3>2, <3>3, <3>4 DEF PaperIsKept, Named, PaperLossIsDetected
  <2>3. CASE j[2] # "paper"
    <3>1. j # <<"migrate", "paper">> /\ saved'.trades = saved.trades
      BY <1>7, <2>1, <2>3
    <3>2. disk'["paper"] = disk["paper"] /\ disk'["marker"] = disk["marker"]
      BY <1>2, <1>4, <1>8, <2>1, <2>3 DEF File
    <3>3. j # <<"seed", "paper">> /\ j # <<"mark", "paper">>
      BY <1>8
    <3> HIDE DEF c
    <3> QED
      BY <1>2, <1>3, <3>1, <3>2, <3>3 DEF PaperIsKept, Named, PaperLossIsDetected
  <2> QED
    BY <2>2, <2>3
<1>9. CASE j = <<"seed", "paper">>
  <2>1. /\ FileOf(j) = "paper" /\ c = 0 /\ saved'.trades = saved.trades
        /\ j # <<"migrate", "paper">> /\ j # <<"mark", "paper">>
    BY <1>7, <1>9 DEF FileOf, NewContent, SeedBook
  <2>2. disk'["paper"] = 0 /\ disk'["marker"] = disk["marker"]
    BY <1>2, <2>1 DEF File
  <2>3. saved.trades = 0
    BY <1>3, <1>9 DEF PaperIsKept
  <2>4. 0 # None
    BY <1>5, <1>6
  <2> HIDE DEF c
  <2> QED
    BY <1>2, <1>3, <2>1, <2>2, <2>3, <2>4 DEF PaperIsKept, Named, PaperLossIsDetected
<1>10. CASE j = <<"mark", "paper">>
  <2>1. /\ FileOf(j) = "marker" /\ saved'.trades = saved.trades
        /\ c = {"paper"} \cup (IF disk["marker"] = None THEN {} ELSE disk["marker"])
        /\ j # <<"migrate", "paper">> /\ j # <<"seed", "paper">>
    BY <1>7, <1>10 DEF FileOf, NewContent
  <2>2. disk'["paper"] = disk["paper"] /\ disk'["marker"] = c
    BY <1>2, <2>1 DEF File
  <2>3. c \in SUBSET Realm /\ "paper" \in c
    BY <1>6, <2>1 DEF Realm
  <2>4. Named("paper")'
    BY <1>6, <2>2, <2>3 DEF Named
  <2> HIDE DEF c
  <2> QED
    BY <1>2, <1>3, <2>1, <2>2, <2>4 DEF PaperIsKept, PaperLossIsDetected
<1>11. CASE j = <<"trade", None>>
  <2>1. /\ FileOf(j) = "paper" /\ c = mem /\ saved'.trades = mem
        /\ j # <<"migrate", "paper">> /\ j # <<"seed", "paper">> /\ j # <<"mark", "paper">>
    BY <1>7, <1>11 DEF FileOf, NewContent
  <2>2. disk'["paper"] = mem /\ disk'["marker"] = disk["marker"] /\ mem # None
    BY <1>2, <1>5, <1>6, <2>1 DEF File
  <2>3. PaperBot \in on /\ Named("paper") /\ ~Ahead("seed", "paper")
    BY <1>3, <1>11 DEF PaperIsKept
  <2>4. Named("paper")'
    BY <2>2, <2>3 DEF Named
  <2> HIDE DEF c
  <2> QED
    BY <1>2, <1>3, <1>5, <2>1, <2>2, <2>3, <2>4 DEF PaperIsKept, PaperLossIsDetected
<1> QED
  BY <1>4, <1>8, <1>9, <1>10, <1>11

\* A completed write of the live engine: neither the paper book nor its history, and the
\* marker only grows.
LEMMA LiveWritesSpare ==
    ASSUME FilesBase, PaperIsKept, Rename(LiveBot) PROVE PaperIsKept'
<1> DEFINE j == Head(todo[LiveBot])  c == NewContent(j)
<1>1. PaperBot \in Bot /\ LiveBot \in Bot /\ PaperBot # LiveBot
  BY Bots DEF Bot
<1>2. /\ j \in JobsOf(LiveBot) /\ j[1] \in Writes
      /\ disk'[FileOf(j)] = c
      /\ \A g \in File : g # FileOf(j) => disk'[g] = disk[g]
      /\ saved' = Recorded(j, c)
      /\ todo'[PaperBot] = todo[PaperBot]
      /\ UNCHANGED <<legacy, on, mem, incidents>>
  BY <1>1, RenameDoes
<1>3. \/ j[1] = "seed" /\ j[2] = "live"
      \/ j[1] = "mark" /\ j[2] \in Realm
      \/ j[1] \in {"reserve", "release", "create", "account", "close"}
  BY <1>1, <1>2, WriteJobs
<1>4. FileOf(j) # "paper" /\ j[1] # "trade" /\ j # <<"migrate", "paper">>
  BY <1>3 DEF FileOf
<1>5. /\ saved \in [trades : 0 .. MaxTrades, fills : SUBSET (Order \cup {OldOrder}), orders : SUBSET Order]
      /\ disk["marker"] \in (SUBSET Realm) \cup {None} /\ None \notin SUBSET Realm
  BY DiskTypes DEF FilesBase, FilesTypeOK
<1>6. saved'.trades = saved.trades
  <2> DEFINE x == CASE j[1] = "trade" -> c
                    [] j = <<"migrate", "paper">> -> 0
                    [] OTHER -> saved.trades
             y == IF FileOf(j) = "live" THEN saved.fills \cup c.done ELSE saved.fills
             z == IF FileOf(j) = "orders" THEN saved.orders \cup {o \in Order : c[o] # "none"} ELSE saved.orders
  <2> HIDE DEF c, j
  <2>1. saved' = [saved EXCEPT !.trades = x, !.fills = y, !.orders = z]
    BY <1>2, Zenon DEF Recorded, c, j
  <2>2. x = saved.trades
    BY <1>4
  <2> HIDE DEF x, y, z
  <2> QED
    BY <1>5, <2>1, <2>2
<1>7. disk'["paper"] = disk["paper"]
  BY <1>2, <1>4 DEF File
<1>8. Named("paper") => Named("paper")'
  <2>1. CASE j[1] = "mark"
    <3>1. /\ FileOf(j) = "marker" /\ j[2] \in Realm
          /\ c = {j[2]} \cup (IF disk["marker"] = None THEN {} ELSE disk["marker"])
      BY <1>3, <2>1 DEF FileOf, NewContent
    <3>2. disk'["marker"] = c /\ (Named("paper") => "paper" \in c) /\ c \in SUBSET Realm
      BY <1>2, <1>5, <3>1 DEF Named
    <3> HIDE DEF c
    <3> QED
      BY <1>5, <3>2 DEF Named
  <2>2. CASE j[1] # "mark"
    <3>1. FileOf(j) # "marker"
      BY <1>3, <2>2 DEF FileOf
    <3> QED
      BY <1>2, <3>1 DEF Named, File
  <2> QED
    BY <2>1, <2>2
<1> HIDE DEF j, c
<1> QED
  BY <1>2, <1>6, <1>7, <1>8 DEF PaperIsKept, PaperLossIsDetected, Ahead

\* The start of the paper engine: what it refuses, seeds or takes as it is.
LEMMA PaperLoads ==
    ASSUME FilesBase, PaperIsKept, LoadPaper PROVE PaperIsKept'
<1>1. /\ PaperBot \in Bot /\ todo \in [Bot -> Seq(Job)] /\ todo[PaperBot] # <<>>
      /\ Head(todo[PaperBot])[1] = "load"
      /\ UNCHANGED <<disk, legacy, on, incidents, saved>>
  BY DEF LoadPaper, Doing, Idle, FilesBase, FilesTypeOK, Bot
<1>5. CASE Then(PaperBot, <<>>)
  <2>1. AllOf(todo'[PaperBot]) = {}
    BY <1>1, <1>5, AllOfFew DEF Then
  <2> QED
    BY <1>1, <2>1 DEF PaperIsKept, Ahead, Named, PaperLossIsDetected
<1>6. CASE ~PaperBookRefused /\ disk["paper"] = None /\ Then(PaperBot, FirstRun("paper"))
  <2>1. AllOf(todo'[PaperBot])
           = {LockJob, <<"seed", "paper">>, UnlockJob, <<"mark", "paper">>, GoJob}
    <3>1. <<"mark", "paper">> \in JobsOf(PaperBot) /\ <<"seed", "paper">> \in JobsOf(PaperBot)
      BY DEF JobsOf
    <3>2. AllOf(FirstRun("paper"))
             = {LockJob, <<"seed", "paper">>, UnlockJob, <<"mark", "paper">>, GoJob}
      BY <1>1, <3>1, FirstRunJobs DEF Starts
    <3> QED
      BY <1>1, <1>6, <3>2 DEF Then
  <2>2. saved.trades = 0
    <3>1. ~Named("paper")
      <4>1. "marker" \notin torn /\ "paper" \notin torn
        BY <1>6 DEF PaperBookRefused, Load
      <4> QED
        BY <1>6, <4>1 DEF PaperBookRefused, Load, Marked, Named
    <3> QED
      BY <1>6, <3>1 DEF PaperIsKept
  <2>3. /\ ~Ahead("trade", None)'
        /\ Ahead("seed", "paper")' /\ Ahead("mark", "paper")'
    BY <2>1 DEF Ahead, LockJob, UnlockJob, GoJob
  <2> QED
    BY <1>1, <2>2, <2>3 DEF PaperIsKept, Named, PaperLossIsDetected
<1>7. CASE /\ disk["paper"] # None
           /\ Then(PaperBot, (IF Marked("paper") THEN <<>> ELSE Section(<<<<"mark", "paper">>>>)) \o <<GoJob>>)
  <2>1. CASE Marked("paper")
    <3>1. AllOf(todo'[PaperBot]) = {GoJob}
      <4>1. <<>> \o <<GoJob>> = <<GoJob>>
        OBVIOUS
      <4>2. todo'[PaperBot] = <<GoJob>>
        BY <1>1, <1>7, <2>1, <4>1 DEF Then
      <4> QED
        BY <4>2, AllOfFew
    <3>2. Named("paper")
      BY <2>1 DEF Marked, Named, Load
    <3>3. ~Ahead("trade", None)' /\ ~Ahead("seed", "paper")'
      BY <3>1 DEF Ahead, GoJob
    <3> QED
      BY <1>1, <1>7, <3>2, <3>3 DEF PaperIsKept, Named, PaperLossIsDetected
  <2>2. CASE ~Marked("paper")
    <3>1. AllOf(todo'[PaperBot]) = {LockJob, <<"mark", "paper">>, UnlockJob, GoJob}
      <4>1. <<"mark", "paper">> \in JobsOf(PaperBot)
        BY DEF JobsOf
      <4>2. AllOf(Section(<<<<"mark", "paper">>>>) \o <<GoJob>>)
               = {LockJob, <<"mark", "paper">>, UnlockJob, GoJob}
        BY <1>1, <4>1, MarkJobs DEF Starts
      <4> QED
        BY <1>1, <1>7, <2>2, <4>2 DEF Then
    <3>2. /\ ~Ahead("trade", None)' /\ ~Ahead("seed", "paper")'
          /\ Ahead("mark", "paper")'
      BY <3>1 DEF Ahead, LockJob, UnlockJob, GoJob
    <3> QED
      BY <1>1, <1>7, <3>2 DEF PaperIsKept, Named, PaperLossIsDetected
  <2> QED
    BY <2>1, <2>2
<1>8. \/ Then(PaperBot, <<>>)
      \/ ~PaperBookRefused /\ disk["paper"] = None /\ Then(PaperBot, FirstRun("paper"))
      \/ /\ disk["paper"] # None
         /\ Then(PaperBot, (IF Marked("paper") THEN <<>> ELSE Section(<<<<"mark", "paper">>>>)) \o <<GoJob>>)
  BY DEF LoadPaper, GoJob
<1> QED
  BY <1>5, <1>6, <1>7, <1>8

\* The start of the paper engine, before it loads.
LEMMA PaperStarts ==
    ASSUME FilesBase, PaperIsKept, StartPaper PROVE PaperIsKept'
<1>1. /\ PaperBot \in Bot /\ todo \in [Bot -> Seq(Job)] /\ legacy \subseteq Legacy
      /\ UNCHANGED <<disk, legacy, on, incidents, saved>>
      /\ todo' = [todo EXCEPT ![PaperBot] = MigrationJobs \o <<<<"load", "paper">>>>]
  BY DEF StartPaper, Then, FilesBase, FilesTypeOK, Bot
<1>2. PICK S :
        /\ Starts(PaperBot, MigrationJobs \o <<<<"load", "paper">>>>, "lock", S)
        /\ \A r : <<"seed", r>> \notin S /\ <<"trade", r>> \notin S /\ <<"go", r>> \notin S
  BY <1>1, MigrationList
<1>3. AllOf(todo'[PaperBot]) = S
  BY <1>1, <1>2 DEF Starts
<1>4. \A r : ~Ahead("seed", r)' /\ ~Ahead("trade", r)' /\ ~Ahead("go", r)'
  BY <1>2, <1>3 DEF Ahead
<1> QED
  BY <1>1, <1>4 DEF PaperIsKept, Named, PaperLossIsDetected

\* A paper fill.
LEMMA PaperTrades ==
    ASSUME FilesBase, PaperIsKept, Trade PROVE PaperIsKept'
<1>1. /\ PaperBot \in Bot /\ todo \in [Bot -> Seq(Job)] /\ PaperBot \in on
      /\ UNCHANGED <<disk, legacy, on, incidents, saved>>
      /\ todo' = [todo EXCEPT ![PaperBot] = Section(<<<<"trade", None>>>>)]
  BY DEF Trade, Then, FilesBase, FilesTypeOK, Bot
<1>2. <<"trade", None>> \in JobsOf(PaperBot) /\ <<"trade", None>>[1] = "trade"
  BY DEF JobsOf
<1>3. AllOf(todo'[PaperBot]) = {LockJob, <<"trade", None>>, UnlockJob}
  BY <1>1, <1>2, LastSection DEF Starts
<1>4. /\ ~Ahead("seed", "paper")' /\ ~Ahead("go", None)'
  BY <1>3 DEF Ahead, LockJob, UnlockJob
<1> QED
  BY <1>1, <1>4 DEF PaperIsKept, Named, PaperLossIsDetected

\* A file lost, a snapshot restored: nothing is under way.
LEMMA PaperIncidents ==
    ASSUME FilesBase, PaperIsKept, MaxIncidents <= 1, Restore \/ \E f \in File : Lose(f)
    PROVE  PaperIsKept'
<1>1. /\ PaperBot \in Bot /\ todo[PaperBot] = <<>> /\ on = {} /\ UNCHANGED <<on, todo, legacy>>
      /\ incidents \in 0 .. MaxIncidents /\ MaxIncidents \in Nat /\ incidents < MaxIncidents
      /\ incidents' = incidents + 1
  BY FilesAssumption DEF Restore, Lose, Idle, Bot, FilesBase, FilesTypeOK
<1>2. incidents = 0 /\ incidents' = 1
  BY <1>1
<1>3. \A op, x : ~Ahead(op, x)'
  BY <1>1, AllOfFew DEF Ahead
<1>4. /\ DOMAIN disk = File /\ {"paper", "marker"} \subseteq File
      /\ saved.trades \in 0 .. MaxTrades /\ MaxTrades \in Nat
  BY FilesAssumption DEF FilesBase, FilesTypeOK, File
<1>5. ASSUME NEW f \in File, Lose(f) PROVE PaperIsKept'
  <2>1. /\ saved' = saved /\ \A g \in File : g # f => disk'[g] = disk[g]
        /\ disk'[f] = None
    BY <1>4, <1>5 DEF Lose
  <2>2. CASE f = "paper"
    <3>1. disk'["paper"] = None /\ disk'["marker"] = disk["marker"]
      BY <1>4, <2>1, <2>2
    <3> QED
      BY <1>1, <1>2, <1>3, <2>1, <3>1 DEF PaperIsKept, Named, PaperLossIsDetected
  <2>3. CASE f # "paper"
    <3>1. disk'["paper"] = disk["paper"]
      BY <1>4, <2>1, <2>3
    <3> QED
      BY <1>1, <1>2, <1>3, <2>1, <3>1 DEF PaperIsKept, Named, PaperLossIsDetected
  <2> QED
    BY <2>2, <2>3
<1>6. CASE Restore
  <2>1. /\ disk'["paper"] = IF snap["paper"] = None THEN disk["paper"] ELSE snap["paper"]
        /\ snap["paper"] \in (0 .. MaxTrades) \cup {None}
    BY <1>4, <1>6 DEF Restore, FilesBase, FilesTypeOK, File, Content
  <2>2. saved'.trades = IF snap["paper"] = None THEN 0 ELSE snap["paper"]
    <3> DEFINE x == IF snap["paper"] = None THEN 0 ELSE snap["paper"]
               y == IF snap["live"] = None THEN {} ELSE snap["live"].done
    <3>1. saved' = [saved EXCEPT !.trades = x, !.fills = y, !.orders = {}]
      BY <1>6, Zenon DEF Restore
    <3>2. saved \in [trades : 0 .. MaxTrades, fills : SUBSET (Order \cup {OldOrder}), orders : SUBSET Order]
      BY DEF FilesBase, FilesTypeOK
    <3> HIDE DEF x, y
    <3>3. saved'.trades = x
      BY <3>1, <3>2
    <3> QED
      BY <3>3 DEF x
  <2>3. /\ saved'.trades # 0 => disk'["paper"] # None
        /\ PaperLossIsDetected'
    <3>1. CASE snap["paper"] = None
      <4>1. disk["paper"] \in (0 .. MaxTrades) \cup {None}
        BY DiskTypes DEF FilesBase
      <4> QED
        BY <2>1, <2>2, <3>1, <4>1 DEF PaperLossIsDetected
    <3>2. CASE snap["paper"] # None
      BY <2>1, <2>2, <3>2 DEF PaperLossIsDetected
    <3> QED
      BY <3>1, <3>2
  <2> QED
    BY <1>1, <1>2, <1>3, <2>3 DEF PaperIsKept
<1> QED
  BY <1>5, <1>6

\* The paper engine is up.
LEMMA PaperGoes ==
    ASSUME FilesBase, PaperIsKept, Go(PaperBot) PROVE PaperIsKept'
<1>1. /\ PaperBot \in Bot /\ todo \in [Bot -> Seq(Job)] /\ todo[PaperBot] # <<>>
      /\ Head(todo[PaperBot])[1] = "go" /\ Drop(PaperBot)
      /\ UNCHANGED <<disk, legacy, incidents, saved>>
  BY DEF Go, Doing, Idle, FilesBase, FilesTypeOK, Bot
<1>2. Tail(todo[PaperBot]) = <<>>
  BY <1>1, AheadRest, NextJob
<1>3. todo'[PaperBot] = <<>> /\ AllOf(todo[PaperBot]) = {Head(todo[PaperBot])}
  <2>1. AllOf(todo[PaperBot]) = {Head(todo[PaperBot])} \cup {}
    BY <1>1, <1>2, AheadRest, AllOfFew
  <2> QED
    BY <1>1, <1>2, <2>1 DEF Drop
<1>4. Head(todo[PaperBot]) = <<"go", None>>
  <2> DEFINE j == Head(todo[PaperBot])
  <2>1. j \in JobsOf(PaperBot) /\ j[1] = "go"
    BY <1>1, AheadRest
  <2> HIDE DEF j
  <2>2. ASSUME NEW op, NEW x, j = <<op, x>>, op # "go" PROVE FALSE
    BY <2>1, <2>2
  <2>3. ASSUME NEW op, j = <<op, None>> PROVE j = <<"go", None>>
    BY <2>1, <2>3
  <2>4. \/ \E op \in {"lock", "unlock", "go"} : j = <<op, None>>
        \/ \E op \in {"load", "seed", "mark"} : j = <<op, "paper">>
        \/ j = <<"trade", None>>
        \/ \E op \in {"migrate", "retire"}, f \in Legacy : j = <<op, f>>
    BY <2>1 DEF JobsOf
  <2>5. j = <<"go", None>>
    BY <2>2, <2>3, <2>4
  <2> QED
    BY <2>5 DEF j
<1>5. Ahead("go", None) /\ ~Ahead("seed", "paper") /\ ~Ahead("mark", "paper")
  BY <1>3, <1>4 DEF Ahead
<1>6. disk["paper"] # None /\ Named("paper")
  BY <1>5 DEF PaperIsKept
<1>7. \A op, x : ~Ahead(op, x)'
  BY <1>3, AllOfFew DEF Ahead
<1> QED
  BY <1>1, <1>6, <1>7 DEF PaperIsKept, Named, PaperLossIsDetected

\* The other steps of the paper engine leave its book and only shorten its list.
LEMMA PaperRest ==
    ASSUME FilesBase, PaperIsKept,
           \/ Stop(PaperBot) \/ Acquire(PaperBot) \/ LockFails(PaperBot) \/ Release(PaperBot)
           \/ WriteTmp(PaperBot) \/ Skip(PaperBot) \/ Retire(PaperBot) \/ Fail(PaperBot)
           \/ Die(PaperBot)
    PROVE  PaperIsKept'
<1>1. PaperBot \in Bot /\ todo \in [Bot -> Seq(Job)]
  BY DEF FilesBase, FilesTypeOK, Bot
<1>2. UNCHANGED <<disk, saved, incidents>> /\ legacy' \subseteq legacy
  BY DEF Stop, Acquire, LockFails, Release, WriteTmp, Skip, Retire, Fail, Die
<1>3. Ahead("trade", None) => PaperBot \in on
  BY DEF PaperIsKept
<1>4. CASE /\ todo[PaperBot] # <<>> /\ Head(todo[PaperBot])[1] \in {"lock", "unlock", "retire"}
           /\ Drop(PaperBot) /\ UNCHANGED on
  <2> DEFINE j == Head(todo[PaperBot])
  <2>1. /\ todo'[PaperBot] = Tail(todo[PaperBot])
        /\ AllOf(todo[PaperBot]) = {j} \cup AllOf(todo'[PaperBot])
    BY <1>1, <1>4, AheadRest DEF Drop
  <2>2. j # <<"seed", "paper">> /\ j # <<"mark", "paper">>
    <3>1. j[1] \in {"lock", "unlock", "retire"}
      BY <1>4
    <3> HIDE DEF j
    <3> QED
      BY <3>1
  <2> HIDE DEF j
  <2> QED
    BY <1>2, <1>3, <1>4, <2>1, <2>2, PaperFrame DEF Ahead
<1>5. CASE Acquire(PaperBot) \/ Release(PaperBot) \/ Retire(PaperBot)
  <2>1. /\ todo[PaperBot] # <<>> /\ Head(todo[PaperBot])[1] \in {"lock", "unlock", "retire"}
        /\ Drop(PaperBot) /\ UNCHANGED on
    BY <1>5 DEF Acquire, Release, Retire, Doing, Idle
  <2> QED
    BY <1>4, <2>1
<1>6. CASE Skip(PaperBot)
  <2> DEFINE j == Head(todo[PaperBot])  r == Tail(todo[PaperBot])
  <2>1. /\ todo[PaperBot] # <<>> /\ j[1] = "migrate" /\ UNCHANGED on
        /\ todo' = [todo EXCEPT ![PaperBot] = Tail(Tail(todo[PaperBot]))]
    BY <1>6 DEF Skip, Doing, Idle
  <2>2. /\ AllOf(todo[PaperBot]) = {j} \cup AllOf(r) /\ r \in Seq(Job) /\ Orderly(PaperBot, r)
        /\ r # <<>> /\ Head(r) = <<"retire", j[2]>>
    BY <1>1, <2>1, AheadRest, NextJob
  <2> HIDE DEF r
  <2>3. AllOf(r) = {Head(r)} \cup AllOf(Tail(r))
    BY <1>1, <2>2, AllRest
  <2>4. todo'[PaperBot] = Tail(r)
    BY <1>1, <2>1 DEF r
  <2>5. /\ j # <<"seed", "paper">> /\ j # <<"mark", "paper">>
        /\ Head(r) # <<"seed", "paper">> /\ Head(r) # <<"mark", "paper">>
    <3>1. j[1] = "migrate"
      BY <2>1
    <3> HIDE DEF j
    <3> QED
      BY <2>2, <3>1
  <2> HIDE DEF j
  <2> QED
    BY <1>2, <1>3, <2>1, <2>2, <2>3, <2>4, <2>5, PaperFrame DEF Ahead
<1>7. CASE Stop(PaperBot)
  <2>1. todo[PaperBot] = <<>> /\ UNCHANGED todo /\ PaperBot \notin on'
    BY <1>7 DEF Stop, Idle
  <2>2. AllOf(todo[PaperBot]) = {}
    BY <2>1, AllOfFew
  <2> QED
    BY <1>2, <2>1, <2>2, PaperFrame DEF Ahead
<1>8. CASE LockFails(PaperBot) \/ Die(PaperBot)
  <2>1. todo'[PaperBot] = <<>> /\ on' \subseteq on
    BY <1>1, <1>8 DEF LockFails, Die, Then
  <2>2. AllOf(todo'[PaperBot]) = {}
    BY <2>1, AllOfFew
  <2> QED
    BY <1>2, <2>1, <2>2, PaperFrame DEF Ahead
<1>9. CASE Fail(PaperBot)
  <2> DEFINE j == Head(todo[PaperBot])
  <2>1. todo'[PaperBot] = AfterFailure(j) /\ todo[PaperBot] # <<>> /\ j[1] \in Writes /\ UNCHANGED on
    BY <1>1, <1>9 DEF Fail, Then, Idle
  <2>2. AllOf(todo'[PaperBot]) = {UnlockJob}
    <3>1. j \in JobsOf(PaperBot)
      BY <1>1, <2>1, AheadRest
    <3> HIDE DEF j
    <3> QED
      BY <1>1, <2>1, <3>1, FailureList
  <2>3. \A op, x : Ahead(op, x)' => op = "unlock"
    BY <2>2 DEF Ahead, UnlockJob
  <2>4. /\ ~Ahead("trade", None)' /\ ~Ahead("go", None)'
        /\ ~Ahead("seed", "paper")'
    BY <2>3
  <2> QED
    BY <1>2, <2>1, <2>4 DEF PaperIsKept, Named, PaperLossIsDetected
<1>10. CASE WriteTmp(PaperBot)
  BY <1>2, <1>3, <1>10, PaperFrame DEF WriteTmp, Ahead
<1> QED
  BY <1>5, <1>6, <1>7, <1>8, <1>9, <1>10

\* What the live engine and the operator do leaves the paper book alone.
LEMMA PaperSpared ==
    ASSUME PaperIsKept, UNCHANGED <<disk, saved, incidents, legacy>>,
           todo'[PaperBot] = todo[PaperBot], PaperBot \in on' <=> PaperBot \in on
    PROVE  PaperIsKept'
  BY DEF PaperIsKept, Ahead, Named, PaperLossIsDetected

\* Every step keeps the paper book.
LEMMA PaperStep ==
    ASSUME FilesBase, PaperIsKept, MaxIncidents <= 1, [FilesNext]_allVars PROVE PaperIsKept'
<1>1. /\ PaperBot \in Bot /\ LiveBot \in Bot /\ PaperBot # LiveBot /\ todo \in [Bot -> Seq(Job)]
      /\ \A t \in Bot : t = PaperBot \/ t = LiveBot
  BY Bots DEF FilesBase, FilesTypeOK, Bot
<1>2. CASE UNCHANGED <<disk, saved, incidents, legacy, todo, on>>
  BY <1>2, PaperSpared
<1>3. ASSUME NEW t \in Bot, Reboot(t) PROVE PaperIsKept'
  BY <1>2, <1>3 DEF Reboot, fileVars
<1>4. ASSUME \/ RemoveLock \/ UNCHANGED allVars
             \/ \E f \in File : RemoveTmp(f)
             \/ \E F \in Portions : Backup(F)
      PROVE  PaperIsKept'
  BY <1>2, <1>4 DEF RemoveLock, allVars, fileVars, RemoveTmp, Backup
<1>5. ASSUME StartLive \/ LoadLive \/ \E o \in Order : Submit(o) \/ Account(o) PROVE PaperIsKept'
  <2>1. UNCHANGED <<disk, saved, incidents, legacy, on>> /\ todo'[PaperBot] = todo[PaperBot]
    BY <1>1, <1>5 DEF StartLive, LoadLive, Submit, Account, Then
  <2> QED
    BY <2>1, PaperSpared
<1>6. ASSUME \/ Go(LiveBot) \/ Stop(LiveBot) \/ Acquire(LiveBot) \/ LockFails(LiveBot)
             \/ Release(LiveBot) \/ WriteTmp(LiveBot) \/ Skip(LiveBot) \/ Fail(LiveBot)
             \/ Die(LiveBot)
      PROVE  PaperIsKept'
  <2>1. /\ UNCHANGED <<disk, saved, incidents, legacy>> /\ todo'[PaperBot] = todo[PaperBot]
        /\ PaperBot \in on' <=> PaperBot \in on
    BY <1>1, <1>6 DEF Go, Stop, Acquire, LockFails, Release, WriteTmp, Skip, Fail, Die, Then, Drop
  <2> QED
    BY <2>1, PaperSpared
<1>7. ASSUME Retire(LiveBot) PROVE FALSE
  <2> DEFINE j == Head(todo[LiveBot])
  <2>1. j \in JobsOf(LiveBot) /\ j[1] = "retire"
    BY <1>1, <1>7, AheadRest DEF Retire, Doing, Idle
  <2> HIDE DEF j
  <2> QED
    BY <1>1, <2>1 DEF JobsOf
<1>8. ASSUME NEW t \in Bot, \/ Go(t) \/ Stop(t) \/ Acquire(t) \/ LockFails(t) \/ Release(t)
                            \/ WriteTmp(t) \/ Rename(t) \/ Skip(t) \/ Retire(t) \/ Fail(t) \/ Die(t)
      PROVE  PaperIsKept'
  <2>1. CASE t = PaperBot
    BY <1>8, <2>1, PaperGoes, PaperRest, PaperWrites
  <2>2. CASE t = LiveBot
    BY <1>6, <1>7, <1>8, <2>2, LiveWritesSpare
  <2> QED
    BY <1>1, <2>1, <2>2
<1>9. ASSUME StartPaper \/ LoadPaper \/ Trade \/ Restore \/ \E f \in File : Lose(f)
      PROVE  PaperIsKept'
  BY <1>9, PaperStarts, PaperLoads, PaperTrades, PaperIncidents
<1> HIDE DEF FilesBase, PaperIsKept
<1>10. ASSUME FilesNext PROVE PaperIsKept'
  BY ONLY <1>10, <1>3, <1>4, <1>5, <1>8, <1>9, Zenon DEF FilesNext
<1> QED
  BY <1>4, <1>10

LEMMA PaperInitOK == FilesInit => PaperIsKept
<1> SUFFICES ASSUME FilesInit PROVE PaperIsKept
  OBVIOUS
<1>1. saved.trades = 0 /\ disk["paper"] = None /\ PaperBot \notin on /\ todo[PaperBot] = <<>>
  BY DEF FilesInit, File, Bot
<1>2. \A op, x : ~Ahead(op, x)
  BY <1>1, AllOfFew DEF Ahead
<1> QED
  BY <1>1, <1>2 DEF PaperIsKept, PaperLossIsDetected

\* After one incident (a file lost or a snapshot restored) at any point, the paper book on
\* disk holds every trade that was saved: loadPortfolio never seeds over a realm that has
\* traded.  Two files lost together (the book and the marker) leave nothing to tell by.
THEOREM PaperLossShows ==
    ASSUME MaxIncidents <= 1 PROVE FilesSpec => []PaperLossIsDetected
<1>1. FilesInit => FilesBase /\ PaperIsKept
  BY FilesInitOK, PaperInitOK
<1>2. (FilesBase /\ PaperIsKept) /\ [FilesNext]_allVars => (FilesBase /\ PaperIsKept)'
  BY FilesBaseStep, PaperStep
<1>3. FilesBase /\ PaperIsKept => PaperLossIsDetected
  BY DEF PaperIsKept
<1> QED
  BY <1>1, <1>2, <1>3, PTL DEF FilesSpec

\* The lists the live engine is given, as far as reservations and orders go.
LEMMA LiveListJobs ==
    /\ AllOf(<<<<"load", "live">>>>) = {<<"load", "live">>}
    /\ AllOf(<<GoJob>>) = {GoJob}
    /\ AllOf(FirstRun("live")) = {LockJob, <<"seed", "live">>, UnlockJob, <<"mark", "live">>, GoJob}
    /\ \A o \in Order :
          /\ AllOf(SubmitJobs(o)) = {LockJob, <<"reserve", o>>, <<"create", o>>, UnlockJob}
          /\ AllOf(Section(<<<<"account", o>>, <<"close", o>>>>))
               = {LockJob, <<"account", o>>, <<"close", o>>, UnlockJob}
<1>1. LiveBot \in Bot /\ LiveBot # PaperBot
  BY Bots DEF Bot
<1>2. AllOf(FirstRun("live")) = {LockJob, <<"seed", "live">>, UnlockJob, <<"mark", "live">>, GoJob}
  <2>1. <<"mark", "live">> \in JobsOf(LiveBot) /\ <<"seed", "live">> \in JobsOf(LiveBot)
    BY <1>1 DEF JobsOf
  <2> QED
    BY <1>1, <2>1, FirstRunJobs DEF Starts
<1>3. ASSUME NEW o \in Order
      PROVE  /\ AllOf(SubmitJobs(o)) = {LockJob, <<"reserve", o>>, <<"create", o>>, UnlockJob}
             /\ AllOf(Section(<<<<"account", o>>, <<"close", o>>>>))
                  = {LockJob, <<"account", o>>, <<"close", o>>, UnlockJob}
  <2>1. \A op \in {"reserve", "create", "account", "close"} : <<op, o>> \in JobsOf(LiveBot)
    BY <1>1 DEF JobsOf
  <2>2. Follows(<<"reserve", o>>, <<"create", o>>) /\ Follows(<<"account", o>>, <<"close", o>>)
    BY DEF Follows
  <2>3. /\ <<"reserve", o>>[1] = "reserve" /\ <<"create", o>>[1] = "create"
        /\ <<"account", o>>[1] = "account" /\ <<"close", o>>[1] = "close"
    OBVIOUS
  <2>4. Starts(LiveBot, Section(<<<<"reserve", o>>, <<"create", o>>>>), "lock",
               {LockJob, <<"reserve", o>>, <<"create", o>>, UnlockJob})
    BY <1>1, <2>1, <2>2, <2>3, PairJobs
  <2>5. Starts(LiveBot, Section(<<<<"account", o>>, <<"close", o>>>>), "lock",
               {LockJob, <<"account", o>>, <<"close", o>>, UnlockJob})
    BY <1>1, <2>1, <2>2, <2>3, PairJobs
  <2> QED
    BY <2>4, <2>5 DEF Starts, SubmitJobs
<1> QED
  BY <1>2, <1>3, AllOfFew

\* What LoadLive leaves to be done.
LEMMA LiveLoads ==
    ASSUME FilesBase, LoadLive
    PROVE  /\ todo[LiveBot] # <<>> /\ Head(todo[LiveBot])[1] = "load"
           /\ UNCHANGED <<disk, torn, pend, on, saved, incidents>>
           /\ \E q \in {<<>>, <<GoJob>>, FirstRun("live")} :
                 /\ todo' = [todo EXCEPT ![LiveBot] = q]
                 /\ q = FirstRun("live") => disk["live"] = None
<1> DEFINE Corrupt == \/ Load("live") = "CORRUPT"
                      \/ Load("live") = "MISSING" /\ (Load("marker") = "CORRUPT" \/ Marked("live"))
<1>1. \/ Corrupt /\ Then(LiveBot, <<>>)
      \/ Load("live") = "OK" /\ Then(LiveBot, <<GoJob>>)
      \/ ~Corrupt /\ Load("live") # "OK" /\ Then(LiveBot, FirstRun("live"))
  BY DEF LoadLive, GoJob
<1>2. /\ todo[LiveBot] # <<>> /\ Head(todo[LiveBot])[1] = "load"
      /\ UNCHANGED <<disk, torn, pend, on, saved, incidents>>
  BY DEF LoadLive, Doing, Idle
<1>3. ~Corrupt /\ Load("live") # "OK" => disk["live"] = None
  BY DEF Load
<1> DEFINE F == FirstRun("live")
<1>4. F # <<>> /\ F # <<GoJob>>
  <2>1. AllOf(F) = {LockJob, <<"seed", "live">>, UnlockJob, <<"mark", "live">>, GoJob}
    BY LiveListJobs
  <2> HIDE DEF F
  <2>2. LockJob \in AllOf(F) /\ LockJob # GoJob
    BY <2>1 DEF LockJob, GoJob
  <2> QED
    BY <2>2, AllOfFew
<1> HIDE DEF F
<1>5. \E q \in {<<>>, <<GoJob>>, F} :
         todo' = [todo EXCEPT ![LiveBot] = q] /\ (q = F => disk["live"] = None)
  <2>1. CASE Then(LiveBot, <<>>)
    BY <1>4, <2>1 DEF Then
  <2>2. CASE Then(LiveBot, <<GoJob>>)
    BY <1>4, <2>2 DEF Then
  <2>3. CASE disk["live"] = None /\ Then(LiveBot, F)
    BY <2>3 DEF Then
  <2> QED
    BY <1>1, <1>3, <2>1, <2>2, <2>3 DEF F
<1> QED
  BY <1>2, <1>5 DEF F

----------------------------------------------------------------------------
(* The marks of the realms *)

\* The seed is saved before the mark.
LEMMA FirstRunSeedsFirst ==
    ASSUME NEW t \in Bot, NEW r, <<"mark", r>> \in JobsOf(t), <<"seed", r>> \in JobsOf(t)
    PROVE  SeedsFirst(FirstRun(r))
<1> DEFINE s == <<"seed", r>>  m == <<"mark", r>>
           a == Section(<<s>>)  b == Section(<<m>>)  q == (a \o b) \o <<GoJob>>
<1>1. s \in Job /\ m \in Job /\ LockJob \in Job /\ UnlockJob \in Job /\ GoJob \in Job
  BY JobsAreJobs, CommonJobs DEF GoJob
<1>2. \A x \in Job : LET p == <<LockJob>> \o <<x>> \o <<UnlockJob>> IN
         p \in Seq(Job) /\ Len(p) = 3 /\ p[1] = LockJob /\ p[2] = x /\ p[3] = UnlockJob
  BY <1>1
<1>3. /\ a \in Seq(Job) /\ Len(a) = 3 /\ a[1] = LockJob /\ a[2] = s /\ a[3] = UnlockJob
      /\ b \in Seq(Job) /\ Len(b) = 3 /\ b[1] = LockJob /\ b[2] = m /\ b[3] = UnlockJob
  BY <1>1, <1>2 DEF Section, LockJob, UnlockJob
<1> HIDE DEF a, b
<1>4. /\ Len(q) = 7
      /\ q[1] = LockJob /\ q[2] = s /\ q[3] = UnlockJob
      /\ q[4] = LockJob /\ q[5] = m /\ q[6] = UnlockJob /\ q[7] = GoJob
  <2> DEFINE c == a \o b  g == <<GoJob>>
  <2> HIDE DEF s, m
  <2>7. \A u, v \in Seq(Job) :
           /\ u \o v \in Seq(Job) /\ Len(u \o v) = Len(u) + Len(v)
           /\ \A i \in 1 .. Len(u) + Len(v) : (u \o v)[i] = IF i <= Len(u) THEN u[i] ELSE v[i - Len(u)]
    OBVIOUS
  <2>1. /\ c \in Seq(Job) /\ Len(c) = 3 + 3
        /\ \A i \in 1 .. 3 + 3 : c[i] = IF i <= 3 THEN a[i] ELSE b[i - 3]
    <3>1. Len(a) = 3 /\ Len(b) = 3 /\ a \in Seq(Job) /\ b \in Seq(Job)
      BY <1>3
    <3>2. /\ c \in Seq(Job) /\ Len(c) = Len(a) + Len(b)
          /\ \A i \in 1 .. Len(a) + Len(b) : c[i] = IF i <= Len(a) THEN a[i] ELSE b[i - Len(a)]
      BY ONLY <3>1, <2>7, Zenon DEF c
    <3> HIDE DEF c
    <3> QED
      BY ONLY <3>1, <3>2
  <2>2. c[1] = a[1] /\ c[2] = a[2] /\ c[3] = a[3] /\ c[4] = b[1] /\ c[5] = b[2] /\ c[6] = b[3]
    BY <2>1
  <2>3. g \in Seq(Job) /\ Len(g) = 1 /\ g[1] = GoJob
    BY <1>1
  <2> HIDE DEF c, g
  <2>6. Len(c) = 6
    BY <2>1
  <2>4. /\ Len(c \o g) = 6 + 1
        /\ \A i \in 1 .. 6 + 1 : (c \o g)[i] = IF i <= 6 THEN c[i] ELSE g[i - 6]
    <3>1. /\ Len(c \o g) = Len(c) + Len(g)
          /\ \A i \in 1 .. Len(c) + Len(g) : (c \o g)[i] = IF i <= Len(c) THEN c[i] ELSE g[i - Len(c)]
      BY ONLY <2>1, <2>3, <2>7, Zenon
    <3> QED
      BY ONLY <2>3, <2>6, <3>1
  <2>5. q = c \o g
    BY DEF c, g
  <2> HIDE DEF q
  <2> QED
    <3>1. (c \o g)[7] = g[1]
      BY <2>4
    <3>2. \A i \in 1 .. 6 : (c \o g)[i] = c[i]
      BY <2>4
    <3> QED
      BY <1>3, <2>2, <2>3, <2>4, <2>5, <3>1, <3>2
<1>5. FirstRun(r) = q
  BY Zenon DEF FirstRun, a, b, GoJob
<1> HIDE DEF q
<1>6. \A i \in 1 .. Len(q) : (q[i][1] = "mark" => i = 5) /\ (q[i][1] = "seed" => i = 2)
  BY <1>4 DEF LockJob, UnlockJob, GoJob
<1>7. SeedsFirst(q)
  BY <1>6 DEF SeedsFirst
<1> QED
  BY <1>5, <1>7

\* Lists without a mark, or without a seed.
LEMMA SeedsFirstOfFew ==
    ASSUME NEW q, (\A x \in AllOf(q) : x[1] # "mark") \/ (\A x \in AllOf(q) : x[1] # "seed")
    PROVE  SeedsFirst(q)
  BY DEF SeedsFirst, AllOf

\* What is left of a list when its first job is done.
LEMMA SeedsFirstRest ==
    ASSUME NEW t \in Bot, NEW q \in Seq(Job), q # <<>>, Orderly(t, q), SeedsFirst(q)
    PROVE  /\ SeedsFirst(Tail(q))
           /\ Head(q)[1] = "mark" => \A x \in AllOf(q) : x[1] # "seed"
<1>1. /\ \A i \in 1 .. Len(Tail(q)) : i + 1 \in 1 .. Len(q) /\ Tail(q)[i] = q[i + 1]
      /\ Head(q) = q[1] /\ 1 \in 1 .. Len(q)
  BY Rest
<1>2. SeedsFirst(Tail(q))
  <2> SUFFICES ASSUME NEW i \in 1 .. Len(Tail(q)), NEW k \in 1 .. Len(Tail(q)),
                      Tail(q)[i][1] = "mark", Tail(q)[k][1] = "seed"
               PROVE  k < i
    BY Zenon DEF SeedsFirst
  <2>1. i + 1 \in 1 .. Len(q) /\ k + 1 \in 1 .. Len(q) /\ q[i + 1][1] = "mark" /\ q[k + 1][1] = "seed"
    BY <1>1
  <2>2. k + 1 < i + 1
    BY <2>1 DEF SeedsFirst
  <2> HIDE DEF SeedsFirst
  <2> QED
    BY <2>2
<1>3. ASSUME q[1][1] = "mark", NEW k \in 1 .. Len(q), q[k][1] = "seed" PROVE FALSE
  <2>1. k < 1
    BY <1>1, <1>3 DEF SeedsFirst
  <2> QED
    BY <2>1
<1> QED
  BY <1>1, <1>2, <1>3 DEF AllOf

\* A step that keeps t's list, shortens it or gives it one without a mark.
LEMMA MarksFrame ==
    ASSUME FilesBase, NEW t \in Bot, MarksWhole(t),
           \A r \in Realm : disk[r] # None => disk'[r] # None,
           \/ todo'[t] = todo[t]
           \/ /\ todo[t] # <<>> /\ todo'[t] = Tail(todo[t])
              /\ \A r \in Realm : Head(todo[t]) = <<"seed", r>> => disk'[r] # None
           \/ \A x \in AllOf(todo'[t]) : x[1] # "mark"
    PROVE  MarksWhole(t)'
<1>1. CASE todo'[t] = todo[t]
  BY <1>1 DEF MarksWhole
<1>2. CASE /\ todo[t] # <<>> /\ todo'[t] = Tail(todo[t])
           /\ \A r \in Realm : Head(todo[t]) = <<"seed", r>> => disk'[r] # None
  <2>1. SeedsFirst(todo'[t])
    BY <1>2, AheadRest, SeedsFirstRest DEF MarksWhole
  <2>2. AllOf(todo[t]) = {Head(todo[t])} \cup AllOf(todo'[t])
    BY <1>2, AheadRest
  <2> QED
    BY <1>2, <2>1, <2>2 DEF MarksWhole
<1>3. CASE \A x \in AllOf(todo'[t]) : x[1] # "mark"
  <2>1. SeedsFirst(todo'[t])
    BY <1>3, SeedsFirstOfFew
  <2>2. \A r : <<"mark", r>> \notin AllOf(todo'[t])
    BY <1>3
  <2> QED
    BY <2>1, <2>2 DEF MarksWhole
<1> QED
  BY <1>1, <1>2, <1>3

\* A step that leaves the files: it is enough to look at the lists.
LEMMA WholeFrame ==
    ASSUME RealmsAreWhole, UNCHANGED <<disk, incidents>>, \A t \in Bot : MarksWhole(t)'
    PROVE  RealmsAreWhole'
  BY DEF RealmsAreWhole, Named

\* The same where only t has moved.
LEMMA WholeMove ==
    ASSUME FilesBase, RealmsAreWhole, UNCHANGED <<disk, incidents>>, NEW t \in Bot,
           \A u \in Bot : u # t => todo'[u] = todo[u],
           \/ todo'[t] = todo[t]
           \/ /\ todo[t] # <<>> /\ todo'[t] = Tail(todo[t])
              /\ Head(todo[t])[1] # "seed"
           \/ \A x \in AllOf(todo'[t]) : x[1] # "mark"
    PROVE  RealmsAreWhole'
<1>1. \A u \in Bot : MarksWhole(u)
  BY DEF RealmsAreWhole
<1>2. \A r : Head(todo[t])[1] # "seed" => Head(todo[t]) # <<"seed", r>>
  OBVIOUS
<1>3. \A u \in Bot : MarksWhole(u)'
  BY <1>1, <1>2, MarksFrame
<1> QED
  BY <1>3, WholeFrame

\* A completed write.
LEMMA WholeWrites ==
    ASSUME FilesBase, RealmsAreWhole, NEW t \in Bot, Rename(t) PROVE RealmsAreWhole'
<1> DEFINE j == Head(todo[t])  c == NewContent(j)
<1>1. /\ j \in JobsOf(t) /\ j[1] \in Writes /\ todo[t] # <<>> /\ FileOf(j) \in File
      /\ c \in Content(FileOf(j))
      /\ disk'[FileOf(j)] = c
      /\ \A g \in File : g # FileOf(j) => disk'[g] = disk[g]
      /\ todo'[t] = Tail(todo[t]) /\ \A u \in Bot : u # t => todo'[u] = todo[u]
      /\ incidents' = incidents
  BY RenameDoes
<1>2. c # None /\ Realm \subseteq File /\ "marker" \in File /\ "marker" \notin Realm
  BY <1>1, NoneAssumption DEF File, Realm
<1>3. \A r \in Realm : disk[r] # None => disk'[r] # None
  BY <1>1, <1>2
<1>4. \A r \in Realm : j = <<"seed", r>> => disk'[r] # None
  BY <1>1, <1>2 DEF FileOf
<1>5. \A u \in Bot : MarksWhole(u)'
  BY <1>1, <1>3, <1>4, MarksFrame DEF RealmsAreWhole
<1>6. CASE j[1] = "mark"
  <2>1. /\ FileOf(j) = "marker" /\ j[2] \in Realm /\ j = <<"mark", j[2]>>
        /\ c = {j[2]} \cup (IF disk["marker"] = None THEN {} ELSE disk["marker"])
    <3>1. FileOf(j) = "marker" /\ c = {j[2]} \cup (IF disk["marker"] = None THEN {} ELSE disk["marker"])
      BY <1>6 DEF FileOf, NewContent
    <3>2. j \in Job
      BY <1>1, JobsAreJobs
    <3> HIDE DEF j
    <3>3. j = <<j[1], j[2]>>
      BY <3>2 DEF Job
    <3>4. j[2] \in Realm
      BY <1>1, <1>6, WriteJobs
    <3> QED
      BY <1>6, <3>1, <3>3, <3>4
  <2>2. <<"mark", j[2]>> \in AllOf(todo[t]) /\ \A r : <<"seed", r>> \notin AllOf(todo[t])
    <3>1. \A x \in AllOf(todo[t]) : x[1] # "seed"
      BY <1>1, <1>6, AheadRest, SeedsFirstRest DEF RealmsAreWhole, MarksWhole
    <3>2. j \in AllOf(todo[t])
      BY <1>1, AheadRest
    <3> HIDE DEF j
    <3> QED
      BY <2>1, <3>1, <3>2
  <2>3. disk[j[2]] # None
    BY <2>1, <2>2 DEF RealmsAreWhole, MarksWhole
  <2>4. disk'["marker"] = c
    BY <1>1, <2>1
  <2>5. \A r \in Realm : Named(r)' => r = j[2] \/ Named(r)
    BY <2>1, <2>4 DEF Named
  <2> HIDE DEF j, c
  <2> QED
    BY <1>1, <1>3, <1>5, <2>1, <2>3, <2>5 DEF RealmsAreWhole
<1>7. CASE j[1] # "mark"
  <2>1. FileOf(j) # "marker"
    BY <1>1, <1>7, WriteJobs DEF FileOf, Realm
  <2>2. \A r : Named(r)' <=> Named(r)
    BY <1>1, <1>2, <2>1 DEF Named
  <2> HIDE DEF j, c
  <2> QED
    BY <1>1, <1>3, <1>5, <2>2 DEF RealmsAreWhole
<1> QED
  BY <1>6, <1>7

\* The starts: a realm is marked with its book there, or seeded first.
LEMMA WholeLoads ==
    ASSUME FilesBase, RealmsAreWhole, LoadPaper \/ LoadLive PROVE RealmsAreWhole'
<1>1. /\ PaperBot \in Bot /\ LiveBot \in Bot /\ PaperBot # LiveBot /\ todo \in [Bot -> Seq(Job)]
      /\ \A u \in Bot : u = PaperBot \/ u = LiveBot
      /\ UNCHANGED <<disk, incidents>>
  BY Bots DEF FilesBase, FilesTypeOK, Bot, LoadPaper, LoadLive
<1>2. ASSUME NEW t \in Bot, NEW r \in Realm, NEW q, todo' = [todo EXCEPT ![t] = q],
             <<"mark", r>> \in JobsOf(t), <<"seed", r>> \in JobsOf(t),
             q = FirstRun(r)
      PROVE  RealmsAreWhole'
  <2>1. todo'[t] = FirstRun(r) /\ \A u \in Bot : u # t => todo'[u] = todo[u]
    BY <1>1, <1>2
  <2>2. AllOf(FirstRun(r)) = {LockJob, <<"seed", r>>, UnlockJob, <<"mark", r>>, GoJob}
    BY <1>2, FirstRunJobs DEF Starts
  <2>3. \A x : <<"mark", x>> \in AllOf(todo'[t]) => <<"seed", x>> \in AllOf(todo'[t])
    BY <2>1, <2>2 DEF LockJob, UnlockJob, GoJob
  <2>4. SeedsFirst(todo'[t])
    BY <1>2, <2>1, FirstRunSeedsFirst
  <2>5. MarksWhole(t)'
    BY <2>3, <2>4 DEF MarksWhole
  <2>6. \A u \in Bot : u # t => MarksWhole(u)'
    BY <1>1, <2>1, MarksFrame DEF RealmsAreWhole
  <2> QED
    BY <1>1, <2>5, <2>6, WholeFrame
<1>3. ASSUME NEW t \in Bot, NEW q, todo' = [todo EXCEPT ![t] = q], q \in {<<>>, <<GoJob>>}
      PROVE  RealmsAreWhole'
  <2>1. todo'[t] = q /\ \A u \in Bot : u # t => todo'[u] = todo[u]
    BY <1>1, <1>3
  <2>2. \A x \in AllOf(todo'[t]) : x[1] # "mark"
    BY <1>3, <2>1, AllOfFew DEF GoJob
  <2> QED
    BY <1>1, <2>1, <2>2, WholeMove
<1>4. /\ <<"mark", "paper">> \in JobsOf(PaperBot) /\ <<"seed", "paper">> \in JobsOf(PaperBot)
      /\ <<"mark", "live">> \in JobsOf(LiveBot) /\ <<"seed", "live">> \in JobsOf(LiveBot)
      /\ "paper" \in Realm /\ "live" \in Realm
  BY <1>1 DEF JobsOf, Realm
<1>5. CASE LoadLive
  <2>1. PICK q \in {<<>>, <<GoJob>>, FirstRun("live")} : todo' = [todo EXCEPT ![LiveBot] = q]
    BY <1>5, LiveLoads
  <2> QED
    BY <1>1, <1>2, <1>3, <1>4, <2>1
<1>6. CASE LoadPaper
  <2> DEFINE q == Section(<<<<"mark", "paper">>>>) \o <<GoJob>>
  <2>1. \/ Then(PaperBot, <<>>)
        \/ Then(PaperBot, FirstRun("paper"))
        \/ /\ disk["paper"] # None
           /\ Then(PaperBot, (IF Marked("paper") THEN <<>> ELSE Section(<<<<"mark", "paper">>>>)) \o <<GoJob>>)
    BY <1>6 DEF LoadPaper, GoJob
  <2>2. <<>> \o <<GoJob>> = <<GoJob>>
    OBVIOUS
  <2>3. \/ \E p \in {<<>>, <<GoJob>>, FirstRun("paper")} : todo' = [todo EXCEPT ![PaperBot] = p]
        \/ disk["paper"] # None /\ todo' = [todo EXCEPT ![PaperBot] = q]
    BY <2>1, <2>2 DEF Then
  <2>4. CASE \E p \in {<<>>, <<GoJob>>, FirstRun("paper")} : todo' = [todo EXCEPT ![PaperBot] = p]
    BY <1>1, <1>2, <1>3, <1>4, <2>4
  <2>5. CASE disk["paper"] # None /\ todo' = [todo EXCEPT ![PaperBot] = q]
    <3>1. <<"mark", "paper">> \in JobsOf(PaperBot)
      BY <1>1, <1>4
    <3>2. AllOf(q) = {LockJob, <<"mark", "paper">>, UnlockJob, GoJob}
      BY <1>1, <3>1, MarkJobs DEF Starts
    <3> HIDE DEF q
    <3>3. todo'[PaperBot] = q /\ \A u \in Bot : u # PaperBot => todo'[u] = todo[u]
      BY <1>1, <2>5
    <3>4. SeedsFirst(todo'[PaperBot])
      <4>1. \A x \in AllOf(q) : x[1] # "seed"
        BY <3>2 DEF LockJob, UnlockJob, GoJob
      <4> QED
        BY <3>3, <4>1, SeedsFirstOfFew
    <3>5. \A x : <<"mark", x>> \in AllOf(todo'[PaperBot]) => x = "paper"
      BY <3>2, <3>3 DEF LockJob, UnlockJob, GoJob
    <3>6. MarksWhole(PaperBot)'
      BY <1>1, <2>5, <3>4, <3>5 DEF MarksWhole
    <3>7. \A u \in Bot : u # PaperBot => MarksWhole(u)'
      BY <1>1, <3>3, MarksFrame DEF RealmsAreWhole
    <3> QED
      BY <1>1, <3>6, <3>7, WholeFrame
  <2> QED
    BY <2>3, <2>4, <2>5
<1> QED
  BY <1>5, <1>6

\* Every step keeps the realms whole.
LEMMA WholeStep ==
    ASSUME FilesBase, RealmsAreWhole, [FilesNext]_allVars PROVE RealmsAreWhole'
<1>1. /\ PaperBot \in Bot /\ LiveBot \in Bot /\ PaperBot # LiveBot /\ todo \in [Bot -> Seq(Job)]
  BY Bots DEF FilesBase, FilesTypeOK, Bot
<1>2. CASE UNCHANGED <<disk, incidents, todo>>
  BY <1>1, <1>2, WholeMove
<1>3. ASSUME \/ RemoveLock \/ UNCHANGED allVars
             \/ \E t \in Bot : Stop(t) \/ WriteTmp(t) \/ Reboot(t)
             \/ \E f \in File : RemoveTmp(f)
             \/ \E F \in Portions : Backup(F)
      PROVE  UNCHANGED <<disk, incidents, todo>>
  BY <1>3 DEF RemoveLock, allVars, fileVars, RemoveTmp, Backup, Stop, WriteTmp, Reboot
<1>4. ASSUME NEW t \in Bot, NEW q, todo' = [todo EXCEPT ![t] = q], UNCHANGED <<disk, incidents>>,
             \A op, x : <<op, x>> \in AllOf(q) => op # "mark", AllOf(q) \subseteq Job
      PROVE  RealmsAreWhole'
  <2>1. todo'[t] = q /\ \A u \in Bot : u # t => todo'[u] = todo[u]
    BY <1>1, <1>4
  <2>2. \A x \in AllOf(q) : x[1] # "mark"
    <3>1. \A x \in Job : x = <<x[1], x[2]>>
      BY DEF Job
    <3> QED
      BY <1>4, <3>1
  <2> QED
    BY <1>4, <2>1, <2>2, WholeMove
<1>5. \A q \in Seq(Job) : AllOf(q) \subseteq Job
  BY DEF AllOf
<1>6. CASE StartPaper
  <2> DEFINE q == MigrationJobs \o <<<<"load", "paper">>>>
  <2>1. PICK S : Starts(PaperBot, q, "lock", S) /\ \A r : <<"mark", r>> \notin S
    BY MigrationList DEF FilesBase, FilesTypeOK
  <2>2. todo' = [todo EXCEPT ![PaperBot] = q] /\ UNCHANGED <<disk, incidents>>
    BY <1>6 DEF StartPaper, Then
  <2> HIDE DEF q
  <2> QED
    BY <1>1, <1>4, <1>5, <2>1, <2>2 DEF Starts
<1>7. CASE StartLive
  <2> DEFINE q == <<<<"load", "live">>>>
  <2>1. AllOf(q) = {<<"load", "live">>} /\ <<"load", "live">> \in Job
    BY LiveListJobs DEF Job, File
  <2>2. todo' = [todo EXCEPT ![LiveBot] = q] /\ UNCHANGED <<disk, incidents>>
    BY <1>7 DEF StartLive, Then
  <2> HIDE DEF q
  <2> QED
    BY <1>1, <1>4, <2>1, <2>2
<1>8. CASE Trade
  <2> DEFINE q == Section(<<<<"trade", None>>>>)
  <2>1. Starts(PaperBot, q, "lock", {LockJob, <<"trade", None>>, UnlockJob})
    <3>1. <<"trade", None>> \in JobsOf(PaperBot) /\ <<"trade", None>>[1] = "trade"
      BY DEF JobsOf
    <3> QED
      BY <1>1, <3>1, LastSection
  <2>2. todo' = [todo EXCEPT ![PaperBot] = q] /\ UNCHANGED <<disk, incidents>>
    BY <1>8 DEF Trade, Then
  <2> HIDE DEF q
  <2>3. q \in Seq(Job) /\ AllOf(q) = {LockJob, <<"trade", None>>, UnlockJob}
    BY <2>1 DEF Starts
  <2>4. \A op, x : <<op, x>> \in AllOf(q) => op # "mark"
    BY <2>3 DEF LockJob, UnlockJob
  <2> QED
    BY <1>1, <1>4, <1>5, <2>2, <2>3, <2>4
<1>9. ASSUME NEW o \in Order, Submit(o) \/ Account(o) PROVE RealmsAreWhole'
  <2>1. PICK q \in {SubmitJobs(o), Section(<<<<"account", o>>, <<"close", o>>>>)} :
           todo' = [todo EXCEPT ![LiveBot] = q]
    BY <1>9 DEF Submit, Account, Then
  <2>2. UNCHANGED <<disk, incidents>>
    BY <1>9 DEF Submit, Account
  <2>3. AllOf(q) \subseteq {LockJob, <<"reserve", o>>, <<"create", o>>, <<"account", o>>,
                            <<"close", o>>, UnlockJob}
    BY <2>1, LiveListJobs
  <2>4. \A op, x : <<op, x>> \in AllOf(q) => op # "mark"
    BY <2>3 DEF LockJob, UnlockJob
  <2>5. AllOf(q) \subseteq Job
    BY <2>3 DEF LockJob, UnlockJob, Job, Writes
  <2> QED
    BY <1>1, <1>4, <2>1, <2>2, <2>4, <2>5
<1>10. ASSUME NEW t \in Bot, Go(t) \/ Acquire(t) \/ Release(t) \/ Retire(t) PROVE RealmsAreWhole'
  <2>1. /\ UNCHANGED <<disk, incidents>> /\ todo[t] # <<>> /\ Head(todo[t])[1] # "seed"
        /\ todo' = [todo EXCEPT ![t] = Tail(todo[t])]
    BY <1>10 DEF Go, Acquire, Release, Retire, Doing, Idle, Drop
  <2>2. todo'[t] = Tail(todo[t]) /\ \A u \in Bot : u # t => todo'[u] = todo[u]
    BY <1>1, <2>1
  <2> QED
    BY <2>1, <2>2, WholeMove
<1>11. ASSUME NEW t \in Bot, LockFails(t) \/ Die(t) PROVE RealmsAreWhole'
  <2>1. UNCHANGED <<disk, incidents>> /\ todo' = [todo EXCEPT ![t] = <<>>]
    BY <1>11 DEF LockFails, Die, Then
  <2> QED
    BY <1>4, <2>1, AllOfFew
<1>12. ASSUME NEW t \in Bot, Fail(t) PROVE RealmsAreWhole'
  <2> DEFINE j == Head(todo[t])  q == AfterFailure(j)
  <2>1. /\ UNCHANGED <<disk, incidents>> /\ todo[t] # <<>> /\ j[1] \in Writes
        /\ todo' = [todo EXCEPT ![t] = q]
    BY <1>12 DEF Fail, Then, Idle
  <2>2. j \in JobsOf(t)
    BY <2>1, AheadRest
  <2> HIDE DEF j
  <2>3. q \in Seq(Job) /\ \A x \in AllOf(q) : x[1] \in {"release", "unlock"}
    BY <2>1, <2>2, FailureList
  <2> HIDE DEF q
  <2>4. \A op, x : <<op, x>> \in AllOf(q) => op # "mark"
    BY <2>3
  <2> QED
    BY <1>4, <1>5, <2>1, <2>3, <2>4
<1>13. ASSUME NEW t \in Bot, Skip(t) PROVE RealmsAreWhole'
  <2> DEFINE r == Tail(todo[t])
  <2>1. /\ todo[t] # <<>> /\ Head(todo[t])[1] = "migrate" /\ UNCHANGED <<disk, incidents>>
        /\ todo' = [todo EXCEPT ![t] = Tail(r)]
    BY <1>13 DEF Skip, Doing, Idle
  <2>8. MarksWhole(t)
    BY DEF RealmsAreWhole
  <2>9. /\ r \in Seq(Job) /\ Orderly(t, r) /\ todo[t] \in Seq(Job) /\ Orderly(t, todo[t])
        /\ AllOf(todo[t]) = {Head(todo[t])} \cup AllOf(r)
    BY <2>1, AheadRest
  <2>2. /\ r # <<>> /\ Head(r)[1] = "retire" /\ SeedsFirst(r)
    <3>1. r # <<>> /\ Head(r) = <<"retire", Head(todo[t])[2]>>
      BY <2>1, <2>9, NextJob
    <3>2. SeedsFirst(r)
      BY <2>1, <2>8, <2>9, SeedsFirstRest DEF MarksWhole
    <3> QED
      BY <3>1, <3>2
  <2> HIDE DEF r
  <2>3. SeedsFirst(Tail(r)) /\ AllOf(r) = {Head(r)} \cup AllOf(Tail(r))
    BY <2>2, <2>9, SeedsFirstRest, AllRest
  <2>4. todo'[t] = Tail(r) /\ \A u \in Bot : u # t => todo'[u] = todo[u]
    BY <1>1, <2>1
  <2>5. \A x : /\ <<"mark", x>> \in AllOf(Tail(r)) => <<"mark", x>> \in AllOf(todo[t])
               /\ <<"seed", x>> \in AllOf(todo[t]) => <<"seed", x>> \in AllOf(Tail(r))
    BY <2>1, <2>2, <2>3, <2>9
  <2>6. MarksWhole(t)'
    <3>1. SeedsFirst(todo'[t]) /\ AllOf(todo'[t]) = AllOf(Tail(r)) /\ disk' = disk
      BY <2>1, <2>3, <2>4
    <3>2. \A x \in Realm : <<"mark", x>> \in AllOf(Tail(r)) =>
             disk[x] # None \/ <<"seed", x>> \in AllOf(Tail(r))
      BY <2>5, <2>8 DEF MarksWhole
    <3> QED
      BY <3>1, <3>2 DEF MarksWhole
  <2>7. \A u \in Bot : u # t => MarksWhole(u)'
    BY <2>1, <2>4, MarksFrame DEF RealmsAreWhole
  <2> QED
    BY <2>1, <2>6, <2>7, WholeFrame
<1>14. ASSUME Restore \/ \E f \in File : Lose(f) PROVE RealmsAreWhole'
  <2>1. /\ \A t \in Bot : todo'[t] = <<>>
        /\ incidents \in Nat /\ incidents' = incidents + 1
    BY <1>1, <1>14, FilesAssumption DEF Restore, Lose, Idle, FilesBase, FilesTypeOK
  <2>2. \A t \in Bot : MarksWhole(t)'
    <3>1. \A t \in Bot : AllOf(todo'[t]) = {}
      BY <2>1, AllOfFew
    <3>2. \A t \in Bot : SeedsFirst(todo'[t])
      BY <3>1, SeedsFirstOfFew
    <3> QED
      BY <3>1, <3>2 DEF MarksWhole
  <2> QED
    BY <2>1, <2>2 DEF RealmsAreWhole
<1> HIDE DEF FilesBase, RealmsAreWhole
<1>15. ASSUME FilesNext PROVE RealmsAreWhole'
  BY ONLY <1>15, <1>2, <1>3, <1>6, <1>7, <1>8, <1>9, <1>10, <1>11, <1>12, <1>13, <1>14, FilesBase,
          RealmsAreWhole, WholeLoads, WholeWrites, Zenon DEF FilesNext
<1> QED
  BY <1>2, <1>3, <1>15

LEMMA WholeInitOK == FilesInit => RealmsAreWhole
<1> SUFFICES ASSUME FilesInit PROVE RealmsAreWhole
  OBVIOUS
<1>1. disk["marker"] = None /\ \A t \in Bot : todo[t] = <<>>
  BY DEF FilesInit, File
<1>2. \A t \in Bot : AllOf(todo[t]) = {}
  BY <1>1, AllOfFew
<1>3. \A t \in Bot : SeedsFirst(todo[t])
  BY <1>2, SeedsFirstOfFew
<1> QED
  BY <1>1, <1>2, <1>3 DEF RealmsAreWhole, MarksWhole, Named

\* Through every crash and failed save of a first run a marked realm has its book, so that
\* nothing that lost no file is ever reported as an unexpected state loss.
THEOREM NoAlarmWithoutLoss == FilesSpec => []NoFalseAlarm
<1>1. FilesInit => FilesBase /\ RealmsAreWhole
  BY FilesInitOK, WholeInitOK
<1>2. (FilesBase /\ RealmsAreWhole) /\ [FilesNext]_allVars => (FilesBase /\ RealmsAreWhole)'
  BY FilesBaseStep, WholeStep
<1>3. FilesBase /\ RealmsAreWhole => NoFalseAlarm
  <2>1. \A r \in Realm : Marked(r) => Named(r)
    BY DEF Marked, Named, Load
  <2> QED
    BY <2>1 DEF RealmsAreWhole, NoFalseAlarm
<1> QED
  BY <1>1, <1>2, <1>3, PTL DEF FilesSpec

----------------------------------------------------------------------------
(* The orders of the live engine *)

\* What a saved file adds to the orders of the history.
LEMMA RecordedOrders ==
    ASSUME FilesTypeOK, NEW j, NEW c, NEW s, s = Recorded(j, c)
    PROVE  s.orders = IF FileOf(j) = "orders" THEN saved.orders \cup {o \in Order : c[o] # "none"}
                                              ELSE saved.orders
<1> DEFINE x == CASE j[1] = "trade" -> c
                  [] j = <<"migrate", "paper">> -> 0
                  [] OTHER -> saved.trades
           y == IF FileOf(j) = "live" THEN saved.fills \cup c.done ELSE saved.fills
           z == IF FileOf(j) = "orders" THEN saved.orders \cup {o \in Order : c[o] # "none"} ELSE saved.orders
<1>1. s = [saved EXCEPT !.trades = x, !.fills = y, !.orders = z]
  BY Zenon DEF Recorded
<1>2. saved \in [trades : 0 .. MaxTrades, fills : SUBSET (Order \cup {OldOrder}), orders : SUBSET Order]
  BY DEF FilesTypeOK
<1> HIDE DEF x, y, z
<1>3. s.orders = z
  BY <1>1, <1>2
<1> QED
  BY <1>3 DEF z

\* A migration or a first run of the paper engine adds no order and no reservation, and
\* takes none away.
LEMMA PaperRename ==
    ASSUME FilesBase, Rename(PaperBot)
    PROVE  /\ Reserved' = Reserved /\ Known' = Known /\ saved'.orders = saved.orders
           /\ incidents' = incidents /\ todo'[LiveBot] = todo[LiveBot] /\ on' = on
<1> DEFINE j == Head(todo[PaperBot])  c == NewContent(j)
<1>1. PaperBot \in Bot /\ LiveBot \in Bot /\ PaperBot # LiveBot
  BY Bots DEF Bot
<1>2. /\ j \in JobsOf(PaperBot) /\ j[1] \in Writes
      /\ j[1] = "migrate" => disk[j[2]] = None
      /\ disk'[FileOf(j)] = c
      /\ \A g \in File : g # FileOf(j) => disk'[g] = disk[g]
      /\ saved' = Recorded(j, c)
      /\ incidents' = incidents /\ todo'[LiveBot] = todo[LiveBot] /\ on' = on
  BY <1>1, RenameDoes
<1>3. saved'.orders = IF FileOf(j) = "orders" THEN saved.orders \cup {o \in Order : c[o] # "none"}
                                              ELSE saved.orders
  BY <1>2, RecordedOrders DEF FilesBase
<1>4. \/ j[1] = "migrate" /\ j[2] \in {"paper", "live", "orders"}
      \/ j[1] = "seed" /\ j[2] = "paper"
      \/ j[1] = "mark" \/ j[1] = "trade"
  <2>1. j \in JobsOf(PaperBot) /\ j[1] \in Writes
    BY <1>2
  <2> HIDE DEF j
  <2>2. ASSUME NEW op, NEW x, j = <<op, x>>, op \notin Writes PROVE FALSE
    BY <2>1, <2>2
  <2>3. ASSUME NEW op \in {"load", "seed", "mark"}, j = <<op, "paper">>
        PROVE  (j[1] = "seed" /\ j[2] = "paper") \/ j[1] = "mark"
    BY <2>1, <2>3 DEF Writes
  <2>4. ASSUME NEW op \in {"migrate", "retire"}, NEW f \in Legacy, j = <<op, f>>
        PROVE  j[1] = "migrate" /\ j[2] \in {"paper", "live", "orders"}
    BY <2>1, <2>4, FilesAssumption DEF Writes
  <2>5. \/ \E op \in {"lock", "unlock", "go"} : j = <<op, None>>
        \/ \E op \in {"load", "seed", "mark"} : j = <<op, "paper">>
        \/ j = <<"trade", None>>
        \/ \E op \in {"migrate", "retire"}, f \in Legacy : j = <<op, f>>
    BY <2>1 DEF JobsOf
  <2>6. j = <<"trade", None>> => j[1] = "trade"
    OBVIOUS
  <2>7. "lock" \notin Writes /\ "unlock" \notin Writes /\ "go" \notin Writes
    BY DEF Writes
  <2> QED
    BY <2>2, <2>3, <2>4, <2>5, <2>6, <2>7
<1> HIDE DEF j
<1>5. CASE j[1] = "migrate" /\ j[2] = "live"
  <2>1. FileOf(j) = "live" /\ c = LegacyBook("live") /\ disk["live"] = None
    BY <1>2, <1>5 DEF FileOf, NewContent
  <2>2. c.resv = {}
    BY <2>1 DEF LegacyBook
  <2> HIDE DEF c
  <2>3. disk'["live"] = c /\ disk'["orders"] = disk["orders"]
    BY <1>2, <2>1 DEF File
  <2>4. Reserved' = {} /\ Reserved = {}
    BY <2>1, <2>2, <2>3 DEF Reserved
  <2>5. Ledger' = Ledger
    BY <2>3 DEF Ledger
  <2> QED
    BY <1>2, <1>3, <2>1, <2>4, <2>5 DEF Known
<1>6. CASE j[1] = "migrate" /\ j[2] = "orders"
  <2>1. FileOf(j) = "orders" /\ c = LegacyBook("orders") /\ disk["orders"] = None
    BY <1>2, <1>6 DEF FileOf, NewContent
  <2>2. \A o \in Order : c[o] = "none" /\ Ledger[o] = "none"
    BY <2>1 DEF LegacyBook, Ledger
  <2> HIDE DEF c
  <2>3. disk'["orders"] = c /\ disk'["live"] = disk["live"]
    BY <1>2, <2>1 DEF File
  <2>4. \A o \in Order : Ledger'[o] = "none"
    <3>1. CASE c = None
      BY <2>3, <3>1 DEF Ledger
    <3>2. CASE c # None
      BY <2>2, <2>3, <3>2 DEF Ledger
    <3> QED
      BY <3>1, <3>2
  <2>5. Known = {} /\ Known' = {} /\ {o \in Order : c[o] # "none"} = {}
    BY <2>2, <2>4 DEF Known
  <2>6. Reserved' = Reserved
    BY <2>3 DEF Reserved
  <2> QED
    BY <1>2, <1>3, <2>1, <2>5, <2>6
<1>7. CASE FileOf(j) \in {"paper", "marker"}
  <2>1. disk'["orders"] = disk["orders"] /\ disk'["live"] = disk["live"]
    BY <1>2, <1>7 DEF File
  <2>2. Ledger' = Ledger /\ Reserved' = Reserved
    BY <2>1 DEF Ledger, Reserved
  <2> QED
    BY <1>2, <1>3, <1>7, <2>2 DEF Known
<1>8. \/ j[1] = "migrate" /\ j[2] = "live"
      \/ j[1] = "migrate" /\ j[2] = "orders"
      \/ FileOf(j) \in {"paper", "marker"}
  BY <1>4 DEF FileOf
<1> QED
  BY <1>5, <1>6, <1>7, <1>8

\* What a completed write of the live engine does to the reservations and the ledger.
LEMMA LiveRename ==
    ASSUME FilesBase, Rename(LiveBot)
    PROVE  LET j == Head(todo[LiveBot]) IN
           /\ j[1] = "reserve" => Reserved' = Reserved \cup {j[2]} /\ Known' = Known
           /\ j[1] \in {"create", "close"} => Reserved' = Reserved /\ Known' = Known \cup {j[2]}
           /\ j[1] \in {"release", "account", "mark"} => Reserved' = Reserved /\ Known' = Known
           /\ j[1] = "seed" => Reserved' = {} /\ Known' = Known
           /\ saved'.orders \subseteq saved.orders \cup Known' /\ saved.orders \subseteq saved'.orders
           /\ j[1] \in {"reserve", "release", "create", "close", "account", "mark", "seed"}
           /\ j \in JobsOf(LiveBot)
<1> DEFINE j == Head(todo[LiveBot])  c == NewContent(j)
<1>1. LiveBot \in Bot /\ PaperBot # LiveBot
  BY Bots DEF Bot
<1>2. /\ j \in JobsOf(LiveBot) /\ j[1] \in Writes /\ c \in Content(FileOf(j))
      /\ disk'[FileOf(j)] = c
      /\ \A g \in File : g # FileOf(j) => disk'[g] = disk[g]
      /\ saved' = Recorded(j, c)
  BY <1>1, RenameDoes
<1>3. saved'.orders = IF FileOf(j) = "orders" THEN saved.orders \cup {o \in Order : c[o] # "none"}
                                              ELSE saved.orders
  BY <1>2, RecordedOrders DEF FilesBase
<1>4. \/ j[1] = "seed" /\ j[2] = "live"
      \/ j[1] = "mark"
      \/ j[1] \in {"reserve", "release", "create", "account", "close"} /\ j[2] \in Order
  BY <1>1, <1>2, WriteJobs
<1>5. /\ None \notin LiveBook /\ None \notin [Order -> Status]
      /\ disk["live"] \in LiveBook \cup {None} /\ disk["orders"] \in [Order -> Status] \cup {None}
  BY DiskTypes DEF FilesBase
<1> HIDE DEF j
<1>6. CASE FileOf(j) = "live"
  <2>1. c \in LiveBook /\ disk'["live"] = c /\ disk'["orders"] = disk["orders"]
    BY <1>2, <1>6 DEF File, Content
  <2>2. Known' = Known /\ Reserved' = c.resv /\ saved'.orders = saved.orders
    <3> HIDE DEF c
    <3>1. Ledger' = Ledger /\ Reserved' = c.resv
      BY <1>5, <2>1 DEF Ledger, Reserved
    <3> QED
      BY <1>3, <1>6, <3>1 DEF Known
  <2>3. j[1] \in {"seed", "reserve", "release", "account"}
    BY <1>4, <1>6 DEF FileOf
  <2>4. CASE j[1] = "seed"
    <3>1. j[2] = "live" /\ c = SeedBook(j[2])
      BY <1>4, <2>4 DEF NewContent
    <3>2. c.resv = {}
      BY <3>1 DEF SeedBook
    <3> HIDE DEF c
    <3> QED
      BY <1>2, <2>2, <2>4, <3>2 DEF j
  <2>5. CASE j[1] \in {"reserve", "release", "account"}
    <3>1. disk["live"] # None /\ disk["live"] \in LiveBook
      <4>1. pend[LiveBot] # <<>> /\ Current(LiveBot) /\ j[2] \in Order
        BY <1>1, <1>4, <2>5 DEF Rename, FilesBase, PendingIsCurrent
      <4>2. c.resv \subseteq Order /\ c.done \subseteq Order \cup {OldOrder}
        BY <2>1 DEF LiveBook
      <4>3. disk["live"] # None
        BY <2>5, <4>1 DEF Current, j
      <4> QED
        BY <1>5, <4>3
    <3>2. Reserved = disk["live"].resv
      BY <3>1 DEF Reserved
    <3>3. CASE j[1] = "reserve"
      <4>1. c = [disk["live"] EXCEPT !.resv = @ \cup {j[2]}]
        BY <3>3 DEF NewContent
      <4>2. c.resv = disk["live"].resv \cup {j[2]}
        BY <3>1, <4>1 DEF LiveBook
      <4> HIDE DEF c
      <4> QED
        BY <1>2, <2>2, <3>2, <3>3, <4>2 DEF j
    <3>4. CASE j[1] = "account"
      <4>1. c = [disk["live"] EXCEPT !.done = @ \cup {j[2]}]
        BY <3>4 DEF NewContent
      <4>2. c.resv = disk["live"].resv
        BY <3>1, <4>1 DEF LiveBook
      <4> HIDE DEF c
      <4> QED
        BY <1>2, <2>2, <3>2, <3>4, <4>2 DEF j
    <3>5. CASE j[1] = "release"
      <4>1. c = disk["live"]
        BY <3>5 DEF NewContent
      <4> HIDE DEF c
      <4> QED
        BY <1>2, <2>2, <3>2, <3>5, <4>1 DEF j
    <3> QED
      BY <2>5, <3>3, <3>4, <3>5
  <2> QED
    BY <2>3, <2>4, <2>5
<1>7. CASE FileOf(j) = "orders"
  <2>1. c \in [Order -> Status] /\ disk'["orders"] = c /\ disk'["live"] = disk["live"]
    BY <1>2, <1>7 DEF File, Content
  <2>2. Reserved' = Reserved /\ Ledger' = c
    <3> HIDE DEF c
    <3> QED
      BY <1>5, <2>1 DEF Ledger, Reserved
  <2>3. Known' = {o \in Order : c[o] # "none"}
    BY <2>2 DEF Known
  <2>4. j[1] \in {"create", "close"} /\ j[2] \in Order
    BY <1>4, <1>7 DEF FileOf
  <2>5. Ledger \in [Order -> Status]
    BY <1>5 DEF Ledger, Status
  <2>6. \A o \in Order : c[o] # "none" <=> o = j[2] \/ Ledger[o] # "none"
    <3>1. c = [Ledger EXCEPT ![j[2]] = "open"] \/ c = [Ledger EXCEPT ![j[2]] = "closed"]
      BY <2>4 DEF NewContent
    <3> HIDE DEF c
    <3> QED
      BY <2>4, <2>5, <3>1
  <2> HIDE DEF c
  <2>7. Known' = Known \cup {j[2]}
    BY <2>3, <2>4, <2>6 DEF Known
  <2> QED
    BY <1>2, <1>3, <1>7, <2>2, <2>3, <2>4, <2>7 DEF j
<1>8. CASE FileOf(j) = "marker"
  <2>1. disk'["orders"] = disk["orders"] /\ disk'["live"] = disk["live"]
    BY <1>2, <1>8 DEF File
  <2>2. Ledger' = Ledger /\ Reserved' = Reserved
    BY <2>1 DEF Ledger, Reserved
  <2>3. j[1] = "mark"
    BY <1>4, <1>8 DEF FileOf
  <2> QED
    BY <1>2, <1>3, <1>8, <2>2, <2>3 DEF Known, j
<1>9. FileOf(j) \in {"live", "orders", "marker"}
  BY <1>4 DEF FileOf
<1> QED
  BY <1>6, <1>7, <1>8, <1>9

\* An order is recorded right after its reservation.
LEMMA CreateFollows ==
    ASSUME NEW q \in Seq(Job), q # <<>>, Orderly(LiveBot, q),
           Tail(q) # <<>>, NEW o, Head(Tail(q)) = <<"create", o>>
    PROVE  Head(q)[1] = "reserve" /\ Head(q)[2] = o
<1>1. LiveBot \in Bot
  BY DEF Bot
<1>2. Follows(Head(q), <<"create", o>>)
  BY <1>1, Rest
<1> QED
  BY <1>2 DEF Follows

LEMMA FreshCreatesNone ==
    ASSUME NEW q, Fresh(LiveBot, q), q # <<>>, NEW o PROVE Head(q) # <<"create", o>>
  BY DEF Fresh, Begun, Writes

\* The jobs of the live engine that have nothing else to name.
LEMMA GoesAlone ==
    ASSUME NEW j \in JobsOf(LiveBot)
    PROVE  /\ j[1] = "go" => j = <<"go", None>>
           /\ j[1] = "load" => j = <<"load", "live">>
<1>1. LiveBot # PaperBot
  BY Bots
<1>2. \/ \E op \in {"lock", "unlock", "go"} : j = <<op, None>>
      \/ \E op \in {"load", "seed", "mark"} : j = <<op, "live">>
      \/ \E op \in {"reserve", "release", "create", "account", "close"}, o \in Order : j = <<op, o>>
  BY <1>1 DEF JobsOf
<1> QED
  BY <1>2

\* Steps that change nothing of the live engine's work or books.
LiveQuiet ==
    /\ UNCHANGED <<disk, saved, incidents>> /\ todo'[LiveBot] = todo[LiveBot]
    /\ LiveBot \in on' <=> LiveBot \in on

\* Steps of the live engine that only shorten its list, or end it with the release of a
\* reservation.
LiveShorter ==
    /\ UNCHANGED <<disk, saved, incidents>> /\ ~LiveRests
    /\ \A op \in {"load", "seed", "reserve", "create", "account", "close", "go"} : \A x :
          LiveAhead(op, x)' => LiveAhead(op, x)
    /\ \A o : ~Creating(o)'
    /\ LiveBot \in on' \ on => LiveAhead("go", None)

\* The steps of the live engine, neither a write nor a new list.
LEMMA LiveIsShorter ==
    ASSUME FilesBase,
           \/ Go(LiveBot) \/ Stop(LiveBot) \/ Acquire(LiveBot) \/ LockFails(LiveBot)
           \/ Release(LiveBot) \/ Skip(LiveBot) \/ Retire(LiveBot) \/ Fail(LiveBot) \/ Die(LiveBot)
    PROVE  LiveShorter
<1>1. LiveBot \in Bot /\ todo \in [Bot -> Seq(Job)]
  BY DEF FilesBase, FilesTypeOK, Bot
<1>2. UNCHANGED <<disk, saved, incidents>>
  BY DEF Go, Stop, Acquire, LockFails, Release, Skip, Retire, Fail, Die
<1>3. CASE Go(LiveBot) \/ Acquire(LiveBot) \/ Release(LiveBot)
  <2> DEFINE j == Head(todo[LiveBot])
  <2>1. /\ todo[LiveBot] # <<>> /\ j[1] \in {"lock", "unlock", "go"} /\ Drop(LiveBot)
        /\ LiveBot \in on' \ on => j[1] = "go"
    BY <1>3 DEF Go, Acquire, Release, Doing, Idle
  <2>2. /\ todo'[LiveBot] = Tail(todo[LiveBot]) /\ j \in JobsOf(LiveBot)
        /\ AllOf(todo[LiveBot]) = {j} \cup AllOf(todo'[LiveBot])
        /\ todo[LiveBot] \in Seq(Job) /\ Orderly(LiveBot, todo[LiveBot])
    BY <1>1, <2>1, AheadRest DEF Drop
  <2>3. \A o : ~Creating(o)'
    BY <2>1, <2>2, CreateFollows DEF Creating
  <2>4. j[1] = "go" => j = <<"go", None>>
    BY <1>1, <2>2, GoesAlone
  <2>5. ~LiveRests /\ (LiveBot \in on' \ on => LiveAhead("go", None))
    BY <2>1, <2>2, <2>4 DEF LiveRests, Idle, LiveAhead
  <2> QED
    BY <1>2, <2>2, <2>3, <2>5 DEF LiveShorter, LiveAhead
<1>4. CASE Stop(LiveBot)
  <2>1. ~LiveRests /\ todo'[LiveBot] = <<>> /\ LiveBot \notin on'
    BY <1>4 DEF Stop, Idle, LiveRests
  <2> QED
    BY <1>2, <2>1, AllOfFew DEF LiveShorter, LiveAhead, Creating
<1>5. CASE LockFails(LiveBot) \/ Die(LiveBot)
  <2>1. todo'[LiveBot] = <<>> /\ todo[LiveBot] # <<>> /\ on' \subseteq on
    BY <1>1, <1>5 DEF LockFails, Die, Then, Doing, Idle
  <2> QED
    BY <1>2, <2>1, AllOfFew DEF LiveShorter, LiveAhead, Creating, LiveRests, Idle
<1>6. CASE Fail(LiveBot)
  <2> DEFINE j == Head(todo[LiveBot])
  <2>1. todo'[LiveBot] = AfterFailure(j) /\ todo[LiveBot] # <<>> /\ j[1] \in Writes /\ on' = on
    BY <1>1, <1>6 DEF Fail, Then, Idle
  <2>2. j \in JobsOf(LiveBot)
    BY <1>1, <2>1, AheadRest
  <2> HIDE DEF j
  <2>3. /\ \A x \in AllOf(todo'[LiveBot]) : x[1] \in {"release", "unlock"}
        /\ \A o : Head(todo'[LiveBot]) # <<"create", o>>
    BY <1>1, <2>1, <2>2, FailureList
  <2>4. \A op, x : LiveAhead(op, x)' => op \in {"release", "unlock"}
    BY <2>3 DEF LiveAhead
  <2>5. ~LiveRests /\ \A o : ~Creating(o)'
    BY <2>1, <2>3 DEF LiveRests, Idle, Creating
  <2> QED
    BY <1>2, <2>1, <2>4, <2>5 DEF LiveShorter
<1>7. ASSUME Skip(LiveBot) \/ Retire(LiveBot) PROVE FALSE
  <2> DEFINE j == Head(todo[LiveBot])
  <2>1. j \in JobsOf(LiveBot) /\ (j[1] = "retire" \/ j[1] = "migrate")
    BY <1>1, <1>7, AheadRest DEF Retire, Skip, Doing, Idle
  <2>2. PaperBot # LiveBot
    BY Bots
  <2> HIDE DEF j
  <2> QED
    BY <2>1, <2>2 DEF JobsOf
<1> QED
  BY <1>3, <1>4, <1>5, <1>6, <1>7

\* The kinds of step, for what the live engine has reserved and recorded.
LEMMA LiveMoves ==
    ASSUME FilesBase, [FilesNext]_allVars
    PROVE  \/ Rename(LiveBot) \/ Rename(PaperBot) \/ Restore \/ \E f \in File : Lose(f)
           \/ StartLive \/ LoadLive \/ \E o \in Order : Submit(o) \/ Account(o)
           \/ LiveQuiet \/ LiveShorter
<1>1. /\ PaperBot \in Bot /\ LiveBot \in Bot /\ PaperBot # LiveBot /\ todo \in [Bot -> Seq(Job)]
      /\ \A t \in Bot : t = PaperBot \/ t = LiveBot
  BY Bots DEF FilesBase, FilesTypeOK, Bot
<1>2. ASSUME UNCHANGED <<disk, saved, incidents, todo, on>> PROVE LiveQuiet
  BY <1>2 DEF LiveQuiet
<1>3. ASSUME \/ RemoveLock \/ UNCHANGED allVars
             \/ \E t \in Bot : Reboot(t) \/ WriteTmp(t)
             \/ \E f \in File : RemoveTmp(f)
             \/ \E F \in Portions : Backup(F)
      PROVE  LiveQuiet
  BY <1>2, <1>3 DEF RemoveLock, allVars, fileVars, RemoveTmp, Backup, Reboot, WriteTmp
<1>4. ASSUME \/ StartPaper \/ LoadPaper \/ Trade
             \/ Go(PaperBot) \/ Stop(PaperBot) \/ Acquire(PaperBot) \/ LockFails(PaperBot)
             \/ Release(PaperBot) \/ Skip(PaperBot) \/ Retire(PaperBot) \/ Fail(PaperBot)
             \/ Die(PaperBot)
      PROVE  LiveQuiet
  <2>1. UNCHANGED <<disk, saved, incidents>> /\ (LiveBot \in on' <=> LiveBot \in on)
    BY <1>1, <1>4 DEF StartPaper, LoadPaper, Trade, Go, Stop, Acquire, LockFails, Release, Skip,
                      Retire, Fail, Die
  <2>2. todo'[LiveBot] = todo[LiveBot]
    BY <1>1, <1>4 DEF StartPaper, LoadPaper, Trade, Go, Stop, Acquire, LockFails, Release, Skip,
                      Retire, Fail, Die, Then, Drop
  <2> QED
    BY <2>1, <2>2 DEF LiveQuiet
<1>6. ASSUME NEW t \in Bot,
             \/ Go(t) \/ Stop(t) \/ Acquire(t) \/ LockFails(t) \/ Release(t)
             \/ Skip(t) \/ Retire(t) \/ Fail(t) \/ Die(t)
      PROVE  LiveQuiet \/ LiveShorter
  <2>1. CASE t = PaperBot
    BY <1>4, <1>6, <2>1
  <2>2. CASE t = LiveBot
    BY <1>6, <2>2, LiveIsShorter
  <2> QED
    BY <1>1, <2>1, <2>2
<1>7. \A t \in Bot : Rename(t) => Rename(LiveBot) \/ Rename(PaperBot)
  BY <1>1
<1> HIDE DEF FilesBase, LiveQuiet, LiveShorter
<1> QED
  BY <1>3, <1>4, <1>6, <1>7, Zenon DEF FilesNext

\* No order is forgotten by what leaves the reservations, the ledger and the history.
LEMMA OrdersFrame ==
    ASSUME OrdersAreKept, Reserved' = Reserved, Known' = Known, saved'.orders = saved.orders,
           incidents' = incidents, LiveRests => LiveRests',
           \A op \in {"seed", "reserve", "account", "close"} : \A x :
              LiveAhead(op, x)' => LiveAhead(op, x),
           \A o : Creating(o)' => Creating(o)
    PROVE  OrdersAreKept'
  BY DEF OrdersAreKept

\* A new list of the live engine.
LEMMA OrdersGiven ==
    ASSUME FilesBase, OrdersAreKept, UNCHANGED <<disk, saved, incidents>>,
           saved.orders \subseteq Known,
           NEW q, Fresh(LiveBot, q), todo' = [todo EXCEPT ![LiveBot] = q],
           <<"seed", "live">> \in AllOf(q) =>
              Reserved = {} /\ \A o \in Order : <<"reserve", o>> \notin AllOf(q),
           \A o \in Order : <<"account", o>> \in AllOf(q) \/ <<"close", o>> \in AllOf(q)
              => o \in Reserved
    PROVE  OrdersAreKept'
<1>1. todo'[LiveBot] = q
  BY DEF FilesBase, FilesTypeOK, Bot
<1>2. \A o : ~Creating(o)'
  BY <1>1, FreshCreatesNone DEF Creating
<1>3. Reserved' = Reserved /\ Known' = Known
  BY DEF Reserved, Known, Ledger
<1>4. \A op, x : LiveAhead(op, x)' <=> <<op, x>> \in AllOf(q)
  BY <1>1 DEF LiveAhead
<1> QED
  BY <1>2, <1>3, <1>4 DEF OrdersAreKept

\* A start or a submission that is not refused finds every reservation's order in the
\* ledger.
LEMMA StartKnows ==
    ASSUME ~LiveRefused \/ (MaySubmit /\ disk["live"] # None)
    PROVE  Reserved \subseteq Known
<1>1. "live" \notin torn /\ Orphans = {}
  BY DEF LiveRefused, MaySubmit, Halts, Load, File
<1>2. CASE disk["live"] = None
  BY <1>2 DEF Reserved
<1>3. CASE disk["live"] # None
  BY <1>1, <1>3 DEF Orphans, Load, Reserved
<1> QED
  BY <1>2, <1>3

\* A completed write of the live engine.
LEMMA OrdersWrites ==
    ASSUME FilesBase, OrdersAreKept, Rename(LiveBot) PROVE OrdersAreKept'
<1> DEFINE j == Head(todo[LiveBot])
<1>1. LiveBot \in Bot
  BY DEF Bot
<1>2. /\ todo[LiveBot] # <<>> /\ todo'[LiveBot] = Tail(todo[LiveBot]) /\ incidents' = incidents
      /\ todo[LiveBot] \in Seq(Job) /\ Orderly(LiveBot, todo[LiveBot])
      /\ AllOf(todo[LiveBot]) = {j} \cup AllOf(todo'[LiveBot]) /\ j \in JobsOf(LiveBot)
  BY <1>1, RenameDoes, AheadRest
<1>3. /\ j[1] = "reserve" => Reserved' = Reserved \cup {j[2]} /\ Known' = Known
      /\ j[1] \in {"create", "close"} => Reserved' = Reserved /\ Known' = Known \cup {j[2]}
      /\ j[1] \in {"release", "account", "mark"} => Reserved' = Reserved /\ Known' = Known
      /\ j[1] = "seed" => Reserved' = {} /\ Known' = Known
      /\ saved'.orders \subseteq saved.orders \cup Known'
      /\ j[1] \in {"reserve", "release", "create", "close", "account", "mark", "seed"}
  BY LiveRename
<1>4. saved.orders \subseteq Known
  BY <1>2 DEF OrdersAreKept, LiveRests, Idle
<1>5. j = <<j[1], j[2]>> /\ (j[1] = "seed" => j[2] = "live")
      /\ (j[1] \in {"reserve", "release", "create", "close", "account"} => j[2] \in Order)
  <2>1. j \in Job /\ j[1] \in Writes
    BY <1>1, <1>2, <1>3, JobsAreJobs DEF Writes
  <2>2. j = <<j[1], j[2]>>
    <3> HIDE DEF j
    <3> QED
      BY <2>1 DEF Job
  <2>3. j \in JobsOf(LiveBot)
    BY <1>2
  <2> HIDE DEF j
  <2> QED
    BY <1>1, <2>1, <2>2, <2>3, WriteJobs
<1>6. \A op, x : LiveAhead(op, x)' => LiveAhead(op, x)
  BY <1>2 DEF LiveAhead
<1>7. LiveAhead(j[1], j[2])
  BY <1>2, <1>5 DEF LiveAhead
<1>8. j[1] = "create" => Creating(j[2])
  BY <1>2, <1>5 DEF Creating
<1>9. \A o : Creating(o)' => j[1] = "reserve" /\ j[2] = o
  BY <1>2, CreateFollows DEF Creating
<1> HIDE DEF j
<1>10. Reserved \subseteq Reserved' /\ Known \subseteq Known'
  BY <1>3, <1>5, <1>7 DEF OrdersAreKept
<1>11. saved'.orders \subseteq Known'
  BY <1>3, <1>4, <1>10
<1>12. j[1] \in {"create", "close"} => j[2] \in Reserved
  BY <1>5, <1>7, <1>8 DEF OrdersAreKept
<1>13. incidents' = 0 => Known' \subseteq Reserved'
  <2>1. incidents = 0 => Known \subseteq Reserved
    BY DEF OrdersAreKept
  <2> QED
    BY <1>2, <1>3, <1>10, <1>12, <2>1
<1>14. LiveAhead("seed", "live")' => Reserved' = {} /\ \A o \in Order : ~LiveAhead("reserve", o)'
  <2> SUFFICES ASSUME LiveAhead("seed", "live")'
               PROVE  Reserved' = {} /\ \A o \in Order : ~LiveAhead("reserve", o)'
    OBVIOUS
  <2>1. Reserved = {} /\ \A o \in Order : ~LiveAhead("reserve", o)
    BY <1>6 DEF OrdersAreKept
  <2>2. j[1] # "reserve"
    BY <1>5, <1>7, <2>1
  <2> QED
    BY <1>3, <1>6, <2>1, <2>2
<1>15. \A o \in Order : LiveAhead("account", o)' \/ LiveAhead("close", o)' \/ Creating(o)'
          => o \in Reserved'
  <2>1. \A o \in Order : LiveAhead("account", o) \/ LiveAhead("close", o) => o \in Reserved
    BY DEF OrdersAreKept
  <2>2. \A o : Creating(o)' => o \in Reserved'
    BY <1>3, <1>9
  <2> QED
    BY <1>6, <1>10, <2>1, <2>2
<1> QED
  BY <1>11, <1>13, <1>14, <1>15 DEF OrdersAreKept

\* A file lost, a snapshot restored.
LEMMA OrdersIncidents ==
    ASSUME FilesBase, OrdersAreKept, MaxIncidents <= 1, Restore \/ \E f \in File : Lose(f)
    PROVE  OrdersAreKept'
<1>1. /\ LiveBot \in Bot /\ todo[LiveBot] = <<>> /\ on = {} /\ UNCHANGED <<on, todo>>
      /\ incidents \in 0 .. MaxIncidents /\ MaxIncidents \in Nat /\ incidents < MaxIncidents
      /\ incidents' = incidents + 1 /\ DOMAIN disk = File
  BY FilesAssumption DEF Restore, Lose, Idle, Bot, FilesBase, FilesTypeOK
<1>2. incidents = 0 /\ incidents' # 0
  BY <1>1
<1>3. /\ \A op, x : ~LiveAhead(op, x)' /\ \A o : ~Creating(o)' /\ LiveRests'
  BY <1>1, AllOfFew DEF LiveAhead, Creating, LiveRests, Idle
<1>4. Known \subseteq Reserved /\ saved.orders \subseteq Known
  BY <1>2 DEF OrdersAreKept
<1>5. ASSUME NEW f \in File, Lose(f) PROVE OrdersAreKept'
  <2>1. saved' = saved /\ \A g \in File : g # f => disk'[g] = disk[g]
    BY <1>1, <1>5 DEF Lose
  <2>2. CASE f = "orders"
    <3>1. disk'["live"] = disk["live"]
      BY <2>1, <2>2 DEF File
    <3>2. Reserved' = Reserved
      BY <3>1 DEF Reserved
    <3> QED
      BY <1>2, <1>3, <1>4, <2>1, <3>2 DEF OrdersAreKept
  <2>3. CASE f # "orders"
    <3>1. disk'["orders"] = disk["orders"]
      BY <2>1, <2>3 DEF File
    <3>2. Known' = Known
      BY <3>1 DEF Known, Ledger
    <3> QED
      BY <1>2, <1>3, <1>4, <2>1, <3>2 DEF OrdersAreKept
  <2> QED
    BY <2>2, <2>3
<1>6. CASE Restore
  <2>1. saved'.orders = {}
    <3> DEFINE x == IF snap["paper"] = None THEN 0 ELSE snap["paper"]
               y == IF snap["live"] = None THEN {} ELSE snap["live"].done
    <3>1. saved' = [saved EXCEPT !.trades = x, !.fills = y, !.orders = {}]
      BY <1>6, Zenon DEF Restore
    <3>2. saved \in [trades : 0 .. MaxTrades, fills : SUBSET (Order \cup {OldOrder}), orders : SUBSET Order]
      BY DEF FilesBase, FilesTypeOK
    <3> HIDE DEF x, y
    <3> QED
      BY <3>1, <3>2
  <2> QED
    BY <1>2, <1>3, <2>1 DEF OrdersAreKept
<1> QED
  BY <1>5, <1>6

\* Every step keeps the orders.
LEMMA OrdersStep ==
    ASSUME FilesBase, OrdersAreKept, MaxIncidents <= 1, [FilesNext]_allVars PROVE OrdersAreKept'
<1>1. FilesTypeOK /\ todo \in [Bot -> Seq(Job)] /\ LiveBot \in Bot
  BY DEF FilesBase, FilesTypeOK, Bot
<1>2. CASE Rename(PaperBot)
  <2>1. /\ Reserved' = Reserved /\ Known' = Known /\ saved'.orders = saved.orders
        /\ incidents' = incidents /\ todo'[LiveBot] = todo[LiveBot] /\ on' = on
    BY <1>2, PaperRename
  <2> QED
    BY <2>1, OrdersFrame DEF LiveRests, Idle, LiveAhead, Creating
<1>3. CASE LiveQuiet
  <2>1. Reserved' = Reserved /\ Known' = Known
    BY <1>3 DEF LiveQuiet, Reserved, Known, Ledger
  <2> QED
    BY <1>3, <2>1, OrdersFrame DEF LiveQuiet, LiveRests, Idle, LiveAhead, Creating
<1>4. CASE LiveShorter
  <2>1. Reserved' = Reserved /\ Known' = Known
    BY <1>4 DEF LiveShorter, Reserved, Known, Ledger
  <2> QED
    BY <1>4, <2>1, OrdersFrame DEF LiveShorter
<1>5. CASE StartLive
  <2> DEFINE q == <<<<"load", "live">>>>
  <2>1. /\ UNCHANGED <<disk, saved, incidents>> /\ ~LiveRefused
        /\ todo' = [todo EXCEPT ![LiveBot] = q] /\ Fresh(LiveBot, q)
    BY <1>1, <1>5, FreshLists DEF StartLive, Then
  <2>2. saved.orders \subseteq Known
    BY <2>1, StartKnows DEF OrdersAreKept
  <2>3. AllOf(q) = {<<"load", "live">>}
    BY LiveListJobs
  <2> HIDE DEF q
  <2>4. \A op, x : <<op, x>> \in AllOf(q) => op = "load"
    BY <2>3
  <2> QED
    BY <2>1, <2>2, <2>4, OrdersGiven
<1>6. CASE LoadLive
  <2>1. /\ todo[LiveBot] # <<>> /\ UNCHANGED <<disk, saved, incidents>>
        /\ \E q \in {<<>>, <<GoJob>>, FirstRun("live")} :
              /\ todo' = [todo EXCEPT ![LiveBot] = q]
              /\ q = FirstRun("live") => disk["live"] = None
    BY <1>6, LiveLoads
  <2>2. saved.orders \subseteq Known
    BY <2>1 DEF OrdersAreKept, LiveRests, Idle
  <2>3. PICK q \in {<<>>, <<GoJob>>, FirstRun("live")} :
           todo' = [todo EXCEPT ![LiveBot] = q] /\ (q = FirstRun("live") => disk["live"] = None)
    BY <2>1
  <2>4. Fresh(LiveBot, q)
    BY <1>1, <2>3, FreshLists
  <2>5. \A op, x : <<op, x>> \in AllOf(q) =>
           op \in {"lock", "seed", "unlock", "mark", "go"} /\ (op = "seed" => q = FirstRun("live"))
    <3>1. AllOf(<<GoJob>>) = {GoJob}
          /\ AllOf(FirstRun("live")) = {LockJob, <<"seed", "live">>, UnlockJob, <<"mark", "live">>, GoJob}
      BY LiveListJobs
    <3>2. CASE q = <<>>
      BY <3>2, AllOfFew
    <3>3. CASE q = <<GoJob>>
      <4>1. AllOf(q) = {GoJob}
        BY <3>1, <3>3
      <4> QED
        BY <4>1 DEF GoJob
    <3>4. CASE q = FirstRun("live")
      <4>1. AllOf(q) = {LockJob, <<"seed", "live">>, UnlockJob, <<"mark", "live">>, GoJob}
        BY <3>1, <3>4
      <4> QED
        BY <3>4, <4>1 DEF GoJob, LockJob, UnlockJob
    <3> QED
      BY <2>3, <3>2, <3>3, <3>4
  <2>6. q = FirstRun("live") => Reserved = {}
    BY <2>3 DEF Reserved
  <2>7. /\ <<"seed", "live">> \in AllOf(q) => Reserved = {}
        /\ \A o : <<"reserve", o>> \notin AllOf(q)
        /\ \A o : <<"account", o>> \notin AllOf(q) /\ <<"close", o>> \notin AllOf(q)
    BY <2>5, <2>6
  <2> HIDE DEF FilesBase, OrdersAreKept, Fresh
  <2> QED
    BY <2>1, <2>2, <2>3, <2>4, <2>7, OrdersGiven
<1>7. ASSUME NEW o \in Order, Submit(o) PROVE OrdersAreKept'
  <2> DEFINE q == SubmitJobs(o)
  <2>1. /\ UNCHANGED <<disk, saved, incidents>> /\ LiveBot \in on
        /\ todo' = [todo EXCEPT ![LiveBot] = q] /\ Fresh(LiveBot, q)
    BY <1>1, <1>7, FreshLists DEF Submit, Then
  <2>2. saved.orders \subseteq Known
    BY <2>1 DEF OrdersAreKept, LiveRests
  <2>3. AllOf(q) = {LockJob, <<"reserve", o>>, <<"create", o>>, UnlockJob}
    BY LiveListJobs
  <2> HIDE DEF q
  <2>4. \A op, x : <<op, x>> \in AllOf(q) => op \in {"lock", "reserve", "create", "unlock"}
    BY <2>3 DEF LockJob, UnlockJob
  <2>5. /\ <<"seed", "live">> \notin AllOf(q)
        /\ \A x : <<"account", x>> \notin AllOf(q) /\ <<"close", x>> \notin AllOf(q)
    BY <2>4
  <2> QED
    BY <2>1, <2>2, <2>5, OrdersGiven
<1>8. ASSUME NEW o \in Order, Account(o) PROVE OrdersAreKept'
  <2> DEFINE q == Section(<<<<"account", o>>, <<"close", o>>>>)
  <2>1. /\ UNCHANGED <<disk, saved, incidents>> /\ LiveBot \in on
        /\ disk["live"] # None /\ o \in disk["live"].resv
        /\ todo' = [todo EXCEPT ![LiveBot] = q] /\ Fresh(LiveBot, q)
    BY <1>1, <1>8, FreshLists DEF Account, Then
  <2>2. saved.orders \subseteq Known /\ o \in Reserved
    BY <2>1 DEF OrdersAreKept, LiveRests, Reserved
  <2>3. AllOf(q) = {LockJob, <<"account", o>>, <<"close", o>>, UnlockJob}
    BY LiveListJobs
  <2> HIDE DEF q
  <2>4. \A op, x : <<op, x>> \in AllOf(q) =>
           op \in {"lock", "account", "close", "unlock"} /\ (op \in {"account", "close"} => x = o)
    BY <2>3 DEF LockJob, UnlockJob
  <2>5. /\ <<"seed", "live">> \notin AllOf(q)
        /\ \A x : <<"account", x>> \in AllOf(q) \/ <<"close", x>> \in AllOf(q) => x = o
    BY <2>4
  <2>6. \A x \in Order : <<"account", x>> \in AllOf(q) \/ <<"close", x>> \in AllOf(q) => x \in Reserved
    BY <2>2, <2>5
  <2> QED
    BY <2>1, <2>2, <2>5, <2>6, OrdersGiven
<1> HIDE DEF FilesBase, OrdersAreKept
<1> QED
  BY <1>2, <1>3, <1>4, <1>5, <1>6, <1>7, <1>8, LiveMoves, OrdersWrites, OrdersIncidents

\* The steps that write nothing keep what a submission rests on.
LEMMA TradingFrame ==
    ASSUME TradingIsClean, Reserved' = Reserved, Known' = Known,
           \A op \in {"load", "reserve", "create", "close", "go"} : \A x :
              LiveAhead(op, x)' => LiveAhead(op, x)
    PROVE  TradingIsClean'
  BY DEF TradingIsClean

\* A completed write of the live engine: a new order only where nothing else is missing.
LEMMA TradingWrites ==
    ASSUME FilesBase, TradingIsClean, Rename(LiveBot)
    PROVE  TradingIsClean' /\ (Known' # Known => Orphans' = {})
<1> DEFINE j == Head(todo[LiveBot])
<1>1. LiveBot \in Bot
  BY DEF Bot
<1>2. /\ todo[LiveBot] # <<>> /\ todo'[LiveBot] = Tail(todo[LiveBot])
      /\ todo[LiveBot] \in Seq(Job) /\ Orderly(LiveBot, todo[LiveBot])
      /\ AllOf(todo[LiveBot]) = {j} \cup AllOf(todo'[LiveBot]) /\ j \in JobsOf(LiveBot)
  BY <1>1, RenameDoes, AheadRest
<1>3. /\ j[1] = "reserve" => Reserved' = Reserved \cup {j[2]} /\ Known' = Known
      /\ j[1] \in {"create", "close"} => Reserved' = Reserved /\ Known' = Known \cup {j[2]}
      /\ j[1] \in {"release", "account", "mark"} => Reserved' = Reserved /\ Known' = Known
      /\ j[1] = "seed" => Reserved' = {} /\ Known' = Known
      /\ j[1] \in {"reserve", "release", "create", "close", "account", "mark", "seed"}
  BY LiveRename
<1>4. j = <<j[1], j[2]>>
  <2>1. j \in Job
    BY <1>1, <1>2, JobsAreJobs
  <2> HIDE DEF j
  <2> QED
    BY <2>1 DEF Job
<1>5. \A op, x : LiveAhead(op, x)' => LiveAhead(op, x)
  BY <1>2 DEF LiveAhead
<1>6. LiveAhead(j[1], j[2])
  BY <1>2, <1>4 DEF LiveAhead
<1>7. j[1] = "reserve" => LiveAhead("create", j[2])
  <2> SUFFICES ASSUME j[1] = "reserve" PROVE LiveAhead("create", j[2])
    OBVIOUS
  <2>1. Tail(todo[LiveBot]) # <<>> /\ Head(Tail(todo[LiveBot])) = <<"create", j[2]>>
    BY <1>1, <1>2, NextJob
  <2>2. /\ Tail(todo[LiveBot]) \in Seq(Job) /\ Orderly(LiveBot, Tail(todo[LiveBot]))
    BY <1>1, <1>2, Rest
  <2>3. <<"create", j[2]>> \in AllOf(Tail(todo[LiveBot]))
    BY <1>1, <2>1, <2>2, AllRest
  <2> QED
    BY <1>2, <2>3 DEF LiveAhead
<1>8. Orphans' \subseteq Reserved' \ Known'
  <2>1. Load("live")' = "OK" => disk'["live"] # None
    BY DEF Load
  <2> QED
    BY <2>1 DEF Orphans, Reserved
<1> HIDE DEF j
<1>9. CASE j[1] = "create"
  <2>1. Reserved' \subseteq Known'
    BY <1>3, <1>6, <1>9 DEF TradingIsClean
  <2> QED
    BY <1>3, <1>5, <1>8, <1>9, <2>1 DEF TradingIsClean
<1>10. CASE j[1] = "close"
  <2>1. Known' = Known /\ Reserved' = Reserved
    BY <1>3, <1>6, <1>10 DEF TradingIsClean
  <2> QED
    BY <1>5, <2>1, TradingFrame
<1>11. CASE j[1] = "reserve"
  <2>1. Known' = Known /\ Reserved' = Reserved \cup {j[2]} /\ LiveAhead("create", j[2])
        /\ LiveAhead("reserve", j[2])
    BY <1>3, <1>6, <1>7, <1>11
  <2>2. \A o : LiveAhead("create", o) => o = j[2]
    BY <2>1 DEF TradingIsClean
  <2> QED
    BY <1>5, <2>1, <2>2 DEF TradingIsClean
<1>12. CASE j[1] = "seed"
  <2>1. Known' = Known /\ Reserved' = {}
    BY <1>3, <1>12
  <2> QED
    BY <1>5, <2>1 DEF TradingIsClean
<1>13. CASE j[1] \in {"release", "account", "mark"}
  BY <1>3, <1>5, <1>13, TradingFrame
<1> QED
  BY <1>3, <1>9, <1>10, <1>11, <1>12, <1>13

\* A new list of the live engine.
LEMMA TradingGiven ==
    ASSUME FilesBase, TradingIsClean, UNCHANGED disk, NEW q, todo' = [todo EXCEPT ![LiveBot] = q],
           \A o : <<"create", o>> \in AllOf(q) => Reserved \subseteq Known,
           \A o, x : <<"create", o>> \in AllOf(q) /\ <<"create", x>> \in AllOf(q) => o = x,
           \A o : <<"close", o>> \in AllOf(q) => o \in Known,
           <<"go", None>> \in AllOf(q) \/ <<"load", "live">> \in AllOf(q) =>
              Reserved \subseteq Known /\ \A o : <<"reserve", o>> \notin AllOf(q)
    PROVE  TradingIsClean' /\ Known' = Known
<1>1. todo'[LiveBot] = q
  BY DEF FilesBase, FilesTypeOK, Bot
<1>2. Reserved' = Reserved /\ Known' = Known
  BY DEF Reserved, Known, Ledger
<1>3. \A op, x : LiveAhead(op, x)' <=> <<op, x>> \in AllOf(q)
  BY <1>1 DEF LiveAhead
<1> QED
  BY <1>2, <1>3 DEF TradingIsClean

\* What OrphansStopTrading says of one step.
StopsTrading ==
    /\ LiveBot \in on' \ on => Orphans' = {}
    /\ LiveBot \in on /\ Known' # Known => Orphans' = {}

\* Every step keeps what a submission rests on, and none starts or trades on an orphan.
LEMMA TradingStep ==
    ASSUME FilesBase, TradingIsClean, [FilesNext]_allVars
    PROVE  TradingIsClean' /\ StopsTrading
<1>1. /\ LiveBot \in Bot /\ PaperBot \in Bot /\ PaperBot # LiveBot /\ todo \in [Bot -> Seq(Job)]
  BY Bots DEF FilesBase, FilesTypeOK, Bot
<1>2. CASE Rename(PaperBot)
  <2>1. Reserved' = Reserved /\ Known' = Known /\ todo'[LiveBot] = todo[LiveBot] /\ on' = on
    BY <1>2, PaperRename
  <2> QED
    BY <2>1, TradingFrame DEF LiveAhead, StopsTrading
<1>3. CASE LiveQuiet
  <2>1. /\ Reserved' = Reserved /\ Known' = Known /\ todo'[LiveBot] = todo[LiveBot]
        /\ LiveBot \notin on' \ on
    BY <1>3 DEF LiveQuiet, Reserved, Known, Ledger
  <2> QED
    BY <2>1, TradingFrame DEF LiveAhead, StopsTrading
<1>4. CASE LiveShorter
  <2>1. Reserved' = Reserved /\ Known' = Known
    BY <1>4 DEF LiveShorter, Reserved, Known, Ledger
  <2>2. TradingIsClean'
    BY <1>4, <2>1, TradingFrame DEF LiveShorter
  <2>3. ASSUME LiveBot \in on' \ on PROVE Orphans' = {}
    <3>1. Reserved' \subseteq Known'
      BY <1>4, <2>1, <2>3 DEF LiveShorter, TradingIsClean
    <3>2. Load("live")' = "OK" => disk'["live"] # None
      BY DEF Load
    <3> QED
      BY <3>1, <3>2 DEF Orphans, Reserved
  <2> QED
    BY <2>1, <2>2, <2>3 DEF StopsTrading
<1>5. CASE StartLive
  <2> DEFINE q == <<<<"load", "live">>>>
  <2>1. UNCHANGED <<disk, on>> /\ ~LiveRefused /\ todo' = [todo EXCEPT ![LiveBot] = q]
    BY <1>5 DEF StartLive, Then
  <2>2. AllOf(q) = {<<"load", "live">>}
    BY LiveListJobs
  <2> HIDE DEF q
  <2>3. \A op, x : <<op, x>> \in AllOf(q) => op = "load"
    BY <2>2
  <2>4. Reserved \subseteq Known
    BY <2>1, StartKnows
  <2>5. TradingIsClean' /\ Known' = Known
    BY <2>1, <2>3, <2>4, TradingGiven
  <2> QED
    BY <2>1, <2>5 DEF StopsTrading
<1>6. CASE LoadLive
  <2>1. /\ todo[LiveBot] # <<>> /\ Head(todo[LiveBot])[1] = "load" /\ UNCHANGED <<disk, on>>
        /\ \E q \in {<<>>, <<GoJob>>, FirstRun("live")} : todo' = [todo EXCEPT ![LiveBot] = q]
    BY <1>6, LiveLoads
  <2>2. LiveAhead("load", "live")
    BY <1>1, <2>1, AheadRest, GoesAlone DEF LiveAhead
  <2>3. Reserved \subseteq Known
    BY <2>2 DEF TradingIsClean
  <2>4. PICK q \in {<<>>, <<GoJob>>, FirstRun("live")} : todo' = [todo EXCEPT ![LiveBot] = q]
    BY <2>1
  <2>5. \A op, x : <<op, x>> \in AllOf(q) => op \in {"lock", "seed", "unlock", "mark", "go"}
    <3>1. AllOf(<<GoJob>>) = {GoJob}
          /\ AllOf(FirstRun("live")) = {LockJob, <<"seed", "live">>, UnlockJob, <<"mark", "live">>, GoJob}
      BY LiveListJobs
    <3>2. AllOf(q) \subseteq {LockJob, <<"seed", "live">>, UnlockJob, <<"mark", "live">>, GoJob}
      BY <2>4, <3>1, AllOfFew
    <3> QED
      BY <3>2 DEF GoJob, LockJob, UnlockJob
  <2>6. TradingIsClean' /\ Known' = Known
    <3>1. \A o : <<"create", o>> \notin AllOf(q) /\ <<"close", o>> \notin AllOf(q)
                /\ <<"reserve", o>> \notin AllOf(q)
      BY <2>5
    <3> QED
      BY <2>1, <2>3, <2>4, <3>1, TradingGiven
  <2> QED
    BY <2>1, <2>6 DEF StopsTrading
<1>7. ASSUME NEW o \in Order, Submit(o) PROVE TradingIsClean' /\ StopsTrading
  <2> DEFINE q == SubmitJobs(o)
  <2>1. /\ UNCHANGED <<disk, on>> /\ MaySubmit /\ disk["live"] # None
        /\ todo' = [todo EXCEPT ![LiveBot] = q]
    BY <1>7 DEF Submit, Then
  <2>2. Reserved \subseteq Known
    BY <2>1, StartKnows
  <2>3. AllOf(q) = {LockJob, <<"reserve", o>>, <<"create", o>>, UnlockJob}
    BY LiveListJobs
  <2> HIDE DEF q
  <2>4. \A op, x : <<op, x>> \in AllOf(q) =>
           op \in {"lock", "reserve", "create", "unlock"} /\ (op = "create" => x = o)
    BY <2>3 DEF LockJob, UnlockJob
  <2>5. TradingIsClean' /\ Known' = Known
    <3>1. /\ \A x : <<"close", x>> \notin AllOf(q)
          /\ <<"go", None>> \notin AllOf(q) /\ <<"load", "live">> \notin AllOf(q)
          /\ \A x : <<"create", x>> \in AllOf(q) => x = o
      BY <2>4
    <3> QED
      BY <2>1, <2>2, <3>1, TradingGiven
  <2> QED
    BY <2>1, <2>5 DEF StopsTrading
<1>8. ASSUME NEW o \in Order, Account(o) PROVE TradingIsClean' /\ StopsTrading
  <2> DEFINE q == Section(<<<<"account", o>>, <<"close", o>>>>)
  <2>1. UNCHANGED <<disk, on>> /\ Ledger[o] = "open" /\ todo' = [todo EXCEPT ![LiveBot] = q]
    BY <1>8 DEF Account, Then
  <2>2. o \in Known
    BY <2>1 DEF Known
  <2>3. AllOf(q) = {LockJob, <<"account", o>>, <<"close", o>>, UnlockJob}
    BY LiveListJobs
  <2> HIDE DEF q
  <2>4. \A op, x : <<op, x>> \in AllOf(q) =>
           op \in {"lock", "account", "close", "unlock"} /\ (op = "close" => x = o)
    BY <2>3 DEF LockJob, UnlockJob
  <2>5. TradingIsClean' /\ Known' = Known
    <3>1. /\ \A x : <<"create", x>> \notin AllOf(q)
          /\ <<"go", None>> \notin AllOf(q) /\ <<"load", "live">> \notin AllOf(q)
          /\ \A x : <<"close", x>> \in AllOf(q) => x = o
      BY <2>4
    <3> QED
      BY <2>1, <2>2, <3>1, TradingGiven
  <2> QED
    BY <2>1, <2>5 DEF StopsTrading
<1>9. ASSUME Restore \/ \E f \in File : Lose(f) PROVE TradingIsClean' /\ StopsTrading
  <2>1. todo'[LiveBot] = <<>> /\ on = {} /\ on' = on
    BY <1>1, <1>9 DEF Restore, Lose, Idle
  <2>2. \A op, x : ~LiveAhead(op, x)'
    BY <2>1, AllOfFew DEF LiveAhead
  <2> QED
    BY <2>1, <2>2 DEF TradingIsClean, StopsTrading
<1>10. CASE Rename(LiveBot)
  <2>1. on' = on
    BY <1>10 DEF Rename
  <2> QED
    BY <1>10, <2>1, TradingWrites DEF StopsTrading
<1> HIDE DEF FilesBase, TradingIsClean, StopsTrading
<1> QED
  BY <1>2, <1>3, <1>4, <1>5, <1>6, <1>7, <1>8, <1>9, <1>10, LiveMoves

LEMMA LiveInitOK == FilesInit => OrdersAreKept /\ TradingIsClean
<1> SUFFICES ASSUME FilesInit PROVE OrdersAreKept /\ TradingIsClean
  OBVIOUS
<1>1. /\ saved.orders = {} /\ disk["orders"] = None /\ disk["live"] = None
      /\ LiveBot \notin on /\ todo[LiveBot] = <<>>
  BY DEF FilesInit, File, Bot
<1>2. \A op, x : ~LiveAhead(op, x) /\ ~Creating(x)
  BY <1>1, AllOfFew DEF LiveAhead, Creating
<1>3. Known = {}
  BY <1>1 DEF Known, Ledger
<1>4. LiveRests
  BY <1>1 DEF LiveRests, Idle
<1> QED
  BY <1>1, <1>2, <1>3, <1>4 DEF OrdersAreKept, TradingIsClean

\* After one incident, whenever the live engine is up its ledger knows every order that was
\* ever saved to it: assertLiveRealmRecoverable refuses the start that would forget one.
THEOREM OrdersStayKnown ==
    ASSUME MaxIncidents <= 1 PROVE FilesSpec => []OrdersAreRemembered
<1>1. FilesInit => FilesBase /\ OrdersAreKept
  BY FilesInitOK, LiveInitOK
<1>2. (FilesBase /\ OrdersAreKept) /\ [FilesNext]_allVars => (FilesBase /\ OrdersAreKept)'
  BY FilesBaseStep, OrdersStep
<1>3. FilesBase /\ OrdersAreKept => OrdersAreRemembered
  BY DEF OrdersAreKept, OrdersAreRemembered, LiveRests
<1> QED
  BY <1>1, <1>2, <1>3, PTL DEF FilesSpec

\* However many files are lost and snapshots restored, whatever save fails and whoever
\* crashes: the live engine does not start on a reservation without its order, and records
\* no order beside one.
THEOREM OrphansAlwaysStopTrading == FilesSpec => OrphansStopTrading
<1>1. FilesInit => FilesBase /\ TradingIsClean
  BY FilesInitOK, LiveInitOK
<1>2. ASSUME FilesBase, TradingIsClean, [FilesNext]_allVars
      PROVE  FilesBase' /\ TradingIsClean' /\ [StopsTrading]_allVars
  BY <1>2, FilesBaseStep, TradingStep
<1> QED
  BY <1>1, <1>2, PTL DEF FilesSpec, OrphansStopTrading, StopsTrading
=============================================================================
