----------------------------- MODULE StateFiles -----------------------------
(****************************************************************************)
(* The durable files of a state directory: how each is written (envelope.ts *)
(* and the stores), how the two bots start from them (migration.ts,         *)
(* loadPortfolio, loadLiveManagedPortfolio), what recovery.ts accepts, and  *)
(* what the operator's tools do to them (backup, restore).                  *)
(*                                                                          *)
(* A write is two steps, a temporary file and a rename, inside the mutation *)
(* lock of module StateLock; a crash may come between any two steps, and    *)
(* either may throw.  Each bot runs a list of jobs, todo[t]: taking the     *)
(* lock, writes, releasing the lock, loading.  The paper book is the number *)
(* of trades it holds, the live book the orders it reserved for, whether or *)
(* not it released them since, and those it accounted, the ledger the       *)
(* status of each order, the marker the realms it names.                    *)
(*                                                                          *)
(* Manual intents are left to module ManualTrades; a file that reads as     *)
(* CORRUPT is one with a temporary file beside it (torn).                   *)
(****************************************************************************)
EXTENDS StateLock, Naturals, FiniteSets, Sequences

CONSTANTS
    PaperBot, LiveBot,   \* the task of the paper engine and of the live engine
    Order,               \* the BUY orders of the live engine
    OldOrder,            \* the order the pre-envelope files record
    Legacy,              \* the files that exist in the pre-envelope layout
    Garbled,             \* those of them that cannot be read
    None,                \* an absent file
    MaxTrades,           \* bound on the paper trades
    MaxIncidents         \* bound on the files lost and the snapshots restored

\* The two engines are commands of their own, hence processes of their own.
ASSUME FilesAssumption ==
    /\ {PaperBot, LiveBot} \subseteq Task
    /\ ProcOf[PaperBot] # ProcOf[LiveBot]
    /\ OldOrder \notin Order
    /\ Legacy \subseteq {"paper", "live", "orders"}
    /\ Garbled \subseteq Legacy
    /\ MaxTrades \in Nat /\ MaxIncidents \in Nat

VARIABLES
    disk,      \* what each file holds
    torn,      \* the files with a temporary file beside them
    legacy,    \* the pre-envelope files still in place
    snap,      \* the snapshot being taken: what each copied file holds
    todo,      \* per task: the jobs it still has to do
    pend,      \* per task: what the temporary file it wrote holds, if it wrote one
    on,        \* the tasks that have started up
    mem,       \* the paper engine's book in memory
    incidents, \* files lost and snapshots restored so far
    saved      \* history: what completed saves recorded since the last restore

fileVars == <<disk, torn, legacy, snap, todo, pend, on, mem, incidents, saved>>
allVars  == <<lockVars, fileVars>>

File  == {"paper", "live", "orders", "marker"}
Realm == {"paper", "live"}
LiveBook == [resv : SUBSET Order, done : SUBSET (Order \cup {OldOrder})]
Status   == {"none", "open", "closed"}
Content(f) ==
    CASE f = "paper"  -> 0 .. MaxTrades
      [] f = "live"   -> LiveBook
      [] f = "orders" -> [Order -> Status]
      [] f = "marker" -> SUBSET Realm

ASSUME NoneAssumption == \A f \in File : \A c \in Content(f) : c # None

Writes ==
    {"migrate", "seed", "mark", "trade", "reserve", "release", "create", "account", "close"}
Job    == (Writes \cup {"lock", "unlock", "load", "retire", "go"})
             \X (File \cup Order \cup {None})

FilesTypeOK ==
    /\ LockTypeOK
    /\ DOMAIN disk = File /\ \A f \in File : disk[f] \in Content(f) \cup {None}
    /\ torn \subseteq File
    /\ legacy \subseteq Legacy
    /\ DOMAIN snap \subseteq File
    /\ \A f \in DOMAIN snap : snap[f] \in Content(f) \cup {None}
    /\ todo \in [{PaperBot, LiveBot} -> Seq(Job)]
    /\ DOMAIN pend = {PaperBot, LiveBot}
    /\ on \subseteq {PaperBot, LiveBot}
    /\ mem \in 0 .. MaxTrades
    /\ incidents \in 0 .. MaxIncidents
    /\ saved \in [trades : 0 .. MaxTrades, fills : SUBSET (Order \cup {OldOrder}), orders : SUBSET Order]

----------------------------------------------------------------------------
(* Reading *)

\* readEnvelope and the stores' load.
Load(f) == CASE f \in torn -> "CORRUPT"
             [] f \notin torn /\ disk[f] = None -> "MISSING"
             [] OTHER -> "OK"

\* isInitialized.
Marked(r) == Load("marker") = "OK" /\ r \in disk["marker"]

\* The ledger of a save; the orders it knows.
Ledger == IF disk["orders"] = None THEN [o \in Order |-> "none"] ELSE disk["orders"]
Known  == {o \in Order : Ledger[o] # "none"}

\* recoverState answers HALTED: a file is CORRUPT, or the book of a marked realm is
\* missing.  A missing ledger is taken for an empty one.
Halts ==
    \/ \E f \in File : Load(f) = "CORRUPT"
    \/ \E r \in Realm : Load(r) = "MISSING" /\ Marked(r)

\* crossFileIssues: reservations, active or released, whose order nobody knows.
Orphans == IF Load("live") = "OK" THEN disk["live"].resv \ Known ELSE {}

\* assertLiveRealmRecoverable throws.
LiveRefused == Halts \/ Orphans # {}

\* Wrong: the marker is not asked.
WrongPaperBookRefused == "CORRUPT" \in {Load("paper"), Load("marker")}

\* loadPortfolio of the paper engine throws at the book it finds after the migration.
PaperBookRefused ==
    \/ "CORRUPT" \in {Load("paper"), Load("marker")}
    \/ Load("paper") = "MISSING" /\ Marked("paper")

\* Wrong: the owners of the reservations are not looked for.
WrongMaySubmit ==
    /\ "CORRUPT" \notin {Load("orders"), Load("live")}
    /\ \A o \in Order : Ledger[o] # "open"

\* What stops the engine before the section of a submission: a ledger or a book it cannot
\* read (captureSnapshot), an order not settled, a reservation without its order
\* (crossDomainValidation, through livePreTradeGate).
MaySubmit ==
    /\ "CORRUPT" \notin {Load("orders"), Load("live")}
    /\ \A o \in Order : Ledger[o] # "open"
    /\ Orphans = {}

----------------------------------------------------------------------------
(* Jobs *)

Bot == {PaperBot, LiveBot}
Idle(t) == todo[t] = <<>>
Doing(t, op) == ~Idle(t) /\ Head(todo[t])[1] = op
Drop(t) == todo' = [todo EXCEPT ![t] = Tail(@)]
Then(t, jobs) == todo' = [todo EXCEPT ![t] = jobs]

\* One synchronous save: the whole call holds the lock.
Section(jobs) == <<<<"lock", None>>>> \o jobs \o <<<<"unlock", None>>>>

\* Wrong: the realm is marked before its book is there.
WrongFirstRun(r) ==
    Section(<<<<"mark", r>>>>) \o Section(<<<<"seed", r>>>>) \o <<<<"go", None>>>>

\* First run of a realm: save the seed, then mark the realm, each under the lock.
FirstRun(r) ==
    Section(<<<<"seed", r>>>>) \o Section(<<<<"mark", r>>>>) \o <<<<"go", None>>>>

FileOf(job) ==
    CASE job[1] \in {"migrate", "seed"}     -> job[2]
      [] job[1] = "mark"                    -> "marker"
      [] job[1] = "trade"                   -> "paper"
      [] job[1] \in {"reserve", "release", "account"} -> "live"
      [] job[1] \in {"create", "close"}     -> "orders"

SeedBook(r) == IF r = "paper" THEN 0 ELSE [resv |-> {}, done |-> {}]

LegacyBook(f) ==
    CASE f = "paper"  -> 0
      [] f = "live"   -> [resv |-> {}, done |-> {OldOrder}]
      [] f = "orders" -> [o \in Order |-> "none"]

\* Wrong: a ledger is written from what this save knows alone.
WrongNewContent(job) ==
    CASE job[1] = "migrate" -> LegacyBook(job[2])
      [] job[1] = "seed"    -> SeedBook(job[2])
      [] job[1] = "mark"    -> {job[2]}
      [] job[1] = "trade"   -> mem
      [] job[1] = "reserve" -> [disk["live"] EXCEPT !.resv = @ \cup {job[2]}]
      [] job[1] = "release" -> disk["live"]
      [] job[1] = "account" -> [disk["live"] EXCEPT !.done = @ \cup {job[2]}]
      [] job[1] = "create"  -> [Ledger EXCEPT ![job[2]] = "open"]
      [] job[1] = "close"   -> [Ledger EXCEPT ![job[2]] = "none"]

\* What the write puts in the file, from what is there when the lock is held.  A
\* reservation given back stays in the book, marked RELEASED (releaseOrderReservation).
NewContent(job) ==
    CASE job[1] = "migrate" -> LegacyBook(job[2])
      [] job[1] = "seed"    -> SeedBook(job[2])
      [] job[1] = "mark"    -> {job[2]} \cup (IF disk["marker"] = None THEN {} ELSE disk["marker"])
      [] job[1] = "trade"   -> mem
      [] job[1] = "reserve" -> [disk["live"] EXCEPT !.resv = @ \cup {job[2]}]
      [] job[1] = "release" -> disk["live"]
      [] job[1] = "account" -> [disk["live"] EXCEPT !.done = @ \cup {job[2]}]
      [] job[1] = "create"  -> [Ledger EXCEPT ![job[2]] = "open"]
      [] job[1] = "close"   -> [Ledger EXCEPT ![job[2]] = "closed"]

\* The stores that read before they write refuse a CORRUPT file; those that save a
\* book from memory do not look.  An old file that cannot be read is not migrated.
Writable(job) ==
    CASE job[1] \in {"create", "close"}    -> Load("orders") # "CORRUPT"
      [] job[1] = "mark"                   -> Load("marker") # "CORRUPT"
      [] job[1] \in {"reserve", "release", "account"} -> Load("live") = "OK"
      [] job[1] = "migrate"                -> job[2] \notin Garbled
      [] OTHER -> TRUE

\* What is left of a section whose save throws: submit gives back what it reserved, then
\* as everywhere the lock is released, and the call ends with the error.
AfterFailure(job) ==
    IF job[1] \in {"reserve", "create"}
    THEN <<<<"release", job[2]>>, <<"unlock", None>>>>
    ELSE <<<<"unlock", None>>>>

\* What the completed write adds to the history; a migration starts it anew.
Recorded(job, content) ==
    LET f == FileOf(job) IN
    [saved EXCEPT
        !.trades = CASE job[1] = "trade" -> content
                     [] job = <<"migrate", "paper">> -> 0
                     [] OTHER -> @,
        !.fills  = IF f = "live" THEN @ \cup content.done ELSE @,
        !.orders = IF f = "orders" THEN @ \cup {o \in Order : content[o] # "none"} ELSE @]

----------------------------------------------------------------------------
(* Steps of a bot *)

FilesInit ==
    /\ LockInit
    /\ disk = [f \in File |-> None]
    /\ torn = {}
    /\ legacy = Legacy
    /\ snap = [f \in {} |-> None]
    /\ todo = [t \in Bot |-> <<>>]
    /\ pend = [t \in Bot |-> <<>>]
    /\ on = {}
    /\ mem = 0
    /\ incidents = 0
    /\ saved = [trades |-> 0, fills |-> {}, orders |-> {}]

\* migrateLegacyState: each old file that exists, in one section.
MigrateOne(f) == IF f \in legacy THEN <<<<"migrate", f>>, <<"retire", f>>>> ELSE <<>>
MigrationJobs ==
    Section(MigrateOne("paper") \o MigrateOne("live") \o MigrateOne("orders"))

\* buildEngineDeps: migrate the legacy files, then load.
StartPaper ==
    /\ ProcOf[PaperBot] \in up
    /\ Idle(PaperBot) /\ PaperBot \notin on
    /\ Then(PaperBot, MigrationJobs \o <<<<"load", "paper">>>>)
    /\ UNCHANGED <<lockVars, disk, torn, legacy, snap, pend, on, mem, incidents, saved>>

\* buildLiveEngine, the commands of the live realm: check, then load.  Nothing is
\* migrated.
StartLive ==
    /\ ProcOf[LiveBot] \in up
    /\ Idle(LiveBot) /\ LiveBot \notin on
    /\ ~LiveRefused
    /\ Then(LiveBot, <<<<"load", "live">>>>)
    /\ UNCHANGED <<lockVars, disk, torn, legacy, snap, pend, on, mem, incidents, saved>>

\* loadPortfolio (paper): a book without its mark is marked, a marked realm without
\* a book is refused, and only an unmarked one is seeded.
LoadPaper ==
    /\ Doing(PaperBot, "load")
    /\ CASE PaperBookRefused        -> Then(PaperBot, <<>>)
         [] ~PaperBookRefused /\ disk["paper"] = None -> Then(PaperBot, FirstRun("paper"))
         [] OTHER -> Then(PaperBot, (IF Marked("paper") THEN <<>>
                                     ELSE Section(<<<<"mark", "paper">>>>)) \o <<<<"go", None>>>>)
    /\ mem' = IF disk["paper"] = None THEN 0 ELSE disk["paper"]
    /\ UNCHANGED <<lockVars, disk, torn, legacy, snap, pend, on, incidents, saved>>

\* loadLiveManagedPortfolio: as above, but a book without its mark stays unmarked.
LoadLive ==
    /\ Doing(LiveBot, "load")
    /\ CASE \/ Load("live") = "CORRUPT"
            \/ Load("live") = "MISSING" /\ (Load("marker") = "CORRUPT" \/ Marked("live"))
                                   -> Then(LiveBot, <<>>)
         [] Load("live") = "OK"    -> Then(LiveBot, <<<<"go", None>>>>)
         [] OTHER -> Then(LiveBot, FirstRun("live"))
    /\ UNCHANGED <<lockVars, disk, torn, legacy, snap, pend, on, mem, incidents, saved>>

Go(t) ==
    /\ Doing(t, "go")
    /\ on' = on \cup {t}
    /\ Drop(t)
    /\ UNCHANGED <<lockVars, disk, torn, legacy, snap, pend, mem, incidents, saved>>

\* A paper fill: the book changes in memory and is then persisted.
Trade ==
    /\ PaperBot \in on /\ Idle(PaperBot) /\ mem < MaxTrades
    /\ mem' = mem + 1
    /\ Then(PaperBot, Section(<<<<"trade", None>>>>))
    /\ UNCHANGED <<lockVars, disk, torn, legacy, snap, pend, on, incidents, saved>>

\* submit: the reservation and CREATED in one section.  When either save throws, see
\* AfterFailure.
SubmitJobs(o) == Section(<<<<"reserve", o>>, <<"create", o>>>>)

\* placeOrder for a new order id.
Submit(o) ==
    /\ LiveBot \in on /\ Idle(LiveBot)
    /\ MaySubmit
    /\ o \notin Known /\ disk["live"] # None /\ o \notin disk["live"].resv
    /\ Then(LiveBot, SubmitJobs(o))
    /\ UNCHANGED <<lockVars, disk, torn, legacy, snap, pend, on, mem, incidents, saved>>

\* commitProven for a filled order: the book, then the ledger.
Account(o) ==
    /\ LiveBot \in on /\ Idle(LiveBot)
    /\ Ledger[o] = "open" /\ disk["live"] # None /\ o \in disk["live"].resv
    /\ Then(LiveBot, Section(<<<<"account", o>>, <<"close", o>>>>))
    /\ UNCHANGED <<lockVars, disk, torn, legacy, snap, pend, on, mem, incidents, saved>>

Stop(t) ==
    /\ t \in on /\ Idle(t)
    /\ on' = on \ {t}
    /\ mem' = IF t = PaperBot THEN 0 ELSE mem
    /\ UNCHANGED <<lockVars, disk, torn, legacy, snap, todo, pend, incidents, saved>>

Acquire(t) ==
    /\ Doing(t, "lock")
    /\ Enter(t)
    /\ Drop(t)
    /\ UNCHANGED <<disk, torn, legacy, snap, pend, on, mem, incidents, saved>>

\* StateLockedError, or a lock file that could not be completed: the call throws.
LockFails(t) ==
    /\ Doing(t, "lock")
    /\ \/ ~CanMutate(ProcOf[t]) /\ UNCHANGED lockVars
       \/ EnterFailsMidway(t)
    /\ Then(t, <<>>)
    /\ UNCHANGED <<disk, torn, legacy, snap, pend, on, mem, incidents, saved>>

Release(t) ==
    /\ Doing(t, "unlock")
    /\ Leave(t)
    /\ Drop(t)
    /\ UNCHANGED <<disk, torn, legacy, snap, pend, on, mem, incidents, saved>>

\* writeFileSync of the temporary file.
WriteTmp(t) ==
    /\ ~Idle(t) /\ pend[t] = <<>>
    /\ LET job == Head(todo[t]) f == FileOf(job) IN
       /\ job[1] \in Writes
       /\ job[1] = "migrate" => disk[f] = None
       /\ Writable(job)
       /\ pend' = [pend EXCEPT ![t] = <<NewContent(job)>>]
       /\ torn' = torn \cup {f}
    /\ UNCHANGED <<lockVars, disk, legacy, snap, todo, on, mem, incidents, saved>>

\* renameSync: the file is whole again and holds the new content.
Rename(t) ==
    /\ pend[t] # <<>>
    /\ LET f == FileOf(Head(todo[t])) IN
       /\ disk' = [disk EXCEPT ![f] = pend[t][1]]
       /\ torn' = torn \ {f}
       /\ saved' = Recorded(Head(todo[t]), pend[t][1])
    /\ pend' = [pend EXCEPT ![t] = <<>>]
    /\ Drop(t)
    /\ UNCHANGED <<lockVars, legacy, snap, on, mem, incidents>>

\* migrateOne when the new file exists.
Skip(t) ==
    /\ Doing(t, "migrate") /\ pend[t] = <<>>
    /\ disk[Head(todo[t])[2]] # None
    /\ todo' = [todo EXCEPT ![t] = Tail(Tail(@))]
    /\ UNCHANGED <<lockVars, disk, torn, legacy, snap, pend, on, mem, incidents, saved>>

\* The old file is renamed to .legacy; a failure to do so is ignored.
Retire(t) ==
    /\ Doing(t, "retire")
    /\ legacy' \in {legacy, legacy \ {Head(todo[t])[2]}}
    /\ Drop(t)
    /\ UNCHANGED <<lockVars, disk, torn, snap, pend, on, mem, incidents, saved>>

\* A save throws: it refuses what it reads or the disk fails before a temporary file is
\* there, or after, the file half written or not renamed.
Fail(t) ==
    /\ ~Idle(t)
    /\ LET job == Head(todo[t]) IN
       /\ job[1] \in Writes
       /\ job[1] = "migrate" => disk[FileOf(job)] = None
       /\ Then(t, AfterFailure(job))
    /\ pend' = [pend EXCEPT ![t] = <<>>]
    /\ UNCHANGED <<lockVars, disk, torn, legacy, snap, on, mem, incidents, saved>>

----------------------------------------------------------------------------
(* The environment: crashes, the operator and his tools *)

Die(t) ==
    /\ ~Idle(t)
    /\ Crash(ProcOf[t])
    /\ Then(t, <<>>)
    /\ pend' = [pend EXCEPT ![t] = <<>>]
    /\ on' = on \ {t}
    /\ mem' = IF t = PaperBot THEN 0 ELSE mem
    /\ UNCHANGED <<disk, torn, legacy, snap, incidents, saved>>

Reboot(t) == Restart(ProcOf[t]) /\ UNCHANGED fileVars

RemoveLock == OperatorRemove /\ UNCHANGED fileVars

\* The operator deletes a leftover temporary file, with nothing running.
RemoveTmp(f) ==
    /\ f \in torn /\ lockFile = NoProcess
    /\ torn' = torn \ {f}
    /\ UNCHANGED <<lockVars, disk, legacy, snap, todo, pend, on, mem, incidents, saved>>

\* A file disappears between two runs.
Lose(f) ==
    /\ incidents < MaxIncidents /\ on = {} /\ \A t \in Bot : Idle(t)
    /\ disk[f] # None
    /\ disk' = [disk EXCEPT ![f] = None]
    /\ incidents' = incidents + 1
    /\ UNCHANGED <<lockVars, torn, legacy, snap, todo, pend, on, mem, saved>>

\* What backupState may copy at one instant: one file first, or all that are left.
Portions == (IF DOMAIN snap = {} THEN {{f} : f \in File} ELSE {}) \cup {File \ DOMAIN snap}

\* backupState copies one file after the other, without the lock: the snapshot is
\* taken apart at two instants, one file first and the others later.
Backup(F) ==
    /\ DOMAIN snap # File /\ incidents < MaxIncidents
    /\ snap' = [g \in DOMAIN snap \cup F |-> IF g \in F THEN disk[g] ELSE snap[g]]
    /\ UNCHANGED <<lockVars, disk, torn, legacy, todo, pend, on, mem, incidents, saved>>

\* The documented restore: with everything stopped and no lock file, the files of the
\* snapshot are copied over those of the directory.
Restore ==
    /\ DOMAIN snap = File /\ incidents < MaxIncidents
    /\ incidents' = incidents + 1
    /\ lockFile = NoProcess /\ on = {} /\ \A t \in Bot : Idle(t)
    /\ disk' = [f \in File |-> IF snap[f] = None THEN disk[f] ELSE snap[f]]
    /\ snap' = [f \in {} |-> None]
    /\ saved' = [saved EXCEPT
          !.trades = IF snap["paper"] = None THEN 0 ELSE snap["paper"],
          !.fills  = IF snap["live"] = None THEN {} ELSE snap["live"].done,
          !.orders = {}]
    /\ UNCHANGED <<lockVars, torn, legacy, todo, pend, on, mem>>

FilesNext ==
    \/ StartPaper \/ StartLive \/ LoadPaper \/ LoadLive \/ Trade
    \/ \E o \in Order : Submit(o) \/ Account(o)
    \/ \E t \in Bot : \/ Go(t) \/ Stop(t) \/ Acquire(t) \/ LockFails(t) \/ Release(t)
                      \/ WriteTmp(t) \/ Rename(t) \/ Skip(t) \/ Retire(t) \/ Fail(t)
                      \/ Die(t) \/ Reboot(t)
    \/ RemoveLock \/ Restore
    \/ \E f \in File : RemoveTmp(f) \/ Lose(f)
    \/ \E F \in Portions : Backup(F)

FilesSpec == FilesInit /\ [][FilesNext]_allVars

----------------------------------------------------------------------------
(* Properties *)

\* A reservation without its order - left by a crash between the two writes of a
\* submission or by a save of CREATED that failed, by a torn backup or by a lost ledger -
\* stops the trading: the engine does not start on one (recoverState), and where one
\* appears while it runs it records no further order (livePreTradeGate).
OrphansStopTrading ==
    [][/\ LiveBot \in on' \ on => Orphans' = {}
       /\ LiveBot \in on /\ Known' # Known => Orphans' = {}]_allVars

\* An order the live engine recorded is still in its ledger whenever it runs: a BUY's
\* reservation, kept after its release, betrays a ledger that lost it.
OrdersAreRemembered == LiveBot \in on => saved.orders \subseteq Known

\* The paper book on disk is absent or holds every trade saved since the last
\* migration or restore: the lost book of a realm that has run is never replaced by a
\* seed (loadPortfolio).
PaperLossIsDetected == disk["paper"] # None => disk["paper"] >= saved.trades

\* The same of the live book, as init.ts states it of both realms.
LiveLossIsDetected == disk["live"] # None => saved.fills \subseteq disk["live"].done

\* Without a loss there is no alarm of one: as long as no file was lost or restored, a
\* marked realm has its book, through every crash and failed save of its first run, so
\* that neither recoverState nor loadPortfolio reports an unexpected state loss.
NoFalseAlarm == incidents = 0 => \A r \in Realm : Marked(r) => disk[r] # None
=============================================================================
