------------------------- MODULE LivePlacementProofs -------------------------
(****************************************************************************)
(* What entitles an order to leave for the exchange, for any two processes, *)
(* any amounts, caps and limits and any number of orders, sessions and      *)
(* authorizations.                                                          *)
(*                                                                          *)
(* The argument.  The lock serializes the submission sections, so the order *)
(* being sent, its record and the capability it goes under belong to one    *)
(* task.  A capability is consumed in the step that authorizes an order:    *)
(* an authorization that is still there has no live order, and a session    *)
(* has always been charged for what lives under it (BudgetCharged), though  *)
(* the order may reach the exchange much later, or never.                   *)
(****************************************************************************)
EXTENDS LivePlacement, StateLockProofs, Sums

USE ProcessesAssumption

----------------------------------------------------------------------------
(* Values *)

LEMMA CostNat ==
    ASSUME NEW a \in Nat, NEW b \in Nat PROVE a * b \in Nat
  OBVIOUS

\* What a task at each step of its work carries.
LEMMA JobFields ==
    ASSUME NEW j \in Job
    PROVE  /\ j.pc \in {"idle", "reconciling", "prompt", "validating", "sending"}
           /\ j.pc = "idle" => j = Idle
           /\ j.pc = "reconciling" => j.now \in Nat
           /\ j.pc = "prompt" => j.at \in Nat /\ j.want \in Transaction
           /\ j.pc = "validating" => j.want \in Transaction /\ j.cap \in Capability
           /\ j.pc = "sending" => j.id \in Id /\ j.since \in Nat
  BY DEF Job, Idle

\* Every verdict is a status a submission can end in.
LEMMA VerdictsAre ==
    /\ PlacedVerdicts \subseteq {"SUBMITTED", "UNKNOWN"}
    /\ TurnedVerdicts \subseteq {"REJECTED", "UNKNOWN"}
    /\ LookupVerdicts \subseteq {"REJECTED", "UNKNOWN"}
<1>1. \A e : Verdict(e) \in {"SUBMITTED", "REJECTED", "UNKNOWN"}
  BY DEF Verdict
<1>2. ASSUME NEW r \in Response, ~Refusal(r)
      PROVE  Verdict(MapSendOrderResponse(r)) # "REJECTED"
  <2>1. r.http \in {200, 400, 401, 403, 429, 500} /\ r.code \in {0, 20, 100, 101, 102, 104, 105}
        /\ r.text \in {"none", "auth", "funds", "server", "resource"}
        /\ r.body \in {"accepted", "rejected", "other"}
    BY DEF Response
  <2>2. CASE r.http = 429 \/ r.code = 105 \/ r.http \in {401, 403} \/ r.http = 500
    <3>1. ThrowForResponse(r) \in {"RateLimit", "Authentication", "Server"}
      BY <2>1, <2>2 DEF ThrowForResponse
    <3> QED
      BY <3>1 DEF Verdict, MapSendOrderResponse
  <2>3. CASE ~(r.http = 429 \/ r.code = 105 \/ r.http \in {401, 403} \/ r.http = 500)
    <3>1. r.http \in {200, 400}
      BY <2>1, <2>3
    <3>2. r.body # "rejected" /\ r.text # "funds" /\ r.code # 101
      BY <1>2, <3>1 DEF Refusal
    <3>3. MapError(r) # "OrderRejected"
      BY <2>1, <3>2 DEF MapError
    <3>4. ThrowForResponse(r) # "OrderRejected"
      BY <2>1, <2>3, <3>3 DEF ThrowForResponse
    <3>5. MapSendOrderResponse(r) # "OrderRejected"
      BY <3>2, <3>4 DEF MapSendOrderResponse
    <3> QED
      BY <3>5 DEF Verdict
  <2> QED
    BY <2>2, <2>3
<1> QED
  BY <1>1, <1>2 DEF PlacedVerdicts, TurnedVerdicts, LookupVerdicts

\* Capabilities are numbered as they are minted.
LEMMA CapabilitiesAre ==
    ASSUME PlTypeOK
    PROVE  /\ Minted = Capability
           /\ Cardinality(Minted) \in Nat
           /\ Capability \subseteq Nat \ {0}
  BY DEF PlTypeOK, Minted, Capability

LEMMA MintShape ==
    ASSUME PlTypeOK, NEW what, Mint(what)
    PROVE  /\ Cardinality(Minted)' = Cardinality(Minted) + 1
           /\ Capability' = 1..Cardinality(Minted) + 1
           /\ Capability \subseteq Capability'
           /\ Cardinality(Minted) + 1 \in Capability'
           /\ Cardinality(Minted) + 1 \notin Capability
           /\ \A c \in Capability : shown'[c] = shown[c]
           /\ shown'[Cardinality(Minted) + 1] = what
           /\ shown' \in [Capability' -> {shown[c] : c \in Capability} \cup {what}]
<1> DEFINE n == Cardinality(Minted)
<1>1. n \in Nat /\ Minted = 1..n
  BY CapabilitiesAre DEF Capability
<1> HIDE DEF n
<1>2. shown' = [c \in 1..n + 1 |-> IF c \in Minted THEN shown[c] ELSE what]
  BY DEF Mint, n
<1>3. Minted' = 1..n + 1
  BY <1>2 DEF Minted
<1>4. Cardinality(1..n + 1) = n + 1
  BY <1>1, FS_Interval
<1>5. Cardinality(Minted') = n + 1
  BY <1>3, <1>4
<1>6. Capability' = 1..n + 1
  BY <1>5 DEF Capability
<1>7. Capability = 1..n
  BY DEF Capability, n
<1> QED
  BY <1>1, <1>2, <1>5, <1>6, <1>7 DEF n

\* The command's task and the engine's are different, and each process has one.
LEMMA OneTask ==
    /\ \A t, u \in Task : ProcOf[t] = ProcOf[u] => t = u
    /\ \A t \in Cycle, u \in Command : t # u
    /\ \A t, u \in Cycle : t = u
    /\ \A t, u \in Command : t = u
  BY OneTaskEachAssumption DEF Serial, Cycle, Command

\* The order ids are used in order: the next one is the least fresh one.
NextId == CHOOSE i \in Fresh : \A j \in Fresh : i <= j

LEMMA NextIdFresh == ASSUME Fresh # {} PROVE NextId \in Fresh
<1>1. IsFiniteSet(Fresh) /\ Fresh \subseteq Nat
  BY AmountsAssumption, FS_Subset DEF Fresh
<1> DEFINE F == Fresh
           Below(i) == {j \in F : j <= i}
           Bad == {Below(i) : i \in F}
<1>2. PICK T \in Bad : \A U \in Bad : U \subseteq T => U = T
  <2>1. Bad \in SUBSET SUBSET F /\ Bad # {}
    OBVIOUS
  <2>2. IsFiniteSet(F)
    BY <1>1
  <2> HIDE DEF Bad, F
  <2> QED BY <2>1, <2>2, SmallestSet
<1>3. PICK i \in Fresh : T = Below(i)
  OBVIOUS
<1>4. ASSUME NEW j \in Fresh PROVE i <= j
  <2>1. CASE j <= i
    <3>1. ASSUME NEW k \in Below(j) PROVE k \in Below(i)
      <4>1. k \in Nat /\ j \in Nat /\ i \in Nat
        BY <1>1
      <4> QED BY <2>1, <4>1
    <3>2. Below(j) = T
      BY <1>2, <1>3, <3>1
    <3> QED BY <1>1, <1>3, <3>2
  <2>2. CASE ~(j <= i)
    BY <1>1, <2>2
  <2> QED BY <2>1, <2>2
<1> QED
  BY <1>4 DEF NextId

\* What an approval is.
LEMMA ApprovalsAre ==
    ASSUME PlTypeOK, NEW p \in Price, NEW want \in Approvals(p)
    PROVE  want \in Transaction
<1>1. book.pos \in Nat /\ MaxBase \in Nat
  BY AmountsAssumption DEF PlTypeOK
<1> QED
  BY <1>1 DEF Approvals, Transaction

----------------------------------------------------------------------------
(* Steps *)

\* What a step does to the lock is a step of the lock.
LEMMA PlStepIsLockStep == [PlNext]_plVars => [LockNext]_lockVars
<1> USE DEF LockNext, Record, Finish
<1>1. ASSUME NEW t \in Task, Place(t) \/ Execute(t) PROVE LockNext
  BY <1>1 DEF Place, Execute
<1>2. ASSUME NEW t \in Task, Refuse(t) \/ Submit(t) PROVE [LockNext]_lockVars
  BY <1>2 DEF Refuse, Submit
<1>3. ASSUME NEW t \in Task, LookupFails(t) \/ Answer(t) \/ Timeout(t) PROVE LockNext
  BY <1>3 DEF LookupFails, Answer, Timeout
<1>4. ASSUME NEW p \in Process, Die(p) \/ Begin(p) PROVE LockNext
  BY <1>4 DEF Die, Begin
<1>5. CASE UNCHANGED lockVars
  BY <1>5
<1> QED
  BY <1>1, <1>2, <1>3, <1>4, <1>5
     DEF PlNext, plVars, Tick, Poll, OtherCommand, RemoveLock, StartCycle, EndCycle,
         PrepareSell, PrepareBuy, Prepare, Post, Receive, Resolve, Cycle, Command

\* Steps that mint nothing keep the capabilities, and what a task can carry.
LEMMA SameCapabilities ==
    ASSUME UNCHANGED shown
    PROVE  /\ Capability' = Capability /\ Minted' = Minted /\ Job' = Job
           /\ Submitted' = Submitted /\ Registered' = Registered
  BY DEF Capability, Minted, Job, Submitted, Registered

\* What a task can carry.
LEMMA JobsAre ==
    /\ Idle \in Job
    /\ \A n \in Nat : [pc |-> "reconciling", now |-> n] \in Job
    /\ \A n \in Nat, w \in Transaction : [pc |-> "prompt", at |-> n, want |-> w] \in Job
    /\ \A w \in Transaction, c \in Capability :
          [pc |-> "validating", want |-> w, cap |-> c] \in Job
    /\ \A o \in Id, n \in Nat : [pc |-> "sending", id |-> o, since |-> n] \in Job
  BY DEF Job

LEMMA MoreCapabilities ==
    ASSUME Capability \subseteq Capability'
    PROVE  Job \subseteq Job' /\ Submitted \subseteq Submitted' /\ Registered \subseteq Registered'
  BY DEF Job, Submitted, Registered

\* The types but for those of the capabilities.
Rest ==
    /\ LockTypeOK
    /\ clock \in Nat
    /\ feed \in [price : Price, at : Nat]
    /\ book \in Book
    /\ status \in [Id -> Unresolved \cup {"ABSENT", "REJECTED", "SETTLED"}]
    /\ wire \in [Id -> AtExchange \cup {"none", "authorized", "dropped"}]
    /\ halted \in BOOLEAN

LEMMA PlTypeParts ==
    PlTypeOK <=> /\ Rest
                 /\ order \in [Id -> {None} \cup Submitted]
                 /\ job \in [Task -> Job]
                 /\ Cardinality(Minted) \in Nat
                 /\ shown \in [Capability -> {None} \cup Transaction]
                 /\ session \in {None} \cup Registered
                 /\ token \in {0} \cup Capability
  BY DEF PlTypeOK, Rest

LEMMA PlInitOK == PlInit => PlTypeOK
<1> SUFFICES ASSUME PlInit PROVE PlTypeOK
  OBVIOUS
<1>1. Minted = {1} /\ Cardinality(Minted) = 1
  BY FS_Singleton DEF PlInit, Minted
<1>2. Capability = {1}
  BY <1>1 DEF Capability
<1>3. LockTypeOK
  BY LockInitOK DEF PlInit, LockIInv
<1>4. Rest
  <2>1. feed \in [price : Price, at : Nat]
    BY DEF PlInit
  <2> QED
    BY <1>3, <2>1 DEF PlInit, Rest, Unresolved, AtExchange
<1>5. job \in [Task -> Job]
  BY JobsAre DEF PlInit
<1>6. session \in Registered
  BY <1>2, AmountsAssumption DEF PlInit, Registered
<1> QED
  BY <1>1, <1>2, <1>4, <1>5, <1>6, PlTypeParts DEF PlInit

\* Every step of the program keeps the variables in their types.
LEMMA RestStep == PlTypeOK /\ [PlNext]_plVars => Rest'
<1> SUFFICES ASSUME PlTypeOK, [PlNext]_plVars PROVE Rest'
  OBVIOUS
<1> USE DEF Rest, Unresolved, AtExchange
<1>0. Rest /\ job \in [Task -> Job]
  BY PlTypeParts
<1>1. LockTypeOK'
  BY <1>0, LockTypeStep, PlStepIsLockStep
<1> HIDE DEF Rest
<1>2. CASE Tick
  BY <1>0, <1>1, <1>2 DEF Tick, Rest
<1>3. CASE Poll
  BY <1>0, <1>1, <1>3 DEF Poll, Rest
<1>4. CASE OtherCommand
  BY <1>0, <1>1, <1>4 DEF OtherCommand, Rest
<1>5. CASE RemoveLock
  BY <1>0, <1>1, <1>5 DEF RemoveLock, Rest
<1>6. ASSUME NEW t \in Task, StartCycle(t) \/ Place(t) \/ EndCycle(t) \/ Execute(t) \/ Refuse(t)
      PROVE  Rest'
  BY <1>0, <1>1, <1>6 DEF StartCycle, Place, EndCycle, Execute, Refuse, Finish, Rest
<1>7. ASSUME NEW t \in Task, PrepareSell(t) \/ PrepareBuy(t) PROVE Rest'
  BY <1>0, <1>1, <1>7 DEF PrepareSell, PrepareBuy, Prepare, Rest
<1>8. ASSUME NEW t \in Task, Submit(t) PROVE Rest'
  <2>1. /\ Fresh # {} /\ UNCHANGED <<clock, feed, book>>
        /\ \/ status' = [status EXCEPT ![NextId] = "CREATED"]
           \/ status' = [status EXCEPT ![NextId] = "REJECTED"]
        /\ \/ wire' = [wire EXCEPT ![NextId] = "authorized"]
           \/ wire' = wire
        /\ halted' \in BOOLEAN
    BY <1>0, <1>8 DEF Submit, Finish, NextId, Rest
  <2> QED
    BY <1>0, <1>1, <2>1, NextIdFresh DEF Fresh, Rest
<1>9. ASSUME NEW t \in Task, LookupFails(t) \/ Answer(t) \/ Timeout(t) PROVE Rest'
  <2>1. job[t].id \in Id
    BY <1>0, <1>9, JobFields DEF LookupFails, Answer, Timeout
  <2>2. PICK v \in {"SUBMITTED", "REJECTED", "UNKNOWN"} : Record(t, v)
    BY <1>9, VerdictsAre DEF LookupFails, Answer, Timeout
  <2>3. status' \in [Id -> {"CREATED", "SUBMITTED", "UNKNOWN", "ABSENT", "REJECTED", "SETTLED"}]
    BY <1>0, <2>1, <2>2 DEF Record, Rest
  <2>4. wire' \in [Id -> {"posted", "placed", "turned", "none", "authorized", "dropped"}]
    BY <1>0, <1>9, <2>1 DEF LookupFails, Answer, Timeout, Rest
  <2> QED
    BY <1>0, <1>1, <2>2, <2>3, <2>4 DEF Record, Finish, Rest
<1>10. ASSUME NEW o \in Id, Post(o) \/ Receive(o) \/ Resolve(o) PROVE Rest'
  BY <1>0, <1>1, <1>10 DEF Post, Receive, Resolve, Rest
<1>11. ASSUME NEW p \in Process, Die(p) \/ Begin(p) PROVE Rest'
  BY <1>0, <1>1, <1>11 DEF Die, Begin, Rest
<1>12. CASE UNCHANGED plVars
  BY <1>0, <1>1, <1>12 DEF plVars, Rest
<1> QED
  BY <1>2, <1>3, <1>4, <1>5, <1>6, <1>7, <1>8, <1>9, <1>10, <1>11, <1>12
     DEF PlNext, Cycle, Command

LEMMA OrderTypeStep ==
    PlTypeOK /\ [PlNext]_plVars => order' \in [Id -> {None} \cup Submitted']
<1> SUFFICES ASSUME PlTypeOK, [PlNext]_plVars
             PROVE  order' \in [Id -> {None} \cup Submitted']
  OBVIOUS
<1>0. order \in [Id -> {None} \cup Submitted] /\ job \in [Task -> Job]
  BY PlTypeParts
<1>1. ASSUME UNCHANGED <<order, shown>> PROVE order' \in [Id -> {None} \cup Submitted']
  BY <1>0, <1>1, SameCapabilities
<1>2. ASSUME NEW what, Mint(what), UNCHANGED order
      PROVE  order' \in [Id -> {None} \cup Submitted']
  <2>1. Submitted \subseteq Submitted'
    BY <1>2, MintShape, MoreCapabilities
  <2> QED
    BY <1>0, <1>2, <2>1
<1>3. ASSUME NEW t \in Task, Submit(t) PROVE order' \in [Id -> {None} \cup Submitted']
  <2> DEFINE want == [side |-> job[t].want.side, qty |-> job[t].want.qty,
                      price |-> job[t].want.price, cap |-> job[t].cap]
  <2>1. job[t].want \in Transaction /\ job[t].cap \in Capability
    BY <1>0, <1>3, JobFields DEF Submit
  <2>2. want \in Submitted
    BY <2>1 DEF Transaction, Submitted
  <2>3. order' = [order EXCEPT ![NextId] = want] /\ UNCHANGED shown
    BY <1>3 DEF Submit, NextId, Finish
  <2> HIDE DEF want
  <2> QED
    BY <1>0, <2>2, <2>3, SameCapabilities
<1>4. ASSUME NEW t \in Task, PrepareSell(t) \/ PrepareBuy(t)
      PROVE  order' \in [Id -> {None} \cup Submitted']
  BY <1>2, <1>4 DEF PrepareSell, PrepareBuy, Prepare
<1>5. ASSUME NEW p \in Process, Begin(p) PROVE order' \in [Id -> {None} \cup Submitted']
  BY <1>1, <1>2, <1>5 DEF Begin
<1> QED
  BY <1>1, <1>3, <1>4, <1>5
     DEF PlNext, plVars, Tick, Poll, OtherCommand, RemoveLock, StartCycle, Place, EndCycle,
         Execute, Refuse, Record, Finish, LookupFails, Answer, Timeout, Post, Receive,
         Resolve, Die, Cycle, Command

\* The command submits under the authorization that it holds.
LEMMA JobTypeStep == PlTypeOK /\ CapabilityHeld /\ [PlNext]_plVars => job' \in [Task -> Job']
<1> SUFFICES ASSUME PlTypeOK, CapabilityHeld, [PlNext]_plVars PROVE job' \in [Task -> Job']
  OBVIOUS
<1>0. Rest /\ job \in [Task -> Job]
  BY PlTypeParts
<1>1. ASSUME UNCHANGED <<job, shown>> PROVE job' \in [Task -> Job']
  BY <1>0, <1>1, SameCapabilities
<1>2. ASSUME NEW t \in Task, NEW j \in Job, UNCHANGED shown, job' = [job EXCEPT ![t] = j]
      PROVE  job' \in [Task -> Job']
  BY <1>0, <1>2, SameCapabilities
<1>3. ASSUME NEW t \in Task, StartCycle(t) PROVE job' \in [Task -> Job']
  BY <1>0, <1>2, <1>3, JobsAre DEF StartCycle, Rest
<1>4. ASSUME NEW t \in Task, Place(t) PROVE job' \in [Task -> Job']
  <2>1. PICK want \in Approvals(feed.price) : Go(t, want, session.cap)
    BY <1>4 DEF Place
  <2>2. want \in Transaction
    BY <1>0, ApprovalsAre DEF Rest
  <2>3. session.cap \in Capability
    BY <1>4, PlTypeParts DEF Place, SessionLive, Registered
  <2> QED
    BY <1>2, <1>4, <2>1, <2>2, <2>3, JobsAre DEF Place, Go
<1>5. ASSUME NEW t \in Task, EndCycle(t) \/ Refuse(t) \/ LookupFails(t) \/ Answer(t) \/ Timeout(t)
      PROVE  job' \in [Task -> Job']
  BY <1>2, <1>5, JobsAre DEF EndCycle, Refuse, LookupFails, Answer, Timeout, Record, Finish
<1>6. ASSUME NEW t \in Task, NEW at \in 0..clock, NEW want \in Transaction, Prepare(t, at, want)
      PROVE  job' \in [Task -> Job']
  <2>1. [pc |-> "prompt", at |-> at, want |-> want] \in Job
    BY <1>0, <1>6, JobsAre DEF Rest
  <2>2. Job \subseteq Job'
    BY <1>6, MintShape, MoreCapabilities DEF Prepare
  <2> QED
    BY <1>0, <1>6, <2>1, <2>2 DEF Prepare
<1>7. ASSUME NEW t \in Task, PrepareSell(t) \/ PrepareBuy(t) PROVE job' \in [Task -> Job']
  <2>1. PICK p \in Price, at \in 0..clock : \E want \in Approvals(p) : Prepare(t, at, want)
    BY <1>7 DEF PrepareSell, PrepareBuy
  <2>2. PICK want \in Approvals(p) : Prepare(t, at, want)
    BY <2>1
  <2> QED
    BY <1>6, <2>2, ApprovalsAre
<1>8. ASSUME NEW t \in Command, Execute(t) PROVE job' \in [Task -> Job']
  <2>0. t \in Task
    BY DEF Command
  <2>1. job[t].want \in Transaction
    BY <1>0, <1>8, <2>0, JobFields DEF Execute
  <2>2. token \in Capability
    BY <1>8, PlTypeParts DEF CapabilityHeld, Execute
  <2> QED
    BY <1>2, <1>8, <2>0, <2>1, <2>2, JobsAre DEF Execute, Go
<1>9. ASSUME NEW t \in Task, Submit(t) PROVE job' \in [Task -> Job']
  <2>1. NextId \in Id /\ UNCHANGED shown
    BY <1>9, NextIdFresh DEF Submit, Finish, Fresh
  <2>2. \/ job' = [job EXCEPT ![t] = Idle]
        \/ job' = [job EXCEPT ![t] = [pc |-> "sending", id |-> NextId, since |-> clock]]
    BY <1>9 DEF Submit, Finish, NextId
  <2> QED
    BY <1>0, <1>2, <2>1, <2>2, JobsAre DEF Rest
<1>10. ASSUME NEW p \in Process, Die(p) PROVE job' \in [Task -> Job']
  <2>1. job' \in [Task -> Job] /\ UNCHANGED shown
    BY <1>0, <1>10, JobsAre DEF Die
  <2> QED
    BY <2>1, SameCapabilities
<1>11. ASSUME NEW p \in Process, Begin(p) PROVE job' \in [Task -> Job']
  <2>1. CASE p = Eng
    <3>1. Job \subseteq Job' /\ UNCHANGED job
      BY <1>11, <2>1, MintShape, MoreCapabilities DEF Begin
    <3> QED
      BY <1>0, <3>1
  <2>2. CASE p # Eng
    BY <1>1, <1>11, <2>2 DEF Begin
  <2> QED
    BY <2>1, <2>2
<1> QED
  BY <1>1, <1>3, <1>4, <1>5, <1>7, <1>8, <1>9, <1>10, <1>11
     DEF PlNext, plVars, Tick, Poll, OtherCommand, RemoveLock, Post, Receive, Resolve,
         Cycle, Command

\* A session that an order of this cost has been charged to.
Charged(s, cost) == [s EXCEPT !.orders = @ + 1, !.spent = @ + cost]

LEMMA ChargedIs ==
    ASSUME NEW s \in Registered, NEW cost \in Nat
    PROVE  /\ Charged(s, cost) \in Registered
           /\ Charged(s, cost).orders = s.orders + 1
           /\ Charged(s, cost).spent = s.spent + cost
           /\ Charged(s, cost).cap = s.cap
<1> DEFINE c == [s EXCEPT !.orders = s.orders + 1]
<1>1. s.orders \in Nat /\ s.spent \in Nat
  BY DEF Registered
<1>2. /\ c \in Registered
      /\ c.orders = s.orders + 1 /\ c.spent = s.spent /\ c.cap = s.cap
  BY <1>1 DEF Registered
<1>3. Charged(s, cost) = [c EXCEPT !.spent = c.spent + cost]
  BY Zenon DEF Charged
<1> HIDE DEF c
<1> QED
  BY <1>1, <1>2, <1>3 DEF Registered

\* The capabilities, and who holds one.
LEMMA CapabilityTypeStep ==
    PlTypeOK /\ [PlNext]_plVars =>
       /\ Cardinality(Minted)' \in Nat
       /\ shown' \in [Capability' -> {None} \cup Transaction]
       /\ session' \in {None} \cup Registered'
       /\ token' \in {0} \cup Capability'
<1> DEFINE Goal == /\ Cardinality(Minted)' \in Nat
                   /\ shown' \in [Capability' -> {None} \cup Transaction]
                   /\ session' \in {None} \cup Registered'
                   /\ token' \in {0} \cup Capability'
<1> SUFFICES ASSUME PlTypeOK, [PlNext]_plVars PROVE Goal
  OBVIOUS
<1>0. /\ Rest
      /\ Cardinality(Minted) \in Nat
      /\ shown \in [Capability -> {None} \cup Transaction]
      /\ session \in {None} \cup Registered
      /\ token \in {0} \cup Capability
  BY PlTypeParts
<1>1. ASSUME UNCHANGED shown, session' \in {None} \cup Registered, token' \in {0, token}
      PROVE  Goal
  BY <1>0, <1>1, SameCapabilities
<1>2. ASSUME NEW what \in {None} \cup Transaction, Mint(what),
             session' \in {session} \cup Registered',
             token' \in {token, Cardinality(Minted) + 1}
      PROVE  Goal
  <2>1. Capability \subseteq Capability' /\ Registered \subseteq Registered'
    BY <1>2, MintShape, MoreCapabilities
  <2>2. \A c \in Capability : shown[c] \in {None} \cup Transaction
    BY <1>0
  <2>3. shown' \in [Capability' -> {None} \cup Transaction]
    BY <1>2, <2>2, MintShape
  <2>4. Cardinality(Minted)' \in Nat /\ Cardinality(Minted) + 1 \in Capability'
    BY <1>0, <1>2, MintShape
  <2> QED
    BY <1>0, <1>2, <2>1, <2>3, <2>4
<1>3. ASSUME NEW t \in Task, Submit(t) PROVE Goal
  <2> DEFINE want == [side |-> job[t].want.side, qty |-> job[t].want.qty,
                      price |-> job[t].want.price, cap |-> job[t].cap]
  <2>1. job[t].want \in Transaction
    BY <1>3, PlTypeParts, JobFields DEF Submit
  <2>2. Cost(want) \in Nat
    <3>1. job[t].want.qty \in Nat /\ job[t].want.price \in Nat
      BY <2>1, AmountsAssumption DEF Transaction
    <3> QED
      BY <3>1, CostNat DEF Cost
  <2>3. /\ UNCHANGED shown
        /\ \/ Authorized(want) /\ Consume(want)
           \/ UNCHANGED session /\ Forget(t)
    BY <1>3 DEF Submit, Finish
  <2> HIDE DEF want
  <2>4. token' \in {0, token}
    BY <2>3 DEF Consume, Forget
  <2>5. CASE Authorized(want) /\ Consume(want) /\ ~OfCommand(want)
    <3>1. session \in Registered
      BY <1>0, <2>5 DEF Authorized, InSessionScope, SessionLive
    <3>2. session' = Charged(session, Cost(want))
      BY <2>5, Zenon DEF Consume, Charged
    <3>3. session' \in Registered
      BY <2>2, <3>1, <3>2, ChargedIs
    <3> QED
      BY <1>1, <2>3, <2>4, <3>3
  <2>6. CASE UNCHANGED session
    BY <1>0, <1>1, <2>3, <2>4, <2>6
  <2> QED
    BY <2>3, <2>5, <2>6 DEF Consume
<1>4. ASSUME NEW t \in Task, PrepareSell(t) \/ PrepareBuy(t) PROVE Goal
  <2>1. PICK p \in Price, at \in 0..clock : \E want \in Approvals(p) : Prepare(t, at, want)
    BY <1>4 DEF PrepareSell, PrepareBuy
  <2>2. PICK want \in Approvals(p) : Prepare(t, at, want)
    BY <2>1
  <2> QED
    BY <1>2, <2>2, ApprovalsAre DEF Prepare
<1>5. ASSUME NEW p \in Process, Begin(p) PROVE Goal
  <2>1. CASE p = Eng
    <3>1. Mint(None) /\ session' = NewSession /\ UNCHANGED token
      BY <1>5, <2>1 DEF Begin
    <3>2. Cardinality(Minted) + 1 \in Capability'
      BY <3>1, MintShape
    <3>3. clock + SessionLife \in Nat
      BY <1>0, AmountsAssumption DEF Rest
    <3>4. NewSession \in Registered'
      BY <3>2, <3>3 DEF NewSession, Registered
    <3> QED
      BY <1>2, <3>1, <3>4
  <2>2. CASE p # Eng
    BY <1>0, <1>1, <1>5, <2>2 DEF Begin
  <2> QED
    BY <2>1, <2>2
<1>6. ASSUME NEW p \in Process, Die(p) PROVE Goal
  BY <1>0, <1>1, <1>6 DEF Die
<1>7. ASSUME NEW t \in Task, StartCycle(t) \/ Place(t) \/ EndCycle(t) \/ Execute(t)
                            \/ Refuse(t) \/ LookupFails(t) \/ Answer(t) \/ Timeout(t)
      PROVE  Goal
  BY <1>0, <1>1, <1>7 DEF StartCycle, Place, EndCycle, Execute, Refuse, LookupFails,
       Answer, Timeout, Record, Finish, Forget
<1>8. CASE UNCHANGED <<shown, session, token>>
  BY <1>0, <1>1, <1>8
<1> QED
  BY <1>3, <1>4, <1>5, <1>6, <1>7, <1>8
     DEF PlNext, plVars, Tick, Poll, OtherCommand, RemoveLock, Post, Receive, Resolve,
         Cycle, Command

LEMMA PlTypeStep == PlTypeOK /\ CapabilityHeld /\ [PlNext]_plVars => PlTypeOK'
<1> SUFFICES ASSUME PlTypeOK, CapabilityHeld, [PlNext]_plVars PROVE PlTypeOK'
  OBVIOUS
<1>1. /\ Rest'
      /\ order' \in [Id -> {None} \cup Submitted']
      /\ job' \in [Task -> Job']
  BY RestStep, OrderTypeStep, JobTypeStep
<1> QED
  BY <1>1, CapabilityTypeStep DEF PlTypeOK, Rest

----------------------------------------------------------------------------
(* Who is in the section *)

\* The lock, and where each task is.
Placed == PlTypeOK /\ LockIInv /\ JobsInPlace

\* The task that checks or sends an order owns the lock, and is the only one.
LEMMA SectionIsOwned ==
    ASSUME Placed, NEW t \in Task, job[t].pc \in {"validating", "sending"}
    PROVE  /\ Inside(t) /\ section[t] = "owner"
           /\ ProcOf[t] \in up /\ held[ProcOf[t]] /\ lockFile = ProcOf[t]
           /\ lockFile # NoProcess
           /\ \A u \in Task : job[u].pc \in {"validating", "sending"} => u = t
<1>1. NoGuest
  BY OneTaskEachAssumption DEF Placed, LockIInv
<1>2. \A u \in Task : job[u].pc \in {"validating", "sending"} => section[u] = "owner"
  BY <1>1 DEF Placed, JobsInPlace, Inside, NoGuest, LockIInv, LockTypeOK, SectionState
<1>3. section[t] = "owner" /\ HolderConsistent /\ ProcOf[t] \in Process
  BY <1>2, ProcOfAssumption DEF Placed, LockIInv
<1>4. held[ProcOf[t]]
  BY <1>3 DEF HolderConsistent
<1>5. ProcOf[t] \in up /\ lockFile = ProcOf[t] /\ lockFile # NoProcess
  BY <1>3, <1>4, NoProcessAssumption DEF HolderConsistent
<1> QED
  BY <1>2, <1>3, <1>4, <1>5 DEF HolderConsistent, Inside

LEMMA LockStep == LockIInv /\ [PlNext]_plVars => LockIInv'
  BY LockIInvStep, PlStepIsLockStep

\* Each task stays where its steps belong.
LEMMA JobsStep == Placed /\ [PlNext]_plVars => JobsInPlace'
<1> SUFFICES ASSUME Placed, [PlNext]_plVars PROVE JobsInPlace'
  OBVIOUS
<1>0. /\ job \in [Task -> Job] /\ section \in [Task -> SectionState]
      /\ JobsInPlace
  BY PlTypeParts DEF Placed, LockIInv, LockTypeOK
<1>1. ASSUME UNCHANGED <<job, section>> PROVE JobsInPlace'
  BY <1>0, <1>1 DEF JobsInPlace, Inside
<1>2. ASSUME NEW t \in Task, NEW j, job' = [job EXCEPT ![t] = j], UNCHANGED section,
             j.pc \in {"validating", "sending"} <=> Inside(t),
             j.pc = "reconciling" => t \in Cycle, j.pc = "prompt" => t \in Command,
             j # Idle => t \in Cycle \cup Command
      PROVE  JobsInPlace'
  BY <1>0, <1>2 DEF JobsInPlace, Inside
<1>3. ASSUME NEW t \in Task, NEW j, job' = [job EXCEPT ![t] = j], Enter(t),
             j.pc = "validating", t \in Cycle \cup Command
      PROVE  JobsInPlace'
  BY <1>0, <1>3 DEF JobsInPlace, Inside, Enter
<1>4. ASSUME NEW t \in Task, job' = [job EXCEPT ![t] = Idle], Leave(t)
      PROVE  JobsInPlace'
  BY <1>0, <1>4 DEF JobsInPlace, Inside, Leave, Idle
<1>5. ASSUME NEW t \in Cycle, StartCycle(t) \/ EndCycle(t) PROVE JobsInPlace'
  <2>0. t \in Task
    BY DEF Cycle
  <2>1. job[t].pc = "idle" \/ job[t].pc = "reconciling"
    <3>1. CASE StartCycle(t)
      BY <3>1 DEF StartCycle, Idle
    <3>2. CASE EndCycle(t)
      BY <3>2 DEF EndCycle
    <3> QED
      BY <1>5, <3>1, <3>2
  <2>2. ~Inside(t)
    BY <1>0, <2>0, <2>1 DEF JobsInPlace
  <2>3. CASE StartCycle(t)
    BY <1>2, <2>0, <2>2, <2>3 DEF StartCycle, lockVars
  <2>4. CASE EndCycle(t)
    BY <1>2, <2>0, <2>2, <2>4 DEF EndCycle, lockVars, Idle
  <2> QED
    BY <1>5, <2>3, <2>4
<1>6. ASSUME NEW t \in Cycle, Place(t) PROVE JobsInPlace'
  BY <1>3, <1>6 DEF Place, Go, Cycle
<1>7. ASSUME NEW t \in Command, Execute(t) PROVE JobsInPlace'
  BY <1>3, <1>7 DEF Execute, Go, Command
<1>8. ASSUME NEW t \in Command, PrepareSell(t) \/ PrepareBuy(t) PROVE JobsInPlace'
  <2>1. PICK at, want : Prepare(t, at, want)
    BY <1>8 DEF PrepareSell, PrepareBuy
  <2>2. t \in Task /\ ~Inside(t)
    BY <1>0, <2>1 DEF Prepare, Command, JobsInPlace, Idle
  <2>3. job' = [job EXCEPT ![t] = [pc |-> "prompt", at |-> at, want |-> want]]
        /\ UNCHANGED section
    BY <2>1 DEF Prepare, lockVars
  <2> QED
    BY <1>2, <2>2, <2>3
<1>9. ASSUME NEW t \in Task, Refuse(t) PROVE JobsInPlace'
  <2>1. CASE job[t].pc = "validating"
    BY <1>4, <1>9, <2>1 DEF Refuse, Finish
  <2>2. CASE job[t].pc = "prompt"
    <3>1. ~Inside(t)
      BY <1>0, <2>2 DEF JobsInPlace
    <3> QED
      BY <1>2, <1>9, <2>2, <3>1 DEF Refuse, lockVars, Idle
  <2> QED
    BY <1>9, <2>1, <2>2 DEF Refuse
<1>10. ASSUME NEW t \in Task, Submit(t) PROVE JobsInPlace'
  <2>1. Inside(t) /\ t \in Cycle \cup Command
    BY <1>0, <1>10 DEF Submit, JobsInPlace, Idle
  <2>2. \/ job' = [job EXCEPT ![t] = Idle] /\ Leave(t)
        \/ /\ job' = [job EXCEPT ![t] = [pc |-> "sending", id |-> NextId, since |-> clock]]
           /\ UNCHANGED section
    BY <1>10 DEF Submit, Finish, lockVars, NextId
  <2> QED
    BY <1>2, <1>4, <2>1, <2>2
<1>11. ASSUME NEW t \in Task, LookupFails(t) \/ Answer(t) \/ Timeout(t) PROVE JobsInPlace'
  BY <1>4, <1>11 DEF LookupFails, Answer, Timeout, Record, Finish
<1>12. ASSUME NEW p \in Process, Die(p) PROVE JobsInPlace'
  BY <1>0, <1>12 DEF Die, Crash, JobsInPlace, Inside, Idle
<1>13. ASSUME NEW p \in Process, Begin(p) PROVE JobsInPlace'
  BY <1>1, <1>13 DEF Begin, Restart
<1> QED
  BY <1>1, <1>5, <1>6, <1>7, <1>8, <1>9, <1>10, <1>11, <1>12, <1>13
     DEF PlNext, plVars, lockVars, Tick, Poll, OtherCommand, RemoveLock, OperatorRemove,
         Post, Receive, Resolve

----------------------------------------------------------------------------
(* What a step does to the orders *)

\* The state in which an order is submitted.
Sound == Placed /\ RecordsMatch

\* A submission uses a fresh id, for a transaction its task was given.
LEMMA SubmitShape ==
    ASSUME Sound, NEW t \in Task, Submit(t)
    PROVE  \E o \in Id, want \in Submitted :
              /\ status[o] = "ABSENT" /\ order[o] = None /\ wire[o] = "none"
              /\ want = [side |-> job[t].want.side, qty |-> job[t].want.qty,
                         price |-> job[t].want.price, cap |-> job[t].cap]
              /\ job[t].pc = "validating"
              /\ Covered(want)
              /\ order' = [order EXCEPT ![o] = want]
              /\ UNCHANGED <<clock, feed, book, shown>>
              /\ \/ /\ Authorized(want) /\ Consume(want)
                    /\ status' = [status EXCEPT ![o] = "CREATED"]
                    /\ wire' = [wire EXCEPT ![o] = "authorized"]
                    /\ job' = [job EXCEPT ![t] = [pc |-> "sending", id |-> o, since |-> clock]]
                    /\ UNCHANGED lockVars
                 \/ /\ status' = [status EXCEPT ![o] = "REJECTED"]
                    /\ job' = [job EXCEPT ![t] = Idle]
                    /\ Leave(t) /\ Forget(t)
                    /\ UNCHANGED <<wire, session>>
<1> DEFINE want == [side |-> job[t].want.side, qty |-> job[t].want.qty,
                    price |-> job[t].want.price, cap |-> job[t].cap]
<1>1. job[t].want \in Transaction /\ job[t].cap \in Capability
  BY PlTypeParts, JobFields DEF Submit, Sound, Placed
<1>2. want \in Submitted
  BY <1>1 DEF Transaction, Submitted
<1>3. NextId \in Id /\ status[NextId] = "ABSENT"
  BY NextIdFresh DEF Submit, Fresh
<1>4. order[NextId] = None /\ wire[NextId] = "none"
  BY <1>3 DEF Sound, RecordsMatch
<1>5. /\ job[t].pc = "validating" /\ Covered(want)
      /\ order' = [order EXCEPT ![NextId] = want]
      /\ IF Authorized(want)
         THEN /\ Consume(want)
              /\ status' = [status EXCEPT ![NextId] = "CREATED"]
              /\ wire' = [wire EXCEPT ![NextId] = "authorized"]
              /\ job' = [job EXCEPT ![t] = [pc |-> "sending", id |-> NextId, since |-> clock]]
              /\ UNCHANGED <<lockVars, clock, feed, book, shown, halted>>
         ELSE /\ status' = [status EXCEPT ![NextId] = "REJECTED"]
              /\ Finish(t, "REJECTED")
              /\ Forget(t)
              /\ UNCHANGED wire
  BY Zenon DEF Submit, NextId
<1> HIDE DEF want
<1>6. \/ /\ Authorized(want) /\ Consume(want)
         /\ status' = [status EXCEPT ![NextId] = "CREATED"]
         /\ wire' = [wire EXCEPT ![NextId] = "authorized"]
         /\ job' = [job EXCEPT ![t] = [pc |-> "sending", id |-> NextId, since |-> clock]]
         /\ UNCHANGED lockVars /\ UNCHANGED <<clock, feed, book, shown>>
      \/ /\ status' = [status EXCEPT ![NextId] = "REJECTED"]
         /\ job' = [job EXCEPT ![t] = Idle]
         /\ Leave(t) /\ Forget(t)
         /\ UNCHANGED <<wire, session>> /\ UNCHANGED <<clock, feed, book, shown>>
  BY <1>5 DEF Finish
<1>7. want = [side |-> job[t].want.side, qty |-> job[t].want.qty,
              price |-> job[t].want.price, cap |-> job[t].cap]
  BY DEF want
<1> QED
  BY <1>2, <1>3, <1>4, <1>5, <1>6, <1>7

\* The wait for an answer ends: the section with it, and the order's record gets an
\* outcome unless the lock has gone.
LEMMA EndShape ==
    ASSUME Sound, NEW t \in Task, LookupFails(t) \/ Answer(t) \/ Timeout(t)
    PROVE  /\ job[t].pc = "sending" /\ job[t].id \in Id
           /\ \E v \in {"SUBMITTED", "REJECTED", "UNKNOWN"} :
                 /\ status' \in {status, [status EXCEPT ![job[t].id] = v]}
                 /\ v = "REJECTED" => wire'[job[t].id] \in {"dropped", "turned"}
           /\ \A i \in Id : wire'[i] = wire[i] \/ (wire[i] = "authorized" /\ wire'[i] = "dropped")
           /\ Leave(t) /\ Forget(t)
           /\ job' = [job EXCEPT ![t] = Idle]
           /\ UNCHANGED <<clock, feed, book, order, session, shown>>
<1>1. job[t].pc = "sending" /\ job[t].id \in Id
  BY PlTypeParts, JobFields DEF LookupFails, Answer, Timeout, Sound, Placed
<1>2. wire \in [Id -> AtExchange \cup {"none", "authorized", "dropped"}]
  BY DEF Sound, Placed, PlTypeOK
<1>3. ASSUME NEW v, Record(t, v)
      PROVE  /\ status' \in {status, [status EXCEPT ![job[t].id] = v]}
             /\ Leave(t) /\ job' = [job EXCEPT ![t] = Idle]
             /\ UNCHANGED <<clock, feed, book, session, shown>>
  BY <1>3 DEF Record, Finish
<1>4. CASE LookupFails(t)
  <2>1. PICK v \in {"REJECTED", "UNKNOWN"} : Record(t, v)
    BY <1>4, VerdictsAre DEF LookupFails
  <2>2. wire' = [wire EXCEPT ![job[t].id] = "dropped"] /\ wire[job[t].id] = "authorized"
        /\ Forget(t) /\ UNCHANGED order
    BY <1>4 DEF LookupFails
  <2>3. wire'[job[t].id] = "dropped"
    BY <1>1, <1>2, <2>2
  <2>4. \A i \in Id : wire'[i] = wire[i] \/ (wire[i] = "authorized" /\ wire'[i] = "dropped")
    BY <1>1, <1>2, <2>2
  <2> QED
    BY <1>1, <1>3, <2>1, <2>2, <2>3, <2>4
<1>5. CASE Answer(t)
  <2>1. PICK v \in {"SUBMITTED", "REJECTED", "UNKNOWN"} :
           Record(t, v) /\ (v = "REJECTED" => wire[job[t].id] = "turned")
    BY <1>5, VerdictsAre DEF Answer
  <2>2. Forget(t) /\ UNCHANGED <<order, wire>>
    BY <1>5 DEF Answer
  <2>3. status' \in {status, [status EXCEPT ![job[t].id] = v]}
    BY <1>3, <2>1
  <2>4. Leave(t) /\ job' = [job EXCEPT ![t] = Idle]
        /\ UNCHANGED <<clock, feed, book, session, shown>>
    BY <1>3, <2>1
  <2> QED
    BY <1>1, <2>1, <2>2, <2>3, <2>4
<1>6. CASE Timeout(t)
  <2>1. Record(t, "UNKNOWN")
    BY <1>6 DEF Timeout
  <2>2. \A i \in Unsent(Cmd) : wire[i] = "authorized"
    BY DEF Unsent
  <2>3. wire' = [o \in Id |-> IF t \in Command /\ o \in Unsent(Cmd) THEN "dropped" ELSE wire[o]]
    BY <1>6 DEF Timeout
  <2>4. \A i \in Id : wire'[i] = wire[i] \/ (wire[i] = "authorized" /\ wire'[i] = "dropped")
    BY <2>2, <2>3
  <2> QED
    BY <1>1, <1>3, <1>6, <2>1, <2>4 DEF Timeout
<1> QED
  BY <1>4, <1>5, <1>6

\* Every other step keeps the transactions and what was minted; placements and
\* records only move forward.
Forward ==
    /\ UNCHANGED order
    /\ \A i \in Id : \/ wire'[i] = wire[i]
                     \/ wire[i] = "authorized" /\ wire'[i] \in {"posted", "dropped"}
                     \/ wire[i] = "posted" /\ wire'[i] \in {"placed", "turned"}
    /\ \A i \in Id : \/ status'[i] = status[i]
                     \/ /\ status[i] \in Unresolved
                        /\ status'[i] \in {"SUBMITTED", "UNKNOWN", "SETTLED", "REJECTED"}
    /\ Capability \subseteq Capability'
    /\ \A c \in Capability : shown'[c] = shown[c]

LEMMA ForwardStep ==
    ASSUME Sound, [PlNext]_plVars PROVE Forward \/ \E t \in Task : Submit(t)
<1>0. /\ wire \in [Id -> AtExchange \cup {"none", "authorized", "dropped"}]
      /\ status \in [Id -> Unresolved \cup {"ABSENT", "REJECTED", "SETTLED"}]
      /\ PlTypeOK
  BY DEF Sound, Placed, PlTypeOK
<1>1. ASSUME UNCHANGED <<order, wire, status, shown>> PROVE Forward
  BY <1>1, SameCapabilities DEF Forward
<1>2. ASSUME NEW what, Mint(what), UNCHANGED <<order, wire, status>> PROVE Forward
  BY <1>0, <1>2, MintShape DEF Forward
<1>3. ASSUME NEW o \in Id, Post(o) \/ Receive(o) PROVE Forward
  BY <1>0, <1>3, SameCapabilities DEF Post, Receive, Forward
<1>4. ASSUME NEW o \in Id, Resolve(o) PROVE Forward
  BY <1>0, <1>4, SameCapabilities DEF Resolve, Forward
<1>5. ASSUME NEW p \in Process, Die(p) PROVE Forward
  <2>1. \A i \in Unsent(p) : wire[i] = "authorized"
    BY DEF Unsent
  <2> QED
    BY <1>0, <1>5, <2>1, SameCapabilities DEF Die, Forward
<1>6. ASSUME NEW t \in Task, LookupFails(t) \/ Answer(t) \/ Timeout(t) PROVE Forward
  <2>1. job[t].id \in Id /\ status[job[t].id] = "CREATED"
    BY <1>6, EndShape DEF Sound, RecordsMatch
  <2>2. /\ \A i \in Id : wire'[i] = wire[i] \/ (wire[i] = "authorized" /\ wire'[i] = "dropped")
        /\ UNCHANGED <<order, shown>>
    BY <1>6, EndShape
  <2>3. \E v \in {"SUBMITTED", "REJECTED", "UNKNOWN"} :
           status' \in {status, [status EXCEPT ![job[t].id] = v]}
    BY <1>6, EndShape
  <2>4. \A i \in Id : \/ status'[i] = status[i]
                      \/ /\ status[i] \in Unresolved
                         /\ status'[i] \in {"SUBMITTED", "UNKNOWN", "SETTLED", "REJECTED"}
    BY <1>0, <2>1, <2>3 DEF Unresolved
  <2> QED
    BY <2>2, <2>4, SameCapabilities DEF Forward
<1>7. ASSUME NEW t \in Task, PrepareSell(t) \/ PrepareBuy(t) PROVE Forward
  BY <1>2, <1>7 DEF PrepareSell, PrepareBuy, Prepare
<1>8. ASSUME NEW p \in Process, Begin(p) PROVE Forward
  BY <1>1, <1>2, <1>8 DEF Begin
<1> QED
  BY <1>1, <1>3, <1>4, <1>5, <1>6, <1>7, <1>8
     DEF PlNext, plVars, Tick, Poll, OtherCommand, RemoveLock, StartCycle, Place, EndCycle,
         Execute, Refuse, Finish, Cycle, Command

\* How a task comes to carry what it carries.
LEMMA JobStep ==
    ASSUME Placed, [PlNext]_plVars, NEW u \in Task
    PROVE  \/ job'[u] = job[u]
           \/ job'[u].pc \in {"idle", "reconciling"}
           \/ u \in Command /\ (PrepareSell(u) \/ PrepareBuy(u) \/ Execute(u))
           \/ u \in Cycle /\ Place(u)
           \/ Submit(u)
<1> DEFINE Goal == \/ job'[u] = job[u]
                   \/ job'[u].pc \in {"idle", "reconciling"}
                   \/ u \in Command /\ (PrepareSell(u) \/ PrepareBuy(u) \/ Execute(u))
                   \/ u \in Cycle /\ Place(u)
                   \/ Submit(u)
<1>0. job \in [Task -> Job] /\ Idle.pc = "idle"
  BY DEF Placed, PlTypeOK, Idle
<1>1. ASSUME NEW t \in Task, NEW j, job' = [job EXCEPT ![t] = j],
             j.pc \in {"idle", "reconciling"} \/ t # u
      PROVE  job'[u] = job[u] \/ job'[u].pc \in {"idle", "reconciling"}
  BY <1>0, <1>1
<1>2. ASSUME NEW t \in Task, StartCycle(t) PROVE Goal
  <2> DEFINE j == [pc |-> "reconciling", now |-> clock]
  <2>1. job' = [job EXCEPT ![t] = j] /\ j.pc = "reconciling"
    BY <1>2 DEF StartCycle
  <2> HIDE DEF j
  <2> QED
    BY <1>1, <2>1
<1>3. ASSUME NEW t \in Task, Place(t) \/ Execute(t), t # u PROVE Goal
  <2>1. PICK j : job' = [job EXCEPT ![t] = j]
    BY <1>3 DEF Place, Execute, Go
  <2> QED
    BY <1>1, <1>3, <2>1
<1>4. ASSUME NEW t \in Task, EndCycle(t) \/ Refuse(t) \/ LookupFails(t) \/ Answer(t) \/ Timeout(t)
      PROVE  Goal
  <2>1. job' = [job EXCEPT ![t] = Idle]
    BY <1>4 DEF EndCycle, Refuse, LookupFails, Answer, Timeout, Record, Finish
  <2> QED
    BY <1>0, <1>1, <2>1
<1>5. ASSUME NEW t \in Task, PrepareSell(t) \/ PrepareBuy(t), t # u PROVE Goal
  <2>1. PICK at, want : Prepare(t, at, want)
    BY <1>5 DEF PrepareSell, PrepareBuy
  <2>2. PICK j : job' = [job EXCEPT ![t] = j]
    BY <2>1 DEF Prepare
  <2> QED
    BY <1>1, <1>5, <2>2
<1>6. ASSUME NEW t \in Task, Submit(t), t # u PROVE Goal
  <2>1. PICK j : job' = [job EXCEPT ![t] = j]
    BY <1>6 DEF Submit, Finish
  <2> QED
    BY <1>1, <1>6, <2>1
<1>7. ASSUME NEW p \in Process, Die(p) PROVE Goal
  BY <1>0, <1>7 DEF Die
<1>8. CASE UNCHANGED job
  BY <1>8
<1> QED
  BY <1>2, <1>3, <1>4, <1>5, <1>6, <1>7, <1>8
     DEF PlNext, plVars, Tick, Poll, OtherCommand, RemoveLock, Post, Receive, Resolve, Begin,
         Cycle, Command

\* Only a submission makes a task send.
LEMMA SendingStep ==
    ASSUME Placed, [PlNext]_plVars, NEW u \in Task, job'[u].pc = "sending"
    PROVE  job'[u] = job[u] \/ Submit(u)
<1>1. ASSUME Place(u) \/ Execute(u) PROVE FALSE
  <2>1. job \in [Task -> Job]
    BY DEF Placed, PlTypeOK
  <2>2. PICK want, cap : Go(u, want, cap)
    BY <1>1 DEF Place, Execute
  <2> QED
    BY <2>1, <2>2 DEF Go
<1>2. ASSUME PrepareSell(u) \/ PrepareBuy(u) PROVE FALSE
  <2>1. job \in [Task -> Job]
    BY DEF Placed, PlTypeOK
  <2>2. PICK at, want : Prepare(u, at, want)
    BY <1>2 DEF PrepareSell, PrepareBuy
  <2> QED
    BY <2>1, <2>2 DEF Prepare
<1> QED
  BY <1>1, <1>2, JobStep

\* Records, placements and tasks keep matching: nobody else closes the record of an
\* order while its task is in the section.
LEMMA RecordsStep == Sound /\ [PlNext]_plVars => RecordsMatch'
<1> SUFFICES ASSUME Sound, [PlNext]_plVars PROVE RecordsMatch'
  OBVIOUS
<1>0. /\ wire \in [Id -> AtExchange \cup {"none", "authorized", "dropped"}]
      /\ status \in [Id -> Unresolved \cup {"ABSENT", "REJECTED", "SETTLED"}]
      /\ order \in [Id -> {None} \cup Submitted]
      /\ job \in [Task -> Job]
      /\ Placed /\ RecordsMatch
  BY DEF Sound, Placed, PlTypeOK
<1>1. ASSUME Forward, \A t \in Task : ~Submit(t) PROVE RecordsMatch'
  <2>1. \A o \in Id : /\ status'[o] = "ABSENT" <=> order'[o] = None
                      /\ status'[o] = "ABSENT" => wire'[o] = "none"
    BY <1>0, <1>1 DEF Forward, RecordsMatch, Unresolved
  <2>2. \A u \in Task : job'[u].pc = "sending" => job'[u] = job[u]
    BY <1>0, <1>1, SendingStep
  <2>3. CASE UNCHANGED status
    BY <1>1, <2>1, <2>2, <2>3 DEF Forward, RecordsMatch, Sound
  <2>4. ASSUME NEW t \in Task, LookupFails(t) \/ Answer(t) \/ Timeout(t) PROVE RecordsMatch'
    <3>1. job[t].pc = "sending" /\ job' = [job EXCEPT ![t] = Idle] /\ Idle.pc = "idle"
      BY <2>4, EndShape DEF Idle
    <3>2. ASSUME NEW u \in Task, job'[u].pc = "sending" PROVE FALSE
      BY <1>0, <2>2, <3>1, <3>2, SectionIsOwned
    <3> QED
      BY <2>1, <3>2 DEF RecordsMatch
  <2>5. ASSUME NEW o \in Id, Resolve(o) PROVE RecordsMatch'
    <3>1. ASSUME NEW u \in Task, job[u].pc = "sending" PROVE o # job[u].id
      BY <1>0, <2>5, <3>1, SectionIsOwned DEF Resolve, RecordsMatch
    <3>2. status' = [status EXCEPT ![o] = "SETTLED"] /\ UNCHANGED <<job, order>>
      BY <2>5 DEF Resolve
    <3>3. ASSUME NEW u \in Task, job'[u].pc = "sending"
          PROVE  status'[job'[u].id] = "CREATED" /\ order'[job'[u].id] # None
      BY <1>0, <3>1, <3>2, <3>3, JobFields DEF RecordsMatch
    <3> QED
      BY <2>1, <3>3 DEF RecordsMatch
  <2> QED
    BY <1>1, <2>3, <2>4, <2>5
       DEF PlNext, plVars, Tick, Poll, OtherCommand, RemoveLock, StartCycle, Place, EndCycle,
           PrepareSell, PrepareBuy, Prepare, Execute, Refuse, Finish, Post, Receive, Die,
           Begin, Cycle, Command
<1>2. ASSUME NEW t \in Task, Submit(t) PROVE RecordsMatch'
  <2>1. PICK o \in Id, want \in Submitted :
           /\ status[o] = "ABSENT" /\ wire[o] = "none" /\ job[t].pc = "validating"
           /\ order' = [order EXCEPT ![o] = want]
           /\ \/ /\ status' = [status EXCEPT ![o] = "CREATED"]
                 /\ wire' = [wire EXCEPT ![o] = "authorized"]
                 /\ job' = [job EXCEPT ![t] = [pc |-> "sending", id |-> o, since |-> clock]]
              \/ /\ status' = [status EXCEPT ![o] = "REJECTED"]
                 /\ job' = [job EXCEPT ![t] = Idle]
                 /\ UNCHANGED wire
    BY <1>0, <1>2, SubmitShape DEF Sound
  <2>2. want # None
    BY <1>0, CapabilitiesAre, NoneAssumption DEF Submitted, Placed
  <2>3. \A o2 \in Id : /\ status'[o2] = "ABSENT" <=> order'[o2] = None
                       /\ status'[o2] = "ABSENT" => wire'[o2] = "none"
    BY <1>0, <2>1, <2>2 DEF RecordsMatch
  <2>4. ASSUME NEW u \in Task, job'[u].pc = "sending"
        PROVE  status'[job'[u].id] = "CREATED" /\ order'[job'[u].id] # None
    <3>1. CASE u = t
      BY <1>0, <2>1, <2>2, <2>4, <3>1 DEF Idle
    <3>2. CASE u # t
      <4>1. job[u].pc = "sending"
        BY <1>0, <2>1, <2>4, <3>2
      <4> QED
        BY <1>0, <2>1, <3>2, <4>1, SectionIsOwned
    <3> QED
      BY <3>1, <3>2
  <2> QED
    BY <2>3, <2>4 DEF RecordsMatch
<1> QED
  BY <1>1, <1>2, ForwardStep

----------------------------------------------------------------------------
(* What is placed, and what covers it *)

\* A refusal is recorded only of an order that cannot reach the exchange any more.
LEMMA RejectedStep ==
    Sound /\ RejectedMeansNotPlaced /\ [PlNext]_plVars => RejectedMeansNotPlaced'
<1> SUFFICES ASSUME Sound, RejectedMeansNotPlaced, [PlNext]_plVars,
                    NEW o \in Id, status'[o] = "REJECTED"
             PROVE  wire'[o] \in {"none", "dropped", "turned"}
  BY DEF RejectedMeansNotPlaced
<1>0. /\ wire \in [Id -> AtExchange \cup {"none", "authorized", "dropped"}]
      /\ status \in [Id -> Unresolved \cup {"ABSENT", "REJECTED", "SETTLED"}]
  BY DEF Sound, Placed, PlTypeOK
<1>1. ASSUME Forward, UNCHANGED status PROVE wire'[o] \in {"none", "dropped", "turned"}
  BY <1>1 DEF Forward, RejectedMeansNotPlaced
<1>2. ASSUME NEW u \in Id, Resolve(u) PROVE wire'[o] \in {"none", "dropped", "turned"}
  BY <1>0, <1>2 DEF Resolve, RejectedMeansNotPlaced
<1>3. ASSUME NEW t \in Task, LookupFails(t) \/ Answer(t) \/ Timeout(t)
      PROVE  wire'[o] \in {"none", "dropped", "turned"}
  <2>1. PICK v \in {"SUBMITTED", "REJECTED", "UNKNOWN"} :
           /\ status' \in {status, [status EXCEPT ![job[t].id] = v]}
           /\ v = "REJECTED" => wire'[job[t].id] \in {"dropped", "turned"}
    BY <1>3, EndShape
  <2>2. wire'[o] = wire[o] \/ (wire[o] = "authorized" /\ wire'[o] = "dropped")
    BY <1>3, EndShape
  <2>3. CASE status[o] = "REJECTED"
    BY <2>2, <2>3 DEF RejectedMeansNotPlaced
  <2>4. CASE status[o] # "REJECTED"
    BY <1>0, <2>1, <2>4
  <2> QED
    BY <2>3, <2>4
<1>4. ASSUME NEW t \in Task, Submit(t) PROVE wire'[o] \in {"none", "dropped", "turned"}
  <2>1. PICK u \in Id :
           /\ wire[u] = "none"
           /\ \/ /\ status' = [status EXCEPT ![u] = "CREATED"]
                 /\ wire' = [wire EXCEPT ![u] = "authorized"]
              \/ /\ status' = [status EXCEPT ![u] = "REJECTED"]
                 /\ UNCHANGED wire
    BY <1>4, SubmitShape
  <2> QED
    BY <1>0, <2>1 DEF RejectedMeansNotPlaced
<1> QED
  BY <1>1, <1>2, <1>3, <1>4, ForwardStep
     DEF PlNext, plVars, Tick, Poll, OtherCommand, RemoveLock, StartCycle, Place, EndCycle,
         PrepareSell, PrepareBuy, Prepare, Execute, Refuse, Finish, Post, Receive, Die, Begin,
         Cycle, Command

\* What an order costs is a number, and depends on its transaction alone.
LEMMA CostsAre ==
    ASSUME PlTypeOK
    PROVE  /\ \A o \in Id : Costs[o] \in Nat
           /\ UNCHANGED order => Costs' = Costs
<1>1. UNCHANGED order => Costs' = Costs
  BY DEF Costs, Cost
<1>2. ASSUME NEW o \in Id PROVE Costs[o] \in Nat
  <2>1. CASE order[o] = None
    BY <2>1 DEF Costs
  <2>2. CASE order[o] # None
    <3>1. order[o].qty \in Nat /\ order[o].price \in Nat
      BY <2>2, AmountsAssumption DEF PlTypeOK, Submitted
    <3>2. Cost(order[o]) \in Nat
      BY <3>1, CostNat DEF Cost
    <3> QED
      BY <2>2, <3>2 DEF Costs
  <2> QED
    BY <2>1, <2>2
<1> QED
  BY <1>1, <1>2

\* The orders whose quote is reserved.
ReservedFor == {o \in Id : status[o] \in Unresolved /\ order[o].side = "BUY"}

LEMMA ReservedIs ==
    ASSUME PlTypeOK
    PROVE  /\ IsFiniteSet(ReservedFor) /\ ReservedFor \subseteq Id
           /\ Reserved = SumFunctionOnSet(Costs, ReservedFor)
           /\ Reserved \in Nat
<1>1. IsFiniteSet(ReservedFor) /\ ReservedFor \subseteq Id
  BY AmountsAssumption, FS_Subset DEF ReservedFor
<1>2. Reserved = SumFunctionOnSet(Costs, ReservedFor)
  BY DEF Reserved, ReservedFor
<1>3. \A o \in ReservedFor : Costs[o] \in Nat
  BY <1>1, CostsAre
<1> DEFINE f == Costs
           S == ReservedFor
<1>4. IsFiniteSet(S) /\ S \subseteq S /\ \A o \in S : f[o] \in Nat
  BY <1>1, <1>3
<1> HIDE DEF f, S
<1>5. SumFunctionOnSet(f, S) \in Nat
  BY <1>4, SumLe
<1> QED
  BY <1>1, <1>2, <1>5 DEF f, S

\* No step but a submission reserves more.
LEMMA ReservedShrinks ==
    ASSUME PlTypeOK, Forward PROVE Reserved' <= Reserved /\ Reserved' \in Nat
<1>1. status \in [Id -> Unresolved \cup {"ABSENT", "REJECTED", "SETTLED"}]
  BY DEF PlTypeOK
<1>2. ReservedFor' \subseteq ReservedFor
  BY <1>1 DEF Forward, ReservedFor, Unresolved
<1>3. Costs' = Costs
  BY CostsAre DEF Forward
<1>4. Reserved' = SumFunctionOnSet(Costs, ReservedFor')
  BY <1>3 DEF Reserved, ReservedFor
<1>5. IsFiniteSet(ReservedFor) /\ \A o \in ReservedFor : Costs[o] \in Nat
  BY ReservedIs, CostsAre
<1> DEFINE f == Costs
           S == ReservedFor
           T == ReservedFor'
<1>6. IsFiniteSet(S) /\ T \subseteq S /\ \A o \in S : f[o] \in Nat
  BY <1>2, <1>5
<1> HIDE DEF f, S, T
<1>7. SumFunctionOnSet(f, T) \in Nat /\ SumFunctionOnSet(f, T) <= SumFunctionOnSet(f, S)
  BY <1>6, SumLe
<1> QED
  BY <1>4, <1>7, ReservedIs DEF f, S, T

\* What a submission does to the reserved quote.
LEMMA SubmitReserves ==
    ASSUME Sound, NEW o \in Id, NEW want \in Submitted,
           status[o] = "ABSENT", order' = [order EXCEPT ![o] = want],
           NEW s \in {"CREATED", "REJECTED"}, status' = [status EXCEPT ![o] = s]
    PROVE  /\ Cost(want) \in Nat
           /\ Reserved' = IF s = "CREATED" /\ want.side = "BUY"
                          THEN Reserved + Cost(want) ELSE Reserved
<1>0. /\ status \in [Id -> Unresolved \cup {"ABSENT", "REJECTED", "SETTLED"}]
      /\ order \in [Id -> {None} \cup Submitted] /\ PlTypeOK
  BY DEF Sound, Placed, PlTypeOK
<1>1. want # None
  BY <1>0, CapabilitiesAre, NoneAssumption DEF Submitted
<1>2. Cost(want) \in Nat
  <2>1. want.qty \in Nat /\ want.price \in Nat
    BY AmountsAssumption DEF Submitted
  <2> QED
    BY <2>1, CostNat DEF Cost
<1>3. o \notin ReservedFor
  BY DEF ReservedFor, Unresolved
<1> DEFINE f == Costs
           g == Costs'
           S == ReservedFor
           T == ReservedFor'
<1>4. g[o] = Cost(want)
  <2>1. g[o] = IF order'[o] = None THEN 0 ELSE Cost(order'[o])
    BY DEF Costs, Cost
  <2> QED
    BY <1>0, <1>1, <2>1
<1>5. \A i \in Id \ {o} : g[i] = f[i]
  BY <1>0 DEF Costs, Cost
<1>6. IsFiniteSet(S) /\ S \subseteq Id /\ \A i \in S : f[i] \in Nat
  BY <1>0, ReservedIs, CostsAre
<1>7. T = IF s = "CREATED" /\ want.side = "BUY" THEN S \cup {o} ELSE S
  BY <1>0, <1>3 DEF ReservedFor, Unresolved
<1>8. Reserved = SumFunctionOnSet(f, S) /\ Reserved' = SumFunctionOnSet(g, T)
  BY DEF Reserved, ReservedFor
<1> HIDE DEF f, g, S, T
<1>9. SumFunctionOnSet(g, S) = SumFunctionOnSet(f, S)
  <2>1. \A i \in S : g[i] = f[i]
    BY <1>3, <1>5, <1>6 DEF S
  <2> QED
    BY <1>6, <2>1, SumSame
<1>10. SumFunctionOnSet(g, S \cup {o}) = g[o] + SumFunctionOnSet(g, S)
  <2>1. o \notin S /\ (\A i \in S : g[i] \in Int) /\ g[o] \in Int
    BY <1>2, <1>3, <1>4, <1>5, <1>6 DEF S
  <2> QED
    BY <1>6, <2>1, SumAdd
<1>11. SumFunctionOnSet(f, S) \in Nat
  BY <1>6, SumLe
<1> QED
  BY <1>2, <1>4, <1>7, <1>8, <1>9, <1>10, <1>11

\* The managed book covers what is being sent: it is checked inside the section, and
\* other commands wait for the lock.
LEMMA CoveredStep ==
    Sound /\ CoveredWhileSending /\ [PlNext]_plVars => CoveredWhileSending'
<1> SUFFICES ASSUME Sound, CoveredWhileSending, [PlNext]_plVars PROVE CoveredWhileSending'
  OBVIOUS
<1>0. /\ job \in [Task -> Job] /\ order \in [Id -> {None} \cup Submitted]
      /\ book.cash \in Nat /\ book.pos \in Nat
      /\ Placed /\ PlTypeOK
  BY AmountsAssumption DEF Sound, Placed, PlTypeOK
<1>1. ASSUME Forward, \A t \in Task : ~Submit(t) PROVE CoveredWhileSending'
  <2>1. Reserved' <= Reserved /\ Reserved' \in Nat /\ Reserved \in Nat
    BY <1>0, <1>1, ReservedShrinks, ReservedIs
  <2>2. \A u \in Task : job'[u].pc = "sending" => job'[u] = job[u]
    BY <1>0, <1>1, SendingStep
  <2>3. CASE UNCHANGED book
    <3>1. Reserved' <= book'.cash
      BY <1>0, <2>1, <2>3 DEF CoveredWhileSending
    <3>2. \A t \in Task : job'[t].pc = "sending" /\ order'[job'[t].id].side = "SELL"
             => order'[job'[t].id].qty <= book'.pos
      BY <1>1, <2>2, <2>3 DEF CoveredWhileSending, Forward
    <3> QED
      BY <3>1, <3>2 DEF CoveredWhileSending
  <2>4. CASE OtherCommand
    <3>1. \A t \in Task : job[t].pc # "sending"
      BY <1>0, <2>4, SectionIsOwned DEF OtherCommand
    <3>2. Reserved' <= book'.cash
      <4>1. book' \in Book /\ book'.cash >= Reserved /\ book'.cash \in Nat
        BY <2>4, AmountsAssumption DEF OtherCommand
      <4> QED
        BY <2>1, <4>1
    <3> QED
      BY <2>2, <3>1, <3>2 DEF CoveredWhileSending
  <2> QED
    BY <1>1, <2>3, <2>4
       DEF PlNext, plVars, Tick, Poll, RemoveLock, StartCycle, Place, EndCycle, PrepareSell,
           PrepareBuy, Prepare, Execute, Refuse, Finish, LookupFails, Answer, Timeout, Record,
           Post, Receive, Resolve, Die, Begin, Cycle, Command
<1>2. ASSUME NEW t \in Task, Submit(t) PROVE CoveredWhileSending'
  <2>1. PICK o \in Id, want \in Submitted :
           /\ status[o] = "ABSENT" /\ job[t].pc = "validating" /\ Covered(want)
           /\ order' = [order EXCEPT ![o] = want] /\ UNCHANGED book
           /\ \/ /\ status' = [status EXCEPT ![o] = "CREATED"]
                 /\ job' = [job EXCEPT ![t] = [pc |-> "sending", id |-> o, since |-> clock]]
              \/ /\ status' = [status EXCEPT ![o] = "REJECTED"]
                 /\ job' = [job EXCEPT ![t] = Idle]
    BY <1>2, SubmitShape
  <2>2. PICK s \in {"CREATED", "REJECTED"} : status' = [status EXCEPT ![o] = s]
    BY <2>1
  <2>3. /\ Cost(want) \in Nat
        /\ Reserved' = IF s = "CREATED" /\ want.side = "BUY"
                       THEN Reserved + Cost(want) ELSE Reserved
    BY <2>1, <2>2, SubmitReserves
  <2>4. Reserved' <= book'.cash
    <3>1. want.side = "BUY" => Cost(want) <= book.cash - Reserved
      BY <2>1 DEF Covered
    <3>2. Reserved \in Nat /\ Reserved <= book.cash
      BY <1>0, ReservedIs DEF CoveredWhileSending
    <3> QED
      BY <1>0, <2>1, <2>3, <3>1, <3>2
  <2>5. ASSUME NEW u \in Task, job'[u].pc = "sending", order'[job'[u].id].side = "SELL"
        PROVE  order'[job'[u].id].qty <= book'.pos
    <3>1. u = t
      <4>1. CASE u # t
        BY <1>0, <2>1, <2>5, <4>1, SectionIsOwned
      <4> QED
        BY <4>1
    <3>2. job'[t].id = o /\ order'[o] = want
      BY <1>0, <2>1, <2>5, <3>1 DEF Idle
    <3> QED
      BY <2>1, <2>5, <3>1, <3>2 DEF Covered
  <2> QED
    BY <2>4, <2>5 DEF CoveredWhileSending
<1> QED
  BY <1>1, <1>2, ForwardStep

----------------------------------------------------------------------------
(* Who holds a capability *)

Entitled == Sound /\ CapabilityHeld

\* The task of a submission holds the capability it submits under.
LEMMA SubmitCapability ==
    ASSUME Entitled, NEW t \in Task, job[t].pc = "validating"
    PROVE  /\ t \in Command =>
                /\ token \in Capability /\ job[t].cap = token
                /\ shown[token] = job[t].want /\ shown[token] # None
           /\ t \notin Command =>
                /\ t \in Cycle /\ session \in Registered
                /\ job[t].cap = session.cap /\ shown[job[t].cap] = None
<1>1. t \in Cycle \cup Command
  BY DEF Entitled, Sound, Placed, JobsInPlace, Idle
<1>2. token \in {0} \cup Capability /\ session \in {None} \cup Registered
  BY PlTypeParts DEF Entitled, Sound, Placed
<1> QED
  BY <1>1, <1>2 DEF Entitled, CapabilityHeld

\* The authorization goes when the command's task ends or its order is authorized.
LEMMA TokenStep ==
    ASSUME Entitled, [PlNext]_plVars
    PROVE  \/ UNCHANGED token
           \/ token' = 0 /\ \A u \in Command : job'[u].pc \in {"idle", "sending"}
           \/ \E u \in Command : PrepareSell(u) \/ PrepareBuy(u)
<1> DEFINE Goal == \/ UNCHANGED token
                   \/ token' = 0 /\ \A u \in Command : job'[u].pc \in {"idle", "sending"}
                   \/ \E u \in Command : PrepareSell(u) \/ PrepareBuy(u)
<1>0. job \in [Task -> Job] /\ Idle.pc = "idle" /\ Sound
  BY DEF Entitled, Sound, Placed, PlTypeOK, Idle
<1>1. ASSUME NEW t \in Task, NEW j, job' = [job EXCEPT ![t] = j],
             j.pc \in {"idle", "sending"}, token' = IF t \in Command THEN 0 ELSE token
      PROVE  Goal
  <2>1. CASE t \in Command
    <3>1. ASSUME NEW u \in Command PROVE job'[u].pc \in {"idle", "sending"}
      <4>1. u = t
        BY <2>1, OneTask
      <4> QED
        BY <1>0, <1>1, <4>1
    <3> QED
      BY <1>1, <2>1, <3>1
  <2>2. CASE t \notin Command
    BY <1>1, <2>2
  <2> QED
    BY <2>1, <2>2
<1>2. ASSUME NEW t \in Task, Refuse(t) PROVE Goal
  <2>1. job' = [job EXCEPT ![t] = Idle] /\ token' = IF t \in Command THEN 0 ELSE token
    BY <1>2 DEF Refuse, Finish, Forget
  <2> QED
    BY <1>0, <1>1, <2>1
<1>3. ASSUME NEW t \in Task, LookupFails(t) \/ Answer(t) \/ Timeout(t) PROVE Goal
  <2>1. job' = [job EXCEPT ![t] = Idle] /\ token' = IF t \in Command THEN 0 ELSE token
    BY <1>0, <1>3, EndShape DEF Forget
  <2> QED
    BY <1>0, <1>1, <2>1
<1>4. ASSUME NEW t \in Task, Submit(t) PROVE Goal
  <2>1. PICK o \in Id, want \in Submitted :
           /\ job[t].pc = "validating" /\ want.cap = job[t].cap
           /\ \/ /\ Consume(want)
                 /\ job' = [job EXCEPT ![t] = [pc |-> "sending", id |-> o, since |-> clock]]
              \/ /\ job' = [job EXCEPT ![t] = Idle]
                 /\ Forget(t)
    <3>1. PICK o \in Id, want \in Submitted :
             /\ want = [side |-> job[t].want.side, qty |-> job[t].want.qty,
                        price |-> job[t].want.price, cap |-> job[t].cap]
             /\ job[t].pc = "validating"
             /\ \/ /\ Consume(want)
                   /\ job' = [job EXCEPT ![t] = [pc |-> "sending", id |-> o, since |-> clock]]
                \/ /\ job' = [job EXCEPT ![t] = Idle]
                   /\ Forget(t)
      BY <1>0, <1>4, SubmitShape
    <3> QED
      BY <3>1
  <2>2. CASE job' = [job EXCEPT ![t] = Idle] /\ Forget(t)
    BY <1>0, <1>1, <2>2 DEF Forget
  <2>3. CASE /\ Consume(want)
             /\ job' = [job EXCEPT ![t] = [pc |-> "sending", id |-> o, since |-> clock]]
    <3>1. token' = IF t \in Command THEN 0 ELSE token
      BY <2>1, <2>3, SubmitCapability DEF Consume, OfCommand
    <3> DEFINE j == [pc |-> "sending", id |-> o, since |-> clock]
    <3>2. job' = [job EXCEPT ![t] = j] /\ j.pc = "sending"
      BY <2>3
    <3> HIDE DEF j
    <3> QED
      BY <1>1, <3>1, <3>2
  <2> QED
    BY <2>1, <2>2, <2>3
<1>5. ASSUME NEW p \in Process, Die(p) PROVE Goal
  BY <1>0, <1>5 DEF Die, Command
<1>6. CASE UNCHANGED token
  BY <1>6
<1> QED
  BY <1>2, <1>3, <1>4, <1>5, <1>6
     DEF PlNext, plVars, Tick, Poll, OtherCommand, RemoveLock, StartCycle, Place, EndCycle,
         Execute, Post, Receive, Resolve, Begin, Cycle, Command

\* The session changes when an order is charged to it, or with its process.
LEMMA SessionStep ==
    ASSUME Entitled, [PlNext]_plVars
    PROVE  \/ UNCHANGED session
           \/ session' = None /\ \A u \in Cycle : job'[u] = Idle
           \/ \E t \in Task : Submit(t)
           \/ Begin(Eng) /\ Eng \notin up /\ session' = NewSession /\ Mint(None) /\ UNCHANGED job
<1>1. ASSUME NEW p \in Process, Die(p), p = Eng
      PROVE  session' = None /\ \A u \in Cycle : job'[u] = Idle
  BY <1>1 DEF Die, Cycle
<1>2. ASSUME NEW p \in Process, Begin(p), p = Eng
      PROVE  Begin(Eng) /\ Eng \notin up /\ session' = NewSession /\ Mint(None) /\ UNCHANGED job
  BY <1>2 DEF Begin, Restart
<1>3. ASSUME NEW p \in Process, Die(p) \/ Begin(p), p # Eng PROVE UNCHANGED session
  BY <1>3 DEF Die, Begin
<1>4. ASSUME NEW t \in Task, LookupFails(t) \/ Answer(t) \/ Timeout(t) PROVE UNCHANGED session
  BY <1>4 DEF LookupFails, Answer, Timeout, Record, Finish
<1> QED
  BY <1>1, <1>2, <1>3, <1>4
     DEF PlNext, plVars, Tick, Poll, OtherCommand, RemoveLock, StartCycle, Place, EndCycle,
         PrepareSell, PrepareBuy, Prepare, Execute, Refuse, Finish, Post, Receive, Resolve,
         Cycle, Command

\* A prepared command holds the authorization of the order it showed.
LEMMA PrepareShape ==
    ASSUME Placed, NEW t \in Command, PrepareSell(t) \/ PrepareBuy(t)
    PROVE  \E at \in Nat, want \in Transaction :
              /\ FreshAt(at, clock) /\ NoUnresolved /\ Mint(want)
              /\ token' = Cardinality(Minted) + 1
              /\ job[t] = Idle
              /\ job' = [job EXCEPT ![t] = [pc |-> "prompt", at |-> at, want |-> want]]
              /\ UNCHANGED session
<1>1. PICK p \in Price, at \in 0..clock : \E want \in Approvals(p) : Prepare(t, at, want)
  BY DEF PrepareSell, PrepareBuy
<1>2. PICK want \in Approvals(p) : Prepare(t, at, want)
  BY <1>1
<1>3. at \in Nat /\ want \in Transaction
  BY ApprovalsAre DEF Placed, PlTypeOK
<1> QED
  BY <1>2, <1>3 DEF Prepare

\* Capabilities stay with those they were made for.
LEMMA CapabilityStep == Entitled /\ [PlNext]_plVars => CapabilityHeld'
<1> SUFFICES ASSUME Entitled, [PlNext]_plVars PROVE CapabilityHeld'
  OBVIOUS
<1>0. /\ job \in [Task -> Job] /\ token \in {0} \cup Capability
      /\ session \in {None} \cup Registered
      /\ Placed /\ Sound /\ CapabilityHeld /\ PlTypeOK
  BY PlTypeParts DEF Entitled, Sound, Placed
<1>1. ASSUME NEW u \in Command
      PROVE  /\ job'[u].pc = "prompt" => token' # 0 /\ shown'[token'] = job'[u].want
             /\ job'[u].pc = "validating" =>
                   token' # 0 /\ job'[u].cap = token' /\ shown'[token'] = job'[u].want
  <2>0. u \in Task /\ u \notin Cycle
    BY OneTask DEF Command
  <2>1. CASE PrepareSell(u) \/ PrepareBuy(u)
    <3>1. PICK at \in Nat, want \in Transaction :
             /\ Mint(want) /\ token' = Cardinality(Minted) + 1
             /\ job' = [job EXCEPT ![u] = [pc |-> "prompt", at |-> at, want |-> want]]
      BY <1>0, <2>1, PrepareShape
    <3>2. token' # 0 /\ shown'[token'] = want
      BY <1>0, <3>1, MintShape, CapabilitiesAre
    <3> QED
      BY <1>0, <2>0, <3>1, <3>2
  <2>2. CASE Execute(u)
    <3>1. job[u].pc = "prompt" /\ UNCHANGED <<token, shown>>
          /\ job' = [job EXCEPT ![u] = [pc |-> "validating", want |-> job[u].want, cap |-> token]]
      BY <2>2 DEF Execute, Go
    <3> QED
      BY <1>0, <2>0, <3>1 DEF CapabilityHeld
  <2>3. CASE Submit(u)
    <3>1. PICK o : \/ job' = [job EXCEPT ![u] = [pc |-> "sending", id |-> o, since |-> clock]]
                   \/ job' = [job EXCEPT ![u] = Idle]
      BY <1>0, <2>0, <2>3, SubmitShape
    <3> QED
      BY <1>0, <2>0, <3>1 DEF Idle
  <2>4. CASE job'[u] = job[u] /\ job[u].pc \in {"prompt", "validating"}
    <3>1. ASSUME NEW t \in Command, PrepareSell(t) \/ PrepareBuy(t) PROVE FALSE
      <4>1. t = u
        BY OneTask
      <4> QED
        BY <1>0, <2>4, <3>1, <4>1, PrepareShape DEF Idle
    <3>2. UNCHANGED token
      BY <2>4, <3>1, TokenStep
    <3>3. token \in Capability
      BY <1>0, <2>4 DEF CapabilityHeld
    <3>4. shown'[token] = shown[token]
      BY <1>0, <3>3, ForwardStep, SubmitShape DEF Forward
    <3> QED
      BY <1>0, <2>4, <3>2, <3>4 DEF CapabilityHeld
  <2> QED
    BY <1>0, <2>0, <2>1, <2>2, <2>3, <2>4, JobStep
<1>2. ASSUME NEW u \in Cycle, job'[u].pc = "validating"
      PROVE  session' # None /\ job'[u].cap = session'.cap
  <2>0. u \in Task /\ u \notin Command
    BY OneTask DEF Cycle
  <2>1. CASE Place(u)
    <3>1. session # None /\ UNCHANGED session /\ \E want : Go(u, want, session.cap)
      BY <2>1 DEF Place, SessionLive
    <3> QED
      BY <1>0, <2>0, <3>1 DEF Go
  <2>2. CASE Submit(u)
    <3>1. PICK o : \/ job' = [job EXCEPT ![u] = [pc |-> "sending", id |-> o, since |-> clock]]
                   \/ job' = [job EXCEPT ![u] = Idle]
      BY <1>0, <2>0, <2>2, SubmitShape
    <3> QED
      BY <1>0, <1>2, <2>0, <3>1 DEF Idle
  <2>3. CASE job'[u] = job[u] /\ ~Submit(u)
    <3>1. ASSUME NEW t \in Task, Submit(t) PROVE FALSE
      BY <1>0, <1>2, <2>0, <2>3, <3>1, SectionIsOwned, SubmitShape
    <3>2. ASSUME Eng \notin up PROVE FALSE
      BY <1>0, <1>2, <2>0, <2>3, <3>2, SectionIsOwned DEF Cycle
    <3>3. UNCHANGED session
      BY <1>2, <3>1, <3>2, SessionStep DEF Idle
    <3> QED
      BY <1>0, <1>2, <2>3, <3>3 DEF CapabilityHeld
  <2> QED
    BY <1>0, <1>2, <2>0, <2>1, <2>2, <2>3, JobStep
<1>3. session' # None => shown'[session'.cap] = None
  <2>1. ASSUME NEW t \in Task, Submit(t) PROVE session' # None => shown'[session'.cap] = None
    <3>1. UNCHANGED shown
      BY <1>0, <2>1, SubmitShape
    <3>2. UNCHANGED session \/ \E want : Authorized(want) /\ ~OfCommand(want) /\ Consume(want)
      BY <1>0, <2>1, SubmitShape DEF Consume
    <3>3. ASSUME NEW want, Authorized(want), ~OfCommand(want), Consume(want)
          PROVE  session # None /\ session'.cap = session.cap
      <4>1. session \in Registered
        BY <1>0, <3>3 DEF Authorized, InSessionScope, SessionLive
      <4>2. session # None
        BY <3>3 DEF Authorized, InSessionScope, SessionLive
      <4>3. session' = [session EXCEPT !.orders = @ + 1, !.spent = @ + Cost(want)]
        BY <3>3 DEF Consume
      <4> QED
        BY <4>1, <4>2, <4>3 DEF Registered
    <3> QED
      BY <1>0, <3>1, <3>2, <3>3 DEF CapabilityHeld
  <2>2. CASE session' = NewSession /\ Mint(None)
    BY <1>0, <2>2, MintShape DEF NewSession
  <2>3. CASE UNCHANGED session /\ \A t \in Task : ~Submit(t)
    BY <1>0, <2>3, ForwardStep DEF Forward, CapabilityHeld, Registered
  <2> QED
    BY <2>1, <2>2, <2>3, SessionStep
<1>4. token' # 0 => shown'[token'] # None
  <2>1. ASSUME NEW u \in Command, PrepareSell(u) \/ PrepareBuy(u) PROVE shown'[token'] # None
    <3>1. PICK want \in Transaction : Mint(want) /\ token' = Cardinality(Minted) + 1
      BY <1>0, <2>1, PrepareShape
    <3>2. want # None
      BY NoneAssumption DEF Transaction
    <3> QED
      BY <1>0, <3>1, <3>2, MintShape
  <2>2. CASE UNCHANGED token
    <3>1. token # 0 => shown'[token] = shown[token]
      BY <1>0, ForwardStep, SubmitShape DEF Forward
    <3> QED
      BY <1>0, <2>2, <3>1 DEF CapabilityHeld
  <2> QED
    BY <2>1, <2>2, TokenStep
<1> QED
  BY <1>1, <1>2, <1>3, <1>4 DEF CapabilityHeld

----------------------------------------------------------------------------
(* What lives under a capability *)

Count(c) == Cardinality(LiveUnder(c))
Spent(c) == SumFunctionOnSet(Costs, LiveUnder(c))

LEMMA LiveIs ==
    ASSUME Sound, NEW c
    PROVE  /\ LiveUnder(c) \subseteq Id /\ IsFiniteSet(LiveUnder(c))
           /\ \A o \in LiveUnder(c) : /\ Costs[o] \in Nat /\ status[o] # "ABSENT"
                                      /\ order[o] \in Submitted /\ order[o].cap = c
           /\ Count(c) \in Nat /\ Spent(c) \in Nat
<1>1. LiveUnder(c) \subseteq Id /\ IsFiniteSet(LiveUnder(c))
  BY AmountsAssumption, FS_Subset DEF LiveUnder, Live
<1>2. \A o \in LiveUnder(c) : /\ status[o] # "ABSENT"
                              /\ order[o] \in Submitted /\ order[o].cap = c
  <2>1. order \in [Id -> {None} \cup Submitted]
    BY DEF Sound, Placed, PlTypeOK
  <2>2. \A o \in LiveUnder(c) : wire[o] # "none" /\ order[o].cap = c
    BY DEF LiveUnder, Live, AtExchange
  <2>3. \A o \in LiveUnder(c) : status[o] # "ABSENT" /\ order[o] # None
    BY <1>1, <2>2 DEF Sound, RecordsMatch
  <2> QED
    BY <1>1, <2>1, <2>2, <2>3
<1>3. \A o \in LiveUnder(c) : Costs[o] \in Nat
  BY <1>1, CostsAre DEF Sound, Placed
<1>4. Count(c) \in Nat
  BY <1>1, FS_CardinalityType DEF Count
<1> DEFINE f == Costs
           S == LiveUnder(c)
<1>5. IsFiniteSet(S) /\ S \subseteq S /\ \A o \in S : f[o] \in Nat
  BY <1>1, <1>3
<1> HIDE DEF f, S
<1>6. SumFunctionOnSet(f, S) \in Nat
  BY <1>5, SumLe
<1>7. Spent(c) \in Nat
  BY <1>6 DEF f, S, Spent
<1> QED
  BY <1>1, <1>2, <1>3, <1>4, <1>7

\* No step but a submission makes an order live.
LEMMA ForwardLive ==
    ASSUME Sound, Forward, NEW c
    PROVE  /\ Live' \subseteq Live
           /\ LiveUnder(c)' \subseteq LiveUnder(c)
           /\ Count(c)' \in Nat /\ Count(c)' <= Count(c)
           /\ Spent(c)' \in Nat /\ Spent(c)' <= Spent(c)
           /\ c \notin Capability => LiveUnder(c)' = {} /\ Count(c)' = 0 /\ Spent(c)' = 0
<1>1. Live' \subseteq Live
  BY DEF Forward, Live, AtExchange
<1>2. LiveUnder(c)' \subseteq LiveUnder(c)
  BY <1>1 DEF Forward, LiveUnder
<1>3. Costs' = Costs
  BY CostsAre DEF Forward, Sound, Placed
<1> DEFINE f == Costs
           S == LiveUnder(c)
           T == LiveUnder(c)'
<1>4. IsFiniteSet(S) /\ T \subseteq S /\ \A o \in S : f[o] \in Nat
  BY <1>2, LiveIs
<1>5. /\ Count(c) = Cardinality(S) /\ Count(c)' = Cardinality(T)
      /\ Spent(c) = SumFunctionOnSet(f, S) /\ Spent(c)' = SumFunctionOnSet(f, T)
  BY <1>3 DEF Count, Spent
<1>6. c \notin Capability => T = {}
  <2>1. ASSUME c \notin Capability, NEW o \in T PROVE FALSE
    BY <1>2, <2>1, LiveIs DEF Submitted
  <2> QED
    BY <2>1
<1>7. T = LiveUnder(c)'
  OBVIOUS
<1> HIDE DEF f, S, T
<1>8. SumFunctionOnSet(f, T) \in Nat /\ SumFunctionOnSet(f, T) <= SumFunctionOnSet(f, S)
  BY <1>4, SumLe
<1>9. Cardinality(T) \in Nat /\ Cardinality(T) <= Cardinality(S)
  BY <1>4, FS_Subset, FS_CardinalityType
<1>10. c \notin Capability => Cardinality(T) = 0 /\ SumFunctionOnSet(f, T) = 0
  BY <1>6, FS_EmptySet, SumEmpty
<1> QED
  BY <1>1, <1>2, <1>5, <1>6, <1>7, <1>8, <1>9, <1>10

\* A submission adds its order to what lives under its capability, if it is authorized.
LEMMA SubmitLive ==
    ASSUME Sound, NEW o \in Id, NEW want \in Submitted, status[o] = "ABSENT", wire[o] = "none",
           order' = [order EXCEPT ![o] = want], NEW c
    PROVE  /\ UNCHANGED wire =>
                /\ Live' = Live /\ LiveUnder(c)' = LiveUnder(c)
                /\ Count(c)' = Count(c) /\ Spent(c)' = Spent(c)
           /\ wire' = [wire EXCEPT ![o] = "authorized"] =>
                /\ Live' = Live \cup {o}
                /\ IF want.cap = c
                   THEN /\ LiveUnder(c)' = LiveUnder(c) \cup {o}
                        /\ Count(c)' = Count(c) + 1 /\ Spent(c)' = Spent(c) + Cost(want)
                   ELSE /\ LiveUnder(c)' = LiveUnder(c)
                        /\ Count(c)' = Count(c) /\ Spent(c)' = Spent(c)
<1>0. /\ order \in [Id -> {None} \cup Submitted] /\ PlTypeOK
      /\ wire \in [Id -> AtExchange \cup {"none", "authorized", "dropped"}]
  BY DEF Sound, Placed, PlTypeOK
<1>1. want # None
  BY <1>0, CapabilitiesAre, NoneAssumption DEF Submitted
<1>2. Cost(want) \in Nat
  <2>1. want.qty \in Nat /\ want.price \in Nat
    BY AmountsAssumption DEF Submitted
  <2> QED
    BY <2>1, CostNat DEF Cost
<1>3. o \notin Live
  BY DEF Live, AtExchange
<1> DEFINE f == Costs
           g == Costs'
           S == LiveUnder(c)
           T == LiveUnder(c)'
<1>4. g[o] = Cost(want)
  <2>1. g[o] = IF order'[o] = None THEN 0 ELSE Cost(order'[o])
    BY DEF Costs, Cost
  <2> QED
    BY <1>0, <1>1, <2>1
<1>5. \A i \in Id \ {o} : g[i] = f[i]
  BY <1>0 DEF Costs, Cost
<1>6. IsFiniteSet(S) /\ S \subseteq Id \ {o} /\ \A i \in S : f[i] \in Nat
  BY <1>3, LiveIs DEF LiveUnder
<1>7. /\ UNCHANGED wire => Live' = Live /\ T = S
      /\ wire' = [wire EXCEPT ![o] = "authorized"] =>
           Live' = Live \cup {o} /\ T = IF want.cap = c THEN S \cup {o} ELSE S
  BY <1>0, <1>3 DEF Live, LiveUnder
<1>8. /\ Count(c) = Cardinality(S) /\ Count(c)' = Cardinality(T)
      /\ Spent(c) = SumFunctionOnSet(f, S) /\ Spent(c)' = SumFunctionOnSet(g, T)
      /\ T = LiveUnder(c)' /\ S = LiveUnder(c)
  BY DEF Count, Spent
<1> HIDE DEF f, g, S, T
<1>9. SumFunctionOnSet(g, S) = SumFunctionOnSet(f, S)
  <2>1. \A i \in S : g[i] = f[i]
    BY <1>5, <1>6
  <2> QED
    BY <1>6, <2>1, SumSame
<1>10. SumFunctionOnSet(g, S \cup {o}) = g[o] + SumFunctionOnSet(g, S)
  <2>1. o \notin S /\ (\A i \in S : g[i] \in Int) /\ g[o] \in Int
    BY <1>2, <1>4, <1>5, <1>6
  <2> QED
    BY <1>6, <2>1, SumAdd
<1>11. Cardinality(S \cup {o}) = Cardinality(S) + 1
  BY <1>6, FS_AddElement
<1>12. SumFunctionOnSet(f, S) \in Nat
  BY <1>6, SumLe
<1>13. UNCHANGED wire => T = S /\ Cardinality(T) = Cardinality(S)
                      /\ SumFunctionOnSet(g, T) = SumFunctionOnSet(f, S)
  BY <1>7, <1>9
<1>14. T = S \cup {o} => /\ Cardinality(T) = Cardinality(S) + 1
                         /\ SumFunctionOnSet(g, T) = SumFunctionOnSet(f, S) + Cost(want)
  BY <1>2, <1>4, <1>9, <1>10, <1>11, <1>12
<1>15. T = S => Cardinality(T) = Cardinality(S) /\ SumFunctionOnSet(g, T) = SumFunctionOnSet(f, S)
  BY <1>9
<1> QED
  BY <1>7, <1>8, <1>13, <1>14, <1>15

----------------------------------------------------------------------------
(* Capabilities and what lives under them *)

\* What SubmitShape says, with the capability the order goes under.
LEMMA SubmitUnder ==
    ASSUME Entitled, NEW t \in Task, Submit(t)
    PROVE  \E o \in Id, want \in Submitted :
              /\ status[o] = "ABSENT" /\ wire[o] = "none"
              /\ order' = [order EXCEPT ![o] = want]
              /\ UNCHANGED shown
              /\ \/ /\ wire' = [wire EXCEPT ![o] = "authorized"]
                    /\ t \in Command /\ token \in Capability /\ want.cap = token
                    /\ shown[token] # None
                    /\ shown[token] = [side |-> want.side, qty |-> want.qty, price |-> want.price]
                    /\ token' = 0 /\ UNCHANGED session
                 \/ /\ wire' = [wire EXCEPT ![o] = "authorized"]
                    /\ session \in Registered /\ want.cap = session.cap
                    /\ shown[want.cap] = None /\ InSessionScope(want)
                    /\ session' = Charged(session, Cost(want)) /\ UNCHANGED token
                 \/ /\ UNCHANGED <<wire, session>> /\ token' \in {0, token}
<1>1. PICK o \in Id, want \in Submitted :
              /\ status[o] = "ABSENT" /\ order[o] = None /\ wire[o] = "none"
              /\ want = [side |-> job[t].want.side, qty |-> job[t].want.qty,
                         price |-> job[t].want.price, cap |-> job[t].cap]
              /\ job[t].pc = "validating"
              /\ order' = [order EXCEPT ![o] = want]
              /\ UNCHANGED shown
              /\ \/ /\ Authorized(want) /\ Consume(want)
                    /\ wire' = [wire EXCEPT ![o] = "authorized"]
                 \/ /\ Forget(t)
                    /\ UNCHANGED <<wire, session>>
  BY SubmitShape DEF Entitled
<1>2. CASE Forget(t) /\ UNCHANGED <<wire, session>>
  BY <1>1, <1>2 DEF Forget
<1>3. CASE Authorized(want) /\ Consume(want) /\ wire' = [wire EXCEPT ![o] = "authorized"]
  <2>1. job[t].want \in Transaction
    BY <1>1, JobFields DEF Entitled, Sound, Placed, PlTypeOK
  <2>2. CASE t \in Command
    <3>1. /\ token \in Capability /\ job[t].cap = token
          /\ shown[token] = job[t].want /\ shown[token] # None
      BY <1>1, <2>2, SubmitCapability
    <3>2. want.cap = token
      BY <1>1, <3>1
    <3>3. token' = 0 /\ UNCHANGED session
      BY <1>3, <3>1, <3>2 DEF Consume, OfCommand
    <3>4. job[t].want = [side |-> want.side, qty |-> want.qty, price |-> want.price]
      BY <1>1, <2>1 DEF Transaction
    <3> QED
      BY <1>1, <1>3, <2>2, <3>1, <3>2, <3>3, <3>4
  <2>3. CASE t \notin Command
    <3>1. session \in Registered /\ job[t].cap = session.cap /\ shown[job[t].cap] = None
      BY <1>1, <2>3, SubmitCapability
    <3>2. want.cap = session.cap /\ shown[want.cap] = None
      BY <1>1, <3>1
    <3>3. InSessionScope(want) /\ UNCHANGED token
      BY <1>3, <3>2 DEF Authorized, Consume, OfCommand
    <3>4. session' = Charged(session, Cost(want))
      BY <1>3, <3>2, Zenon DEF Consume, OfCommand, Charged
    <3> QED
      BY <1>1, <1>3, <3>1, <3>2, <3>3, <3>4
  <2> QED
    BY <2>2, <2>3
<1> QED
  BY <1>1, <1>2, <1>3

\* AuthorizationOnce, with the capability named.
Once ==
    /\ \A c : token = c /\ c # 0 => LiveUnder(c) = {}
    /\ \A o \in Live : \A c : order[o].cap = c /\ shown[c] # None =>
          /\ shown[c] = [side |-> order[o].side, qty |-> order[o].qty, price |-> order[o].price]
          /\ LiveUnder(c) = {o}

LEMMA OnceIs == (AuthorizationOnce <=> Once) /\ (AuthorizationOnce' <=> Once')
  BY DEF AuthorizationOnce, Once, OfCommand, LiveUnder

\* An authorization is used once, for the order it was shown with.
LEMMA AuthorizationStep ==
    Entitled /\ AuthorizationOnce /\ [PlNext]_plVars => AuthorizationOnce'
<1> SUFFICES ASSUME Entitled, Once, [PlNext]_plVars PROVE Once'
  BY OnceIs
<1>0. /\ Sound /\ Placed /\ PlTypeOK /\ CapabilityHeld
      /\ order \in [Id -> {None} \cup Submitted]
      /\ token \in {0} \cup Capability
  BY PlTypeParts DEF Entitled, Sound, Placed
<1>1. \A o \in Live : o \in Id /\ o \in LiveUnder(order[o].cap)
  BY DEF Live, LiveUnder
<1>2. \A o \in Live : order[o].cap \in Capability
  BY <1>0, <1>1, LiveIs DEF Submitted
<1>3. CASE Forward
  <2>0. Live' \subseteq Live /\ \A c : LiveUnder(c)' \subseteq LiveUnder(c)
    BY <1>0, <1>3, ForwardLive
  <2>1. ASSUME NEW c, token' = c, c # 0 PROVE LiveUnder(c)' = {}
    <3>1. CASE UNCHANGED token
      BY <2>0, <2>1, <3>1 DEF Once
    <3>2. ASSUME NEW u \in Command, PrepareSell(u) \/ PrepareBuy(u) PROVE LiveUnder(c)' = {}
      <4>1. PICK want \in Transaction : Mint(want) /\ token' = Cardinality(Minted) + 1
        BY <1>0, <3>2, PrepareShape
      <4>2. c \notin Capability
        BY <1>0, <2>1, <4>1, MintShape
      <4> QED
        BY <1>0, <1>3, <4>2, ForwardLive
    <3> QED
      BY <2>1, <3>1, <3>2, TokenStep
  <2>2. ASSUME NEW o \in Live', NEW c, order'[o].cap = c, shown'[c] # None
        PROVE  /\ shown'[c] = [side |-> order'[o].side, qty |-> order'[o].qty,
                               price |-> order'[o].price]
               /\ LiveUnder(c)' = {o}
    <3>1. o \in Live /\ UNCHANGED order
      BY <1>3, <2>0 DEF Forward
    <3>2. shown'[c] = shown[c]
      BY <1>2, <1>3, <2>2, <3>1 DEF Forward
    <3>3. /\ shown[c] = [side |-> order[o].side, qty |-> order[o].qty, price |-> order[o].price]
          /\ LiveUnder(c) = {o}
      BY <2>2, <3>1, <3>2 DEF Once
    <3>4. o \in LiveUnder(c)'
      BY <2>2 DEF LiveUnder
    <3> QED
      BY <2>0, <3>1, <3>2, <3>3, <3>4
  <2> QED
    BY <2>1, <2>2 DEF Once
<1>4. ASSUME NEW t \in Task, Submit(t) PROVE Once'
  <2>1. PICK o \in Id, want \in Submitted :
              /\ status[o] = "ABSENT" /\ wire[o] = "none"
              /\ order' = [order EXCEPT ![o] = want]
              /\ UNCHANGED shown
              /\ \/ /\ wire' = [wire EXCEPT ![o] = "authorized"]
                    /\ token \in Capability /\ want.cap = token
                    /\ shown[token] # None
                    /\ shown[token] = [side |-> want.side, qty |-> want.qty, price |-> want.price]
                    /\ token' = 0
                 \/ /\ wire' = [wire EXCEPT ![o] = "authorized"]
                    /\ shown[want.cap] = None
                    /\ UNCHANGED token
                 \/ /\ UNCHANGED wire /\ token' \in {0, token}
    BY <1>4, SubmitUnder
  <2>2. o \notin Live
    BY <2>1 DEF Live, AtExchange
  <2>3. \A i \in Live : order'[i] = order[i] /\ i # o
    BY <1>0, <2>1, <2>2
  <2>4. order'[o] = want
    BY <1>0, <2>1
  <2>5. UNCHANGED wire => Live' = Live /\ \A c : LiveUnder(c)' = LiveUnder(c)
    BY <1>0, <2>1, SubmitLive
  <2>6. wire' = [wire EXCEPT ![o] = "authorized"] =>
           /\ Live' = Live \cup {o}
           /\ \A c : LiveUnder(c)' = IF want.cap = c THEN LiveUnder(c) \cup {o} ELSE LiveUnder(c)
    BY <1>0, <2>1, SubmitLive
  <2>7. CASE UNCHANGED wire /\ token' \in {0, token}
    BY <2>1, <2>3, <2>5, <2>7 DEF Once
  <2>8. CASE /\ wire' = [wire EXCEPT ![o] = "authorized"]
             /\ shown[want.cap] = None
             /\ UNCHANGED token
    <3>1. token # 0 => shown[token] # None
      BY <1>0 DEF CapabilityHeld
    <3> QED
      BY <2>1, <2>3, <2>4, <2>6, <2>8, <3>1 DEF Once
  <2>9. CASE /\ wire' = [wire EXCEPT ![o] = "authorized"]
             /\ token \in Capability /\ want.cap = token
             /\ shown[token] = [side |-> want.side, qty |-> want.qty, price |-> want.price]
             /\ token' = 0
    <3>1. LiveUnder(token) = {} /\ token # 0
      BY <1>0, <2>9, CapabilitiesAre DEF Once
    <3>2. \A i \in Live : order[i].cap # token
      BY <3>1 DEF LiveUnder
    <3>3. ASSUME NEW i \in Live', NEW c, order'[i].cap = c, shown'[c] # None
          PROVE  /\ shown'[c] = [side |-> order'[i].side, qty |-> order'[i].qty,
                                 price |-> order'[i].price]
                 /\ LiveUnder(c)' = {i}
      <4>1. CASE i = o
        <5>1. c = token
          BY <2>4, <2>9, <3>3, <4>1
        <5>2. LiveUnder(c)' = LiveUnder(c) \cup {o} /\ LiveUnder(c) = {}
          BY <2>6, <2>9, <3>1, <5>1
        <5> QED
          BY <2>1, <2>4, <2>9, <4>1, <5>1, <5>2
      <4>2. CASE i # o
        <5>1. i \in Live /\ order'[i] = order[i]
          BY <2>3, <2>6, <2>9, <3>3, <4>2
        <5>2. c # want.cap
          BY <2>9, <3>2, <3>3, <5>1
        <5> QED
          BY <2>1, <2>6, <2>9, <3>3, <5>1, <5>2 DEF Once
      <4> QED
        BY <4>1, <4>2
    <3> QED
      BY <2>9, <3>3 DEF Once
  <2> QED
    BY <2>1, <2>7, <2>8, <2>9
<1> QED
  BY <1>3, <1>4, <1>0, ForwardStep

\* BudgetCharged, with the capability named.
Budget ==
    /\ session # None =>
          /\ session.orders <= SessionOrders /\ session.spent <= SessionNotional
          /\ \A c : session.cap = c => Count(c) <= session.orders /\ Spent(c) <= session.spent
    /\ \A c \in Capability : shown[c] = None =>
          Count(c) <= SessionOrders /\ Spent(c) <= SessionNotional

LEMMA BudgetIs == (BudgetCharged <=> Budget) /\ (BudgetCharged' <=> Budget')
<1>1. BudgetCharged <=> Budget
  BY DEF BudgetCharged, Budget, Count, Spent
<1>2. BudgetCharged' <=> Budget'
  BY DEF BudgetCharged, Budget, Count, Spent, LiveUnder, Live, Costs, Cost
<1> QED
  BY <1>1, <1>2

\* A session is charged for an order before the order can leave.
LEMMA BudgetStep == Entitled /\ BudgetCharged /\ [PlNext]_plVars => BudgetCharged'
<1> SUFFICES ASSUME Entitled, Budget, [PlNext]_plVars PROVE Budget'
  BY BudgetIs
<1>0. /\ Sound /\ Placed /\ PlTypeOK /\ CapabilityHeld
      /\ session \in {None} \cup Registered
      /\ SessionOrders \in Nat /\ SessionNotional \in Nat
  BY AmountsAssumption DEF Entitled, Sound, Placed, PlTypeOK
<1>1. \A c : Count(c) \in Nat /\ Spent(c) \in Nat
  BY <1>0, LiveIs
<1>2. CASE Forward /\ \A t \in Task : ~Submit(t)
  <2>1. \A c : /\ Count(c)' \in Nat /\ Count(c)' <= Count(c)
               /\ Spent(c)' \in Nat /\ Spent(c)' <= Spent(c)
               /\ c \notin Capability => Count(c)' = 0 /\ Spent(c)' = 0
    BY <1>0, <1>2, ForwardLive
  <2>2. ASSUME NEW c \in Capability', shown'[c] = None
        PROVE  Count(c)' <= SessionOrders /\ Spent(c)' <= SessionNotional
    <3>1. CASE c \in Capability
      <4>1. shown[c] = None
        BY <1>2, <2>2, <3>1 DEF Forward
      <4>2. Count(c) <= SessionOrders /\ Spent(c) <= SessionNotional
        BY <3>1, <4>1 DEF Budget
      <4> QED
        BY <1>0, <1>1, <2>1, <4>2
    <3>2. CASE c \notin Capability
      BY <1>0, <2>1, <3>2
    <3> QED
      BY <3>1, <3>2
  <2>3. ASSUME session' # None
        PROVE  /\ session'.orders <= SessionOrders /\ session'.spent <= SessionNotional
               /\ \A c : session'.cap = c =>
                     Count(c)' <= session'.orders /\ Spent(c)' <= session'.spent
    <3>1. CASE UNCHANGED session
      <4>1. session.orders \in Nat /\ session.spent \in Nat
        BY <1>0, <2>3, <3>1 DEF Registered
      <4> QED
        BY <1>1, <2>1, <2>3, <3>1, <4>1 DEF Budget
    <3>2. CASE session' = NewSession /\ Mint(None)
      <4>1. session'.orders = 0 /\ session'.spent = 0 /\ session'.cap = Cardinality(Minted) + 1
        BY <3>2 DEF NewSession
      <4>2. Cardinality(Minted) + 1 \notin Capability
        BY <1>0, <3>2, MintShape
      <4> QED
        BY <1>0, <2>1, <4>1, <4>2
    <3> QED
      BY <1>2, <2>3, <3>1, <3>2, SessionStep
  <2> QED
    BY <2>2, <2>3 DEF Budget
<1>3. ASSUME NEW t \in Task, Submit(t) PROVE Budget'
  <2>1. PICK o \in Id, want \in Submitted :
              /\ status[o] = "ABSENT" /\ wire[o] = "none"
              /\ order' = [order EXCEPT ![o] = want]
              /\ UNCHANGED shown
              /\ \/ /\ wire' = [wire EXCEPT ![o] = "authorized"]
                    /\ want.cap = token /\ shown[token] # None
                    /\ UNCHANGED session
                 \/ /\ wire' = [wire EXCEPT ![o] = "authorized"]
                    /\ session \in Registered /\ want.cap = session.cap
                    /\ InSessionScope(want)
                    /\ session' = Charged(session, Cost(want))
                 \/ /\ UNCHANGED <<wire, session>>
    BY <1>3, SubmitUnder
  <2>2. Capability' = Capability
    BY <2>1, SameCapabilities
  <2>3. UNCHANGED wire => \A c : Count(c)' = Count(c) /\ Spent(c)' = Spent(c)
    BY <1>0, <2>1, SubmitLive
  <2>4. wire' = [wire EXCEPT ![o] = "authorized"] =>
           \A c : IF want.cap = c
                  THEN Count(c)' = Count(c) + 1 /\ Spent(c)' = Spent(c) + Cost(want)
                  ELSE Count(c)' = Count(c) /\ Spent(c)' = Spent(c)
    BY <1>0, <2>1, SubmitLive
  <2>5. CASE UNCHANGED <<wire, session>>
    BY <2>1, <2>2, <2>3, <2>5 DEF Budget
  <2>6. CASE /\ wire' = [wire EXCEPT ![o] = "authorized"]
             /\ want.cap = token /\ shown[token] # None
             /\ UNCHANGED session
    <3>1. session # None => session.cap # token
      BY <1>0, <2>6 DEF CapabilityHeld
    <3> QED
      BY <2>1, <2>2, <2>4, <2>6, <3>1 DEF Budget
  <2>7. CASE /\ wire' = [wire EXCEPT ![o] = "authorized"]
             /\ session \in Registered /\ want.cap = session.cap
             /\ InSessionScope(want)
             /\ session' = Charged(session, Cost(want))
    <3>1. Cost(want) \in Nat
      <4>1. want.qty \in Nat /\ want.price \in Nat
        BY AmountsAssumption DEF Submitted
      <4> QED
        BY <4>1, CostNat DEF Cost
    <3>2. /\ session' \in Registered /\ session'.cap = session.cap
          /\ session'.orders = session.orders + 1
          /\ session'.spent = session.spent + Cost(want)
      BY <2>7, <3>1, ChargedIs
    <3>3. /\ session.orders \in Nat /\ session.spent \in Nat
          /\ session.orders + 1 <= SessionOrders
          /\ session.spent + Cost(want) <= SessionNotional
      BY <2>7 DEF InSessionScope, Registered
    <3>4. Count(session.cap) <= session.orders /\ Spent(session.cap) <= session.spent
      BY <2>7 DEF Budget, InSessionScope, SessionLive
    <3>5. \A c : c = session.cap => /\ Count(c)' <= session'.orders /\ Spent(c)' <= session'.spent
                                    /\ Count(c)' <= SessionOrders /\ Spent(c)' <= SessionNotional
      <4>1. ASSUME NEW c, c = session.cap
            PROVE  /\ Count(c)' <= session'.orders /\ Spent(c)' <= session'.spent
                   /\ Count(c)' <= SessionOrders /\ Spent(c)' <= SessionNotional
        <5>1. Count(c)' = Count(c) + 1 /\ Spent(c)' = Spent(c) + Cost(want)
          BY <2>4, <2>7, <4>1
        <5>2. Count(c) <= session.orders /\ Spent(c) <= session.spent
          BY <2>7, <4>1 DEF Budget, InSessionScope, SessionLive
        <5> QED
          BY <1>0, <1>1, <3>1, <3>2, <3>3, <5>1, <5>2
      <4> QED
        BY <4>1
    <3>6. \A c \in Capability : shown'[c] = None =>
             Count(c)' <= SessionOrders /\ Spent(c)' <= SessionNotional
      BY <2>1, <2>4, <2>7, <3>5 DEF Budget
    <3> QED
      BY <1>0, <2>2, <3>2, <3>3, <3>5, <3>6 DEF Budget
  <2> QED
    BY <2>1, <2>5, <2>6, <2>7
<1> QED
  BY <1>0, <1>2, <1>3, ForwardStep

----------------------------------------------------------------------------
(* Theorems *)

LEMMA PlIInvIs ==
    PlIInv <=> /\ Entitled /\ AuthorizationOnce /\ BudgetCharged
               /\ CoveredWhileSending /\ RejectedMeansNotPlaced
<1>1. LockIInv <=> LockTypeOK /\ HolderConsistent /\ \A t \in Task : section[t] # "guest"
  BY OneTaskEachAssumption DEF LockIInv, NoGuest
<1> QED
  BY <1>1 DEF PlIInv, Entitled, Sound, Placed, PlTypeOK

LEMMA PlIInvInit == PlInit => PlIInv
<1> SUFFICES ASSUME PlInit PROVE PlIInv
  OBVIOUS
<1>1. PlTypeOK /\ LockIInv
  BY PlInitOK, LockInitOK DEF PlInit
<1>2. JobsInPlace
  BY DEF PlInit, LockInit, JobsInPlace, Inside, Idle
<1>3. RecordsMatch
  BY DEF PlInit, RecordsMatch, Idle
<1>4. Live = {} /\ \A c : LiveUnder(c) = {}
  BY DEF PlInit, Live, LiveUnder, AtExchange
<1>5. CapabilityHeld
  <2>1. session = [orders |-> 0, spent |-> 0, until |-> SessionLife, cap |-> 1]
        /\ shown = [c \in {1} |-> None] /\ token = 0 /\ job = [t \in Task |-> Idle]
    BY DEF PlInit
  <2> QED
    BY <2>1 DEF CapabilityHeld, Idle, Command, Cycle
<1>6. AuthorizationOnce
  BY <1>4 DEF PlInit, AuthorizationOnce
<1>7. BudgetCharged
  <2>1. \A c : Count(c) = 0 /\ Spent(c) = 0
    BY <1>4, FS_EmptySet, SumEmpty DEF Count, Spent
  <2>2. SessionOrders \in Nat /\ SessionNotional \in Nat
    BY AmountsAssumption
  <2>3. session.orders = 0 /\ session.spent = 0
    BY DEF PlInit
  <2>4. Budget
    BY <2>1, <2>2, <2>3 DEF Budget
  <2> QED
    BY <2>4, BudgetIs
<1>8. CoveredWhileSending
  <2>1. ReservedFor = {}
    BY DEF PlInit, ReservedFor, Unresolved
  <2>2. Reserved = 0
    BY <2>1, SumEmpty DEF Reserved, ReservedFor
  <2>3. book.cash \in Nat
    BY AmountsAssumption DEF PlInit
  <2> QED
    BY <2>2, <2>3 DEF CoveredWhileSending, PlInit, Idle
<1>9. RejectedMeansNotPlaced
  BY DEF PlInit, RejectedMeansNotPlaced
<1> QED
  BY <1>1, <1>2, <1>3, <1>5, <1>6, <1>7, <1>8, <1>9, PlIInvIs DEF Entitled, Sound, Placed

LEMMA PlIInvStep == PlIInv /\ [PlNext]_plVars => PlIInv'
<1> SUFFICES ASSUME PlIInv, [PlNext]_plVars PROVE PlIInv'
  OBVIOUS
<1>0. /\ Entitled /\ Sound /\ Placed /\ PlTypeOK /\ CapabilityHeld /\ LockIInv
      /\ AuthorizationOnce /\ BudgetCharged /\ CoveredWhileSending /\ RejectedMeansNotPlaced
  BY PlIInvIs DEF Entitled, Sound, Placed
<1>1. PlTypeOK'
  BY <1>0, PlTypeStep
<1>2. LockIInv'
  BY <1>0, LockStep
<1>3. JobsInPlace' /\ RecordsMatch' /\ CapabilityHeld'
  BY <1>0, JobsStep, RecordsStep, CapabilityStep
<1>4. AuthorizationOnce' /\ BudgetCharged'
  BY <1>0, AuthorizationStep, BudgetStep
<1>5. CoveredWhileSending' /\ RejectedMeansNotPlaced'
  BY <1>0, CoveredStep, RejectedStep
<1>6. HolderConsistent' /\ \A t \in Task : section'[t] # "guest"
  BY <1>2, OneTaskEachAssumption DEF LockIInv, NoGuest, Serial
<1> QED
  BY <1>1, <1>3, <1>4, <1>5, <1>6 DEF PlIInv

LEMMA PlInvariant == PlSpec => []PlIInv
<1>1. PlInit => PlIInv
  BY PlIInvInit
<1>2. PlIInv /\ [PlNext]_plVars => PlIInv'
  BY PlIInvStep
<1> QED
  BY <1>1, <1>2, PTL DEF PlSpec

\* Every variable keeps its type (the types of job and order depend on the
\* capabilities minted so far).
THEOREM PlTypeCorrect == PlSpec => []PlTypeOK
<1>1. PlIInv => PlTypeOK
  BY DEF PlIInv
<1> QED
  BY <1>1, PlInvariant, PTL

\* The orders the exchange was sent under any one session, the present or a past one,
\* stay within its order count and its quote budget (AutonomousLiveSession).
THEOREM BudgetHolds == PlSpec => []SessionWithinBudget
<1>1. PlIInv => SessionWithinBudget
  <2> SUFFICES ASSUME PlIInv, NEW c \in Minted, shown[c] = None
               PROVE  LET sent == {o \in Id : wire[o] \in AtExchange /\ order[o].cap = c} IN
                      /\ Cardinality(sent) <= SessionOrders
                      /\ SumFunctionOnSet(Costs, sent) <= SessionNotional
    BY DEF SessionWithinBudget
  <2>0. Sound /\ c \in Capability /\ SessionOrders \in Nat /\ SessionNotional \in Nat
    BY PlIInvIs, CapabilitiesAre, AmountsAssumption DEF Entitled, PlIInv
  <2> DEFINE f == Costs
             S == LiveUnder(c)
             T == {o \in Id : wire[o] \in AtExchange /\ order[o].cap = c}
  <2>1. T \subseteq S
    BY DEF LiveUnder, Live
  <2>2. IsFiniteSet(S) /\ \A o \in S : f[o] \in Nat
    BY <2>0, LiveIs
  <2>3. Cardinality(S) <= SessionOrders /\ SumFunctionOnSet(f, S) <= SessionNotional
    BY <2>0 DEF PlIInv, BudgetCharged
  <2> HIDE DEF f, S, T
  <2>4. Cardinality(T) \in Nat /\ Cardinality(T) <= Cardinality(S) /\ Cardinality(S) \in Nat
    BY <2>1, <2>2, FS_Subset, FS_CardinalityType
  <2>5. SumFunctionOnSet(f, T) \in Nat /\ SumFunctionOnSet(f, T) <= SumFunctionOnSet(f, S)
    BY <2>1, <2>2, SumLe
  <2>6. SumFunctionOnSet(f, S) \in Nat
    BY <2>2, SumLe
  <2>7. Cardinality(T) <= SessionOrders /\ SumFunctionOnSet(f, T) <= SessionNotional
    BY <2>0, <2>3, <2>4, <2>5, <2>6
  <2> QED
    BY <2>7 DEF f, T
<1> QED
  BY <1>1, PlInvariant, PTL

\* What the command sends is what the operator saw, and he saw it for this order alone
\* (PreparedLiveOrder, ControlledLiveAuthorization).
THEOREM ConfirmedIsSent == PlSpec => []SentAsConfirmed
<1>1. PlIInv => SentAsConfirmed
  <2> SUFFICES ASSUME PlIInv, NEW o \in Id, wire[o] \in AtExchange, OfCommand(order[o])
               PROVE  /\ shown[order[o].cap] =
                            [side |-> order[o].side, qty |-> order[o].qty, price |-> order[o].price]
                      /\ \A u \in Id \ {o} : wire[u] \in AtExchange => order[u].cap # order[o].cap
    BY DEF SentAsConfirmed
  <2>1. o \in Live
    BY DEF Live
  <2>2. LiveUnder(order[o].cap) = {o}
    BY <2>1 DEF PlIInv, AuthorizationOnce
  <2>3. \A u \in Id : wire[u] \in AtExchange /\ order[u].cap = order[o].cap
                         => u \in LiveUnder(order[o].cap)
    BY DEF LiveUnder, Live
  <2> QED
    BY <2>1, <2>2, <2>3 DEF PlIInv, AuthorizationOnce
<1> QED
  BY <1>1, PlInvariant, PTL

\* While an order is being sent the managed book covers it (liveHooks).
THEOREM SendingIsCovered == PlSpec => []CoveredWhileSending
<1>1. PlIInv => CoveredWhileSending
  BY DEF PlIInv
<1> QED
  BY <1>1, PlInvariant, PTL

\* An order recorded as rejected will not reach the exchange (handleSubmissionError).
THEOREM RejectionIsDefinite == PlSpec => []RejectedMeansNotPlaced
<1>1. PlIInv => RejectedMeansNotPlaced
  BY DEF PlIInv
<1> QED
  BY <1>1, PlInvariant, PTL
=============================================================================
