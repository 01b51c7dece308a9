---------------------------- MODULE Dispatch_proofs ----------------------------
(***************************************************************************)
(* Proofs about automatic dispatch, for any tasks, workers, revisions,     *)
(* inputs, failed saves and restarts: controls reach only what they were   *)
(* typed for, nothing that was asked for before dispatch stopped starts a  *)
(* worker after it, and an approval whose start failed for good is not     *)
(* started automatically again.                                            *)
(*                                                                         *)
(* Two arguments carry it.  A toggle is bound to an epoch, and stopping    *)
(* moves on to an epoch that no earlier toggle carries, so that what still *)
(* matches was typed later.  The approval of a task never gets older while *)
(* the loaded snapshot advances, so that an approval that was spent is     *)
(* either no longer the current one or the one last attempted.             *)
(***************************************************************************)
EXTENDS Dispatch, FiniteSetTheorems, WellFoundedInduction, TLAPS

-----------------------------------------------------------------------------
(* The inductive invariant. *)

\* A request is of this or an earlier controller; a toggle of this controller's
\* epoch was typed after dispatch was last stopped.
RequestOK(id) ==
    /\ console[id].controller <= controller.incarnation
    /\ console[id].kind = "cancel" => console[id].worker \in cancels
    /\ console[id].kind # "cancel" /\ console[id].controller = controller.incarnation =>
          /\ console[id].epoch <= controller.epoch
          /\ console[id].epoch = controller.epoch => id > stoppedAt

RequestInv == \A id \in 1..Len(console) : RequestOK(id)

\* So was the toggle that is being checked, and the one that enabled dispatch.
StopInv ==
    /\ stoppedAt \in 0..Len(console)
    /\ pendingOn # 0 => pendingOn > stoppedAt
    /\ controller.enabled => controller.origin > stoppedAt

\* No start of the task failed for good under this approval or a later one.
Unspent(t, approval) == \A p \in spent : p[1] = t => p[2] < approval

\* A spent approval is an old one, or the one last attempted.
SpentOK(p) ==
    /\ p[2] <= Approval(p[1], view.revision)
    /\ p[2] = Approval(p[1], view.revision) => attempts[p[1]] = p[2]

SpentInv == spent \subseteq Tasks \X Nat /\ \A p \in spent : SpentOK(p)

\* A worker's approval was attempted; an automatic one was not spent.
WorkerOK(t) ==
    /\ workers[t].cancelled => workers[t].id \in cancels
    /\ t \in Active =>
          /\ workers[t].revision <= view.revision
          /\ Approval(t, workers[t].revision) = Approval(t, view.revision) =>
                attempts[t] = Approval(t, view.revision)
          /\ workers[t].source # 0 => Unspent(t, Approval(t, workers[t].revision))

WorkerInv == \A t \in Tasks : WorkerOK(t)

\* Nor was that of a launch that waits for its save.
LaunchInv ==
    barrier.kind = "launch" =>
        /\ barrier.task \notin Active
        /\ barrier.revision <= view.revision
        /\ barrier.approval = Approval(barrier.task, barrier.revision)
        /\ Unspent(barrier.task, barrier.approval)

IInv == TypeOK /\ RequestInv /\ StopInv /\ SpentInv /\ WorkerInv /\ LaunchInv

-----------------------------------------------------------------------------
(* The approval of a task in a snapshot. *)

LEMMA LimitTyped ==
    TypeOK => /\ limit.receipts \in Nat /\ limit.scopes \in Nat /\ limit.inputs \in Nat
              /\ limit.failures \in Nat /\ limit.restarts \in Nat
  BY DispatchBounds DEF TypeOK

LEMMA ConsoleTyped ==
    TypeOK => /\ console \in Seq(Request) /\ Len(console) \in Nat
              /\ \A id \in 1..Len(console) :
                    /\ console[id].kind \in {"on", "off", "cancel"}
                    /\ console[id].controller \in Nat /\ console[id].epoch \in Nat
<1> SUFFICES ASSUME TypeOK PROVE console \in Seq(Request)
  <2>1. \A request \in Request :
            /\ request.kind \in {"on", "off", "cancel"}
            /\ request.controller \in Nat /\ request.epoch \in Nat
    BY DEF Request
  <2> QED BY <2>1
<1> QED BY DEF TypeOK, ControlsOK

LEMMA ControllerTyped ==
    TypeOK => /\ controller \in [incarnation : 0..limit.restarts, epoch : Nat, enabled : BOOLEAN,
                                 origin : 0..Len(console)]
              /\ controller.incarnation \in Nat /\ controller.epoch \in Nat
              /\ controller.origin \in 0..Len(console)
<1> SUFFICES ASSUME TypeOK
             PROVE  controller \in [incarnation : 0..limit.restarts, epoch : Nat, enabled : BOOLEAN,
                                   origin : 0..Len(console)]
  BY LimitTyped
<1> QED BY DEF TypeOK, ControllerOK

LEMMA JournalTyped == TypeOK => journal \in Seq(Receipt) /\ Len(journal) \in Nat
  BY DEF TypeOK, StoreOK

\* Every set of natural numbers that is not empty has a least element.
LEMMA LeastNumber ==
    ASSUME NEW S \in SUBSET Nat, S # {}
    PROVE  \E x \in S : \A y \in S : x <= y
<1> DEFINE Less == {p \in Nat \X Nat : p[1] < p[2]}
<1>1. IsWellFoundedOn(Less, Nat)
  BY NatLessThanWellFounded DEF OpToRel
<1>2. PICK x \in S : \A y \in S : <<y, x>> \notin Less
  BY <1>1, WFMin
<1>3. ASSUME NEW y \in S PROVE x <= y
  <2>1. <<y, x>> \in Nat \X Nat /\ <<y, x>>[1] = y /\ <<y, x>>[2] = x
    OBVIOUS
  <2>2. ~(y < x)
    BY <1>2, <2>1
  <2> QED BY <2>2
<1> QED BY <1>3

LEMMA MaxOfNumbers ==
    ASSUME NEW n \in Nat, NEW S \in SUBSET (1..n), S # {}
    PROVE  Max(S) \in S /\ \A x \in S : x <= Max(S)
<1> DEFINE T == {n - x : x \in S}
<1>1. \A x \in S : x \in 1..n /\ n - x \in Nat
  OBVIOUS
<1>2. T \in SUBSET Nat /\ T # {}
  BY <1>1
<1> HIDE DEF T
<1>3. PICK low \in T : \A y \in T : low <= y
  BY <1>2, LeastNumber
<1>4. PICK high \in S : low = n - high
  BY <1>3 DEF T
<1>5. ASSUME NEW x \in S PROVE high >= x
  <2>1. n - x \in T
    BY DEF T
  <2> QED BY <1>1, <1>3, <1>4, <2>1
<1> QED BY <1>4, <1>5 DEF Max

\* The latest approval of the task in a journal, up to a revision.
ApprovalIn(j, t, r) ==
    LET approvals == {i \in 1..r : j[i] = [kind |-> "Approve", task |-> t]}
    IN IF approvals = {} THEN 0 ELSE Max(approvals)

LEMMA ApprovalRead ==
    ASSUME TypeOK, NEW t \in Tasks, NEW r \in 0..Len(journal)
    PROVE  Approval(t, r) = ApprovalIn(journal, t, r)
<1>1. r \in Nat /\ \A i \in 1..r : journal[i] \in Receipt
  BY JournalTyped
<1>2. {i \in Of(t, r) : journal[i].kind = "Approve"}
         = {i \in 1..r : journal[i] = [kind |-> "Approve", task |-> t]}
  BY <1>1 DEF Of, Receipt
<1> QED BY <1>2 DEF Approval, ApprovalIn

LEMMA ApprovalReadNext ==
    ASSUME journal' \in Seq(Receipt), NEW t \in Tasks, NEW r \in 0..Len(journal')
    PROVE  Approval(t, r)' = ApprovalIn(journal', t, r)
<1>1. r \in Nat /\ \A i \in 1..r : journal'[i] \in Receipt
  OBVIOUS
<1>2. {i \in Of(t, r)' : journal'[i].kind = "Approve"}
         = {i \in 1..r : journal'[i] = [kind |-> "Approve", task |-> t]}
  BY <1>1 DEF Of, Receipt
<1> QED BY <1>2 DEF Approval, ApprovalIn

\* An approval is one of the receipts, or there is none.
LEMMA ApprovalInJournal ==
    ASSUME NEW j, NEW t, NEW r \in Nat
    PROVE  /\ ApprovalIn(j, t, r) \in 0..r
           /\ ApprovalIn(j, t, r) # 0 => j[ApprovalIn(j, t, r)] = [kind |-> "Approve", task |-> t]
           /\ \A i \in 1..r : j[i] = [kind |-> "Approve", task |-> t] => i <= ApprovalIn(j, t, r)
<1> DEFINE A == {i \in 1..r : j[i] = [kind |-> "Approve", task |-> t]}
<1>1. A \in SUBSET (1..r)
  OBVIOUS
<1>2. ApprovalIn(j, t, r) = IF A = {} THEN 0 ELSE Max(A)
  BY DEF ApprovalIn
<1>3. A # {} => Max(A) \in A /\ \A x \in A : x <= Max(A)
  BY <1>1, MaxOfNumbers
<1> QED BY <1>1, <1>2, <1>3

\* A later snapshot shows the same approval or a later one.
LEMMA ApprovalGrows ==
    ASSUME NEW j, NEW t, NEW s \in Nat, NEW r \in 0..s
    PROVE  /\ ApprovalIn(j, t, r) \in 0..r /\ ApprovalIn(j, t, s) \in 0..s
           /\ ApprovalIn(j, t, r) <= ApprovalIn(j, t, s)
<1> r \in Nat
  OBVIOUS
<1>1. ApprovalIn(j, t, s) \in 0..s /\ ApprovalIn(j, t, r) \in 0..r
  BY ApprovalInJournal
<1>2. CASE ApprovalIn(j, t, r) = 0
  BY <1>1, <1>2
<1>3. CASE ApprovalIn(j, t, r) # 0
  <2>1. ApprovalIn(j, t, r) \in 1..s
    BY <1>1, <1>3
  <2>2. j[ApprovalIn(j, t, r)] = [kind |-> "Approve", task |-> t]
    BY <1>1, <1>3, ApprovalInJournal
  <2>3. \A i \in 1..s : j[i] = [kind |-> "Approve", task |-> t] => i <= ApprovalIn(j, t, s)
    BY ApprovalInJournal
  <2> QED BY <1>1, <2>1, <2>2, <2>3
<1> QED BY <1>2, <1>3

\* Receipts are only added.
JournalGrows ==
    /\ journal' \in Seq(Receipt) /\ Len(journal) <= Len(journal')
    /\ \A i \in 1..Len(journal) : journal'[i] = journal[i]

LEMMA ApprovalStays ==
    ASSUME TypeOK, JournalGrows, NEW t, NEW r \in 0..Len(journal)
    PROVE  ApprovalIn(journal', t, r) = ApprovalIn(journal, t, r)
<1>1. \A i \in 1..r : journal'[i] = journal[i]
  BY JournalTyped DEF JournalGrows
<1> QED BY <1>1 DEF ApprovalIn

LEMMA WriteGrows ==
    ASSUME TypeOK, limit' = limit, NEW kind \in {"Approve", "Start", "Finish"}, NEW t \in Tasks,
           Write(kind, t)
    PROVE  JournalGrows /\ Len(journal') <= limit.receipts
<1>1. [kind |-> kind, task |-> t] \in Receipt /\ limit.receipts \in Nat
  BY LimitTyped DEF Receipt
<1> QED BY <1>1 DEF Write, TypeOK, StoreOK, JournalGrows

LEMMA SameGrows == TypeOK /\ journal' = journal => JournalGrows
  BY DEF TypeOK, StoreOK, JournalGrows

-----------------------------------------------------------------------------
(* The workers. *)

LEMMA TasksFinite == IsFiniteSet(Tasks) /\ Active \subseteq Tasks /\ IsFiniteSet(Active)
                     /\ Cardinality(Active) \in Nat
<1>1. IsFiniteSet(Tasks) /\ Active \subseteq Tasks
  BY DispatchBounds DEF Active
<1> QED BY <1>1, FS_Subset, FS_CardinalityType

\* No worker was added.
NoNewWorker == \A t \in Tasks : workers'[t].at # "none" => workers[t].at # "none"

LEMMA FewWorkers ==
    ASSUME TypeOK, NoNewWorker
    PROVE  Cardinality(Active)' <= MaxWorkers
<1>1. Active' \subseteq Active
  BY DEF NoNewWorker, Active
<1>2. Cardinality(Active') <= Cardinality(Active) /\ Cardinality(Active') \in Nat
  BY <1>1, TasksFinite, FS_Subset, FS_CardinalityType
<1> QED BY <1>2, TasksFinite, DispatchBounds DEF TypeOK, WorkOK

-----------------------------------------------------------------------------
(* Stopping and refusing. *)

\* Dispatch is off, and no earlier toggle of this controller has its epoch.
Stopped ==
    /\ controller' \in [incarnation : {controller.incarnation}, epoch : Nat, enabled : {FALSE},
                        origin : {0}]
    /\ controller'.incarnation = controller.incarnation /\ controller'.epoch \in Nat
    /\ controller'.enabled = FALSE /\ controller'.origin = 0
    /\ busyReads' = 0 /\ pendingOn' = 0 /\ stoppedAt' = Len(console)
    /\ \A id \in 1..Len(console) :
          console[id].kind # "cancel" /\ console[id].controller = controller.incarnation =>
              console[id].epoch < controller'.epoch

Held == Stopped \/ KeepEnabled

LEMMA DisableStops == TypeOK /\ RequestInv /\ Disable => Stopped
<1> SUFFICES ASSUME TypeOK, RequestInv, Disable PROVE Stopped
  OBVIOUS
<1>1. /\ controller \in [incarnation : 0..limit.restarts, epoch : Nat, enabled : BOOLEAN,
                         origin : 0..Len(console)]
      /\ \A id \in 1..Len(console) : console[id].epoch \in Nat
  BY ConsoleTyped, ControllerTyped
<1>2. controller' = [incarnation |-> controller.incarnation,
                     epoch |-> IF EpochUsed THEN controller.epoch + 1 ELSE controller.epoch,
                     enabled |-> FALSE, origin |-> 0]
  BY <1>1 DEF Disable
<1>3. ASSUME NEW id \in 1..Len(console), console[id].kind # "cancel",
             console[id].controller = controller.incarnation
      PROVE  console[id].epoch < controller'.epoch
  BY <1>1, <1>2, <1>3 DEF EpochUsed, RequestInv, RequestOK
<1>4. /\ controller'.epoch \in Nat /\ controller'.incarnation = controller.incarnation
      /\ controller'.enabled = FALSE /\ controller'.origin = 0
      /\ controller' \in [incarnation : {controller.incarnation}, epoch : Nat, enabled : {FALSE},
                          origin : {0}]
  BY <1>1, <1>2
<1> QED BY <1>3, <1>4 DEF Stopped, Disable

\* Attempts only move on to the current approval, where they move.
AttemptsRise ==
    /\ attempts' \in [Tasks -> 0..Len(journal)]
    /\ \A t \in Tasks :
          \/ attempts'[t] = attempts[t]
          \/ attempts[t] < attempts'[t] /\ attempts'[t] <= Approval(t, view.revision)

LEMMA SameRises == TypeOK /\ UNCHANGED attempts => AttemptsRise
  BY DEF TypeOK, MemoryOK, AttemptsRise

LEMMA ViewTyped ==
    TypeOK => /\ view.revision \in 0..Len(journal) /\ view.revision \in Nat /\ Len(journal) \in Nat
              /\ view.scope \in Unknown..Len(scopes)
  BY JournalTyped DEF TypeOK, ViewOK

LEMMA RefuseHolds ==
    ASSUME IInv, barrier.kind = "launch", Refuse(barrier)
    PROVE  Held /\ AttemptsRise
<1> USE DEF IInv
<1>1. CASE controller.origin = barrier.id
  <2>1. Disable /\ attempts' = [attempts EXCEPT ![barrier.task] =
                                   IF @ > barrier.approval THEN @ ELSE barrier.approval]
    BY <1>1 DEF Refuse
  <2>2. barrier.task \in Tasks /\ barrier.approval \in 0..Len(journal)
        /\ barrier.revision \in 0..Len(journal) /\ attempts \in [Tasks -> 0..Len(journal)]
    BY JournalTyped DEF TypeOK, BarrierOK, MemoryOK, Command
  <2>3. /\ barrier.revision \in 0..view.revision
        /\ barrier.approval = Approval(barrier.task, barrier.revision)
    BY <2>2, ViewTyped DEF LaunchInv
  <2>4. barrier.approval <= Approval(barrier.task, view.revision)
    BY <2>2, <2>3, ViewTyped, ApprovalRead, ApprovalGrows
  <2>5. attempts[barrier.task] \in Nat /\ barrier.approval \in Nat
    BY <2>2, JournalTyped
  <2> QED BY <2>1, <2>2, <2>4, <2>5, DisableStops DEF Held, AttemptsRise
<1>2. CASE controller.origin # barrier.id
  BY <1>2, SameRises DEF Refuse, Held
<1> QED BY <1>1, <1>2

\* A controller that goes on or is stopped keeps what is known of the toggles.
LEMMA ControlsKept ==
    ASSUME IInv, Held, console' = console, cancels \subseteq cancels'
    PROVE  RequestInv' /\ StopInv'
<1> USE DEF IInv
<1>1. \A id \in 1..Len(console) : console[id].epoch \in Nat /\ console[id].controller \in Nat
  BY ConsoleTyped
<1>2. Len(console) \in Nat /\ controller.epoch \in Nat /\ controller.incarnation \in Nat
  BY ConsoleTyped, ControllerTyped
<1>3. CASE Stopped
  <2>1. controller'.epoch \in Nat /\ controller'.enabled = FALSE
    BY <1>3 DEF Stopped
  <2>2. RequestInv'
    BY <1>1, <1>2, <1>3, <2>1 DEF RequestInv, RequestOK, Stopped
  <2>3. StopInv'
    BY <1>2, <1>3, <2>1 DEF StopInv, Stopped
  <2> QED BY <2>2, <2>3
<1>4. CASE KeepEnabled
  BY <1>4 DEF RequestInv, RequestOK, StopInv, KeepEnabled
<1> QED BY <1>3, <1>4 DEF Held

-----------------------------------------------------------------------------
(* What is known of approvals. *)

ViewAdvances == view'.revision \in view.revision..Len(journal')

\* The approvals of a task before and after a step.
LEMMA ApprovalsMove ==
    ASSUME TypeOK, TypeOK', JournalGrows, ViewAdvances, NEW t \in Tasks
    PROVE  /\ Approval(t, view.revision) \in Nat /\ Approval(t, view.revision)' \in Nat
           /\ Approval(t, view.revision) <= Approval(t, view.revision)'
           /\ \A r \in 0..view.revision :
                 /\ Approval(t, r)' = Approval(t, r) /\ Approval(t, r) \in Nat
                 /\ Approval(t, r) <= Approval(t, view.revision)
<1>1. /\ view.revision \in 0..Len(journal) /\ Len(journal) \in Nat /\ Len(journal') \in Nat
      /\ Len(journal) <= Len(journal')
  BY ViewTyped DEF JournalGrows
<1>2. view'.revision \in 0..Len(journal') /\ view.revision \in 0..view'.revision
  BY <1>1 DEF ViewAdvances
<1>3. Approval(t, view.revision)' = ApprovalIn(journal', t, view'.revision)
  BY <1>2, ApprovalReadNext DEF JournalGrows, Approval, Of
<1>4. ASSUME NEW r \in 0..view.revision
      PROVE  /\ Approval(t, r)' = Approval(t, r) /\ Approval(t, r) = ApprovalIn(journal, t, r)
             /\ ApprovalIn(journal, t, r) = ApprovalIn(journal', t, r)
  <2>1. r \in 0..Len(journal) /\ r \in 0..Len(journal')
    BY <1>1
  <2> QED BY <2>1, ApprovalRead, ApprovalReadNext, ApprovalStays DEF JournalGrows
<1>5. /\ \A r \in 0..view.revision :
            ApprovalIn(journal, t, r) <= ApprovalIn(journal, t, view.revision)
      /\ \A r \in 0..view.revision : ApprovalIn(journal, t, r) \in Nat
      /\ ApprovalIn(journal', t, view.revision) <= ApprovalIn(journal', t, view'.revision)
      /\ ApprovalIn(journal', t, view'.revision) \in Nat
  BY <1>1, <1>2, ApprovalGrows
<1> QED BY <1>1, <1>3, <1>4, <1>5

\* Workers go on as they were started, or leave.
WorkGoes ==
    /\ workers' \in [Tasks -> Worker]
    /\ \A t \in Tasks :
          \/ workers'[t] = Nobody
          \/ /\ workers'[t].at = "none" <=> workers[t].at = "none"
             /\ workers'[t].id = workers[t].id /\ workers'[t].revision = workers[t].revision
             /\ workers'[t].source = workers[t].source
             /\ workers'[t].cancelled => workers[t].cancelled \/ workers[t].id \in cancels

\* Attempts rise to the current approval, or are withdrawn where it was not spent.
AttemptsMove ==
    \A t \in Tasks :
        \/ attempts'[t] = attempts[t]
        \/ attempts[t] < attempts'[t] /\ attempts'[t] <= Approval(t, view.revision)
        \/ Unspent(t, Approval(t, view.revision)) /\ t \notin Active'

\* What is spent is the approval of a worker that leaves.
Spends ==
    \A p \in spent' :
        \/ p \in spent
        \/ /\ p[1] \in Active /\ p[1] \notin Active' /\ p = <<p[1], p[2]>>
           /\ p[2] = Approval(p[1], workers[p[1]].revision) /\ attempts'[p[1]] = attempts[p[1]]

LEMMA AnswerWorks ==
    ASSUME TypeOK, NEW t \in Tasks, workers[t].at # "none", Len(journal') \in Nat,
           Len(journal) <= Len(journal'),
           NEW outcome \in {"ok", "stale", "busy", "denied", "uncertain"}, Answer(t, outcome)
    PROVE  WorkGoes /\ \A u \in Tasks : workers'[u].seen <= Len(journal')
<1>1. workers[t] \in Worker
  BY DEF TypeOK, WorkOK
<1>2. workers'[t] = [workers[t] EXCEPT !.at = "answered", !.outcome = outcome,
                                       !.seen = Len(journal')]
      /\ workers' = [workers EXCEPT ![t] = workers'[t]]
  BY DEF Answer, TypeOK, WorkOK
<1>3. workers'[t] \in Worker /\ workers'[t].at = "answered" /\ workers'[t].seen = Len(journal')
      /\ workers'[t].id = workers[t].id /\ workers'[t].revision = workers[t].revision
      /\ workers'[t].source = workers[t].source /\ workers'[t].cancelled = workers[t].cancelled
  BY <1>1, <1>2 DEF Worker
<1>4. /\ workers \in [Tasks -> Worker] /\ Len(journal) \in Nat
      /\ \A u \in Tasks : workers[u].seen \in Nat /\ workers[u].seen <= Len(journal)
  BY JournalTyped DEF TypeOK, WorkOK, Worker
<1>5. \A u \in Tasks : u # t => workers'[u] = workers[u]
  BY <1>2, <1>4
<1>6. workers' \in [Tasks -> Worker]
  BY <1>2, <1>3, <1>4
<1> QED BY <1>3, <1>4, <1>5, <1>6 DEF WorkGoes

LEMMA SameSpends == UNCHANGED spent => Spends
  BY DEF Spends

LEMMA WorkLeaves ==
    ASSUME TypeOK, WorkGoes
    PROVE  /\ NoNewWorker /\ Active' \subseteq Active
           /\ \A t \in Active' :
                 /\ workers'[t].revision = workers[t].revision
                 /\ workers'[t].source = workers[t].source
  BY DEF WorkGoes, NoNewWorker, Active, Nobody

\* A worker's approval is that of a revision that was loaded.
LEMMA WorkersApproval ==
    ASSUME IInv, TypeOK', JournalGrows, ViewAdvances, NEW t \in Active
    PROVE  /\ workers[t].revision \in 0..view.revision
           /\ Approval(t, workers[t].revision) \in Nat
           /\ Approval(t, workers[t].revision) <= Approval(t, view.revision)
           /\ Approval(t, view.revision) <= Approval(t, view.revision)'
           /\ Approval(t, view.revision) \in Nat /\ Approval(t, view.revision)' \in Nat
<1> USE DEF IInv
<1>1. t \in Tasks /\ workers[t] \in Worker /\ WorkerOK(t)
  BY DEF TypeOK, WorkOK, WorkerInv, Active
<1>2. workers[t].revision \in Nat
  BY <1>1 DEF Worker
<1>3. workers[t].revision \in 0..view.revision
  BY <1>1, <1>2, ViewTyped DEF WorkerOK
<1> QED BY <1>1, <1>3, ApprovalsMove

\* What is known of approvals stays.
LEMMA StartsKept ==
    ASSUME IInv, TypeOK', JournalGrows, ViewAdvances, AttemptsMove, WorkGoes, Spends,
           cancels \subseteq cancels'
    PROVE  SpentInv' /\ WorkerInv'
<1> USE DEF IInv
<1>1. view.revision \in Nat /\ view'.revision \in Nat /\ view.revision <= view'.revision
  BY ViewTyped DEF ViewAdvances, JournalGrows
<1>2. \A t \in Tasks : attempts[t] \in Nat /\ attempts'[t] \in Nat
  BY DEF TypeOK, MemoryOK
<1>3. ASSUME NEW p \in spent PROVE p[1] \in Tasks /\ p[2] \in Nat /\ SpentOK(p)'
  <2>1. p[1] \in Tasks /\ p[2] \in Nat /\ SpentOK(p)
    BY DEF SpentInv
  <2>2. Approval(p[1], view.revision)' = p[2] => Approval(p[1], view.revision) = p[2]
    BY <2>1, ApprovalsMove DEF SpentOK
  <2>3. p[2] <= Approval(p[1], view.revision)'
    BY <2>1, ApprovalsMove DEF SpentOK
  <2>4. Approval(p[1], view.revision) = p[2] => ~Unspent(p[1], Approval(p[1], view.revision))
    BY <2>1 DEF Unspent
  <2>5. Approval(p[1], view.revision) = p[2] => attempts'[p[1]] = p[2]
    BY <1>2, <2>1, <2>4 DEF SpentOK, AttemptsMove
  <2> QED BY <2>1, <2>2, <2>3, <2>5 DEF SpentOK
<1>4. ASSUME NEW p \in spent', p \notin spent
      PROVE  p \in Tasks \X Nat /\ SpentOK(p)' /\ p[1] \notin Active'
  <2>1. /\ p[1] \in Active /\ p[1] \in Tasks /\ p[1] \notin Active' /\ p = <<p[1], p[2]>>
        /\ p[2] = Approval(p[1], workers[p[1]].revision) /\ attempts'[p[1]] = attempts[p[1]]
    BY <1>4 DEF Spends, Active
  <2> DEFINE now == Approval(p[1], view.revision)
             next == Approval(p[1], view.revision)'
  <2>2. p[2] \in Nat /\ p[2] <= now /\ now <= next /\ now \in Nat /\ next \in Nat
    BY <2>1, WorkersApproval
  <2> HIDE DEF now, next
  <2>3. p[2] <= next /\ (p[2] = next => p[2] = now)
    BY <2>2
  <2> USE DEF now, next
  <2>4. p[2] = Approval(p[1], view.revision) => attempts[p[1]] = p[2]
    BY <2>1 DEF WorkerInv, WorkerOK
  <2>5. SpentOK(p)'
    BY <2>1, <2>3, <2>4 DEF SpentOK
  <2> QED BY <2>1, <2>2, <2>5
<1>5. ASSUME NEW t \in Tasks PROVE WorkerOK(t)'
  <2>1. workers[t] \in Worker /\ WorkerOK(t)
    BY DEF TypeOK, WorkOK, WorkerInv
  <2>2. workers'[t].cancelled => workers'[t].id \in cancels'
    BY <2>1 DEF WorkerOK, WorkGoes, Nobody
  <2>3. CASE t \in Active'
    <3>1. t \in Active /\ workers'[t].revision = workers[t].revision
          /\ workers'[t].source = workers[t].source
      BY <2>3, WorkLeaves
    <3>2. workers[t].revision \in 0..view.revision
      BY <3>1, WorkersApproval
    <3>3. workers'[t].revision <= view'.revision
      BY <1>1, <3>1, <3>2
    <3>4. Approval(t, workers[t].revision)' = Approval(t, workers[t].revision)
      BY <3>1, <3>2, ApprovalsMove DEF Approval, Of
    <3>5. workers'[t].source # 0 =>
              \A p \in spent' : p[1] = t => p[2] < Approval(t, workers[t].revision)
      BY <1>4, <2>1, <2>3, <3>1 DEF WorkerOK, Unspent
    <3>6. ASSUME Approval(t, workers[t].revision) = Approval(t, view.revision)'
          PROVE  attempts'[t] = Approval(t, view.revision)'
      <4>1. Approval(t, workers[t].revision) = Approval(t, view.revision)
            /\ Approval(t, view.revision) = Approval(t, view.revision)'
        BY <3>1, <3>6, WorkersApproval
      <4>2. attempts[t] = Approval(t, view.revision)
        BY <2>1, <3>1, <4>1 DEF WorkerOK
      <4> QED BY <1>2, <2>3, <4>1, <4>2 DEF AttemptsMove
    <3> QED BY <2>2, <3>1, <3>3, <3>4, <3>5, <3>6 DEF WorkerOK, Unspent
  <2>4. CASE t \notin Active'
    BY <2>2, <2>4 DEF WorkerOK
  <2> QED BY <2>3, <2>4
<1>6. SpentInv'
  <2>1. \A p \in spent' : SpentOK(p)'
    BY <1>3, <1>4
  <2>2. spent' \subseteq Tasks \X Nat
    BY <1>4 DEF SpentInv
  <2> QED BY <2>1, <2>2 DEF SpentInv
<1> QED BY <1>5, <1>6 DEF WorkerInv

\* So does what is known of the launch at the barrier, if it stays there.
LEMMA LaunchKept ==
    ASSUME IInv, TypeOK', JournalGrows, ViewAdvances, WorkGoes, Spends,
           barrier' = barrier \/ barrier'.kind # "launch"
    PROVE  LaunchInv'
<1> USE DEF IInv
<1> SUFFICES ASSUME barrier.kind = "launch", barrier' = barrier PROVE LaunchInv'
  BY DEF LaunchInv
<1>1. view.revision \in Nat /\ view'.revision \in Nat /\ view.revision <= view'.revision
  BY ViewTyped DEF ViewAdvances, JournalGrows
<1>2. barrier.task \in Tasks /\ barrier.revision \in 0..view.revision
      /\ barrier.task \notin Active
  BY <1>1 DEF TypeOK, BarrierOK, Command, LaunchInv
<1>3. Approval(barrier.task, barrier.revision)' = Approval(barrier.task, barrier.revision)
  BY <1>2, ApprovalsMove DEF Approval, Of
<1>4. barrier.task \notin Active'
  BY <1>2, WorkLeaves
<1>5. \A p \in spent' : p[1] = barrier.task => p \in spent
  BY <1>2 DEF Spends
<1> QED BY <1>1, <1>2, <1>3, <1>4, <1>5 DEF LaunchInv, Unspent

LEMMA QuietWork == TypeOK /\ UNCHANGED workers => WorkGoes
  BY DEF TypeOK, WorkOK, WorkGoes

LEMMA QuietView == TypeOK /\ JournalGrows /\ UNCHANGED view => ViewAdvances
  BY ViewTyped DEF ViewAdvances, JournalGrows

-----------------------------------------------------------------------------
(* What a step leaves alone keeps its type while the store and the console grow. *)

StoreGrows ==
    /\ limit' = limit /\ JournalGrows /\ Len(journal') <= limit.receipts
    /\ scopes' \in Seq(BOOLEAN) /\ Len(scopes) <= Len(scopes') /\ Len(scopes') <= limit.scopes

LEMMA SameStore == TypeOK /\ limit' = limit /\ UNCHANGED store => StoreGrows
  BY SameGrows DEF TypeOK, StoreOK, StoreGrows, store

ConsoleGrows == console' \in Seq(Request) /\ Len(console) <= Len(console')

LEMMA SameConsole == TypeOK /\ UNCHANGED console => ConsoleGrows
  BY DEF TypeOK, ControlsOK, ConsoleGrows

LEMMA TypesStay ==
    ASSUME TypeOK, StoreGrows, ConsoleGrows
    PROVE  /\ limit' \in Scenarios /\ StoreOK'
           /\ UNCHANGED <<controller, restarts>> => ControllerOK'
           /\ UNCHANGED view => ViewOK'
           /\ UNCHANGED memory => MemoryOK'
           /\ UNCHANGED controls => ControlsOK'
           /\ UNCHANGED barrier => BarrierOK'
           /\ UNCHANGED work => WorkOK'
           /\ UNCHANGED <<reading, call>> => ReadsOK'
<1>1. /\ Len(journal) \in Nat /\ Len(journal') \in Nat /\ Len(journal) <= Len(journal')
      /\ Len(scopes) \in Nat /\ Len(scopes') \in Nat /\ Len(scopes) <= Len(scopes')
      /\ Len(console) \in Nat /\ Len(console') \in Nat /\ Len(console) <= Len(console')
      /\ limit' = limit
  BY DEF TypeOK, StoreOK, ControlsOK, StoreGrows, JournalGrows, ConsoleGrows
<1>2. limit' \in Scenarios /\ StoreOK'
  BY <1>1 DEF TypeOK, StoreOK, StoreGrows, JournalGrows
<1>3. ASSUME UNCHANGED <<controller, restarts>> PROVE ControllerOK'
  BY <1>1, <1>3 DEF TypeOK, ControllerOK
<1>4. ASSUME UNCHANGED view PROVE ViewOK'
  BY <1>1, <1>4 DEF TypeOK, ViewOK, Unknown
<1>5. ASSUME UNCHANGED memory PROVE MemoryOK'
  BY <1>1, <1>5 DEF TypeOK, MemoryOK, memory
<1>6. ASSUME UNCHANGED controls PROVE ControlsOK'
  <2>1. checks \in Seq(Read) /\ Len(checks) = Len(console)
    BY DEF TypeOK, ControlsOK
  <2>2. \A id \in 1..Len(console) : checks[id].scope \in Nat
    <3>1. \A read \in Read : read.scope \in Nat
      BY DEF Read
    <3> QED BY <2>1, <3>1
  <2> QED BY <1>1, <1>6, <2>2 DEF TypeOK, ControlsOK, controls
<1>7. ASSUME UNCHANGED barrier PROVE BarrierOK'
  BY <1>1, <1>7 DEF TypeOK, BarrierOK, Command
<1>8. ASSUME UNCHANGED work PROVE WorkOK'
  <2>1. workers \in [Tasks -> Worker] /\ \A t \in Tasks : workers[t].seen \in Nat
    BY DEF TypeOK, WorkOK, Worker
  <2>2. Cardinality(Active)' = Cardinality(Active)
    BY <1>8 DEF Active, work
  <2> QED BY <1>1, <1>8, <2>1, <2>2 DEF TypeOK, WorkOK, work
<1>9. ASSUME UNCHANGED <<reading, call>> PROVE ReadsOK'
  BY <1>1, <1>9 DEF TypeOK, ReadsOK, Read
<1> QED BY <1>2, <1>3, <1>4, <1>5, <1>6, <1>7, <1>8, <1>9

-----------------------------------------------------------------------------
(* The records of the model. *)

LEMMA ReadTyped ==
    /\ NoRead \in Read /\ NoRead.revision = 0 /\ NoRead.scope = 0 /\ NoRead.done = FALSE
    /\ \A read \in Read : read.revision \in Nat /\ read.scope \in Nat
    /\ \A revision, scope \in Nat :
          [done |-> TRUE, revision |-> revision, scope |-> scope] \in Read
  BY DEF Read, NoRead

LEMMA NatTyped ==
    TypeOK => /\ Len(journal) \in Nat /\ Len(scopes) \in Nat /\ Len(console) \in Nat
              /\ Len(checks) = Len(console) /\ view.revision \in 0..Len(journal)
              /\ view.scope \in Unknown..Len(scopes) /\ barrier.id \in 0..Len(console)
              /\ reading.revision \in 0..Len(journal) /\ reading.scope \in 0..Len(scopes)
              /\ call.revision \in 0..Len(journal)
              /\ \A t \in Tasks : t \in Nat /\ t # 0
<1> SUFFICES ASSUME TypeOK
             PROVE  /\ barrier.id \in 0..Len(console) /\ Len(scopes) \in Nat
                    /\ Len(checks) = Len(console)
                    /\ reading.revision \in 0..Len(journal) /\ reading.scope \in 0..Len(scopes)
                    /\ call.revision \in 0..Len(journal)
  BY ViewTyped, ConsoleTyped, DispatchBounds
<1>1. barrier \in Command /\ barrier.id <= Len(console) /\ scopes \in Seq(BOOLEAN)
      /\ reading \in Read /\ reading.revision <= Len(journal) /\ reading.scope <= Len(scopes)
      /\ call \in Read /\ call.revision <= Len(journal) /\ Len(checks) = Len(console)
  BY DEF TypeOK, BarrierOK, ReadsOK, StoreOK, ControlsOK
<1>2. barrier.id \in Nat
  BY <1>1 DEF Command
<1> QED BY <1>1, <1>2, ReadTyped, ConsoleTyped, JournalTyped

-----------------------------------------------------------------------------
(* A controller that is stopped or goes on, and a control that is submitted. *)

LEMMA HeldTypes ==
    ASSUME TypeOK, Held, ConsoleGrows, limit' = limit
    PROVE  /\ UNCHANGED restarts => ControllerOK'
           /\ busyReads' \in 0..TransientLimit /\ pendingOn' \in 0..Len(console)
<1>1. Len(console) \in Nat /\ Len(console') \in Nat /\ Len(console) <= Len(console')
  BY NatTyped DEF ConsoleGrows
<1>2. ControllerOK /\ busyReads \in 0..TransientLimit /\ pendingOn \in 0..Len(console)
      /\ TransientLimit \in Nat
  BY DispatchBounds DEF TypeOK, MemoryOK, ControlsOK
<1>3. CASE Stopped
  <2>1. controller.incarnation \in 0..limit.restarts /\ controller.incarnation = restarts
    BY <1>2 DEF ControllerOK
  <2>2. UNCHANGED restarts => ControllerOK'
    <3>1. PICK e \in Nat : controller' = [incarnation |-> controller.incarnation, epoch |-> e,
                                          enabled |-> FALSE, origin |-> 0]
      BY <1>3 DEF Stopped
    <3>2. limit' = limit /\ 0 \in 0..Len(console')
      BY <1>1
    <3> QED BY <2>1, <3>1, <3>2 DEF ControllerOK
  <2> QED BY <1>1, <1>2, <1>3, <2>2 DEF Stopped
<1>4. CASE KeepEnabled
  BY <1>1, <1>2, <1>4 DEF KeepEnabled, ControllerOK
<1> QED BY <1>3, <1>4 DEF Held

LEMMA MemoryTypes ==
    ASSUME TypeOK, StoreGrows, busyReads' \in 0..TransientLimit, UNCHANGED transient,
           attempts' \in [Tasks -> 0..Len(journal)]
    PROVE  MemoryOK'
  BY NatTyped DEF TypeOK, MemoryOK, StoreGrows, JournalGrows

\* The control is typed now, for the controller as it is then.
OfNow(control) ==
    /\ control \in Request
    /\ control.controller = controller.incarnation /\ control.epoch = controller'.epoch
    /\ control.kind = "cancel" => control.worker \in cancels'

LEMMA SubmitTypes ==
    ASSUME TypeOK, limit' = limit, UNCHANGED <<store, acknowledged>>, NEW control \in Request,
           Submit(control), pendingOn' \in 0..Len(console)
    PROVE  /\ ConsoleGrows /\ ControlsOK' /\ BarrierOK' /\ barrier'.kind = "control"
           /\ Len(console') = Len(console) + 1 /\ console'[Len(console) + 1] = control
           /\ \A id \in 1..Len(console) : console'[id] = console[id]
<1>1. /\ console \in Seq(Request) /\ Len(scopes) \in Nat /\ UNCHANGED <<scopes, acknowledged>>
      /\ Len(console) \in Nat /\ checks \in Seq(Read) /\ Len(checks) = Len(console)
      /\ acknowledged \subseteq 1..Len(console)
      /\ \A id \in 1..Len(console) : checks[id].scope <= Len(scopes)
  BY NatTyped DEF TypeOK, ControlsOK, store
<1>2. console' = Append(console, control) /\ checks' = Append(checks, NoRead)
  BY DEF Submit
<1>3. /\ console' \in Seq(Request) /\ Len(console) \in Nat /\ Len(console') = Len(console) + 1
      /\ console'[Len(console) + 1] = control
      /\ \A id \in 1..Len(console) : console'[id] = console[id]
  BY <1>1, <1>2
<1>4. /\ checks' \in Seq(Read) /\ Len(checks') = Len(console')
      /\ \A id \in 1..Len(console') :
            \/ checks'[id] = NoRead
            \/ id \in 1..Len(console) /\ checks'[id] = checks[id]
  BY <1>1, <1>2, <1>3, ReadTyped
<1>5. ControlsOK'
  <2>1. \A id \in 1..Len(console') : checks'[id].scope <= Len(scopes)
    BY <1>1, <1>4, ReadTyped
  <2> QED BY <1>1, <1>3, <1>4, <2>1 DEF ControlsOK
<1>6. barrier' = [kind |-> "control", id |-> Len(console) + 1, task |-> 0, revision |-> 0,
                  approval |-> 0]
  BY DEF Submit, NoCommand
<1>7. BarrierOK' /\ barrier'.kind = "control"
  BY <1>3, <1>6, NatTyped DEF BarrierOK, Command, store
<1> QED BY <1>3, <1>5, <1>7 DEF ConsoleGrows

LEMMA HeldFacts ==
    ASSUME IInv, Held
    PROVE  /\ controller'.incarnation = controller.incarnation /\ controller'.epoch \in Nat
           /\ stoppedAt' \in 0..Len(console) /\ pendingOn' \in 0..Len(console)
<1> USE DEF IInv
<1>1. /\ Len(console) \in Nat /\ controller.epoch \in Nat /\ stoppedAt \in 0..Len(console)
      /\ pendingOn \in 0..Len(console)
  BY ControllerTyped, ConsoleTyped DEF StopInv, TypeOK, ControlsOK
<1>2. CASE Stopped
  BY <1>1, <1>2 DEF Stopped
<1>3. CASE KeepEnabled
  BY <1>1, <1>3 DEF KeepEnabled
<1> QED BY <1>2, <1>3 DEF Held

LEMMA SubmitKept ==
    ASSUME IInv, Held, cancels \subseteq cancels', NEW control, OfNow(control),
           Len(console') = Len(console) + 1, console'[Len(console) + 1] = control,
           \A id \in 1..Len(console) : console'[id] = console[id]
    PROVE  RequestInv' /\ StopInv'
<1> USE DEF IInv
<1>1. \A id \in 1..Len(console) : console[id].epoch \in Nat /\ console[id].controller \in Nat
  BY ConsoleTyped
<1>2. Len(console) \in Nat /\ controller.epoch \in Nat /\ controller.incarnation \in Nat
  BY ConsoleTyped, ControllerTyped
<1>3. controller'.incarnation = controller.incarnation /\ stoppedAt' \in 0..Len(console)
      /\ controller'.epoch \in Nat
  BY HeldFacts
<1>4. ASSUME NEW id, id = Len(console) + 1 PROVE RequestOK(id)'
  <2>1. stoppedAt' < id /\ console'[id] = control
    BY <1>2, <1>3, <1>4
  <2> QED BY <1>2, <1>3, <2>1 DEF RequestOK, OfNow
<1>5. ASSUME NEW id \in 1..Len(console) PROVE RequestOK(id)'
  <2>1. CASE Stopped
    BY <1>1, <1>2, <1>3, <2>1 DEF RequestInv, RequestOK, Stopped
  <2>2. CASE KeepEnabled
    BY <1>1, <1>2, <1>3, <2>2 DEF RequestInv, RequestOK, KeepEnabled
  <2> QED BY <2>1, <2>2 DEF Held
<1>6. RequestInv'
  <2>1. \A id \in 1..Len(console') : id \in 1..Len(console) \/ id = Len(console) + 1
    BY <1>2
  <2> QED BY <1>4, <1>5, <2>1 DEF RequestInv
<1>7. StopInv'
  <2>1. CASE Stopped
    BY <1>2, <1>3, <2>1 DEF StopInv, Stopped
  <2>2. CASE KeepEnabled
    BY <1>2, <1>3, <2>2 DEF StopInv, KeepEnabled
  <2> QED BY <2>1, <2>2 DEF Held
<1> QED BY <1>6, <1>7

\* A deferred task may be tried again; dispatch goes on or is stopped.
LEMMA DeferHolds ==
    ASSUME IInv, NEW t \in Tasks, Defer(t)
    PROVE  /\ Held /\ transient' \in [Tasks -> 0..TransientLimit - 1]
           /\ attempts' \in [Tasks -> 0..Len(journal)] /\ attempts'[t] = 0
           /\ \A u \in Tasks \ {t} : attempts'[u] = attempts[u]
<1> USE DEF IInv
<1>1. /\ attempts \in [Tasks -> 0..Len(journal)] /\ Len(journal) \in Nat
      /\ transient \in [Tasks -> 0..TransientLimit - 1] /\ TransientLimit \in Nat \ {0}
  BY DispatchBounds, NatTyped DEF TypeOK, MemoryOK
<1>2. attempts' = [attempts EXCEPT ![t] = 0]
  BY DEF Defer
<1>3. CASE transient[t] + 1 >= TransientLimit
  <2>1. transient' = [transient EXCEPT ![t] = 0] /\ Held
    BY <1>3, DisableStops DEF Defer, Held
  <2> QED BY <1>1, <1>2, <2>1
<1>4. CASE ~(transient[t] + 1 >= TransientLimit)
  <2>1. transient' = [transient EXCEPT ![t] = transient[t] + 1] /\ Held
    BY <1>1, <1>4 DEF Defer, Held
  <2>2. transient[t] + 1 \in 0..TransientLimit - 1
    BY <1>1, <1>4
  <2> QED BY <1>1, <1>2, <2>1, <2>2
<1> QED BY <1>3, <1>4

-----------------------------------------------------------------------------
(* Other terminals and other commands. *)

LEMMA WriteElsewhereKeeps ==
    ASSUME IInv, limit' = limit, NEW kind \in {"Approve", "Start", "Finish"},
           NEW t \in Tasks, WriteElsewhere(kind, t)
    PROVE  IInv'
<1> USE DEF IInv, store, memory, controls, work, bounds, ghosts
<1>1. StoreGrows
  <2>1. JournalGrows /\ Len(journal') <= limit.receipts
    BY WriteGrows DEF WriteElsewhere
  <2> QED BY <2>1 DEF WriteElsewhere, TypeOK, StoreOK, StoreGrows
<1>2. ConsoleGrows
  BY SameConsole DEF WriteElsewhere
<1>3. Held
  BY DEF WriteElsewhere, Held, KeepEnabled
<1>4. TypeOK'
  <2>1. limit' \in Scenarios /\ StoreOK' /\ ControllerOK' /\ ViewOK'
        /\ MemoryOK' /\ ControlsOK' /\ BarrierOK' /\ WorkOK' /\ ReadsOK'
    BY <1>1, <1>2, TypesStay DEF WriteElsewhere
  <2> QED BY <2>1 DEF TypeOK
<1>5. RequestInv' /\ StopInv'
  BY <1>3, ControlsKept DEF WriteElsewhere
<1>6. JournalGrows
  BY <1>1 DEF StoreGrows
<1>7. SpentInv' /\ WorkerInv'
  BY <1>4, <1>6, QuietView, QuietWork, SameRises, SameSpends, StartsKept DEF AttemptsRise,
     AttemptsMove, WriteElsewhere
<1>8. LaunchInv'
  BY <1>4, <1>6, QuietView, QuietWork, SameSpends, LaunchKept DEF WriteElsewhere
<1> QED BY <1>4, <1>5, <1>7, <1>8

LEMMA ReviseScopeKeeps ==
    ASSUME IInv, limit' = limit, ReviseScope
    PROVE  IInv'
<1> USE DEF IInv, store, memory, controls, work, bounds, ghosts
<1>1. StoreGrows
  BY LimitTyped, SameGrows, JournalTyped DEF ReviseScope, TypeOK, StoreOK, StoreGrows
<1>2. ConsoleGrows
  BY SameConsole DEF ReviseScope
<1>3. Held
  BY DEF ReviseScope, Held, KeepEnabled
<1>4. TypeOK'
  <2>1. limit' \in Scenarios /\ StoreOK' /\ ControllerOK' /\ ViewOK'
        /\ MemoryOK' /\ ControlsOK' /\ BarrierOK' /\ WorkOK' /\ ReadsOK'
    BY <1>1, <1>2, TypesStay DEF ReviseScope
  <2> QED BY <2>1 DEF TypeOK
<1>5. RequestInv' /\ StopInv'
  BY <1>3, ControlsKept DEF ReviseScope
<1>6. JournalGrows
  BY <1>1 DEF StoreGrows
<1>7. SpentInv' /\ WorkerInv'
  BY <1>4, <1>6, QuietView, QuietWork, SameRises, SameSpends, StartsKept DEF AttemptsRise,
     AttemptsMove, ReviseScope
<1>8. LaunchInv'
  BY <1>4, <1>6, QuietView, QuietWork, SameSpends, LaunchKept DEF ReviseScope
<1> QED BY <1>4, <1>5, <1>7, <1>8

LEMMA SendCommandKeeps ==
    ASSUME IInv, limit' = limit, SendCommand
    PROVE  IInv'
<1> USE DEF IInv, store, memory, controls, work, bounds, ghosts
<1>1. StoreGrows
  <2>1. JournalGrows /\ Len(journal') <= limit.receipts
    BY WriteGrows, SameGrows DEF SendCommand, TypeOK, StoreOK
  <2> QED BY <2>1 DEF SendCommand, TypeOK, StoreOK, StoreGrows
<1>2. call' = [done |-> TRUE, revision |-> Len(journal'), scope |-> 0]
  BY DEF SendCommand, NoRead
<1>3. call' \in Read /\ call'.revision = Len(journal')
  BY <1>1, <1>2, ReadTyped DEF StoreGrows, JournalGrows
<1>4. /\ reading \in Read /\ UNCHANGED <<reading, scopes>>
      /\ reading.revision <= Len(journal') /\ reading.scope <= Len(scopes)
  BY <1>1, NatTyped DEF SendCommand, StoreGrows, JournalGrows, TypeOK, ReadsOK
<1>5. ConsoleGrows
  BY SameConsole DEF SendCommand
<1>6. Held
  BY DEF SendCommand, Held, KeepEnabled
<1>7. TypeOK'
  <2>1. limit' \in Scenarios /\ StoreOK' /\ ControllerOK' /\ ViewOK'
        /\ MemoryOK' /\ ControlsOK' /\ BarrierOK' /\ WorkOK'
    BY <1>1, <1>5, TypesStay DEF SendCommand
  <2>2. ReadsOK'
    BY <1>1, <1>2, <1>3, <1>4, NatTyped DEF StoreGrows, JournalGrows, ReadsOK
  <2> QED BY <2>1, <2>2 DEF TypeOK
<1>8. RequestInv' /\ StopInv'
  BY <1>6, ControlsKept DEF SendCommand
<1>9. JournalGrows
  BY <1>1 DEF StoreGrows
<1>10. SpentInv' /\ WorkerInv'
  BY <1>7, <1>9, QuietView, QuietWork, SameRises, SameSpends, StartsKept DEF AttemptsRise,
     AttemptsMove, SendCommand
<1>11. LaunchInv'
  BY <1>7, <1>9, QuietView, QuietWork, SameSpends, LaunchKept DEF SendCommand
<1> QED BY <1>7, <1>8, <1>10, <1>11

LEMMA PollCommandKeeps ==
    ASSUME IInv, limit' = limit, PollCommand
    PROVE  IInv'
<1> USE DEF IInv, store, memory, controls, work, bounds, ghosts
<1>1. StoreGrows
  BY SameStore DEF PollCommand
<1>2. ViewAdvances /\ view'.scope = view.scope
      /\ view' \in [revision : 0..Len(journal), scope : Unknown..Len(scopes)]
  BY ViewTyped DEF PollCommand, TypeOK, ViewOK, ReadsOK, Read, Loaded, ViewAdvances
<1>3. ConsoleGrows
  BY SameConsole DEF PollCommand
<1>4. Held
  BY DEF PollCommand, Held, KeepEnabled
<1>5. TypeOK'
  <2>1. limit' \in Scenarios /\ StoreOK' /\ ControllerOK' /\ MemoryOK'
        /\ ControlsOK' /\ BarrierOK' /\ WorkOK'
    BY <1>1, <1>3, TypesStay DEF PollCommand
  <2>2. ViewOK'
    BY <1>1, <1>2 DEF PollCommand, TypeOK, ViewOK
  <2>3. ReadsOK'
    BY NatTyped, ReadTyped DEF PollCommand, TypeOK, ReadsOK
  <2> QED BY <2>1, <2>2, <2>3 DEF TypeOK
<1>6. RequestInv' /\ StopInv'
  BY <1>4, ControlsKept DEF PollCommand
<1>7. JournalGrows
  BY <1>1 DEF StoreGrows
<1>8. SpentInv' /\ WorkerInv'
  BY <1>5, <1>7, <1>2, QuietWork, SameRises, SameSpends, StartsKept DEF AttemptsRise,
     AttemptsMove, PollCommand
<1>9. LaunchInv'
  BY <1>5, <1>7, <1>2, QuietWork, SameSpends, LaunchKept DEF PollCommand
<1> QED BY <1>5, <1>6, <1>8, <1>9

LEMMA RefreshKeeps ==
    ASSUME IInv, limit' = limit, Refresh
    PROVE  IInv'
<1> USE DEF IInv, store, memory, controls, work, bounds, ghosts
<1>1. StoreGrows
  BY SameStore DEF Refresh
<1>2. ConsoleGrows
  BY SameConsole DEF Refresh
<1>3. Held
  BY DEF Refresh, Held, KeepEnabled
<1>4. TypeOK'
  <2>1. limit' \in Scenarios /\ StoreOK' /\ ControllerOK' /\ ViewOK'
        /\ MemoryOK' /\ ControlsOK' /\ BarrierOK' /\ WorkOK'
    BY <1>1, <1>2, TypesStay DEF Refresh
  <2>2. ReadsOK'
    BY NatTyped, ReadTyped DEF Refresh, TypeOK, ReadsOK
  <2> QED BY <2>1, <2>2 DEF TypeOK
<1>5. RequestInv' /\ StopInv'
  BY <1>3, ControlsKept DEF Refresh
<1>6. JournalGrows
  BY <1>1 DEF StoreGrows
<1>7. SpentInv' /\ WorkerInv'
  BY <1>4, <1>6, QuietView, QuietWork, SameRises, SameSpends, StartsKept DEF AttemptsRise,
     AttemptsMove, Refresh
<1>8. LaunchInv'
  BY <1>4, <1>6, QuietView, QuietWork, SameSpends, LaunchKept DEF Refresh
<1> QED BY <1>4, <1>5, <1>7, <1>8

LEMMA RetryControlKeeps ==
    ASSUME IInv, limit' = limit, NEW id \in 1..Len(console), RetryControl(id)
    PROVE  IInv'
<1> USE DEF IInv, store, memory, controls, work, bounds, ghosts
<1>1. StoreGrows
  BY SameStore DEF RetryControl
<1>2. barrier' = [kind |-> "control", id |-> id, task |-> 0, revision |-> 0,
                   approval |-> 0]
  BY DEF RetryControl, NoCommand
<1>3. /\ barrier' \in Command /\ barrier'.kind = "control" /\ barrier'.id = id
      /\ barrier'.task = 0 /\ barrier'.revision = 0 /\ barrier'.approval = 0
  BY <1>2, NatTyped DEF Command
<1>4. ConsoleGrows
  BY SameConsole DEF RetryControl
<1>5. Held
  BY DEF RetryControl, Held, KeepEnabled
<1>6. TypeOK'
  <2>1. limit' \in Scenarios /\ StoreOK' /\ ControllerOK' /\ ViewOK'
        /\ MemoryOK' /\ ControlsOK' /\ WorkOK' /\ ReadsOK'
    BY <1>1, <1>4, TypesStay DEF RetryControl
  <2>2. BarrierOK'
    BY <1>1, <1>3, NatTyped DEF StoreGrows, JournalGrows, RetryControl, TypeOK, BarrierOK
  <2> QED BY <2>1, <2>2 DEF TypeOK
<1>7. RequestInv' /\ StopInv'
  BY <1>5, ControlsKept DEF RetryControl
<1>8. JournalGrows
  BY <1>1 DEF StoreGrows
<1>9. SpentInv' /\ WorkerInv'
  BY <1>6, <1>8, QuietView, QuietWork, SameRises, SameSpends, StartsKept DEF AttemptsRise,
     AttemptsMove, RetryControl
<1>10. LaunchInv'
  BY <1>6, <1>8, QuietView, QuietWork, SameSpends, LaunchKept DEF RetryControl
<1> QED BY <1>6, <1>7, <1>9, <1>10

LEMMA TypeRunKeeps ==
    ASSUME IInv, limit' = limit, NEW t \in Tasks, TypeRun(t)
    PROVE  IInv'
<1> USE DEF IInv, store, memory, controls, work, bounds, ghosts
<1>1. StoreGrows
  BY SameStore DEF TypeRun, Type
<1>2. barrier' = [kind |-> "run", id |-> 0, task |-> t, revision |-> view.revision,
                   approval |-> 0]
  BY DEF TypeRun, NoCommand
<1>3. /\ barrier' \in Command /\ barrier'.kind = "run" /\ barrier'.id = 0
      /\ barrier'.task = t /\ barrier'.revision = view.revision /\ barrier'.approval = 0
  BY <1>2, NatTyped DEF Command
<1>4. ConsoleGrows
  BY SameConsole DEF TypeRun, Type
<1>5. Held
  BY DEF TypeRun, Type, Held, KeepEnabled
<1>6. TypeOK'
  <2>1. limit' \in Scenarios /\ StoreOK' /\ ControllerOK' /\ ViewOK'
        /\ MemoryOK' /\ ControlsOK' /\ WorkOK' /\ ReadsOK'
    BY <1>1, <1>4, TypesStay DEF TypeRun, Type
  <2>2. BarrierOK'
    BY <1>1, <1>3, NatTyped DEF StoreGrows, JournalGrows, TypeRun, TypeOK, BarrierOK
  <2> QED BY <2>1, <2>2 DEF TypeOK
<1>7. RequestInv' /\ StopInv'
  BY <1>5, ControlsKept DEF TypeRun, Type
<1>8. JournalGrows
  BY <1>1 DEF StoreGrows
<1>9. SpentInv' /\ WorkerInv'
  BY <1>6, <1>8, QuietView, QuietWork, SameRises, SameSpends, StartsKept DEF AttemptsRise,
     AttemptsMove, TypeRun, Type
<1>10. LaunchInv'
  BY <1>6, <1>8, QuietView, QuietWork, SameSpends, LaunchKept DEF TypeRun, Type
<1> QED BY <1>6, <1>7, <1>9, <1>10

-----------------------------------------------------------------------------
(* What the user types. *)

LEMMA TypeOnKeeps ==
    ASSUME IInv, limit' = limit, TypeOn
    PROVE  IInv'
<1> USE DEF IInv, store, memory, controls, work, bounds, ghosts
<1>1. StoreGrows
  BY SameStore DEF TypeOn, Type
<1>2. Held /\ AttemptsRise
  BY SameRises DEF TypeOn, Held
<1>3. OfNow(Control("on", 0, 0))
      /\ Submit(Control("on", 0, 0))
  <2>1. view.scope \in Int /\ controller.incarnation \in Nat /\ controller'.epoch \in Nat
    BY <1>2, NatTyped, ControllerTyped, HeldFacts DEF Unknown
  <2> QED BY <2>1 DEF TypeOn, Control, OfNow, Request
<1>4. pendingOn' \in 0..Len(console) /\ UNCHANGED acknowledged
  BY <1>2, HeldFacts DEF TypeOn
<1>5. /\ ConsoleGrows /\ ControlsOK' /\ BarrierOK' /\ barrier'.kind = "control"
      /\ Len(console') = Len(console) + 1 /\ console'[Len(console) + 1]
            = Control("on", 0, 0)
      /\ \A id \in 1..Len(console) : console'[id] = console[id]
  BY <1>3, <1>4, SubmitTypes DEF OfNow, TypeOn
<1>6. ConsoleGrows
  BY <1>5
<1>7. Held
  BY <1>2
<1>8. TypeOK'
  <2>1. limit' \in Scenarios /\ StoreOK' /\ ViewOK' /\ WorkOK'
        /\ ReadsOK'
    BY <1>1, <1>6, TypesStay DEF TypeOn, Type
  <2>2. ControllerOK'
    BY <1>2, <1>5, HeldTypes DEF TypeOn
  <2>3. MemoryOK'
    BY <1>1, <1>2, <1>5, HeldTypes, MemoryTypes DEF AttemptsRise, TypeOn
  <2>4. ControlsOK'
    BY <1>5
  <2>5. BarrierOK'
    BY <1>5
  <2> QED BY <2>1, <2>2, <2>3, <2>4, <2>5 DEF TypeOK
<1>9. RequestInv' /\ StopInv'
  BY <1>2, <1>3, <1>5, SubmitKept DEF TypeOn
<1>10. JournalGrows
  BY <1>1 DEF StoreGrows
<1>11. SpentInv' /\ WorkerInv'
  BY <1>8, <1>10, QuietView, QuietWork, <1>2, SameSpends, StartsKept DEF AttemptsRise,
     AttemptsMove, TypeOn, Type
<1>12. LaunchInv'
  BY <1>5 DEF LaunchInv
<1> QED BY <1>8, <1>9, <1>11, <1>12

LEMMA TypeOffKeeps ==
    ASSUME IInv, limit' = limit, TypeOff
    PROVE  IInv'
<1> USE DEF IInv, store, memory, controls, work, bounds, ghosts
<1>1. StoreGrows
  BY SameStore DEF TypeOff, Type
<1>2. Held /\ AttemptsRise
  BY SameRises, RefuseHolds DEF TypeOff, Held, BarrierFree
<1>3. OfNow(Control("off", 0, 0))
      /\ Submit(Control("off", 0, 0))
  <2>1. view.scope \in Int /\ controller.incarnation \in Nat /\ controller'.epoch \in Nat
    BY <1>2, NatTyped, ControllerTyped, HeldFacts DEF Unknown
  <2> QED BY <2>1 DEF TypeOff, Control, OfNow, Request
<1>4. pendingOn' \in 0..Len(console) /\ UNCHANGED acknowledged
  BY <1>2, HeldFacts DEF TypeOff
<1>5. /\ ConsoleGrows /\ ControlsOK' /\ BarrierOK' /\ barrier'.kind = "control"
      /\ Len(console') = Len(console) + 1 /\ console'[Len(console) + 1]
            = Control("off", 0, 0)
      /\ \A id \in 1..Len(console) : console'[id] = console[id]
  BY <1>3, <1>4, SubmitTypes DEF OfNow, TypeOff
<1>6. ConsoleGrows
  BY <1>5
<1>7. Held
  BY <1>2
<1>8. TypeOK'
  <2>1. limit' \in Scenarios /\ StoreOK' /\ ViewOK' /\ WorkOK'
        /\ ReadsOK'
    BY <1>1, <1>6, TypesStay DEF TypeOff, Type
  <2>2. ControllerOK'
    BY <1>2, <1>5, HeldTypes DEF TypeOff
  <2>3. MemoryOK'
    BY <1>1, <1>2, <1>5, HeldTypes, MemoryTypes DEF AttemptsRise, TypeOff
  <2>4. ControlsOK'
    BY <1>5
  <2>5. BarrierOK'
    BY <1>5
  <2> QED BY <2>1, <2>2, <2>3, <2>4, <2>5 DEF TypeOK
<1>9. RequestInv' /\ StopInv'
  BY <1>2, <1>3, <1>5, SubmitKept DEF TypeOff
<1>10. JournalGrows
  BY <1>1 DEF StoreGrows
<1>11. SpentInv' /\ WorkerInv'
  BY <1>8, <1>10, QuietView, QuietWork, <1>2, SameSpends, StartsKept DEF AttemptsRise,
     AttemptsMove, TypeOff, Type
<1>12. LaunchInv'
  BY <1>5 DEF LaunchInv
<1> QED BY <1>8, <1>9, <1>11, <1>12

LEMMA TypeCancelKeeps ==
    ASSUME IInv, limit' = limit, NEW t \in Tasks, TypeCancel(t)
    PROVE  IInv'
<1> USE DEF IInv, store, memory, controls, work, bounds, ghosts
<1>1. StoreGrows
  BY SameStore DEF TypeCancel, Type
<1>2. Held /\ AttemptsRise
  BY SameRises DEF TypeCancel, Held
<1>3. OfNow(Control("cancel", t, workers[t].id))
      /\ Submit(Control("cancel", t, workers[t].id))
  <2>1. view.scope \in Int /\ controller.incarnation \in Nat /\ controller'.epoch \in Nat
    BY <1>2, NatTyped, ControllerTyped, HeldFacts DEF Unknown
  <2>2. workers[t] \in Worker /\ workers[t].id \in cancels'
    BY DEF TypeCancel, TypeOK, WorkOK
  <2>3. workers[t].id \in Nat
    BY <2>2 DEF Worker
  <2> QED BY <2>1, <2>2, <2>3 DEF TypeCancel, Control, OfNow, Request
<1>4. pendingOn' \in 0..Len(console) /\ UNCHANGED acknowledged
  BY <1>2, HeldFacts DEF TypeCancel
<1>5. /\ ConsoleGrows /\ ControlsOK' /\ BarrierOK' /\ barrier'.kind = "control"
      /\ Len(console') = Len(console) + 1 /\ console'[Len(console) + 1]
            = Control("cancel", t, workers[t].id)
      /\ \A id \in 1..Len(console) : console'[id] = console[id]
  BY <1>3, <1>4, SubmitTypes DEF OfNow, TypeCancel
<1>6. ConsoleGrows
  BY <1>5
<1>7. Held
  BY <1>2
<1>8. TypeOK'
  <2>1. limit' \in Scenarios /\ StoreOK' /\ ViewOK' /\ WorkOK'
        /\ ReadsOK'
    BY <1>1, <1>6, TypesStay DEF TypeCancel, Type
  <2>2. ControllerOK'
    BY <1>2, <1>5, HeldTypes DEF TypeCancel
  <2>3. MemoryOK'
    BY <1>1, <1>2, <1>5, HeldTypes, MemoryTypes DEF AttemptsRise, TypeCancel
  <2>4. ControlsOK'
    BY <1>5
  <2>5. BarrierOK'
    BY <1>5
  <2> QED BY <2>1, <2>2, <2>3, <2>4, <2>5 DEF TypeOK
<1>9. RequestInv' /\ StopInv'
  BY <1>2, <1>3, <1>5, SubmitKept DEF TypeCancel
<1>10. JournalGrows
  BY <1>1 DEF StoreGrows
<1>11. SpentInv' /\ WorkerInv'
  BY <1>8, <1>10, QuietView, QuietWork, <1>2, SameSpends, StartsKept DEF AttemptsRise,
     AttemptsMove, TypeCancel, Type
<1>12. LaunchInv'
  BY <1>5 DEF LaunchInv
<1> QED BY <1>8, <1>9, <1>11, <1>12

-----------------------------------------------------------------------------
(* The barrier opens for a control. *)

LEMMA OpenOffKeeps ==
    ASSUME IInv, limit' = limit, OpenOff
    PROVE  IInv'
<1> USE DEF IInv, store, memory, controls, work, bounds, ghosts
<1>1. StoreGrows
  BY SameStore DEF OpenOff, OpenControl, Acknowledge, Dispatchable
<1>2. barrier' = NoCommand
  BY DEF OpenOff, OpenControl, Opens
<1>3. BarrierOK' /\ barrier'.kind # "launch"
  BY <1>1, <1>2, NatTyped DEF StoreGrows, JournalGrows, BarrierOK, Command, NoCommand
<1>4. barrier.id \in 1..Len(console)
  BY NatTyped DEF OpenOff, OpenControl, Opens, TypeOK, BarrierOK
<1>5. ConsoleGrows
  BY SameConsole DEF OpenOff, OpenControl, Acknowledge, Dispatchable
<1>6. Held
  BY DisableStops DEF OpenOff, Held
<1>7. TypeOK'
  <2>1. limit' \in Scenarios /\ StoreOK' /\ ViewOK' /\ WorkOK'
        /\ ReadsOK'
    BY <1>1, <1>5, TypesStay DEF OpenOff, OpenControl, Acknowledge, Dispatchable
  <2>2. BarrierOK'
    BY <1>3
  <2>3. ControllerOK'
    BY <1>5, <1>6, HeldTypes DEF OpenOff, OpenControl
  <2>4. MemoryOK'
    BY <1>1, <1>5, <1>6, SameRises, HeldTypes, MemoryTypes DEF OpenOff, OpenControl,
       AttemptsRise
  <2>5. ControlsOK'
    BY <1>4, <1>5, <1>6, HeldTypes DEF OpenOff, OpenControl, Acknowledge, Dispatchable,
       TypeOK, ControlsOK
  <2> QED BY <2>1, <2>2, <2>3, <2>4, <2>5 DEF TypeOK
<1>8. RequestInv' /\ StopInv'
  BY <1>6, ControlsKept DEF OpenOff, OpenControl, Acknowledge, Dispatchable
<1>9. JournalGrows
  BY <1>1 DEF StoreGrows
<1>10. SpentInv' /\ WorkerInv'
  BY <1>7, <1>9, QuietView, QuietWork, SameRises, SameSpends, StartsKept DEF AttemptsRise,
     AttemptsMove, OpenOff, OpenControl, Acknowledge, Dispatchable
<1>11. LaunchInv'
  BY <1>3 DEF LaunchInv
<1> QED BY <1>7, <1>8, <1>10, <1>11

LEMMA OpenOnKeeps ==
    ASSUME IInv, limit' = limit, OpenOn
    PROVE  IInv'
<1> USE DEF IInv, store, memory, controls, work, bounds, ghosts
<1>1. StoreGrows
  BY SameStore DEF OpenOn, OpenControl
<1>2. barrier' = NoCommand
  BY DEF OpenOn, OpenControl, Opens
<1>3. BarrierOK' /\ barrier'.kind # "launch"
  BY <1>1, <1>2, NatTyped DEF StoreGrows, JournalGrows, BarrierOK, Command, NoCommand
<1>4. barrier.id \in 1..Len(console) /\ console[barrier.id].kind = "on"
  BY NatTyped DEF OpenOn, OpenControl, Opens, TypeOK, BarrierOK
<1>5. UNCHANGED <<controller, busyReads, stoppedAt, acknowledged, workers, console, cancels,
                  scopes>>
  BY DEF OpenOn, OpenControl
<1>6. checks' \in Seq(Read) /\ Len(checks') = Len(console)
      /\ \A id \in 1..Len(console) : checks'[id].scope <= Len(scopes)
  <2>1. checks \in Seq(Read) /\ Len(checks) = Len(console)
        /\ \A id \in 1..Len(console) : checks[id].scope <= Len(scopes)
    BY DEF TypeOK, ControlsOK
  <2>2. CASE UNCHANGED checks
    BY <2>1, <2>2
  <2>3. CASE checks' # checks
    <3>1. checks' = [checks EXCEPT ![barrier.id] = [done |-> TRUE, revision |-> 0,
                                                   scope |-> Len(scopes)]]
      BY <2>3 DEF OpenOn, NoRead
    <3>2. [done |-> TRUE, revision |-> 0, scope |-> Len(scopes)] \in Read
      BY NatTyped, ReadTyped
    <3> QED BY <1>4, <2>1, <3>1, <3>2, NatTyped
  <2> QED BY <2>2, <2>3
<1>7. pendingOn' = pendingOn \/ (pendingOn' = barrier.id /\ pendingOn' > stoppedAt)
  BY <1>4 DEF OpenOn, Dispatchable, RequestInv, RequestOK
<1>8. ConsoleGrows
  BY SameConsole DEF OpenOn, OpenControl
<1>9. TypeOK'
  <2>1. limit' \in Scenarios /\ StoreOK' /\ ControllerOK' /\ ViewOK'
        /\ WorkOK' /\ ReadsOK'
    BY <1>1, <1>8, TypesStay DEF OpenOn, OpenControl
  <2>2. BarrierOK'
    BY <1>3
  <2>3. MemoryOK'
    BY <1>1, <1>5, SameRises, MemoryTypes DEF TypeOK, MemoryOK, AttemptsRise, OpenOn,
       OpenControl
  <2>4. ControlsOK'
    BY <1>4, <1>5, <1>6, <1>7, NatTyped DEF TypeOK, ControlsOK
  <2> QED BY <2>1, <2>2, <2>3, <2>4 DEF TypeOK
<1>10. RequestInv' /\ StopInv'
  BY <1>4, <1>5, <1>7 DEF RequestInv, RequestOK, StopInv
<1>11. JournalGrows
  BY <1>1 DEF StoreGrows
<1>12. SpentInv' /\ WorkerInv'
  BY <1>9, <1>11, QuietView, QuietWork, SameRises, SameSpends, StartsKept DEF AttemptsRise,
     AttemptsMove, OpenOn, OpenControl
<1>13. LaunchInv'
  BY <1>3 DEF LaunchInv
<1> QED BY <1>9, <1>10, <1>12, <1>13

LEMMA OpenCancelKeeps ==
    ASSUME IInv, limit' = limit, OpenCancel
    PROVE  IInv'
<1> USE DEF IInv, store, memory, controls, work, bounds, ghosts
<1>1. StoreGrows
  BY SameStore DEF OpenCancel, OpenControl, Acknowledge
<1>2. barrier' = NoCommand
  BY DEF OpenCancel, OpenControl, Opens
<1>3. BarrierOK' /\ barrier'.kind # "launch"
  BY <1>1, <1>2, NatTyped DEF StoreGrows, JournalGrows, BarrierOK, Command, NoCommand
<1>4. barrier.id \in 1..Len(console) /\ console[barrier.id].kind = "cancel"
  BY NatTyped DEF OpenCancel, OpenControl, Opens, TypeOK, BarrierOK
<1>5. WorkGoes /\ \A t \in Tasks : workers'[t].seen = workers[t].seen
  <2>1. CASE UNCHANGED workers
    BY <2>1, QuietWork
  <2>2. CASE workers' # workers
    <3> DEFINE control == console[barrier.id]
    <3>1. /\ workers' = [workers EXCEPT ![control.task].cancelled = TRUE]
          /\ workers[control.task].id = control.worker
      BY <2>2 DEF OpenCancel, SameWorker
    <3>2. workers \in [Tasks -> Worker] /\ control.task \in Tasks
      BY <2>2, <3>1 DEF TypeOK, WorkOK
    <3>3. control.worker \in cancels
      BY <1>4 DEF RequestInv, RequestOK
    <3>4. \A worker \in Worker : [worker EXCEPT !.cancelled = TRUE] \in Worker
      BY DEF Worker
    <3>5. workers' \in [Tasks -> Worker]
      BY <3>1, <3>2, <3>4
    <3>6. \A t \in Tasks :
              /\ workers'[t].at = workers[t].at /\ workers'[t].id = workers[t].id
              /\ workers'[t].revision = workers[t].revision /\ workers'[t].seen = workers[t].seen
              /\ workers'[t].source = workers[t].source
              /\ workers'[t].cancelled => workers[t].cancelled \/ t = control.task
      BY <3>1, <3>2 DEF Worker
    <3> QED BY <3>1, <3>3, <3>5, <3>6 DEF WorkGoes
  <2> QED BY <2>1, <2>2
<1>6. UNCHANGED <<attempts, transient, busyReads, pendingOn, console, checks, cancels, scopes,
                  journal, spawned>>
  BY DEF OpenCancel, OpenControl, KeepEnabled
<1>7. ConsoleGrows
  BY SameConsole DEF OpenCancel, OpenControl, Acknowledge
<1>8. Held
  BY DEF OpenCancel, Held
<1>9. TypeOK'
  <2>1. limit' \in Scenarios /\ StoreOK' /\ ViewOK' /\ ReadsOK'
    BY <1>1, <1>7, TypesStay DEF OpenCancel, OpenControl, Acknowledge
  <2>2. ControllerOK'
    BY <1>7, <1>8, HeldTypes DEF OpenCancel, OpenControl
  <2>3. BarrierOK'
    BY <1>3
  <2>4. MemoryOK'
    BY <1>6 DEF OpenCancel, OpenControl, Acknowledge, TypeOK, MemoryOK
  <2>5. ControlsOK'
    BY <1>4, <1>6, NatTyped DEF OpenCancel, Acknowledge, TypeOK, ControlsOK
  <2>6. WorkOK'
    BY <1>5, <1>6, WorkLeaves, FewWorkers DEF WorkGoes, TypeOK, WorkOK
  <2> QED BY <2>1, <2>2, <2>3, <2>4, <2>5, <2>6 DEF TypeOK
<1>10. RequestInv' /\ StopInv'
  BY <1>8, ControlsKept DEF OpenCancel, OpenControl, Acknowledge
<1>11. JournalGrows
  BY <1>1 DEF StoreGrows
<1>12. SpentInv' /\ WorkerInv'
  BY <1>9, <1>11, QuietView, <1>5, SameRises, SameSpends, StartsKept DEF AttemptsRise,
     AttemptsMove, OpenCancel, OpenControl, Acknowledge
<1>13. LaunchInv'
  BY <1>3 DEF LaunchInv
<1> QED BY <1>9, <1>10, <1>12, <1>13

-----------------------------------------------------------------------------
(* The answer of a scope check. *)

\* The answer is dropped, or stops dispatch.
LEMMA HeldPollControlKeeps ==
    ASSUME IInv, limit' = limit, NEW id \in 1..Len(console), PollControl(id), Held
    PROVE  IInv'
<1> USE DEF IInv, store, memory, controls, work, bounds, ghosts
<1>1. StoreGrows
  BY SameStore DEF PollControl
<1>2. /\ checks' \in Seq(Read) /\ Len(checks') = Len(console)
      /\ \A i \in 1..Len(console) : checks'[i].scope <= Len(scopes)
      /\ UNCHANGED <<scopes, journal, console, restarts>>
  <2>1. checks \in Seq(Read) /\ Len(checks) = Len(console)
        /\ \A i \in 1..Len(console) : checks[i].scope <= Len(scopes)
    BY DEF TypeOK, ControlsOK
  <2>2. checks' = [checks EXCEPT ![id] = NoRead]
    BY DEF PollControl
  <2>3. checks' \in Seq(Read) /\ Len(checks') = Len(console)
    BY <2>1, <2>2, ReadTyped
  <2>4. \A i \in 1..Len(console) : checks'[i] = checks[i] \/ checks'[i] = NoRead
    BY <2>1, <2>2
  <2> QED BY <2>1, <2>3, <2>4, ReadTyped, NatTyped DEF PollControl, store
<1>3. /\ view'.revision = view.revision
      /\ view' \in [revision : 0..Len(journal), scope : Unknown..Len(scopes)]
  <2>1. checks[id] \in Read /\ checks[id].scope <= Len(scopes)
    BY DEF TypeOK, ControlsOK
  <2>2. \A scope \in Answers(checks[id].scope) : Observed(scope) \in Unknown..Len(scopes)
    BY <2>1, NatTyped, ReadTyped DEF Answers, Observed, Unknown
  <2>3. view \in [revision : 0..Len(journal), scope : Unknown..Len(scopes)]
    BY DEF TypeOK, ViewOK
  <2> QED BY <2>2, <2>3 DEF PollControl
<1>4. acknowledged' \subseteq 1..Len(console)
  BY DEF PollControl, Acknowledge, TypeOK, ControlsOK
<1>5. ViewAdvances
  BY <1>2, <1>3, NatTyped DEF ViewAdvances
<1>6. ConsoleGrows
  BY <1>2, SameConsole
<1>7. TypeOK'
  <2>1. limit' \in Scenarios /\ StoreOK' /\ BarrierOK' /\ WorkOK'
        /\ ReadsOK'
    BY <1>1, <1>6, TypesStay DEF PollControl
  <2>2. ControllerOK'
    BY <1>2, <1>6, HeldTypes
  <2>3. ViewOK'
    BY <1>2, <1>3 DEF ViewOK
  <2>4. MemoryOK'
    BY <1>1, <1>6, HeldTypes, SameRises, MemoryTypes DEF PollControl, AttemptsRise
  <2>5. ControlsOK'
    BY <1>2, <1>4, <1>6, HeldTypes DEF TypeOK, ControlsOK
  <2> QED BY <2>1, <2>2, <2>3, <2>4, <2>5 DEF TypeOK
<1>8. RequestInv' /\ StopInv'
  BY <1>2, ControlsKept DEF PollControl
<1>9. JournalGrows
  BY <1>1 DEF StoreGrows
<1>10. SpentInv' /\ WorkerInv'
  BY <1>7, <1>9, <1>5, QuietWork, SameRises, SameSpends, StartsKept DEF AttemptsRise,
     AttemptsMove, PollControl
<1>11. LaunchInv'
  BY <1>7, <1>9, <1>5, QuietWork, SameSpends, LaunchKept DEF PollControl
<1> QED BY <1>7, <1>8, <1>10, <1>11

\* Dispatch is enabled.
LEMMA EnablingPollControlKeeps ==
    ASSUME IInv, limit' = limit, NEW id \in 1..Len(console), PollControl(id), ~Held
    PROVE  IInv'
<1> USE DEF IInv, store, memory, controls, work, bounds, ghosts
<1>1. StoreGrows
  BY SameStore DEF PollControl
<1>2. /\ checks' \in Seq(Read) /\ Len(checks') = Len(console)
      /\ \A i \in 1..Len(console) : checks'[i].scope <= Len(scopes)
      /\ UNCHANGED <<scopes, journal, console, restarts>>
  <2>1. checks \in Seq(Read) /\ Len(checks) = Len(console)
        /\ \A i \in 1..Len(console) : checks[i].scope <= Len(scopes)
    BY DEF TypeOK, ControlsOK
  <2>2. checks' = [checks EXCEPT ![id] = NoRead]
    BY DEF PollControl
  <2>3. checks' \in Seq(Read) /\ Len(checks') = Len(console)
    BY <2>1, <2>2, ReadTyped
  <2>4. \A i \in 1..Len(console) : checks'[i] = checks[i] \/ checks'[i] = NoRead
    BY <2>1, <2>2
  <2> QED BY <2>1, <2>3, <2>4, ReadTyped, NatTyped DEF PollControl, store
<1>3. /\ controller' = [incarnation |-> controller.incarnation, epoch |-> controller.epoch + 1,
                        enabled |-> TRUE, origin |-> id]
      /\ pendingOn = id /\ pendingOn' = 0 /\ UNCHANGED <<view, busyReads, stoppedAt>>
  <2>1. /\ controller' = [controller EXCEPT !.enabled = TRUE, !.origin = id, !.epoch = @ + 1]
        /\ pendingOn = id /\ pendingOn' = 0 /\ UNCHANGED <<view, busyReads, stoppedAt>>
    BY DisableStops DEF PollControl, Held
  <2> QED BY <2>1, ControllerTyped
<1>4. acknowledged' \subseteq 1..Len(console)
  BY DEF PollControl, Acknowledge, TypeOK, ControlsOK
<1>5. ConsoleGrows
  BY <1>2, SameConsole
<1>6. TypeOK'
  <2>1. limit' \in Scenarios /\ StoreOK' /\ ViewOK' /\ BarrierOK'
        /\ WorkOK' /\ ReadsOK'
    BY <1>3, <1>1, <1>5, TypesStay DEF PollControl
  <2>2. ControllerOK'
    BY <1>2, <1>3, NatTyped, ControllerTyped DEF TypeOK, ControllerOK
  <2>3. MemoryOK'
    BY <1>1, <1>3, SameRises, MemoryTypes DEF PollControl, TypeOK, MemoryOK, AttemptsRise
  <2>4. ControlsOK'
    BY <1>2, <1>3, <1>4, NatTyped DEF TypeOK, ControlsOK
  <2> QED BY <2>1, <2>2, <2>3, <2>4 DEF TypeOK
<1>7. RequestInv' /\ StopInv'
  <2>1. /\ controller'.incarnation = controller.incarnation /\ controller'.origin = id
        /\ controller'.epoch = controller.epoch + 1 /\ controller.epoch \in Nat
    BY <1>3, ControllerTyped
  <2>2. UNCHANGED <<stoppedAt, cancels, console>>
    BY <1>2, <1>3 DEF PollControl
  <2>3. RequestInv'
    BY <2>1, <2>2, ConsoleTyped DEF RequestInv, RequestOK
  <2>4. StopInv'
    BY <1>3, <2>1, <2>2 DEF StopInv
  <2> QED BY <2>3, <2>4
<1>8. JournalGrows
  BY <1>1 DEF StoreGrows
<1>9. SpentInv' /\ WorkerInv'
  BY <1>3, <1>6, <1>8, QuietView, QuietWork, SameRises, SameSpends, StartsKept DEF
     AttemptsRise, AttemptsMove, PollControl
<1>10. LaunchInv'
  BY <1>3, <1>6, <1>8, QuietView, QuietWork, SameSpends, LaunchKept DEF PollControl
<1> QED BY <1>6, <1>7, <1>9, <1>10

-----------------------------------------------------------------------------
(* Launches. *)

LEMMA PrepareLaunchKeeps ==
    ASSUME IInv, limit' = limit, PrepareLaunch
    PROVE  IInv'
<1> USE DEF IInv, store, memory, controls, work, bounds, ghosts
<1>1. StoreGrows
  BY SameStore DEF PrepareLaunch
<1>2. /\ UNCHANGED <<store, view, attempts, transient, console, acknowledged, checks, work,
                       reading, call, bounds, spent, cancels>>
      /\ barrier.kind = "none"
  BY DEF PrepareLaunch, MayPrepare, BarrierFree
<1>3. barrier' = barrier \/ \E t \in Tasks :
            /\ Ready(t) /\ controller.enabled /\ view.revision \in Nat
            /\ barrier' = [kind |-> "launch", id |-> controller.origin, task |-> t,
                           revision |-> view.revision, approval |-> Approval(t, view.revision)]
  <2>1. CASE UNCHANGED barrier
    BY <2>1
  <2>2. CASE barrier' # barrier
    <3> DEFINE S == {u \in Tasks : Ready(u)}
    <3>1. S # {} /\ S \in SUBSET Nat
      BY <2>2, DispatchBounds DEF PrepareLaunch
    <3>2. Min(S) \in S
      BY <3>1, LeastNumber DEF Min
    <3>3. barrier' = [kind |-> "launch", id |-> controller.origin, task |-> Min(S),
                      revision |-> view.revision, approval |-> Approval(Min(S), view.revision)]
      BY <2>2 DEF PrepareLaunch
    <3>4. Min(S) \in Tasks /\ Ready(Min(S)) /\ controller.enabled /\ view.revision \in Nat
      BY <2>2, <3>2, NatTyped DEF PrepareLaunch, MayPrepare
    <3> QED BY <3>3, <3>4
  <2> QED BY <2>1, <2>2
<1>4. \/ barrier' = barrier
      \/ /\ barrier' \in Command /\ barrier'.kind = "launch" /\ barrier'.task \in Tasks
         /\ barrier'.id \in 0..Len(console) /\ Ready(barrier'.task)
         /\ barrier'.revision = view.revision
         /\ barrier'.approval = Approval(barrier'.task, view.revision)
         /\ barrier'.approval \in 0..view.revision
  <2>1. ASSUME NEW t \in Tasks PROVE Approval(t, view.revision) \in 0..view.revision
    <3>1. view.revision \in Nat /\ view.revision \in 0..Len(journal)
      BY NatTyped
    <3>2. Approval(t, view.revision) = ApprovalIn(journal, t, view.revision)
      BY <3>1, ApprovalRead
    <3>3. ApprovalIn(journal, t, view.revision) \in 0..view.revision
      BY <3>1, ApprovalInJournal
    <3> QED BY <3>2, <3>3
  <2>2. controller.origin \in 0..Len(console) /\ controller.origin \in Nat
    BY ControllerTyped, NatTyped
  <2> QED BY <1>3, <2>1, <2>2, NatTyped DEF Command
<1>5. ConsoleGrows
  BY SameConsole DEF PrepareLaunch
<1>6. Held
  BY DisableStops DEF PrepareLaunch, Held
<1>7. TypeOK'
  <2>1. limit' \in Scenarios /\ StoreOK' /\ ViewOK' /\ WorkOK'
        /\ ReadsOK'
    BY <1>1, <1>5, TypesStay DEF PrepareLaunch
  <2>2. ControllerOK'
    BY <1>5, <1>6, HeldTypes DEF PrepareLaunch
  <2>3. MemoryOK'
    BY <1>1, <1>2, <1>5, <1>6, HeldTypes, SameRises, MemoryTypes DEF AttemptsRise
  <2>4. ControlsOK'
    BY <1>2, <1>5, <1>6, HeldTypes DEF TypeOK, ControlsOK
  <2>5. BarrierOK'
    BY <1>2, <1>4, NatTyped DEF TypeOK, BarrierOK
  <2> QED BY <2>1, <2>2, <2>3, <2>4, <2>5 DEF TypeOK
<1>8. RequestInv' /\ StopInv'
  BY <1>6, ControlsKept DEF PrepareLaunch
<1>9. JournalGrows
  BY <1>1 DEF StoreGrows
<1>10. SpentInv' /\ WorkerInv'
  BY <1>7, <1>9, QuietView, QuietWork, SameRises, SameSpends, StartsKept DEF AttemptsRise,
     AttemptsMove, PrepareLaunch
<1>11. LaunchInv'
  <2>1. CASE barrier' = barrier
    BY <2>1, <1>7, <1>9, QuietView, QuietWork, SameSpends, LaunchKept DEF PrepareLaunch
  <2>2. CASE barrier' # barrier
    <3>1. PICK t \in Tasks :
              /\ Ready(t)
              /\ barrier' = [kind |-> "launch", id |-> controller.origin, task |-> t,
                             revision |-> view.revision, approval |-> Approval(t, view.revision)]
      BY <1>3, <2>2
    <3>2. /\ barrier'.task = t /\ barrier'.revision = view.revision
          /\ barrier'.approval = Approval(t, view.revision)
      BY <3>1
    <3>3. t \notin Active /\ attempts[t] # Approval(t, view.revision)
      BY <3>1 DEF Ready
    <3>4. Approval(t, view.revision) \in Nat
      BY <1>4, <2>2, <3>2, NatTyped
    <3>5. \A p \in spent : p[1] = t => p[2] < Approval(t, view.revision)
      BY <3>3, <3>4 DEF SpentInv, SpentOK
    <3>6. UNCHANGED <<workers, view, spent, journal>>
      BY DEF PrepareLaunch
    <3>7. t \notin Active' /\ Approval(t, view.revision)' = Approval(t, view.revision)
      BY <3>3, <3>6 DEF Active, Approval, Of
    <3>8. Approval(barrier.task, barrier.revision)' = Approval(t, view.revision)'
      BY <3>2, <3>6 DEF Approval, Of
    <3> QED BY <3>2, <3>5, <3>6, <3>7, <3>8, NatTyped DEF LaunchInv, Unspent
  <2> QED BY <2>1, <2>2
<1> QED BY <1>7, <1>8, <1>10, <1>11

\* The launch is refused.
LEMMA RefusedLaunchKeeps ==
    ASSUME IInv, limit' = limit, OpenLaunch, Refuse(barrier), UNCHANGED <<transient, work>>
    PROVE  IInv'
<1> USE DEF IInv, store, memory, controls, work, bounds, ghosts
<1>1. StoreGrows
  BY SameStore DEF OpenLaunch
<1>2. barrier' = NoCommand
  BY DEF OpenLaunch, Opens
<1>3. BarrierOK' /\ barrier'.kind # "launch"
  BY <1>1, <1>2, NatTyped DEF StoreGrows, JournalGrows, BarrierOK, Command, NoCommand
<1>4. barrier.kind = "launch"
  BY DEF OpenLaunch, Opens
<1>5. /\ barrier.task \in Tasks /\ barrier.task \notin Active
      /\ barrier.revision \in 0..view.revision /\ view.revision \in Nat
  BY <1>4, NatTyped DEF LaunchInv, TypeOK, BarrierOK, Command
<1>6. UNCHANGED <<store, view, console, acknowledged, checks, reading, call, bounds, spent,
                  cancels>>
  BY DEF OpenLaunch
<1>7. Held /\ AttemptsRise
  BY <1>4, RefuseHolds
<1>8. ConsoleGrows
  BY SameConsole DEF OpenLaunch
<1>9. Held
  BY <1>7
<1>10. TypeOK'
  <2>1. limit' \in Scenarios /\ StoreOK' /\ ViewOK' /\ WorkOK'
        /\ ReadsOK'
    BY <1>1, <1>8, TypesStay DEF OpenLaunch
  <2>2. BarrierOK'
    BY <1>3
  <2>3. ControllerOK'
    BY <1>6, <1>7, <1>8, HeldTypes
  <2>4. MemoryOK'
    BY <1>1, <1>7, <1>8, HeldTypes, MemoryTypes DEF AttemptsRise
  <2>5. ControlsOK'
    BY <1>6, <1>7, <1>8, HeldTypes DEF TypeOK, ControlsOK
  <2> QED BY <2>1, <2>2, <2>3, <2>4, <2>5 DEF TypeOK
<1>11. RequestInv' /\ StopInv'
  BY <1>9, ControlsKept DEF OpenLaunch
<1>12. JournalGrows
  BY <1>1 DEF StoreGrows
<1>13. SpentInv' /\ WorkerInv'
  BY <1>10, <1>12, QuietView, QuietWork, <1>7, SameSpends, StartsKept DEF AttemptsRise,
     AttemptsMove, OpenLaunch
<1>14. LaunchInv'
  BY <1>3 DEF LaunchInv
<1> QED BY <1>10, <1>11, <1>13, <1>14

\* The launch is deferred.
LEMMA DeferredLaunchKeeps ==
    ASSUME IInv, limit' = limit, OpenLaunch, Defer(barrier.task), UNCHANGED work
    PROVE  IInv'
<1> USE DEF IInv, store, memory, controls, work, bounds, ghosts
<1>1. StoreGrows
  BY SameStore DEF OpenLaunch
<1>2. barrier' = NoCommand
  BY DEF OpenLaunch, Opens
<1>3. BarrierOK' /\ barrier'.kind # "launch"
  BY <1>1, <1>2, NatTyped DEF StoreGrows, JournalGrows, BarrierOK, Command, NoCommand
<1>4. barrier.kind = "launch"
  BY DEF OpenLaunch, Opens
<1>5. /\ barrier.task \in Tasks /\ barrier.task \notin Active
      /\ barrier.revision \in 0..view.revision /\ view.revision \in Nat
  BY <1>4, NatTyped DEF LaunchInv, TypeOK, BarrierOK, Command
<1>6. UNCHANGED <<store, view, console, acknowledged, checks, reading, call, bounds, spent,
                  cancels>>
  BY DEF OpenLaunch
<1>7. /\ Held /\ transient' \in [Tasks -> 0..TransientLimit - 1]
      /\ attempts' \in [Tasks -> 0..Len(journal)] /\ attempts'[barrier.task] = 0
      /\ \A u \in Tasks \ {barrier.task} : attempts'[u] = attempts[u]
  BY <1>5, DeferHolds
<1>8. AttemptsMove
  <2>1. Unspent(barrier.task, Approval(barrier.task, view.revision))
    <3>1. /\ Approval(barrier.task, barrier.revision) \in Nat
          /\ Approval(barrier.task, view.revision) \in Nat
          /\ Approval(barrier.task, barrier.revision) <= Approval(barrier.task, view.revision)
      <4>1. /\ view.revision \in 0..Len(journal) /\ barrier.revision \in 0..Len(journal)
            /\ barrier.revision \in Nat
        BY <1>5, NatTyped
      <4>2. /\ Approval(barrier.task, barrier.revision)
                = ApprovalIn(journal, barrier.task, barrier.revision)
            /\ Approval(barrier.task, view.revision)
                = ApprovalIn(journal, barrier.task, view.revision)
        BY <1>5, <4>1, ApprovalRead
      <4> QED BY <1>5, <4>1, <4>2, ApprovalGrows
    <3>2. Unspent(barrier.task, Approval(barrier.task, barrier.revision))
      BY <1>4 DEF LaunchInv
    <3> QED BY <3>1, <3>2 DEF Unspent, SpentInv
  <2>2. barrier.task \notin Active'
    BY <1>5 DEF Active
  <2> QED BY <1>7, <2>1, <2>2 DEF AttemptsMove
<1>9. ConsoleGrows
  BY SameConsole DEF OpenLaunch
<1>10. Held
  BY <1>7
<1>11. TypeOK'
  <2>1. limit' \in Scenarios /\ StoreOK' /\ ViewOK' /\ WorkOK'
        /\ ReadsOK'
    BY <1>1, <1>9, TypesStay DEF OpenLaunch
  <2>2. BarrierOK'
    BY <1>3
  <2>3. ControllerOK'
    BY <1>6, <1>7, <1>9, HeldTypes
  <2>4. MemoryOK'
    BY <1>1, <1>6, <1>7, <1>9, NatTyped, HeldTypes DEF MemoryOK
  <2>5. ControlsOK'
    BY <1>6, <1>7, <1>9, HeldTypes DEF TypeOK, ControlsOK
  <2> QED BY <2>1, <2>2, <2>3, <2>4, <2>5 DEF TypeOK
<1>12. RequestInv' /\ StopInv'
  BY <1>10, ControlsKept DEF OpenLaunch
<1>13. JournalGrows
  BY <1>1 DEF StoreGrows
<1>14. SpentInv' /\ WorkerInv'
  BY <1>11, <1>13, QuietView, QuietWork, <1>8, SameSpends, StartsKept DEF AttemptsMove,
     OpenLaunch
<1>15. LaunchInv'
  BY <1>3 DEF LaunchInv
<1> QED BY <1>11, <1>12, <1>14, <1>15

\* A worker is spawned for the launch.
LEMMA AutomaticLaunchKeeps ==
    ASSUME IInv, limit' = limit, OpenLaunch, NEW t \in Tasks, t = barrier.task,
           view.revision = barrier.revision, CanStart(t), Spawn(t, barrier.revision, barrier.id),
           KeepEnabled, UNCHANGED transient
    PROVE  IInv'
<1> USE DEF IInv, store, memory, controls, work, bounds, ghosts
<1>1. StoreGrows
  BY SameStore DEF OpenLaunch, Opens
<1>2. barrier' = NoCommand
  BY DEF OpenLaunch, Opens
<1>3. BarrierOK' /\ barrier'.kind # "launch"
  BY <1>1, <1>2, NatTyped DEF StoreGrows, JournalGrows, BarrierOK, Command, NoCommand
<1>4. barrier.kind = "launch"
  BY DEF OpenLaunch, Opens
<1>5. t \in Tasks /\ t \notin Active /\ Cardinality(Active) < MaxWorkers /\ t = barrier.task
      /\ barrier.revision = view.revision /\ view.revision \in Nat /\ barrier.id \in Nat
  BY <1>4, NatTyped DEF CanStart, TypeOK, BarrierOK, Command
<1>6. /\ UNCHANGED <<store, view, console, reading, call, bounds, controls, controller, busyReads,
                       spent, cancels, transient, stoppedAt>>
  BY DEF OpenLaunch, KeepEnabled, ghosts, controls
<1>7. workers' = [workers EXCEPT ![t] = [at |-> "spawned", id |-> spawned + 1,
                                         revision |-> view.revision, source |-> barrier.id,
                                         outcome |-> "none", seen |-> 0,
                                         cancelled |-> FALSE]]
      /\ spawned' = spawned + 1 /\ attempts' = [attempts EXCEPT ![t] = Approval(t, view.revision)]
  BY <1>5 DEF Spawn
<1>8. /\ workers' \in [Tasks -> Worker] /\ spawned' \in Nat /\ Active' = Active \cup {t}
      /\ workers'[t].revision = view.revision /\ workers'[t].source = barrier.id
      /\ workers'[t].cancelled = FALSE /\ workers'[t].seen = 0
      /\ \A u \in Tasks \ {t} : workers'[u] = workers[u]
  <2>1. workers \in [Tasks -> Worker] /\ spawned \in Nat
    BY DEF TypeOK, WorkOK
  <2>2. workers'[t] = [at |-> "spawned", id |-> spawned + 1, revision |-> view.revision,
                       source |-> barrier.id, outcome |-> "none", seen |-> 0, cancelled |-> FALSE]
    BY <1>5, <1>7, <2>1
  <2>3. workers'[t] \in Worker
    BY <1>5, <2>1, <2>2 DEF Worker
  <2>4. \A u \in Tasks \ {t} : workers'[u] = workers[u]
    BY <1>7, <2>1
  <2>5. workers' \in [Tasks -> Worker]
    BY <1>7, <2>1, <2>2, <2>3
  <2> QED BY <1>5, <1>7, <2>1, <2>2, <2>3, <2>4, <2>5 DEF Active
<1>9. /\ Approval(t, view.revision) \in 0..Len(journal)
      /\ attempts' \in [Tasks -> 0..Len(journal)] /\ attempts'[t] = Approval(t, view.revision)
      /\ \A u \in Tasks \ {t} : attempts'[u] = attempts[u]
  <2>1. view.revision \in 0..Len(journal) /\ view.revision \in Nat /\ Len(journal) \in Nat
    BY NatTyped
  <2>2. Approval(t, view.revision) = ApprovalIn(journal, t, view.revision)
    BY <1>5, <2>1, ApprovalRead
  <2>3. ApprovalIn(journal, t, view.revision) \in 0..view.revision
    BY <2>1, ApprovalInJournal
  <2>4. attempts \in [Tasks -> 0..Len(journal)]
    BY DEF TypeOK, MemoryOK
  <2> QED BY <1>5, <1>7, <2>1, <2>2, <2>3, <2>4
<1>10. \A u \in Tasks, r \in 0..view.revision : Approval(u, r)' = Approval(u, r)
  BY <1>6 DEF Approval, Of
<1>11. barrier.id # 0 => Unspent(t, Approval(t, view.revision))
  BY <1>4, <1>5 DEF LaunchInv
<1>12. ConsoleGrows
  BY SameConsole DEF OpenLaunch, Opens
<1>13. Held
  BY DEF OpenLaunch, Held
<1>14. TypeOK'
  <2>1. limit' \in Scenarios /\ StoreOK' /\ ControllerOK' /\ ViewOK'
        /\ ControlsOK' /\ ReadsOK'
    BY <1>6, <1>1, <1>12, TypesStay DEF OpenLaunch, Opens
  <2>2. BarrierOK'
    BY <1>3
  <2>3. MemoryOK'
    BY <1>6, <1>9 DEF TypeOK, MemoryOK
  <2>4. WorkOK'
    <3>1. Cardinality(Active \cup {t}) = Cardinality(Active) + 1
      BY <1>5, TasksFinite, FS_AddElement
    <3>2. Cardinality(Active)' <= MaxWorkers
      BY <1>5, <1>8, <3>1, TasksFinite, DispatchBounds
    <3> QED BY <1>6, <1>8, <3>2, NatTyped DEF TypeOK, WorkOK
  <2> QED BY <2>1, <2>2, <2>3, <2>4 DEF TypeOK
<1>15. RequestInv' /\ StopInv'
  BY <1>6, <1>13, ControlsKept
<1>16. JournalGrows
  BY <1>1 DEF StoreGrows
<1>17. SpentInv' /\ WorkerInv'
  <2>1. SpentInv'
    <3>1. \A p \in spent :
              \/ attempts'[p[1]] = attempts[p[1]]
              \/ attempts'[p[1]] = Approval(p[1], view.revision)
      BY <1>9 DEF SpentInv
    <3>2. UNCHANGED <<view, spent, journal>> /\ view.revision \in 0..view.revision
      BY <1>6, NatTyped DEF store
    <3>3. \A p \in spent : Approval(p[1], view.revision)' = Approval(p[1], view.revision)
      BY <3>2 DEF Approval, Of
    <3> QED BY <3>1, <3>2, <3>3 DEF SpentInv, SpentOK
  <2>2. WorkerInv'
    <3> SUFFICES ASSUME NEW u \in Tasks PROVE WorkerOK(u)'
      BY DEF WorkerInv
    <3>1. CASE u = t
      <4>1. workers'[u].revision = view.revision /\ view'.revision = view.revision
            /\ view.revision \in 0..view.revision /\ UNCHANGED journal
        BY <1>6, <1>8, <3>1, NatTyped DEF store
      <4>2. Approval(u, view.revision)' = Approval(t, view.revision)
        BY <3>1, <4>1 DEF Approval, Of
      <4>3. Approval(u, workers[u].revision)' = Approval(u, view.revision)'
        BY <4>1 DEF Approval, Of
      <4> QED BY <1>5, <1>6, <1>8, <1>9, <1>11, <3>1, <4>1, <4>2, <4>3 DEF WorkerOK, Unspent
    <3>2. CASE u # t
      <4>1. workers'[u] = workers[u] /\ attempts'[u] = attempts[u]
            /\ (u \in Active' <=> u \in Active)
        BY <1>8, <1>9, <3>2
      <4>2. Approval(u, workers[u].revision)' = Approval(u, workers[u].revision)
            /\ Approval(u, view.revision)' = Approval(u, view.revision)
        BY <1>6, <4>1 DEF Approval, Of
      <4> QED BY <1>6, <4>1, <4>2 DEF WorkerInv, WorkerOK, Unspent
    <3> QED BY <3>1, <3>2
  <2> QED BY <2>1, <2>2
<1>18. LaunchInv'
  BY <1>3 DEF LaunchInv
<1> QED BY <1>14, <1>15, <1>17, <1>18

\* A worker is spawned for /run.
LEMMA ManualLaunchKeeps ==
    ASSUME IInv, limit' = limit, OpenRun, NEW t \in Tasks, t = barrier.task,
           view.revision = barrier.revision, CanStart(t), Spawn(t, barrier.revision, 0)
    PROVE  IInv'
<1> USE DEF IInv, store, memory, controls, work, bounds, ghosts
<1>1. StoreGrows
  BY SameStore DEF OpenRun, Opens
<1>2. barrier' = NoCommand
  BY DEF OpenRun, Opens
<1>3. BarrierOK' /\ barrier'.kind # "launch"
  BY <1>1, <1>2, NatTyped DEF StoreGrows, JournalGrows, BarrierOK, Command, NoCommand
<1>4. barrier.kind = "run"
  BY DEF OpenRun, Opens
<1>5. t \in Tasks /\ t \notin Active /\ Cardinality(Active) < MaxWorkers /\ t = barrier.task
      /\ barrier.revision = view.revision /\ view.revision \in Nat /\ 0 \in Nat
  BY <1>4, NatTyped DEF CanStart, TypeOK, BarrierOK, Command
<1>6. /\ UNCHANGED <<store, view, console, reading, call, bounds, controls, controller, busyReads,
                       spent, cancels, transient, stoppedAt>>
  BY DEF OpenRun, ghosts, controls
<1>7. workers' = [workers EXCEPT ![t] = [at |-> "spawned", id |-> spawned + 1,
                                         revision |-> view.revision, source |-> 0,
                                         outcome |-> "none", seen |-> 0,
                                         cancelled |-> FALSE]]
      /\ spawned' = spawned + 1 /\ attempts' = [attempts EXCEPT ![t] = Approval(t, view.revision)]
  BY <1>5 DEF Spawn
<1>8. /\ workers' \in [Tasks -> Worker] /\ spawned' \in Nat /\ Active' = Active \cup {t}
      /\ workers'[t].revision = view.revision /\ workers'[t].source = 0
      /\ workers'[t].cancelled = FALSE /\ workers'[t].seen = 0
      /\ \A u \in Tasks \ {t} : workers'[u] = workers[u]
  <2>1. workers \in [Tasks -> Worker] /\ spawned \in Nat
    BY DEF TypeOK, WorkOK
  <2>2. workers'[t] = [at |-> "spawned", id |-> spawned + 1, revision |-> view.revision,
                       source |-> 0, outcome |-> "none", seen |-> 0, cancelled |-> FALSE]
    BY <1>5, <1>7, <2>1
  <2>3. workers'[t] \in Worker
    BY <1>5, <2>1, <2>2 DEF Worker
  <2>4. \A u \in Tasks \ {t} : workers'[u] = workers[u]
    BY <1>7, <2>1
  <2>5. workers' \in [Tasks -> Worker]
    BY <1>7, <2>1, <2>2, <2>3
  <2> QED BY <1>5, <1>7, <2>1, <2>2, <2>3, <2>4, <2>5 DEF Active
<1>9. /\ Approval(t, view.revision) \in 0..Len(journal)
      /\ attempts' \in [Tasks -> 0..Len(journal)] /\ attempts'[t] = Approval(t, view.revision)
      /\ \A u \in Tasks \ {t} : attempts'[u] = attempts[u]
  <2>1. view.revision \in 0..Len(journal) /\ view.revision \in Nat /\ Len(journal) \in Nat
    BY NatTyped
  <2>2. Approval(t, view.revision) = ApprovalIn(journal, t, view.revision)
    BY <1>5, <2>1, ApprovalRead
  <2>3. ApprovalIn(journal, t, view.revision) \in 0..view.revision
    BY <2>1, ApprovalInJournal
  <2>4. attempts \in [Tasks -> 0..Len(journal)]
    BY DEF TypeOK, MemoryOK
  <2> QED BY <1>5, <1>7, <2>1, <2>2, <2>3, <2>4
<1>10. \A u \in Tasks, r \in 0..view.revision : Approval(u, r)' = Approval(u, r)
  BY <1>6 DEF Approval, Of
<1>11. 0 # 0 => Unspent(t, Approval(t, view.revision))
  OBVIOUS
<1>12. ConsoleGrows
  BY SameConsole DEF OpenRun, Opens
<1>13. Held
  BY <1>6 DEF Held, KeepEnabled, ghosts, controls
<1>14. TypeOK'
  <2>1. limit' \in Scenarios /\ StoreOK' /\ ControllerOK' /\ ViewOK'
        /\ ControlsOK' /\ ReadsOK'
    BY <1>6, <1>1, <1>12, TypesStay DEF OpenRun, Opens
  <2>2. BarrierOK'
    BY <1>3
  <2>3. MemoryOK'
    BY <1>6, <1>9 DEF TypeOK, MemoryOK
  <2>4. WorkOK'
    <3>1. Cardinality(Active \cup {t}) = Cardinality(Active) + 1
      BY <1>5, TasksFinite, FS_AddElement
    <3>2. Cardinality(Active)' <= MaxWorkers
      BY <1>5, <1>8, <3>1, TasksFinite, DispatchBounds
    <3> QED BY <1>6, <1>8, <3>2, NatTyped DEF TypeOK, WorkOK
  <2> QED BY <2>1, <2>2, <2>3, <2>4 DEF TypeOK
<1>15. RequestInv' /\ StopInv'
  BY <1>6, <1>13, ControlsKept
<1>16. JournalGrows
  BY <1>1 DEF StoreGrows
<1>17. SpentInv' /\ WorkerInv'
  <2>1. SpentInv'
    <3>1. \A p \in spent :
              \/ attempts'[p[1]] = attempts[p[1]]
              \/ attempts'[p[1]] = Approval(p[1], view.revision)
      BY <1>9 DEF SpentInv
    <3>2. UNCHANGED <<view, spent, journal>> /\ view.revision \in 0..view.revision
      BY <1>6, NatTyped DEF store
    <3>3. \A p \in spent : Approval(p[1], view.revision)' = Approval(p[1], view.revision)
      BY <3>2 DEF Approval, Of
    <3> QED BY <3>1, <3>2, <3>3 DEF SpentInv, SpentOK
  <2>2. WorkerInv'
    <3> SUFFICES ASSUME NEW u \in Tasks PROVE WorkerOK(u)'
      BY DEF WorkerInv
    <3>1. CASE u = t
      <4>1. workers'[u].revision = view.revision /\ view'.revision = view.revision
            /\ view.revision \in 0..view.revision /\ UNCHANGED journal
        BY <1>6, <1>8, <3>1, NatTyped DEF store
      <4>2. Approval(u, view.revision)' = Approval(t, view.revision)
        BY <3>1, <4>1 DEF Approval, Of
      <4>3. Approval(u, workers[u].revision)' = Approval(u, view.revision)'
        BY <4>1 DEF Approval, Of
      <4> QED BY <1>5, <1>6, <1>8, <1>9, <1>11, <3>1, <4>1, <4>2, <4>3 DEF WorkerOK, Unspent
    <3>2. CASE u # t
      <4>1. workers'[u] = workers[u] /\ attempts'[u] = attempts[u]
            /\ (u \in Active' <=> u \in Active)
        BY <1>8, <1>9, <3>2
      <4>2. Approval(u, workers[u].revision)' = Approval(u, workers[u].revision)
            /\ Approval(u, view.revision)' = Approval(u, view.revision)
        BY <1>6, <4>1 DEF Approval, Of
      <4> QED BY <1>6, <4>1, <4>2 DEF WorkerInv, WorkerOK, Unspent
    <3> QED BY <3>1, <3>2
  <2> QED BY <2>1, <2>2
<1>18. LaunchInv'
  BY <1>3 DEF LaunchInv
<1> QED BY <1>14, <1>15, <1>17, <1>18

\* /run is refused.
LEMMA IdleRunKeeps ==
    ASSUME IInv, limit' = limit, OpenRun, UNCHANGED <<work, attempts>>
    PROVE  IInv'
<1> USE DEF IInv, store, memory, controls, work, bounds, ghosts
<1>1. StoreGrows
  BY SameStore DEF OpenRun
<1>2. barrier' = NoCommand
  BY DEF OpenRun, Opens
<1>3. BarrierOK' /\ barrier'.kind # "launch"
  BY <1>1, <1>2, NatTyped DEF StoreGrows, JournalGrows, BarrierOK, Command, NoCommand
<1>4. UNCHANGED <<store, controller, view, memory, controls, reading, call, bounds, ghosts>>
  BY DEF OpenRun
<1>5. ConsoleGrows
  BY SameConsole DEF OpenRun
<1>6. Held
  BY <1>4 DEF Held, KeepEnabled
<1>7. TypeOK'
  <2>1. limit' \in Scenarios /\ StoreOK' /\ ControllerOK' /\ ViewOK'
        /\ MemoryOK' /\ ControlsOK' /\ WorkOK' /\ ReadsOK'
    BY <1>4, <1>1, <1>5, TypesStay DEF OpenRun
  <2>2. BarrierOK'
    BY <1>3
  <2> QED BY <2>1, <2>2 DEF TypeOK
<1>8. RequestInv' /\ StopInv'
  BY <1>4, <1>6, ControlsKept
<1>9. JournalGrows
  BY <1>1 DEF StoreGrows
<1>10. SpentInv' /\ WorkerInv'
  BY <1>4, <1>7, <1>9, QuietView, QuietWork, SameRises, SameSpends, StartsKept DEF
     AttemptsRise, AttemptsMove, OpenRun
<1>11. LaunchInv'
  BY <1>3 DEF LaunchInv
<1> QED BY <1>7, <1>8, <1>10, <1>11

\* The launch could not be saved.
LEMMA FailedLaunchKeeps ==
    ASSUME IInv, limit' = limit, SaveFails, barrier.kind = "launch"
    PROVE  IInv'
<1> USE DEF IInv, store, memory, controls, work, bounds, ghosts
<1>1. StoreGrows
  BY SameStore DEF SaveFails
<1>2. barrier' = NoCommand
  BY DEF SaveFails
<1>3. BarrierOK' /\ barrier'.kind # "launch"
  BY <1>1, <1>2, NatTyped DEF StoreGrows, JournalGrows, BarrierOK, Command, NoCommand
<1>4. Held /\ AttemptsRise
  BY RefuseHolds DEF SaveFails
<1>5. ConsoleGrows
  BY SameConsole DEF SaveFails
<1>6. Held
  BY <1>4
<1>7. TypeOK'
  <2>1. limit' \in Scenarios /\ StoreOK' /\ ViewOK' /\ WorkOK'
        /\ ReadsOK'
    BY <1>1, <1>5, TypesStay DEF SaveFails
  <2>2. BarrierOK'
    BY <1>3
  <2>3. ControllerOK'
    BY <1>4, <1>5, HeldTypes DEF SaveFails
  <2>4. MemoryOK'
    BY <1>1, <1>4, <1>5, HeldTypes, MemoryTypes DEF AttemptsRise, SaveFails
  <2>5. ControlsOK'
    BY <1>4, <1>5, HeldTypes DEF TypeOK, ControlsOK, SaveFails
  <2> QED BY <2>1, <2>2, <2>3, <2>4, <2>5 DEF TypeOK
<1>8. RequestInv' /\ StopInv'
  BY <1>6, ControlsKept DEF SaveFails
<1>9. JournalGrows
  BY <1>1 DEF StoreGrows
<1>10. SpentInv' /\ WorkerInv'
  BY <1>7, <1>9, QuietView, QuietWork, <1>4, SameSpends, StartsKept DEF AttemptsRise,
     AttemptsMove, SaveFails
<1>11. LaunchInv'
  BY <1>3 DEF LaunchInv
<1> QED BY <1>7, <1>8, <1>10, <1>11

\* Another command could not be saved.
LEMMA FailedSaveKeeps ==
    ASSUME IInv, limit' = limit, SaveFails, barrier.kind # "launch"
    PROVE  IInv'
<1> USE DEF IInv, store, memory, controls, work, bounds, ghosts
<1>1. StoreGrows
  BY SameStore DEF SaveFails
<1>2. barrier' = NoCommand
  BY DEF SaveFails
<1>3. BarrierOK' /\ barrier'.kind # "launch"
  BY <1>1, <1>2, NatTyped DEF StoreGrows, JournalGrows, BarrierOK, Command, NoCommand
<1>4. Held /\ AttemptsRise
  BY SameRises DEF SaveFails, Held
<1>5. ConsoleGrows
  BY SameConsole DEF SaveFails
<1>6. Held
  BY <1>4
<1>7. TypeOK'
  <2>1. limit' \in Scenarios /\ StoreOK' /\ ViewOK' /\ WorkOK'
        /\ ReadsOK'
    BY <1>1, <1>5, TypesStay DEF SaveFails
  <2>2. BarrierOK'
    BY <1>3
  <2>3. ControllerOK'
    BY <1>4, <1>5, HeldTypes DEF SaveFails
  <2>4. MemoryOK'
    BY <1>1, <1>4, <1>5, HeldTypes, MemoryTypes DEF AttemptsRise, SaveFails
  <2>5. ControlsOK'
    BY <1>4, <1>5, HeldTypes DEF TypeOK, ControlsOK, SaveFails
  <2> QED BY <2>1, <2>2, <2>3, <2>4, <2>5 DEF TypeOK
<1>8. RequestInv' /\ StopInv'
  BY <1>6, ControlsKept DEF SaveFails
<1>9. JournalGrows
  BY <1>1 DEF StoreGrows
<1>10. SpentInv' /\ WorkerInv'
  BY <1>7, <1>9, QuietView, QuietWork, <1>4, SameSpends, StartsKept DEF AttemptsRise,
     AttemptsMove, SaveFails
<1>11. LaunchInv'
  BY <1>3 DEF LaunchInv
<1> QED BY <1>7, <1>8, <1>10, <1>11

-----------------------------------------------------------------------------
(* Workers. *)

\* The worker claims its task.
LEMMA ClaimedKeeps ==
    ASSUME IInv, limit' = limit, NEW t \in Tasks, Claim(t), Write("Start", t),
           workers' = [workers EXCEPT ![t].at = "claimed"]
    PROVE  IInv'
<1> USE DEF IInv, store, memory, controls, work, bounds, ghosts
<1>1. StoreGrows
  <2>1. JournalGrows /\ Len(journal') <= limit.receipts
    BY WriteGrows
  <2> QED BY <2>1 DEF Claim, TypeOK, StoreOK, StoreGrows
<1>2. WorkGoes /\ \A u \in Tasks : workers'[u].seen = workers[u].seen
  <2>1. workers \in [Tasks -> Worker] /\ workers[t].at = "spawned"
    BY DEF Claim, TypeOK, WorkOK
  <2>2. /\ workers[t] \in Worker
        /\ workers' = [workers EXCEPT ![t] = [workers[t] EXCEPT !.at = "claimed"]]
    BY <2>1
  <2>3. workers'[t] = [workers[t] EXCEPT !.at = "claimed"]
        /\ \A u \in Tasks : u # t => workers'[u] = workers[u]
    BY <2>1, <2>2
  <2>4. workers'[t] \in Worker /\ workers'[t].at = "claimed" /\ workers'[t].id = workers[t].id
        /\ workers'[t].revision = workers[t].revision /\ workers'[t].source = workers[t].source
        /\ workers'[t].cancelled = workers[t].cancelled /\ workers'[t].seen = workers[t].seen
    BY <2>2, <2>3 DEF Worker
  <2>5. workers' \in [Tasks -> Worker]
    BY <2>1, <2>2, <2>4
  <2> QED BY <2>1, <2>3, <2>4, <2>5 DEF WorkGoes
<1>3. \A u \in Tasks : workers[u].seen \in Nat /\ workers[u].seen <= Len(journal)
  BY DEF TypeOK, WorkOK, Worker
<1>4. /\ UNCHANGED <<scopes, controller, view, memory, controls, barrier, spawned, reading, call,
                       bounds, ghosts>>
  BY DEF Claim
<1>5. ConsoleGrows
  BY SameConsole DEF Claim
<1>6. Held
  BY <1>4 DEF Held, KeepEnabled
<1>7. TypeOK'
  <2>1. limit' \in Scenarios /\ StoreOK' /\ ControllerOK' /\ ViewOK'
        /\ MemoryOK' /\ ControlsOK' /\ BarrierOK' /\ ReadsOK'
    BY <1>4, <1>1, <1>5, TypesStay DEF Claim
  <2>2. WorkOK'
    BY <1>1, <1>2, <1>3, <1>4, NatTyped, WorkLeaves, FewWorkers DEF WorkGoes, StoreGrows,
       JournalGrows, TypeOK, WorkOK
  <2> QED BY <2>1, <2>2 DEF TypeOK
<1>8. RequestInv' /\ StopInv'
  BY <1>4, <1>6, ControlsKept
<1>9. JournalGrows
  BY <1>1 DEF StoreGrows
<1>10. SpentInv' /\ WorkerInv'
  BY <1>4, <1>7, <1>9, QuietView, <1>2, SameRises, SameSpends, StartsKept DEF AttemptsRise,
     AttemptsMove, Claim
<1>11. LaunchInv'
  BY <1>4, <1>7, <1>9, QuietView, <1>2, SameSpends, LaunchKept DEF Claim
<1> QED BY <1>7, <1>8, <1>10, <1>11

\* The worker answers.
LEMMA AnsweredKeeps ==
    ASSUME IInv, limit' = limit, NEW t \in Tasks, Claim(t) \/ EndRun(t),
           NEW outcome \in {"ok", "stale", "busy", "denied", "uncertain"}, Answer(t, outcome)
    PROVE  IInv'
<1> USE DEF IInv, store, memory, controls, work, bounds, ghosts
<1>1. StoreGrows
  <2>1. JournalGrows /\ Len(journal') <= limit.receipts
    BY WriteGrows, SameGrows DEF Claim, EndRun, TypeOK, StoreOK
  <2> QED BY <2>1 DEF Claim, EndRun, TypeOK, StoreOK, StoreGrows
<1>2. WorkGoes /\ \A u \in Tasks : workers'[u].seen <= Len(journal')
  BY <1>1, NatTyped, AnswerWorks DEF Claim, EndRun, StoreGrows, JournalGrows
<1>3. /\ UNCHANGED <<scopes, controller, view, memory, controls, barrier, spawned, reading, call,
                       bounds, ghosts>>
  BY DEF Claim, EndRun
<1>4. ConsoleGrows
  BY SameConsole DEF Claim, EndRun
<1>5. Held
  BY <1>3 DEF Held, KeepEnabled
<1>6. TypeOK'
  <2>1. limit' \in Scenarios /\ StoreOK' /\ ControllerOK' /\ ViewOK'
        /\ MemoryOK' /\ ControlsOK' /\ BarrierOK' /\ ReadsOK'
    BY <1>3, <1>1, <1>4, TypesStay DEF Claim, EndRun
  <2>2. WorkOK'
    BY <1>1, <1>2, <1>3, NatTyped, WorkLeaves, FewWorkers DEF WorkGoes, StoreGrows,
       JournalGrows, TypeOK, WorkOK
  <2> QED BY <2>1, <2>2 DEF TypeOK
<1>7. RequestInv' /\ StopInv'
  BY <1>3, <1>5, ControlsKept
<1>8. JournalGrows
  BY <1>1 DEF StoreGrows
<1>9. SpentInv' /\ WorkerInv'
  BY <1>3, <1>6, <1>8, QuietView, <1>2, SameRises, SameSpends, StartsKept DEF AttemptsRise,
     AttemptsMove, Claim, EndRun
<1>10. LaunchInv'
  BY <1>3, <1>6, <1>8, QuietView, <1>2, SameSpends, LaunchKept DEF Claim, EndRun
<1> QED BY <1>6, <1>7, <1>9, <1>10

\* The worker claimed nothing and is deferred.
LEMMA DeferredWorkerKeeps ==
    ASSUME IInv, limit' = limit, NEW t \in Tasks, PollWorker(t),
           Defer(t), UNCHANGED spent, workers[t].source # 0
    PROVE  IInv'
<1> USE DEF IInv, store, memory, controls, work, bounds, ghosts
<1>1. StoreGrows
  BY SameStore DEF PollWorker
<1>2. t \in Active /\ workers[t].at = "answered" /\ workers[t].seen \in 0..Len(journal)
  BY DEF PollWorker, Active, TypeOK, WorkOK, Worker
<1>3. ViewAdvances /\ view' \in [revision : 0..Len(journal), scope : Unknown..Len(scopes)]
  BY <1>2, NatTyped DEF PollWorker, TypeOK, ViewOK, Loaded, ViewAdvances
<1>4. WorkGoes /\ t \notin Active' /\ \A u \in Tasks : workers'[u].seen \in 0..Len(journal)
  <2>1. workers \in [Tasks -> Worker] /\ Nobody \in Worker /\ Len(journal) \in Nat
        /\ \A u \in Tasks : workers[u].seen \in 0..Len(journal)
    BY NatTyped DEF TypeOK, WorkOK, Worker, Nobody
  <2>2. workers' = [workers EXCEPT ![t] = Nobody]
    BY DEF PollWorker
  <2>3. workers' \in [Tasks -> Worker] /\ workers'[t] = Nobody /\ Nobody.at = "none"
        /\ Nobody.seen = 0 /\ \A u \in Tasks : u # t => workers'[u] = workers[u]
    BY <2>1, <2>2 DEF Nobody
  <2> QED BY <2>1, <2>3 DEF WorkGoes, Active
<1>5. /\ UNCHANGED <<store, console, acknowledged, checks, barrier, spawned, reading, call, bounds,
                       cancels>>
  BY DEF PollWorker
<1>6. /\ Held /\ transient' \in [Tasks -> 0..TransientLimit - 1]
      /\ attempts' \in [Tasks -> 0..Len(journal)]
      /\ \A u \in Tasks \ {t} : attempts'[u] = attempts[u]
  BY DeferHolds
<1>7. AttemptsMove
  <2>1. /\ view.revision \in 0..Len(journal) /\ workers[t].revision \in 0..view.revision
        /\ workers[t].revision \in 0..Len(journal) /\ view.revision \in Nat
    <3>1. workers[t].revision \in Nat /\ workers[t].revision <= view.revision
      BY <1>2 DEF TypeOK, WorkOK, Worker, WorkerInv, WorkerOK
    <3> QED BY <3>1, NatTyped
  <2>2. /\ Approval(t, workers[t].revision) \in Nat /\ Approval(t, view.revision) \in Nat
        /\ Approval(t, workers[t].revision) <= Approval(t, view.revision)
    <3>1. /\ Approval(t, workers[t].revision) = ApprovalIn(journal, t, workers[t].revision)
          /\ Approval(t, view.revision) = ApprovalIn(journal, t, view.revision)
      BY <2>1, ApprovalRead
    <3> QED BY <2>1, <3>1, ApprovalGrows
  <2>3. Unspent(t, Approval(t, workers[t].revision))
    BY <1>2 DEF WorkerInv, WorkerOK
  <2>4. Unspent(t, Approval(t, view.revision))
    BY <2>2, <2>3 DEF Unspent, SpentInv
  <2> QED BY <1>4, <1>6, <2>4 DEF AttemptsMove
<1>8. Spends
  BY SameSpends
<1>9. ConsoleGrows
  BY SameConsole DEF PollWorker
<1>10. Held
  BY <1>6
<1>11. TypeOK'
  <2>1. limit' \in Scenarios /\ StoreOK' /\ BarrierOK' /\ ReadsOK'
    BY <1>1, <1>9, TypesStay DEF PollWorker
  <2>2. ViewOK'
    BY <1>1, <1>3, <1>5 DEF ViewOK, store
  <2>3. WorkOK'
    BY <1>4, <1>5, WorkLeaves, FewWorkers DEF WorkGoes, TypeOK, WorkOK, store
  <2>4. ControllerOK'
    BY <1>5, <1>6, <1>9, HeldTypes DEF bounds
  <2>5. MemoryOK'
    BY <1>1, <1>6, <1>9, HeldTypes, <1>5, DispatchBounds DEF MemoryOK, store
  <2>6. ControlsOK'
    BY <1>5, <1>6, <1>9, HeldTypes DEF TypeOK, ControlsOK, store
  <2> QED BY <2>1, <2>2, <2>3, <2>4, <2>5, <2>6 DEF TypeOK
<1>12. RequestInv' /\ StopInv'
  BY <1>5, <1>6, ControlsKept
<1>13. JournalGrows
  BY <1>1 DEF StoreGrows
<1>14. SpentInv' /\ WorkerInv'
  BY <1>11, <1>13, <1>3, <1>4, <1>5, <1>7, <1>8, StartsKept
<1>15. LaunchInv'
  BY <1>11, <1>13, <1>3, <1>4, <1>5, <1>8, LaunchKept
<1> QED BY <1>11, <1>12, <1>14, <1>15

\* The worker ended, and its approval is spent if it failed.
LEMMA EndedWorkerKeeps ==
    ASSUME IInv, limit' = limit, NEW t \in Tasks, PollWorker(t),
           KeepEnabled, UNCHANGED attempts,
           transient' = [transient EXCEPT ![t] = 0],
           spent' \subseteq spent \cup {<<t, Approval(t, workers[t].revision)>>}
    PROVE  IInv'
<1> USE DEF IInv, store, memory, controls, work, bounds, ghosts
<1>1. StoreGrows
  BY SameStore DEF PollWorker
<1>2. t \in Active /\ workers[t].at = "answered" /\ workers[t].seen \in 0..Len(journal)
  BY DEF PollWorker, Active, TypeOK, WorkOK, Worker
<1>3. ViewAdvances /\ view' \in [revision : 0..Len(journal), scope : Unknown..Len(scopes)]
  BY <1>2, NatTyped DEF PollWorker, TypeOK, ViewOK, Loaded, ViewAdvances
<1>4. WorkGoes /\ t \notin Active' /\ \A u \in Tasks : workers'[u].seen \in 0..Len(journal)
  <2>1. workers \in [Tasks -> Worker] /\ Nobody \in Worker /\ Len(journal) \in Nat
        /\ \A u \in Tasks : workers[u].seen \in 0..Len(journal)
    BY NatTyped DEF TypeOK, WorkOK, Worker, Nobody
  <2>2. workers' = [workers EXCEPT ![t] = Nobody]
    BY DEF PollWorker
  <2>3. workers' \in [Tasks -> Worker] /\ workers'[t] = Nobody /\ Nobody.at = "none"
        /\ Nobody.seen = 0 /\ \A u \in Tasks : u # t => workers'[u] = workers[u]
    BY <2>1, <2>2 DEF Nobody
  <2> QED BY <2>1, <2>3 DEF WorkGoes, Active
<1>5. /\ UNCHANGED <<store, console, acknowledged, checks, barrier, spawned, reading, call, bounds,
                       cancels>>
  BY DEF PollWorker
<1>6. /\ Held /\ transient' \in [Tasks -> 0..TransientLimit - 1]
      /\ attempts' \in [Tasks -> 0..Len(journal)]
  BY DispatchBounds DEF Held, TypeOK, MemoryOK
<1>7. AttemptsMove
  BY DEF AttemptsMove
<1>8. Spends
  BY <1>2, <1>4 DEF Spends
<1>9. ConsoleGrows
  BY SameConsole DEF PollWorker
<1>10. Held
  BY <1>6
<1>11. TypeOK'
  <2>1. limit' \in Scenarios /\ StoreOK' /\ BarrierOK' /\ ReadsOK'
    BY <1>1, <1>9, TypesStay DEF PollWorker
  <2>2. ViewOK'
    BY <1>1, <1>3, <1>5 DEF ViewOK, store
  <2>3. WorkOK'
    BY <1>4, <1>5, WorkLeaves, FewWorkers DEF WorkGoes, TypeOK, WorkOK, store
  <2>4. ControllerOK'
    BY <1>5, <1>6, <1>9, HeldTypes DEF bounds
  <2>5. MemoryOK'
    BY <1>1, <1>6, <1>9, HeldTypes, <1>5 DEF MemoryOK, store
  <2>6. ControlsOK'
    BY <1>5, <1>6, <1>9, HeldTypes DEF TypeOK, ControlsOK, store
  <2> QED BY <2>1, <2>2, <2>3, <2>4, <2>5, <2>6 DEF TypeOK
<1>12. RequestInv' /\ StopInv'
  BY <1>5, <1>6, ControlsKept
<1>13. JournalGrows
  BY <1>1 DEF StoreGrows
<1>14. SpentInv' /\ WorkerInv'
  BY <1>11, <1>13, <1>3, <1>4, <1>5, <1>7, <1>8, StartsKept
<1>15. LaunchInv'
  BY <1>11, <1>13, <1>3, <1>4, <1>5, <1>8, LaunchKept
<1> QED BY <1>11, <1>12, <1>14, <1>15

-----------------------------------------------------------------------------
(* The background refresh, and a new terminal. *)

\* The answer stops dispatch.
LEMMA StoppingRefreshKeeps ==
    ASSUME IInv, limit' = limit, PollRefresh, Disable
    PROVE  IInv'
<1> USE DEF IInv, store, memory, controls, work, bounds, ghosts
<1>1. StoreGrows
  BY SameStore DEF PollRefresh
<1>2. /\ UNCHANGED <<store, attempts, transient, console, acknowledged, checks, barrier, work, call,
                       bounds, spent, cancels>>
      /\ reading' = NoRead
  BY DEF PollRefresh
<1>3. ViewAdvances /\ view' \in [revision : 0..Len(journal), scope : Unknown..Len(scopes)]
  <2>1. view \in [revision : 0..Len(journal), scope : Unknown..Len(scopes)]
    BY DEF TypeOK, ViewOK
  <2>2. CASE UNCHANGED view
    BY <1>2, <2>1, <2>2, NatTyped DEF ViewAdvances, store
  <2>3. CASE view' # view
    <3>1. PICK scope \in Answers(reading.scope) : Show(scope)
      BY <2>3 DEF PollRefresh, ReadBusy
    <3>2. Observed(scope) \in Unknown..Len(scopes)
      BY <3>1, NatTyped DEF Answers, Observed, Unknown
    <3>3. Loaded(reading.revision) \in view.revision..Len(journal)
          /\ Loaded(reading.revision) \in 0..Len(journal)
      BY NatTyped DEF Loaded
    <3>4. view' = [revision |-> Loaded(reading.revision), scope |-> Observed(scope)]
      BY <3>1 DEF Show
    <3> QED BY <1>2, <3>2, <3>3, <3>4 DEF ViewAdvances, store
  <2> QED BY <2>2, <2>3
<1>4. Held
  BY DisableStops DEF Held
<1>5. ConsoleGrows
  BY SameConsole DEF PollRefresh
<1>6. Held
  BY <1>4
<1>7. TypeOK'
  <2>1. limit' \in Scenarios /\ StoreOK' /\ BarrierOK' /\ WorkOK'
    BY <1>2, <1>1, <1>5, TypesStay DEF PollRefresh
  <2>2. ViewOK'
    BY <1>1, <1>2, <1>3 DEF ViewOK, store
  <2>3. ReadsOK'
    BY <1>1, <1>2, NatTyped, ReadTyped DEF TypeOK, ReadsOK, store
  <2>4. ControllerOK'
    BY <1>2, <1>4, <1>5, HeldTypes DEF bounds
  <2>5. MemoryOK'
    BY <1>1, <1>2, <1>4, <1>5, HeldTypes, SameRises, MemoryTypes DEF AttemptsRise
  <2>6. ControlsOK'
    BY <1>2, <1>4, <1>5, HeldTypes DEF TypeOK, ControlsOK, store
  <2> QED BY <2>1, <2>2, <2>3, <2>4, <2>5, <2>6 DEF TypeOK
<1>8. RequestInv' /\ StopInv'
  BY <1>2, <1>4, ControlsKept
<1>9. JournalGrows
  BY <1>1 DEF StoreGrows
<1>10. SpentInv' /\ WorkerInv'
  BY <1>2, <1>7, <1>9, <1>3, QuietWork, SameRises, SameSpends, StartsKept DEF AttemptsRise,
     AttemptsMove, PollRefresh
<1>11. LaunchInv'
  BY <1>2, <1>7, <1>9, <1>3, QuietWork, SameSpends, LaunchKept DEF PollRefresh
<1> QED BY <1>7, <1>8, <1>10, <1>11

\* Dispatch goes on.
LEMMA QuietRefreshKeeps ==
    ASSUME IInv, limit' = limit, PollRefresh, UNCHANGED <<controller, pendingOn, stoppedAt>>
    PROVE  IInv'
<1> USE DEF IInv, store, memory, controls, work, bounds, ghosts
<1>1. StoreGrows
  BY SameStore DEF PollRefresh
<1>2. /\ UNCHANGED <<store, attempts, transient, console, acknowledged, checks, barrier, work, call,
                       bounds, spent, cancels>>
      /\ reading' = NoRead
  BY DEF PollRefresh
<1>3. ViewAdvances /\ view' \in [revision : 0..Len(journal), scope : Unknown..Len(scopes)]
  <2>1. view \in [revision : 0..Len(journal), scope : Unknown..Len(scopes)]
    BY DEF TypeOK, ViewOK
  <2>2. CASE UNCHANGED view
    BY <1>2, <2>1, <2>2, NatTyped DEF ViewAdvances, store
  <2>3. CASE view' # view
    <3>1. PICK scope \in Answers(reading.scope) : Show(scope)
      BY <2>3 DEF PollRefresh, ReadBusy
    <3>2. Observed(scope) \in Unknown..Len(scopes)
      BY <3>1, NatTyped DEF Answers, Observed, Unknown
    <3>3. Loaded(reading.revision) \in view.revision..Len(journal)
          /\ Loaded(reading.revision) \in 0..Len(journal)
      BY NatTyped DEF Loaded
    <3>4. view' = [revision |-> Loaded(reading.revision), scope |-> Observed(scope)]
      BY <3>1 DEF Show
    <3> QED BY <1>2, <3>2, <3>3, <3>4 DEF ViewAdvances, store
  <2> QED BY <2>2, <2>3
<1>4. busyReads' \in 0..TransientLimit
  BY DispatchBounds DEF PollRefresh, Show, ReadBusy, Disable, TypeOK, MemoryOK
<1>5. ConsoleGrows
  BY SameConsole DEF PollRefresh
<1>6. TypeOK'
  <2>1. limit' \in Scenarios /\ StoreOK' /\ ControlsOK' /\ BarrierOK'
        /\ WorkOK'
    BY <1>2, <1>1, <1>5, TypesStay DEF PollRefresh
  <2>2. ViewOK'
    BY <1>1, <1>2, <1>3 DEF ViewOK, store
  <2>3. ReadsOK'
    BY <1>1, <1>2, NatTyped, ReadTyped DEF TypeOK, ReadsOK, store
  <2>4. ControllerOK'
    BY <1>2 DEF TypeOK, ControllerOK
  <2>5. MemoryOK'
    BY <1>1, <1>2, <1>4, SameRises, MemoryTypes DEF AttemptsRise
  <2> QED BY <2>1, <2>2, <2>3, <2>4, <2>5 DEF TypeOK
<1>7. RequestInv' /\ StopInv'
  BY <1>2 DEF RequestInv, RequestOK, StopInv
<1>8. JournalGrows
  BY <1>1 DEF StoreGrows
<1>9. SpentInv' /\ WorkerInv'
  BY <1>2, <1>6, <1>8, <1>3, QuietWork, SameRises, SameSpends, StartsKept DEF AttemptsRise,
     AttemptsMove, PollRefresh
<1>10. LaunchInv'
  BY <1>2, <1>6, <1>8, <1>3, QuietWork, SameSpends, LaunchKept DEF PollRefresh
<1> QED BY <1>6, <1>7, <1>9, <1>10

\* A new terminal.
LEMMA RestartKeeps ==
    ASSUME IInv, limit' = limit, Restart
    PROVE  IInv'
<1> USE DEF IInv, store, memory, controls, work, bounds, ghosts
<1>1. StoreGrows
  BY SameStore DEF Restart
<1>2. ConsoleGrows
  BY SameConsole DEF Restart
<1>3. TypeOK'
  <2>1. limit' \in Scenarios /\ StoreOK'
    BY <1>1, <1>2, TypesStay DEF Restart
  <2>2. ControllerOK'
    <3>1. controller.incarnation \in 0..limit.restarts /\ controller.incarnation = restarts
      BY ControllerTyped DEF TypeOK, ControllerOK
    <3>2. restarts + 1 \in 0..limit.restarts
      BY <3>1, LimitTyped DEF Restart
    <3> QED BY <3>1, <3>2, NatTyped DEF Restart, ControllerOK
  <2>3. ViewOK'
    BY NatTyped DEF Restart, Unknown, store, TypeOK, ViewOK
  <2>4. MemoryOK'
    BY NatTyped, DispatchBounds DEF Restart, store, TypeOK, MemoryOK
  <2>5. ControlsOK'
    <3>1. checks' \in Seq(Read) /\ Len(checks') = Len(console)
          /\ \A id \in 1..Len(console) : checks'[id] = NoRead
      BY NatTyped, ReadTyped DEF Restart
    <3> QED BY <3>1, NatTyped, ReadTyped DEF Restart, TypeOK, ControlsOK, store
  <2>6. BarrierOK'
    BY NatTyped DEF Restart, Command, NoCommand, store, TypeOK, BarrierOK
  <2>7. WorkOK'
    <3>1. Active' = {} /\ workers' \in [Tasks -> Worker] /\ \A t \in Tasks : workers'[t].seen = 0
      BY DEF Restart, Active, Nobody, Worker
    <3>2. Cardinality(Active)' = 0
      BY <3>1, FS_EmptySet
    <3>3. spawned' \in Nat /\ Len(journal') \in Nat /\ MaxWorkers \in Nat
      BY NatTyped, DispatchBounds DEF Restart, TypeOK, WorkOK, store
    <3> QED BY <3>1, <3>2, <3>3 DEF WorkOK
  <2>8. ReadsOK'
    BY NatTyped, ReadTyped DEF Restart, store, TypeOK, ReadsOK
  <2> QED BY <2>1, <2>2, <2>3, <2>4, <2>5, <2>6, <2>7, <2>8 DEF TypeOK
<1>4. RequestInv' /\ StopInv'
  <2>1. controller'.incarnation = controller.incarnation + 1 /\ controller'.enabled = FALSE
        /\ controller'.epoch = 0
    BY DEF Restart
  <2>2. UNCHANGED <<console, cancels>> /\ pendingOn' = 0 /\ stoppedAt' = Len(console)
    BY DEF Restart
  <2> QED BY <2>1, <2>2, ConsoleTyped, ControllerTyped DEF RequestInv, RequestOK, StopInv
<1>5. JournalGrows
  BY <1>1 DEF StoreGrows
<1>6. SpentInv' /\ WorkerInv'
  BY DEF Restart, SpentInv, WorkerInv, WorkerOK, Active, Nobody
<1>7. LaunchInv'
  BY DEF Restart, LaunchInv, NoCommand
<1> QED BY <1>3, <1>4, <1>6, <1>7

-----------------------------------------------------------------------------
(* The initial state, and every step. *)

LEMMA InitKeeps == Init => IInv
<1> SUFFICES ASSUME Init PROVE IInv
  OBVIOUS
<1>1. /\ limit \in Scenarios /\ limit.approved \subseteq Tasks
      /\ Cardinality(limit.approved) \in Nat /\ Cardinality(limit.approved) <= limit.receipts
      /\ {limit.receipts, limit.scopes, limit.inputs, limit.failures, limit.restarts} \subseteq Nat
  <2>1. limit \in Scenarios
    BY DEF Init
  <2>2. limit.tasks \subseteq Tasks /\ limit.approved \subseteq limit.tasks
    BY <2>1, DispatchBounds
  <2>3. Cardinality(limit.approved) \in Nat
    BY <2>2, TasksFinite, FS_Subset, FS_CardinalityType
  <2> QED BY <2>1, <2>2, <2>3, DispatchBounds
<1>2. journal \in Seq(Receipt) /\ Len(journal) <= limit.receipts /\ Len(journal) \in Nat
  <2>1. journal \in [1..Cardinality(limit.approved) -> [kind : {"Approve"}, task : limit.approved]]
    BY DEF Init
  <2>2. journal \in [1..Cardinality(limit.approved) -> Receipt]
    BY <1>1, <2>1 DEF Receipt
  <2> QED BY <1>1, <2>2
<1>3. StoreOK
  BY <1>1, <1>2 DEF Init, StoreOK
<1>4. Active = {} /\ Cardinality(Active) = 0
  <2>1. Active = {}
    BY DEF Init, Active, Nobody
  <2> QED BY <2>1, FS_EmptySet
<1>5. WorkOK
  <2>1. workers \in [Tasks -> Worker] /\ \A t \in Tasks : workers[t].seen = 0
    BY DEF Init, Worker, Nobody
  <2>2. spawned \in Nat /\ 0 <= MaxWorkers
    BY DispatchBounds DEF Init
  <2> QED BY <1>2, <1>4, <2>1, <2>2 DEF WorkOK
<1>6. ControllerOK /\ ViewOK /\ MemoryOK /\ ReadsOK
  BY <1>1, <1>2, ReadTyped, DispatchBounds
     DEF Init, ControllerOK, ViewOK, MemoryOK, ReadsOK, Unknown
<1>7. ControlsOK /\ BarrierOK
  BY <1>2 DEF Init, ControlsOK, BarrierOK, Command, NoCommand
<1>8. TypeOK
  BY <1>1, <1>3, <1>5, <1>6, <1>7 DEF TypeOK
<1>9. RequestInv /\ StopInv /\ SpentInv /\ LaunchInv
  BY DEF Init, RequestInv, StopInv, SpentInv, LaunchInv, NoCommand
<1>10. WorkerInv
  BY <1>4 DEF Init, WorkerInv, WorkerOK, Nobody
<1> QED BY <1>8, <1>9, <1>10 DEF IInv

LEMMA StutterKeeps == IInv /\ UNCHANGED vars => IInv'
<1> SUFFICES ASSUME IInv, UNCHANGED vars PROVE IInv'
  OBVIOUS
<1> USE DEF IInv, vars, system, store, memory, controls, work, bounds, ghosts
<1>1. TypeOK'
  BY DEF TypeOK, StoreOK, ControllerOK, ViewOK, MemoryOK, ControlsOK, BarrierOK, WorkOK,
     ReadsOK, Active
<1>2. RequestInv' /\ StopInv'
  BY DEF RequestInv, RequestOK, StopInv
<1>3. SpentInv' /\ WorkerInv' /\ LaunchInv'
  BY DEF SpentInv, SpentOK, WorkerInv, WorkerOK, LaunchInv, Unspent, Approval, Of, Active
<1> QED BY <1>1, <1>2, <1>3

LEMMA OpenLaunchKeeps == IInv /\ limit' = limit /\ OpenLaunch => IInv'
<1> SUFFICES ASSUME IInv, limit' = limit, OpenLaunch PROVE IInv'
  OBVIOUS
<1>1. \/ Refuse(barrier) /\ UNCHANGED <<transient, work>>
      \/ Defer(barrier.task) /\ UNCHANGED work
      \/ /\ view.revision = barrier.revision /\ CanStart(barrier.task)
         /\ Spawn(barrier.task, barrier.revision, barrier.id) /\ KeepEnabled
         /\ UNCHANGED transient
  BY DEF OpenLaunch
<1>2. barrier.task \in Tasks
  BY DEF OpenLaunch, Opens, IInv, TypeOK, BarrierOK, Command
<1> QED BY <1>1, <1>2, RefusedLaunchKeeps, DeferredLaunchKeeps, AutomaticLaunchKeeps

LEMMA OpenRunKeeps == IInv /\ limit' = limit /\ OpenRun => IInv'
<1> SUFFICES ASSUME IInv, limit' = limit, OpenRun PROVE IInv'
  OBVIOUS
<1>1. \/ UNCHANGED <<work, attempts>>
      \/ /\ view.revision = barrier.revision /\ CanStart(barrier.task)
         /\ Spawn(barrier.task, barrier.revision, 0)
  BY DEF OpenRun
<1>2. barrier.task \in Tasks
  BY DEF OpenRun, Opens, IInv, TypeOK, BarrierOK, Command
<1> QED BY <1>1, <1>2, IdleRunKeeps, ManualLaunchKeeps

LEMMA SaveFailsKeeps == IInv /\ limit' = limit /\ SaveFails => IInv'
  BY FailedLaunchKeeps, FailedSaveKeeps

LEMMA PollControlKeeps ==
    ASSUME IInv, limit' = limit, NEW id \in 1..Len(console), PollControl(id)
    PROVE  IInv'
  BY HeldPollControlKeeps, EnablingPollControlKeeps

LEMMA ClaimKeeps ==
    ASSUME IInv, limit' = limit, NEW t \in Tasks, Claim(t) \/ EndRun(t)
    PROVE  IInv'
<1>1. \/ Claim(t) /\ Write("Start", t) /\ workers' = [workers EXCEPT ![t].at = "claimed"]
      \/ \E outcome \in {"ok", "stale", "busy", "denied", "uncertain"} : Answer(t, outcome)
  BY DEF Claim, EndRun
<1> QED BY <1>1, ClaimedKeeps, AnsweredKeeps

LEMMA PollWorkerKeeps ==
    ASSUME IInv, limit' = limit, NEW t \in Tasks, PollWorker(t)
    PROVE  IInv'
<1>1. \/ Defer(t) /\ UNCHANGED spent /\ workers[t].source # 0
      \/ /\ KeepEnabled /\ UNCHANGED attempts /\ transient' = [transient EXCEPT ![t] = 0]
         /\ spent' \subseteq spent \cup {<<t, Approval(t, workers[t].revision)>>}
  BY DEF PollWorker
<1> QED BY <1>1, DeferredWorkerKeeps, EndedWorkerKeeps

LEMMA PollRefreshKeeps == IInv /\ limit' = limit /\ PollRefresh => IInv'
<1> SUFFICES ASSUME IInv, limit' = limit, PollRefresh PROVE IInv'
  OBVIOUS
<1>1. Disable \/ UNCHANGED <<controller, pendingOn, stoppedAt>>
  BY DEF PollRefresh, Show, ReadBusy
<1> QED BY <1>1, StoppingRefreshKeeps, QuietRefreshKeeps

LEMMA NextKeeps == IInv /\ [Next]_vars => IInv'
<1> SUFFICES ASSUME IInv, Next PROVE IInv'
  BY StutterKeeps
<1>1. limit' = limit
  BY DEF Next
<1>2. CASE User
  BY <1>1, <1>2, TypeOnKeeps, TypeOffKeeps, SendCommandKeeps, RestartKeeps,
     RetryControlKeeps, TypeRunKeeps, TypeCancelKeeps DEF User
<1>3. CASE Open
  BY <1>1, <1>3, OpenOnKeeps, OpenOffKeeps, OpenCancelKeeps, OpenLaunchKeeps, OpenRunKeeps
     DEF Open
<1>4. CASE Poll
  BY <1>1, <1>4, PollCommandKeeps, PollRefreshKeeps, PollControlKeeps, PollWorkerKeeps DEF
     Poll
<1>5. CASE \E t \in Tasks, kind \in {"Approve", "Start", "Finish"} : WriteElsewhere(kind, t)
  BY <1>1, <1>5, WriteElsewhereKeeps
<1>6. CASE \E t \in Tasks : Claim(t) \/ EndRun(t)
  BY <1>1, <1>6, ClaimKeeps
<1>7. CASE SaveFails \/ PrepareLaunch \/ Refresh \/ ReviseScope
  BY <1>1, <1>7, SaveFailsKeeps, PrepareLaunchKeeps, RefreshKeeps, ReviseScopeKeeps
<1> QED BY <1>2, <1>3, <1>4, <1>5, <1>6, <1>7 DEF Next

-----------------------------------------------------------------------------
(* What a launched worker rests on. *)

LEMMA OthersLaunchNothing ==
    ASSUME IInv, Next, ~OpenLaunch, NEW t \in Tasks
    PROVE  ~Launched(t)
<1> DEFINE Outcomes == {"ok", "stale", "busy", "denied", "uncertain"}
<1>1. workers \in [Tasks -> Worker] /\ Nobody.source = 0
  BY DEF IInv, TypeOK, WorkOK, Nobody
<1>2. \A worker \in Worker, n \in Nat, outcome \in Outcomes :
          /\ [worker EXCEPT !.cancelled = TRUE].id = worker.id
          /\ [worker EXCEPT !.at = "claimed"].id = worker.id
          /\ [worker EXCEPT !.at = "answered", !.outcome = outcome, !.seen = n].id = worker.id
  BY DEF Worker
<1>3. CASE UNCHANGED workers
  BY <1>3 DEF Launched
<1>4. CASE OpenCancel
  <2>1. \/ UNCHANGED workers
        \/ workers' = [workers EXCEPT ![console[barrier.id].task].cancelled = TRUE]
    BY <1>4 DEF OpenCancel
  <2> DEFINE u == console[barrier.id].task
  <2>2. ASSUME workers' = [workers EXCEPT ![u].cancelled = TRUE] PROVE ~Launched(t)
    <3>1. workers'[t] = workers[t] \/ workers'[t] = [workers[t] EXCEPT !.cancelled = TRUE]
      BY <1>1, <2>2
    <3> QED BY <1>1, <1>2, <3>1 DEF Launched
  <2> QED BY <1>3, <2>1, <2>2
<1>5. CASE OpenRun
  <2>1. UNCHANGED workers \/ Spawn(barrier.task, barrier.revision, 0)
    BY <1>5 DEF OpenRun, work
  <2> QED BY <1>1, <2>1 DEF Launched, Spawn
<1>6. ASSUME NEW u \in Tasks, Claim(u) \/ EndRun(u) PROVE ~Launched(t)
  <2>1. \/ workers' = [workers EXCEPT ![u].at = "claimed"]
        \/ \E outcome \in Outcomes : Answer(u, outcome)
    BY <1>6 DEF Claim, EndRun
  <2>2. CASE workers' = [workers EXCEPT ![u].at = "claimed"]
    BY <1>1, <1>2, <2>2 DEF Launched
  <2>3. ASSUME NEW outcome \in Outcomes, Answer(u, outcome) PROVE ~Launched(t)
    <3>1. Len(journal') \in Nat
      BY NextKeeps, JournalTyped DEF IInv
    <3>2. workers' = [workers EXCEPT ![u] = [workers[u] EXCEPT !.at = "answered",
                         !.outcome = outcome, !.seen = Len(journal')]]
      BY <2>3 DEF Answer
    <3> QED BY <1>1, <1>2, <3>1, <3>2 DEF Launched
  <2> QED BY <2>1, <2>2, <2>3
<1>7. ASSUME NEW u \in Tasks, PollWorker(u) PROVE ~Launched(t)
  BY <1>1, <1>7 DEF PollWorker, Launched
<1>8. CASE Restart
  BY <1>1, <1>8 DEF Restart, Launched
<1>9. \/ UNCHANGED workers \/ OpenCancel \/ OpenRun \/ Restart
      \/ \E u \in Tasks : Claim(u) \/ EndRun(u) \/ PollWorker(u)
  <2>1. CASE User
    BY <2>1 DEF User, TypeOn, TypeOff, SendCommand, RetryControl, TypeRun, TypeCancel, work
  <2>2. CASE Open
    BY <2>2 DEF Open, OpenOn, OpenOff
  <2>3. CASE Poll
    BY <2>3 DEF Poll, PollCommand, PollRefresh, PollControl, work
  <2>4. CASE SaveFails \/ PrepareLaunch \/ Refresh \/ ReviseScope
    BY <2>4 DEF SaveFails, PrepareLaunch, Refresh, ReviseScope, work
  <2>5. CASE \E u \in Tasks, kind \in {"Approve", "Start", "Finish"} : WriteElsewhere(kind, u)
    BY <2>5 DEF WriteElsewhere, work
  <2> QED BY <2>1, <2>2, <2>3, <2>4, <2>5 DEF Next
<1> QED BY <1>3, <1>4, <1>5, <1>6, <1>7, <1>8, <1>9

LEMMA LaunchRests ==
    ASSUME IInv, Next, NEW t \in Tasks, Launched(t)
    PROVE  workers'[t].source > stoppedAt /\ <<t, Approval(t, view.revision)>> \notin spent
<1>1. OpenLaunch
  BY OthersLaunchNothing
<1>2. barrier.kind = "launch" /\ workers \in [Tasks -> Worker]
  BY <1>1 DEF OpenLaunch, Opens, IInv, TypeOK, WorkOK
<1>3. workers' # workers
  BY DEF Launched
<1>4. /\ OriginHolds(barrier.id) /\ view.revision = barrier.revision
      /\ Spawn(barrier.task, barrier.revision, barrier.id)
  BY <1>1, <1>3 DEF OpenLaunch, work
<1>5. t = barrier.task /\ workers'[t].source = barrier.id
  BY <1>2, <1>4 DEF Launched, Spawn
<1>6. barrier.id > stoppedAt
  BY <1>4 DEF OriginHolds, IInv, StopInv
<1>7. ASSUME <<t, Approval(t, view.revision)>> \in spent PROVE FALSE
  <2>1. Approval(t, view.revision) < Approval(t, view.revision)
    BY <1>2, <1>4, <1>5, <1>7 DEF IInv, LaunchInv, Unspent
  <2>2. Approval(t, view.revision) \in Nat
    BY <1>7 DEF IInv, SpentInv
  <2> QED BY <2>1, <2>2
<1> QED BY <1>5, <1>6, <1>7

-----------------------------------------------------------------------------
(* The theorems. *)

\* The invariant holds of every reachable state.
THEOREM Inductive == Spec => []IInv
<1>1. IInv /\ [Next]_vars => IInv'
  BY NextKeeps
<1> QED BY <1>1, InitKeeps, PTL DEF Spec

\* Whatever is retried, restarted or superseded, the controller keeps its bounds
\* and a cancellation reaches only the worker it was typed for.
THEOREM ControlsTrue == Spec => []ControlsHold
<1>1. IInv => ControlsHold
  BY DEF IInv, WorkerInv, WorkerOK, ControlsHold, CancelHitsItsWorker
<1> QED BY <1>1, Inductive, PTL

\* Nothing that was prepared, saved, checked or answered before dispatch stopped
\* starts a worker after it, and an approval whose start failed for good is not
\* started automatically again.
THEOREM StopsTrue == Spec => StopsHold
<1>1. IInv /\ [Next]_vars =>
          [\A t \in Tasks : Launched(t) => workers'[t].source > stoppedAt]_vars
  BY LaunchRests
<1>2. IInv /\ [Next]_vars =>
          [\A t \in Tasks :
              Launched(t) => <<t, Approval(t, view.revision)>> \notin spent]_vars
  BY LaunchRests
<1> QED BY <1>1, <1>2, Inductive, PTL DEF Spec, StopsHold, NoLateLaunch, SpentStaysSpent
=============================================================================
