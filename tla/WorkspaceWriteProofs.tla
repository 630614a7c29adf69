------------------------- MODULE WorkspaceWriteProofs -------------------------
(***************************************************************************)
(* Proofs of WorkspaceWrite: what clients were told stays true, the        *)
(* journal keeps the promise of OneWrite and stays within its quota, for   *)
(* any number of writers, operations, faults, stops and edits.             *)
(***************************************************************************)
EXTENDS WorkspaceWrite, FiniteSetTheorems, TLAPS

Statuses == {"none", "pending", "done", "rejected"}
Answers == {"ok", "no", "unknown"}
Contents == Seq(Operations \cup {Editor, "absent"})
Receipts == [status : Statuses, policy : Nat]
Tasks == [at : Steps, op : Operations \cup {"none"}, before : Contents, next : Nat, started : BOOLEAN]

(* Where a process holds the lock, where it has a pending receipt, and     *)
(* where it may still reject                                               *)
Owning == Steps \ {"idle", "ready"}
Changing == {"begun", "prepare", "prepared", "staged", "checked", "published", "complete"}
Refusing == {"begin", "failed", "reject"}

Held == {o \in Operations : receipt[o] # NoReceipt}
OperationsIn(f) == Range(f) \cap Operations

-----------------------------------------------------------------------------
(* The inductive invariant: TypeInv, QuotaInv, TaskInv and ReceiptInv *)

TypeInv ==
  /\ task \in [Servers -> Tasks]
  /\ policy \in 1 .. MaxPolicy /\ loaded \in [Servers -> 1 .. policy]
  /\ lock \in Servers \cup {"nobody", "stale"}
  /\ receipt \in [Operations -> Receipts] /\ torn \in BOOLEAN
  /\ file \in Contents /\ made \in 0 .. Depth
  /\ effects \in [Operations -> Nat] /\ told \in [Operations -> SUBSET Answers]

(* Who is about to write the first receipt of an operation has room for it *)
QuotaInv ==
  /\ IsFiniteSet(Held) /\ Cardinality(Held) <= MaxOperations
  /\ \A s \in Servers :
       task[s].at \in Refusing /\ receipt[task[s].op] = NoReceipt => Cardinality(Held) < MaxOperations

(* Who owns the lock is alone, and knows where its operation stands *)
OwnerInv(s) ==
  LET o == task[s].op IN
  /\ task[s].at \in Owning => lock = s
  /\ task[s].at # "idle" => o \in Operations
  /\ task[s].at = "begin" => receipt[o] = NoReceipt
  /\ task[s].at \in Changing => receipt[o].status = "pending"
  /\ task[s].at \in Refusing => receipt[o].status \in {"none", "pending"}
EffectInv(s) ==
  LET o == task[s].op IN
  /\ task[s].started =>
       \/ task[s].at = "release"
       \/ task[s].at \in {"published", "complete", "failed"} /\ receipt[o].status = "pending"
       \/ task[s].at = "checked" /\ o \in Makes /\ effects[o] = 1
  /\ task[s].at \in Changing \cup Refusing /\ ~task[s].started => effects[o] = 0
  /\ task[s].at \in {"published", "complete"} => Done(o)
(* What it read holds every operation that is in the file by now *)
SnapshotInv(s) ==
  /\ task[s].at \in {"prepared", "staged", "checked"} /\ task[s].op \notin Makes =>
       OperationsIn(file) \subseteq OperationsIn(task[s].before)
  /\ task[s].at = "staged" => task[s].op \notin Makes
  /\ task[s].at \in {"prepared", "checked"} /\ task[s].op \in Makes =>
       task[s].next <= Depth /\ task[s].next <= made + 1
TaskInv == \A s \in Servers : OwnerInv(s) /\ EffectInv(s) /\ SnapshotInv(s)

(* No process can change anything for o any more *)
Settled(o) == \A s \in Servers : task[s].op = o => task[s].at \notin Changing \cup Refusing
StoredInv(o) ==
  /\ receipt[o].status = "none" <=> receipt[o] = NoReceipt
  /\ receipt[o].status \in {"none", "rejected"} => effects[o] = 0
  /\ receipt[o].status = "done" => Done(o)
  /\ effects[o] \in {0, 1}
ToldInv(o) ==
  /\ "ok" \in told[o] => Done(o)
  /\ "no" \in told[o] =>
       effects[o] = 0 /\ receipt[o].status \in {"pending", "rejected"} /\ Settled(o)
ReceiptInv == \A o \in Operations : StoredInv(o) /\ ToldInv(o)

IInv == TypeInv /\ QuotaInv /\ TaskInv /\ ReceiptInv

-----------------------------------------------------------------------------
(* The target as a sequence *)

LEMMA AppendedRange ==
  ASSUME NEW S, NEW q \in Seq(S), NEW e \in S
  PROVE  Append(q, e) \in Seq(S) /\ Range(Append(q, e)) = Range(q) \cup {e}
<1>1. /\ Append(q, e) \in Seq(S) /\ DOMAIN q = 1 .. Len(q) /\ Len(q) \in Nat
      /\ DOMAIN Append(q, e) = 1 .. Len(q) + 1
      /\ \A i \in 1 .. Len(q) : Append(q, e)[i] = q[i]
      /\ Append(q, e)[Len(q) + 1] = e
  OBVIOUS
<1>2. DOMAIN Append(q, e) = DOMAIN q \cup {Len(q) + 1}
  BY <1>1
<1> QED BY <1>1, <1>2 DEF Range

LEMMA SingleRange == ASSUME NEW S, NEW e \in S PROVE <<e>> \in Seq(S) /\ Range(<<e>>) = {e}
<1>1. <<e>> \in Seq(S) /\ DOMAIN <<e>> = {1} /\ <<e>>[1] = e
  OBVIOUS
<1> QED BY <1>1 DEF Range

(* What is put into the file stays with what was in it *)
LEMMA WithKeeps ==
  ASSUME NEW before \in Contents, NEW e \in Operations \cup {Editor}
  PROVE  /\ With(before, e) \in Contents
         /\ OperationsIn(With(before, e)) = OperationsIn(before) \cup ({e} \cap Operations)
<1> DEFINE all == Operations \cup {Editor, "absent"}
<1>1. Absent = <<"absent">> /\ "absent" \in all /\ "absent" \notin Operations
  BY WorkspaceWriteAssumption DEF Absent
<1>2. CASE before = Absent
  <2>1. With(before, e) = <<e>>
    BY <1>2 DEF With
  <2>2. /\ <<e>> \in Seq(all) /\ Range(<<e>>) = {e} /\ Range(<<"absent">>) = {"absent"}
    BY <1>1, SingleRange
  <2> QED BY <1>1, <1>2, <2>1, <2>2 DEF OperationsIn, Contents
<1>3. CASE before # Absent
  <2>1. With(before, e) = Append(before, e)
    BY <1>3 DEF With
  <2>2. Append(before, e) \in Seq(all) /\ Range(Append(before, e)) = Range(before) \cup {e}
    BY AppendedRange DEF Contents
  <2> QED BY <2>1, <2>2 DEF OperationsIn, Contents
<1> QED BY <1>2, <1>3

LEMMA DoneIsThere ==
  ASSUME NEW f, NEW o \in Operations
  PROVE  (f # Absent /\ o \in Range(f)) = (o \in OperationsIn(f))
<1>1. Range(Absent) = {"absent"} /\ "absent" \notin Operations
  BY SingleRange, WorkspaceWriteAssumption DEF Absent
<1> QED BY <1>1 DEF OperationsIn

-----------------------------------------------------------------------------
(* Types *)

LEMMA TypeInit == Init => TypeInv
<1> SUFFICES ASSUME Init PROVE TypeInv
  OBVIOUS
<1>1. <<"absent">> \in Contents /\ <<>> \in Contents
  BY SingleRange DEF Contents
<1>2. IdleTask \in Tasks /\ NoReceipt \in Receipts
  BY <1>1 DEF IdleTask, Tasks, Steps, NoReceipt, Receipts, Statuses
<1>3. Depth \in Nat /\ MaxPolicy \in Nat /\ MaxPolicy > 0
  BY WorkspaceWriteAssumption
<1>4. policy \in 1 .. MaxPolicy /\ loaded \in [Servers -> 1 .. policy] /\ made \in 0 .. Depth
  BY <1>3 DEF Init
<1>5. task \in [Servers -> Tasks] /\ receipt \in [Operations -> Receipts] /\ file \in Contents
  BY <1>1, <1>2 DEF Init, Absent
<1> QED BY <1>4, <1>5 DEF Init, TypeInv

(* What the shared operators do to the variables *)
LEMMA GoesTyped ==
  ASSUME TypeInv, NEW s \in Servers, NEW at \in Steps, Goes(s, at)
  PROVE  /\ task' \in [Servers -> Tasks]
         /\ task'[s] = [task[s] EXCEPT !.at = at]
         /\ \A t \in Servers : t # s => task'[t] = task[t]
BY DEF TypeInv, Goes, Tasks

LEMMA IdleTyped ==
  ASSUME TypeInv, NEW s \in Servers, task' = [task EXCEPT ![s] = IdleTask]
  PROVE  /\ task' \in [Servers -> Tasks]
         /\ task'[s] = IdleTask
         /\ \A t \in Servers : t # s => task'[t] = task[t]
<1>1. IdleTask \in Tasks
  BY DEF IdleTask, Tasks, Steps, Contents
<1> QED BY <1>1 DEF TypeInv

LEMMA TellsTyped ==
  ASSUME TypeInv, NEW o \in Operations, NEW what \in Answers, Tells(o, what)
  PROVE  /\ told' \in [Operations -> SUBSET Answers]
         /\ told'[o] = told[o] \cup {what}
         /\ \A p \in Operations : p # o => told'[p] = told[p]
BY DEF TypeInv, Tells

LEMMA SavesTyped ==
  ASSUME TypeInv, NEW s \in Servers, task[s].op \in Operations,
         NEW status \in Statuses, Saves(s, status)
  PROVE  /\ receipt' \in [Operations -> Receipts]
         /\ receipt'[task[s].op].status = status
         /\ status # "none" => receipt'[task[s].op] # NoReceipt
         /\ \A p \in Operations : p # task[s].op => receipt'[p] = receipt[p]
<1>1. loaded[s] \in Nat
  BY DEF TypeInv
<1>2. /\ receipt' \in [Operations -> Receipts]
      /\ receipt'[task[s].op] = [status |-> status, policy |-> loaded[s]]
      /\ \A p \in Operations : p # task[s].op => receipt'[p] = receipt[p]
  BY <1>1 DEF TypeInv, Saves, Receipts
<1> QED BY <1>2 DEF NoReceipt

LEMMA SaysTyped == \A r \in Receipts : Says(r) \in Answers
BY DEF Says, Answers

-----------------------------------------------------------------------------
(* What a step of one process leaves alone *)

OthersKeepTask(s) == \A t \in Servers : t # s => task'[t] = task[t]

(* While one process owns the lock the others own nothing *)
LEMMA OwnerIsAlone ==
  ASSUME IInv, NEW s \in Servers, task[s].at \in Owning, NEW t \in Servers, t # s
  PROVE  task[t].at \in {"idle", "ready"} /\ ~task[t].started
<1>1. OwnerInv(s) /\ OwnerInv(t) /\ EffectInv(t)
  BY DEF IInv, TaskInv
<1>2. task[t] \in Tasks
  BY DEF IInv, TypeInv
<1>3. task[t].at \in {"idle", "ready"}
  BY <1>1, <1>2 DEF OwnerInv, Owning, Tasks
<1> QED BY <1>1, <1>3 DEF EffectInv

LEMMA OwnerStep ==
  ASSUME IInv, NEW s \in Servers, task[s].at \in Owning, OthersKeepTask(s),
         OwnerInv(s)', EffectInv(s)', SnapshotInv(s)'
  PROVE  TaskInv'
<1> SUFFICES ASSUME NEW t \in Servers, t # s
             PROVE  OwnerInv(t)' /\ EffectInv(t)' /\ SnapshotInv(t)'
  BY DEF TaskInv
<1>1. task'[t] = task[t] /\ task[t].at \in {"idle", "ready"} /\ ~task[t].started
  BY OwnerIsAlone DEF OthersKeepTask
<1>2. OwnerInv(t)
  BY DEF IInv, TaskInv
<1> QED BY <1>1, <1>2 DEF OwnerInv, EffectInv, SnapshotInv, Owning, Changing, Refusing

LEMMA QuotaKept ==
  ASSUME QuotaInv, receipt' = receipt, NEW s \in Servers, OthersKeepTask(s),
         task'[s].at \in Refusing /\ receipt[task'[s].op] = NoReceipt => Cardinality(Held) < MaxOperations
  PROVE  QuotaInv'
BY DEF QuotaInv, Held, OthersKeepTask

LEMMA ReceiptKept ==
  ASSUME ReceiptInv, UNCHANGED <<receipt, effects, told>>,
         \A o \in Operations : Done(o) => Done(o)',
         \A o \in Operations : "no" \in told[o] /\ Settled(o) => Settled(o)'
  PROVE  ReceiptInv'
<1> SUFFICES ASSUME NEW o \in Operations PROVE StoredInv(o)' /\ ToldInv(o)'
  BY DEF ReceiptInv
<1>1. StoredInv(o) /\ ToldInv(o)
  BY DEF ReceiptInv
<1> QED BY <1>1 DEF StoredInv, ToldInv

(* An operation nobody was working on stays so *)
LEMMA SettledKept ==
  ASSUME NEW s \in Servers, OthersKeepTask(s), NEW o \in Operations, Settled(o),
         task'[s].at \in Changing \cup Refusing =>
           task'[s].op = task[s].op /\ task[s].at \in Changing \cup Refusing
  PROVE  Settled(o)'
BY DEF Settled, OthersKeepTask

(* A step that leaves the journal, the target and the answers alone *)
LEMMA ControlStep ==
  ASSUME IInv, NEW s \in Servers, task[s].at \in Changing \cup Refusing,
         task' \in [Servers -> Tasks], OthersKeepTask(s), task'[s].op = task[s].op,
         UNCHANGED <<lock, receipt, target, operator, told>>, torn' \in BOOLEAN,
         task'[s].at \in Refusing => task[s].at \in Refusing \/ receipt[task[s].op] # NoReceipt,
         OwnerInv(s)', EffectInv(s)', SnapshotInv(s)'
  PROVE  IInv'
<1>1. TypeInv'
  BY DEF IInv, TypeInv, target, operator
<1>2. TaskInv'
  BY OwnerStep DEF Owning, Steps, Changing, Refusing
<1>3. QuotaInv'
  BY QuotaKept DEF IInv, QuotaInv
<1>4. ReceiptInv'
  <2>1. \A o \in Operations : Settled(o) => Settled(o)'
    BY SettledKept
  <2> QED BY <2>1, ReceiptKept DEF IInv, target, Done
<1> QED BY <1>1, <1>2, <1>3, <1>4 DEF IInv

-----------------------------------------------------------------------------
(* Steps of the owner that only move on *)

LEMMA OwnerKnows ==
  ASSUME IInv, NEW s \in Servers, task[s].at \in Owning
  PROVE  /\ task[s] \in Tasks /\ task[s].op \in Operations /\ lock = s
         /\ OwnerInv(s) /\ EffectInv(s) /\ SnapshotInv(s)
         /\ receipt[task[s].op] \in Receipts
         /\ StoredInv(task[s].op) /\ ToldInv(task[s].op)
<1>1. OwnerInv(s) /\ EffectInv(s) /\ SnapshotInv(s) /\ task[s] \in Tasks
  BY DEF IInv, TaskInv, TypeInv
<1>2. task[s].op \in Operations
  BY <1>1 DEF OwnerInv, Owning
<1> QED BY <1>1, <1>2 DEF OwnerInv, IInv, TypeInv, ReceiptInv

LEMMA ToFailed ==
  ASSUME IInv, NEW s \in Servers, task[s].at \in Changing, task[s].started => task[s].at # "checked",
         Goes(s, "failed"), UNCHANGED <<lock, receipt, target, operator, told>>, torn' \in BOOLEAN
  PROVE  IInv'
<1>1. /\ task' \in [Servers -> Tasks] /\ task'[s] = [task[s] EXCEPT !.at = "failed"]
      /\ OthersKeepTask(s)
  BY GoesTyped DEF IInv, Steps, OthersKeepTask
<1>2. task[s].at \in Owning
  BY DEF Changing, Owning, Steps
<1>3. /\ task[s] \in Tasks /\ task[s].op \in Operations /\ lock = s
      /\ OwnerInv(s) /\ EffectInv(s) /\ receipt[task[s].op].status = "pending"
  BY <1>2, OwnerKnows DEF OwnerInv
<1>4. receipt[task[s].op] # NoReceipt
  BY <1>3 DEF NoReceipt
<1>5. OwnerInv(s)'
  BY <1>1, <1>3 DEF OwnerInv, Owning, Changing, Refusing, Tasks
<1>6. EffectInv(s)'
  BY <1>1, <1>3 DEF EffectInv, Owning, Changing, Refusing, Tasks, target
<1>7. SnapshotInv(s)'
  BY <1>1, <1>3 DEF SnapshotInv, Tasks
<1> QED BY <1>1, <1>3, <1>4, <1>5, <1>6, <1>7, ControlStep DEF Changing, Refusing, Tasks

LEMMA AuditStartedStep ==
  ASSUME IInv, NEW s \in Servers, AuditStarted(s)
  PROVE  IInv'
<1>1. task[s].at = "begun" /\ UNCHANGED <<lock, receipt, target, operator, told>> /\ torn' \in BOOLEAN
  BY DEF AuditStarted, At, Audits, IInv, TypeInv
<1>2. CASE Goes(s, "failed")
  BY <1>1, <1>2, ToFailed DEF Changing
<1>3. CASE Goes(s, "prepare")
  <2>1. /\ task' \in [Servers -> Tasks] /\ task'[s] = [task[s] EXCEPT !.at = "prepare"]
        /\ OthersKeepTask(s)
    BY <1>3, GoesTyped DEF IInv, Steps, OthersKeepTask
  <2>2. /\ task[s] \in Tasks /\ task[s].op \in Operations /\ lock = s
        /\ OwnerInv(s) /\ EffectInv(s)
    BY <1>1, OwnerKnows DEF Owning, Steps
  <2>3. OwnerInv(s)' /\ EffectInv(s)' /\ SnapshotInv(s)'
    BY <1>1, <2>1, <2>2 DEF OwnerInv, EffectInv, SnapshotInv, Owning, Changing, Refusing, Tasks, target
  <2> QED BY <1>1, <2>1, <2>2, <2>3, ControlStep DEF Changing, Refusing, Tasks
<1> QED BY <1>2, <1>3 DEF AuditStarted, Audits, Fails

LEMMA AuditSuccessStep ==
  ASSUME IInv, NEW s \in Servers, AuditSuccess(s)
  PROVE  IInv'
<1>1. task[s].at = "published" /\ UNCHANGED <<lock, receipt, target, operator, told>> /\ torn' \in BOOLEAN
  BY DEF AuditSuccess, At, Audits, IInv, TypeInv
<1>2. CASE Goes(s, "failed")
  BY <1>1, <1>2, ToFailed DEF Changing
<1>3. CASE Goes(s, "complete")
  <2>1. /\ task' \in [Servers -> Tasks] /\ task'[s] = [task[s] EXCEPT !.at = "complete"]
        /\ OthersKeepTask(s)
    BY <1>3, GoesTyped DEF IInv, Steps, OthersKeepTask
  <2>2. /\ task[s] \in Tasks /\ task[s].op \in Operations /\ lock = s
        /\ OwnerInv(s) /\ EffectInv(s)
    BY <1>1, OwnerKnows DEF Owning, Steps
  <2>3. OwnerInv(s)' /\ SnapshotInv(s)'
    BY <1>1, <2>1, <2>2 DEF OwnerInv, SnapshotInv, Owning, Changing, Refusing, Tasks
  <2>4. EffectInv(s)'
    BY <1>1, <2>1, <2>2 DEF EffectInv, Changing, Refusing, Tasks, target, Done
  <2> QED BY <1>1, <2>1, <2>2, <2>3, <2>4, ControlStep DEF Changing, Refusing, Tasks
<1> QED BY <1>2, <1>3 DEF AuditSuccess, Audits, Fails

LEMMA PrepareStep ==
  ASSUME IInv, NEW s \in Servers, Prepare(s)
  PROVE  IInv'
<1>1. /\ task[s].at = "prepare" /\ UNCHANGED <<lock, receipt, target, operator, told>> /\ torn' \in BOOLEAN
      /\ TypeInv
  BY DEF Prepare, At, journal, IInv, TypeInv
<1>2. CASE Goes(s, "failed")
  BY <1>1, <1>2, ToFailed DEF Changing
<1>3. CASE Snapshot(s)
  <2>1. /\ task[s] \in Tasks /\ task[s].op \in Operations /\ lock = s
        /\ OwnerInv(s) /\ EffectInv(s)
    BY <1>1, OwnerKnows DEF Owning, Steps
  <2>2. /\ task' \in [Servers -> Tasks] /\ OthersKeepTask(s)
        /\ task'[s].op = task[s].op /\ task'[s].started = task[s].started
        /\ IF task[s].op \in Makes
           THEN /\ task'[s].at \in {"prepared", "published"} /\ (task'[s].at = "published" <=> made = Depth)
                /\ task'[s].next = made + 1
           ELSE task'[s].at = "prepared" /\ task'[s].before = file
    BY <1>1, <1>3, <2>1 DEF Snapshot, TypeInv, Tasks, Steps, OthersKeepTask
  <2>3. OwnerInv(s)'
    BY <1>1, <2>1, <2>2 DEF OwnerInv, Owning, Changing, Refusing
  <2>4. EffectInv(s)'
    BY <1>1, <2>1, <2>2 DEF EffectInv, Changing, Refusing, target, Done
  <2>5. SnapshotInv(s)'
    <3>1. made \in 0 .. Depth /\ Depth \in Nat
      BY <1>1, WorkspaceWriteAssumption DEF TypeInv
    <3> QED BY <1>1, <2>2, <3>1 DEF SnapshotInv, target
  <2> QED BY <1>1, <2>1, <2>2, <2>3, <2>4, <2>5, ControlStep DEF Changing, Refusing
<1> QED BY <1>2, <1>3 DEF Prepare

LEMMA RecheckStep ==
  ASSUME IInv, NEW s \in Servers, Recheck(s)
  PROVE  IInv'
<1>1. /\ task[s].at \in {"prepared", "staged"} /\ UNCHANGED <<lock, receipt, target, operator, told>>
      /\ torn' \in BOOLEAN
  BY DEF Recheck, journal, IInv, TypeInv
<1>2. CASE Goes(s, "failed")
  BY <1>1, <1>2, ToFailed DEF Changing
<1>3. ASSUME NEW at \in {"staged", "checked"}, Goes(s, at), at = "staged" => task[s].op \notin Makes
      PROVE  IInv'
  <2>1. /\ task' \in [Servers -> Tasks] /\ task'[s] = [task[s] EXCEPT !.at = at]
        /\ OthersKeepTask(s)
    BY <1>3, GoesTyped DEF IInv, Steps, OthersKeepTask
  <2>2. /\ task[s] \in Tasks /\ task[s].op \in Operations /\ lock = s
        /\ OwnerInv(s) /\ EffectInv(s) /\ SnapshotInv(s)
    BY <1>1, OwnerKnows DEF Owning, Steps
  <2>3. OwnerInv(s)' /\ EffectInv(s)'
    BY <1>1, <1>3, <2>1, <2>2 DEF OwnerInv, EffectInv, Owning, Changing, Refusing, Tasks, target
  <2>4. SnapshotInv(s)'
    BY <1>1, <1>3, <2>1, <2>2 DEF SnapshotInv, Tasks, target
  <2> QED BY <1>1, <1>3, <2>1, <2>2, <2>3, <2>4, ControlStep DEF Changing, Refusing, Tasks
<1> QED BY <1>1, <1>2, <1>3 DEF Recheck, At

LEMMA PublishFailsStep ==
  ASSUME IInv, NEW s \in Servers, PublishFails(s) \/ DirectoryExists(s)
  PROVE  IInv'
<1>1. /\ task[s].at \in {"prepared", "staged", "checked"}
      /\ UNCHANGED <<lock, receipt, target, operator, told>> /\ torn' \in BOOLEAN
  BY DEF PublishFails, DirectoryExists, At, journal, IInv, TypeInv
<1>2. CASE Goes(s, "failed") /\ task[s].at # "checked"
  BY <1>1, <1>2, ToFailed DEF Changing
<1>3. CASE Publishes(s, "failed") /\ task[s].at = "checked"
  <2>1. /\ task[s] \in Tasks /\ task[s].op \in Operations /\ lock = s /\ OwnerInv(s)
        /\ receipt[task[s].op].status = "pending"
    BY <1>1, <1>3, OwnerKnows DEF Owning, Steps, OwnerInv, Changing
  <2>2. /\ task' \in [Servers -> Tasks] /\ OthersKeepTask(s)
        /\ task'[s] = [task[s] EXCEPT !.at = "failed", !.started = TRUE]
    BY <1>3, <2>1 DEF Publishes, IInv, TypeInv, Tasks, Steps, OthersKeepTask
  <2>3. OwnerInv(s)' /\ EffectInv(s)' /\ SnapshotInv(s)'
    BY <1>1, <2>1, <2>2 DEF OwnerInv, EffectInv, SnapshotInv, Owning, Changing, Refusing, Tasks
  <2>4. receipt[task[s].op] # NoReceipt
    BY <2>1 DEF NoReceipt
  <2> QED BY <1>1, <1>3, <2>1, <2>2, <2>3, <2>4, ControlStep DEF Changing, Refusing, Tasks
<1> QED BY <1>1, <1>2, <1>3 DEF PublishFails, DirectoryExists, At

-----------------------------------------------------------------------------
(* Steps of the owner that write receipts, answers or the target *)

(* A receipt that is written for the operation of the owner *)
LEMMA SavedQuota ==
  ASSUME IInv, NEW s \in Servers, task[s].at \in Refusing \cup Changing, task[s].op \in Operations,
         NEW status \in Statuses \ {"none"}, Saves(s, status), OthersKeepTask(s),
         task'[s].op \in {task[s].op, "none"}, task'[s].op = "none" => task'[s].at \notin Refusing
  PROVE  QuotaInv'
<1> DEFINE o == task[s].op
<1>1. /\ receipt'[o].status = status /\ receipt'[o] # NoReceipt
      /\ \A p \in Operations : p # o => receipt'[p] = receipt[p]
  BY SavesTyped DEF IInv
<1>2. Held' = Held \cup {o}
  BY <1>1 DEF Held
<1>3. /\ IsFiniteSet(Held') /\ Cardinality(Held') \in Nat
      /\ Cardinality(Held') = IF o \in Held THEN Cardinality(Held) ELSE Cardinality(Held) + 1
  BY <1>2, FS_AddElement, FS_CardinalityType DEF IInv, QuotaInv
<1>4. receipt[o] = NoReceipt => task[s].at \in Refusing
  <2>1. task[s].at \in Changing => receipt[o].status = "pending"
    BY DEF IInv, TaskInv, OwnerInv
  <2> QED BY <2>1 DEF NoReceipt
<1>5. Cardinality(Held') <= MaxOperations
  <2>1. o \notin Held => Cardinality(Held) < MaxOperations
    BY <1>4 DEF Held, IInv, QuotaInv
  <2>2. Cardinality(Held) \in Nat /\ Cardinality(Held) <= MaxOperations /\ MaxOperations \in Nat
    BY FS_CardinalityType, WorkspaceWriteAssumption DEF IInv, QuotaInv
  <2> QED BY <1>3, <2>1, <2>2
<1>6. ASSUME NEW t \in Servers, task'[t].at \in Refusing, receipt'[task'[t].op] = NoReceipt
      PROVE  FALSE
  <2>1. task[s].at \in Owning
    BY DEF Refusing, Changing, Owning, Steps
  <2>2. t = s
    BY <1>6, <2>1, OwnerIsAlone DEF OthersKeepTask, Refusing
  <2> QED BY <1>1, <1>6, <2>2
<1> QED BY <1>3, <1>5, <1>6 DEF QuotaInv

LEMMA BeginStep ==
  ASSUME IInv, NEW s \in Servers, Begin(s)
  PROVE  IInv'
<1> DEFINE o == task[s].op
<1>1. /\ task[s].at = "begin" /\ UNCHANGED <<lock, torn, target, operator, told>> /\ TypeInv
      /\ torn' \in BOOLEAN
  BY DEF Begin, At, IInv, TypeInv
<1>2. /\ task[s] \in Tasks /\ o \in Operations /\ lock = s
      /\ OwnerInv(s) /\ EffectInv(s) /\ StoredInv(o) /\ ToldInv(o)
  BY <1>1, OwnerKnows DEF Owning, Steps
<1>3. PICK at \in {"begun", "failed"} : Goes(s, at) /\ (at = "begun" => Saves(s, "pending"))
  BY DEF Begin, Fails
<1>4. /\ task' \in [Servers -> Tasks] /\ task'[s] = [task[s] EXCEPT !.at = at]
      /\ OthersKeepTask(s)
  BY <1>1, <1>3, GoesTyped DEF Steps, OthersKeepTask
<1>5. effects[o] = 0 /\ ~task[s].started /\ receipt[o] = NoReceipt
  BY <1>1, <1>2 DEF EffectInv, Refusing, OwnerInv
<1>6. CASE Saves(s, "pending")
  <2>1. /\ receipt' \in [Operations -> Receipts] /\ receipt'[o].status = "pending"
        /\ \A p \in Operations : p # o => receipt'[p] = receipt[p]
    <3>1. "pending" \in Statuses
      BY DEF Statuses
    <3> QED BY <1>1, <1>2, <1>6, <3>1, SavesTyped
  <2>2. TypeInv'
    BY <1>1, <1>4, <2>1 DEF TypeInv, target, operator
  <2>3. TaskInv'
    <3>1. OwnerInv(s)' /\ EffectInv(s)' /\ SnapshotInv(s)'
      BY <1>1, <1>2, <1>4, <1>5, <2>1
      DEF OwnerInv, EffectInv, SnapshotInv, Owning, Changing, Refusing, Tasks, target
    <3> QED BY <1>1, <1>4, <3>1, OwnerStep DEF Owning, Steps
  <2>4. QuotaInv'
    <3>1. "pending" \in Statuses \ {"none"} /\ task[s].at \in Refusing \cup Changing
      BY <1>1 DEF Statuses, Refusing
    <3>2. task'[s].op = task[s].op /\ task[s].op # "none"
      BY <1>2, <1>4, WorkspaceWriteAssumption DEF Tasks
    <3> QED BY <1>2, <1>4, <1>6, <3>1, <3>2, SavedQuota
  <2>5. ASSUME NEW p \in Operations PROVE StoredInv(p)' /\ ToldInv(p)'
    <3>1. StoredInv(p) /\ ToldInv(p)
      BY DEF IInv, ReceiptInv
    <3>2. CASE p = o
      <4>1. "no" \notin told[o]
        BY <1>5, <1>2 DEF ToldInv, NoReceipt
      <4> QED BY <1>1, <1>5, <2>1, <3>1, <3>2, <4>1 DEF StoredInv, ToldInv, target, Done, NoReceipt
    <3>3. CASE p # o
      <4>1. Settled(p) => Settled(p)'
        BY <1>4, <3>3 DEF Settled, OthersKeepTask, Tasks
      <4> QED BY <1>1, <2>1, <3>1, <3>3, <4>1 DEF StoredInv, ToldInv, target, Done
    <3> QED BY <3>2, <3>3
  <2> QED BY <2>2, <2>3, <2>4, <2>5 DEF IInv, ReceiptInv
<1>7. CASE UNCHANGED receipt /\ at = "failed"
  <2>1. OwnerInv(s)' /\ EffectInv(s)' /\ SnapshotInv(s)'
    BY <1>1, <1>2, <1>4, <1>5, <1>7
    DEF OwnerInv, EffectInv, SnapshotInv, Owning, Changing, Refusing, Tasks, target, NoReceipt
  <2> QED BY <1>1, <1>4, <1>7, <2>1, ControlStep DEF Changing, Refusing, Tasks
<1> QED BY <1>3, <1>6, <1>7 DEF Begin, Fails

(* What was there stays when the file is written over its snapshot *)
LEMMA DoneMonotone ==
  ASSUME made \in Nat, made' \in made .. Depth, Depth \in Nat,
         OperationsIn(file) \subseteq OperationsIn(file')
  PROVE  \A o \in Operations : Done(o) => Done(o)'
<1> SUFFICES ASSUME NEW o \in Operations, Done(o) PROVE Done(o)'
  OBVIOUS
<1>1. CASE o \in Makes
  BY <1>1 DEF Done
<1>2. CASE o \notin Makes
  <2>1. o \in OperationsIn(file')
    BY <1>2, DoneIsThere DEF Done
  <2>2. file' # Absent /\ o \in Range(file')
    BY <2>1, DoneIsThere
  <2> QED BY <1>2, <2>2 DEF Done
<1> QED BY <1>1, <1>2

(* An effect of the owner, at most its first *)
LEMMA EffectStep ==
  ASSUME IInv, NEW s \in Servers, task[s].at = "checked", task' \in [Servers -> Tasks], OthersKeepTask(s),
         task'[s].op = task[s].op, task'[s].at \in {"checked", "published"},
         UNCHANGED <<journal, operator, told>>,
         file' \in Contents, made' \in 0 .. Depth, made' >= made,
         OperationsIn(file) \subseteq OperationsIn(file'),
         effects' = [effects EXCEPT ![task[s].op] = 1],
         EffectInv(s)', SnapshotInv(s)'
  PROVE  IInv'
<1> DEFINE o == task[s].op
<1>1. /\ o \in Operations /\ lock = s /\ OwnerInv(s) /\ receipt[o].status = "pending"
  BY OwnerKnows DEF Owning, Steps, OwnerInv, Changing
<1>2. /\ effects' \in [Operations -> Nat] /\ effects'[o] = 1
      /\ \A p \in Operations : p # o => effects'[p] = effects[p]
  BY <1>1 DEF IInv, TypeInv
<1>3. TypeInv'
  BY <1>2 DEF IInv, TypeInv, journal, operator
<1>4. TaskInv'
  <2>1. OwnerInv(s)'
    BY <1>1 DEF OwnerInv, Owning, Changing, Refusing, journal
  <2> QED BY <2>1, OwnerStep DEF Owning, Steps
<1>5. QuotaInv'
  BY QuotaKept DEF IInv, Refusing, journal
<1>6. \A p \in Operations : Done(p) => Done(p)'
  <2>1. made \in Nat /\ made' \in made .. Depth /\ Depth \in Nat
    BY WorkspaceWriteAssumption DEF IInv, TypeInv
  <2> QED BY <2>1, DoneMonotone
<1>7. ASSUME NEW p \in Operations PROVE StoredInv(p)' /\ ToldInv(p)'
  <2>1. StoredInv(p) /\ ToldInv(p)
    BY DEF IInv, ReceiptInv
  <2>2. CASE p = o
    <3>1. "no" \notin told[o]
      BY <1>1, <2>1, <2>2 DEF ToldInv, Settled, Changing
    <3> QED BY <1>1, <1>2, <1>6, <2>1, <2>2, <3>1 DEF StoredInv, ToldInv, journal
  <2>3. CASE p # o
    <3>1. Settled(p) => Settled(p)'
      BY <2>3 DEF Settled, OthersKeepTask
    <3> QED BY <1>2, <1>6, <2>1, <2>3, <3>1 DEF StoredInv, ToldInv, journal
  <2> QED BY <2>2, <2>3
<1> QED BY <1>3, <1>4, <1>5, <1>7 DEF IInv, ReceiptInv

LEMMA PublishStep ==
  ASSUME IInv, NEW s \in Servers, Publish(s)
  PROVE  IInv'
<1> DEFINE o == task[s].op
<1>1. /\ task[s].at = "checked" /\ o \notin Makes /\ UNCHANGED <<journal, made, operator, told>> /\ TypeInv
  BY DEF Publish, At, IInv
<1>2. /\ task[s] \in Tasks /\ o \in Operations /\ lock = s /\ receipt[o] \in Receipts
      /\ OwnerInv(s) /\ EffectInv(s) /\ SnapshotInv(s) /\ receipt[o].status = "pending"
  BY <1>1, OwnerKnows DEF Owning, Steps, OwnerInv, Changing
<1>3. PICK at \in {"failed", "published"} : Publishes(s, at)
  BY DEF Publish
<1>4. /\ task' \in [Servers -> Tasks] /\ OthersKeepTask(s)
      /\ task'[s] = [task[s] EXCEPT !.at = at, !.started = TRUE]
  BY <1>2, <1>3 DEF Publishes, IInv, TypeInv, Tasks, Steps, OthersKeepTask
<1>5. CASE Publishes(s, "failed") /\ UNCHANGED <<file, effects>>
  <2>1. task'[s] = [task[s] EXCEPT !.at = "failed", !.started = TRUE]
    BY <1>2, <1>5 DEF Publishes, IInv, TypeInv, Tasks
  <2>2. OwnerInv(s)' /\ EffectInv(s)' /\ SnapshotInv(s)'
    BY <1>1, <1>2, <2>1
    DEF OwnerInv, EffectInv, SnapshotInv, Owning, Changing, Refusing, Tasks, journal
  <2>3. receipt[o] # NoReceipt
    BY <1>2 DEF NoReceipt
  <2>4. UNCHANGED <<lock, receipt, target, operator, told>> /\ torn' \in BOOLEAN
    BY <1>1, <1>5 DEF journal, target, TypeInv
  <2>5. task'[s].op = task[s].op /\ task[s].at \in Changing
    BY <1>1, <1>2, <2>1 DEF Changing, Tasks
  <2> QED BY <1>4, <2>2, <2>3, <2>4, <2>5, ControlStep
<1>6. CASE Publishes(s, "published") /\ file' = With(task[s].before, o) /\ Changes(o)
  <2>1. task'[s] = [task[s] EXCEPT !.at = "published", !.started = TRUE]
    BY <1>2, <1>6 DEF Publishes, IInv, TypeInv, Tasks
  <2>2. /\ file' \in Contents
        /\ OperationsIn(file') = OperationsIn(task[s].before) \cup {o}
    BY <1>2, <1>6, WithKeeps DEF Tasks
  <2>3. OperationsIn(file) \subseteq OperationsIn(file')
    BY <1>1, <1>2, <2>2 DEF SnapshotInv
  <2>4. effects[o] = 0 /\ effects' = [effects EXCEPT ![o] = 1]
    <3>1. effects[o] = 0
      BY <1>1, <1>2 DEF EffectInv, Changing
    <3> QED BY <1>2, <1>6, <3>1 DEF Changes, TypeInv
  <2>5. file' # Absent /\ o \in Range(file')
    <3>1. o \in OperationsIn(file')
      BY <2>2
    <3> HIDE DEF o
    <3> QED BY <1>2, <3>1, DoneIsThere
  <2>6. EffectInv(s)' /\ SnapshotInv(s)'
    BY <1>1, <1>2, <2>1, <2>5 DEF EffectInv, SnapshotInv, Tasks, journal, Done
  <2>7. /\ task'[s].op = task[s].op /\ task'[s].at \in {"checked", "published"}
        /\ made' \in 0 .. Depth /\ made' >= made
    BY <1>1, <1>2, <2>1 DEF TypeInv, Tasks
  <2> QED BY <1>1, <1>4, <2>2, <2>3, <2>4, <2>6, <2>7, EffectStep
<1> QED BY <1>5, <1>6 DEF Publish

LEMMA MakeDirectoryStep ==
  ASSUME IInv, NEW s \in Servers, MakeDirectory(s)
  PROVE  IInv'
<1> DEFINE o == task[s].op
<1>1. /\ task[s].at = "checked" /\ o \in Makes /\ UNCHANGED <<journal, file, operator, told>>
      /\ made' = made + 1 /\ effects' = [effects EXCEPT ![o] = 1] /\ TypeInv
  BY DEF MakeDirectory, At, IInv
<1>2. /\ task[s] \in Tasks /\ o \in Operations /\ lock = s /\ receipt[o].status = "pending"
      /\ OwnerInv(s) /\ EffectInv(s) /\ SnapshotInv(s)
  BY <1>1, OwnerKnows DEF Owning, Steps, OwnerInv, Changing
<1>3. /\ made \in Nat /\ Depth \in Nat /\ task[s].next \in Nat
      /\ made + 1 = task[s].next /\ task[s].next <= Depth
  BY <1>1, <1>2, WorkspaceWriteAssumption DEF SnapshotInv, TypeInv, Tasks, MakeDirectory
<1>4. /\ task' \in [Servers -> Tasks] /\ OthersKeepTask(s)
      /\ task'[s] = [task[s] EXCEPT !.at = IF made' = Depth THEN "published" ELSE "checked",
                                    !.started = TRUE, !.next = @ + 1]
  <2> DEFINE at == IF made' = Depth THEN "published" ELSE "checked"
  <2>1. at \in Steps /\ task[s].next + 1 \in Nat
    BY <1>3 DEF Steps
  <2> DEFINE new == [task[s] EXCEPT !.at = at, !.started = TRUE, !.next = @ + 1]
  <2>2. task \in [Servers -> Tasks] /\ task' = [task EXCEPT ![s] = new]
    BY <1>1, <1>2 DEF MakeDirectory, TypeInv, Tasks
  <2>3. new \in Tasks
    BY <1>2, <2>1 DEF Tasks
  <2>4. /\ task' \in [Servers -> Tasks] /\ \A t \in Servers : t # s => task'[t] = task[t]
        /\ task'[s] = new
    <3> HIDE DEF new
    <3> QED BY <2>2, <2>3
  <2> QED BY <2>4 DEF OthersKeepTask
<1>5. effects'[o] = 1
  BY <1>1, <1>2 DEF TypeInv
<1>6. EffectInv(s)'
  BY <1>1, <1>2, <1>4, <1>5 DEF EffectInv, Tasks, journal, Done
<1>7. SnapshotInv(s)'
  BY <1>1, <1>2, <1>3, <1>4 DEF SnapshotInv, Tasks
<1>8. file' \in Contents /\ made' \in 0 .. Depth /\ made' >= made
  BY <1>1, <1>3 DEF TypeInv
<1> QED BY <1>1, <1>2, <1>4, <1>6, <1>7, <1>8, EffectStep DEF Tasks

(* The owner is done with the operation, or tells the client about it *)
LEMMA EndStep ==
  ASSUME IInv, NEW s \in Servers, task[s].at \in Owning, Goes(s, "release"),
         UNCHANGED <<lock, target, operator>>, torn' \in BOOLEAN,
         receipt' \in [Operations -> Receipts], told' \in [Operations -> SUBSET Answers],
         QuotaInv', \A p \in Operations : StoredInv(p)' /\ ToldInv(p)'
  PROVE  IInv'
<1>1. /\ task' \in [Servers -> Tasks] /\ task'[s] = [task[s] EXCEPT !.at = "release"]
      /\ OthersKeepTask(s)
  BY GoesTyped DEF IInv, Steps, OthersKeepTask
<1>2. TypeInv'
  BY <1>1 DEF IInv, TypeInv, target, operator
<1>3. task[s] \in Tasks /\ task[s].op \in Operations /\ lock = s
  BY OwnerKnows
<1>4. OwnerInv(s)' /\ EffectInv(s)' /\ SnapshotInv(s)'
  BY <1>1, <1>3 DEF OwnerInv, EffectInv, SnapshotInv, Changing, Refusing, Tasks
<1> QED BY <1>1, <1>2, <1>4, OwnerStep DEF IInv, ReceiptInv

LEMMA Released ==
  ASSUME IInv, NEW s \in Servers, task[s].at \in Owning, Goes(s, "release")
  PROVE  /\ task[s] \in Tasks /\ task[s].op \in Operations
         /\ task'[s] = [task[s] EXCEPT !.at = "release"] /\ OthersKeepTask(s)
         /\ \A p \in Operations : Settled(p)'
<1>1. /\ task'[s] = [task[s] EXCEPT !.at = "release"] /\ OthersKeepTask(s)
      /\ task[s] \in Tasks /\ task[s].op \in Operations
  BY GoesTyped, OwnerKnows DEF IInv, Steps, OthersKeepTask
<1>2. \A t \in Servers : t # s => task'[t].at \in {"idle", "ready"}
  BY <1>1, OwnerIsAlone DEF OthersKeepTask
<1>3. \A t \in Servers : task'[t].at \notin Changing \cup Refusing
  BY <1>1, <1>2 DEF Changing, Refusing, Tasks
<1> QED BY <1>1, <1>3 DEF Settled

LEMMA CompleteStep ==
  ASSUME IInv, NEW s \in Servers, Complete(s)
  PROVE  IInv'
<1>1. /\ task[s].at = "complete" /\ UNCHANGED <<lock, torn, target, operator>> /\ TypeInv
      /\ torn' \in BOOLEAN /\ task[s].at \in Owning
  BY DEF Complete, At, IInv, TypeInv, Owning, Steps
<1>2. CASE Goes(s, "failed") /\ UNCHANGED <<receipt, told>>
  BY <1>1, <1>2, ToFailed DEF Changing
<1>3. CASE Saves(s, "done") /\ Goes(s, "release") /\ Tells(task[s].op, "ok")
  <2>1. /\ task[s] \in Tasks /\ task[s].op \in Operations /\ Done(task[s].op)
        /\ receipt[task[s].op].status = "pending"
    BY <1>1, OwnerKnows DEF EffectInv, OwnerInv, Changing
  <2>2. "done" \in Statuses \ {"none"} /\ "ok" \in Answers /\ task[s].at \in Refusing \cup Changing
    BY <1>1 DEF Statuses, Answers, Changing
  <2>3. /\ receipt' \in [Operations -> Receipts] /\ receipt'[task[s].op].status = "done"
        /\ receipt'[task[s].op] # NoReceipt
        /\ \A p \in Operations : p # task[s].op => receipt'[p] = receipt[p]
    BY <1>1, <1>3, <2>1, <2>2, SavesTyped
  <2>4. /\ told' \in [Operations -> SUBSET Answers] /\ told'[task[s].op] = told[task[s].op] \cup {"ok"}
        /\ \A p \in Operations : p # task[s].op => told'[p] = told[p]
    BY <1>1, <1>3, <2>1, <2>2, TellsTyped
  <2>5. /\ task'[s].op = task[s].op /\ task'[s].at = "release" /\ OthersKeepTask(s)
        /\ \A p \in Operations : Settled(p)'
    BY <1>1, <1>3, <2>1, Released DEF Tasks
  <2>6. QuotaInv'
    BY <1>3, <2>1, <2>2, <2>5, WorkspaceWriteAssumption, SavedQuota
  <2>7. ASSUME NEW p \in Operations PROVE StoredInv(p)' /\ ToldInv(p)'
    <3>1. StoredInv(p) /\ ToldInv(p)
      BY DEF IInv, ReceiptInv
    <3>2. CASE p = task[s].op
      <4>1. "no" \notin told[p]
        BY <1>1, <3>1, <3>2 DEF ToldInv, Settled, Changing
      <4> QED BY <1>1, <2>1, <2>3, <2>4, <3>1, <3>2, <4>1 DEF StoredInv, ToldInv, target, Done
    <3>3. CASE p # task[s].op
      BY <1>1, <2>3, <2>4, <2>5, <3>1, <3>3 DEF StoredInv, ToldInv, target, Done
    <3> QED BY <3>2, <3>3
  <2> QED BY <1>1, <1>3, <2>3, <2>4, <2>6, <2>7, EndStep
<1> QED BY <1>2, <1>3 DEF Complete, Fails

(* An answer of the catch: "no" to what changed nothing, under a receipt   *)
(* that will not let it be tried again                                     *)
LEMMA AnswerTells ==
  ASSUME IInv, NEW s \in Servers, task[s].at \in {"failed", "reject"}, Answer(s), Goes(s, "release"),
         UNCHANGED target,
         receipt' \in [Operations -> Receipts],
         \A p \in Operations : p # task[s].op => receipt'[p] = receipt[p],
         \A p \in Operations : StoredInv(p)',
         receipt'[task[s].op].status \in {"none", "pending", "rejected"},
         task[s].started => receipt'[task[s].op] = receipt[task[s].op]
  PROVE  /\ told' \in [Operations -> SUBSET Answers]
         /\ \A p \in Operations : ToldInv(p)'
<1> DEFINE o == task[s].op
<1>1. task[s].at \in Owning
  BY DEF Owning, Steps
<1>2. /\ o \in Operations /\ EffectInv(s) /\ OwnerInv(s) /\ TypeInv /\ task[s].started \in BOOLEAN
      /\ \A p \in Operations : Settled(p)'
  BY <1>1, OwnerKnows, Released DEF IInv, Tasks
<1>3. ~task[s].started => effects[o] = 0
  BY <1>2 DEF EffectInv, Refusing
<1>4. "unknown" \in Answers /\ "no" \in Answers
  BY DEF Answers
<1>5. \A p \in Operations : ToldInv(p)
  BY DEF IInv, ReceiptInv
<1>6. "no" \notin told[o]
  BY <1>2, <1>5 DEF ToldInv, Settled, Refusing
<1>7. /\ told' \in [Operations -> SUBSET Answers]
      /\ \A p \in Operations : p # o => told'[p] = told[p]
      /\ "ok" \in told'[o] => "ok" \in told[o]
      /\ "no" \in told'[o] => ~task[s].started /\ receipt'[o] # NoReceipt
  <2>1. CASE task[s].started
    <3>1. Tells(o, "unknown")
      BY <2>1 DEF Answer
    <3> QED BY <1>2, <1>4, <1>6, <2>1, <3>1, TellsTyped
  <2>2. CASE ~task[s].started /\ receipt'[o] # NoReceipt
    <3>1. Tells(o, "no")
      BY <2>2 DEF Answer
    <3> QED BY <1>2, <1>4, <2>2, <3>1, TellsTyped
  <2>3. CASE ~task[s].started /\ receipt'[o] = NoReceipt
    BY <1>2, <1>6, <2>3 DEF Answer, TypeInv
  <2> QED BY <2>1, <2>2, <2>3
<1>8. ASSUME NEW p \in Operations PROVE ToldInv(p)'
  <2>1. CASE p = o
    <3>1. "no" \in told'[o] => effects'[o] = 0 /\ receipt'[o].status \in {"pending", "rejected"}
      BY <1>2, <1>3, <1>7 DEF StoredInv, target
    <3> QED BY <1>2, <1>5, <1>7, <2>1, <3>1 DEF ToldInv, target, Done
  <2>2. CASE p # o
    BY <1>2, <1>5, <1>7, <2>2 DEF ToldInv, target, Done
  <2> QED BY <2>1, <2>2
<1> QED BY <1>7, <1>8

LEMMA AuditFailureStep ==
  ASSUME IInv, NEW s \in Servers, AuditFailure(s)
  PROVE  IInv'
<1>1. /\ task[s].at = "failed" /\ UNCHANGED <<lock, receipt, target, operator>> /\ TypeInv
      /\ torn' \in BOOLEAN /\ task[s].at \in Owning
  BY DEF AuditFailure, At, IInv, TypeInv, Owning, Steps
<1>2. /\ task[s] \in Tasks /\ task[s].op \in Operations /\ lock = s
      /\ OwnerInv(s) /\ EffectInv(s) /\ receipt[task[s].op].status \in {"none", "pending"}
  BY <1>1, OwnerKnows DEF OwnerInv, Refusing
<1>3. CASE Goes(s, "reject") /\ ~task[s].started
  <2>1. /\ task' \in [Servers -> Tasks] /\ task'[s] = [task[s] EXCEPT !.at = "reject"]
        /\ OthersKeepTask(s)
    BY <1>1, <1>3, GoesTyped DEF Steps, OthersKeepTask
  <2>2. UNCHANGED told
    BY <1>2, <2>1 DEF AuditFailure, Tasks
  <2>3. OwnerInv(s)' /\ EffectInv(s)' /\ SnapshotInv(s)'
    BY <1>1, <1>2, <1>3, <2>1
    DEF OwnerInv, EffectInv, SnapshotInv, Owning, Changing, Refusing, Tasks, target
  <2> QED BY <1>1, <2>1, <2>2, <2>3, ControlStep DEF Changing, Refusing, Tasks
<1>4. CASE Goes(s, "release")
  <2>1. task'[s].at = "release" /\ task'[s].op = task[s].op /\ OthersKeepTask(s)
    BY <1>1, <1>2, <1>4, Released DEF Tasks
  <2>2. Answer(s)
    BY <2>1 DEF AuditFailure
  <2>3. ASSUME NEW p \in Operations PROVE StoredInv(p)'
    <3>1. StoredInv(p)
      BY DEF IInv, ReceiptInv
    <3> QED BY <1>1, <3>1 DEF StoredInv, target, Done
  <2>4. QuotaInv'
    BY <1>1, <2>1, QuotaKept DEF IInv, Refusing
  <2>5. receipt' \in [Operations -> Receipts]
    BY <1>1 DEF TypeInv
  <2>6. /\ told' \in [Operations -> SUBSET Answers]
        /\ \A p \in Operations : ToldInv(p)'
    BY <1>1, <1>2, <1>4, <2>2, <2>3, <2>5, AnswerTells
  <2> QED BY <1>1, <1>4, <2>3, <2>4, <2>5, <2>6, EndStep
<1> QED BY <1>3, <1>4 DEF AuditFailure

LEMMA RejectStep ==
  ASSUME IInv, NEW s \in Servers, Reject(s)
  PROVE  IInv'
<1>1. /\ task[s].at = "reject" /\ UNCHANGED <<lock, torn, target, operator>> /\ TypeInv
      /\ torn' \in BOOLEAN /\ task[s].at \in Owning /\ Goes(s, "release") /\ Answer(s)
  BY DEF Reject, At, IInv, TypeInv, Owning, Steps
<1>2. /\ task[s] \in Tasks /\ task[s].op \in Operations /\ lock = s
      /\ OwnerInv(s) /\ receipt[task[s].op].status \in {"none", "pending"}
      /\ ~task[s].started /\ effects[task[s].op] = 0
  BY <1>1, OwnerKnows DEF OwnerInv, EffectInv, Refusing
<1>3. task'[s].at = "release" /\ task'[s].op = task[s].op /\ OthersKeepTask(s)
  BY <1>1, Released DEF Tasks
<1>4. /\ receipt' \in [Operations -> Receipts]
      /\ \A p \in Operations : p # task[s].op => receipt'[p] = receipt[p]
      /\ receipt'[task[s].op].status \in {"none", "pending", "rejected"}
      /\ receipt'[task[s].op].status = "none" <=> receipt'[task[s].op] = NoReceipt
      /\ QuotaInv'
  <2>1. CASE Saves(s, "rejected")
    <3>1. "rejected" \in Statuses \ {"none"} /\ task[s].at \in Refusing \cup Changing
      BY <1>1 DEF Statuses, Refusing
    <3>2. QuotaInv'
      BY <1>2, <1>3, <2>1, <3>1, WorkspaceWriteAssumption, SavedQuota
    <3>3. /\ receipt' \in [Operations -> Receipts] /\ receipt'[task[s].op].status = "rejected"
          /\ receipt'[task[s].op] # NoReceipt
          /\ \A p \in Operations : p # task[s].op => receipt'[p] = receipt[p]
      BY <1>1, <1>2, <2>1, <3>1, SavesTyped
    <3> QED BY <3>2, <3>3
  <2>2. CASE UNCHANGED receipt
    <3>1. QuotaInv'
      BY <1>3, <2>2, QuotaKept DEF IInv, Refusing
    <3>2. StoredInv(task[s].op)
      BY <1>1, OwnerKnows
    <3> QED BY <1>1, <1>2, <2>2, <3>1, <3>2 DEF TypeInv, StoredInv
  <2> QED BY <2>1, <2>2 DEF Reject
<1>5. ASSUME NEW p \in Operations PROVE StoredInv(p)'
  <2>1. StoredInv(p)
    BY DEF IInv, ReceiptInv
  <2>2. CASE p = task[s].op
    BY <1>1, <1>2, <1>4, <2>1, <2>2 DEF StoredInv, target
  <2>3. CASE p # task[s].op
    BY <1>1, <1>4, <2>1, <2>3 DEF StoredInv, target, Done
  <2> QED BY <2>2, <2>3
<1>6. /\ told' \in [Operations -> SUBSET Answers]
      /\ \A p \in Operations : ToldInv(p)'
  BY <1>1, <1>2, <1>4, <1>5, AnswerTells
<1> QED BY <1>1, <1>4, <1>5, <1>6, EndStep

-----------------------------------------------------------------------------
(* The lock is taken, a receipt is read, the lock is given back *)

LEMMA TakeLockStep ==
  ASSUME IInv, NEW s \in Servers, TakeLock(s)
  PROVE  IInv'
<1>1. /\ task[s].at = "ready" /\ UNCHANGED <<receipt, torn, target, operator, told>> /\ TypeInv
      /\ lock' \in Servers \cup {"nobody", "stale"} /\ OwnerInv(s) /\ EffectInv(s)
      /\ task[s] \in Tasks
  BY DEF TakeLock, At, IInv, TypeInv, TaskInv
<1>2. /\ task' \in [Servers -> Tasks] /\ OthersKeepTask(s)
      /\ \/ task'[s] = IdleTask /\ UNCHANGED lock
         \/ task'[s] = [task[s] EXCEPT !.at = "locked"] /\ lock = "nobody" /\ lock' = s
  BY <1>1, GoesTyped, IdleTyped DEF TakeLock, Steps, OthersKeepTask
<1>3. TypeInv'
  BY <1>1, <1>2 DEF TypeInv, target, operator
<1>4. TaskInv'
  <2>1. OwnerInv(s)' /\ EffectInv(s)' /\ SnapshotInv(s)'
    BY <1>1, <1>2
    DEF OwnerInv, EffectInv, SnapshotInv, Changing, Refusing, Tasks, IdleTask, Owning, Steps
  <2>2. ASSUME NEW t \in Servers, t # s PROVE OwnerInv(t)' /\ EffectInv(t)' /\ SnapshotInv(t)'
    <3>1. OwnerInv(t) /\ EffectInv(t) /\ SnapshotInv(t) /\ task'[t] = task[t]
      BY <1>2, <2>2 DEF IInv, TaskInv, OthersKeepTask
    <3>2. lock = "nobody" => task[t].at \notin Owning
      BY <3>1, WorkspaceWriteAssumption DEF OwnerInv
    <3> QED BY <1>1, <1>2, <3>1, <3>2
        DEF OwnerInv, EffectInv, SnapshotInv, target, Done
  <2> QED BY <2>1, <2>2 DEF TaskInv
<1>5. QuotaInv'
  BY <1>1, <1>2, QuotaKept DEF IInv, IdleTask, Tasks, Refusing
<1>6. ReceiptInv'
  <2>1. \A o \in Operations : Settled(o) => Settled(o)'
    BY <1>1, <1>2, SettledKept DEF Changing, Refusing, IdleTask, Tasks
  <2> QED BY <1>1, <2>1, ReceiptKept DEF IInv, target, Done
<1> QED BY <1>3, <1>4, <1>5, <1>6 DEF IInv

LEMMA ReadReceiptStep ==
  ASSUME IInv, NEW s \in Servers, ReadReceipt(s)
  PROVE  IInv'
<1>1. /\ task[s].at = "locked" /\ UNCHANGED <<lock, receipt, torn, target, operator>> /\ TypeInv
      /\ torn' \in BOOLEAN /\ task[s].at \in Owning
  BY DEF ReadReceipt, At, IInv, TypeInv, Owning, Steps, journal
<1>2. /\ task[s] \in Tasks /\ task[s].op \in Operations /\ lock = s /\ EffectInv(s)
      /\ StoredInv(task[s].op) /\ ToldInv(task[s].op) /\ receipt[task[s].op] \in Receipts
  BY <1>1, OwnerKnows
<1>3. CASE Goes(s, "begin") /\ UNCHANGED told
  <2>1. receipt[task[s].op] = NoReceipt /\ Cardinality(Held) < MaxOperations
    <3>1. task'[s].at = "begin"
      BY <1>1, <1>2, <1>3, GoesTyped DEF Steps, Tasks
    <3>2. ~Goes(s, "release")
      BY <1>1, <1>2, <3>1, GoesTyped DEF Steps, Tasks
    <3> QED BY <3>2 DEF ReadReceipt, Held
  <2>2. /\ task' \in [Servers -> Tasks] /\ task'[s] = [task[s] EXCEPT !.at = "begin"]
        /\ OthersKeepTask(s)
    BY <1>1, <1>3, GoesTyped DEF Steps, OthersKeepTask
  <2>3. /\ receipt[task[s].op].status = "none" /\ effects[task[s].op] = 0 /\ ~task[s].started
        /\ "no" \notin told[task[s].op]
    BY <1>1, <1>2, <2>1 DEF NoReceipt, StoredInv, ToldInv, EffectInv
  <2>4. TypeInv'
    BY <1>1, <1>3, <2>2 DEF TypeInv, target, operator
  <2>5. OwnerInv(s)' /\ EffectInv(s)' /\ SnapshotInv(s)'
    BY <1>1, <1>2, <2>1, <2>2, <2>3
    DEF OwnerInv, EffectInv, SnapshotInv, Owning, Changing, Refusing, Tasks, target, NoReceipt
  <2>6. TaskInv'
    BY <1>1, <2>2, <2>5, OwnerStep
  <2>7. QuotaInv'
    BY <1>1, <2>1, <2>2, QuotaKept DEF IInv
  <2>8. ASSUME NEW p \in Operations, "no" \in told[p], Settled(p) PROVE Settled(p)'
    <3>1. task'[s].op = task[s].op /\ p # task[s].op
      BY <1>2, <2>2, <2>3, <2>8 DEF Tasks
    <3> QED BY <2>2, <2>8, <3>1 DEF Settled, OthersKeepTask
  <2>9. ReceiptInv'
    BY <1>1, <1>3, <2>8, ReceiptKept DEF IInv, target, Done
  <2> QED BY <2>4, <2>6, <2>7, <2>9 DEF IInv
<1>4. CASE Goes(s, "release") /\ (UNCHANGED told \/ Tells(task[s].op, Says(receipt[task[s].op])))
  <2>1. task'[s].at = "release" /\ OthersKeepTask(s) /\ \A p \in Operations : Settled(p)'
    BY <1>1, <1>2, <1>4, Released DEF Tasks
  <2>2. ASSUME NEW p \in Operations PROVE StoredInv(p)'
    <3>1. StoredInv(p)
      BY DEF IInv, ReceiptInv
    <3> QED BY <1>1, <3>1 DEF StoredInv, target, Done
  <2>3. QuotaInv'
    BY <1>1, <2>1, QuotaKept DEF IInv, Refusing
  <2>4. /\ told' \in [Operations -> SUBSET Answers]
        /\ \A p \in Operations : told'[p] \subseteq told[p] \cup (IF p = task[s].op THEN {Says(receipt[p])} ELSE {})
    <3>1. CASE UNCHANGED told
      BY <1>1, <3>1 DEF TypeInv
    <3>2. CASE Tells(task[s].op, Says(receipt[task[s].op]))
      <4>1. Says(receipt[task[s].op]) \in Answers
        BY <1>2, SaysTyped
      <4> QED BY <1>1, <1>2, <3>2, <4>1, TellsTyped
    <3> QED BY <1>4, <3>1, <3>2
  <2>5. ASSUME NEW p \in Operations PROVE ToldInv(p)'
    <3>1. StoredInv(p) /\ ToldInv(p)
      BY DEF IInv, ReceiptInv
    <3>2. /\ Says(receipt[p]) = "ok" => receipt[p].status = "done"
          /\ Says(receipt[p]) = "no" => receipt[p].status = "rejected"
      BY DEF Says
    <3>3. ("ok" \in told'[p] => Done(p)) /\ ("no" \in told'[p] => effects[p] = 0 /\ receipt[p].status \in {"pending", "rejected"})
      BY <2>4, <3>1, <3>2 DEF StoredInv, ToldInv
    <3> QED BY <1>1, <2>1, <3>3 DEF ToldInv, target, Done
  <2>6. receipt' \in [Operations -> Receipts]
    BY <1>1 DEF TypeInv
  <2> QED BY <1>1, <1>4, <2>2, <2>3, <2>4, <2>5, <2>6, EndStep
<1> QED BY <1>3, <1>4 DEF ReadReceipt

(* A process that has nothing more to do with its operation *)
LEMMA LeaveStep ==
  ASSUME IInv, NEW s \in Servers, task'[s] \in Tasks,
         task' \in [Servers -> Tasks], OthersKeepTask(s),
         task'[s].at \in {"idle", "ready"}, task'[s].op \in Operations \cup {"none"}, ~task'[s].started,
         task'[s].at = "ready" => task'[s].op \in Operations,
         UNCHANGED <<receipt, target, told, policy>>, torn' \in BOOLEAN,
         loaded' \in [Servers -> 1 .. policy],
         lock' \in Servers \cup {"nobody", "stale"}, lock # s => lock' = lock \/ lock \notin Servers
  PROVE  IInv'
<1>1. TypeInv'
  BY DEF IInv, TypeInv, target
<1>2. TaskInv'
  <2>1. OwnerInv(s)' /\ EffectInv(s)' /\ SnapshotInv(s)'
    BY DEF OwnerInv, EffectInv, SnapshotInv, Changing, Refusing, Owning
  <2>2. ASSUME NEW t \in Servers, t # s PROVE OwnerInv(t)' /\ EffectInv(t)' /\ SnapshotInv(t)'
    <3>1. OwnerInv(t) /\ EffectInv(t) /\ SnapshotInv(t) /\ task'[t] = task[t]
      BY <2>2 DEF IInv, TaskInv, OthersKeepTask
    <3>2. task[t].at \in Owning => lock' = t
      BY <2>2, <3>1 DEF OwnerInv
    <3> QED BY <3>1, <3>2 DEF OwnerInv, EffectInv, SnapshotInv, target, Done
  <2> QED BY <2>1, <2>2 DEF TaskInv
<1>3. QuotaInv'
  BY QuotaKept DEF IInv, Refusing
<1>4. ReceiptInv'
  <2>1. \A o \in Operations : Settled(o) => Settled(o)'
    BY SettledKept DEF Changing, Refusing
  <2> QED BY <2>1, ReceiptKept DEF IInv, target, Done
<1> QED BY <1>1, <1>2, <1>3, <1>4 DEF IInv

LEMMA WriterLeaves ==
  ASSUME IInv, NEW s \in Servers,
         Release(s) \/ Crash(s) \/ Reload(s) \/ \E o \in Operations : Request(s, o)
  PROVE  IInv'
<1>1. /\ TypeInv /\ task[s] \in Tasks /\ IdleTask \in Tasks /\ task \in [Servers -> Tasks]
      /\ torn \in BOOLEAN /\ policy \in 1 .. MaxPolicy /\ loaded \in [Servers -> 1 .. policy]
      /\ lock \in Servers \cup {"nobody", "stale"}
  BY DEF IInv, TypeInv, IdleTask, Tasks, Steps, Contents
<1>2. CASE Release(s)
  <2>1. /\ task' = [task EXCEPT ![s] = IdleTask]
        /\ UNCHANGED <<receipt, torn, target, told, policy, loaded>> /\ lock = s
        /\ lock' \in {"nobody", "stale"}
    BY <1>2, OwnerKnows DEF Release, At, Owning, Steps, operator
  <2>2. task'[s] = IdleTask /\ OthersKeepTask(s) /\ task' \in [Servers -> Tasks]
    BY <1>1, <2>1, IdleTyped DEF OthersKeepTask
  <2> QED BY <1>1, <2>1, <2>2, LeaveStep DEF IdleTask
<1>3. CASE Crash(s)
  <2>1. /\ task' = [task EXCEPT ![s] = IdleTask] /\ UNCHANGED <<receipt, target, told, policy>>
        /\ torn' \in BOOLEAN /\ lock' = IF lock = s THEN "stale" ELSE lock
        /\ loaded' = [loaded EXCEPT ![s] = policy]
    BY <1>1, <1>3 DEF Crash
  <2>2. task'[s] = IdleTask /\ OthersKeepTask(s) /\ task' \in [Servers -> Tasks]
    BY <1>1, <2>1, IdleTyped DEF OthersKeepTask
  <2>3. loaded' \in [Servers -> 1 .. policy] /\ lock' \in Servers \cup {"nobody", "stale"}
    BY <1>1, <2>1, WorkspaceWriteAssumption
  <2> QED BY <1>1, <2>1, <2>2, <2>3, LeaveStep DEF IdleTask
<1>4. CASE Reload(s)
  <2>1. /\ UNCHANGED <<task, lock, torn, receipt, target, told, policy>> /\ task[s].at = "idle"
        /\ loaded' = [loaded EXCEPT ![s] = policy]
    BY <1>4 DEF Reload, At, journal
  <2>2. loaded' \in [Servers -> 1 .. policy]
    BY <1>1, <2>1, WorkspaceWriteAssumption
  <2>3. task[s].op \in Operations \cup {"none"} /\ ~task[s].started
    BY <1>1, <2>1 DEF IInv, TaskInv, EffectInv, Tasks
  <2> QED BY <1>1, <2>1, <2>2, <2>3, LeaveStep DEF OthersKeepTask
<1>5. ASSUME NEW o \in Operations, Request(s, o) PROVE IInv'
  <2>1. /\ UNCHANGED <<lock, torn, receipt, target, told, policy, loaded>>
        /\ task' = [task EXCEPT ![s] = IF PolicyIsCurrent(s)
                                       THEN [IdleTask EXCEPT !.at = "ready", !.op = o] ELSE IdleTask]
    BY <1>5 DEF Request, journal, operator
  <2>2. [IdleTask EXCEPT !.at = "ready", !.op = o] \in Tasks
    BY <1>1 DEF Tasks, Steps
  <2>3. PICK new \in Tasks : /\ task' = [task EXCEPT ![s] = new]
                             /\ new \in {IdleTask, [IdleTask EXCEPT !.at = "ready", !.op = o]}
    BY <1>1, <2>1, <2>2
  <2>4. task'[s] = new /\ OthersKeepTask(s) /\ task' \in [Servers -> Tasks]
    BY <1>1, <2>3 DEF OthersKeepTask
  <2>5. /\ new.at \in {"idle", "ready"} /\ new.op \in Operations \cup {"none"} /\ ~new.started
        /\ new.at = "ready" => new.op \in Operations
    <3>1. CASE new = IdleTask
      BY <3>1 DEF IdleTask
    <3>2. CASE new = [IdleTask EXCEPT !.at = "ready", !.op = o]
      BY <3>2 DEF IdleTask
    <3> QED BY <2>3, <3>1, <3>2
  <2> QED BY <1>1, <2>1, <2>4, <2>5, LeaveStep
<1> QED BY <1>2, <1>3, <1>4, <1>5

LEMMA QueryStep ==
  ASSUME IInv, NEW s \in Servers, NEW o \in Operations, Query(s, o)
  PROVE  IInv'
<1>1. UNCHANGED <<task, journal, target, operator>> /\ Tells(o, Says(receipt[o])) /\ TypeInv
      /\ receipt[o] \in Receipts /\ StoredInv(o) /\ ToldInv(o) /\ receipt[o].policy = loaded[s]
  BY DEF Query, IInv, TypeInv, ReceiptInv
<1>2. /\ told' \in [Operations -> SUBSET Answers] /\ told'[o] = told[o] \cup {Says(receipt[o])}
      /\ \A p \in Operations : p # o => told'[p] = told[p]
  BY <1>1, SaysTyped, TellsTyped
<1>3. TypeInv' /\ TaskInv' /\ QuotaInv'
  BY <1>1, <1>2 DEF IInv, TypeInv, TaskInv, OwnerInv, EffectInv, SnapshotInv, QuotaInv, Held,
     journal, target, operator, Done
<1>4. Says(receipt[o]) = "no" => Settled(o)
  BY <1>1 DEF Says, Settled, IInv, TaskInv, OwnerInv, Changing, Refusing
<1>5. ASSUME NEW p \in Operations PROVE StoredInv(p)' /\ ToldInv(p)'
  <2>1. StoredInv(p) /\ ToldInv(p)
    BY DEF IInv, ReceiptInv
  <2>2. /\ Says(receipt[p]) = "ok" => receipt[p].status = "done"
        /\ Says(receipt[p]) = "no" => receipt[p].status = "rejected"
    BY DEF Says
  <2>3. /\ "ok" \in told'[p] => Done(p)
        /\ "no" \in told'[p] =>
             effects[p] = 0 /\ receipt[p].status \in {"pending", "rejected"} /\ Settled(p)
    BY <1>2, <1>4, <2>1, <2>2 DEF StoredInv, ToldInv
  <2> QED BY <1>1, <2>1, <2>3 DEF StoredInv, ToldInv, journal, target, Done, Settled
<1> QED BY <1>3, <1>5 DEF IInv, ReceiptInv

(* Nobody is at work: the operator repairs, or writes another policy *)
LEMMA OperatorStep ==
  ASSUME IInv, OperatorRepairs \/ ReplacePolicy
  PROVE  IInv'
<1>1. UNCHANGED <<task, receipt, target, told, loaded>> /\ TypeInv
  BY DEF OperatorRepairs, ReplacePolicy, journal, operator, IInv
<1>2. /\ policy' \in 1 .. MaxPolicy /\ loaded' \in [Servers -> 1 .. policy']
      /\ lock' \in Servers \cup {"nobody", "stale"} /\ torn' \in BOOLEAN
  <2>1. MaxPolicy \in Nat
    BY WorkspaceWriteAssumption
  <2>2. CASE OperatorRepairs
    BY <1>1, <2>2 DEF OperatorRepairs, operator, TypeInv
  <2>3. CASE ReplacePolicy
    <3>1. policy' \in 1 .. MaxPolicy /\ 1 .. policy \subseteq 1 .. policy'
      BY <1>1, <2>1, <2>3 DEF ReplacePolicy, TypeInv
    <3> QED BY <1>1, <2>3, <3>1 DEF ReplacePolicy, journal, TypeInv
  <2> QED BY <2>2, <2>3
<1>3. \A s \in Servers : task[s].at \in Owning => lock' = lock
  BY DEF OperatorRepairs, ReplacePolicy, At, Owning, journal
<1>4. TypeInv'
  BY <1>1, <1>2 DEF TypeInv, target
<1>5. TaskInv'
  BY <1>1, <1>3 DEF IInv, TaskInv, OwnerInv, EffectInv, SnapshotInv, target, Done
<1>6. QuotaInv' /\ ReceiptInv'
  BY <1>1 DEF IInv, QuotaInv, Held, ReceiptInv, StoredInv, ToldInv, target, Done, Settled
<1> QED BY <1>4, <1>5, <1>6 DEF IInv

LEMMA EditStep ==
  ASSUME IInv, Edit
  PROVE  IInv'
<1>1. UNCHANGED <<task, journal, effects, operator, told>> /\ TypeInv /\ Depth \in Nat
      /\ made \in Nat /\ made \in 0 .. Depth
  BY WorkspaceWriteAssumption DEF Edit, IInv, TypeInv
<1>2. /\ file' \in Contents /\ made' \in made .. Depth
      /\ OperationsIn(file') = OperationsIn(file)
  <2>1. CASE file' = With(file, Editor) /\ UNCHANGED made
    <3>1. file \in Contents /\ Editor \in Operations \cup {Editor}
      BY <1>1 DEF TypeInv
    <3>2. /\ file' \in Contents
          /\ OperationsIn(file') = OperationsIn(file) \cup ({Editor} \cap Operations)
      BY <2>1, <3>1, WithKeeps
    <3>3. {Editor} \cap Operations = {}
      BY WorkspaceWriteAssumption
    <3> QED BY <1>1, <2>1, <3>2, <3>3
  <2>2. CASE made < Depth /\ made' = made + 1 /\ UNCHANGED file
    BY <1>1, <2>2 DEF TypeInv
  <2> QED BY <2>1, <2>2 DEF Edit
<1>3. \A o \in Operations : Done(o) => Done(o)'
  BY <1>1, <1>2, DoneMonotone
<1>4. TypeInv'
  BY <1>1, <1>2 DEF TypeInv, journal, operator
<1>5. ASSUME NEW s \in Servers PROVE OwnerInv(s)' /\ EffectInv(s)' /\ SnapshotInv(s)'
  <2>1. OwnerInv(s) /\ EffectInv(s) /\ SnapshotInv(s) /\ task[s] \in Tasks
    BY <1>1 DEF IInv, TaskInv, TypeInv
  <2>2. OwnerInv(s)' /\ EffectInv(s)'
    BY <1>1, <1>3, <2>1 DEF OwnerInv, EffectInv, journal
  <2>3. SnapshotInv(s)'
    BY <1>1, <1>2, <2>1 DEF SnapshotInv, Tasks
  <2> QED BY <2>2, <2>3
<1>6. QuotaInv'
  BY <1>1 DEF IInv, QuotaInv, Held, journal
<1>7. ReceiptInv'
  BY <1>1, <1>3, ReceiptKept DEF IInv, journal, Settled
<1> QED BY <1>4, <1>5, <1>6, <1>7 DEF IInv, TaskInv

-----------------------------------------------------------------------------

LEMMA InvInit == Init => IInv
<1> SUFFICES ASSUME Init PROVE IInv
  OBVIOUS
<1>1. TypeInv
  BY TypeInit
<1>2. QuotaInv
  <2>1. Held = {}
    BY DEF Init, Held
  <2> QED BY <2>1, FS_EmptySet, WorkspaceWriteAssumption DEF QuotaInv, Init, IdleTask, Refusing
<1>3. TaskInv
  BY DEF Init, IdleTask, TaskInv, OwnerInv, EffectInv, SnapshotInv, Owning, Changing, Refusing
<1>4. ReceiptInv
  BY DEF Init, ReceiptInv, StoredInv, ToldInv, NoReceipt
<1> QED BY <1>1, <1>2, <1>3, <1>4 DEF IInv

LEMMA InvStep == IInv /\ [Next]_vars => IInv'
<1> SUFFICES ASSUME IInv, [Next]_vars PROVE IInv'
  OBVIOUS
<1>1. ASSUME NEW s \in Servers, Performs(s) PROVE IInv'
  BY <1>1, TakeLockStep, ReadReceiptStep, BeginStep, AuditStartedStep, PrepareStep, RecheckStep,
     PublishStep, PublishFailsStep, MakeDirectoryStep, AuditSuccessStep, CompleteStep,
     AuditFailureStep, RejectStep, WriterLeaves
  DEF Performs
<1>2. ASSUME NEW s \in Servers, Crash(s) \/ Reload(s) \/ \E o \in Operations : Request(s, o) PROVE IInv'
  BY <1>2, WriterLeaves
<1>3. ASSUME NEW s \in Servers, NEW o \in Operations, Query(s, o) PROVE IInv'
  BY <1>3, QueryStep
<1>4. CASE OperatorRepairs \/ ReplacePolicy
  BY <1>4, OperatorStep
<1>5. CASE Edit
  BY <1>5, EditStep
<1>6. CASE UNCHANGED vars
  <2>1. UNCHANGED <<task, lock, receipt, torn, target, operator, told>>
    BY <1>6 DEF vars, journal
  <2> QED BY <2>1 DEF IInv, TypeInv, QuotaInv, Held, TaskInv, OwnerInv, EffectInv, SnapshotInv,
      ReceiptInv, StoredInv, ToldInv, Settled, Done, target, operator
<1> QED BY <1>1, <1>2, <1>3, <1>4, <1>5, <1>6 DEF Next

(* In every reachable state the invariant holds (WorkspaceWriter.perform). *)
THEOREM JournalIsSound == Spec => []IInv
<1> QED BY InvInit, InvStep, PTL DEF Spec

(* Every variable stays in its range, and the journal within its quota     *)
(* (WriteJournal.ensureCapacity).                                          *)
THEOREM TypeIsCorrect == Spec => []TypeOK
<1>1. IInv => TypeOK
  BY DEF IInv, TypeInv, QuotaInv, Held, TypeOK, Tasks, Receipts, Statuses, Answers
<1> QED BY <1>1, JournalIsSound, PTL

(* What a client was told stays true: an operation that was "ok" is in the *)
(* target, complete, and one that was "no" changed nothing and never will. *)
THEOREM AnswersAreTrue == Spec => []AnswersHold
<1>1. IInv => AnswersHold
  BY DEF IInv, ReceiptInv, ToldInv, AnswersHold
<1> QED BY <1>1, JournalIsSound, PTL

-----------------------------------------------------------------------------
(* Every step is one of OneWrite, or changes nothing it sees *)

LEMMA SavedStatus ==
  ASSUME IInv, NEW s \in Servers, task[s].at \in Owning, NEW status \in Statuses, Saves(s, status)
  PROVE  [o \in Operations |-> receipt'[o].status] =
           [[o \in Operations |-> receipt[o].status] EXCEPT ![task[s].op] = status]
<1>1. task[s].op \in Operations
  BY OwnerKnows
<1>2. /\ receipt'[task[s].op].status = status
      /\ \A p \in Operations : p # task[s].op => receipt'[p] = receipt[p]
  BY <1>1, SavesTyped DEF IInv
<1> QED BY <1>1, <1>2

LEMMA StepRefines == IInv /\ [Next]_vars => [Promise!Next]_(Promise!vars)
<1> SUFFICES ASSUME IInv, [Next]_vars PROVE Promise!Next \/ UNCHANGED <<receipt, effects>>
  BY DEF Promise!vars
<1>1. ASSUME NEW s \in Servers, Begin(s) PROVE Promise!Next \/ UNCHANGED <<receipt, effects>>
  <2>1. /\ task[s].at = "begin" /\ task[s].at \in Owning /\ UNCHANGED effects
        /\ Saves(s, "pending") \/ UNCHANGED receipt
    BY <1>1 DEF Begin, At, Owning, Steps, target
  <2>2. task[s].op \in Operations /\ receipt[task[s].op].status = "none"
    BY <2>1, OwnerKnows DEF OwnerInv, NoReceipt
  <2>3. CASE Saves(s, "pending")
    <3>1. [o \in Operations |-> receipt'[o].status] =
            [[o \in Operations |-> receipt[o].status] EXCEPT ![task[s].op] = "pending"]
      BY <2>1, <2>3, SavedStatus DEF Statuses
    <3>2. \E o \in Operations : Promise!Begin(o)
      BY <2>1, <2>2, <3>1 DEF Promise!Begin
    <3> QED BY <3>2 DEF Promise!Next
  <2> QED BY <2>1, <2>3
<1>2. ASSUME NEW s \in Servers, Complete(s) PROVE Promise!Next \/ UNCHANGED <<receipt, effects>>
  <2>1. /\ task[s].at = "complete" /\ task[s].at \in Owning /\ UNCHANGED effects
        /\ Saves(s, "done") \/ UNCHANGED receipt
    BY <1>2 DEF Complete, At, Owning, Steps, target
  <2>2. task[s].op \in Operations /\ receipt[task[s].op].status = "pending"
    BY <2>1, OwnerKnows DEF OwnerInv, Changing
  <2>3. CASE Saves(s, "done")
    <3>1. [o \in Operations |-> receipt'[o].status] =
            [[o \in Operations |-> receipt[o].status] EXCEPT ![task[s].op] = "done"]
      BY <2>1, <2>3, SavedStatus DEF Statuses
    <3>2. \E o \in Operations : Promise!Finish(o)
      BY <2>1, <2>2, <3>1 DEF Promise!Finish
    <3> QED BY <3>2 DEF Promise!Next
  <2> QED BY <2>1, <2>3
<1>3. ASSUME NEW s \in Servers, Reject(s) PROVE Promise!Next \/ UNCHANGED <<receipt, effects>>
  <2>1. /\ task[s].at = "reject" /\ task[s].at \in Owning /\ UNCHANGED effects
        /\ Saves(s, "rejected") \/ UNCHANGED receipt
    BY <1>3 DEF Reject, At, Owning, Steps, target
  <2>2. /\ task[s].op \in Operations /\ receipt[task[s].op].status \in {"none", "pending"}
        /\ effects[task[s].op] = 0
    BY <2>1, OwnerKnows DEF OwnerInv, EffectInv, Refusing
  <2>3. CASE Saves(s, "rejected")
    <3>1. [o \in Operations |-> receipt'[o].status] =
            [[o \in Operations |-> receipt[o].status] EXCEPT ![task[s].op] = "rejected"]
      BY <2>1, <2>3, SavedStatus DEF Statuses
    <3>2. \E o \in Operations : Promise!Reject(o)
      BY <2>1, <2>2, <3>1 DEF Promise!Reject
    <3> QED BY <3>2 DEF Promise!Next
  <2> QED BY <2>1, <2>3
<1>4. ASSUME NEW s \in Servers, Publish(s) \/ MakeDirectory(s)
      PROVE  Promise!Next \/ UNCHANGED <<receipt, effects>>
  <2>1. /\ task[s].at = "checked" /\ task[s].at \in Owning /\ UNCHANGED receipt
        /\ UNCHANGED effects \/ Changes(task[s].op) \/ effects' = [effects EXCEPT ![task[s].op] = 1]
    BY <1>4 DEF Publish, MakeDirectory, At, Owning, Steps, journal
  <2>2. /\ task[s].op \in Operations /\ receipt[task[s].op].status = "pending"
        /\ effects[task[s].op] \in {0, 1} /\ task[s] \in Tasks
        /\ task[s].started => task[s].op \in Makes /\ effects[task[s].op] = 1
        /\ ~task[s].started => effects[task[s].op] = 0
    BY <2>1, OwnerKnows DEF OwnerInv, EffectInv, StoredInv, Changing
  <2>3. effects \in [Operations -> Nat]
    BY DEF IInv, TypeInv
  <2>4. CASE effects[task[s].op] = 0
    <3>1. UNCHANGED effects \/ effects' = [effects EXCEPT ![task[s].op] = 1]
      BY <2>1, <2>2, <2>3, <2>4 DEF Changes
    <3>2. effects' = [effects EXCEPT ![task[s].op] = 1] => Promise!TakeEffect(task[s].op)
      BY <2>1, <2>2, <2>4 DEF Promise!TakeEffect
    <3> QED BY <2>1, <2>2, <3>1, <3>2 DEF Promise!Next
  <2>5. CASE effects[task[s].op] = 1
    <3>1. task[s].op \in Makes
      BY <2>2, <2>5
    <3>2. effects' = [effects EXCEPT ![task[s].op] = 1]
      BY <1>4, <3>1 DEF Publish, MakeDirectory
    <3> QED BY <2>1, <2>2, <2>3, <2>5, <3>2
  <2> QED BY <2>2, <2>4, <2>5
<1>5. ASSUME NEW s \in Servers,
             \/ TakeLock(s) \/ ReadReceipt(s) \/ AuditStarted(s) \/ Prepare(s) \/ Recheck(s)
             \/ PublishFails(s) \/ DirectoryExists(s) \/ AuditSuccess(s) \/ AuditFailure(s) \/ Release(s)
      PROVE  UNCHANGED <<receipt, effects>>
  BY <1>5 DEF TakeLock, ReadReceipt, AuditStarted, Prepare, Recheck, PublishFails, DirectoryExists,
     AuditSuccess, AuditFailure, Release, journal, target
<1>6. ASSUME NEW s \in Servers,
             Crash(s) \/ Reload(s) \/ \E o \in Operations : Request(s, o) \/ Query(s, o)
      PROVE  UNCHANGED <<receipt, effects>>
  BY <1>6 DEF Crash, Reload, Request, Query, journal, target
<1>7. CASE OperatorRepairs \/ ReplacePolicy \/ Edit \/ UNCHANGED vars
  BY <1>7 DEF OperatorRepairs, ReplacePolicy, Edit, journal, target, vars
<1> QED BY <1>1, <1>2, <1>3, <1>4, <1>5, <1>6, <1>7 DEF Next, Performs

(* The journal keeps its promise: every operation takes effect once at     *)
(* most, after its receipt, and a final receipt tells the truth.           *)
THEOREM PromiseIsKept == Spec => WrittenOnce
<1>1. Init => Promise!Init
  BY DEF Init, Promise!Init, NoReceipt
<1> QED BY <1>1, StepRefines, JournalIsSound, PTL DEF Spec, WrittenOnce, Promise!Spec
=============================================================================
