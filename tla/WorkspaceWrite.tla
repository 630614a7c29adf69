--------------------------- MODULE WorkspaceWrite ---------------------------
(***************************************************************************)
(* The guarded writes of Project Reading (write-tools.ts, write-journal.ts)*)
(* on one target: server processes that share an operator state directory  *)
(* with a lock file, a receipt for every operation, and an audit log.      *)
(*                                                                         *)
(* A client sends an operation, and again with the same identifier when it *)
(* got no answer.  A process may stop at any point, an I/O call may fail,  *)
(* an editor that knows nothing of the lock may change the target, and the *)
(* operator may replace the policy.  Operations append to a file, create   *)
(* it, or make a path of directories; a patch differs from an append only  *)
(* in what it writes.  The file is the sequence of what was put into it.   *)
(*                                                                         *)
(* Not here: the limits on bytes (the limit on operations stands for       *)
(* them), and temporary files a stopped process left, which the operator   *)
(* removes with its lock.                                                  *)
(***************************************************************************)
EXTENDS Naturals, Sequences, SequencesExt, FiniteSets

CONSTANTS
  Servers,       \* the processes that share the state directory
  Operations,    \* identifiers of operations
  Creates,       \* those that create the file
  Makes,         \* those that make directories; the others append
  Editor,        \* what an outside editor puts into the file
  Depth,         \* how many directories have to be made
  MaxOperations, \* receipts the journal holds
  MaxAttempts,   \* requests in all (bounds the model)
  MaxFault,      \* I/O calls that fail (bounds the model)
  MaxCrash,      \* processes that stop (bounds the model)
  MaxEdit,       \* changes from outside (bounds the model)
  MaxPolicy      \* policies the operator writes (bounds the model)

ASSUME WorkspaceWriteAssumption ==
  /\ Creates \subseteq Operations /\ Makes \subseteq Operations
  /\ Creates \cap Makes = {} /\ Editor \notin Operations
  /\ "none" \notin Operations /\ "absent" \notin Operations \cup {Editor}
  /\ {"nobody", "stale"} \cap Servers = {}
  /\ {Depth, MaxOperations, MaxAttempts, MaxFault, MaxCrash, MaxEdit, MaxPolicy} \subseteq Nat
  /\ MaxPolicy > 0

VARIABLES
  task,    \* what each process is doing: WorkspaceWriter.perform
  loaded,  \* the policy each process has loaded
  policy,  \* the policy that is in the file
  lock,    \* writer.lock: its holder, "nobody", or "stale"
  receipt, \* the receipt of each operation
  torn,    \* whether the audit log ends in the middle of a line
  file,    \* the target: Absent, or what was put into it, in order
  made,    \* how many of the directories there are
  effects, \* how often each operation changed something
  told,    \* what clients were told of each operation
  edits, attempts, faults, crashes \* how often each of the bounded things happened

journal == <<lock, receipt, torn>>
target == <<file, made, effects>>
operator == <<loaded, policy>>
counts == <<edits, attempts, faults, crashes>>
vars == <<task, journal, target, operator, told, counts>>

-----------------------------------------------------------------------------

Absent == <<"absent">>
NoReceipt == [status |-> "none", policy |-> 0]
IdleTask == [at |-> "idle", op |-> "none", before |-> <<>>, next |-> 0, started |-> FALSE]
Steps == {"idle", "ready", "locked", "begin", "begun", "prepare", "prepared",
          "staged", "checked", "published", "complete", "failed", "reject", "release"}

(* assertPolicyCurrent *)
PolicyIsCurrent(s) == loaded[s] = policy
Goes(s, at) == task' = [task EXCEPT ![s].at = at]
At(s, at) == task[s].at = at
Tells(o, what) == told' = [told EXCEPT ![o] = @ \cup {what}]

(* What a client is told by a receipt *)
Says(r) == CASE r.status = "done" -> "ok" [] r.status = "rejected" -> "no" [] OTHER -> "unknown"

(* An I/O call may throw; the steps that follow belong to the catch *)
Fails(s) ==
  /\ faults < MaxFault /\ faults' = faults + 1
  /\ Goes(s, "failed")
  /\ UNCHANGED <<edits, attempts, crashes>>

-----------------------------------------------------------------------------

(* execute: the queue of a process runs one operation at a time.  A policy *)
(* that changed and a lock that is held refuse this attempt alone, and say *)
(* nothing of the operation.                                               *)
Request(s, o) ==
  /\ At(s, "idle") /\ attempts < MaxAttempts
  /\ attempts' = attempts + 1
  /\ task' = [task EXCEPT ![s] = IF PolicyIsCurrent(s)
                                 THEN [IdleTask EXCEPT !.at = "ready", !.op = o] ELSE IdleTask]
  /\ UNCHANGED <<journal, target, operator, told, edits, faults, crashes>>

(* Mutant: a held lock is taken over *)
TakeLockOver(s) ==
  /\ At(s, "ready")
  /\ lock' = s /\ Goes(s, "locked")
  /\ UNCHANGED <<receipt, torn, target, operator, told, counts>>

TakeLock(s) ==
  /\ At(s, "ready")
  /\ IF lock = "nobody" THEN lock' = s /\ Goes(s, "locked")
     ELSE task' = [task EXCEPT ![s] = IdleTask] /\ UNCHANGED lock
  /\ UNCHANGED <<receipt, torn, target, operator, told, counts>>

(* A receipt there is answers for the operation, under its own policy *)
ReadReceipt(s) ==
  LET o == task[s].op IN
  /\ At(s, "locked")
  /\ IF receipt[o] = NoReceipt
     THEN /\ Goes(s, IF Cardinality({p \in Operations : receipt[p] # NoReceipt}) < MaxOperations
                     THEN "begin" ELSE "release")
          /\ UNCHANGED told
     ELSE /\ Goes(s, "release")
          /\ IF receipt[o].policy = loaded[s] THEN Tells(o, Says(receipt[o])) ELSE UNCHANGED told
  /\ UNCHANGED <<journal, target, operator, counts>>

Saves(s, status) == receipt' = [receipt EXCEPT ![task[s].op] = [status |-> status, policy |-> loaded[s]]]
(* save: the receipt may be there though the call failed *)
Begin(s) ==
  /\ At(s, "begin")
  /\ \/ Saves(s, "pending") /\ Goes(s, "begun") /\ UNCHANGED counts
     \/ Fails(s) /\ (UNCHANGED receipt \/ Saves(s, "pending"))
  /\ UNCHANGED <<lock, torn, target, operator, told>>

(* audit: a line that is cut short makes every later one fail *)
Audits(s, at) ==
  \/ ~torn /\ Goes(s, at) /\ UNCHANGED <<torn, counts>>
  \/ torn /\ Goes(s, "failed") /\ UNCHANGED <<torn, counts>>
  \/ ~torn /\ Fails(s) /\ torn' \in BOOLEAN
AuditStarted(s) ==
  /\ At(s, "begun")
  /\ Audits(s, "prepare")
  /\ UNCHANGED <<lock, receipt, target, operator, told>>

(* prepare: the snapshot of the target, and whether anything will change.  *)
(* An operation that is not allowed, not valid or not what it expected to  *)
(* find is refused here.                                                   *)
Snapshot(s) ==
  IF task[s].op \in Makes
  THEN task' = [task EXCEPT ![s].at = IF made = Depth THEN "published" ELSE "prepared",
                            ![s].next = made + 1]
  ELSE task' = [task EXCEPT ![s].at = "prepared", ![s].before = file]
Prepare(s) ==
  /\ At(s, "prepare")
  /\ Goes(s, "failed") \/ (Snapshot(s) /\ ~(task[s].op \in Creates /\ file # Absent))
  /\ UNCHANGED <<journal, target, operator, told, counts>>

(* The policy and the target are checked before the temporary file is      *)
(* written, and again just before it is published                          *)
Recheck(s) ==
  /\ task[s].at \in {"prepared", "staged"}
  /\ Goes(s, IF PolicyIsCurrent(s) /\ 
                (IF task[s].op \in Makes THEN made < Depth ELSE file = task[s].before)
             THEN IF At(s, "prepared") /\ task[s].op \notin Makes THEN "staged" ELSE "checked"
             ELSE "failed")
  /\ UNCHANGED <<journal, target, operator, told, counts>>

(* commit: rename over a file that was there, link when there was none *)
Changes(o) == effects' = [effects EXCEPT ![o] = @ + 1]

(* Mutant: the publication has started when it is over *)
PublishesLate(s, at) == task' = [task EXCEPT ![s].at = at, ![s].started = at = "published"]

Publishes(s, at) == task' = [task EXCEPT ![s].at = at, ![s].started = TRUE]

With(before, o) == IF before = Absent THEN <<o>> ELSE Append(before, o)

Publish(s) ==
  LET o == task[s].op IN
  /\ At(s, "checked") /\ o \notin Makes
  /\ IF task[s].before = Absent /\ file # Absent
     THEN Publishes(s, "failed") /\ UNCHANGED <<file, effects>>
     ELSE /\ Publishes(s, "published")
          /\ file' = With(task[s].before, o) /\ Changes(o)
  /\ UNCHANGED <<journal, made, operator, told, counts>>
PublishFails(s) ==
  /\ task[s].at \in {"prepared", "staged", "checked"}
  /\ faults < MaxFault /\ faults' = faults + 1
  /\ IF At(s, "checked") THEN Publishes(s, "failed") ELSE Goes(s, "failed")
  /\ UNCHANGED <<journal, target, operator, told, edits, attempts, crashes>>

(* One directory after the other; one that is there was made by another *)
MakeDirectory(s) ==
  LET o == task[s].op IN
  /\ At(s, "checked") /\ o \in Makes /\ made < task[s].next
  /\ made' = made + 1
  /\ effects' = [effects EXCEPT ![o] = 1]
  /\ task' = [task EXCEPT ![s].at = IF made' = Depth THEN "published" ELSE "checked",
                          ![s].started = TRUE, ![s].next = @ + 1]
  /\ UNCHANGED <<journal, file, operator, told, counts>>
DirectoryExists(s) ==
  /\ At(s, "checked") /\ task[s].op \in Makes /\ made >= task[s].next
  /\ Publishes(s, "failed")
  /\ UNCHANGED <<journal, target, operator, told, counts>>

AuditSuccess(s) ==
  /\ At(s, "published")
  /\ Audits(s, "complete")
  /\ UNCHANGED <<lock, receipt, target, operator, told>>

(* complete *)
Complete(s) ==
  /\ At(s, "complete")
  /\ \/ /\ Saves(s, "done") /\ Goes(s, "release")
        /\ Tells(task[s].op, "ok") /\ UNCHANGED counts
     \/ Fails(s) /\ UNCHANGED <<receipt, told>>
  /\ UNCHANGED <<lock, torn, target, operator>>

(* The catch: the outcome is unknown once the publication has started, and *)
(* then, or when the audit fails, the receipt stays as it is.  A refusal    *)
(* that leaves no receipt is of this attempt alone.                        *)
Answer(s) ==
  IF task[s].started THEN Tells(task[s].op, "unknown")
  ELSE IF receipt'[task[s].op] # NoReceipt THEN Tells(task[s].op, "no")
  ELSE UNCHANGED told
AuditFailure(s) ==
  /\ At(s, "failed")
  /\ \/ ~torn /\ Goes(s, IF task[s].started THEN "release" ELSE "reject") /\ UNCHANGED <<torn, counts>>
     \/ torn /\ Goes(s, "release") /\ UNCHANGED <<torn, counts>>
     \/ /\ ~torn /\ torn' \in BOOLEAN /\ faults < MaxFault /\ faults' = faults + 1
        /\ Goes(s, "release") /\ UNCHANGED <<edits, attempts, crashes>>
  /\ UNCHANGED <<lock, receipt, target, operator>>
  /\ IF task'[s].at = "reject" THEN UNCHANGED told ELSE Answer(s)
Reject(s) ==
  /\ At(s, "reject")
  /\ \/ Saves(s, "rejected") /\ UNCHANGED faults
     \/ faults < MaxFault /\ faults' = faults + 1 /\ UNCHANGED receipt
  /\ Goes(s, "release") /\ Answer(s)
  /\ UNCHANGED <<lock, torn, target, operator, edits, attempts, crashes>>

(* finally: the lock file may prove impossible to remove *)
Release(s) ==
  /\ At(s, "release")
  /\ \/ lock' = "nobody" /\ UNCHANGED faults
     \/ faults < MaxFault /\ faults' = faults + 1 /\ lock' = "stale"
  /\ task' = [task EXCEPT ![s] = IdleTask]
  /\ UNCHANGED <<receipt, torn, target, operator, told, edits, attempts, crashes>>

(* getOperation takes no lock *)
Query(s, o) ==
  /\ PolicyIsCurrent(s) /\ receipt[o].policy = loaded[s]
  /\ Tells(o, Says(receipt[o])) /\ told' # told
  /\ UNCHANGED <<task, journal, target, operator, counts>>

-----------------------------------------------------------------------------
(* What happens around the writers                                         *)

(* A process is stopped, with whatever it was doing, and starts again *)
Crash(s) ==
  /\ crashes < MaxCrash /\ crashes' = crashes + 1
  /\ task' = [task EXCEPT ![s] = IdleTask]
  /\ lock' = IF lock = s THEN "stale" ELSE lock
  /\ \/ UNCHANGED torn
     \/ task[s].at \in {"begun", "published", "failed"} /\ torn' = TRUE
  /\ loaded' = [loaded EXCEPT ![s] = policy]
  /\ UNCHANGED <<receipt, target, policy, told, edits, attempts, faults>>

(* With every writer stopped the operator repairs the state directory *)
OperatorRepairs ==
  /\ lock = "stale" \/ torn
  /\ \A s \in Servers : At(s, "idle")
  /\ lock' = "nobody" /\ torn' = FALSE
  /\ UNCHANGED <<task, receipt, target, operator, told, counts>>
ReplacePolicy ==
  /\ policy < MaxPolicy
  /\ policy' = policy + 1
  /\ UNCHANGED <<task, journal, target, loaded, told, counts>>
Reload(s) ==
  /\ At(s, "idle") /\ ~PolicyIsCurrent(s)
  /\ loaded' = [loaded EXCEPT ![s] = policy]
  /\ UNCHANGED <<task, journal, target, policy, told, counts>>

Edit ==
  /\ edits < MaxEdit /\ edits' = edits + 1
  /\ \/ file' = With(file, Editor) /\ UNCHANGED made
     \/ made < Depth /\ made' = made + 1 /\ UNCHANGED file
  /\ UNCHANGED <<task, journal, effects, operator, told, attempts, faults, crashes>>

-----------------------------------------------------------------------------

Init ==
  /\ task = [s \in Servers |-> IdleTask]
  /\ policy = 1 /\ loaded = [s \in Servers |-> 1]
  /\ lock = "nobody" /\ receipt = [o \in Operations |-> NoReceipt] /\ torn = FALSE
  /\ file = Absent /\ made = 0
  /\ effects = [o \in Operations |-> 0] /\ told = [o \in Operations |-> {}]
  /\ edits = 0 /\ attempts = 0 /\ faults = 0 /\ crashes = 0

Performs(s) ==
  \/ TakeLock(s) \/ ReadReceipt(s) \/ Begin(s) \/ AuditStarted(s) \/ Prepare(s)
  \/ Recheck(s) \/ Publish(s) \/ PublishFails(s) \/ MakeDirectory(s) \/ DirectoryExists(s)
  \/ AuditSuccess(s) \/ Complete(s) \/ AuditFailure(s) \/ Reject(s) \/ Release(s)

Next ==
  \/ \E s \in Servers :
       \/ Performs(s) \/ Crash(s) \/ Reload(s)
       \/ \E o \in Operations : Request(s, o) \/ Query(s, o)
  \/ OperatorRepairs \/ ReplacePolicy \/ Edit

Spec == Init /\ [][Next]_vars

-----------------------------------------------------------------------------

(* Every variable stays in its range.                                      *)
TypeOK ==
  /\ \A s \in Servers : task[s].at \in Steps /\ task[s].op \in Operations \cup {"none"}
  /\ loaded \in [Servers -> 1 .. policy] /\ policy \in 1 .. MaxPolicy
  /\ lock \in Servers \cup {"nobody", "stale"}
  /\ \A o \in Operations : receipt[o].status \in {"none", "pending", "done", "rejected"}
  /\ torn \in BOOLEAN /\ made \in 0 .. Depth
  /\ effects \in [Operations -> Nat] /\ told \in [Operations -> SUBSET {"ok", "no", "unknown"}]
  /\ Cardinality({o \in Operations : receipt[o] # NoReceipt}) <= MaxOperations

(* What a client was told stays true: an operation that was "ok" is in the *)
(* target, complete, and one that was "no" changed nothing and never will, *)
(* whatever was sent again, failed or stopped (write-tools.ts, perform).   *)
Done(o) == IF o \in Makes THEN made = Depth ELSE file # Absent /\ o \in Range(file)
AnswersHold ==
  \A o \in Operations :
    /\ "ok" \in told[o] => Done(o)
    /\ "no" \in told[o] => effects[o] = 0

(* The journal keeps its promise: every operation takes effect once at     *)
(* most, after its receipt, and a final receipt tells the truth.           *)
Promise == INSTANCE OneWrite WITH status <- [o \in Operations |-> receipt[o].status]
WrittenOnce == Promise!Spec
=============================================================================
