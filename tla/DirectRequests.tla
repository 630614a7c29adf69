---------------------------- MODULE DirectRequests ----------------------------
(***************************************************************************)
(* The direct tools of the Codex Bridge on one job (codex_bridge/src:      *)
(* controller.ts sendMessage, directMessage, directCancel,                 *)
(* directThreadAction, runDirectRequest; job-store.ts recordDirectRequest).*)
(*                                                                         *)
(* A model calls send, steer, cancel, compact and review; the operator's   *)
(* app sends and cancels as well.  A caller that has no answer calls again *)
(* with the same id.  Each direct request has a receipt in the job's       *)
(* manifest: pending before anything is delivered, completed or unknown    *)
(* after.  Calls and notifications of the job take its lock; the flow that *)
(* resumes the thread for a message, and the handler of the App Server's   *)
(* exit, do not.                                                           *)
(*                                                                         *)
(* A write of the store changes the record in memory first, and may then   *)
(* fail to reach the disk.  A request to the App Server is one step with   *)
(* its answer: it is answered, refused, or delivered and the answer lost.  *)
(* A retry with another payload, which is refused without effect, approval *)
(* requests and the projection are left out; TurnControl and               *)
(* ConversationLog have the latter two.                                    *)
(***************************************************************************)
EXTENDS Naturals, Sequences, FiniteSets, Functions

CONSTANTS
  AppSends,    \* client message ids of the app
  Sends,       \* client message ids of codex_direct_conversation_send
  Steers,      \* client message ids of codex_direct_job_steer
  Cancels,     \* request ids of codex_direct_job_cancel
  Compacts,    \* request ids of codex_direct_thread_compact
  Reviews,     \* request ids of codex_direct_thread_review
  AppCancels,  \* cancellations in the app (bounds the model)
  MaxLost,     \* requests that are refused, or whose answer is lost (bounds the model)
  MaxFault,    \* store writes that fail (bounds the model)
  MaxExit,     \* exits of the App Server (bounds the model)
  MaxRestart,  \* ends and restarts of the Bridge (bounds the model)
  MaxTotal,    \* of these five and the ids, how many in one behaviour (bounds the model)
  MaxWaiting,  \* calls that wait for the lock (bounds the model)
  Crowds       \* which ids are used in one behaviour (bounds the model)

Messages == AppSends \cup Sends \cup Steers
Controls == ({"compact"} \X Compacts) \cup ({"review"} \X Reviews)
DirectMessages == ({"send"} \X Sends) \cup ({"steer"} \X Steers)
RequestKeys == DirectMessages \cup ({"cancel"} \X Cancels) \cup Controls

(* Ids are strings, not pairs *)
ASSUME DirectAssumption ==
  /\ Messages \cap Controls = {}
  /\ AppCancels \in Nat /\ MaxLost \in Nat
  /\ MaxFault \in Nat /\ MaxExit \in Nat /\ MaxRestart \in Nat /\ MaxTotal \in Nat
  /\ MaxWaiting \in Nat /\ Crowds # {}

VARIABLES
  job,      \* the record in memory: status, turn, controlAction's prior turn, receipts
  disk,     \* its manifest
  log,      \* client ids of messages.jsonl
  ids,      \* messageClientIds
  op,       \* the call that holds the job's lock, and where it is
  resuming, \* where resumeAndExecute is with each message
  byThread, \* whether jobsByThread has the thread
  byTurn,   \* the turns jobsByTurn maps to the job
  queue,    \* the calls and notifications that wait for the lock, in turn
  wire,     \* lines of the App Server not yet read
  running,  \* the turns Codex runs
  begun,    \* the last turn it began
  loaded,   \* whether this App Server process has resumed the thread
  sent,     \* how often each message and control action reached Codex
  told,     \* messages whose turn was given up, and the job settled for it
  cut,      \* the job was settled while a turn for it was being started
  controls, \* the turns that control actions began
  crowd,    \* the ids of this behaviour
  count     \* cancellations, lost answers, faults, exits, restarts so far

record == <<job, disk>>
maps == <<byThread, byTurn>>
codex == <<wire, running, begun, loaded, sent>>
ghosts == <<told, cut, controls>>
directVars == <<record, log, ids, op, resuming, maps, queue, codex, ghosts, crowd, count>>

-----------------------------------------------------------------------------

Terminal(status) == status \in {"completed", "failed", "interrupted", "cancelled"}
InTurn(status) == status = "running"  \* awaiting_approval is alike here

Counts(what, max) ==
  /\ count[what] < max
  /\ FoldFunction(+, 0, count) + Cardinality(crowd) < MaxTotal
  /\ count' = [count EXCEPT ![what] = @ + 1]

Free == [at |-> "free"]
At(place) == op.at = place
Direct == op.tool \notin {"appSend", "appCancel"}
Key == <<op.tool, op.id>>
Goes(place) == [op EXCEPT !.at = place]
(* the end of the operation, and an error of it: runDirectRequest goes on  *)
Done == IF Direct THEN Goes("complete") ELSE Free
Thrown == IF Direct THEN Goes("catch") ELSE Free

(* mutate: the record changes in memory, then the event and the manifest   *)
(* are written.  It may throw on the way, before the change or after it.    *)
Save(new, next, failed) ==
  \/ job' = new /\ disk' = new /\ op' = next /\ UNCHANGED count
  \/ job' \in {job, new} /\ disk' = disk /\ op' = failed /\ Counts("fault", MaxFault)

With(receipt) == [job EXCEPT !.receipts[Key] = receipt]

(* The job is settled; a turn for it may just be starting, and does start   *)
CutsOff == cut' = (cut \/ job.turn = 0 \/ \E m \in Messages : resuming[m] # "none")

(* A new turn of Codex; its turn/started is on the wire *)
Begins ==
  /\ loaded' = TRUE
  /\ begun' = begun + 1
  /\ running' = running \cup {begun + 1}
  /\ wire' = Append(wire, [kind |-> "started", turn |-> begun + 1])
Ends(t) ==
  /\ running' = running \ {t}
  /\ wire' = Append(wire, [kind |-> "completed", turn |-> t])
Reaches(x) == sent' = [sent EXCEPT ![x] = @ + 1]
Refused == Counts("lost", MaxLost)
(* An answer is a line too: it is read after the lines that came before it *)
Answered == wire = <<>>

-----------------------------------------------------------------------------
(* Calls                                                                   *)

(* directMessage, directCancel, directThreadAction: under the lock the     *)
(* record is read once, and a call that has a receipt is answered from it. *)
(* The turn a call names is one there was when it was made.                *)
HasReceipt(key) == job.receipts[key] # "none"
DirectCall(call) ==
  /\ \/ HasReceipt(<<call.tool, call.id>>) /\ op' = Free
     \/ \E t \in 0 .. call.begun :
          /\ ~HasReceipt(<<call.tool, call.id>>)
          /\ call.tool \in {"send", "steer"} \/ t # 0
          /\ op' = [at |-> "record", tool |-> call.tool, id |-> call.id, names |-> t,
                    seen |-> [status |-> job.status, turn |-> job.turn]]
  /\ UNCHANGED record

(* the receipt is persisted before the operation runs *)
RecordsLater ==
  /\ At("record")
  /\ op' = Goes("check")
  /\ UNCHANGED <<record, log, ids, resuming, maps, queue, codex, ghosts, count, crowd>>
RecordPending ==
  /\ At("record")
  /\ Save(With("pending"), Goes("check"), Free)
  /\ UNCHANGED <<log, ids, resuming, maps, queue, codex, ghosts, crowd>>

(* what the operation asks of the record it was called with *)
TurnChanged ==
  LET named == op.names # 0 /\ op.names = op.seen.turn
      active == InTurn(op.seen.status) IN
  CASE op.tool = "send" -> IF active THEN ~named ELSE op.names # 0
    [] op.tool = "steer" -> ~(active /\ named)
    [] op.tool = "cancel" -> ~named
    [] OTHER -> ~(named /\ Terminal(op.seen.status))

(* sendMessageLocked reads the record again: is there a turn to join? *)
SendLocked(call) ==
  IF InTurn(job.status) \/ Terminal(job.status)
  THEN [at |-> "append", tool |-> call.tool, id |-> call.id, names |-> call.names, joins |-> InTurn(job.status)]
  ELSE IF call.tool = "appSend" THEN Free ELSE [call EXCEPT !.at = "catch"]

Check ==
  /\ At("check")
  /\ op' = IF TurnChanged THEN Goes("catch")
           ELSE IF op.tool \in {"send", "steer"} THEN SendLocked(op)
           ELSE [at |-> IF op.tool = "cancel" THEN "cancel" ELSE "native",
                 tool |-> op.tool, id |-> op.id, names |-> op.names]
  /\ UNCHANGED <<record, log, ids, resuming, maps, queue, codex, ghosts, count, crowd>>

(* sendMessage of the app, and its cancel, which begins with an event and   *)
(* so writes the manifest                                                   *)
AppSend(call) ==
  /\ op' = SendLocked([tool |-> "appSend", id |-> call.id, names |-> 0])
  /\ UNCHANGED record
AppCancel ==
  /\ op' = [at |-> "cancel", tool |-> "appCancel"]
  /\ disk' = job /\ UNCHANGED job

(* withJobLock: the calls and notifications of the job have the lock in turn *)
TakesLock ==
  /\ At("free") /\ queue # <<>> /\ Head(queue).kind = "call"
  /\ queue' = Tail(queue)
  /\ LET call == Head(queue) IN
     CASE call.tool = "appSend" -> AppSend(call)
       [] call.tool = "appCancel" -> AppCancel
       [] OTHER -> DirectCall(call)
  /\ UNCHANGED <<log, ids, resuming, maps, codex, ghosts, count, crowd>>

(* A call is made                                                          *)
Waiting == {n \in 1 .. Len(queue) : queue[n].kind = "call"}
Asks(tool, id) ==
  /\ Cardinality(Waiting) < MaxWaiting
  /\ queue' = Append(queue, [kind |-> "call", tool |-> tool, id |-> id, begun |-> begun])
  /\ UNCHANGED <<record, log, ids, op, resuming, maps, codex, ghosts, crowd>>

-----------------------------------------------------------------------------
(* sendMessageLocked                                                       *)

(* appendUserMessage: a known id is a duplicate.  The line is written, then *)
(* the manifest.  The turn to join is the one of the record it returns.     *)
Known(id) == id \in ids
AppendUserMessage ==
  /\ At("append")
  /\ IF Known(op.id)
     THEN op' = Done /\ UNCHANGED <<record, log, ids, count>>
     ELSE \/ /\ log' = log \cup {op.id}
             /\ ids' = ids \cup {op.id}
             /\ Save(job, IF op.joins THEN [at |-> "steer", tool |-> op.tool, id |-> op.id,
                                            names |-> op.names, into |-> job.turn]
                          ELSE Goes("prepare"), Thrown)
          \/ op' = Thrown /\ Counts("fault", MaxFault) /\ UNCHANGED <<record, log, ids>>
  /\ UNCHANGED <<resuming, maps, queue, codex, ghosts, crowd>>

(* turn/steer: Codex takes it when that turn runs *)
Steer ==
  /\ At("steer")
  /\ \/ op.into \in running /\ Answered /\ Reaches(op.id) /\ op' = Goes("note") /\ UNCHANGED count
     \/ op.into \in running /\ Reaches(op.id) /\ op' = Thrown /\ Counts("lost", MaxLost)
     \/ op' = Thrown /\ UNCHANGED sent
        /\ IF op.into \in running THEN Counts("lost", MaxLost) ELSE Answered /\ UNCHANGED count
  /\ UNCHANGED <<record, log, ids, resuming, maps, queue, wire, running, begun, loaded, ghosts, crowd>>

(* prepareTurn *)
Preparing(prior) == [job EXCEPT !.status = "preparing", !.turn = 0, !.prior = prior]
PrepareTurn ==
  /\ At("prepare")
  /\ Save(Preparing(0), Goes("note"), Thrown)
  /\ UNCHANGED <<log, ids, resuming, maps, queue, codex, ghosts, crowd>>

(* the last event of an operation; after it the thread is resumed for a     *)
(* message that did not join a turn                                         *)
Note ==
  /\ At("note")
  /\ Save(job, Done, Thrown)
  /\ resuming' = IF "joins" \in DOMAIN op /\ count' = count
                 THEN [resuming EXCEPT ![op.id] = "start"] ELSE resuming
  /\ UNCHANGED <<log, ids, maps, queue, codex, ghosts, crowd>>

-----------------------------------------------------------------------------
(* cancelLocked: the record is read again, and its turn interrupted, which   *)
(* may be over already                                                     *)

CancelLocked ==
  /\ At("cancel")
  /\ IF Terminal(job.status) THEN op' = Done /\ UNCHANGED <<running, wire, count>>
     ELSE \/ Answered /\ op' = Goes("settle") /\ UNCHANGED count
             /\ IF job.turn \in running THEN Ends(job.turn) ELSE UNCHANGED <<running, wire>>
          \/ job.turn \in running /\ op' = Thrown /\ Counts("lost", MaxLost)
             /\ (UNCHANGED <<running, wire>> \/ Ends(job.turn))
          \/ job.turn \notin running \cup {0} /\ Answered /\ op' = Thrown /\ UNCHANGED <<running, wire, count>>
  /\ UNCHANGED <<record, log, ids, resuming, maps, queue, begun, loaded, sent, ghosts, crowd>>

CancelSettles ==
  /\ At("settle")
  /\ Save([job EXCEPT !.status = "cancelled"], Done, Thrown)
  /\ CutsOff
  /\ UNCHANGED <<log, ids, resuming, maps, queue, codex, told, controls, crowd>>

-----------------------------------------------------------------------------
(* directThreadAction                                                      *)

(* thread/read and thread/resume: the thread must be idle *)
IsIdle == running = {}
NativeCheck ==
  /\ At("native")
  /\ \/ IsIdle /\ Answered /\ op' = Goes("control") /\ loaded' = TRUE /\ UNCHANGED count
     \/ ~IsIdle /\ Answered /\ op' = Thrown /\ UNCHANGED <<loaded, count>>
     \/ op' = Thrown /\ Counts("lost", MaxLost) /\ UNCHANGED loaded
  /\ UNCHANGED <<record, log, ids, resuming, maps, queue, wire, running, begun, sent, ghosts, crowd>>

PrepareControl ==
  /\ At("control")
  /\ Save(Preparing(op.names), Goes("launch"), Thrown)
  /\ byThread' = (byThread \/ op' = Goes("launch"))
  /\ UNCHANGED <<log, ids, resuming, byTurn, queue, codex, ghosts, crowd>>

(* thread/compact/start and review/start, which a process that has not      *)
(* resumed the thread refuses.  The answer of a review names its turn,      *)
(* which is set; that of a compaction is empty.                             *)
InThat(turn) == [job EXCEPT !.status = "running", !.turn = turn]
LaunchDelivered ==
  /\ loaded /\ Begins /\ Reaches(Key)
  /\ controls' = controls \cup {begun + 1}
  /\ \/ /\ op.tool = "compact" /\ Answered
        /\ op' = Goes("note") /\ UNCHANGED <<record, byTurn, count>>
     \/ /\ op.tool = "review" /\ Answered
        /\ byTurn' = byTurn \cup {begun + 1}
        /\ Save(InThat(begun + 1), Goes("note"), Thrown)
     \/ /\ Counts("lost", MaxLost)
        /\ op' = Thrown /\ UNCHANGED <<record, byTurn>>
Launch ==
  /\ At("launch")
  /\ \/ LaunchDelivered
     \/ /\ Refused \/ (~loaded /\ Answered /\ UNCHANGED count)
        /\ op' = Thrown /\ UNCHANGED <<record, byTurn, codex, controls>>
  /\ UNCHANGED <<log, ids, resuming, byThread, queue, told, cut, crowd>>

-----------------------------------------------------------------------------
(* runDirectRequest, after the operation                                   *)

Complete ==
  /\ At("complete")
  /\ Save(With("completed"), Free, Goes("catch"))
  /\ UNCHANGED <<log, ids, resuming, maps, queue, codex, ghosts, crowd>>

CatchUnknown ==
  /\ At("catch")
  /\ Save(With("unknown"), Free, Free)
  /\ UNCHANGED <<log, ids, resuming, maps, queue, codex, ghosts, crowd>>

-----------------------------------------------------------------------------
(* resumeAndExecute: outside the lock                                      *)

Resumes(m, place) == resuming[m] = place
Moves(m, place) == resuming' = [resuming EXCEPT ![m] = place]

(* thread/resume, turn/start and, with its answer, setTurn: the answer is   *)
(* handled before the lines and the exit that come after it.                *)
StartTurn(m) ==
  /\ Resumes(m, "start")
  /\ byThread' = TRUE
  /\ \/ /\ Answered /\ Begins /\ Reaches(m)
        /\ byTurn' = byTurn \cup {begun + 1}
        /\ job' = InThat(begun + 1)
        /\ \/ disk' = job' /\ Moves(m, "none") /\ UNCHANGED count
           \/ disk' = disk /\ Moves(m, "failed") /\ Counts("fault", MaxFault)
     \/ Begins /\ Reaches(m) /\ Moves(m, "failed") /\ Counts("lost", MaxLost) /\ UNCHANGED <<record, byTurn>>
     \/ Refused /\ Moves(m, "failed") /\ UNCHANGED <<record, byTurn, codex>>
  /\ UNCHANGED <<log, ids, op, queue, ghosts, crowd>>

(* the catch of resumeAndExecute.  A write that fails there is dropped with *)
(* the error.                                                               *)
GivesUpQuietly(m) ==
  /\ Resumes(m, "failed")
  /\ Moves(m, "none")
  /\ told' = told \cup {m}
  /\ UNCHANGED <<record, log, ids, op, maps, queue, codex, cut, controls, count, crowd>>
GivesUp(m) ==
  /\ Resumes(m, "failed")
  /\ Moves(m, "none")
  /\ told' = told \cup {m}
  /\ LET failed == [job EXCEPT !.status = "failed"] IN
     \/ /\ job' = IF Terminal(job.status) THEN job ELSE failed
        /\ disk' = IF Terminal(job.status) THEN disk ELSE failed
        /\ byThread' = FALSE /\ byTurn' = byTurn \ {job.turn}
        /\ UNCHANGED count
     \/ /\ ~Terminal(job.status)
        /\ job' \in {job, failed} /\ disk' = disk
        /\ Counts("fault", MaxFault) /\ UNCHANGED maps
  /\ UNCHANGED <<log, ids, op, queue, codex, cut, controls, crowd>>

-----------------------------------------------------------------------------
(* Notifications                                                           *)

(* the line is read; only a mapped thread or turn is anyone's *)
Reads ==
  /\ wire # <<>>
  /\ wire' = Tail(wire)
  /\ queue' = IF byThread \/ Head(wire).turn \in byTurn THEN Append(queue, Head(wire)) ELSE queue
  /\ UNCHANGED <<record, log, ids, op, resuming, maps, running, begun, loaded, sent, ghosts, count, crowd>>

(* Whose turn/completed this is.  A control action takes those of the prior *)
(* turn, and of any but its own, for nothing, and the first turn/started    *)
(* for its own.                                                             *)
IgnoredWhenSettled(n) == Terminal(job.status)
IsIgnored(n) ==
  \/ Terminal(job.status)
  \/ job.prior # 0 /\ n.turn = job.prior
  \/ job.prior # 0 /\ n.turn # job.turn /\ ~(job.turn = 0 /\ n.kind = "started")
Binds(n) == job.prior # 0 /\ job.turn = 0 /\ n.kind = "started"

Handle ==
  /\ At("free")
  /\ queue # <<>> /\ Head(queue).kind # "call"
  /\ queue' = Tail(queue)
  /\ LET n == Head(queue) IN
     CASE IsIgnored(n) -> UNCHANGED <<record, maps, count, op, cut>>
       [] ~IsIgnored(n) /\ Binds(n) ->
               /\ byTurn' = byTurn \cup {n.turn}
               /\ Save(InThat(n.turn), Free, Free)
               /\ UNCHANGED <<byThread, cut>>
       [] ~IsIgnored(n) /\ ~Binds(n) /\ n.kind = "completed" ->
               /\ Save([job EXCEPT !.status = "completed"], Free, Free)
               /\ CutsOff
               /\ IF count' = count THEN byThread' = FALSE /\ byTurn' = byTurn \ {job.turn}
                  ELSE UNCHANGED maps
       [] OTHER -> UNCHANGED <<record, maps, count, op, cut>>
  /\ UNCHANGED <<log, ids, resuming, codex, told, controls, crowd>>

-----------------------------------------------------------------------------
(* Codex, the App Server's exit, and restarts of the Bridge                *)

TurnEnds(t) ==
  /\ t \in running
  /\ Ends(t)
  /\ UNCHANGED <<record, log, ids, op, resuming, maps, queue, begun, loaded, sent, ghosts, count, crowd>>

(* handleExit: the jobs of the mapped turns are interrupted *)
Interrupted(j) == IF Terminal(j.status) THEN j ELSE [j EXCEPT !.status = "interrupted"]
Exit ==
  /\ Counts("exit", MaxExit)
  /\ running' = {} /\ wire' = <<>> /\ loaded' = FALSE
  /\ byThread' = FALSE /\ byTurn' = {}
  /\ job' = IF byTurn # {} THEN Interrupted(job) ELSE job
  /\ disk' = IF job' = job THEN disk ELSE job'
  /\ IF job' = job THEN UNCHANGED cut ELSE CutsOff
  /\ UNCHANGED <<log, ids, op, resuming, queue, begun, sent, told, controls, crowd>>

(* The App Server is a child of the Bridge and ends with it.  Start-up      *)
(* reads the manifest and the log, and interrupts a job that was active.    *)
Restart ==
  /\ Counts("restart", MaxRestart)
  /\ job' = Interrupted(disk) /\ disk' = job'
  /\ ids' = log
  /\ op' = Free
  /\ resuming' = [m \in Messages |-> "none"]
  /\ told' = told \cup {m \in Messages : resuming[m] # "none"}
  /\ byThread' = FALSE /\ byTurn' = {} /\ queue' = <<>>
  /\ running' = {} /\ wire' = <<>> /\ loaded' = FALSE
  /\ UNCHANGED <<log, begun, sent, cut, controls, crowd>>

-----------------------------------------------------------------------------

(* the job's first turn runs *)
DirectInit ==
  /\ job = [status |-> "running", turn |-> 1, prior |-> 0, receipts |-> [k \in RequestKeys |-> "none"]]
  /\ disk = job
  /\ log = {} /\ ids = {}
  /\ op = Free
  /\ resuming = [m \in Messages |-> "none"]
  /\ byThread = TRUE /\ byTurn = {1}
  /\ queue = <<>> /\ wire = <<>>
  /\ running = {1} /\ begun = 1 /\ loaded = TRUE
  /\ sent = [x \in Messages \cup Controls |-> 0]
  /\ told = {} /\ cut = FALSE /\ controls = {}
  /\ crowd \in Crowds
  /\ count = [what \in {"cancel", "lost", "fault", "exit", "restart"} |-> 0]

Calls ==
  \/ \E k \in RequestKeys : k[2] \in crowd /\ ~HasReceipt(k) /\ Asks(k[1], k[2]) /\ UNCHANGED count
  \/ \E m \in AppSends \cap crowd : Asks("appSend", m) /\ UNCHANGED count
  \/ Asks("appCancel", 0) /\ Counts("cancel", AppCancels)

Operation ==
  \/ RecordPending \/ Check \/ AppendUserMessage \/ Steer \/ PrepareTurn \/ Note
  \/ CancelLocked \/ CancelSettles
  \/ NativeCheck \/ PrepareControl \/ Launch
  \/ Complete \/ CatchUnknown

Background(m) == StartTurn(m) \/ GivesUp(m)

DirectNext ==
  \/ Calls \/ TakesLock \/ Operation \/ Reads \/ Handle \/ Exit \/ Restart
  \/ \E m \in Messages : Background(m)
  \/ \E t \in running : TurnEnds(t)

(* An await ends, a queued handler gets the lock, and Codex ends its turns.  *)
(* Nobody promises calls.                                                    *)
Fairness ==
  /\ WF_directVars(Operation) /\ WF_directVars(Reads) /\ WF_directVars(TakesLock \/ Handle)
  /\ \A m \in Messages : WF_directVars(Background(m))
  /\ WF_directVars(\E t \in running : TurnEnds(t))

DirectSpec == DirectInit /\ [][DirectNext]_directVars /\ Fairness

-----------------------------------------------------------------------------
(* Properties                                                              *)

DirectTypeOK ==
  LET Records == [status : {"preparing", "running", "completed", "failed", "interrupted", "cancelled"},
                  turn : 0 .. begun, prior : 0 .. begun,
                  receipts : [RequestKeys -> {"none", "pending", "completed", "unknown"}]] IN
  /\ job \in Records /\ disk \in Records
  /\ log \subseteq Messages /\ ids \subseteq Messages /\ told \subseteq Messages
  /\ resuming \in [Messages -> {"none", "start", "failed"}]
  /\ byThread \in BOOLEAN /\ loaded \in BOOLEAN /\ byTurn \subseteq 1 .. begun
  /\ running \subseteq 1 .. begun /\ begun \in Nat

(* Whatever is retried, by whichever tool, after lost answers, failed       *)
(* writes and restarts: a message and a control action reach Codex at most  *)
(* once (docs/ApprovalModel.md:57, "without replay").                       *)
DeliveredOnce == \A x \in DOMAIN sent : sent[x] <= 1

(* Receipts are persisted before delivery: what a direct tool delivered has *)
(* one on disk.  One that says completed is true: the message or the action *)
(* reached Codex, or the turn for the message is being started, or the job  *)
(* was settled for its failure.  An id is used by one tool only here.       *)
Own(k) == \A other \in RequestKeys \cup {<<"app", m>> : m \in AppSends} : other[2] = k[2] => other = k
What(k) == IF k \in Controls THEN k ELSE k[2]
ReceiptsAreTrue ==
  \A k \in DirectMessages \cup Controls : Own(k) =>
    /\ sent[What(k)] > 0 => disk.receipts[k] # "none"
    /\ job.receipts[k] = "completed" =>
         \/ sent[What(k)] > 0
         \/ k \in DirectMessages /\ (resuming[k[2]] # "none" \/ k[2] \in told)

(* A direct request is delivered once at most and its receipt says so, of   *)
(* all that can be lost on the way.                                         *)
DeliveriesAreTrue == DeliveredOnce /\ ReceiptsAreTrue

(* A compaction or review keeps its job until its own turn has ended, known  *)
(* or not: Codex is given no other turn while it runs (controller.ts:671),  *)
(* and no end but its own completes it (controller.ts:1157).  Excused is a  *)
(* job that was settled while a turn for it was being started: cancelled,   *)
(* or by an exit, or by the late end of the turn before.                    *)
ControlKeepsItsJob ==
  [][/\ begun' # begun => cut \/ running \cap controls = {}
     /\ job'.prior # 0 /\ job'.status = "completed" => cut' \/ job'.turn \in controls \ running']_directVars

(* A job that is at work is settled in the end.  Excused are a failed write, *)
(* a control action whose outcome is unknown, which keeps its job, and an   *)
(* exit of the App Server after it took one.                                *)
Excused ==
  \/ count["fault"] > 0
  \/ job.prior # 0 /\ \E k \in Controls : job.receipts[k] = "unknown"
  \/ count["exit"] > 0 /\ job.prior # 0
JobSettles == []<>(Terminal(job.status) \/ Excused)

(* README.md:39-40 and docs/ApprovalModel.md:55: a direct message that joins *)
(* a running turn names it.  The code does not have this property.          *)
SteerNamesItsTurn == At("steer") /\ op.tool \in {"send", "steer"} => op.names = op.into
=============================================================================
