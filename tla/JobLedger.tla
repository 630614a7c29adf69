------------------------------ MODULE JobLedger ------------------------------
(***************************************************************************)
(* The job records of the Codex Bridge (codex_bridge/src/job-store.ts).    *)
(*                                                                         *)
(* A job is a directory: manifest.json (the record), events.jsonl and      *)
(* messages.jsonl.  Memory holds the records, the idempotency index and    *)
(* the client message ids.  One lock (exclusive) serves every job.  An     *)
(* operation changes the record in memory, appends an event, and then      *)
(* replaces the manifest.  Start-up reads the manifests, rebuilds the two  *)
(* indexes and settles what an earlier process left active.                *)
(*                                                                         *)
(* Clients read without the lock: codex_job_get returns a page of the      *)
(* events after a cursor and says whether there are more.                  *)
(***************************************************************************)
EXTENDS Naturals, Sequences, FiniteSets

CONSTANTS
  Keys,      \* idempotency keys of work packages
  Threads,   \* native threads that can be imported (local-thread:<id> keys)
  Messages,  \* client message ids of the user's messages
  Results,   \* statuses a result may have
  MaxJobs,   \* job directories ever made (bounds the model)
  MaxEvents, \* lines of all event logs, but those of start-up (bounds the model)
  MaxTurn,   \* native turns of a job (bounds the model)
  MaxCrash,  \* crashes (bounds the model)
  MaxFault,  \* failed file operations (bounds the model)
  Page,      \* events in a page (80 in the code)
  Window     \* message ids read back at start-up (200 in the code)

ASSUME JobLedgerAssumption ==
  /\ Keys \cap Threads = {}
  /\ Results \subseteq {"completed", "failed", "interrupted", "cancelled"}
  /\ MaxJobs \in Nat /\ MaxEvents \in Nat /\ MaxTurn \in Nat
  /\ MaxCrash \in Nat /\ MaxFault \in Nat
  /\ Page \in Nat \ {0} /\ Window \in Nat \ {0}

VARIABLES
  made,       \* job directories made so far; randomUUID never repeats a name
  manifest,   \* manifest.json of each directory, or NoRecord
  events,     \* events.jsonl: the sequence number of each line
  messages,   \* messages.jsonl: the client message id of each line
  jobs,       \* the jobs map
  index,      \* idempotencyIndex
  ids,        \* messageClientIds
  lease,      \* whether selfReloadLease is set
  pc,         \* where the holder of the store's lock is
  op,         \* the operation that holds the lock
  watched,    \* the job a client follows
  poll,       \* the snapshot in progress: the lines of its page, or NoPoll
  cursor,     \* the client's event cursor
  got,        \* the lines of events.jsonl the client was given
  more,       \* hasMore of the client's last answer
  dispatched, \* how often create answered "created" for a key
  accepted,   \* how often appendUserMessage answered "created"
  answered,   \* the highest sequence number an answered operation left
  crashes, faults

disk == <<made, manifest, events, messages>>
memory == <<jobs, index, ids, lease>>
client == <<watched, poll, cursor, got, more>>
ghost == <<dispatched, accepted, answered, crashes, faults>>
vars == <<disk, memory, pc, op, client, ghost>>

-----------------------------------------------------------------------------
(* Records and messages *)

Dirs == 1..MaxJobs
Made == 1..made
Live == DOMAIN jobs

Active == {"queued", "preparing", "running", "awaiting_approval"}
Terminal == {"completed", "failed", "interrupted", "cancelled"}

(* The fields of a JobRecord the operations depend on; waiting counts the   *)
(* pending approvals, turn is turnId or 0.                                  *)
Record == [key : Keys \cup Threads, status : Active \cup Terminal,
           seq : Nat \ {0}, waiting : Nat, turn : 0..MaxTurn]
NoRecord == [key |-> "none"]

(* The client message id of a line: the work package's, one of the user, or *)
(* the one complete derives from the turn (from stateVersion without one).  *)
Initial == <<"initial", 0>>
User(m) == <<"user", m>>
AssistantId(r) == IF r.turn > 0 THEN <<"turn", r.turn>> ELSE <<"version", r.seq>>
Line == {Initial} \cup ({"user"} \X Messages) \cup ({"turn", "version"} \X Nat)

Elements(s) == {s[i] : i \in DOMAIN s}
Last(s, n) == IF Len(s) <= n THEN s ELSE SubSeq(s, Len(s) - n + 1, Len(s))
Put(f, x, v) == [y \in DOMAIN f \cup {x} |-> IF y = x THEN v ELSE f[y]]

Free == pc = "free"
Serving == pc \notin {"down", "load", "settle", "settleEvent", "settleManifest"}
NoOp == [kind |-> "none"]
NoPoll == {0}
FaultAllowed == faults < MaxFault
CountFault == faults' = faults + 1

-----------------------------------------------------------------------------
(* What an operation does to the record: the callbacks given to mutate *)

(* prepareTurn *)
Prepared(r) == [r EXCEPT !.status = "preparing", !.turn = 0]

(* transition *)
Moved(r, status) == [r EXCEPT !.status = status]

(* setTurn *)
Started(r, turn) == [r EXCEPT !.turn = turn, !.status = "running"]

(* addApproval *)
Asked(r) == [r EXCEPT !.waiting = @ + 1, !.status = "awaiting_approval"]

(* resolveApproval *)
Decided(r) ==
  [r EXCEPT !.waiting = @ - 1,
            !.status = IF r.waiting > 1 THEN "awaiting_approval" ELSE "running"]

(* complete: settlePendingApprovals, the result and its status *)
Finished(r, status) == [r EXCEPT !.waiting = 0, !.status = status]

(* mutateUnlocked, up to its first await: the record in memory is changed   *)
(* and numbered before anything reaches the disk.                           *)
Change(j, new) ==
  jobs' = [jobs EXCEPT ![j] = [new EXCEPT !.seq = jobs[j].seq + 1]]

Room == Cardinality({at \in Dirs \X (1..MaxEvents) : at[2] \in DOMAIN events[at[1]]}) < MaxEvents

-----------------------------------------------------------------------------
(* Operations: each takes the lock, and gives it back at its last step *)

(* create, up to the manifest: an unknown key gets a directory with the     *)
(* first event and message.  A known key changes nothing.                   *)
Create(k) ==
  /\ Free /\ ~ lease
  /\ k \notin DOMAIN index
  /\ made < MaxJobs /\ Room
  /\ made' = made + 1
  /\ events' = [events EXCEPT ![made + 1] = <<1>>]
  /\ messages' = [messages EXCEPT ![made + 1] = IF k \in Keys THEN <<Initial>> ELSE <<>>]
  /\ op' = [kind |-> "create", job |-> made + 1,
            record |-> [key |-> k, seq |-> 1, waiting |-> 0, turn |-> 0,
                        status |-> IF k \in Keys THEN "queued" ELSE "completed"]]
  /\ pc' = "manifest"
  /\ UNCHANGED <<manifest, memory, client, ghost>>

(* mutate: the record changes in memory, then the event is appended.        *)
Mutate(kind, j, new) ==
  /\ Room
  /\ Change(j, new)
  /\ op' = [kind |-> kind, job |-> j]
  /\ pc' = "event"
  /\ UNCHANGED <<disk, index, ids, lease, client, ghost>>

PrepareTurn(j) ==
  /\ Free /\ ~ lease
  /\ Mutate("prepare", j, Prepared(jobs[j]))

Transition(j, status) ==
  /\ Free
  /\ Mutate("mutate", j, Moved(jobs[j], status))

SetTurn(j, turn) ==
  /\ Free
  /\ Mutate("mutate", j, Started(jobs[j], turn))

AddApproval(j) ==
  /\ Free
  /\ jobs[j].waiting = 0
  /\ Mutate("mutate", j, Asked(jobs[j]))

ResolveApproval(j) ==
  /\ Free
  /\ jobs[j].waiting > 0
  /\ Mutate("mutate", j, Decided(jobs[j]))

(* appendEvent, setThread, setDiff, recordDirectRequest: no field above.    *)
RecordEvent(j) ==
  /\ Free
  /\ Mutate("mutate", j, jobs[j])

(* appendUserMessage: a client id seen before is answered "duplicate" and   *)
(* changes nothing; a new one is written to messages.jsonl.                 *)
AppendUserMessage(j, m) ==
  /\ Free /\ ~ lease
  /\ User(m) \notin ids[j]
  /\ Room
  /\ op' = [kind |-> "message", job |-> j, line |-> User(m), new |-> jobs[j]]
  /\ pc' = "line"
  /\ UNCHANGED <<disk, memory, client, ghost>>

(* complete: the answer of a turn is written once.                          *)
Complete(j, status) ==
  LET line == AssistantId(jobs[j]) IN
  /\ Free
  /\ IF line \in ids[j]
     THEN Mutate("mutate", j, Finished(jobs[j], status))
     ELSE /\ Room
          /\ op' = [kind |-> "complete", job |-> j, line |-> line,
                    new |-> Finished(jobs[j], status)]
          /\ pc' = "line"
          /\ UNCHANGED <<disk, memory, client, ghost>>

(* The line is written and its id noted; mutate follows.                    *)
AppendLine ==
  LET j == op.job IN
  /\ pc = "line"
  /\ messages' = [messages EXCEPT ![j] = Append(@, op.line)]
  /\ ids' = [ids EXCEPT ![j] = @ \cup {op.line}]
  /\ Change(j, op.new)
  /\ pc' = "event"
  /\ UNCHANGED <<made, manifest, events, index, lease, op, client, ghost>>

(* Mutant: the operation answers once its event is written.                 *)
AnswersBeforeManifest ==
  /\ pc = "event"
  /\ events' = [events EXCEPT ![op.job] = Append(@, jobs[op.job].seq)]
  /\ answered' = [answered EXCEPT ![op.job] = jobs[op.job].seq]
  /\ pc' = "free" /\ op' = NoOp
  /\ UNCHANGED <<made, manifest, messages, memory, client, dispatched, accepted, crashes, faults>>

AppendEvent ==
  /\ pc = "event"
  /\ events' = [events EXCEPT ![op.job] = Append(@, jobs[op.job].seq)]
  /\ pc' = "manifest"
  /\ UNCHANGED <<made, manifest, messages, memory, op, client, ghost>>

(* writeManifest replaces the file, and the operation answers.  create      *)
(* publishes its job only now; appendUserMessage first adds the artifacts   *)
(* of the message to the record and writes it again.                        *)
Written == IF op.kind = "create" THEN op.record ELSE jobs[op.job]

WriteManifest ==
  LET j == op.job IN
  /\ pc = "manifest"
  /\ manifest' = [manifest EXCEPT ![j] = Written]
  /\ IF op.kind = "create"
     THEN /\ jobs' = Put(jobs, j, Written)
          /\ index' = Put(index, Written.key, j)
          /\ ids' = Put(ids, j, Elements(messages[j]))
          /\ dispatched' = [dispatched EXCEPT ![Written.key] = @ + 1]
     ELSE UNCHANGED <<jobs, index, ids, dispatched>>
  /\ IF op.kind = "message"
     THEN /\ pc' = "artifacts"
          /\ UNCHANGED <<op, answered>>
     ELSE /\ pc' = "free" /\ op' = NoOp
          /\ answered' = [answered EXCEPT ![j] = Written.seq]
  /\ UNCHANGED <<made, events, messages, lease, client, accepted, crashes, faults>>

WriteArtifacts ==
  /\ pc = "artifacts"
  /\ manifest' = [manifest EXCEPT ![op.job] = jobs[op.job]]
  /\ accepted' = [accepted EXCEPT ![<<op.job, op.line[2]>>] = @ + 1]
  /\ answered' = [answered EXCEPT ![op.job] = jobs[op.job].seq]
  /\ pc' = "free" /\ op' = NoOp
  /\ UNCHANGED <<made, events, messages, memory, client, dispatched, crashes, faults>>

(* The file operation throws and the operation rejects; what it did to      *)
(* memory and to the other files stays.                                     *)
OperationFails ==
  /\ pc \in {"line", "event", "manifest", "artifacts"}
  /\ FaultAllowed
  /\ CountFault
  /\ pc' = "free" /\ op' = NoOp
  /\ UNCHANGED <<disk, memory, client, dispatched, accepted, answered, crashes>>

-----------------------------------------------------------------------------
(* The drain before a self reload *)

BeginSelfReload ==
  /\ Free /\ ~ lease
  /\ lease' = TRUE
  /\ UNCHANGED <<disk, jobs, index, ids, pc, op, client, ghost>>

EndSelfReload ==
  /\ Free /\ lease
  /\ lease' = FALSE
  /\ UNCHANGED <<disk, jobs, index, ids, pc, op, client, ghost>>

-----------------------------------------------------------------------------
(* snapshot: a client reads the events after its cursor, without the lock *)

Log == events[watched]
LinesAfterCursor == {i \in DOMAIN Log : Log[i] > cursor}
FirstLines(S) == {i \in S : Cardinality({h \in S : h < i}) < Page}

ReadEvents ==
  /\ Serving /\ poll = NoPoll /\ watched \in Live
  /\ poll' = FirstLines(LinesAfterCursor)
  /\ UNCHANGED <<disk, memory, pc, op, watched, cursor, got, more, ghost>>

(* The answer carries nextEventSeq, taken from the page, and hasMore, taken *)
(* from the record at the end.                                              *)
NextEventSeq ==
  IF poll = {} THEN cursor ELSE Log[CHOOSE i \in poll : \A h \in poll : h <= i]

(* Mutant: the cursor is taken from the record, not from the page.          *)
ReplyWithRecordCursor ==
  /\ Serving /\ poll # NoPoll
  /\ cursor' = jobs[watched].seq
  /\ got' = got \cup poll
  /\ more' = FALSE
  /\ poll' = NoPoll
  /\ UNCHANGED <<disk, memory, pc, op, watched, ghost>>

Reply ==
  /\ Serving /\ poll # NoPoll
  /\ cursor' = NextEventSeq
  /\ got' = got \cup poll
  /\ more' = (NextEventSeq < jobs[watched].seq)
  /\ poll' = NoPoll
  /\ UNCHANGED <<disk, memory, pc, op, watched, ghost>>

-----------------------------------------------------------------------------
(* Crash and start-up *)

Crash ==
  /\ pc # "down"
  /\ crashes < MaxCrash
  /\ crashes' = crashes + 1
  /\ jobs' = <<>> /\ index' = <<>> /\ ids' = <<>> /\ lease' = FALSE
  /\ pc' = "down" /\ op' = NoOp /\ poll' = NoPoll
  /\ UNCHANGED <<disk, watched, cursor, got, more, dispatched, accepted, answered, faults>>

Readable == {j \in Made : manifest[j] # NoRecord}

(* Mutant: the client ids are only kept in memory. *)
LoadForgetsMessages ==
  /\ pc = "down"
  /\ jobs' = [j \in Readable |-> manifest[j]]
  /\ index' = [k \in {manifest[j].key : j \in Readable} |->
                 CHOOSE j \in Readable : manifest[j].key = k]
  /\ ids' = [j \in Readable |-> {}]
  /\ pc' = "settle"
  /\ UNCHANGED <<disk, lease, op, client, ghost>>

(* initialize, first loop: every directory with a manifest is a job; the    *)
(* client ids of its last messages are known again.                         *)
Load ==
  /\ pc = "down"
  /\ jobs' = [j \in Readable |-> manifest[j]]
  /\ index' = [k \in {manifest[j].key : j \in Readable} |->
                 CHOOSE j \in Readable : manifest[j].key = k]
  /\ ids' = [j \in Readable |-> Elements(Last(messages[j], Window))]
  /\ pc' = "settle"
  /\ UNCHANGED <<disk, lease, op, client, ghost>>

Unsettled == {j \in Live : jobs[j].status \in Active \/ jobs[j].waiting > 0}

(* Second loop: pending approvals expire and an active job is interrupted.  *)
Settle ==
  /\ pc = "settle"
  /\ \E j \in Unsettled :
       /\ Change(j, Finished(jobs[j], IF jobs[j].status \in Active THEN "interrupted"
                                      ELSE jobs[j].status))
       /\ op' = [kind |-> "settle", job |-> j]
  /\ pc' = "settleEvent"
  /\ UNCHANGED <<disk, index, ids, lease, client, ghost>>

SettleEvent ==
  /\ pc = "settleEvent"
  /\ events' = [events EXCEPT ![op.job] = Append(@, jobs[op.job].seq)]
  /\ pc' = "settleManifest"
  /\ UNCHANGED <<made, manifest, messages, memory, op, client, ghost>>

SettleManifest ==
  /\ pc = "settleManifest"
  /\ manifest' = [manifest EXCEPT ![op.job] = jobs[op.job]]
  /\ pc' = "settle" /\ op' = NoOp
  /\ UNCHANGED <<made, events, messages, memory, client, ghost>>

(* A write fails: initialize rejects and the process ends.                  *)
StartFails ==
  /\ pc \in {"settleEvent", "settleManifest"}
  /\ FaultAllowed
  /\ CountFault
  /\ jobs' = <<>> /\ index' = <<>> /\ ids' = <<>>
  /\ pc' = "down" /\ op' = NoOp
  /\ UNCHANGED <<disk, lease, client, dispatched, accepted, answered, crashes>>

Open ==
  /\ pc = "settle" /\ Unsettled = {}
  /\ pc' = "free"
  /\ UNCHANGED <<disk, memory, op, client, ghost>>

-----------------------------------------------------------------------------
(* The specification *)

Init ==
  /\ made = 0
  /\ manifest = [j \in Dirs |-> NoRecord]
  /\ events = [j \in Dirs |-> <<>>]
  /\ messages = [j \in Dirs |-> <<>>]
  /\ jobs = <<>> /\ index = <<>> /\ ids = <<>> /\ lease = FALSE
  /\ pc = "free" /\ op = NoOp /\ poll = NoPoll
  /\ watched \in Dirs /\ cursor = 0 /\ got = {} /\ more = TRUE
  /\ dispatched = [k \in Keys \cup Threads |-> 0]
  /\ accepted = [jm \in Dirs \X Messages |-> 0]
  /\ answered = [j \in Dirs |-> 0]
  /\ crashes = 0 /\ faults = 0

Operate(j) ==
  \/ PrepareTurn(j) \/ AddApproval(j) \/ ResolveApproval(j) \/ RecordEvent(j)
  \/ Transition(j, "preparing")
  \/ \E turn \in 1..MaxTurn : SetTurn(j, turn)
  \/ \E m \in Messages : AppendUserMessage(j, m)
  \/ \E status \in Results : Complete(j, status)

(* Steps of the holder of the lock, and of start-up, that nothing delays.   *)
Proceed ==
  \/ AppendLine \/ AppendEvent \/ WriteManifest \/ WriteArtifacts
  \/ Load \/ Settle \/ SettleEvent \/ SettleManifest \/ Open

Next ==
  \/ \E k \in Keys \cup Threads : Create(k)
  \/ \E j \in Live : Operate(j)
  \/ Proceed \/ OperationFails \/ StartFails
  \/ BeginSelfReload \/ EndSelfReload
  \/ ReadEvents \/ Reply \/ Crash

Spec == Init /\ [][Next]_vars

-----------------------------------------------------------------------------
(* Properties *)

TypeOK ==
  /\ made \in 0..MaxJobs
  /\ manifest \in [Dirs -> Record \cup {NoRecord}]
  /\ events \in [Dirs -> Seq(Nat \ {0})]
  /\ messages \in [Dirs -> Seq(Line)]
  /\ Live \subseteq Made /\ \A j \in Live : jobs[j] \in Record
  /\ DOMAIN index \subseteq Keys \cup Threads /\ \A k \in DOMAIN index : index[k] \in Live
  /\ DOMAIN ids = Live /\ \A j \in Live : ids[j] \subseteq Line
  /\ lease \in BOOLEAN
  /\ watched \in Dirs /\ cursor \in Nat /\ more \in BOOLEAN

(* A key, or an imported thread, gets a job once, across restarts and       *)
(* failed attempts: a retry never dispatches the work package again         *)
(* (create, importLocalThread, initialize).                                 *)
KeyDispatchedOnce == \A k \in DOMAIN dispatched : dispatched[k] <= 1

(* A retried client message is not accepted again: it would be sent to      *)
(* Codex a second time (appendUserMessage, initialize).                     *)
MessageAcceptedOnce == \A jm \in DOMAIN accepted : accepted[jm] <= 1

(* Whoever repeats a call whose answer was lost gets what the first one did, *)
(* of a creation as of a message, over restarts and failed writes.          *)
RetriesAreHarmless == KeyDispatchedOnce /\ MessageAcceptedOnce

(* messages.jsonl has a line for every accepted message and one for each id.*)
MessagesKept ==
  /\ \A j \in Made : \A h, i \in DOMAIN messages[j] :
       messages[j][h] = messages[j][i] => h = i
  /\ \A jm \in DOMAIN accepted :
       accepted[jm] > 0 => User(jm[2]) \in Elements(messages[jm[1]])

(* What an operation answered is on disk, and no restart takes it back.     *)
AnsweredSurvives ==
  \A j \in Dirs : answered[j] > 0 => manifest[j] # NoRecord /\ manifest[j].seq >= answered[j]

(* The manifest never counts an event the log does not have: its last line  *)
(* is at least as recent (mutateUnlocked appends first).                    *)
LogReachesManifest ==
  \A j \in Made : manifest[j] # NoRecord =>
    \E i \in DOMAIN events[j] : events[j][i] >= manifest[j].seq

(* When the store opens, nothing of an earlier process is left active or    *)
(* waiting, in memory and on disk.                                          *)
RestartSettles ==
  [][pc = "settle" /\ pc' = "free" =>
       \A j \in Live : /\ jobs[j].status \in Terminal /\ jobs[j].waiting = 0
                       /\ manifest[j] = jobs[j]]_vars

(* While the lease is held no admission is under way that the job map does  *)
(* not show yet (beginSelfReload takes the admission lock).                 *)
DrainSeesAdmissions ==
  lease => pc = "free" \/ op.kind \notin {"create", "message", "prepare"}

(* No crash fell between an event and its manifest: numbers are used once.  *)
InOrder ==
  \A i \in DOMAIN Log : /\ Log[i] <= jobs[watched].seq
                        /\ \A h \in DOMAIN Log : h < i => Log[h] < Log[i]
Answering == poll # NoPoll /\ poll' = NoPoll /\ pc' # "down"

(* A client told that there is no more has been given every event, as long  *)
(* as no crash came between an event and its manifest (snapshot).           *)
CursorMissesNothing ==
  [][Answering /\ ~ more' /\ InOrder => got' = DOMAIN Log]_vars

(* The same, whatever crashes came before.                                  *)
CaughtUpHasAll ==
  [][Answering /\ ~ more' => got' = DOMAIN Log]_vars
=============================================================================
