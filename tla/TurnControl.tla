----------------------------- MODULE TurnControl -----------------------------
(***************************************************************************)
(* How the Codex Bridge drives one job on the App Server                   *)
(* (codex_bridge/src/controller.ts).                                       *)
(*                                                                         *)
(* Handlers of one job - notifications, approval requests, the operator's  *)
(* cancel, decision and message, and the two halves of a history recovery  *)
(* - take the job's lock, which is first come, first served.  Three things *)
(* do not take it: the flow that starts a turn (execute for a new job,     *)
(* resumeAndExecute for a later message), the reading of the history, and  *)
(* the handler of the App Server's exit.  All of them stop at each await,  *)
(* and the others run in between.                                          *)
(*                                                                         *)
(* The store's operations on the record are atomic here: JobLedger has     *)
(* their steps, and ConversationLog those of the projection.  The App      *)
(* Server is external: one stream of lines, in order.                      *)
(***************************************************************************)
EXTENDS Naturals, Sequences, FiniteSets

CONSTANTS
  Requests,  \* approval requests of the App Server (bounds the model)
  MaxText,   \* pieces of output of a turn (bounds the model)
  MaxSend,   \* messages of the operator (bounds the model)
  MaxCancel, \* cancellations (bounds the model)
  MaxDecide, \* decisions of the operator (bounds the model)
  MaxRead,   \* recoveries (bounds the model)
  MaxExit,   \* exits of the App Server (bounds the model)
  MaxFault,  \* requests that fail or time out, failed store writes (bounds the model)
  MaxTotal   \* of those six, how many in one behaviour (bounds the model)

ASSUME TurnControlAssumption ==
  /\ MaxText \in Nat /\ MaxSend \in Nat /\ MaxCancel \in Nat
  /\ MaxDecide \in Nat /\ MaxRead \in Nat /\ MaxExit \in Nat /\ MaxFault \in Nat /\ MaxTotal \in Nat

VARIABLES
  status,    \* the record's status
  thread,    \* whether the record has its threadId
  turn,      \* the record's turnId, or 0
  approvals, \* the state of each approval of the record
  projected, \* pieces of each turn's output in the conversation projection
  byThread,  \* whether jobsByThread maps the thread to the job
  byTurn,    \* the turns jobsByTurn maps to the job
  live,      \* the requests in liveApprovals
  queue,     \* the tasks that hold (the first) or wait for the job's lock
  flows,     \* the execute and resumeAndExecute calls
  read,      \* the recovery in progress
  changed,   \* the epoch or the revision changed since the recovery's baseline
  exiting,   \* where handleExit is
  ready,     \* whether the App Server runs
  wire,      \* lines of the App Server not yet handled
  starts,    \* flows whose turn/start the App Server has not handled
  native,    \* the App Server's turns
  said,      \* pieces of output of each native turn
  asker,     \* the turn that made each request, or 0
  gone,      \* requests of an App Server process that has exited
  answers,   \* the responses each request got
  sends, cancels, decides, reads, exits, faults

store == <<status, thread, turn, approvals, projected>>
maps == <<byThread, byTurn, live>>
recovery == <<read, changed>>
server == <<ready, wire, starts, native, said, asker, gone>>
counts == <<sends, cancels, decides, reads, exits, faults>>
vars == <<store, maps, queue, flows, recovery, exiting, server, answers, counts>>

-----------------------------------------------------------------------------

Flows == 1..(MaxSend + 1)  \* the first is execute's
Turns == Flows             \* a flow starts one turn at most
Terminal == {"completed", "failed", "interrupted", "cancelled"}
Settled == status \in Terminal
InTurn == status \in {"running", "awaiting_approval"}

NoRead == [at |-> "none"]
Ended(t) == native[t] \in {"completed", "interrupted"}
Started(t) == native[t] # "none"

(* The lock: the head of the queue holds it *)
Wait(task) == queue' = Append(queue, task)
Holds(kind, at) == queue # <<>> /\ queue[1].kind = kind /\ queue[1].at = at
Release == queue' = Tail(queue)
GoTo(at) == queue' = [queue EXCEPT ![1].at = at]
Task == queue[1]

(* notificationEpochs and conversationRevision are only ever compared with  *)
(* the baseline, so the model keeps whether they are still the same.        *)
Watching == read.at \in {"reading", "asked", "sent", "read"}
Bump == changed' = (changed \/ Watching)

(* the operator's calls, exits and faults of a behaviour *)
Another == sends + cancels + decides + reads + exits + faults < MaxTotal

Fault == Another /\ faults < MaxFault /\ faults' = faults + 1
Send(line) == wire' = Append(wire, line)

(* complete: the pending approvals are settled and the status is set *)
CompleteJob(st) ==
  /\ status' = st
  /\ approvals' = [r \in Requests |->
       IF approvals[r] # "pending" THEN approvals[r]
       ELSE IF st = "cancelled" THEN "cancelled" ELSE "expired"]

(* removeMappings of a record whose turn is t *)
RemoveMappings(t) == byThread' = FALSE /\ byTurn' = byTurn \ {t}

(* respond: only a running process gets the line, and a request of an       *)
(* earlier process is not answered by it.                                   *)
Respond(r, decision) ==
  answers' = IF ready /\ r \notin gone
             THEN [answers EXCEPT ![r] = Append(@, decision)] ELSE answers

-----------------------------------------------------------------------------
(* execute and resumeAndExecute: no lock *)

Flow(f, at) == flows[f] = at
FlowAt(f, at) == flows' = [flows EXCEPT ![f] = at]

(* ensureStarted, the permission profile, and thread/start or thread/resume. *)
(* execute makes the record preparing first, whatever it was.               *)
OpenThread(f) ==
  /\ flows[f] \in {"execute", "resume"}
  /\ status' = IF Flow(f, "execute") THEN "preparing" ELSE status
  /\ ready' = TRUE
  /\ FlowAt(f, "thread")
  /\ UNCHANGED <<thread, turn, approvals, projected, maps, queue, recovery, exiting, wire, starts, native, said,
                 asker, gone, answers, counts>>

(* the thread is known and mapped; turn/start goes out *)
StartTurn(f) ==
  /\ Flow(f, "thread")
  /\ byThread' = TRUE
  /\ thread' = TRUE
  /\ starts' = starts \cup {f}
  /\ FlowAt(f, "turn")
  /\ UNCHANGED <<status, turn, approvals, projected, byTurn, live, queue, recovery,
                 exiting, ready, wire, native, said, asker, gone, answers, counts>>

(* the response of turn/start: the turn is mapped and setTurn makes the job *)
(* running.  The response of a call that was given up is ignored.           *)
TurnResponse(line) ==
  /\ line.kind = "turn"
  /\ IF Flow(line.flow, "turn")
     THEN /\ byTurn' = byTurn \cup {line.turn}
          /\ turn' = line.turn
          /\ status' = "running"
          /\ FlowAt(line.flow, "project")
     ELSE UNCHANGED <<byTurn, turn, status, flows>>
  /\ UNCHANGED <<thread, approvals, projected, byThread, live, queue, recovery, exiting,
                 answers, counts>>

(* the synthetic turn/started goes to the projection *)
ProjectStart(f) ==
  /\ Flow(f, "project")
  /\ Bump
  /\ FlowAt(f, "done")
  /\ UNCHANGED <<store, maps, queue, read, exiting, server, answers, counts>>

(* a call that rejects or times out - the profile is not to be had, or the  *)
(* thread does not confirm it in time - or a store write that fails         *)
FlowFails(f) ==
  /\ flows[f] \in {"execute", "resume", "thread", "turn", "project"}
  /\ Fault
  /\ FlowAt(f, "failed")
  /\ UNCHANGED <<store, maps, queue, recovery, exiting, server, answers, sends, cancels,
                 decides, reads, exits>>

(* Mutant: the catch only drops the mappings *)
CatchLeavesJob(f) ==
  /\ Flow(f, "failed")
  /\ byThread' = (byThread /\ ~ thread)
  /\ byTurn' = byTurn \ {turn}
  /\ FlowAt(f, "done")
  /\ UNCHANGED <<store, live, queue, recovery, exiting, server, answers, counts>>

(* the catch: a job that is not settled fails, and its mappings go *)
Catch(f) ==
  /\ Flow(f, "failed")
  /\ IF Settled THEN UNCHANGED <<status, approvals>> ELSE CompleteJob("failed")
  /\ byThread' = (byThread /\ ~ thread)
  /\ byTurn' = byTurn \ {turn}
  /\ FlowAt(f, "done")
  /\ UNCHANGED <<thread, turn, projected, live, queue, recovery, exiting, server,
                 answers, counts>>

-----------------------------------------------------------------------------
(* Lines of the App Server: what a handler does before it waits for the lock *)

Mapped(t) == t \in byTurn \/ byThread

(* handleNotification: an unknown turn is counted and dropped, a known one   *)
(* moves the epoch before it queues.                                        *)
Notify(line) ==
  /\ line.kind \in {"started", "text", "ended"}
  /\ IF Mapped(line.turn)
     THEN /\ Bump
          /\ Wait([kind |-> line.kind, at |-> "check", turn |-> line.turn,
                   state |-> line.state, seen |-> 0])
     ELSE UNCHANGED <<changed, queue>>
  /\ UNCHANGED <<store, maps, flows, read, exiting, answers, counts>>

(* handleServerRequest: without a job the request is declined at once *)
AskApproval(line) ==
  /\ line.kind = "request"
  /\ IF Mapped(line.turn)
     THEN /\ Bump
          /\ Wait([kind |-> "request", at |-> "check", turn |-> line.turn,
                   request |-> line.request])
          /\ UNCHANGED answers
     ELSE /\ Respond(line.request, "decline")
          /\ UNCHANGED <<changed, queue>>
  /\ UNCHANGED <<store, maps, flows, read, exiting, counts>>

(* the answer of the history read: its second half waits for the lock *)
History(line) ==
  /\ line.kind = "history"
  /\ read' = [read EXCEPT !.at = "read"]
  /\ Wait([kind |-> "apply", at |-> "check", text |-> line.text, native |-> line.native])
  /\ UNCHANGED <<store, maps, flows, changed, exiting, answers, counts>>

HandleLine ==
  /\ wire # <<>>
  /\ wire' = Tail(wire)
  /\ LET line == wire[1]
     IN TurnResponse(line) \/ Notify(line) \/ AskApproval(line) \/ History(line)
  /\ UNCHANGED <<ready, starts, native, said, asker, gone>>

-----------------------------------------------------------------------------
(* Notifications, under the lock *)

(* a job without its thread, or settled, takes no notification *)
Ignored == ~ thread \/ Settled

NotificationIgnored ==
  /\ \E kind \in {"started", "text", "ended"} : Holds(kind, "check")
  /\ Ignored
  /\ Release
  /\ UNCHANGED <<store, maps, flows, recovery, exiting, server, answers, counts>>

TurnStarted ==
  /\ Holds("started", "check") /\ ~ Ignored
  /\ Bump
  /\ Release
  /\ UNCHANGED <<store, maps, flows, read, exiting, server, answers, counts>>

(* a coalesced notification changes the projection, not its revision *)
TextArrived ==
  /\ Holds("text", "check") /\ ~ Ignored
  /\ projected' = [projected EXCEPT ![Task.turn] = @ + 1]
  /\ Release
  /\ UNCHANGED <<status, thread, turn, approvals, maps, flows, recovery, exiting, server,
                 answers, counts>>

(* turn/completed: the projection first, then the job, then the mappings of *)
(* the record read at the start.                                            *)
TurnEnded ==
  /\ Holds("ended", "check") /\ ~ Ignored
  /\ Bump
  /\ queue' = [queue EXCEPT ![1].at = "complete", ![1].seen = turn]
  /\ UNCHANGED <<store, maps, flows, read, exiting, server, answers, counts>>

TurnSettles ==
  /\ Holds("ended", "complete")
  /\ CompleteJob(Task.state)
  /\ RemoveMappings(Task.seen)
  /\ Release
  /\ UNCHANGED <<thread, turn, projected, live, flows, recovery, exiting, server, answers,
                 counts>>

(* a write fails: the notification is lost but for an event *)
NotificationFails ==
  /\ \E kind \in {"started", "text", "ended"} :
       (Holds(kind, "check") /\ ~ Ignored) \/ Holds(kind, "complete")
  /\ Fault
  /\ Release
  /\ UNCHANGED <<store, maps, flows, recovery, exiting, server, answers, sends, cancels,
                 decides, reads, exits>>

-----------------------------------------------------------------------------
(* Approval requests, under the lock *)

(* the record decides whether the request is of the running turn *)
OfTheTurn == InTurn /\ Task.turn = turn /\ thread

RequestDeclined ==
  /\ Holds("request", "check") /\ ~ OfTheTurn
  /\ Respond(Task.request, "decline")
  /\ Release
  /\ UNCHANGED <<store, maps, flows, recovery, exiting, server, counts>>

(* the request becomes live; pending output is flushed *)
RequestGoesLive ==
  /\ Holds("request", "check") /\ OfTheTurn
  /\ live' = live \cup {Task.request}
  /\ Bump
  /\ GoTo("add")
  /\ UNCHANGED <<store, byThread, byTurn, flows, read, exiting, server, answers, counts>>

(* addApproval *)
RequestPending ==
  /\ Holds("request", "add")
  /\ approvals' = [approvals EXCEPT ![Task.request] = "pending"]
  /\ status' = "awaiting_approval"
  /\ GoTo("project")
  /\ UNCHANGED <<thread, turn, projected, maps, flows, recovery, exiting, server, answers,
                 counts>>

RequestProjected ==
  /\ Holds("request", "project")
  /\ Bump
  /\ Release
  /\ UNCHANGED <<store, maps, flows, read, exiting, server, answers, counts>>

(* Mutant: the catch declines and leaves the request live *)
RequestFailsStaysLive ==
  /\ Holds("request", "add") \/ Holds("request", "project")
  /\ Fault
  /\ Respond(Task.request, "decline")
  /\ Release
  /\ UNCHANGED <<store, maps, flows, recovery, exiting, server, sends, cancels, decides,
                 reads, exits>>

(* the catch: the request is declined *)
RequestFails ==
  /\ Holds("request", "add") \/ Holds("request", "project")
  /\ Fault
  /\ live' = live \ {Task.request}
  /\ Respond(Task.request, "decline")
  /\ Release
  /\ UNCHANGED <<store, byThread, byTurn, flows, recovery, exiting, server, sends, cancels,
                 decides, reads, exits>>

-----------------------------------------------------------------------------
(* The operator's decision *)

(* decideApproval: the epoch moves before the lock is taken *)
Decide(r, decision) ==
  /\ Another /\ decides < MaxDecide /\ decides' = decides + 1
  /\ approvals[r] # "none"
  /\ Bump
  /\ Wait([kind |-> "decide", at |-> "check", request |-> r, decision |-> decision])
  /\ UNCHANGED <<store, maps, flows, read, exiting, server, answers, sends, cancels, reads,
                 exits, faults>>

(* no live request, or no process to answer: the call throws *)
DecisionRefused ==
  /\ Holds("decide", "check")
  /\ Task.request \notin live \/ ~ ready
  /\ Release
  /\ UNCHANGED <<store, maps, flows, recovery, exiting, server, answers, counts>>

(* the App Server is answered before the store knows *)
DecisionSent ==
  /\ Holds("decide", "check")
  /\ Task.request \in live /\ ready
  /\ Respond(Task.request, Task.decision)
  /\ live' = live \ {Task.request}
  /\ GoTo("resolve")
  /\ UNCHANGED <<store, byThread, byTurn, flows, recovery, exiting, server, counts>>

(* resolveApproval: only a pending approval takes the decision, and is      *)
(* projected then                                                           *)
DecisionStored ==
  /\ Holds("decide", "resolve")
  /\ IF approvals[Task.request] = "pending"
     THEN /\ approvals' = [approvals EXCEPT ![Task.request] =
                             IF Task.decision = "accept" THEN "accepted" ELSE "declined"]
          /\ status' = IF \E r \in Requests : approvals'[r] = "pending"
                       THEN "awaiting_approval" ELSE "running"
          /\ Bump
     ELSE UNCHANGED <<approvals, status, changed>>
  /\ Release
  /\ UNCHANGED <<thread, turn, projected, maps, flows, read, exiting, server, answers,
                 counts>>

DecisionFails ==
  /\ Holds("decide", "resolve")
  /\ Fault
  /\ Release
  /\ UNCHANGED <<store, maps, flows, recovery, exiting, server, answers, sends, cancels,
                 decides, reads, exits>>

-----------------------------------------------------------------------------
(* Cancellation *)

(* cancel: the epoch moves before the lock is taken.  execute has made the  *)
(* job preparing before dispatch gives anybody its id.                      *)
Cancel ==
  /\ status # "queued"
  /\ Another /\ cancels < MaxCancel /\ cancels' = cancels + 1
  /\ Bump
  /\ Wait([kind |-> "cancel", at |-> "check", seen |-> 0])
  /\ UNCHANGED <<store, maps, flows, read, exiting, server, answers, sends, decides, reads,
                 exits, faults>>

(* cancelLocked reads the record once: a settled job is left alone, a turn  *)
(* of a running process is interrupted, a known turn is projected.          *)
CancelRead ==
  /\ Holds("cancel", "check")
  /\ IF Settled THEN Release
     ELSE queue' = [queue EXCEPT
            ![1].seen = turn,
            ![1].at = IF thread /\ turn # 0 /\ ready THEN "interrupt" ELSE "complete"]
  /\ UNCHANGED <<store, maps, flows, recovery, exiting, server, answers, counts>>

(* turn/interrupt: the App Server ends the turn and tells of it *)
CancelInterrupts ==
  /\ Holds("cancel", "interrupt")
  /\ ready /\ native[Task.seen] = "running"
  /\ native' = [native EXCEPT ![Task.seen] = "interrupted"]
  /\ Send([kind |-> "ended", turn |-> Task.seen, state |-> "interrupted"])
  /\ GoTo("complete")
  /\ UNCHANGED <<store, maps, flows, recovery, exiting, ready, starts, said, asker, gone,
                 answers, counts>>

(* an interrupt of a turn that is over is confirmed or fails; one in flight *)
(* when the process exits fails.                                            *)
CancelConfirmed ==
  /\ Holds("cancel", "interrupt") /\ Ended(Task.seen)
  /\ GoTo("complete")
  /\ UNCHANGED <<store, maps, flows, recovery, exiting, server, answers, counts>>

CancelFails ==
  /\ (Holds("cancel", "interrupt") /\ Ended(Task.seen)) \/ Holds("cancel", "rejected")
  /\ Release
  /\ UNCHANGED <<store, maps, flows, recovery, exiting, server, answers, counts>>

(* a turn is projected as interrupted; the mappings and live approvals stay *)
CancelSettles ==
  /\ Holds("cancel", "complete")
  /\ IF Task.seen # 0 THEN Bump ELSE UNCHANGED changed
  /\ CompleteJob("cancelled")
  /\ Release
  /\ UNCHANGED <<thread, turn, projected, maps, flows, read, exiting, server, answers,
                 counts>>

-----------------------------------------------------------------------------
(* The operator's next message *)

SendMessage ==
  /\ Another /\ sends < MaxSend /\ sends' = sends + 1
  /\ Wait([kind |-> "send", at |-> "check"])
  /\ UNCHANGED <<store, maps, flows, recovery, exiting, server, answers, cancels, decides,
                 reads, exits, faults>>

(* sendMessageLocked: refused while a turn is being prepared or without a   *)
(* thread; whether a turn runs is read before the message is stored.        *)
MessageRead ==
  /\ Holds("send", "check")
  /\ IF InTurn THEN GoTo("steer")
     ELSE IF Settled /\ thread THEN GoTo("prepare")
     ELSE Release
  /\ UNCHANGED <<store, maps, flows, recovery, exiting, server, answers, counts>>

(* turn/steer, or its failure: the record keeps its state *)
MessageSteers ==
  /\ Holds("send", "steer")
  /\ ready' = (ready \/ turn # 0)
  /\ Release
  /\ UNCHANGED <<store, maps, flows, recovery, exiting, wire, starts, native, said, asker,
                 gone, answers, counts>>

(* prepareTurn, and a flow of its own for the turn *)
MessagePrepares ==
  /\ Holds("send", "prepare")
  /\ status' = "preparing"
  /\ turn' = 0
  /\ \E f \in Flows : /\ Flow(f, "none") /\ \A g \in 1..(f - 1) : ~ Flow(g, "none")
                      /\ FlowAt(f, "resume")
  /\ Release
  /\ UNCHANGED <<thread, approvals, projected, maps, recovery, exiting, server, answers,
                 counts>>

-----------------------------------------------------------------------------
(* Recovery of an active conversation from the native history *)

(* recoverActiveConversation: one at a time, for a turn that is not settled *)
Recover ==
  /\ Another /\ reads < MaxRead /\ reads' = reads + 1
  /\ read = NoRead
  /\ thread /\ turn # 0 /\ ~ Settled
  /\ read' = [at |-> "waiting", turn |-> turn]
  /\ Wait([kind |-> "baseline", at |-> "check"])
  /\ UNCHANGED <<store, maps, flows, changed, exiting, server, answers, sends, cancels,
                 decides, exits, faults>>

(* the flush and the baseline, under the lock *)
TakeBaseline ==
  /\ Holds("baseline", "check")
  /\ changed' = FALSE
  /\ read' = [read EXCEPT !.at = "reading"]
  /\ Release
  /\ UNCHANGED <<store, maps, flows, exiting, server, answers, counts>>

(* the reader asks for the thread, in one call or page by page: the App     *)
(* Server reads the history now ...                                         *)
ReadHistory ==
  /\ read.at = "reading"
  /\ ready' = TRUE
  /\ read' = [at |-> "asked", turn |-> read.turn, text |-> said, native |-> native]
  /\ UNCHANGED <<store, maps, queue, flows, changed, exiting, wire, starts, native, said,
                 asker, gone, answers, counts>>

(* ... and its last answer arrives later, behind lines that tell more *)
AnswerHistory ==
  /\ read.at = "asked"
  /\ Send([kind |-> "history", text |-> read.text, native |-> read.native])
  /\ read' = [at |-> "sent", turn |-> read.turn]
  /\ UNCHANGED <<store, maps, queue, flows, changed, exiting, ready, starts, native, said,
                 asker, gone, answers, counts>>

(* the read fails: the recovery is put off *)
ReadFails ==
  /\ read.at = "reading"
  /\ Fault
  /\ read' = NoRead /\ changed' = FALSE
  /\ UNCHANGED <<store, maps, queue, flows, exiting, server, answers, sends, cancels,
                 decides, reads, exits>>

(* Mutant: only the identity of the turn is compared, not the baseline *)
UnmovedTurn == thread /\ turn = read.turn /\ ~ Settled

(* the record is the one that was read, and nothing came in between *)
Unmoved == thread /\ turn = read.turn /\ ~ Settled /\ ~ changed

HistoryRefused ==
  /\ Holds("apply", "check")
  /\ ~ Unmoved
  /\ read' = NoRead /\ changed' = FALSE
  /\ Release
  /\ UNCHANGED <<store, maps, flows, exiting, server, answers, counts>>

(* hydrateConversation replaces the projection *)
HistoryApplied ==
  /\ Holds("apply", "check")
  /\ Unmoved
  /\ projected' = Task.text
  /\ IF Task.native[turn] = "running"
     THEN /\ read' = NoRead /\ changed' = FALSE
          /\ Release
     ELSE /\ GoTo("complete")
          /\ UNCHANGED <<read, changed>>
  /\ UNCHANGED <<status, thread, turn, approvals, maps, flows, exiting, server, answers,
                 counts>>

(* a turn the history shows ended settles the job *)
HistorySettles ==
  /\ Holds("apply", "complete")
  /\ CompleteJob(Task.native[read.turn])
  /\ RemoveMappings(read.turn)
  /\ read' = NoRead /\ changed' = FALSE
  /\ Release
  /\ UNCHANGED <<thread, turn, projected, live, flows, exiting, server, answers, counts>>

-----------------------------------------------------------------------------
(* The App Server: external *)

(* a turn/start makes a turn; its response and turn/started follow *)
NativeStart(f, t) ==
  /\ f \in starts /\ ready
  /\ ~ Started(t) /\ \A u \in 1..(t - 1) : Started(u)
  /\ starts' = starts \ {f}
  /\ native' = [native EXCEPT ![t] = "running"]
  /\ wire' = wire \o << [kind |-> "turn", flow |-> f, turn |-> t],
                        [kind |-> "started", turn |-> t, state |-> "running"] >>
  /\ UNCHANGED <<store, maps, queue, flows, recovery, exiting, ready, said, asker, gone,
                 answers, counts>>

NativeSays(t) ==
  /\ native[t] = "running" /\ said[t] < MaxText
  /\ said' = [said EXCEPT ![t] = @ + 1]
  /\ Send([kind |-> "text", turn |-> t, state |-> "running"])
  /\ UNCHANGED <<store, maps, queue, flows, recovery, exiting, ready, starts, native, asker,
                 gone, answers, counts>>

Unanswered(r) == asker[r] # 0 /\ answers[r] = <<>> /\ r \notin gone

NativeAsks(t, r) ==
  /\ native[t] = "running" /\ asker[r] = 0
  /\ asker' = [asker EXCEPT ![r] = t]
  /\ Send([kind |-> "request", turn |-> t, request |-> r])
  /\ UNCHANGED <<store, maps, queue, flows, recovery, exiting, ready, starts, native, said,
                 gone, answers, counts>>

(* a turn ends by itself once its requests are answered *)
NativeEnds(t) ==
  /\ native[t] = "running"
  /\ \A r \in Requests : asker[r] = t => ~ Unanswered(r)
  /\ native' = [native EXCEPT ![t] = "completed"]
  /\ Send([kind |-> "ended", turn |-> t, state |-> "completed"])
  /\ UNCHANGED <<store, maps, queue, flows, recovery, exiting, ready, starts, said, asker,
                 gone, answers, counts>>

-----------------------------------------------------------------------------
(* handleExit: the calls in flight reject, the maps are cleared; a job with *)
(* a mapped turn is projected and settled without the lock.                 *)

Exit ==
  /\ ready /\ Another /\ exits < MaxExit /\ exits' = exits + 1
  /\ ready' = FALSE
  /\ wire' = <<>> /\ starts' = {}
  /\ native' = [t \in Turns |-> IF native[t] = "running" THEN "interrupted" ELSE native[t]]
  /\ gone' = {r \in Requests : asker[r] # 0}
  /\ flows' = [f \in Flows |->
       IF flows[f] \in {"thread", "turn"} THEN "failed" ELSE flows[f]]
  /\ IF read.at \in {"asked", "sent"} THEN read' = NoRead /\ changed' = FALSE ELSE UNCHANGED recovery
  /\ byThread' = FALSE /\ byTurn' = {} /\ live' = {}
  /\ exiting' = IF byTurn = {} \/ Settled THEN exiting
                ELSE IF turn # 0 THEN "project" ELSE "complete"
  /\ queue' = IF Holds("cancel", "interrupt") THEN [queue EXCEPT ![1].at = "rejected"] ELSE queue
  /\ UNCHANGED <<store, said, asker, answers, sends, cancels, decides, reads, faults>>

ExitProjects ==
  /\ exiting = "project"
  /\ Bump
  /\ exiting' = "complete"
  /\ UNCHANGED <<store, maps, queue, flows, read, server, answers, counts>>

ExitSettles ==
  /\ exiting = "complete"
  /\ CompleteJob("interrupted")
  /\ exiting' = "none"
  /\ UNCHANGED <<thread, turn, projected, maps, queue, flows, recovery, server, answers,
                 counts>>

-----------------------------------------------------------------------------

Init ==
  /\ status = "queued" /\ thread = FALSE /\ turn = 0
  /\ approvals = [r \in Requests |-> "none"]
  /\ projected = [t \in Turns |-> 0]
  /\ byThread = FALSE /\ byTurn = {} /\ live = {}
  /\ queue = <<>>
  /\ flows = [f \in Flows |-> IF f = 1 THEN "execute" ELSE "none"]
  /\ read = NoRead /\ changed = FALSE /\ exiting = "none"
  /\ ready = FALSE /\ wire = <<>> /\ starts = {}
  /\ native = [t \in Turns |-> "none"]
  /\ said = [t \in Turns |-> 0]
  /\ asker = [r \in Requests |-> 0] /\ gone = {}
  /\ answers = [r \in Requests |-> <<>>]
  /\ sends = 0 /\ cancels = 0 /\ decides = 0 /\ reads = 0 /\ exits = 0 /\ faults = 0

FlowStep(f) ==
  OpenThread(f) \/ StartTurn(f) \/ ProjectStart(f) \/ Catch(f)

(* what the holder of the lock does without a fault *)
LockStep ==
  \/ NotificationIgnored \/ TurnStarted \/ TextArrived \/ TurnEnded \/ TurnSettles
  \/ RequestDeclined \/ RequestGoesLive \/ RequestPending \/ RequestProjected
  \/ DecisionRefused \/ DecisionSent \/ DecisionStored
  \/ CancelRead \/ CancelInterrupts \/ CancelConfirmed \/ CancelFails \/ CancelSettles
  \/ MessageRead \/ MessageSteers \/ MessagePrepares
  \/ TakeBaseline \/ HistoryRefused \/ HistoryApplied \/ HistorySettles

Operator ==
  \/ \E r \in Requests, decision \in {"accept", "decline"} : Decide(r, decision)
  \/ Cancel \/ SendMessage \/ Recover

AppServer ==
  \/ \E f \in Flows, t \in Turns : NativeStart(f, t)
  \/ \E t \in Turns : NativeSays(t) \/ NativeEnds(t)
  \/ \E t \in Turns, r \in Requests : NativeAsks(t, r)
  \/ Exit

(* Nothing is under way.  A state in which something is, and nothing can go *)
(* on, is a deadlock.                                                       *)
Idle == /\ wire = <<>> /\ read = NoRead /\ queue = <<>> /\ exiting = "none" /\ starts = {}
        /\ \A f \in Flows : flows[f] \in {"none", "done"}

Rest == Idle /\ UNCHANGED vars

Next ==
  \/ \E f \in Flows : FlowStep(f) \/ FlowFails(f)
  \/ HandleLine
  \/ LockStep
  \/ NotificationFails \/ RequestFails \/ DecisionFails
  \/ ReadHistory \/ AnswerHistory \/ ReadFails
  \/ ExitProjects \/ ExitSettles
  \/ Operator
  \/ AppServer
  \/ Rest

Spec == Init /\ [][Next]_vars

-----------------------------------------------------------------------------
(* Properties *)

(* Types of the record, the maps, the lock's queue and the App Server. *)
TypeOK ==
  /\ status \in Terminal \cup {"queued", "preparing", "running", "awaiting_approval"}
  /\ thread \in BOOLEAN /\ turn \in Turns \cup {0}
  /\ approvals \in [Requests ->
       {"none", "pending", "accepted", "declined", "cancelled", "expired"}]
  /\ projected \in [Turns -> 0..MaxText] /\ said \in [Turns -> 0..MaxText]
  /\ byThread \in BOOLEAN /\ byTurn \subseteq Turns /\ live \subseteq Requests
  /\ flows \in [Flows -> {"none", "execute", "resume", "thread", "turn", "project", "failed",
                          "done"}]
  /\ read.at \in {"none", "waiting", "reading", "asked", "sent", "read"}
  /\ changed \in BOOLEAN
  /\ exiting \in {"none", "project", "complete"}
  /\ starts \subseteq Flows
  /\ native \in [Turns -> {"none", "running", "completed", "interrupted"}]
  /\ asker \in [Requests -> Turns \cup {0}] /\ gone \subseteq Requests
  /\ answers \in [Requests -> Seq({"accept", "decline"})]
  /\ \A i \in DOMAIN queue : queue[i].kind \in {"started", "text", "ended", "request",
       "decide", "cancel", "send", "baseline", "apply"}

(* A request of the App Server is answered once at most, although the       *)
(* decline of a failed handler, the operator's decision and a second        *)
(* decision of the same approval can all be under way (respond, L885, L1234 *)
(* and L1262).                                                              *)
AnsweredOnce == \A r \in Requests : Len(answers[r]) <= 1

(* An approval the record shows as accepted or declined was answered so:    *)
(* decideApproval answers first and stores after, with the turn's end, a    *)
(* cancellation or a failed write in between.  (A request of an exited      *)
(* process has nobody to answer.)                                           *)
StoreTellsTheAnswer ==
  \A r \in Requests \ gone :
    /\ approvals[r] = "accepted" => answers[r] = <<"accept">>
    /\ approvals[r] = "declined" => answers[r] = <<"decline">>

(* What Codex was told and what the record says of a request are the same   *)
(* thing and were said once, whatever decided it.                           *)
DecisionsHold == AnsweredOnce /\ StoreTellsTheAnswer

InWire(kind, r) == \E i \in DOMAIN wire : wire[i].kind = kind /\ wire[i].request = r
InQueue(kind, r) == \E i \in DOMAIN queue : queue[i].kind = kind /\ queue[i].request = r

(* A request whose turn waits for an answer is never lost: it is on its way *)
(* to the handler, in the lock's queue, or live for the operator.           *)
RequestsNotForgotten ==
  \A r \in Requests :
    Unanswered(r) /\ native[asker[r]] = "running"
      => InWire("request", r) \/ InQueue("request", r) \/ r \in live

(* A history read never takes output away that a notification brought: the  *)
(* notification epoch and the revision refuse a snapshot that is older than *)
(* the projection (readActiveConversation).                                 *)
RecoveryNeverRegresses == [][\A t \in Turns : projected'[t] >= projected[t]]_vars

(* Nothing is left waiting for an event that will not come: once everything *)
(* has been handled no job is still being prepared, and, when no write      *)
(* failed and the App Server stayed, an active job has a turn that runs and *)
(* whose end will find the job.                                             *)
NoTurnIsMissed ==
  Idle /\ ~ Settled =>
    /\ InTurn
    /\ faults = 0 /\ exits = 0 => native[turn] = "running" /\ Mapped(turn)

(* Neither a question of Codex nor the end of a turn is forgotten, in which- *)
(* ever order requests, answers and notifications arrive.                   *)
NothingIsForgotten == RequestsNotForgotten /\ NoTurnIsMissed

(* docs/JobRecovery.md lists completed, failed, interrupted and cancelled   *)
(* as terminal: only the operator's next message makes such a job active.   *)
SettledUntilNextMessage ==
  [][Settled /\ status' \notin Terminal => Holds("send", "prepare")]_vars

(* docs/ApprovalModel.md: a decision on an approval that is already         *)
(* resolved or expired is rejected, so it never reaches the App Server.     *)
DecisionsArePending ==
  [][\A r \in Requests : DecisionSent /\ Task.request = r => approvals[r] = "pending"]_vars
=============================================================================
