---------------------------- MODULE HostApproval ----------------------------
(***************************************************************************)
(* How the Codex Bridge has a reviewed command executed by the installed   *)
(* Windows host (codex_bridge/src/powershell-approval: store.ts,           *)
(* host-admission.ts, host-receiver.ts, host-transport.ts, normal-tools.ts *)
(* and mcp_control_center/src/NormalOperator.*.cs).                        *)
(*                                                                         *)
(* The store keeps reviews and production receipts in one journal: one     *)
(* append with fsync at a time, behind one queue, with one lock file for   *)
(* as long as the store is open.  A session of the transport connects the  *)
(* receiver with the host process: the host admits a request for a review, *)
(* has it approved, claims it, executes it and reports, one call at a      *)
(* time.  The channel breaks, the session's time runs out, either process  *)
(* ends and the store is closed at any point in between.                   *)
(*                                                                         *)
(* The lines of the journal are abstracted to the receipts they leave and  *)
(* their number: the hash chain refuses any other content.  A session      *)
(* makes at most one production request, so sessions name them.  Commands  *)
(* and their output, digests, identities and channel bindings are left     *)
(* out: a call is one of the session it claims to be of.                   *)
(***************************************************************************)
EXTENDS Naturals, Sequences, FiniteSets

CONSTANTS
  Reviews,    \* the reviews
  Sessions,   \* the sessions of the transport, and what each asks for; used in order
  None,
  Ttl,        \* TTL_MS, RECEIPT_TTL_MS and the session's time: all 120 s
  ReviewTtl,  \* REVIEW_TTL_MS
  MaxEntries, \* MAX_ENTRIES
  MaxTime,    \* the clock's last value (bounds the model)
  MaxCrash,   \* ends of the Bridge (bounds the model)
  MaxFault,   \* appends that fail (bounds the model)
  MaxWait     \* operations in the queue (bounds the model)

ASSUME HostApprovalAssumption ==
  /\ Sessions \subseteq Nat /\ None \notin Reviews \cup Sessions
  /\ Ttl \in Nat \ {0} /\ ReviewTtl \in Nat \ {0} /\ MaxEntries \in Nat
  /\ MaxTime \in Nat /\ MaxCrash \in Nat /\ MaxFault \in Nat /\ MaxWait \in Nat

VARIABLES
  now,     \* the clock of the machine
  saved,   \* the receipts the journal's whole lines leave
  entries, \* how many lines it has
  torn,    \* its last line is cut
  lock,    \* approval.lock exists
  store,   \* "down", "recovering", "open" or "faulted"
  known,   \* #records
  queue,   \* #queue: the operation that is running, and those behind it
  writing, \* the line whose append is under way, or None
  active,  \* the session of the transport, or None
  session, \* the receiver of each session
  wire,    \* where the current call of each session's host is
  host,    \* what the host of each session does
  offer,   \* when the request the host made expires
  executed,\* the host handed the script to the child
  crashes, faults

journal == <<saved, entries, torn>>
bridge == <<store, known, queue, writing, active, session>>
hosts == <<host, offer, executed>>
vars == <<now, journal, lock, bridge, wire, hosts, crashes, faults>>

-----------------------------------------------------------------------------

ReviewStates == {"none", "PENDING", "ACCEPTED", "DECLINED", "EXPIRED"}
ProductionStates == {"none", "PROPOSED", "APPROVED", "CONSUMED", "EXPIRED", "SUCCEEDED", "FAILED", "UNKNOWN"}
Outcomes == {"SUCCEEDED", "FAILED", "UNKNOWN"}

Receipts ==
  [review: [Reviews -> [state: ReviewStates, expires: Nat]],
   production: [Sessions -> [state: ProductionStates, of: Reviews \cup {None}, expires: Nat, deadline: Nat]]]

NoReceipts ==
  [review |-> [r \in Reviews |-> [state |-> "none", expires |-> 0]],
   production |-> [s \in Sessions |-> [state |-> "none", of |-> None, expires |-> 0, deadline |-> 0]]]

NoSession == [of |-> None, phase |-> "new", begun |-> 0, closed |-> FALSE, lowering |-> FALSE]
Ended == [NoSession EXCEPT !.closed = TRUE]

(* A line of the journal: the receipt it replaces and what it becomes *)
Line(what, id, to) == [what |-> what, id |-> id, to |-> to]
With(receipts, line) == [receipts EXCEPT ![line.what][line.id] = line.to]

Review(r) == known.review[r]
Production(s) == known.production[s]
ToReview(r, state) == Line("review", r, [Review(r) EXCEPT !.state = state])
ToProduction(s, state) == Line("production", s, [Production(s) EXCEPT !.state = state])

(* The journal takes another line *)
HasCapacity == entries < MaxEntries

(* A review from which a production request may still be made and used *)
SourceStands(r) == Review(r).state \in {"PENDING", "ACCEPTED"} /\ now < Review(r).expires

(* The helper lives, and the session's time has not run out *)
Timely(s) == now < session[s].begun + Ttl
ChannelIsCurrent(s) == active = s /\ ~session[s].closed /\ Timely(s)

(* Operations of the queue *)
Op(kind, id) == [kind |-> kind, id |-> id]
Queued(op) == queue' = Append(queue, op)
Head1 == queue[1]
Running == store = "open" /\ writing = None /\ queue # <<>> /\ Head1.kind # "close"

-----------------------------------------------------------------------------
(* What the operation at the head of the queue writes: at most one line    *)

When(condition, line) == IF condition THEN {line} ELSE {}

(* #expireReview *)
ExpireLines(r) ==
  When(Review(r).state = "PENDING" /\ now >= Review(r).expires, ToReview(r, "EXPIRED"))

(* createReview: the first call makes the review, a later one may expire it *)
CreateLines(r) ==
  When(Review(r).state = "none", Line("review", r, [state |-> "PENDING", expires |-> now + ReviewTtl]))
    \cup ExpireLines(r)

(* decideReview *)
DecideLines(r, decision) ==
  ExpireLines(r)
    \cup When(Review(r).state = "PENDING" /\ now < Review(r).expires, ToReview(r, decision))

(* Mutant: an earlier request for the review is not looked for *)
AdmitLinesTwice(s) ==
  LET r == session[s].of IN
  When(SourceStands(r) /\ offer[s] <= Review(r).expires /\ ChannelIsCurrent(s) /\ now < offer[s],
       Line("production", s, [state |-> "PROPOSED", of |-> r, expires |-> offer[s], deadline |-> 0]))

(* admitProduction: a review is the source of one request at most *)
AdmitLines(s) ==
  LET r == session[s].of IN
  When(/\ SourceStands(r) /\ offer[s] <= Review(r).expires
       /\ \A t \in Sessions : Production(t).of # r
       /\ ChannelIsCurrent(s) /\ now < offer[s],
       Line("production", s, [state |-> "PROPOSED", of |-> r, expires |-> offer[s], deadline |-> 0]))

(* decideProduction and claimProduction *)
MayAdvance(s, state) ==
  /\ Production(s).state = state
  /\ now < Production(s).expires
  /\ SourceStands(Production(s).of)
  /\ ChannelIsCurrent(s)
ApproveLines(s) == When(MayAdvance(s, "PROPOSED"), ToProduction(s, "APPROVED"))
ClaimLines(s) ==
  When(MayAdvance(s, "APPROVED"),
       Line("production", s, [Production(s) EXCEPT !.state = "CONSUMED", !.deadline = now + Ttl]))

(* ingestProductionReceipt: the outcome is the child's *)
IngestLines(s) ==
  IF Production(s).state = "CONSUMED" /\ ChannelIsCurrent(s) /\ now < Production(s).deadline
    THEN {ToProduction(s, outcome) : outcome \in Outcomes} ELSE {}

(* markProductionUnknown needs no proof of anybody *)
UnknownLines(s) == When(Production(s).state = "CONSUMED", ToProduction(s, "UNKNOWN"))

Lines(op) ==
  CASE op.kind = "create" -> CreateLines(op.id)
    [] op.kind \in {"ACCEPTED", "DECLINED"} -> DecideLines(op.id, op.kind)
    [] op.kind = "prepare" -> {}
    [] op.kind = "admit" -> AdmitLines(op.id)
    [] op.kind = "approve" -> ApproveLines(op.id)
    [] op.kind = "claim" -> ClaimLines(op.id)
    [] op.kind = "ingest" -> IngestLines(op.id)
    [] op.kind = "unknown" -> UnknownLines(op.id)

(* An operation of a session succeeds when its line is written; prepare only reads *)
Succeeds(op) == op.kind = "prepare" /\ SourceStands(session[op.id].of)

-----------------------------------------------------------------------------
(* The answer of an operation, and what the receiver does with it          *)

AfterCall ==
  [prepare |-> "prepared", admit |-> "admitted", approve |-> "approved",
   claim |-> "consumed", ingest |-> "done", unknown |-> "done"]
BeforeCall ==
  [prepare |-> "new", admit |-> "prepared", approve |-> "admitted",
   claim |-> "approved", ingest |-> "consumed", unknown |-> "consumed"]
Calls == DOMAIN AfterCall

(* Mutant: a session that is closed lowers nothing any more *)
LowersOpen(s, phase) == phase = "consumed" /\ ~session[s].lowering /\ ~session[s].closed

(* lower: once per session, and only between claim and report *)
Lowers(s, phase) == phase = "consumed" /\ ~session[s].lowering

(* The head of the queue is answered.  A call that was answered too late,  *)
(* or whose session was closed meanwhile, is refused, and lowered first.   *)
Answered(ok) ==
  LET op == Head1
      s == op.id
  IN IF op.kind \notin Calls
       THEN queue' = Tail(queue) /\ UNCHANGED <<session, wire>>
       ELSE LET phase == IF ok THEN AfterCall[op.kind] ELSE session[s].phase
                late == session[s].closed \/ ~Timely(s)
                lowers == Lowers(s, phase) /\ (IF ok THEN late ELSE session[s].closed)
            IN /\ queue' = Tail(queue) \o (IF lowers THEN <<Op("unknown", s)>> ELSE <<>>)
               /\ session' = [session EXCEPT ![s].phase = phase, ![s].lowering = @ \/ lowers]
               /\ wire' = IF wire[s] # "busy" \/ lowers THEN wire
                          ELSE [wire EXCEPT ![s] = IF session[s].closed THEN "cut"
                                                   ELSE IF ok /\ ~late THEN "ok" ELSE "no"]

(* #persist: the append starts ... *)
AppendStarts ==
  /\ Running
  /\ HasCapacity
  /\ \E line \in Lines(Head1) : writing' = line
  /\ UNCHANGED <<now, journal, lock, store, known, queue, active, session, wire, hosts, crashes, faults>>

(* ... or there is nothing to append, or no room *)
Answers ==
  /\ Running
  /\ Lines(Head1) = {} \/ ~HasCapacity
  /\ Answered(Succeeds(Head1))
  /\ UNCHANGED <<now, journal, lock, store, known, writing, active, hosts, crashes, faults>>

WholeLine ==
  /\ saved' = With(saved, writing)
  /\ entries' = entries + 1
  /\ UNCHANGED torn

AppendDone ==
  /\ writing # None
  /\ WholeLine
  /\ known' = With(known, writing)
  /\ writing' = None
  /\ IF store = "open" THEN Answered(TRUE) ELSE UNCHANGED <<queue, session, wire>>
  /\ UNCHANGED <<now, lock, store, active, hosts, crashes, faults>>

(* What an append that did not return leaves in the journal *)
Uncertain ==
  \/ UNCHANGED journal
  \/ WholeLine
  \/ torn' = TRUE /\ UNCHANGED <<saved, entries>>

(* The append or its fsync fails.  During start-up, open closes the handles *)
(* and leaves the lock file.                                               *)
AppendFails ==
  /\ writing # None /\ faults < MaxFault
  /\ faults' = faults + 1
  /\ Uncertain
  /\ writing' = None
  /\ IF store = "open"
       THEN store' = "faulted" /\ Answered(FALSE) /\ UNCHANGED known
       ELSE store' = "down" /\ known' = NoReceipts /\ UNCHANGED <<queue, session, wire>>
  /\ UNCHANGED <<now, lock, active, hosts, crashes>>

(* ready() refuses what is left in the queue of a faulted store *)
FaultedAnswers ==
  /\ store = "faulted" /\ queue # <<>> /\ Head1.kind # "close"
  /\ Answered(FALSE)
  /\ UNCHANGED <<now, journal, lock, store, known, writing, active, hosts, crashes, faults>>

-----------------------------------------------------------------------------
(* Start and end of the Bridge                                             *)

ProcessEnds ==
  /\ store' = "down" /\ known' = NoReceipts /\ queue' = <<>> /\ writing' = None /\ active' = None
  /\ session' = [s \in Sessions |-> IF host[s] = "off" THEN NoSession ELSE Ended]
  /\ wire' = [s \in Sessions |-> IF host[s] = "off" THEN "idle" ELSE "cut"]
  /\ host' = [s \in Sessions |-> IF host[s] = "asked" THEN "over" ELSE host[s]]

(* close removes the lock file, unless an append had failed *)
CloseStore ==
  /\ store \in {"open", "faulted"} /\ queue # <<>> /\ Head1.kind = "close"
  /\ lock' = (store = "faulted")
  /\ ProcessEnds
  /\ UNCHANGED <<now, journal, offer, executed, crashes, faults>>

Closing == \E i \in DOMAIN queue : queue[i].kind = "close"

(* The transport is closed before the store is *)
Shutdown ==
  /\ crashes < MaxCrash
  /\ store \in {"open", "faulted"} /\ ~Closing
  /\ active # None => session[active].closed
  /\ crashes' = crashes + 1
  /\ Queued(Op("close", None))
  /\ UNCHANGED <<now, journal, lock, store, known, writing, active, session, wire, hosts, faults>>

Crash ==
  /\ crashes < MaxCrash
  /\ store # "down"
  /\ crashes' = crashes + 1
  /\ IF writing = None THEN UNCHANGED journal ELSE Uncertain
  /\ ProcessEnds
  /\ UNCHANGED <<now, lock, offer, executed, faults>>

(* An abandoned lock file is removed by the operator, who has looked *)
OperatorRemovesLock ==
  /\ store = "down" /\ lock
  /\ lock' = FALSE
  /\ UNCHANGED <<now, journal, bridge, wire, hosts, crashes, faults>>

(* open: the lock file, the replay; a cut line is not repaired *)
Open ==
  /\ store = "down" /\ ~lock /\ ~torn
  /\ lock' = TRUE
  /\ store' = "recovering"
  /\ known' = saved
  /\ UNCHANGED <<now, journal, queue, writing, active, session, wire, hosts, crashes, faults>>

(* What start-up has to write: it lowers what an earlier process left *)
RecoveryLines ==
  LET lowered == {ToProduction(s, IF Production(s).state = "CONSUMED" THEN "UNKNOWN" ELSE "EXPIRED") :
                    s \in {s \in Sessions : Production(s).state \in {"PROPOSED", "APPROVED", "CONSUMED"}}}
  IN IF lowered # {} THEN lowered ELSE UNION {ExpireLines(r) : r \in Reviews}

Recovers ==
  /\ store = "recovering" /\ writing = None
  /\ \/ /\ HasCapacity
        /\ \E line \in RecoveryLines : writing' = line
        /\ UNCHANGED <<store, known, lock>>
     \/ /\ ~HasCapacity /\ RecoveryLines # {}
        /\ store' = "down" /\ known' = NoReceipts /\ lock' = FALSE
        /\ UNCHANGED writing
     \/ /\ RecoveryLines = {}
        /\ store' = "open"
        /\ UNCHANGED <<writing, known, lock>>
  /\ UNCHANGED <<now, journal, queue, active, session, wire, hosts, crashes, faults>>

-----------------------------------------------------------------------------
(* The tools                                                               *)

ReviewTool(r) ==
  /\ store = "open" /\ ~Closing /\ Len(queue) < MaxWait
  /\ \E kind \in {"create", "ACCEPTED", "DECLINED"} :
       /\ kind # "create" => Review(r).state # "none"
       /\ Queued(Op(kind, r))
  /\ UNCHANGED <<now, journal, lock, store, known, writing, active, session, wire, hosts, crashes, faults>>

(* The execution tool looks for an earlier attempt and at the review ... *)
ExecuteTool(s, r) ==
  /\ store = "open" /\ ~Closing
  /\ host[s] = "off"
  /\ \A t \in Sessions : t < s => host[t] # "off"
  /\ SourceStands(r)
  /\ \A t \in Sessions : Production(t).of # r
  /\ host' = [host EXCEPT ![s] = "asked"]
  /\ session' = [session EXCEPT ![s].of = r]
  /\ UNCHANGED <<now, journal, lock, store, known, queue, writing, active, wire, offer, executed, crashes, faults>>

(* ... and then asks the transport, which has one session at a time *)
Inspect(s) ==
  /\ store \in {"open", "faulted"}
  /\ host[s] = "asked"
  /\ now + Ttl <= MaxTime
  /\ IF active # None \/ Closing
       THEN /\ host' = [host EXCEPT ![s] = "over"]
            /\ session' = [session EXCEPT ![s] = Ended]
            /\ wire' = [wire EXCEPT ![s] = "cut"]
            /\ UNCHANGED active
       ELSE /\ active' = s
            /\ session' = [session EXCEPT ![s].begun = now]
            /\ host' = [host EXCEPT ![s] = "prepare"]
            /\ wire' = [wire EXCEPT ![s] = "sent"]
  /\ UNCHANGED <<now, journal, lock, store, known, queue, writing, offer, executed, crashes, faults>>

(* receive: a call out of its phase or out of time is refused *)
Receive(s) ==
  /\ active = s /\ wire[s] = "sent"
  /\ IF Timely(s) /\ session[s].phase = BeforeCall[host[s]]
       THEN /\ Queued(Op(host[s], s))
            /\ session' = [session EXCEPT ![s].lowering = @ \/ host[s] = "unknown"]
            /\ wire' = [wire EXCEPT ![s] = "busy"]
       ELSE /\ wire' = [wire EXCEPT ![s] = "no"]
            /\ UNCHANGED <<queue, session>>
  /\ UNCHANGED <<now, journal, lock, store, known, writing, active, hosts, crashes, faults>>

(* The helper ends, the timer fires, a call was refused or the exchange is *)
(* complete: the receiver is closed, and lowers what was claimed.          *)
EndSession(s) ==
  /\ active = s /\ ~session[s].closed
  /\ LET lowers == Lowers(s, session[s].phase)
     IN /\ session' = [session EXCEPT ![s].closed = TRUE, ![s].lowering = @ \/ lowers]
        /\ queue' = queue \o (IF lowers THEN <<Op("unknown", s)>> ELSE <<>>)
  /\ wire' = [wire EXCEPT ![s] = IF @ = "busy" THEN @ ELSE "cut"]
  /\ UNCHANGED <<now, journal, lock, store, known, writing, active, hosts, crashes, faults>>

Due(s) == wire[s] = "no" \/ ~Timely(s) \/ host[s] = "over"

SessionIsOver(s) ==
  /\ active = s /\ session[s].closed /\ wire[s] # "busy"
  /\ \A i \in DOMAIN queue : queue[i].id # s
  /\ active' = None
  /\ session' = [session EXCEPT ![s] = Ended]
  /\ wire' = [wire EXCEPT ![s] = "cut"]
  /\ UNCHANGED <<now, journal, lock, store, known, queue, writing, hosts, crashes, faults>>

-----------------------------------------------------------------------------
(* The host process                                                        *)

HostUnchanged == UNCHANGED <<now, journal, lock, bridge, executed, crashes, faults>>

HostLeaves(s) ==
  /\ host' = [host EXCEPT ![s] = "over"]
  /\ offer' = [offer EXCEPT ![s] = 0]
  /\ wire' = [wire EXCEPT ![s] = IF @ = "busy" THEN @ ELSE "cut"]

(* Rpc.Call: the host makes its next call while its channel and its session stand *)
HostCalls(s, call) ==
  IF wire[s] # "cut" /\ Timely(s)
    THEN /\ host' = [host EXCEPT ![s] = call]
         /\ wire' = [wire EXCEPT ![s] = "sent"]
         /\ offer' = [offer EXCEPT ![s] = IF call = "admit" THEN now + Ttl ELSE @]
    ELSE HostLeaves(s)

(* DirectRequestAuthority.Require: a request that expires with its review at the latest *)
HostOffers(s) ==
  /\ host[s] = "prepare" /\ wire[s] = "ok"
  /\ IF now + Ttl <= saved.review[session[s].of].expires
       THEN HostCalls(s, "admit") ELSE HostLeaves(s)
  /\ HostUnchanged

(* Dispatch: admit, decide, claim, and what follows the last call *)
HostAnswered(s) ==
  /\ wire[s] = "ok" /\ host[s] \in Calls \ {"prepare"}
  /\ CASE host[s] = "admit" -> HostCalls(s, "approve")
       [] host[s] = "approve" -> HostCalls(s, "claim")
       [] host[s] = "claim" -> /\ host' = [host EXCEPT ![s] = "claimed"]
                               /\ wire' = [wire EXCEPT ![s] = "idle"]
                               /\ UNCHANGED offer
       [] host[s] \in {"ingest", "unknown"} -> HostLeaves(s)
  /\ HostUnchanged

(* A refused call, or a channel that broke: the host does not repeat it.  A *)
(* refused report is followed by one attempt to say that nobody knows, on   *)
(* a channel the transport no longer reads.                                 *)
HostGivesUp(s) ==
  /\ host[s] \in Calls /\ wire[s] \in {"no", "cut"}
  /\ host' = [host EXCEPT ![s] = "over"]
  /\ offer' = [offer EXCEPT ![s] = 0]
  /\ UNCHANGED wire
  /\ HostUnchanged

(* ExecuteAuthorized: Validate, then the script is handed to the child *)
HostExecutes(s) ==
  /\ host[s] = "claimed"
  /\ now < offer[s] /\ now < saved.production[s].deadline
  /\ host' = [host EXCEPT ![s] = "running"]
  /\ executed' = [executed EXCEPT ![s] = TRUE]
  /\ UNCHANGED <<now, journal, lock, bridge, wire, offer, crashes, faults>>

(* Validate or a step before or after the child ran fails *)
HostFails(s) ==
  /\ host[s] \in {"claimed", "running"}
  /\ HostCalls(s, "unknown")
  /\ HostUnchanged

HostFinishes(s) ==
  /\ host[s] = "running"
  /\ HostCalls(s, "ingest")
  /\ HostUnchanged

(* The host process ends, and its job with the child *)
HostDies(s) ==
  /\ host[s] \notin {"off", "asked", "over"}
  /\ HostLeaves(s)
  /\ HostUnchanged

Tick ==
  /\ now < MaxTime
  /\ now' = now + 1
  /\ UNCHANGED <<journal, lock, bridge, wire, hosts, crashes, faults>>

-----------------------------------------------------------------------------

Init ==
  /\ now = 0
  /\ saved = NoReceipts /\ entries = 0 /\ torn = FALSE /\ lock = FALSE
  /\ store = "down" /\ known = NoReceipts /\ queue = <<>> /\ writing = None /\ active = None
  /\ session = [s \in Sessions |-> NoSession]
  /\ wire = [s \in Sessions |-> "idle"]
  /\ host = [s \in Sessions |-> "off"]
  /\ offer = [s \in Sessions |-> 0]
  /\ executed = [s \in Sessions |-> FALSE]
  /\ crashes = 0 /\ faults = 0

StoreNext == AppendStarts \/ Answers \/ AppendDone \/ AppendFails \/ FaultedAnswers
LifeNext == CloseStore \/ Shutdown \/ Crash \/ OperatorRemovesLock \/ Open \/ Recovers
SessionNext(s) == Inspect(s) \/ Receive(s) \/ EndSession(s) \/ SessionIsOver(s)
HostNext(s) ==
  \/ HostOffers(s) \/ HostAnswered(s) \/ HostGivesUp(s) \/ HostExecutes(s)
  \/ HostFails(s) \/ HostFinishes(s) \/ HostDies(s)

Next ==
  \/ StoreNext \/ LifeNext \/ Tick
  \/ \E r \in Reviews : ReviewTool(r)
  \/ \E s \in Sessions : SessionNext(s) \/ HostNext(s) \/ \E r \in Reviews : ExecuteTool(s, r)

(* The clock goes on, the store's queue is worked off, a session that is   *)
(* due is ended by the timer or the helper's exit.  No process has to      *)
(* start, no tool has to be called and the host owes nothing.              *)
Fairness ==
  /\ WF_vars(Tick)
  /\ WF_vars(AppendStarts \/ Answers \/ AppendDone \/ CloseStore)
  /\ \A s \in Sessions : WF_vars(EndSession(s) /\ Due(s))

Spec == Init /\ [][Next]_vars /\ Fairness

-----------------------------------------------------------------------------

(* Every variable stays in its range.                                      *)
TypeOK ==
  /\ now \in 0 .. MaxTime
  /\ saved \in Receipts /\ entries \in 0 .. MaxEntries /\ torn \in BOOLEAN /\ lock \in BOOLEAN
  /\ store \in {"down", "recovering", "open", "faulted"}
  /\ known \in Receipts
  /\ active \in Sessions \cup {None}
  /\ host \in [Sessions -> Calls \cup {"off", "asked", "claimed", "running", "over"}]
  /\ wire \in [Sessions -> {"idle", "sent", "busy", "ok", "no", "cut"}]
  /\ offer \in [Sessions -> Nat]
  /\ executed \in [Sessions -> BOOLEAN]

(* What was claimed is given up when the session that claimed it is over:  *)
(* no claim of an ended session is left CONSUMED in an open store that can *)
(* still write, whether the claim's answer, the report or the channel was  *)
(* lost (host-receiver.ts, lower; store.ts, open).                         *)
NoClaimIsLeft ==
  \A s \in Sessions :
    store = "open" /\ HasCapacity /\ active # s => known.production[s].state # "CONSUMED"

(* A durable claim is settled in time, unless the store leaves or is full: *)
(* the session's timer ends what the host does not.                        *)
ConsumedIsSettled ==
  \A s \in Sessions :
    saved.production[s].state = "CONSUMED" /\ store = "open"
      ~> saved.production[s].state # "CONSUMED" \/ store # "open" \/ ~HasCapacity

(* The receipt a review has in the journal *)
AttemptsOf(r) == {s \in Sessions : saved.production[s].of = r}
AttemptReceipt ==
  [CONSUMED |-> "intent", SUCCEEDED |-> "succeeded", FAILED |-> "failed", UNKNOWN |-> "unknown",
   PROPOSED |-> "asked", APPROVED |-> "allowed", EXPIRED |-> "refused"]
ReviewReceipt ==
  [none |-> "none", PENDING |-> "asked", ACCEPTED |-> "asked", DECLINED |-> "refused", EXPIRED |-> "refused"]

ReceiptOf(r) ==
  LET review == ReviewReceipt[saved.review[r].state]
      attempts == {AttemptReceipt[saved.production[s].state] : s \in AttemptsOf(r)}
  IN IF attempts = {} \/ (review = "refused" /\ attempts \subseteq {"asked", "allowed"})
       THEN review ELSE CHOOSE receipt \in attempts : TRUE

ExecutionsOf(r) == Cardinality({s \in AttemptsOf(r) : executed[s]})

(* The store, the transport and the host together execute a review once at *)
(* most, after the claim has become durable and never once it was refused, *)
(* and report only what was executed, through every crash and lost answer. *)
Promise ==
  INSTANCE OneExecution WITH Requests <- Reviews,
    receipt <- [r \in Reviews |-> ReceiptOf(r)],
    executions <- [r \in Reviews |-> ExecutionsOf(r)]
ExecutedOnce == Promise!Spec
=============================================================================
