--------------------------- MODULE BridgeLifecycle ---------------------------
(***************************************************************************)
(* The life of one Bridge after another: the work it admits, the App       *)
(* Server it starts for it, and the two ways it is ended with good         *)
(* manners, the cooperative shutdown of the local controller and the       *)
(* reload asked for from afar (codex_bridge/src/cooperative-shutdown.ts,   *)
(* http-server.ts, runtime.ts, http-main.ts, the fence in job-store.ts,    *)
(* codex_bridge/scripts/codex-bridge-runtime.psm1).                        *)
(*                                                                         *)
(* It composes AppServerClient, the child every piece of work needs, and   *)
(* SelfReload, the owner and the fence.  A piece of work is a tool call    *)
(* that asks the App Server something: a reading one at once, one that     *)
(* starts a turn when the job store has admitted it, under the queue the   *)
(* fence is set in.  The client of a tool call may leave while it runs:    *)
(* its HTTP request is over then and the tool call is not.                 *)
(***************************************************************************)
EXTENDS AppServerClient, SelfReload

CONSTANTS
  Turns,   \* the calls that start a turn
  Operator,\* who uses the local controller
  Crowds   \* the calls, requests and users that come in one behaviour (bounds the model)

ASSUME BridgeLifecycleAssumption ==
  /\ Turns \subseteq Calls
  /\ Crowds \subseteq SUBSET (Calls \cup Requests \cup {Operator})

VARIABLES
  http,    \* the HTTP request of each call: "none", "open" or "left"
  active,  \* the calls the job store has admitted: their job is active
  shut,    \* closeIdleRuntime: "none", "begin", "check", "release", "closing", "over"
  verdict, \* what its asker was told: "none", "closed", "active", "unknown"
  asker,   \* who that is: "nobody", "operator" or "owner"
  strays,  \* calls that asked for the App Server after the HTTP server closed
  crowd    \* who comes in this behaviour

work == <<http, active, strays, crowd>>
shutdown == <<shut, verdict, asker>>
vars == <<appServer, reloadVars, work, shutdown>>

TypeOK ==
  /\ AppServerTypeOK /\ SelfReloadTypeOK
  /\ http \in [Calls -> {"none", "open", "left"}]
  /\ active \subseteq Turns /\ strays \subseteq Calls
  /\ shut \in {"none", "begin", "check", "release", "closing", "over"}
  /\ verdict \in {"none", "closed", "active", "unknown"}
  /\ asker \in {"nobody", "operator", "owner"}

Init ==
  /\ AppServerInit /\ SelfReloadInit
  /\ http = [q \in Calls |-> "none"] /\ active = {} /\ strays = {}
  /\ shut = "none" /\ verdict = "none" /\ asker = "nobody"
  /\ crowd \in Crowds

(*************************************************************************)
(* The work                                                              *)
(*************************************************************************)
Arrives(q) ==
  /\ q \in crowd /\ alive /\ accepting
  /\ http[q] = "none" /\ call[q] = "idle"
  /\ http' = [http EXCEPT ![q] = "open"]
  /\ UNCHANGED <<appServer, reloadVars, active, strays, crowd, shutdown>>

ClientLeaves(q) ==
  /\ http[q] = "open"
  /\ http' = [http EXCEPT ![q] = "left"]
  /\ UNCHANGED <<appServer, reloadVars, active, strays, crowd, shutdown>>

(* create, append, prepare and import: under the queue of the job store *)
Admitted(q) ==
  /\ q \in Turns \ active /\ http[q] # "none" /\ call[q] = "idle"
  /\ fence = NoRequest
  /\ active' = active \cup {q}
  /\ UNCHANGED <<appServer, reloadVars, http, strays, crowd, shutdown>>

Draining(q) ==
  /\ q \in Turns \ active /\ http[q] # "none" /\ call[q] = "idle"
  /\ fence # NoRequest
  /\ http' = [http EXCEPT ![q] = "none"]
  /\ UNCHANGED <<appServer, reloadVars, active, strays, crowd, shutdown>>

AsksAppServer(q) ==
  /\ http[q] # "none" /\ (q \in Turns => q \in active)
  /\ Ask(q)
  /\ strays' = IF accepting THEN strays ELSE strays \cup {q}
  /\ UNCHANGED <<reloadVars, http, active, crowd, shutdown>>

(* The tool call returns and, if it started a turn, the turn is over *)
Settles(q) ==
  /\ call[q] \in {"answered", "failed"}
  /\ http' = [http EXCEPT ![q] = "none"]
  /\ active' = active \ {q}
  /\ call' = [call EXCEPT ![q] = "idle"]
  /\ UNCHANGED <<child, status, closing, start, proc, unheard, forgotten, link>>
  /\ UNCHANGED <<reloadVars, strays, crowd, shutdown>>

AppServerStep ==
  /\ \/ SpawnFails /\ Fault
     \/ HandshakeFails /\ Fault
     \/ \E c \in Children :
          \/ Dies(c) /\ IF proc[c] = "live" /\ ~closing THEN Fault ELSE UNCHANGED faults
          \/ ExitHandled(c) /\ UNCHANGED faults
     \/ (Spawns \/ HandshakeDone) /\ UNCHANGED faults
     \/ \E q \in Calls : Answers(q) /\ UNCHANGED faults
     \/ \E q \in Calls : CallTimesOut(q) /\ Fault
  /\ UNCHANGED <<owner, bridge, work, shutdown>>

(* What /health shows and what drainAndClose looks at *)
NoActiveWork == active = {} /\ status \in {"idle", "ready"}
IsIdle == accepting /\ \A q \in Calls : http[q] # "open"

(*************************************************************************)
(* The receiver of the cooperative shutdown: closeIdleRuntime.  The      *)
(* controller's mutex keeps the operator away while the owner reloads.   *)
(*************************************************************************)
Mutex(who) ==
  \/ who = "operator" /\ Operator \in crowd /\ stage \notin {"stop", "start", "check"}
  \/ who = "owner" /\ stage = "stop" /\ asker # "owner"

(* The controller looks at the health, then asks *)
MayAsk(who) ==
  /\ alive /\ accepting /\ NoActiveWork
  /\ shut = "none" /\ Mutex(who)

ShutdownRefused(who) ==
  /\ MayAsk(who) /\ fence # NoRequest
  /\ verdict' = "active" /\ asker' = who
  /\ UNCHANGED <<appServer, reloadVars, work, shut>>

ShutdownBegins(who) ==
  /\ MayAsk(who) /\ fence = NoRequest
  /\ shut' = "begin" /\ verdict' = "none" /\ asker' = who
  /\ UNCHANGED <<appServer, reloadVars, work>>

(* beginSelfReload, in its turn in the queue of the job store *)
DrainBegins ==
  /\ shut = "begin"
  /\ IF fence = NoRequest
       THEN /\ fence' = Stop
            /\ shut' = IF verdict = "unknown" THEN "over" ELSE "check"
            /\ UNCHANGED verdict
       ELSE /\ shut' = "over" /\ verdict' = "unknown"
            /\ UNCHANGED fence
  /\ UNCHANGED <<appServer, owner, process, client, faults, work, asker>>

DrainFindsIdle ==
  /\ shut = "check" /\ IsIdle /\ NoActiveWork
  /\ accepting' = FALSE
  /\ shut' = "closing"
  /\ UNCHANGED <<appServer, owner, pid, alive, fence, client, faults, work, verdict, asker>>

DrainFindsWork ==
  /\ shut = "check" /\ ~(IsIdle /\ NoActiveWork)
  /\ shut' = "release"
  /\ UNCHANGED <<appServer, reloadVars, work, verdict, asker>>

(* endSelfReload, in its turn: not when the asker was told UNKNOWN *)
DrainReleases ==
  /\ shut = "release" /\ verdict # "unknown"
  /\ fence' = NoRequest
  /\ shut' = "none" /\ verdict' = "active"
  /\ UNCHANGED <<appServer, owner, process, client, faults, work, asker>>

DrainKept ==
  /\ shut = "release" /\ verdict = "unknown"
  /\ shut' = "over"
  /\ UNCHANGED <<appServer, reloadVars, work, verdict, asker>>

(* http.close, last of all runtime.close: the poll, then the controller *)
RuntimeCloses ==
  /\ shut = "closing"
  /\ Close
  /\ polling' = FALSE
  /\ UNCHANGED <<owner, process, fence, approval, resolving, late, faults, work, shutdown>>

RuntimeCloseTimesOut ==
  /\ CloseTimesOut /\ Fault
  /\ UNCHANGED <<owner, bridge, work, shutdown>>

CloseEnds ==
  /\ shut = "closing" /\ closer \in {"closed", "unknown"}
  /\ shut' = "over"
  /\ verdict' = IF verdict = "none" THEN closer ELSE verdict
  /\ UNCHANGED <<appServer, reloadVars, work, asker>>

(* waitForClose: the observation ends, what it observed goes on *)
DrainTimesOut ==
  /\ shut \in {"begin", "check", "release", "closing"} /\ verdict = "none" /\ Fault
  /\ verdict' = "unknown"
  /\ UNCHANGED <<appServer, owner, bridge, work, shut, asker>>

(*************************************************************************)
(* The end of a process and the start of the next.  A controller that    *)
(* waits for an answer of the owner's reload knows it has asked.         *)
(*************************************************************************)
ProcessGone ==
  /\ alive' = FALSE
  /\ BridgeForgets
  /\ http' = [q \in Calls |-> "none"] /\ active' = {} /\ strays' = {}
  /\ child' = NoChild /\ status' = "idle" /\ closing' = FALSE /\ start' = "none"
  /\ proc' = [c \in Children |-> "none"] /\ unheard' = {} /\ forgotten' = {}
  /\ call' = [q \in Calls |-> "idle"] /\ sentTo' = [q \in Calls |-> NoChild]
  /\ closer' = "none" /\ ending' = NoChild
  /\ shut' = "none"
  /\ IF stage = "stop" THEN UNCHANGED <<verdict, asker>> ELSE verdict' = "none" /\ asker' = "nobody"
  /\ UNCHANGED <<owner, pid, accepting, crowd>>

(* Nothing is left for the event loop to wait for *)
Exits ==
  /\ alive /\ shut = "over" /\ ~accepting /\ start = "none"
  /\ \A c \in Children : proc[c] \notin {"live", "killed"}
  /\ ProcessGone
  /\ UNCHANGED faults

Crashes == alive /\ ProcessGone /\ UNCHANGED faults

BridgeUp ==
  /\ ~alive /\ pid < MaxPid
  /\ pid' = pid + 1 /\ alive' = TRUE /\ accepting' = TRUE
  /\ UNCHANGED <<appServer, fence, client, work, shutdown>>

OperatorStarts ==
  /\ Mutex("operator")
  /\ BridgeUp
  /\ UNCHANGED <<owner, faults>>

(*************************************************************************)
(* reload_runtime, as the owner invokes it: Stop-CbOwnedRole and         *)
(* Start-CbServer, then the postcheck                                    *)
(*************************************************************************)
ReloadFails ==
  /\ \/ stage = "stop" /\ alive /\ asker # "owner" /\ ~(accepting /\ NoActiveWork)
     \/ stage = "stop" /\ alive /\ asker # "owner" /\ shut = "over"
     \/ stage = "stop" /\ asker = "owner" /\ verdict # "closed" /\ (verdict = "none" => ~alive)
     \/ stage = "check" /\ ~alive
  /\ Ends("unknown")
  /\ asker' = "nobody" /\ verdict' = IF alive THEN verdict ELSE "none"
  /\ UNCHANGED <<appServer, target, expired, executions, bridge, work, shut>>

ReloadFindsStopped ==
  /\ stage = "stop" /\ ~alive /\ (asker = "owner" => verdict = "closed")
  /\ stage' = "start"
  /\ asker' = "nobody" /\ verdict' = "none"
  /\ UNCHANGED <<appServer, receipt, target, expired, ownerUp, job, executions, bridge, faults, work, shut>>

ReloadStarts ==
  /\ stage = "start"
  /\ BridgeUp
  /\ stage' = "check"
  /\ UNCHANGED <<receipt, target, expired, ownerUp, job, executions, faults>>

ReloadCompletes ==
  /\ stage = "check" /\ alive /\ accepting /\ pid # target[job]
  /\ Ends("completed")
  /\ UNCHANGED <<appServer, target, expired, executions, bridge, work, shutdown>>

OwnerTicks ==
  /\ \/ \E r \in Requests :
          \/ Expires(r) \/ TickExpires(r) \/ TickRefuses(r)
          \/ TickDispatches(r, NoActiveWork)
     \/ TickRuns \/ TickInvokes(NoActiveWork) \/ TickTurnsBack(NoActiveWork)
     \/ OwnerCrashes \/ OwnerRestarts
  /\ UNCHANGED <<appServer, work, shutdown>>

Messages ==
  /\ \/ \E r \in Requests :
          \/ r \in crowd /\ Request(r)
          \/ AsksReceipt(r) \/ ReceiptAnswered(r) \/ ReceiptLost(r) \/ Fences(r)
          \/ ApprovalRefused(r) \/ ApprovalAnswered(r) \/ ApprovalLost(r) \/ ApprovalBreaksOwner(r)
          \/ ResolveAnswered(r) \/ ResolveLost(r) \/ ResolveBreaksOwner(r) \/ ReceiptShown(r)
     \/ Polls \/ LateServed
  /\ UNCHANGED <<appServer, work, shutdown>>

Working ==
  \E q \in Calls :
    \/ Arrives(q) \/ ClientLeaves(q) \/ Admitted(q) \/ Draining(q)
    \/ AsksAppServer(q) \/ Settles(q)

Shutting ==
  \/ \E who \in {"operator", "owner"} : ShutdownRefused(who) \/ ShutdownBegins(who)
  \/ DrainBegins \/ DrainFindsIdle \/ DrainFindsWork \/ DrainReleases \/ DrainKept
  \/ RuntimeCloses \/ RuntimeCloseTimesOut \/ CloseEnds \/ DrainTimesOut

Replacing ==
  \/ Exits \/ Crashes \/ OperatorStarts
  \/ ReloadFails \/ ReloadFindsStopped \/ ReloadStarts \/ ReloadCompletes

Next == Working \/ AppServerStep \/ Messages \/ OwnerTicks \/ Shutting \/ Replacing

(* The owner is started again and carries on what it is at; it takes the   *)
(* messages that wait, or they are given up; the poll finds a moment at    *)
(* which nobody approves.                                                  *)
OwnerWorks ==
  \/ ReloadFails \/ ReloadFindsStopped \/ ReloadStarts \/ ReloadCompletes
  \/ ShutdownRefused("owner") \/ ShutdownBegins("owner")
  \/ /\ TickRuns \/ TickInvokes(NoActiveWork) \/ TickTurnsBack(NoActiveWork) \/ OwnerRestarts
     /\ UNCHANGED <<appServer, work, shutdown>>

BridgePolls == Polls /\ UNCHANGED <<appServer, work, shutdown>>

ApprovalGoesOn(r) ==
  /\ \/ ReceiptAnswered(r) \/ ReceiptLost(r) \/ Fences(r)
     \/ ApprovalAnswered(r) \/ ApprovalRefused(r) \/ ApprovalLost(r)
  /\ UNCHANGED <<appServer, work, shutdown>>

ResolveGoesOn(r) ==
  /\ ResolveAnswered(r) \/ ResolveLost(r)
  /\ UNCHANGED <<appServer, work, shutdown>>

Fairness ==
  /\ WF_vars(OwnerWorks)
  /\ SF_vars(BridgePolls)
  /\ \A r \in Requests : WF_vars(ApprovalGoesOn(r)) /\ WF_vars(ResolveGoesOn(r))

Spec == Init /\ [][Next]_vars /\ Fairness

(*************************************************************************)
(* Properties                                                            *)
(*************************************************************************)
(* A reload that was allowed and has not ended well, of a Bridge that still *)
(* runs, keeps that Bridge's fence: no answer that is lost or late, no poll *)
(* and no other request or shutdown opens it for new work                   *)
(* (self-reload/client.ts, call and reconcile; job-store.ts, endSelfReload).*)
ApprovedIsFenced ==
  \A r \in Requests :
    receipt[r] \in {"approved", "dispatching", "running", "unknown"} /\ target[r] = pid /\ alive
      => fence = r

(* Who is told CLOSED may replace the process: the Bridge that has answered *)
(* so has no active job and no App Server that it has not forgotten, and is *)
(* starting none, unless a tool call whose client has left asks for one     *)
(* after the HTTP server closed (cooperative-shutdown.ts, drainAndClose;    *)
(* app-server-client.ts).                                                   *)
ClosedIsQuiet ==
  verdict = "closed" /\ strays = {} =>
    active = {} /\ start = "none" /\ Running = {}

(* There is one App Server at a time and a Bridge that has closed has none: *)
(* no process is left that nobody would end but the one whose place the     *)
(* late exit of another cleared (OneIsShared tells of that).                *)
AppServerIsKnown == OneAppServer /\ ClosedIsQuiet

(* A shutdown whose outcome is unknown to its asker admits no work again    *)
(* ("a timeout or lost acknowledgement must never re-enable new work").     *)
UnknownStaysClosed ==
  [][verdict = "unknown" /\ fence = Stop /\ alive' => fence' = Stop]_vars

(* The Bridge refuses work for a reload only as long as the reload may      *)
(* come: once its receipt says that it failed or is done the fence is       *)
(* taken down, through lost messages and the owner's restarts, or the       *)
(* Bridge is replaced (the poll of self-reload/client.ts).                  *)
FenceIsReleased ==
  \A r \in Requests : fence = r /\ receipt[r] \in Over ~> fence # r

(* The receipt as OneExecution has it *)
Receipt(r) ==
  CASE receipt[r] = "none" -> "none"
    [] receipt[r] = "accepted" -> "asked"
    [] receipt[r] = "approved" -> "allowed"
    [] receipt[r] = "failed" -> "refused"
    [] receipt[r] \in {"dispatching", "running"} -> "intent"
    [] receipt[r] = "completed" -> "succeeded"
    [] receipt[r] = "unknown" -> "unknown"

(* A request reloads the Bridge once at most, after it was approved and its *)
(* intent is on the disk; an owner that died of it never tries again, and   *)
(* only a reload that was invoked is reported done (Invoke-R1Tick,          *)
(* New-R1Engine).                                                           *)
Once == INSTANCE OneExecution WITH receipt <- [r \in Requests |-> Receipt(r)]
ExecutedOnce == Once!Spec

(* docs/RemoteSelfReloadR1.md: an approved request waits for idle work and  *)
(* is then delegated to the existing controller; `unknown' is for what was  *)
(* interrupted.  Without a fault a reload that leaves the Bridge running    *)
(* would not be unknown.                                                    *)
UnknownHasACause ==
  \A r \in Requests : receipt[r] = "unknown" /\ alive /\ target[r] = pid => faults # 0 \/ r \in expired
=============================================================================
