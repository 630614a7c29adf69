----------------------------- MODULE SelfReload -----------------------------
(***************************************************************************)
(* A reload of the Bridge that is asked for from afar: the owner           *)
(* (mcp_control_center/src/McpControlCenter.SelfReload.psm1 and            *)
(* .SelfReload.Owner.psm1) keeps the receipts and executes, the Bridge     *)
(* (codex_bridge/src/self-reload/client.ts) carries the messages and holds *)
(* the fence of the job store, which refuses new work.                     *)
(*                                                                         *)
(* The owner is one thread: it serves a message or ticks.  A receipt is    *)
(* saved whenever it changes; a save that fails ends the owner, and may    *)
(* have reached the disk.  A message from the Bridge reaches the owner or  *)
(* not, its answer comes back or not, and a message the Bridge gave up may *)
(* still be served later, as long as that Bridge lives.                    *)
(*                                                                         *)
(* Digests, signatures, texts and the clock are left out: an assertion is  *)
(* good or not, a receipt has expired or not.                              *)
(***************************************************************************)
EXTENDS Naturals, FiniteSets

CONSTANTS
  Requests,   \* what is asked for, each under its own key, numbered as they are asked
  NoRequest,
  Stop,       \* the request id of a cooperative shutdown
  MaxPid,     \* Bridge processes started (bounds the model)
  MaxFaults   \* failed saves, lost messages, the owner's crashes (bounds the model)

ASSUME SelfReloadAssumption ==
  /\ Requests \subseteq Nat
  /\ NoRequest \notin Requests /\ Stop \notin Requests \cup {NoRequest}
  /\ MaxPid \in Nat \ {0} /\ MaxFaults \in Nat

VARIABLES
  receipt,    \* receipts.json: the state of each receipt
  target,     \* oldPid: the Bridge each receipt is about
  expired,    \* the receipts whose expiresAt has passed
  ownerUp,    \* the owner loop runs
  job,        \* the receipt Invoke-R1Tick executes, or NoRequest
  stage,      \* how far: "none", "run", "execute", "stop", "start", "check"
  executions, \* how often reload_runtime was invoked for each receipt
  pid,        \* the Bridge process, counted
  alive,      \* it runs
  accepting,  \* its HTTP server admits requests
  fence,      \* selfReloadLease: the request id it is for, or NoRequest
  polling,    \* the poll timer is set
  approval,   \* call("approve") of each receipt: "none", "asking", "checked", "sent"
  resolving,  \* the receipts whose `resolve' is under way
  late,       \* messages given up, not served
  faults

owner == <<receipt, target, expired, ownerUp, job, stage, executions>>
client == <<polling, approval, resolving, late>>
process == <<pid, alive, accepting>>
bridge == <<process, fence, client>>
reloadVars == <<owner, bridge, faults>>

States == {"none", "accepted", "approved", "dispatching", "running", "completed", "failed", "unknown"}
(* Mutant: a receipt that is unknown is done with *)
OverOrUnknown == {"failed", "completed", "unknown"}

Over == {"failed", "completed"}
Approving == {r \in Requests : approval[r] # "none"}

SelfReloadTypeOK ==
  /\ receipt \in [Requests -> States]
  /\ target \in [Requests -> 0..MaxPid]
  /\ expired \subseteq Requests
  /\ ownerUp \in BOOLEAN
  /\ job \in Requests \cup {NoRequest}
  /\ stage \in {"none", "run", "execute", "stop", "start", "check"}
  /\ executions \in [Requests -> Nat]
  /\ pid \in 1..MaxPid /\ alive \in BOOLEAN /\ accepting \in BOOLEAN
  /\ fence \in Requests \cup {NoRequest, Stop}
  /\ polling \in BOOLEAN
  /\ approval \in [Requests -> {"none", "asking", "checked", "sent"}]
  /\ resolving \subseteq Requests
  /\ late \subseteq {"approve", "resolve"} \X Requests
  /\ faults \in 0..MaxFaults

SelfReloadInit ==
  /\ receipt = [r \in Requests |-> "none"] /\ target = [r \in Requests |-> 0]
  /\ expired = {} /\ ownerUp = TRUE
  /\ job = NoRequest /\ stage = "none" /\ executions = [r \in Requests |-> 0]
  /\ pid = 1 /\ alive = TRUE /\ accepting = TRUE /\ fence = NoRequest
  /\ polling = FALSE /\ approval = [r \in Requests |-> "none"]
  /\ resolving = {} /\ late = {}
  /\ faults = 0

Fault == faults < MaxFaults /\ faults' = faults + 1

(*************************************************************************)
(* Set-R1State.  `changed' is what it leaves to be saved.                *)
(*************************************************************************)
Saved(changed) ==
  /\ receipt' = changed
  /\ UNCHANGED <<ownerUp, faults>>

SaveFails(changed) ==
  /\ changed # receipt
  /\ receipt' \in {receipt, changed}
  /\ ownerUp' = FALSE
  /\ Fault

Set(r, state) == [receipt EXCEPT ![r] = state]
Save(r, state) == Saved(Set(r, state)) \/ SaveFails(Set(r, state))

(*************************************************************************)
(* What the owner makes of a message (Invoke-R1Message)                  *)
(*************************************************************************)
Approved(r) == IF receipt[r] = "accepted" THEN Set(r, "approved") ELSE receipt
Resolved(r) == IF receipt[r] = "accepted" THEN Set(r, "failed") ELSE receipt

Busy == \E r \in Requests :
          receipt[r] \in {"accepted", "approved", "dispatching", "running", "unknown"}

(* The owner takes messages between ticks, from the Bridge it has seen in  *)
(* good health only                                                        *)
Serves == ownerUp /\ stage = "none" /\ alive /\ accepting

(* One reload at a time, about the Bridge that runs *)
Request(r) ==
  /\ Serves
  /\ receipt[r] = "none" /\ ~Busy
  /\ \A before \in Requests : before < r => receipt[before] # "none"
  /\ Save(r, "accepted")
  /\ target' = [target EXCEPT ![r] = pid]
  /\ UNCHANGED <<expired, job, stage, executions, bridge>>

(* A message does not get through: nobody hears whether it was served.  It  *)
(* may be served later if there was somebody to send it to.                *)
Unheard(message) ==
  \/ ~ownerUp /\ UNCHANGED <<late, faults>>
  \/ ownerUp /\ Fault /\ late' = late \cup message

(*************************************************************************)
(* SelfReloadClient.call("approve")                                      *)
(*************************************************************************)
Release(r) == fence' = IF fence = r THEN NoRequest ELSE fence

AsksReceipt(r) ==
  /\ alive /\ accepting /\ receipt[r] # "none" /\ approval[r] = "none"
  /\ approval' = [approval EXCEPT ![r] = "asking"]
  /\ UNCHANGED <<owner, process, fence, polling, resolving, late, faults>>

(* A receipt that is neither accepted nor approved is handed back at once *)
ReceiptAnswered(r) ==
  /\ Serves /\ approval[r] = "asking"
  /\ approval' = [approval EXCEPT ![r] =
       IF receipt[r] \in {"accepted", "approved"} /\ r \notin expired THEN "checked" ELSE "none"]
  /\ UNCHANGED <<owner, process, fence, polling, resolving, late, faults>>

ReceiptLost(r) ==
  /\ approval[r] = "asking" /\ Unheard({})
  /\ approval' = [approval EXCEPT ![r] = "none"]
  /\ UNCHANGED <<owner, process, fence, polling, resolving>>

(* Mutant: only the end of the approval asks what became of it *)
FencesOnly(r) ==
  /\ approval[r] = "checked"
  /\ IF fence \in {NoRequest, r}
       THEN /\ fence' = r
            /\ approval' = [approval EXCEPT ![r] = "sent"]
       ELSE /\ approval' = [approval EXCEPT ![r] = "none"]
            /\ UNCHANGED fence
  /\ UNCHANGED <<owner, process, polling, resolving, late, faults>>

(* beginSelfReload: refused when the fence is another request's *)
Fences(r) ==
  /\ approval[r] = "checked"
  /\ IF fence \in {NoRequest, r}
       THEN /\ fence' = r /\ polling' = TRUE
            /\ approval' = [approval EXCEPT ![r] = "sent"]
       ELSE /\ approval' = [approval EXCEPT ![r] = "none"]
            /\ UNCHANGED <<fence, polling>>
  /\ UNCHANGED <<owner, process, resolving, late, faults>>

(* Whatever comes of it, the call ends by asking the owner to resolve *)
CallEnds(r) ==
  /\ approval' = [approval EXCEPT ![r] = "none"]
  /\ resolving' = resolving \cup {r}

(* The owner refuses an expired request and a bad assertion *)
ApprovalRefused(r) ==
  /\ Serves /\ approval[r] = "sent"
  /\ CallEnds(r)
  /\ UNCHANGED <<owner, process, fence, polling, late, faults>>

ApprovalAnswered(r) ==
  /\ Serves /\ approval[r] = "sent" /\ r \notin expired
  /\ Saved(Approved(r))
  /\ IF receipt'[r] \in Over THEN Release(r) ELSE UNCHANGED fence
  /\ CallEnds(r)
  /\ UNCHANGED <<target, expired, job, stage, executions, process, polling, late>>

ApprovalLost(r) ==
  /\ approval[r] = "sent" /\ Unheard({<<"approve", r>>})
  /\ CallEnds(r)
  /\ UNCHANGED <<owner, process, fence, polling>>

(* The owner dies of the save: the Bridge has no answer *)
ApprovalBreaksOwner(r) ==
  /\ Serves /\ approval[r] = "sent" /\ r \notin expired
  /\ SaveFails(Approved(r))
  /\ CallEnds(r)
  /\ UNCHANGED <<target, expired, job, stage, executions, process, fence, polling, late>>

(* SelfReloadClient.call("receipt") *)
ReceiptShown(r) ==
  /\ Serves /\ receipt[r] \in Over /\ fence = r
  /\ Release(r)
  /\ UNCHANGED <<owner, process, client, faults>>

(*************************************************************************)
(* reconcile: from the end of an approval and from the poll              *)
(*************************************************************************)
Polls ==
  /\ alive /\ polling
  /\ fence \in Requests \ (Approving \cup resolving)
  /\ resolving' = resolving \cup {fence}
  /\ UNCHANGED <<owner, process, fence, polling, approval, late, faults>>

ResolveAnswered(r) ==
  /\ Serves /\ r \in resolving
  /\ Saved(Resolved(r))
  /\ IF receipt'[r] \in Over THEN Release(r) ELSE UNCHANGED fence
  /\ resolving' = resolving \ {r}
  /\ UNCHANGED <<target, expired, job, stage, executions, process, polling, approval, late>>

ResolveLost(r) ==
  /\ r \in resolving /\ Unheard({<<"resolve", r>>})
  /\ resolving' = resolving \ {r}
  /\ UNCHANGED <<owner, process, fence, polling, approval>>

ResolveBreaksOwner(r) ==
  /\ Serves /\ r \in resolving
  /\ SaveFails(Resolved(r))
  /\ resolving' = resolving \ {r}
  /\ UNCHANGED <<target, expired, job, stage, executions, process, fence, polling, approval, late>>

(* A message the Bridge gave up is served after all; nobody is answered *)
LateServed ==
  /\ Serves
  /\ \E m \in late :
       /\ late' = late \ {m}
       /\ Saved(CASE m[1] = "resolve" -> Resolved(m[2])
                  [] m[1] = "approve" -> IF m[2] \in expired THEN receipt ELSE Approved(m[2]))
  /\ UNCHANGED <<target, expired, job, stage, executions, process, fence, polling, approval, resolving>>

(*************************************************************************)
(* Invoke-R1Tick.  `idle': the health shows no job, no approval and a    *)
(* controller that is idle or ready.                                     *)
(*************************************************************************)
(* No matter once the receipt is over or unknown *)
Expires(r) ==
  /\ receipt[r] \notin {"none", "unknown"} \cup Over /\ r \notin expired
  /\ expired' = expired \cup {r}
  /\ UNCHANGED <<receipt, target, ownerUp, job, stage, executions, bridge, faults>>

TickExpires(r) ==
  /\ ownerUp /\ stage = "none"
  /\ receipt[r] \in {"accepted", "approved"} /\ r \in expired
  /\ Save(r, "failed")
  /\ UNCHANGED <<target, expired, job, stage, executions, bridge>>

(* The snapshot is of another process, or there is none to be had *)
TickRefuses(r) ==
  /\ ownerUp /\ stage = "none"
  /\ receipt[r] = "approved" /\ r \notin expired
  /\ ~(alive /\ accepting) \/ target[r] # pid
  /\ Save(r, "failed")
  /\ UNCHANGED <<target, expired, job, stage, executions, bridge>>

(* What the snapshot must show, before the dispatch and before the action *)
Ready(r, idle) ==
  /\ alive /\ accepting /\ target[r] = pid
  /\ idle /\ fence = r /\ r \notin expired

TickDispatches(r, idle) ==
  /\ ownerUp /\ stage = "none"
  /\ receipt[r] = "approved" /\ Ready(r, idle)
  /\ Save(r, "dispatching")
  /\ IF ownerUp' THEN job' = r /\ stage' = "run" ELSE UNCHANGED <<job, stage>>
  /\ UNCHANGED <<target, expired, executions, bridge>>

TickRuns ==
  /\ stage = "run"
  /\ Save(job, "running")
  /\ IF ownerUp' THEN stage' = "execute" /\ UNCHANGED job
                  ELSE stage' = "none" /\ job' = NoRequest
  /\ UNCHANGED <<target, expired, executions, bridge>>

Ends(state) ==
  /\ Save(job, state)
  /\ stage' = "none" /\ job' = NoRequest

(* The snapshot is taken once more right before the action *)
TickInvokes(idle) ==
  /\ stage = "execute" /\ Ready(job, idle)
  /\ executions' = [executions EXCEPT ![job] = @ + 1]
  /\ stage' = "stop"
  /\ UNCHANGED <<receipt, target, expired, ownerUp, job, bridge, faults>>

TickTurnsBack(idle) ==
  /\ stage = "execute" /\ ~Ready(job, idle)
  /\ Ends("unknown")
  /\ UNCHANGED <<target, expired, executions, bridge>>

(*************************************************************************)
(* Crashes                                                               *)
(*************************************************************************)
OwnerCrashes ==
  /\ ownerUp /\ Fault
  /\ ownerUp' = FALSE /\ stage' = "none" /\ job' = NoRequest
  /\ UNCHANGED <<receipt, target, expired, executions, bridge>>

(* Mutant: what was running is done again *)
RecoveredAgain(state) == IF state \in {"dispatching", "running"} THEN "approved" ELSE state

(* New-R1Engine: nothing that was under way is taken up again *)
Recovered(state) ==
  CASE state \in {"dispatching", "running"} -> "unknown"
    [] state = "approved" -> "failed"
    [] OTHER -> state

OwnerRestarts ==
  /\ ~ownerUp
  /\ ownerUp' = TRUE
  /\ receipt' = [r \in Requests |-> Recovered(receipt[r])]
  /\ UNCHANGED <<target, expired, job, stage, executions, bridge, faults>>

(* All the Bridge knows of a reload is in its memory *)
BridgeForgets ==
  /\ fence' = NoRequest
  /\ polling' = FALSE
  /\ approval' = [r \in Requests |-> "none"]
  /\ resolving' = {} /\ late' = {}
=============================================================================
