---------------------------- MODULE OneExecution ----------------------------
(***************************************************************************)
(* What a request that must be approved before it is executed is promised, *)
(* whatever keeps its receipts and whatever executes it.                   *)
(*                                                                         *)
(* The receipt of a request is its durable state.  A request is executed   *)
(* once at most, and only after the intent to execute it has become        *)
(* durable.  A request that was refused before that (declined, denied,     *)
(* expired) is never executed.  An outcome is final, and an execution is   *)
(* only said to have succeeded or failed when there was one; when nobody   *)
(* can tell, the outcome is unknown, for good.                             *)
(***************************************************************************)
EXTENDS Naturals

CONSTANT Requests

VARIABLES
  receipt,   \* what the durable receipt of each request says
  executions \* how often each request was executed

vars == <<receipt, executions>>

Receipts == {"none", "asked", "allowed", "refused", "intent", "succeeded", "failed", "unknown"}

TypeOK ==
  /\ receipt \in [Requests -> Receipts]
  /\ executions \in [Requests -> {0, 1}]

Init ==
  /\ receipt = [r \in Requests |-> "none"]
  /\ executions = [r \in Requests |-> 0]

Becomes(r, from, to) ==
  /\ receipt[r] \in from
  /\ receipt' = [receipt EXCEPT ![r] = to]
  /\ UNCHANGED executions

Ask(r) == Becomes(r, {"none"}, "asked")
Allow(r) == Becomes(r, {"asked"}, "allowed")
Refuse(r) == Becomes(r, {"asked", "allowed"}, "refused")
Intend(r) == Becomes(r, {"allowed"}, "intent")

(* The executor may be late: the receipt may already say that nobody knows *)
Execute(r) ==
  /\ receipt[r] \in {"intent", "unknown"}
  /\ executions[r] = 0
  /\ executions' = [executions EXCEPT ![r] = 1]
  /\ UNCHANGED receipt

Report(r, outcome) ==
  /\ executions[r] = 1
  /\ Becomes(r, {"intent"}, outcome)

GiveUp(r) == Becomes(r, {"intent"}, "unknown")

Next ==
  \E r \in Requests :
    \/ Ask(r) \/ Allow(r) \/ Refuse(r) \/ Intend(r) \/ Execute(r) \/ GiveUp(r)
    \/ \E outcome \in {"succeeded", "failed"} : Report(r, outcome)

Spec == Init /\ [][Next]_vars
=============================================================================
