------------------------------ MODULE OneWrite ------------------------------
(***************************************************************************)
(* What an operation that carries its own identifier is promised by a      *)
(* journal of receipts.                                                    *)
(*                                                                         *)
(* A receipt first says that the operation is pending.  Only then it may   *)
(* take effect, once.  The receipt becomes final only with the truth:      *)
(* "done" after the effect, "rejected" when there was none and will be     *)
(* none.  An operation nobody can tell about stays pending for good.       *)
(***************************************************************************)
EXTENDS Naturals

CONSTANT Operations

VARIABLES
  status, \* what the receipt of each operation says
  effects \* how often each operation took effect

vars == <<status, effects>>

TypeOK ==
  /\ status \in [Operations -> {"none", "pending", "done", "rejected"}]
  /\ effects \in [Operations -> {0, 1}]

Init ==
  /\ status = [o \in Operations |-> "none"]
  /\ effects = [o \in Operations |-> 0]

Begin(o) ==
  /\ status[o] = "none"
  /\ status' = [status EXCEPT ![o] = "pending"]
  /\ UNCHANGED effects

TakeEffect(o) ==
  /\ status[o] = "pending" /\ effects[o] = 0
  /\ effects' = [effects EXCEPT ![o] = 1]
  /\ UNCHANGED status

(* What is found to be so already is done without an effect *)
Finish(o) ==
  /\ status[o] = "pending"
  /\ status' = [status EXCEPT ![o] = "done"]
  /\ UNCHANGED effects

Reject(o) ==
  /\ status[o] \in {"none", "pending"} /\ effects[o] = 0
  /\ status' = [status EXCEPT ![o] = "rejected"]
  /\ UNCHANGED effects

Next == \E o \in Operations : Begin(o) \/ TakeEffect(o) \/ Finish(o) \/ Reject(o)

Spec == Init /\ [][Next]_vars
=============================================================================
