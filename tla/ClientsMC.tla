------------------------------- MODULE ClientsMC -------------------------------
(***************************************************************************)
(* Two clients of other programs for model checking: the phone's outbox    *)
(* and the market widget.  They share nothing, so a behaviour is one of    *)
(* them: Init picks which of the modules moves, and the other one is idle, *)
(* in a state in which none of its actions is enabled.                     *)
(***************************************************************************)
EXTENDS MobileSync, MarketDashboard

clientVars == <<vars, dashVars>>

(* The initial states of one module are joined with the idle one of the other *)
ClientsInit ==
  \E mover \in {"phone", "dashboard"} :
    /\ IF mover = "phone" THEN Init ELSE MobileIdle
    /\ IF mover = "dashboard" THEN DashInit ELSE DashIdle

ClientsNext ==
  \/ Next /\ UNCHANGED dashVars
  \/ DashNext /\ UNCHANGED vars

ClientsSpec ==
  /\ ClientsInit /\ [][ClientsNext]_clientVars
  /\ Fairness /\ DashFairness

-----------------------------------------------------------------------------

(* Whoever waits is served: a record of the phone is tried, and a group     *)
(* that was chosen is shown, each as its module states it.                 *)
EveryClientIsServed == PendingIsTried /\ ChoiceIsShown
=============================================================================
