--------------------------- MODULE MarketDashboard ---------------------------
(***************************************************************************)
(* The market dashboard widget of OMI search (App.tsx): the poll of the    *)
(* chosen group, the loads of the groups that are opened, and the results  *)
(* the host pushes, over the bridge to the host (bridge.ts), by which a    *)
(* call ends once: with its answer, its time-out or its cancellation.      *)
(*                                                                         *)
(* A dashboard is its group and its state version: what the backend shows  *)
(* of a version does not change.  React runs an effect again some time     *)
(* after the state it depends on has changed.  Whatever a page does not    *)
(* see is left out: formatting, scrolling and the fullscreen request.      *)
(* React renders a click, with its effects, before the next one.           *)
(***************************************************************************)
EXTENDS Naturals, FiniteSets

CONSTANTS
  Groups,     \* the groups, 1 .. n
  MaxMarket,  \* versions of the market's state (bounds the model)
  MaxHides    \* times the page is hidden (bounds the model)

ASSUME MarketAssumption == Groups \subseteq Nat \ {0} /\ {MaxMarket, MaxHides} \subseteq Nat

VARIABLES
  host,    \* "native", or "legacy" when it does not know tools/call; "ready" or not
  market,  \* the backend's state version
  dash,    \* dashboardRef: the dashboard adopted last
  chosen,  \* selectedWatchlistGroupId, 0 when none
  effect,  \* the poll's effect: what it closes over, and whether its timer is set
  poll,    \* the poll in flight
  loads,   \* the groups whose load is in flight
  batches, \* watchlistItemBatches: the groups whose rows are kept
  busy,    \* watchlistLoading
  page     \* "shown", "hidden" or "gone", and how often it was hidden

dashVars == <<host, market, dash, chosen, effect, poll, loads, batches, busy, page>>

-----------------------------------------------------------------------------
(* A call of the bridge *)

NoCall == [at |-> "none", group |-> 0, version |-> 0, aborted |-> FALSE, mine |-> FALSE]
Call(group) == [at |-> "waiting", group |-> group, version |-> 0, aborted |-> FALSE, mine |-> TRUE]

(* The signal: a request rejects at once; what waits for the bridge, or    *)
(* went by the old way, is found out when it goes on                       *)
Abort(c) ==
  CASE c.at \in {"sent", "served"} -> NoCall
    [] c.at \in {"waiting", "legacy", "answered"} -> [c EXCEPT !.aborted = TRUE]
    [] OTHER -> c

(* bridgeReady resolves: the call is sent, unless it was cancelled *)
Sent(c) == IF c.aborted THEN NoCall ELSE [c EXCEPT !.at = "sent"]

(* The host: it asks the backend, or does not know the method *)
Served(c) ==
  CASE c.at = "sent" /\ host.kind = "native" -> [c EXCEPT !.at = "served", !.version = market]
    [] c.at = "sent" /\ host.kind = "legacy" -> [c EXCEPT !.at = "legacy"]
    [] c.at = "legacy" -> [c EXCEPT !.at = "answered", !.version = market]

Serving(c) == c.at \in {"sent", "legacy"}
Ending(c) == c.at \in {"served", "answered"}
Outstanding(c) == c.at \in {"sent", "served"}

-----------------------------------------------------------------------------
(* What is adopted (state.ts) *)

NoDash == [group |-> 0, version |-> 0]

(* shouldAdoptSnapshot: of the group that is expected, and no older *)
ShouldAdopt(candidate, expected) ==
  /\ expected # 0 => candidate.group = expected
  /\ \/ dash = NoDash
     \/ expected # 0 /\ dash.group # candidate.group
     \/ candidate.version >= dash.version

(* adopt *)
Adopts(candidate) ==
  /\ dash' = candidate
  /\ batches' = batches \cup {candidate.group}
  /\ chosen' = IF chosen = 0 THEN candidate.group ELSE chosen
  /\ busy' = FALSE

DoesNotAdopt == UNCHANGED <<dash, batches, chosen, busy>>

Adopt(candidate, expected) ==
  IF ShouldAdopt(candidate, expected) THEN Adopts(candidate) ELSE DoesNotAdopt

-----------------------------------------------------------------------------
(* The user *)

(* loadWatchlistGroupItems: not what is there, or on its way *)
Loading(g) == IF g \in batches THEN loads ELSE loads \cup {g}

(* The poll is cancelled, its effect disposed of, and the next one begins *)
SelectGroup(g) ==
  /\ page.is # "gone" /\ g # chosen
  /\ loads' = Loading(g)
  /\ chosen' = g /\ busy' = TRUE
  /\ poll' = [Abort(poll) EXCEPT !.mine = FALSE]
  /\ effect' = [effect EXCEPT !.group = g, !.timer = TRUE]
  /\ UNCHANGED <<host, market, dash, batches, page>>

ToggleGroup(g) ==
  /\ page.is # "gone" /\ loads # Loading(g)
  /\ loads' = Loading(g)
  /\ UNCHANGED <<host, market, dash, chosen, effect, poll, batches, busy, page>>

Hides ==
  /\ page.is = "shown" /\ page.hides < MaxHides
  /\ page' = [is |-> "hidden", hides |-> page.hides + 1]
  /\ UNCHANGED <<host, market, dash, chosen, effect, poll, loads, batches, busy>>

(* onVisibility *)
Shows ==
  /\ page.is = "hidden"
  /\ page' = [page EXCEPT !.is = "shown"]
  /\ effect' = [effect EXCEPT !.timer = TRUE]
  /\ UNCHANGED <<host, market, dash, chosen, poll, loads, batches, busy>>

(* The widget goes: everything is cancelled, and the bridge is stopped *)
Unmounts ==
  /\ page.is # "gone"
  /\ page' = [page EXCEPT !.is = "gone"]
  /\ effect' = [effect EXCEPT !.timer = FALSE]
  /\ poll' = [Abort(poll) EXCEPT !.mine = FALSE]
  /\ loads' = {}
  /\ host' = [host EXCEPT !.ready = TRUE]
  /\ UNCHANGED <<market, dash, chosen, batches, busy>>

-----------------------------------------------------------------------------
(* The poll *)

Rerenders == effect.group # chosen \/ effect.dash # dash

(* The effect runs again: the one before is disposed of, with its timer *)
Rerender ==
  /\ page.is # "gone" /\ Rerenders
  /\ effect' = [group |-> chosen, dash |-> dash, timer |-> TRUE]
  /\ poll' = [poll EXCEPT !.mine = FALSE]
  /\ UNCHANGED <<host, market, dash, chosen, loads, batches, busy, page>>

(* Mutant of TimerFires: a timer that finds a poll in flight is the last *)
TimerGivesUp ==
  /\ effect.timer /\ page.is = "shown"
  /\ effect' = [effect EXCEPT !.timer = FALSE]
  /\ poll' = IF poll.at # "none" THEN poll ELSE Call(effect.group)
  /\ UNCHANGED <<host, market, dash, chosen, loads, batches, busy, page>>
(* run: set again when the page is hidden or a poll is in flight *)
TimerFires ==
  /\ effect.timer /\ page.is = "shown" /\ poll.at = "none"
  /\ effect' = [effect EXCEPT !.timer = FALSE]
  /\ poll' = Call(effect.group)
  /\ UNCHANGED <<host, market, dash, chosen, loads, batches, busy, page>>

PollIsSent ==
  /\ poll.at = "waiting" /\ host.ready
  /\ poll' = Sent(poll)
  /\ UNCHANGED <<host, market, dash, chosen, effect, loads, batches, busy, page>>

PollIsServed ==
  /\ Serving(poll)
  /\ poll' = Served(poll)
  /\ UNCHANGED <<host, market, dash, chosen, effect, loads, batches, busy, page>>

(* The group a dashboard is of when none is asked for *)
Default == CHOOSE g \in Groups : \A h \in Groups : g <= h
Snapshot(c) == [group |-> IF c.group = 0 THEN Default ELSE c.group, version |-> c.version]

(* Mutant of PollAnswers: the answer is adopted whatever was chosen since *)
PollAnswersAnyway ==
  /\ Ending(poll)
  /\ poll' = NoCall
  /\ Adopt(Snapshot(poll), poll.group)
  /\ effect' = IF poll.mine THEN [effect EXCEPT !.timer = TRUE] ELSE effect
  /\ UNCHANGED <<host, market, loads, page>>
(* The answer, which nobody takes when the effect is not the one that asked *)
PollAnswers ==
  /\ Ending(poll)
  /\ poll' = NoCall
  /\ IF ~poll.mine \/ poll.aborted THEN DoesNotAdopt /\ UNCHANGED effect
     ELSE Adopt(Snapshot(poll), poll.group) /\ effect' = [effect EXCEPT !.timer = TRUE]
  /\ UNCHANGED <<host, market, loads, page>>

(* A time-out, an error of the host, or an answer that is no dashboard *)
PollFails ==
  /\ Outstanding(poll) \/ poll.at = "legacy"
  /\ poll' = NoCall
  /\ busy' = IF ~poll.aborted /\ poll.group = chosen THEN FALSE ELSE busy
  /\ effect' = IF poll.mine /\ ~poll.aborted THEN [effect EXCEPT !.timer = TRUE] ELSE effect
  /\ UNCHANGED <<host, market, dash, chosen, loads, batches, page>>

-----------------------------------------------------------------------------
(* The loads of groups, and the host *)

(* The rows are kept, or the load fails; either way another one may begin. *)
(* How far the host is with it and of which version its rows are is left   *)
(* out: a load that was asked before a poll and answered after it does put *)
(* older rows in the place of newer ones.                                  *)
LoadEnds(g) ==
  /\ g \in loads /\ host.ready
  /\ loads' = loads \ {g}
  /\ batches' \in {batches, batches \cup {g}}
  /\ UNCHANGED <<host, market, dash, chosen, effect, poll, busy, page>>

(* ui/initialize is answered, or times out *)
BridgeReady ==
  /\ ~host.ready /\ host' = [host EXCEPT !.ready = TRUE]
  /\ UNCHANGED <<market, dash, chosen, effect, poll, loads, batches, busy, page>>

(* ui/notifications/tool-result: what some call of the chat has read *)
HostPushes(g, version) ==
  /\ page.is # "gone" /\ version <= market
  /\ Adopt([group |-> g, version |-> version], chosen)
  /\ UNCHANGED <<host, market, effect, poll, loads, page>>

MarketMoves ==
  /\ market < MaxMarket /\ market' = market + 1
  /\ UNCHANGED <<host, dash, chosen, effect, poll, loads, batches, busy, page>>

-----------------------------------------------------------------------------

DashStart(kind, is) ==
  /\ host = [kind |-> kind, ready |-> FALSE] /\ market = 1 /\ dash = NoDash /\ chosen = 0
  /\ effect = [group |-> 0, dash |-> NoDash, timer |-> is = "shown"]
  /\ poll = NoCall /\ loads = {} /\ batches = {}
  /\ busy = FALSE /\ page = [is |-> is, hides |-> 0]

DashInit == \E kind \in {"native", "legacy"} : DashStart(kind, "shown")
DashIdle ==
  /\ host = [kind |-> "native", ready |-> TRUE] /\ market = MaxMarket /\ dash = NoDash /\ chosen = 0
  /\ effect = [group |-> 0, dash |-> NoDash, timer |-> FALSE]
  /\ poll = NoCall /\ loads = {} /\ batches = {}
  /\ busy = FALSE /\ page = [is |-> "gone", hides |-> 0]

DashNext ==
  \/ Hides \/ Shows \/ Unmounts \/ Rerender \/ TimerFires
  \/ PollIsSent \/ PollIsServed \/ PollAnswers \/ PollFails \/ BridgeReady \/ MarketMoves
  \/ \E g \in Groups : SelectGroup(g) \/ ToggleGroup(g) \/ LoadEnds(g)
  \/ \E g \in Groups, version \in 1 .. MaxMarket : HostPushes(g, version)

(* Timers fire, React renders, the host answers or times out, and does     *)
(* answer a poll at times                                                  *)
DashFairness ==
  /\ WF_dashVars(Rerender) /\ SF_dashVars(TimerFires) /\ WF_dashVars(BridgeReady)
  /\ WF_dashVars(PollIsSent) /\ SF_dashVars(PollAnswers)
  /\ \A at \in {"sent", "legacy"} : SF_dashVars(poll.at = at /\ PollIsServed)
  /\ \A g \in Groups : WF_dashVars(LoadEnds(g))

-----------------------------------------------------------------------------

(* The poll does not die out: as long as the widget is there its timer is  *)
(* set, or an effect is about to run again, or a poll is in flight whose   *)
(* end sets it (App.tsx: one flag is shared by all effects, and an answer  *)
(* to an effect that is gone sets nothing).                                *)
PollGoesOn ==
  page.is # "gone" =>
    effect.timer \/ Rerenders \/ (poll.at # "none" /\ poll.mine /\ ~poll.aborted)

(* What is adopted is of the group that is chosen, is not older than what  *)
(* it replaces of that group, and nothing is when the widget has gone.  (A *)
(* poll that began before any group was known asks for none: its answer is *)
(* adopted although a push may have chosen one in between.)                *)
AdoptedIsTheChoice ==
  [][dash' # dash =>
       /\ chosen' = dash'.group \/ (poll.at # "none" /\ poll.group = 0)
       /\ page.is # "gone"
       /\ dash.group = dash'.group => dash.version <= dash'.version]_dashVars

(* Who chooses a group is shown it, whatever poll was in flight, unless    *)
(* the page is hidden or goes: the poll for it begins and is adopted.      *)
ChoiceIsShown ==
  \A g \in Groups :
    chosen = g ~> chosen # g \/ dash.group = g \/ page.is # "shown"
=============================================================================
