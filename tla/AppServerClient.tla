--------------------------- MODULE AppServerClient ---------------------------
(***************************************************************************)
(* The client of the Codex App Server (codex_bridge/src/                   *)
(* app-server-client.ts): one child process, started by whoever needs it   *)
(* first, ended by its own death, by a failed handshake or by close.       *)
(*                                                                         *)
(* A start has two awaits: before the process is spawned, and for the      *)
(* handshake (the `spawn' event, then the answer to `initialize').  What   *)
(* the process does and what the client hears of it are apart: a process   *)
(* dies first, and its `exit' event is handled later.  The handler does    *)
(* not ask which process has ended.                                        *)
(*                                                                         *)
(* Messages are abstracted to the call they belong to; a call is sent to   *)
(* the process that was the child when it was written.                     *)
(***************************************************************************)
EXTENDS Naturals, FiniteSets

CONSTANTS
  Calls,       \* the calls of App Server methods
  MaxChildren, \* processes spawned (bounds the model)
  NoChild

ASSUME AppServerClientAssumption ==
  MaxChildren \in Nat /\ NoChild \notin 1..MaxChildren

VARIABLES
  child,   \* #child
  status,  \* #currentStatus
  closing, \* #closing
  start,   \* where #startPromise is: "none", "before" the spawn, "handshake"
  proc,    \* each process: "none", "live", "killed" or "dead"
  unheard, \* the processes that ended, but whose exit event is not handled
  forgotten, \* the processes another one's exit event has cleared #child of
  call,    \* each call: "idle", "waiting" for the start, "sent", "answered", "failed"
  sentTo,  \* the process a call was written to
  closer,  \* what close() is at: "none", "waiting", "closed", "unknown"
  ending   \* the process it waits for

link == <<sentTo, closer, ending>>
appServer == <<child, status, closing, start, proc, unheard, forgotten, call, link>>

Children == 1..MaxChildren

AppServerTypeOK ==
  /\ child \in Children \cup {NoChild}
  /\ status \in {"idle", "starting", "ready", "unavailable"}
  /\ closing \in BOOLEAN
  /\ start \in {"none", "before", "handshake"}
  /\ proc \in [Children -> {"none", "live", "killed", "dead"}]
  /\ unheard \subseteq Children /\ forgotten \subseteq Children
  /\ call \in [Calls -> {"idle", "waiting", "sent", "answered", "failed"}]
  /\ sentTo \in [Calls -> Children \cup {NoChild}]
  /\ closer \in {"none", "waiting", "closed", "unknown"}
  /\ ending \in Children \cup {NoChild}

AppServerInit ==
  /\ child = NoChild /\ status = "idle" /\ closing = FALSE /\ start = "none"
  /\ proc = [c \in Children |-> "none"] /\ unheard = {} /\ forgotten = {}
  /\ call = [q \in Calls |-> "idle"] /\ sentTo = [q \in Calls |-> NoChild]
  /\ closer = "none" /\ ending = NoChild

Live == {c \in Children : proc[c] = "live"}
Spawned == {c \in Children : proc[c] # "none"}
Newest == CHOOSE c \in Spawned : \A d \in Spawned : d <= c

Waiting == {q \in Calls : call[q] = "waiting"}
Sent == {q \in Calls : call[q] = "sent"}
Become(calls, new) == [q \in Calls |-> IF q \in calls THEN new ELSE call[q]]

(* The child is there and was not killed: it may have died unheard *)
Usable == child # NoChild /\ proc[child] # "killed"

(*************************************************************************)
(* ensureStarted and request                                             *)
(*************************************************************************)
RefusedWhileClosing(q) ==
  /\ call[q] = "idle" /\ closing
  /\ call' = [call EXCEPT ![q] = "failed"]
  /\ UNCHANGED <<child, status, closing, start, proc, unheard, forgotten, link>>

SendsAtOnce(q) ==
  /\ call[q] = "idle" /\ ~closing
  /\ status = "ready" /\ Usable
  /\ call' = [call EXCEPT ![q] = "sent"]
  /\ sentTo' = [sentTo EXCEPT ![q] = child]
  /\ UNCHANGED <<child, status, closing, start, proc, unheard, forgotten, closer, ending>>

JoinsStart(q) ==
  /\ call[q] = "idle" /\ ~closing
  /\ ~(status = "ready" /\ Usable) /\ start # "none"
  /\ call' = [call EXCEPT ![q] = "waiting"]
  /\ UNCHANGED <<child, status, closing, start, proc, unheard, forgotten, link>>

Starts(q) ==
  /\ call[q] = "idle" /\ ~closing
  /\ ~(status = "ready" /\ Usable) /\ start = "none"
  /\ Cardinality(Spawned) < MaxChildren
  /\ start' = "before"
  /\ status' = "starting" /\ closing' = FALSE
  /\ call' = [call EXCEPT ![q] = "waiting"]
  /\ UNCHANGED <<child, proc, unheard, forgotten, link>>

Ask(q) == RefusedWhileClosing(q) \/ SendsAtOnce(q) \/ JoinsStart(q) \/ Starts(q)

(*************************************************************************)
(* start                                                                 *)
(*************************************************************************)
StartFails ==
  /\ status' = "unavailable"
  /\ start' = "none"
  /\ call' = Become(Waiting, "failed")

(* beforeSpawn refuses, or there is nothing to spawn *)
SpawnFails ==
  /\ start = "before"
  /\ StartFails
  /\ UNCHANGED <<child, closing, proc, unheard, forgotten, link>>

Spawns ==
  /\ start = "before"
  /\ LET c == Cardinality(Spawned) + 1 IN
       /\ proc' = [proc EXCEPT ![c] = "live"]
       /\ child' = c
  /\ start' = "handshake"
  /\ UNCHANGED <<status, closing, unheard, forgotten, call, link>>

HandshakeDone ==
  /\ start = "handshake" /\ ~closing
  /\ proc[Newest] = "live"
  /\ status' = "ready"
  /\ start' = "none"
  /\ call' = Become(Waiting, "sent")
  /\ sentTo' = [q \in Calls |-> IF q \in Waiting THEN child ELSE sentTo[q]]
  /\ UNCHANGED <<child, closing, proc, unheard, forgotten, closer, ending>>

Kill(c) == IF proc[c] = "live" THEN [proc EXCEPT ![c] = "killed"] ELSE proc

(* Mutant: the process of a failed handshake is left alone *)
HandshakeFailsQuietly ==
  /\ start = "handshake"
  /\ StartFails
  /\ UNCHANGED <<child, closing, proc, unheard, forgotten, link>>

(* No answer to initialize within the time of a request, or an error *)
HandshakeFails ==
  /\ start = "handshake"
  /\ StartFails
  /\ proc' = Kill(Newest)
  /\ UNCHANGED <<child, closing, unheard, forgotten, link>>

(*************************************************************************)
(* The process ends, and the exit handlers of start and of close run     *)
(*************************************************************************)
Dies(c) ==
  /\ proc[c] \in {"live", "killed"}
  /\ proc' = [proc EXCEPT ![c] = "dead"]
  /\ unheard' = unheard \cup {c}
  /\ UNCHANGED <<child, status, closing, start, forgotten, call, link>>

(* Every pending request is rejected, that of a handshake included: the    *)
(* start then fails and kills its process.  A later child that is ready is *)
(* not killed: it runs on, and the client does not know it any more.       *)
(* close() has a handler of its own, behind this one, for the process it   *)
(* ended.                                                                  *)
PendingRejected ==
  /\ call' = Become(Sent \cup Waiting, "failed")
  /\ start' = "none"
  /\ status' = "unavailable"
  /\ proc' = Kill(Newest)

ExitHandled(c) ==
  /\ c \in unheard
  /\ unheard' = unheard \ {c}
  /\ child' = NoChild
  /\ IF start = "handshake"
       THEN PendingRejected /\ UNCHANGED forgotten
       ELSE /\ forgotten' = forgotten \cup (Live \cap {child})
            /\ call' = Become(Sent, "failed")
            /\ status' = IF closing THEN "idle" ELSE "unavailable"
            /\ UNCHANGED <<start, proc>>
  /\ IF closer = "waiting" /\ ending = c
       THEN closer' = "closed" /\ closing' = FALSE
       ELSE UNCHANGED <<closer, closing>>
  /\ UNCHANGED <<sentTo, ending>>

(*************************************************************************)
(* The answers                                                           *)
(*************************************************************************)
Answers(q) ==
  /\ call[q] = "sent" /\ proc[sentTo[q]] = "live"
  /\ call' = [call EXCEPT ![q] = "answered"]
  /\ UNCHANGED <<child, status, closing, start, proc, unheard, forgotten, link>>

CallTimesOut(q) ==
  /\ call[q] = "sent"
  /\ call' = [call EXCEPT ![q] = "failed"]
  /\ UNCHANGED <<child, status, closing, start, proc, unheard, forgotten, link>>

(*************************************************************************)
(* close: end of input, then the wait for the exit                       *)
(*************************************************************************)
CloseFindsNoChild ==
  /\ closer = "none" /\ child = NoChild
  /\ closing' = FALSE
  /\ closer' = "closed"
  /\ UNCHANGED <<child, status, start, proc, unheard, forgotten, call, sentTo, ending>>

CloseEndsInput ==
  /\ closer = "none" /\ child # NoChild
  /\ closing' = TRUE
  /\ closer' = "waiting" /\ ending' = child
  /\ UNCHANGED <<child, status, start, proc, unheard, forgotten, call, sentTo>>

CloseTimesOut ==
  /\ closer = "waiting"
  /\ closer' = "unknown"
  /\ UNCHANGED <<child, status, closing, start, proc, unheard, forgotten, call, sentTo, ending>>

Close == CloseFindsNoChild \/ CloseEndsInput

(*************************************************************************)
(* At most one App Server runs that nobody told to end and that no exit  *)
(* of another has made the client forget.                                *)
(*************************************************************************)
Running == Live \ forgotten
OneAppServer == Cardinality(Running) <= 1

(* "the one App Server shared by every Bridge thread and turn" (the comment *)
(* on close, app-server-client.ts:79).  The exit event of a killed process  *)
(* that is late clears #child though a later one is ready: the next call    *)
(* spawns another beside it, so that this does not hold.                    *)
OneIsShared == Cardinality(Live) <= 1
=============================================================================
