------------------------- MODULE BridgeLifecycleProofs -------------------------
(***************************************************************************)
(* Proofs of BridgeLifecycle, for any calls, requests, processes, faults   *)
(* and users: the fence of a reload that was allowed holds, a reload is    *)
(* executed once at most and as OneExecution promises, and who is told     *)
(* CLOSED finds the Bridge quiet.                                          *)
(***************************************************************************)
EXTENDS BridgeLifecycle, FiniteSetTheorems, TLAPS

-----------------------------------------------------------------------------
(* The inductive invariant of the reload, the fence and the shutdown *)

Standing == {"accepted", "approved", "dispatching", "running", "unknown"}

(* The receipts: one reload at a time; what the owner executes it has      *)
(* written down, about the Bridge that runs, and invokes once              *)
OwnerInv ==
  /\ stage # "none" =>
       /\ ownerUp /\ job \in Requests
       /\ receipt[job] = IF stage = "run" THEN "dispatching" ELSE "running"
       /\ executions[job] = IF stage \in {"run", "execute"} THEN 0 ELSE 1
  /\ stage = "stop" => target[job] = pid
  /\ \A r \in Requests : receipt[r] \in {"none", "accepted", "approved"} => executions[r] = 0
  /\ \A r, s \in Requests : receipt[r] \in Standing /\ receipt[s] \in Standing => r = s
  /\ \A r \in Requests : target[r] <= pid

(* The fence: a message that can still allow a reload finds its fence *)
FenceInv ==
  /\ ApprovedIsFenced
  /\ \A r \in Requests : receipt[r] \notin Over =>
       /\ approval[r] = "sent" => fence = r
       /\ <<"approve", r>> \in late => fence = r

(* A Bridge that is gone has forgotten *)
DownInv ==
  ~alive =>
    /\ fence = NoRequest /\ shut = "none" /\ closer = "none"
    /\ \A r \in Requests : approval[r] = "none"

(* The shutdown: from the drain on the fence is its own *)
ShutInv ==
  /\ shut \in {"check", "release", "closing"} => fence = Stop
  /\ alive /\ ~accepting => shut \in {"closing", "over"} /\ fence = Stop
  /\ shut = "closing" => ~accepting
  /\ closer # "none" => ~accepting
  /\ closing => alive /\ ~accepting
  /\ verdict = "closed" => alive /\ ~accepting /\ shut = "over" /\ closer = "closed"

(* The processes are spawned in order, and no more than there may be *)
Last == Cardinality(Spawned)
SpawnInv ==
  /\ Last \in 0 .. MaxChildren
  /\ \A c \in Children : proc[c] # "none" <=> c <= Last
  /\ start = "before" => Last < MaxChildren
  /\ start = "handshake" => Last # 0

BridgeInv == TypeOK /\ SpawnInv /\ OwnerInv /\ FenceInv /\ DownInv /\ ShutInv

-----------------------------------------------------------------------------
(* The inductive invariant of the App Server *)

NoneLives == Running = {}

(* Only the last process can run untold, and while none is being started   *)
(* it is the child that is ready, or the exit of another has cleared #child *)
ChildInv ==
  /\ \A c \in Running : c = Last
  /\ \A c \in unheard : proc[c] = "dead"
  /\ start # "none" => status # "ready" /\ (status = "idle" => alive /\ ~accepting)
  /\ start = "before" => NoneLives
  /\ start = "handshake" => child = Last
  /\ \A c \in Running : start = "none" => status = "ready" /\ child = c

(* Once the HTTP server is closed, and as long as no call asks for more *)
QuietInv ==
  alive /\ ~accepting /\ strays = {} =>
    /\ active = {} /\ start = "none"
    /\ closer = "waiting" => Running \subseteq {ending}
    /\ closer = "closed" => NoneLives

ServerInv == ChildInv /\ QuietInv

-----------------------------------------------------------------------------
(* The processes spawned *)

LEMMA NoneSpawned ==
  ASSUME \A c \in Children : proc[c] = "none"
  PROVE  Last = 0
<1>1. Spawned = {}
  BY DEF Spawned
<1> QED BY <1>1, FS_EmptySet DEF Last

LEMMA SameSpawned ==
  ASSUME SpawnInv, \A c \in Children : proc'[c] = "none" <=> proc[c] = "none",
         start' \in {start, "none"} \/ (start' = "before" /\ Last < MaxChildren)
  PROVE  SpawnInv' /\ Last' = Last
<1>1. Spawned' = Spawned
  BY DEF Spawned
<1>2. Last' = Last
  BY <1>1 DEF Last
<1> QED BY <1>2 DEF SpawnInv

LEMMA OneMoreSpawned ==
  ASSUME AppServerTypeOK, SpawnInv, Spawns
  PROVE  SpawnInv' /\ Last' = Last + 1 /\ Last + 1 \in Children
<1>1. Last \in Nat /\ MaxChildren \in Nat /\ Last < MaxChildren
  BY AppServerClientAssumption DEF SpawnInv, Spawns
<1>2. Last + 1 \in Children
  BY <1>1 DEF Children
<1>3. proc[Last + 1] = "none" /\ proc' = [proc EXCEPT ![Last + 1] = "live"] /\ start' = "handshake"
  BY <1>1, <1>2 DEF SpawnInv, Spawns, Last
<1>4. Spawned = 1 .. Last /\ Spawned' = 1 .. (Last + 1)
  BY <1>1, <1>2, <1>3 DEF Spawned, SpawnInv, AppServerTypeOK, Children
<1> DEFINE n == Last + 1
<1>5. Last' = n
  <2> HIDE DEF n
  <2>1. n \in Nat /\ Spawned' = 1 .. n
    BY <1>1, <1>4 DEF n
  <2>2. Cardinality(1 .. n) = n
    BY <2>1, FS_Interval
  <2> QED BY <2>1, <2>2 DEF Last
<1>6. \A c \in Children : proc'[c] # "none" <=> c <= Last + 1
  BY <1>1, <1>2, <1>3 DEF SpawnInv, AppServerTypeOK, Children
<1> QED BY <1>1, <1>2, <1>3, <1>5, <1>6 DEF SpawnInv

LEMMA NewestIsLast ==
  ASSUME SpawnInv, Last # 0
  PROVE  Newest = Last /\ Last \in Children
<1>1. Last \in Nat /\ MaxChildren \in Nat /\ Last \in Children /\ Spawned = 1 .. Last
  BY AppServerClientAssumption DEF SpawnInv, Children, Spawned
<1>2. Last \in Spawned /\ \A d \in Spawned : d <= Last
  BY <1>1
<1>3. \A c \in Spawned : (\A d \in Spawned : d <= c) => c = Last
  BY <1>1, <1>2
<1> QED BY <1>1, <1>2, <1>3 DEF Newest

-----------------------------------------------------------------------------
(* The initial state, and what a step leaves alone *)

LEMMA BridgeInitially == Init => BridgeInv
<1> SUFFICES ASSUME Init PROVE BridgeInv
  OBVIOUS
<1> USE DEF Init, AppServerInit, SelfReloadInit
<1>1. AppServerTypeOK
  BY DEF AppServerTypeOK
<1>2. SelfReloadTypeOK
  <2>1. late \subseteq {"approve", "resolve"} \X Requests
    OBVIOUS
  <2>2. pid \in 1 .. MaxPid /\ faults \in 0 .. MaxFaults
    BY SelfReloadAssumption
  <2>3. /\ receipt \in [Requests -> States] /\ target \in [Requests -> 0 .. MaxPid]
        /\ executions \in [Requests -> Nat]
        /\ approval \in [Requests -> {"none", "asking", "checked", "sent"}]
    BY SelfReloadAssumption DEF States
  <2> QED BY <2>1, <2>2, <2>3 DEF SelfReloadTypeOK
<1>3. TypeOK
  BY <1>1, <1>2 DEF TypeOK
<1>4. OwnerInv
  BY SelfReloadAssumption DEF OwnerInv, Standing
<1>5. FenceInv
  BY DEF FenceInv, ApprovedIsFenced
<1>6. SpawnInv
  BY NoneSpawned, AppServerClientAssumption DEF SpawnInv, Children
<1> QED BY <1>3, <1>4, <1>5, <1>6 DEF BridgeInv, DownInv, ShutInv

LEMMA Identifiers ==
  /\ Requests \subseteq Nat /\ NoRequest \notin Requests
  /\ Stop \notin Requests /\ Stop # NoRequest
BY SelfReloadAssumption

LEMMA OwnerKept ==
  ASSUME OwnerInv, UNCHANGED <<owner, pid>>
  PROVE  OwnerInv'
BY DEF OwnerInv, owner

LEMMA FenceKept ==
  ASSUME FenceInv, UNCHANGED <<receipt, target, process, fence, approval, late>>
  PROVE  FenceInv'
BY DEF FenceInv, ApprovedIsFenced, process

LEMMA SpawnKept == ASSUME SpawnInv, UNCHANGED <<proc, start>> PROVE SpawnInv'
BY DEF SpawnInv, Last, Spawned

LEMMA DownKept ==
  ASSUME DownInv, UNCHANGED <<alive, fence, shut, closer, approval>>
  PROVE  DownInv'
BY DEF DownInv

LEMMA ShutKept ==
  ASSUME ShutInv, UNCHANGED <<process, fence, shutdown, closer, closing>>
  PROVE  ShutInv'
BY DEF ShutInv, process, shutdown

LEMMA AppServerTypeKept ==
  ASSUME AppServerTypeOK, UNCHANGED appServer
  PROVE  AppServerTypeOK'
BY DEF AppServerTypeOK, appServer, link

LEMMA ReloadTypeKept ==
  ASSUME SelfReloadTypeOK, UNCHANGED <<owner, bridge>>, faults' = faults \/ Fault
  PROVE  SelfReloadTypeOK'
BY SelfReloadAssumption DEF SelfReloadTypeOK, owner, bridge, process, client, Fault

WorkTypeOK ==
  /\ http \in [Calls -> {"none", "open", "left"}]
  /\ active \subseteq Turns /\ strays \subseteq Calls
ShutdownTypeOK ==
  /\ shut \in {"none", "begin", "check", "release", "closing", "over"}
  /\ verdict \in {"none", "closed", "active", "unknown"}
  /\ asker \in {"nobody", "operator", "owner"}

LEMMA TypeIs ==
  /\ TypeOK <=> AppServerTypeOK /\ SelfReloadTypeOK /\ WorkTypeOK /\ ShutdownTypeOK
  /\ TypeOK' <=> AppServerTypeOK' /\ SelfReloadTypeOK' /\ WorkTypeOK' /\ ShutdownTypeOK'
BY DEF TypeOK, WorkTypeOK, ShutdownTypeOK

LEMMA WorkTypeKept == ASSUME WorkTypeOK, UNCHANGED work PROVE WorkTypeOK'
BY DEF WorkTypeOK, work

LEMMA ShutdownTypeKept == ASSUME ShutdownTypeOK, UNCHANGED shutdown PROVE ShutdownTypeOK'
BY DEF ShutdownTypeOK, shutdown

-----------------------------------------------------------------------------
(* The App Server and the work that needs it *)

(* What they do to the variables the invariant is about *)
LEMMA AskMoves ==
  ASSUME AppServerTypeOK, NEW q \in Calls, Ask(q)
  PROVE  /\ AppServerTypeOK' /\ closer' = closer /\ closing' = closing
         /\ UNCHANGED <<child, proc, unheard, forgotten, ending>>
<1>1. ASSUME NEW to \in {"failed", "sent", "waiting"}
      PROVE  [call EXCEPT ![q] = to] \in [Calls -> {"idle", "waiting", "sent", "answered", "failed"}]
  BY DEF AppServerTypeOK
<1>2. [sentTo EXCEPT ![q] = child] \in [Calls -> Children \cup {NoChild}]
  BY DEF AppServerTypeOK
<1>3. CASE RefusedWhileClosing(q) \/ JoinsStart(q)
  BY <1>1, <1>3 DEF AppServerTypeOK, RefusedWhileClosing, JoinsStart, link
<1>4. CASE SendsAtOnce(q)
  BY <1>1, <1>2, <1>4 DEF AppServerTypeOK, SendsAtOnce
<1>5. CASE Starts(q)
  BY <1>1, <1>5 DEF AppServerTypeOK, Starts, link
<1> QED BY <1>3, <1>4, <1>5 DEF Ask

LEMMA WorkStep ==
  ASSUME BridgeInv, Working
  PROVE  BridgeInv'
<1> USE TypeIs DEF BridgeInv
<1>1. PICK q \in Calls : \/ Arrives(q) \/ ClientLeaves(q) \/ Admitted(q) \/ Draining(q)
                         \/ AsksAppServer(q) \/ Settles(q)
  BY DEF Working
<1>2. UNCHANGED <<reloadVars, shutdown, closer, closing>>
  BY <1>1, AskMoves DEF Arrives, ClientLeaves, Admitted, Draining, AsksAppServer, Settles, appServer, link
<1>3. AppServerTypeOK'
  <2>1. CASE AsksAppServer(q)
    BY <2>1, AskMoves DEF AsksAppServer
  <2>2. CASE Settles(q)
    BY <2>2 DEF Settles, AppServerTypeOK, link
  <2>3. CASE ~(AsksAppServer(q) \/ Settles(q))
    BY <1>1, <2>3, AppServerTypeKept DEF Arrives, ClientLeaves, Admitted, Draining
  <2> QED BY <2>1, <2>2, <2>3
<1>4. WorkTypeOK'
  BY <1>1 DEF WorkTypeOK, Arrives, ClientLeaves, Admitted, Draining, AsksAppServer, Settles
<1>5. SelfReloadTypeOK' /\ ShutdownTypeOK'
  BY <1>2, ReloadTypeKept, ShutdownTypeKept DEF reloadVars
<1>6. SpawnInv'
  <2>1. CASE AsksAppServer(q) /\ start' # start
    <3>1. start' = "before" /\ Last < MaxChildren /\ proc' = proc
      BY <2>1, AskMoves
         DEF AsksAppServer, Ask, RefusedWhileClosing, SendsAtOnce, JoinsStart, Starts, Last, link
    <3> QED BY <3>1, SameSpawned
  <2>2. CASE ~(AsksAppServer(q) /\ start' # start)
    <3>1. UNCHANGED <<proc, start>>
      BY <1>1, <2>2, AskMoves
         DEF Arrives, ClientLeaves, Admitted, Draining, AsksAppServer, Settles, appServer
    <3> QED BY <3>1, SpawnKept
  <2> QED BY <2>1, <2>2
<1> QED BY <1>2, <1>3, <1>4, <1>5, <1>6, OwnerKept, FenceKept, DownKept, ShutKept
        DEF reloadVars, bridge, owner, process, client, shutdown

LEMMA KilledTypes ==
  ASSUME AppServerTypeOK, NEW c
  PROVE  Kill(c) \in [Children -> {"none", "live", "killed", "dead"}]
BY DEF AppServerTypeOK, Kill

LEMMA BecomeTypes ==
  ASSUME AppServerTypeOK, NEW calls, NEW to \in {"idle", "waiting", "sent", "answered", "failed"}
  PROVE  Become(calls, to) \in [Calls -> {"idle", "waiting", "sent", "answered", "failed"}]
BY DEF AppServerTypeOK, Become

(* The steps of the App Server itself and of its client *)
ServerMoves ==
  \/ SpawnFails \/ HandshakeFails \/ Spawns \/ HandshakeDone
  \/ \E c \in Children : Dies(c) \/ ExitHandled(c)
  \/ \E q \in Calls : Answers(q) \/ CallTimesOut(q)

LEMMA ServerStepIs ==
  ASSUME AppServerStep
  PROVE  ServerMoves /\ (faults' = faults \/ Fault) /\ UNCHANGED <<owner, bridge, work, shutdown>>
BY DEF AppServerStep, ServerMoves

LEMMA ServerTypes ==
  ASSUME AppServerTypeOK, SpawnInv, ServerMoves
  PROVE  AppServerTypeOK'
<1> USE DEF link
<1>1. CASE SpawnFails
  BY <1>1, BecomeTypes DEF SpawnFails, StartFails, AppServerTypeOK
<1>2. CASE HandshakeFails
  BY <1>2, BecomeTypes, KilledTypes DEF HandshakeFails, StartFails, AppServerTypeOK
<1>3. CASE Spawns
  BY <1>3, OneMoreSpawned DEF Spawns, AppServerTypeOK, Last
<1>4. CASE HandshakeDone
  <2>1. sentTo' \in [Calls -> Children \cup {NoChild}]
    BY <1>4 DEF HandshakeDone, AppServerTypeOK
  <2> QED BY <1>4, <2>1, BecomeTypes DEF HandshakeDone, AppServerTypeOK
<1>5. ASSUME NEW c \in Children, Dies(c) PROVE AppServerTypeOK'
  BY <1>5 DEF Dies, AppServerTypeOK
<1>6. ASSUME NEW c \in Children, ExitHandled(c) PROVE AppServerTypeOK'
  <2>1. call' = Become(Sent \cup Waiting, "failed") \/ call' = Become(Sent, "failed")
    BY <1>6 DEF ExitHandled, PendingRejected
  <2>2. proc' = Kill(Newest) \/ proc' = proc
    BY <1>6 DEF ExitHandled, PendingRejected
  <2>3. /\ child' = NoChild /\ status' \in {"idle", "unavailable"} /\ start' \in {start, "none"}
        /\ unheard' \subseteq unheard /\ closer' \in {closer, "closed"} /\ closing' \in {closing, FALSE}
        /\ UNCHANGED <<sentTo, ending>>
    <3>1. closer' \in {closer, "closed"} /\ closing' \in {closing, FALSE}
      BY <1>6 DEF ExitHandled
    <3>2. status' \in {"idle", "unavailable"} /\ start' \in {start, "none"}
      BY <1>6 DEF ExitHandled, PendingRejected
    <3> QED BY <1>6, <3>1, <3>2 DEF ExitHandled
  <2>4. call' \in [Calls -> {"idle", "waiting", "sent", "answered", "failed"}]
    BY <2>1, BecomeTypes
  <2>5. proc' \in [Children -> {"none", "live", "killed", "dead"}]
    BY <2>2, KilledTypes DEF AppServerTypeOK
  <2>6. forgotten' \subseteq Children
    BY <1>6 DEF ExitHandled, Live, AppServerTypeOK
  <2> QED BY <2>3, <2>4, <2>5, <2>6 DEF AppServerTypeOK
<1>7. ASSUME NEW q \in Calls, Answers(q) \/ CallTimesOut(q) PROVE AppServerTypeOK'
  BY <1>7 DEF Answers, CallTimesOut, AppServerTypeOK
<1> QED BY <1>1, <1>2, <1>3, <1>4, <1>5, <1>6, <1>7 DEF ServerMoves
LEMMA KillSpawnsNone ==
  ASSUME NEW c, NEW d \in Children, AppServerTypeOK
  PROVE  Kill(c)[d] = "none" <=> proc[d] = "none"
BY DEF Kill, AppServerTypeOK

LEMMA ServerSpawns ==
  ASSUME AppServerTypeOK, SpawnInv, ServerMoves
  PROVE  SpawnInv'
<1>1. CASE Spawns
  BY <1>1, OneMoreSpawned
<1>2. CASE SpawnFails \/ HandshakeDone \/ \E q \in Calls : Answers(q) \/ CallTimesOut(q)
  <2>1. proc' = proc /\ start' \in {start, "none"}
    BY <1>2 DEF SpawnFails, StartFails, HandshakeDone, Answers, CallTimesOut
  <2> QED BY <2>1, SameSpawned
<1>3. CASE HandshakeFails
  <2>1. proc' = Kill(Newest) /\ start' = "none"
    BY <1>3 DEF HandshakeFails, StartFails
  <2> QED BY <2>1, SameSpawned, KillSpawnsNone
<1>4. ASSUME NEW c \in Children, Dies(c) PROVE SpawnInv'
  <2>1. (\A d \in Children : proc'[d] = "none" <=> proc[d] = "none") /\ start' = start
    BY <1>4 DEF Dies, AppServerTypeOK
  <2> QED BY <2>1, SameSpawned
<1>5. ASSUME NEW c \in Children, ExitHandled(c) PROVE SpawnInv'
  <2>1. (proc' = Kill(Newest) \/ proc' = proc) /\ start' \in {start, "none"}
    BY <1>5 DEF ExitHandled, PendingRejected
  <2> QED BY <2>1, SameSpawned, KillSpawnsNone
<1> QED BY <1>1, <1>2, <1>3, <1>4, <1>5 DEF ServerMoves

LEMMA CloserMoves ==
  ASSUME ServerMoves
  PROVE  /\ closer' = closer \/ (closer = "waiting" /\ closer' = "closed")
         /\ closing' \in {closing, FALSE}
BY DEF ServerMoves, SpawnFails, HandshakeFails, Spawns, HandshakeDone, Dies, ExitHandled, Answers,
       CallTimesOut, link

LEMMA ServerStep ==
  ASSUME BridgeInv, AppServerStep
  PROVE  BridgeInv'
<1> USE TypeIs DEF BridgeInv
<1>1. ServerMoves /\ (faults' = faults \/ Fault) /\ UNCHANGED <<owner, bridge, work, shutdown>>
  BY ServerStepIs
<1>2. TypeOK' /\ SpawnInv'
  BY <1>1, ServerTypes, ServerSpawns, ReloadTypeKept, WorkTypeKept, ShutdownTypeKept
<1>3. OwnerInv' /\ FenceInv'
  BY <1>1, OwnerKept, FenceKept DEF bridge, owner, process, client
<1>4. DownInv'
  BY <1>1, CloserMoves DEF DownInv, bridge, process, client, shutdown
<1>5. ShutInv'
  BY <1>1, CloserMoves DEF ShutInv, TypeOK, AppServerTypeOK, bridge, process, shutdown
<1> QED BY <1>2, <1>3, <1>4, <1>5

-----------------------------------------------------------------------------
(* The receipts *)

MayBecome(from, to) ==
  \/ from = "none" /\ to = "accepted"
  \/ from = "accepted" /\ to \in {"approved", "failed"}
  \/ from = "approved" /\ to \in {"dispatching", "failed"}
  \/ from = "dispatching" /\ to \in {"running", "unknown"}
  \/ from = "running" /\ to \in {"completed", "unknown"}

ReceiptMoves(r, to) ==
  /\ receipt' = Set(r, to)
  /\ MayBecome(receipt[r], to)
  /\ receipt[r] = "none" => ~Busy

(* A step moves one receipt at most *)
OneMoves == receipt' = receipt \/ \E r \in Requests, to \in States : ReceiptMoves(r, to)

LEMMA StateNames == Standing \subseteq States /\ Over \subseteq States /\ "none" \in States
BY DEF Standing, Over, States

LEMMA MovedReceipts ==
  ASSUME SelfReloadTypeOK, NEW r \in Requests, NEW to \in States, ReceiptMoves(r, to)
  PROVE  /\ receipt' \in [Requests -> States]
         /\ receipt'[r] = to /\ \A s \in Requests : s # r => receipt'[s] = receipt[s]
BY DEF SelfReloadTypeOK, ReceiptMoves, Set

LEMMA MovesAhead ==
  ASSUME SelfReloadTypeOK, OneMoves
  PROVE  /\ receipt' \in [Requests -> States]
         /\ \A r \in Requests :
              /\ receipt'[r] \notin Over => receipt[r] \notin Over
              /\ receipt'[r] \in {"none", "accepted", "approved"} =>
                   receipt[r] \in {"none", "accepted", "approved"}
              /\ receipt'[r] \in {"dispatching", "running", "unknown"} =>
                   receipt[r] \in {"approved", "dispatching", "running", "unknown"}
<1>1. CASE receipt' = receipt
  BY <1>1 DEF SelfReloadTypeOK
<1>2. ASSUME NEW r \in Requests, NEW to \in States, ReceiptMoves(r, to)
      PROVE  /\ receipt' \in [Requests -> States]
             /\ \A s \in Requests :
                  /\ receipt'[s] \notin Over => receipt[s] \notin Over
                  /\ receipt'[s] \in {"none", "accepted", "approved"} =>
                       receipt[s] \in {"none", "accepted", "approved"}
                  /\ receipt'[s] \in {"dispatching", "running", "unknown"} =>
                       receipt[s] \in {"approved", "dispatching", "running", "unknown"}
  <2>1. MayBecome(receipt[r], to)
    BY <1>2 DEF ReceiptMoves
  <2> QED BY <1>2, <2>1, MovedReceipts DEF MayBecome, Over, SelfReloadTypeOK
<1> QED BY <1>1, <1>2 DEF OneMoves

(* One reload at a time *)
LEMMA StandsAlone ==
  ASSUME SelfReloadTypeOK, OwnerInv, OneMoves, NEW p \in Requests, NEW q \in Requests,
         receipt'[p] \in Standing, receipt'[q] \in Standing
  PROVE  p = q
<1>1. CASE receipt' = receipt
  BY <1>1 DEF OwnerInv
<1>2. ASSUME NEW r \in Requests, NEW to \in States, ReceiptMoves(r, to) PROVE p = q
  <2>1. MayBecome(receipt[r], to) /\ (receipt[r] = "none" => \A s \in Requests : receipt[s] \notin Standing)
    BY <1>2 DEF ReceiptMoves, Busy, Standing
  <2>2. receipt'[r] = to /\ \A s \in Requests : s # r => receipt'[s] = receipt[s]
    BY <1>2, MovedReceipts
  <2>3. receipt[r] \in Standing \cup {"none"}
    BY <2>1 DEF MayBecome, Standing
  <2> QED BY <2>1, <2>2, <2>3 DEF OwnerInv
<1> QED BY <1>1, <1>2 DEF OneMoves

LEMMA SaveMoves ==
  ASSUME SelfReloadTypeOK, NEW r \in Requests, NEW to \in States, Save(r, to),
         MayBecome(receipt[r], to), receipt[r] = "none" => ~Busy
  PROVE  /\ OneMoves /\ (faults' = faults \/ Fault) /\ ownerUp' \in {ownerUp, FALSE}
         /\ receipt' = Set(r, to) \/ (receipt' = receipt /\ ownerUp' = FALSE)
         /\ ownerUp' = TRUE => receipt' = Set(r, to)
BY DEF Save, Saved, SaveFails, OneMoves, ReceiptMoves

(* What the owner makes of a message *)
LEMMA ServedMoves ==
  ASSUME SelfReloadTypeOK, NEW r \in Requests, NEW changed \in {Approved(r), Resolved(r)},
         receipt' \in {receipt, changed}
  PROVE  /\ OneMoves
         /\ \A s \in Requests : receipt'[s] = "approved" =>
              receipt[s] = "approved" \/ (s = r /\ receipt[r] = "accepted" /\ changed = Approved(r))
         /\ \A s \in Requests : receipt'[s] = "completed" => receipt[s] = "completed"
<1>1. CASE receipt' = receipt
  BY <1>1 DEF OneMoves
<1>2. CASE receipt' # receipt
  <2>1. receipt[r] = "accepted" /\ \E to \in {"approved", "failed"} :
          receipt' = Set(r, to) /\ (to = "approved" => changed = Approved(r))
    BY <1>2 DEF Approved, Resolved
  <2>2. PICK to \in {"approved", "failed"} :
          receipt' = Set(r, to) /\ (to = "approved" => changed = Approved(r))
    BY <2>1
  <2>3. ReceiptMoves(r, to) /\ to \in States
    BY <2>1, <2>2 DEF ReceiptMoves, MayBecome, States
  <2>4. receipt'[r] = to /\ \A s \in Requests : s # r => receipt'[s] = receipt[s]
    BY <2>3, MovedReceipts
  <2> QED BY <2>1, <2>2, <2>3, <2>4 DEF OneMoves
<1> QED BY <1>1, <1>2

-----------------------------------------------------------------------------
(* The messages *)

Approvals == [Requests -> {"none", "asking", "checked", "sent"}]
MessageSet == {"approve", "resolve"} \X Requests

MessageMoves ==
  /\ OneMoves /\ UNCHANGED <<expired, job, stage, executions, process>>
  /\ faults' = faults \/ Fault
  /\ ownerUp' \in BOOLEAN
  /\ UNCHANGED <<receipt, ownerUp>> \/ stage = "none"
  /\ target' \in [Requests -> 0 .. MaxPid]
  /\ \A r \in Requests : target'[r] = target[r] \/ (target'[r] = pid /\ receipt'[r] \in {"none", "accepted"})
  /\ polling' \in BOOLEAN /\ approval' \in Approvals
  /\ resolving' \subseteq Requests /\ late' \subseteq MessageSet
  /\ \A r \in Requests :
       /\ approval'[r] # "none" => approval[r] # "none" \/ alive
       /\ approval'[r] = "sent" => approval[r] = "sent" \/ fence' = r
       /\ <<"approve", r>> \in late' => <<"approve", r>> \in late \/ approval[r] = "sent"
       /\ receipt'[r] = "approved" =>
            \/ receipt[r] = "approved"
            \/ receipt[r] = "accepted" /\ (approval[r] = "sent" \/ <<"approve", r>> \in late)
       /\ receipt'[r] = "completed" => receipt[r] = "completed"
  /\ \/ fence' = fence
     \/ \E r \in Requests : fence = r /\ fence' = NoRequest /\ receipt'[r] \in Over
     \/ \E r \in Requests : fence = NoRequest /\ fence' = r /\ alive

LEMMA MessageTypes ==
  ASSUME SelfReloadTypeOK, MessageMoves
  PROVE  SelfReloadTypeOK'
<1>1. receipt' \in [Requests -> States]
  BY MovesAhead DEF MessageMoves
<1>2. faults' \in 0 .. MaxFaults
  BY SelfReloadAssumption DEF SelfReloadTypeOK, MessageMoves, Fault
<1>3. fence' \in Requests \cup {NoRequest, Stop}
  BY DEF SelfReloadTypeOK, MessageMoves
<1> QED BY <1>1, <1>2, <1>3 DEF SelfReloadTypeOK, MessageMoves, Approvals, MessageSet, process

LEMMA MessageOwner ==
  ASSUME SelfReloadTypeOK, OwnerInv, MessageMoves
  PROVE  OwnerInv'
<1>1. UNCHANGED <<job, stage, executions, pid>> /\ (UNCHANGED <<receipt, ownerUp>> \/ stage = "none")
  BY DEF MessageMoves, process
<1>2. \A r \in Requests : receipt'[r] \in {"none", "accepted", "approved"} => executions'[r] = 0
  BY <1>1, MovesAhead DEF MessageMoves, OwnerInv
<1>3. \A r, s \in Requests : receipt'[r] \in Standing /\ receipt'[s] \in Standing => r = s
  BY StandsAlone DEF MessageMoves
<1>4. \A r \in Requests : target'[r] <= pid'
  BY <1>1, SelfReloadAssumption DEF MessageMoves, OwnerInv, SelfReloadTypeOK
<1>5. stage' # "none" =>
        /\ ownerUp' /\ job' \in Requests
        /\ receipt'[job'] = IF stage' = "run" THEN "dispatching" ELSE "running"
        /\ executions'[job'] = IF stage' \in {"run", "execute"} THEN 0 ELSE 1
  BY <1>1 DEF OwnerInv
<1>6. stage' = "stop" => target'[job'] = pid'
  BY <1>1, <1>5 DEF MessageMoves, OwnerInv
<1> QED BY <1>2, <1>3, <1>4, <1>5, <1>6 DEF OwnerInv

LEMMA MessageFence ==
  ASSUME SelfReloadTypeOK, FenceInv, MessageMoves
  PROVE  FenceInv'
<1>1. UNCHANGED process
  BY DEF MessageMoves
<1>2. ASSUME NEW r \in Requests,
             receipt'[r] \in {"approved", "dispatching", "running", "unknown"}, target'[r] = pid', alive'
      PROVE  fence' = r
  <2>1. receipt[r] \notin Over /\ receipt'[r] \notin Over
    BY <1>2, MovesAhead DEF MessageMoves, Over
  <2>2. target'[r] = target[r]
    BY <1>2 DEF MessageMoves
  <2>3. fence = r
    <3>1. CASE receipt[r] \in {"approved", "dispatching", "running", "unknown"}
      BY <1>1, <1>2, <2>2, <3>1 DEF FenceInv, ApprovedIsFenced, process
    <3>2. CASE receipt[r] \notin {"approved", "dispatching", "running", "unknown"}
      <4>1. receipt'[r] = "approved"
        BY <1>2, <3>2, MovesAhead DEF MessageMoves
      <4>2. approval[r] = "sent" \/ <<"approve", r>> \in late
        BY <3>2, <4>1 DEF MessageMoves
      <4> QED BY <2>1, <4>2 DEF FenceInv
    <3> QED BY <3>1, <3>2
  <2> QED BY <2>1, <2>3, Identifiers DEF MessageMoves
<1>3. ASSUME NEW r \in Requests, receipt'[r] \notin Over,
             approval'[r] = "sent" \/ <<"approve", r>> \in late'
      PROVE  fence' = r
  <2>1. receipt[r] \notin Over
    BY <1>3, MovesAhead DEF MessageMoves
  <2>2. CASE approval[r] = "sent" \/ <<"approve", r>> \in late
    <3>1. fence = r
      BY <2>1, <2>2 DEF FenceInv
    <3> QED BY <1>3, <3>1, Identifiers DEF MessageMoves
  <2>3. CASE ~(approval[r] = "sent" \/ <<"approve", r>> \in late)
    BY <1>3, <2>3 DEF MessageMoves
  <2> QED BY <2>2, <2>3
<1> QED BY <1>2, <1>3 DEF FenceInv, ApprovedIsFenced

LEMMA MessageKeeps ==
  ASSUME BridgeInv, MessageMoves, UNCHANGED <<appServer, work, shutdown>>
  PROVE  BridgeInv'
<1> USE TypeIs DEF BridgeInv
<1>1. TypeOK'
  BY MessageTypes, AppServerTypeKept, WorkTypeKept, ShutdownTypeKept
<1>2. SpawnInv'
  BY SpawnKept DEF appServer
<1>3. OwnerInv' /\ FenceInv'
  BY MessageOwner, MessageFence
<1>4. DownInv'
  BY DEF DownInv, MessageMoves, process, appServer, link, shutdown
<1>5. ShutInv'
  BY Identifiers DEF ShutInv, MessageMoves, process, appServer, link, shutdown
<1> QED BY <1>1, <1>2, <1>3, <1>4, <1>5

LEMMA UnheardMoves ==
  ASSUME SelfReloadTypeOK, NEW message \in SUBSET MessageSet, Unheard(message)
  PROVE  /\ faults' = faults \/ Fault
         /\ late \subseteq late' /\ late' \subseteq late \cup message /\ late' \subseteq MessageSet
BY DEF SelfReloadTypeOK, Unheard, MessageSet

LEMMA ReleaseMoves ==
  ASSUME NEW r \in Requests, receipt'[r] \in Over, Release(r)
  PROVE  fence' = fence \/ \E s \in Requests : fence = s /\ fence' = NoRequest /\ receipt'[s] \in Over
BY DEF Release

LEMMA RequestMoves ==
  ASSUME BridgeInv, NEW r \in Requests, Request(r)
  PROVE  MessageMoves
<1> USE TypeIs DEF BridgeInv
<1>1. receipt[r] = "none" /\ ~Busy /\ Save(r, "accepted") /\ stage = "none"
  BY DEF Request, Serves
<1>2. "accepted" \in States /\ MayBecome(receipt[r], "accepted")
  BY <1>1 DEF States, MayBecome
<1>3. /\ OneMoves /\ (faults' = faults \/ Fault) /\ ownerUp' \in BOOLEAN
      /\ receipt' = Set(r, "accepted") \/ receipt' = receipt
  BY <1>1, <1>2, SaveMoves DEF SelfReloadTypeOK
<1>4. /\ receipt'[r] \in {"none", "accepted"}
      /\ \A s \in Requests : s # r => receipt'[s] = receipt[s]
  BY <1>1, <1>3 DEF Set, SelfReloadTypeOK
<1>5. /\ target' \in [Requests -> 0 .. MaxPid] /\ target'[r] = pid
      /\ \A s \in Requests : s # r => target'[s] = target[s]
  BY SelfReloadAssumption DEF Request, SelfReloadTypeOK
<1>6. UNCHANGED <<expired, job, stage, executions, bridge>>
  BY DEF Request
<1> QED BY <1>1, <1>3, <1>4, <1>5, <1>6
        DEF MessageMoves, SelfReloadTypeOK, Approvals, MessageSet, bridge, process, client

LEMMA AskingMoves ==
  ASSUME BridgeInv, NEW r \in Requests,
         AsksReceipt(r) \/ ReceiptAnswered(r) \/ ReceiptLost(r) \/ ApprovalRefused(r) \/ Polls \/ ReceiptShown(r)
  PROVE  MessageMoves
<1> USE TypeIs DEF BridgeInv
<1>1. UNCHANGED <<owner, process>> /\ OneMoves
  BY DEF AsksReceipt, ReceiptAnswered, ReceiptLost, ApprovalRefused, Polls, ReceiptShown, owner, OneMoves
<1>2. polling' = polling /\ late' = late /\ resolving' \subseteq Requests /\ (faults' = faults \/ Fault)
  BY Identifiers
     DEF SelfReloadTypeOK, AsksReceipt, ReceiptAnswered, ReceiptLost, ApprovalRefused, Polls, ReceiptShown,
         CallEnds, Unheard, client
<1>3. /\ approval' \in Approvals
      /\ \A s \in Requests : approval'[s] # "none" => approval[s] # "none" \/ alive
      /\ \A s \in Requests : approval'[s] = "sent" => approval[s] = "sent"
  BY DEF SelfReloadTypeOK, Approvals, AsksReceipt, ReceiptAnswered, ReceiptLost, ApprovalRefused, Polls,
         ReceiptShown, CallEnds, client
<1>4. fence' = fence \/ \E s \in Requests : fence = s /\ fence' = NoRequest /\ receipt'[s] \in Over
  <2>1. CASE ReceiptShown(r)
    BY <1>1, <2>1, ReleaseMoves DEF ReceiptShown, owner
  <2>2. CASE ~ReceiptShown(r)
    BY <2>2 DEF AsksReceipt, ReceiptAnswered, ReceiptLost, ApprovalRefused, Polls
  <2> QED BY <2>1, <2>2
<1> QED BY <1>1, <1>2, <1>3, <1>4 DEF MessageMoves, SelfReloadTypeOK, owner, MessageSet

LEMMA FencesMoves ==
  ASSUME BridgeInv, NEW r \in Requests, Fences(r)
  PROVE  MessageMoves
<1> USE TypeIs DEF BridgeInv
<1>1. UNCHANGED <<owner, process, resolving, late, faults>> /\ OneMoves /\ alive
  BY DEF Fences, owner, OneMoves, DownInv
<1>2. /\ approval' \in Approvals /\ polling' \in BOOLEAN
      /\ \A s \in Requests : s # r => approval'[s] = approval[s]
      /\ approval'[r] = "sent" => fence' = r
      /\ fence' = fence \/ (fence = NoRequest /\ fence' = r)
  BY DEF Fences, SelfReloadTypeOK, Approvals
<1> QED BY <1>1, <1>2 DEF MessageMoves, SelfReloadTypeOK, owner, MessageSet

LEMMA ApprovalMoves ==
  ASSUME BridgeInv, NEW r \in Requests, ApprovalAnswered(r) \/ ApprovalLost(r) \/ ApprovalBreaksOwner(r)
  PROVE  MessageMoves
<1> USE TypeIs DEF BridgeInv
<1>1. /\ approval[r] = "sent" /\ approval' = [approval EXCEPT ![r] = "none"]
      /\ resolving' = resolving \cup {r}
      /\ UNCHANGED <<target, expired, job, stage, executions, process, polling>>
  BY DEF ApprovalAnswered, ApprovalLost, ApprovalBreaksOwner, CallEnds, owner
<1>2. /\ approval' \in Approvals
      /\ \A s \in Requests : approval'[s] # "none" => approval'[s] = approval[s]
  BY <1>1 DEF SelfReloadTypeOK, Approvals
<1>3. /\ receipt' \in {receipt, Approved(r)} /\ (receipt' # receipt => stage = "none")
      /\ ownerUp' \in BOOLEAN /\ (UNCHANGED <<receipt, ownerUp>> \/ stage = "none")
  BY DEF ApprovalAnswered, ApprovalLost, ApprovalBreaksOwner, Saved, SaveFails, Serves, owner, SelfReloadTypeOK
<1>4. /\ OneMoves
      /\ \A s \in Requests : receipt'[s] = "approved" =>
           receipt[s] = "approved" \/ (s = r /\ receipt[r] = "accepted")
      /\ \A s \in Requests : receipt'[s] = "completed" => receipt[s] = "completed"
  BY <1>3, ServedMoves
<1>5. /\ faults' = faults \/ Fault
      /\ late' \subseteq MessageSet
      /\ \A s \in Requests : <<"approve", s>> \in late' => <<"approve", s>> \in late \/ s = r
  <2>1. CASE ApprovalLost(r)
    <3>1. {<<"approve", r>>} \in SUBSET MessageSet
      BY DEF MessageSet
    <3> QED BY <2>1, <3>1, UnheardMoves DEF ApprovalLost
  <2>2. CASE ~ApprovalLost(r)
    BY <2>2 DEF ApprovalAnswered, ApprovalBreaksOwner, Saved, SaveFails, SelfReloadTypeOK, MessageSet
  <2> QED BY <2>1, <2>2
<1>6. fence' = fence \/ \E s \in Requests : fence = s /\ fence' = NoRequest /\ receipt'[s] \in Over
  BY ReleaseMoves DEF ApprovalAnswered, ApprovalLost, ApprovalBreaksOwner
<1> QED BY <1>1, <1>2, <1>3, <1>4, <1>5, <1>6 DEF MessageMoves, SelfReloadTypeOK

LEMMA ResolveMoves ==
  ASSUME BridgeInv, NEW r \in Requests, ResolveAnswered(r) \/ ResolveLost(r) \/ ResolveBreaksOwner(r)
  PROVE  MessageMoves
<1> USE TypeIs DEF BridgeInv
<1>1. /\ resolving' = resolving \ {r}
      /\ UNCHANGED <<target, expired, job, stage, executions, process, polling, approval>>
  BY DEF ResolveAnswered, ResolveLost, ResolveBreaksOwner, owner
<1>2. /\ receipt' \in {receipt, Resolved(r)} /\ (receipt' # receipt => stage = "none")
      /\ ownerUp' \in BOOLEAN /\ (UNCHANGED <<receipt, ownerUp>> \/ stage = "none")
  BY DEF ResolveAnswered, ResolveLost, ResolveBreaksOwner, Saved, SaveFails, Serves, owner, SelfReloadTypeOK
<1>3. receipt' = receipt \/ receipt[r] = "accepted"
  BY <1>2 DEF Resolved
<1>4. OneMoves /\ \A s \in Requests :
        /\ receipt'[s] = "approved" => receipt[s] = "approved"
        /\ receipt'[s] = "completed" => receipt[s] = "completed"
  <2>1. Resolved(r)[r] # "approved" \/ receipt[r] = "approved"
    BY DEF Resolved, Set, SelfReloadTypeOK
  <2>2. \A s \in Requests : s # r => Resolved(r)[s] = receipt[s]
    BY DEF Resolved, Set, SelfReloadTypeOK
  <2> QED BY <1>2, <2>1, <2>2, ServedMoves
<1>5. /\ faults' = faults \/ Fault
      /\ late' \subseteq MessageSet
      /\ \A s \in Requests : <<"approve", s>> \in late' => <<"approve", s>> \in late
  <2>1. CASE ResolveLost(r)
    <3>1. {<<"resolve", r>>} \in SUBSET MessageSet
      BY DEF MessageSet
    <3> QED BY <2>1, <3>1, UnheardMoves DEF ResolveLost
  <2>2. CASE ~ResolveLost(r)
    BY <2>2 DEF ResolveAnswered, ResolveBreaksOwner, Saved, SaveFails, SelfReloadTypeOK, MessageSet
  <2> QED BY <2>1, <2>2
<1>6. fence' = fence \/ \E s \in Requests : fence = s /\ fence' = NoRequest /\ receipt'[s] \in Over
  BY ReleaseMoves DEF ResolveAnswered, ResolveLost, ResolveBreaksOwner
<1> QED BY <1>1, <1>2, <1>4, <1>5, <1>6 DEF MessageMoves, SelfReloadTypeOK, Approvals

LEMMA LateMoves ==
  ASSUME BridgeInv, LateServed
  PROVE  MessageMoves
<1> USE TypeIs DEF BridgeInv
<1>1. PICK m \in late :
        /\ late' = late \ {m}
        /\ Saved(CASE m[1] = "resolve" -> Resolved(m[2])
                   [] m[1] = "approve" -> IF m[2] \in expired THEN receipt ELSE Approved(m[2]))
  BY DEF LateServed
<1>2. m[1] \in {"approve", "resolve"} /\ m[2] \in Requests /\ m = <<m[1], m[2]>>
  BY DEF SelfReloadTypeOK
<1>3. PICK r \in Requests : r = m[2]
  BY <1>2
<1>4. UNCHANGED <<ownerUp, faults>> /\ stage = "none"
      /\ UNCHANGED <<target, expired, job, stage, executions, process, fence, polling, approval, resolving>>
  BY <1>1 DEF LateServed, Saved, Serves
<1>5. CASE m[1] = "resolve"
  <2>1. receipt' \in {receipt, Resolved(r)}
    BY <1>1, <1>3, <1>5 DEF Saved
  <2>2. OneMoves /\ \A s \in Requests : receipt'[s] = "completed" => receipt[s] = "completed"
    BY <2>1, ServedMoves
  <2>3. \A s \in Requests : receipt'[s] = "approved" => receipt[s] = "approved"
    BY <2>1 DEF Resolved, Set, SelfReloadTypeOK
  <2> QED BY <1>1, <1>4, <2>2, <2>3 DEF MessageMoves, SelfReloadTypeOK, Approvals, MessageSet
<1>6. CASE m[1] = "approve"
  <2>1. receipt' \in {receipt, Approved(r)}
    BY <1>1, <1>3, <1>6 DEF Saved
  <2>2. /\ OneMoves
        /\ \A s \in Requests : receipt'[s] = "approved" =>
             receipt[s] = "approved" \/ (s = r /\ receipt[r] = "accepted")
        /\ \A s \in Requests : receipt'[s] = "completed" => receipt[s] = "completed"
    BY <2>1, ServedMoves
  <2>3. <<"approve", r>> \in late
    BY <1>1, <1>2, <1>3, <1>6
  <2> QED BY <1>1, <1>4, <2>2, <2>3 DEF MessageMoves, SelfReloadTypeOK, Approvals, MessageSet
<1> QED BY <1>2, <1>5, <1>6

LEMMA MessagesMove ==
  ASSUME BridgeInv, Messages
  PROVE  MessageMoves
<1>1. CASE LateServed
  BY <1>1, LateMoves
<1>2. CASE Polls
  BY <1>2, AskingMoves DEF Polls
<1>3. ASSUME NEW r \in Requests,
             \/ Request(r) \/ AsksReceipt(r) \/ ReceiptAnswered(r) \/ ReceiptLost(r) \/ Fences(r)
             \/ ApprovalRefused(r) \/ ApprovalAnswered(r) \/ ApprovalLost(r) \/ ApprovalBreaksOwner(r)
             \/ ResolveAnswered(r) \/ ResolveLost(r) \/ ResolveBreaksOwner(r) \/ ReceiptShown(r)
      PROVE  MessageMoves
  BY <1>3, RequestMoves, AskingMoves, FencesMoves, ApprovalMoves, ResolveMoves
<1> QED BY <1>1, <1>2, <1>3 DEF Messages

LEMMA MessageStep ==
  ASSUME BridgeInv, Messages
  PROVE  BridgeInv'
BY MessagesMove, MessageKeeps DEF Messages

-----------------------------------------------------------------------------
(* The owner *)

(* What the owner writes down of a reload keeps the fences *)
LEMMA TickFence ==
  ASSUME SelfReloadTypeOK, FenceInv, OneMoves, UNCHANGED <<target, bridge>>,
         \A r \in Requests : receipt'[r] = "approved" => receipt[r] = "approved"
  PROVE  FenceInv'
<1>1. UNCHANGED <<process, pid, alive, fence, approval, late>>
  BY DEF bridge, process, client
<1>2. ASSUME NEW r \in Requests,
             receipt'[r] \in {"approved", "dispatching", "running", "unknown"}, target'[r] = pid', alive'
      PROVE  fence' = r
  <2>1. receipt[r] \in {"approved", "dispatching", "running", "unknown"}
    BY <1>2, MovesAhead
  <2> QED BY <1>1, <1>2, <2>1 DEF FenceInv, ApprovedIsFenced
<1>3. \A r \in Requests : receipt'[r] \notin Over =>
        /\ approval'[r] = "sent" => fence' = r
        /\ <<"approve", r>> \in late' => fence' = r
  BY <1>1, MovesAhead DEF FenceInv
<1> QED BY <1>2, <1>3 DEF FenceInv, ApprovedIsFenced

LEMMA TickOwner ==
  ASSUME SelfReloadTypeOK, OwnerInv, OneMoves, UNCHANGED <<target, executions, pid>>,
         stage' # "none" =>
           /\ ownerUp' /\ job' \in Requests
           /\ receipt'[job'] = IF stage' = "run" THEN "dispatching" ELSE "running"
           /\ executions[job'] = IF stage' \in {"run", "execute"} THEN 0 ELSE 1,
         stage' = "stop" => stage = "stop" /\ job' = job
  PROVE  OwnerInv'
<1>1. \A r \in Requests : receipt'[r] \in {"none", "accepted", "approved"} => executions'[r] = 0
  BY MovesAhead DEF OwnerInv
<1>2. \A r, s \in Requests : receipt'[r] \in Standing /\ receipt'[s] \in Standing => r = s
  BY StandsAlone
<1> QED BY <1>1, <1>2 DEF OwnerInv

LEMMA TickTypes ==
  ASSUME SelfReloadTypeOK, OneMoves, UNCHANGED <<target, bridge>>, faults' = faults \/ Fault,
         expired' \subseteq Requests, ownerUp' \in BOOLEAN, job' \in Requests \cup {NoRequest},
         stage' \in {"none", "run", "execute", "stop", "start", "check"},
         executions' \in [Requests -> Nat]
  PROVE  SelfReloadTypeOK'
<1>1. receipt' \in [Requests -> States]
  BY MovesAhead
<1>2. faults' \in 0 .. MaxFaults
  BY SelfReloadAssumption DEF SelfReloadTypeOK, Fault
<1> QED BY <1>1, <1>2 DEF SelfReloadTypeOK, bridge, process, client

(* A step that leaves all to the owner *)
LEMMA OwnerKeeps ==
  ASSUME BridgeInv, SelfReloadTypeOK', OwnerInv', FenceInv', UNCHANGED <<appServer, bridge, work, shutdown>>
  PROVE  BridgeInv'
<1> USE TypeIs DEF BridgeInv
<1>1. TypeOK'
  BY AppServerTypeKept, WorkTypeKept, ShutdownTypeKept
<1>2. SpawnInv'
  BY SpawnKept DEF appServer
<1>3. DownInv' /\ ShutInv'
  BY DownKept, ShutKept DEF bridge, process, client, appServer, link, shutdown
<1> QED BY <1>1, <1>2, <1>3

LEMMA TickMovesOne ==
  ASSUME BridgeInv, NEW r \in Requests,
         TickExpires(r) \/ TickRefuses(r) \/ TickDispatches(r, NoActiveWork), UNCHANGED <<appServer, work, shutdown>>
  PROVE  BridgeInv'
<1> USE TypeIs DEF BridgeInv
<1>1. PICK to \in {"failed", "dispatching"} :
        Save(r, to) /\ receipt[r] \in {"accepted", "approved"} /\ (to = "dispatching" => receipt[r] = "approved")
  BY DEF TickExpires, TickRefuses, TickDispatches
<1>2. to \in States /\ MayBecome(receipt[r], to)
  BY <1>1 DEF States, MayBecome
<1>3. /\ OneMoves /\ (faults' = faults \/ Fault) /\ ownerUp' \in {ownerUp, FALSE}
      /\ receipt' = Set(r, to) \/ (receipt' = receipt /\ ownerUp' = FALSE)
      /\ ownerUp' = TRUE => receipt' = Set(r, to)
  BY <1>1, <1>2, SaveMoves
<1>4. UNCHANGED <<target, expired, executions, bridge>> /\ stage = "none" /\ ownerUp
  BY DEF TickExpires, TickRefuses, TickDispatches
<1>5. \/ UNCHANGED <<job, stage>>
      \/ ownerUp' /\ job' = r /\ stage' = "run" /\ to = "dispatching"
  <2>1. CASE TickDispatches(r, NoActiveWork)
    <3>1. Save(r, "dispatching")
      BY <2>1 DEF TickDispatches
    <3>2. receipt[r] = "approved"
      BY <2>1 DEF TickDispatches
    <3>3. "dispatching" \in States /\ MayBecome(receipt[r], "dispatching")
      BY <3>2 DEF States, MayBecome
    <3>4. ownerUp' = TRUE => receipt' = Set(r, "dispatching")
      BY <3>1, <3>2, <3>3, SaveMoves
    <3>5. CASE to = "dispatching"
      BY <2>1, <3>5 DEF TickDispatches
    <3>6. CASE to = "failed"
      <4>1. Set(r, "dispatching") # Set(r, to)
        BY <3>6 DEF Set, SelfReloadTypeOK
      <4>2. ~ownerUp'
        BY <1>3, <3>4, <4>1
      <4> QED BY <2>1, <4>2 DEF TickDispatches
    <3> QED BY <3>5, <3>6
  <2>2. CASE ~TickDispatches(r, NoActiveWork)
    BY <2>2 DEF TickExpires, TickRefuses
  <2> QED BY <2>1, <2>2
<1>6. SelfReloadTypeOK'
  BY <1>3, <1>4, <1>5, TickTypes DEF SelfReloadTypeOK
<1>7. ownerUp' /\ stage' = "run" => receipt'[r] = "dispatching"
  <2> SUFFICES ASSUME ownerUp', stage' = "run" PROVE receipt'[r] = "dispatching"
    OBVIOUS
  <2>1. to = "dispatching"
    BY <1>4, <1>5
  <2>2. receipt' = Set(r, to)
    BY <1>3, <1>6 DEF SelfReloadTypeOK
  <2> QED BY <2>1, <2>2 DEF Set, SelfReloadTypeOK
<1>8. OwnerInv'
  <2>1. executions[r] = 0
    BY <1>1 DEF OwnerInv
  <2>2. UNCHANGED pid
    BY <1>4 DEF bridge, process
  <2> QED BY <1>3, <1>4, <1>5, <1>7, <2>1, <2>2, TickOwner
<1>9. \A s \in Requests : receipt'[s] = "approved" => receipt[s] = "approved"
  BY <1>1, <1>3 DEF Set, SelfReloadTypeOK
<1>10. FenceInv'
  BY <1>3, <1>4, <1>9, TickFence
<1> QED BY <1>4, <1>6, <1>8, <1>10, OwnerKeeps

(* The end of a reload, whatever becomes of the save *)
LEMMA EndsMoves ==
  ASSUME SelfReloadTypeOK, OwnerInv, stage \notin {"none", "run"}, NEW state \in {"unknown", "completed"},
         Ends(state), UNCHANGED <<target, expired, executions, bridge>>
  PROVE  /\ SelfReloadTypeOK' /\ OwnerInv' /\ OneMoves
         /\ \A r \in Requests : receipt'[r] = "approved" => receipt[r] = "approved"
<1>1. job \in Requests /\ receipt[job] = "running" /\ Save(job, state) /\ stage' = "none" /\ job' = NoRequest
  BY DEF OwnerInv, Ends
<1>2. state \in States /\ MayBecome(receipt[job], state)
  BY <1>1 DEF States, MayBecome
<1>3. /\ OneMoves /\ (faults' = faults \/ Fault) /\ ownerUp' \in {ownerUp, FALSE}
      /\ receipt' = Set(job, state) \/ receipt' = receipt
  BY <1>1, <1>2, SaveMoves
<1>4. SelfReloadTypeOK'
  BY <1>1, <1>3, TickTypes DEF SelfReloadTypeOK
<1>5. OwnerInv'
  BY <1>1, <1>3, TickOwner DEF bridge, process
<1>6. \A r \in Requests : receipt'[r] = "approved" => receipt[r] = "approved"
  BY <1>1, <1>3 DEF Set, SelfReloadTypeOK
<1> QED BY <1>3, <1>4, <1>5, <1>6

LEMMA TickRunsStep ==
  ASSUME BridgeInv, TickRuns, UNCHANGED <<appServer, work, shutdown>>
  PROVE  BridgeInv'
<1> USE TypeIs DEF BridgeInv
<1>1. /\ job \in Requests /\ receipt[job] = "dispatching" /\ executions[job] = 0 /\ Save(job, "running")
      /\ UNCHANGED <<target, expired, executions, bridge>>
      /\ IF ownerUp' THEN stage' = "execute" /\ job' = job ELSE stage' = "none" /\ job' = NoRequest
  BY DEF OwnerInv, TickRuns
<1>2. "running" \in States /\ MayBecome(receipt[job], "running")
  BY <1>1 DEF States, MayBecome
<1>3. /\ OneMoves /\ (faults' = faults \/ Fault) /\ ownerUp' \in {ownerUp, FALSE}
      /\ receipt' = Set(job, "running") \/ receipt' = receipt
      /\ ownerUp' = TRUE => receipt' = Set(job, "running")
  BY <1>1, <1>2, SaveMoves
<1>4. SelfReloadTypeOK'
  BY <1>1, <1>3, TickTypes DEF SelfReloadTypeOK
<1>5. Set(job, "running")[job] = "running"
  BY <1>1 DEF Set, SelfReloadTypeOK
<1>6. ownerUp' \in BOOLEAN
  BY <1>4 DEF SelfReloadTypeOK
<1>7. OwnerInv'
  BY <1>1, <1>3, <1>5, <1>6, TickOwner DEF bridge, process
<1>8. \A s \in Requests : receipt'[s] = "approved" => receipt[s] = "approved"
  BY <1>1, <1>3 DEF Set, SelfReloadTypeOK
<1>9. FenceInv'
  BY <1>1, <1>3, <1>8, TickFence
<1> QED BY <1>1, <1>4, <1>7, <1>9, OwnerKeeps

LEMMA TickInvokesStep ==
  ASSUME BridgeInv, TickInvokes(NoActiveWork), UNCHANGED <<appServer, work, shutdown>>
  PROVE  BridgeInv'
<1> USE TypeIs DEF BridgeInv
<1>1. /\ job \in Requests /\ receipt[job] = "running" /\ ownerUp /\ executions[job] = 0 /\ target[job] = pid
      /\ UNCHANGED <<receipt, target, expired, ownerUp, job, bridge, faults>>
      /\ stage' = "stop" /\ executions' = [executions EXCEPT ![job] = @ + 1]
  BY DEF OwnerInv, TickInvokes, Ready
<1>2. /\ executions' \in [Requests -> Nat] /\ executions'[job] = 1
      /\ \A r \in Requests : r # job => executions'[r] = executions[r]
  BY <1>1 DEF SelfReloadTypeOK
<1>3. SelfReloadTypeOK'
  BY <1>1, <1>2, TickTypes DEF SelfReloadTypeOK, OneMoves
<1>4. OwnerInv'
  <2>1. UNCHANGED pid
    BY <1>1 DEF bridge, process
  <2> QED BY <1>1, <1>2, <2>1 DEF OwnerInv
<1>5. FenceInv'
  BY <1>1, FenceKept DEF bridge, client
<1> QED BY <1>1, <1>3, <1>4, <1>5, OwnerKeeps

LEMMA OwnerRestartsMoves ==
  ASSUME SelfReloadTypeOK, OwnerInv, OwnerRestarts
  PROVE  OneMoves /\ \A r \in Requests : receipt'[r] # "approved"
<1>1. receipt' = [r \in Requests |-> Recovered(receipt[r])]
  BY DEF OwnerRestarts
<1>2. \A r \in Requests : receipt[r] \in States
  BY DEF SelfReloadTypeOK
<1>3. \A r \in Requests : Recovered(receipt[r]) # "approved"
  BY <1>2 DEF Recovered, States
<1>4. \A r \in Requests :
        receipt[r] \notin {"approved", "dispatching", "running"} => Recovered(receipt[r]) = receipt[r]
  BY <1>2 DEF Recovered, States
<1>5. CASE \A r \in Requests : receipt[r] \notin {"approved", "dispatching", "running"}
  <2>1. receipt' = receipt
    BY <1>1, <1>4, <1>5 DEF SelfReloadTypeOK
  <2> QED BY <1>1, <1>3, <2>1 DEF OneMoves
<1>6. ASSUME NEW r \in Requests, receipt[r] \in {"approved", "dispatching", "running"} PROVE OneMoves
  <2>1. \A s \in Requests : s # r => receipt[s] \notin {"approved", "dispatching", "running"}
    BY <1>6 DEF OwnerInv, Standing
  <2> DEFINE to == Recovered(receipt[r])
  <2>2. to \in States /\ MayBecome(receipt[r], to)
    BY <1>6 DEF Recovered, States, MayBecome
  <2>3. \A s \in Requests : s # r => receipt'[s] = receipt[s]
    BY <1>1, <1>4, <2>1
  <2>4. receipt'[r] = to
    BY <1>1
  <2> HIDE DEF to
  <2>5. receipt' = Set(r, to)
    BY <1>1, <2>3, <2>4 DEF Set, SelfReloadTypeOK
  <2> QED BY <1>6, <2>2, <2>5 DEF OneMoves, ReceiptMoves
<1> QED BY <1>1, <1>3, <1>5, <1>6

LEMMA OwnerStep ==
  ASSUME BridgeInv, OwnerTicks
  PROVE  BridgeInv'
<1> USE TypeIs DEF BridgeInv
<1>1. UNCHANGED <<appServer, work, shutdown>>
  BY DEF OwnerTicks
<1>2. ASSUME NEW r \in Requests, Expires(r) PROVE BridgeInv'
  <2>1. UNCHANGED <<receipt, target, ownerUp, job, stage, executions, bridge, faults>> /\ expired' \subseteq Requests
    BY <1>2 DEF Expires, SelfReloadTypeOK
  <2>2. SelfReloadTypeOK'
    BY <2>1, TickTypes DEF SelfReloadTypeOK, OneMoves
  <2>3. OwnerInv' /\ FenceInv'
    BY <2>1, FenceKept DEF OwnerInv, bridge, process, client
  <2> QED BY <1>1, <2>1, <2>2, <2>3, OwnerKeeps
<1>3. CASE TickTurnsBack(NoActiveWork)
  <2>1. stage = "execute" /\ Ends("unknown") /\ UNCHANGED <<target, expired, executions, bridge>>
    BY <1>3 DEF TickTurnsBack
  <2>2. /\ SelfReloadTypeOK' /\ OwnerInv' /\ OneMoves
        /\ \A r \in Requests : receipt'[r] = "approved" => receipt[r] = "approved"
    BY <2>1, EndsMoves
  <2> QED BY <1>1, <2>1, <2>2, TickFence, OwnerKeeps
<1>4. CASE OwnerCrashes
  <2>1. /\ UNCHANGED <<receipt, target, expired, executions, bridge>> /\ Fault
        /\ ownerUp' = FALSE /\ stage' = "none" /\ job' = NoRequest
    BY <1>4 DEF OwnerCrashes
  <2>2. SelfReloadTypeOK'
    BY <2>1, TickTypes DEF SelfReloadTypeOK, OneMoves
  <2>3. OwnerInv' /\ FenceInv'
    BY <2>1, FenceKept DEF OwnerInv, bridge, process, client
  <2> QED BY <1>1, <2>1, <2>2, <2>3, OwnerKeeps
<1>5. CASE OwnerRestarts
  <2>1. UNCHANGED <<target, expired, job, stage, executions, bridge, faults>> /\ ownerUp' = TRUE /\ stage = "none"
    BY <1>5 DEF OwnerRestarts, OwnerInv
  <2>2. OneMoves /\ \A r \in Requests : receipt'[r] # "approved"
    BY <1>5, OwnerRestartsMoves
  <2>3. SelfReloadTypeOK'
    BY <2>1, <2>2, TickTypes DEF SelfReloadTypeOK
  <2>4. OwnerInv'
    BY <2>1, <2>2, TickOwner DEF bridge, process
  <2>5. FenceInv'
    BY <2>1, <2>2, TickFence
  <2> QED BY <1>1, <2>1, <2>3, <2>4, <2>5, OwnerKeeps
<1> QED BY <1>1, <1>2, <1>3, <1>4, <1>5, TickMovesOne, TickRunsStep, TickInvokesStep DEF OwnerTicks

-----------------------------------------------------------------------------
(* The shutdown *)

LEMMA CloseMoves ==
  ASSUME AppServerTypeOK, Close
  PROVE  /\ AppServerTypeOK' /\ closer = "none" /\ closer' \in {"closed", "waiting"}
         /\ UNCHANGED <<child, status, start, proc, unheard, forgotten, call, sentTo>>
         /\ closer' = "closed" => child = NoChild
         /\ closer' = "waiting" => ending' = child
<1>1. CASE CloseFindsNoChild
  BY <1>1 DEF CloseFindsNoChild, AppServerTypeOK
<1>2. CASE CloseEndsInput
  BY <1>2 DEF CloseEndsInput, AppServerTypeOK
<1> QED BY <1>1, <1>2 DEF Close

(* The shutdown sets and takes down no fence of a reload *)
LEMMA ShutdownFence ==
  ASSUME FenceInv, UNCHANGED <<owner, pid, alive, approval, late>>, fence' = fence \/ fence \notin Requests
  PROVE  FenceInv'
BY DEF FenceInv, ApprovedIsFenced, owner

LEMMA ShutStep ==
  ASSUME BridgeInv, Shutting
  PROVE  BridgeInv'
<1> USE TypeIs DEF BridgeInv
<1>1. CASE RuntimeCloses
  <2>1. /\ AppServerTypeOK' /\ closer = "none" /\ UNCHANGED <<start, proc>>
        /\ shut = "closing" /\ polling' = FALSE
        /\ UNCHANGED <<owner, process, fence, approval, resolving, late, faults, work, shutdown>>
    BY <1>1, CloseMoves DEF RuntimeCloses
  <2>2. SelfReloadTypeOK'
    BY <2>1 DEF SelfReloadTypeOK, owner, process
  <2>3. alive /\ ~accepting
    BY <2>1 DEF DownInv, ShutInv
  <2>4. DownInv' /\ ShutInv'
    BY <2>1, <2>3 DEF DownInv, ShutInv, process, shutdown
  <2>5. OwnerInv' /\ FenceInv' /\ SpawnInv'
    BY <2>1, OwnerKept, FenceKept, SpawnKept DEF process, owner
  <2> QED BY <2>1, <2>2, <2>4, <2>5, WorkTypeKept, ShutdownTypeKept
<1>2. CASE RuntimeCloseTimesOut
  <2>1. /\ closer = "waiting" /\ closer' = "unknown" /\ UNCHANGED <<start, proc, closing>>
        /\ Fault /\ UNCHANGED <<owner, bridge, work, shutdown>>
    BY <1>2 DEF RuntimeCloseTimesOut, CloseTimesOut
  <2>2. AppServerTypeOK'
    BY <1>2 DEF RuntimeCloseTimesOut, CloseTimesOut, AppServerTypeOK
  <2>3. DownInv' /\ ShutInv'
    BY <2>1 DEF DownInv, ShutInv, bridge, process, client, shutdown
  <2>4. OwnerInv' /\ FenceInv' /\ SpawnInv' /\ SelfReloadTypeOK'
    BY <2>1, OwnerKept, FenceKept, SpawnKept, ReloadTypeKept DEF bridge, process, owner, client
  <2> QED BY <2>1, <2>2, <2>3, <2>4, WorkTypeKept, ShutdownTypeKept
<1>3. CASE ~(RuntimeCloses \/ RuntimeCloseTimesOut)
  <2>1. UNCHANGED <<appServer, owner, pid, alive, client, work>> /\ (faults' = faults \/ Fault)
    BY <1>3 DEF Shutting, ShutdownRefused, ShutdownBegins, DrainBegins, DrainFindsIdle, DrainFindsWork,
         DrainReleases, DrainKept, CloseEnds, DrainTimesOut, reloadVars, bridge, process
  <2>2. fence' = fence \/ (fence \in {NoRequest, Stop} /\ fence' \in {NoRequest, Stop})
    BY <1>3 DEF Shutting, ShutdownRefused, ShutdownBegins, DrainBegins, DrainFindsIdle, DrainFindsWork,
         DrainReleases, DrainKept, CloseEnds, DrainTimesOut, reloadVars, bridge, ShutInv
  <2>3. accepting' \in BOOLEAN
    BY <1>3 DEF Shutting, ShutdownRefused, ShutdownBegins, DrainBegins, DrainFindsIdle, DrainFindsWork,
         DrainReleases, DrainKept, CloseEnds, DrainTimesOut, reloadVars, bridge, process, SelfReloadTypeOK
  <2>4. SelfReloadTypeOK'
    BY <2>1, <2>2, <2>3, SelfReloadAssumption DEF SelfReloadTypeOK, owner, client, Fault
  <2>5. ShutdownTypeOK'
    BY <1>3 DEF ShutdownTypeOK, Shutting, ShutdownRefused, ShutdownBegins, DrainBegins, DrainFindsIdle,
         DrainFindsWork, DrainReleases, DrainKept, CloseEnds, DrainTimesOut
  <2>6. OwnerInv' /\ FenceInv' /\ SpawnInv'
    BY <2>1, <2>2, Identifiers, OwnerKept, ShutdownFence, SpawnKept DEF appServer, client
  <2>7. alive
    BY <1>3 DEF Shutting, ShutdownRefused, ShutdownBegins, DrainBegins, DrainFindsIdle, DrainFindsWork,
         DrainReleases, DrainKept, CloseEnds, DrainTimesOut, MayAsk, DownInv
  <2>8. DownInv'
    BY <2>1, <2>7 DEF DownInv
  <2>9. ShutInv'
    <3>1. UNCHANGED <<alive, closer, closing>>
      BY <2>1 DEF appServer, link
    <3>2. CASE \E who \in {"operator", "owner"} : ShutdownRefused(who) \/ ShutdownBegins(who)
      BY <3>1, <3>2 DEF ShutdownRefused, ShutdownBegins, MayAsk, ShutInv, reloadVars, bridge, process
    <3>3. CASE DrainBegins
      BY <3>1, <3>3 DEF DrainBegins, ShutInv, process
    <3>4. CASE DrainFindsIdle \/ DrainFindsWork
      BY <3>1, <3>4 DEF DrainFindsIdle, DrainFindsWork, IsIdle, ShutInv, reloadVars, bridge, process
    <3>5. CASE DrainReleases \/ DrainKept
      BY <3>1, <3>5 DEF DrainReleases, DrainKept, ShutInv, reloadVars, bridge, process
    <3>6. CASE CloseEnds
      BY <3>1, <3>6, <2>7 DEF CloseEnds, ShutInv, reloadVars, bridge, process
    <3>7. CASE DrainTimesOut
      BY <3>1, <3>7 DEF DrainTimesOut, ShutInv, bridge, process
    <3> QED BY <1>3, <3>2, <3>3, <3>4, <3>5, <3>6, <3>7 DEF Shutting
  <2> QED BY <2>1, <2>4, <2>5, <2>6, <2>8, <2>9, AppServerTypeKept, WorkTypeKept
<1> QED BY <1>1, <1>2, <1>3

-----------------------------------------------------------------------------
(* One Bridge after another *)

LEMMA GoneStep ==
  ASSUME BridgeInv, alive, ProcessGone, UNCHANGED faults
  PROVE  BridgeInv'
<1> USE TypeIs DEF BridgeInv
<1>1. AppServerTypeOK' /\ WorkTypeOK'
  BY DEF ProcessGone, AppServerTypeOK, WorkTypeOK
<1>2. SelfReloadTypeOK'
  <2>1. /\ UNCHANGED <<owner, pid, accepting, faults>> /\ alive' = FALSE /\ fence' = NoRequest /\ polling' = FALSE
        /\ approval' = [r \in Requests |-> "none"] /\ resolving' = {} /\ late' = {}
    BY DEF ProcessGone, BridgeForgets
  <2>2. late' \subseteq {"approve", "resolve"} \X Requests
    BY <2>1
  <2> QED BY <2>1, <2>2 DEF SelfReloadTypeOK, owner
<1>3. SpawnInv'
  <2>1. \A c \in Children : proc'[c] = "none"
    BY DEF ProcessGone
  <2>2. Last' = 0
    <3>1. Spawned' = {}
      BY <2>1 DEF Spawned
    <3> QED BY <3>1, FS_EmptySet DEF Last
  <2> QED BY <2>1, <2>2, AppServerClientAssumption DEF SpawnInv, Children, ProcessGone
<1>4. OwnerInv'
  BY OwnerKept DEF ProcessGone
<1>5. FenceInv' /\ DownInv'
  BY DEF ProcessGone, BridgeForgets, FenceInv, ApprovedIsFenced, DownInv
<1>6. verdict' # "closed"
  <2>1. CASE stage = "stop"
    <3>1. job \in Requests /\ fence = job
      BY <2>1 DEF OwnerInv, FenceInv, ApprovedIsFenced
    <3>2. fence # Stop
      BY <3>1, Identifiers
    <3> QED BY <2>1, <3>2 DEF ShutInv, ProcessGone
  <2>2. CASE stage # "stop"
    BY <2>2 DEF ProcessGone
  <2> QED BY <2>1, <2>2
<1>7. ShutInv' /\ ShutdownTypeOK'
  BY <1>6 DEF ShutInv, ShutdownTypeOK, ProcessGone
<1> QED BY <1>1, <1>2, <1>3, <1>4, <1>5, <1>7

LEMMA UpStep ==
  ASSUME BridgeInv, BridgeUp, SelfReloadTypeOK', OwnerInv', UNCHANGED <<receipt, target>>
  PROVE  BridgeInv'
<1> USE TypeIs DEF BridgeInv
<1>1. /\ ~alive /\ alive' /\ accepting' /\ pid' = pid + 1
      /\ UNCHANGED <<appServer, fence, client, work, shutdown>>
  BY DEF BridgeUp
<1>2. FenceInv'
  <2>1. \A r \in Requests : target'[r] # pid'
    BY <1>1, SelfReloadAssumption DEF OwnerInv, SelfReloadTypeOK
  <2> QED BY <1>1, <2>1 DEF FenceInv, ApprovedIsFenced, client
<1>3. DownInv' /\ ShutInv'
  BY <1>1 DEF DownInv, ShutInv, appServer, link, shutdown
<1> QED BY <1>1, <1>2, <1>3, AppServerTypeKept, SpawnKept, WorkTypeKept, ShutdownTypeKept DEF appServer

LEMMA UpTypes ==
  ASSUME SelfReloadTypeOK, BridgeUp,
         UNCHANGED <<receipt, target, expired, ownerUp, job, executions, faults>>,
         stage' \in {stage, "check"}
  PROVE  SelfReloadTypeOK'
<1>1. pid' \in 1 .. MaxPid /\ alive' = TRUE /\ accepting' = TRUE /\ UNCHANGED <<fence, client>>
  BY SelfReloadAssumption DEF BridgeUp, SelfReloadTypeOK
<1> QED BY <1>1 DEF SelfReloadTypeOK, client

LEMMA ReplaceStep ==
  ASSUME BridgeInv, Replacing
  PROVE  BridgeInv'
<1> USE TypeIs DEF BridgeInv
<1>1. CASE Exits \/ Crashes
  BY <1>1, GoneStep DEF Exits, Crashes
<1>2. CASE OperatorStarts
  <2>1. BridgeUp /\ stage # "stop" /\ UNCHANGED <<owner, faults>> /\ pid' = pid + 1
    BY <1>2 DEF OperatorStarts, Mutex, BridgeUp
  <2>2. OwnerInv'
    BY <2>1, SelfReloadAssumption DEF OwnerInv, owner, SelfReloadTypeOK
  <2> QED BY <2>1, <2>2, UpTypes, UpStep DEF owner
<1>3. CASE ReloadStarts
  <2>1. /\ BridgeUp /\ stage = "start" /\ stage' = "check" /\ pid' = pid + 1
        /\ UNCHANGED <<receipt, target, expired, ownerUp, job, executions, faults>>
    BY <1>3 DEF ReloadStarts, BridgeUp
  <2>2. OwnerInv'
    BY <2>1, SelfReloadAssumption DEF OwnerInv, SelfReloadTypeOK
  <2> QED BY <2>1, <2>2, UpTypes, UpStep
<1>4. CASE ReloadFails
  <2>1. /\ stage \in {"stop", "check"} /\ Ends("unknown")
        /\ asker' = "nobody" /\ verdict' \in {verdict, "none"}
        /\ UNCHANGED <<appServer, target, expired, executions, bridge, work, shut>>
    BY <1>4 DEF ReloadFails
  <2>2. /\ SelfReloadTypeOK' /\ OwnerInv' /\ OneMoves
        /\ \A r \in Requests : receipt'[r] = "approved" => receipt[r] = "approved"
    BY <2>1, EndsMoves
  <2>3. FenceInv'
    BY <2>1, <2>2, TickFence
  <2>4. DownInv' /\ ShutInv' /\ ShutdownTypeOK'
    BY <2>1 DEF DownInv, ShutInv, ShutdownTypeOK, bridge, process, client, appServer, link
  <2> QED BY <2>1, <2>2, <2>3, <2>4, AppServerTypeKept, WorkTypeKept, SpawnKept DEF appServer
<1>5. CASE ReloadFindsStopped
  <2>1. /\ stage = "stop" /\ stage' = "start" /\ asker' = "nobody" /\ verdict' = "none"
        /\ UNCHANGED <<appServer, receipt, target, expired, ownerUp, job, executions, bridge, faults, work, shut>>
    BY <1>5 DEF ReloadFindsStopped
  <2>2. SelfReloadTypeOK'
    BY <2>1, TickTypes DEF SelfReloadTypeOK, OneMoves
  <2>3. OwnerInv' /\ FenceInv'
    BY <2>1, FenceKept DEF OwnerInv, bridge, process, client
  <2>4. DownInv' /\ ShutInv' /\ ShutdownTypeOK'
    BY <2>1 DEF DownInv, ShutInv, ShutdownTypeOK, bridge, process, client, appServer, link
  <2> QED BY <2>1, <2>2, <2>3, <2>4, AppServerTypeKept, WorkTypeKept, SpawnKept DEF appServer
<1>6. CASE ReloadCompletes
  <2>1. stage = "check" /\ Ends("completed")
        /\ UNCHANGED <<appServer, target, expired, executions, bridge, work, shutdown>>
    BY <1>6 DEF ReloadCompletes
  <2>2. /\ SelfReloadTypeOK' /\ OwnerInv' /\ OneMoves
        /\ \A r \in Requests : receipt'[r] = "approved" => receipt[r] = "approved"
    BY <2>1, EndsMoves
  <2> QED BY <2>1, <2>2, TickFence, OwnerKeeps
<1> QED BY <1>1, <1>2, <1>3, <1>4, <1>5, <1>6 DEF Replacing

LEMMA BridgeNext == BridgeInv /\ [Next]_vars => BridgeInv'
<1> SUFFICES ASSUME BridgeInv, [Next]_vars PROVE BridgeInv'
  OBVIOUS
<1>1. CASE UNCHANGED vars
  <2>1. UNCHANGED <<appServer, owner, bridge, faults, work, shutdown>>
    BY <1>1 DEF vars, reloadVars
  <2>2. SelfReloadTypeOK' /\ OwnerInv' /\ FenceInv'
    BY <2>1, ReloadTypeKept, OwnerKept, FenceKept, TypeIs DEF BridgeInv, owner, bridge, process, client
  <2> QED BY <2>1, <2>2, OwnerKeeps
<1> QED BY <1>1, WorkStep, ServerStep, MessageStep, OwnerStep, ShutStep, ReplaceStep DEF Next

(* In every reachable state the invariant holds *)
THEOREM BridgeIsSound == Spec => []BridgeInv
<1> QED BY BridgeInitially, BridgeNext, PTL DEF Spec

(* A reload that was allowed and has not ended well keeps the fence of the *)
(* Bridge it is about (self-reload/client.ts; job-store.ts, endSelfReload). *)
THEOREM ApprovedIsFencedAlways == Spec => []ApprovedIsFenced
<1>1. BridgeInv => ApprovedIsFenced
  BY DEF BridgeInv, FenceInv
<1> QED BY <1>1, BridgeIsSound, PTL

-----------------------------------------------------------------------------
(* A reload is executed once at most (the refinement of OneExecution) *)

(* A step moves one receipt at most and reports none done that was not     *)
(* executed, or it executes the one that is running                        *)
Progresses ==
  /\ OneMoves /\ UNCHANGED executions
  /\ \A r \in Requests : receipt'[r] = "completed" => receipt[r] = "completed" \/ executions[r] = 1

LEMMA SameReceipts ==
  ASSUME UNCHANGED <<receipt, executions>>
  PROVE  Progresses
BY DEF Progresses, OneMoves

LEMMA SaveProgresses ==
  ASSUME SelfReloadTypeOK, NEW r \in Requests, NEW to \in States, Save(r, to), UNCHANGED executions,
         MayBecome(receipt[r], to), receipt[r] # "none", to = "completed" => executions[r] = 1
  PROVE  Progresses
<1>1. OneMoves /\ (receipt' = Set(r, to) \/ receipt' = receipt)
  BY SaveMoves
<1>2. \A s \in Requests : receipt'[s] = receipt[s] \/ (s = r /\ receipt'[s] = to)
  BY <1>1 DEF Set, SelfReloadTypeOK
<1> QED BY <1>1, <1>2 DEF Progresses

LEMMA OwnerProgresses ==
  ASSUME BridgeInv, OwnerTicks
  PROVE  Progresses \/ TickInvokes(NoActiveWork)
<1> USE TypeIs DEF BridgeInv
<1>1. CASE OwnerCrashes \/ \E r \in Requests : Expires(r)
  BY <1>1, SameReceipts DEF OwnerCrashes, Expires
<1>2. ASSUME NEW r \in Requests, TickExpires(r) \/ TickRefuses(r) PROVE Progresses
  <2>1. /\ Save(r, "failed") /\ receipt[r] \in {"accepted", "approved"} /\ UNCHANGED executions
    BY <1>2 DEF TickExpires, TickRefuses
  <2>2. "failed" \in States /\ MayBecome(receipt[r], "failed")
    BY <2>1 DEF States, MayBecome
  <2> QED BY <2>1, <2>2, SaveProgresses
<1>3. ASSUME NEW r \in Requests, TickDispatches(r, NoActiveWork) PROVE Progresses
  <2>1. Save(r, "dispatching") /\ receipt[r] = "approved" /\ UNCHANGED executions
    BY <1>3 DEF TickDispatches
  <2>2. "dispatching" \in States /\ MayBecome(receipt[r], "dispatching")
    BY <2>1 DEF States, MayBecome
  <2> QED BY <2>1, <2>2, SaveProgresses
<1>4. CASE TickRuns
  <2>1. job \in Requests /\ receipt[job] = "dispatching" /\ Save(job, "running") /\ UNCHANGED executions
    BY <1>4 DEF TickRuns, OwnerInv
  <2>2. "running" \in States /\ MayBecome(receipt[job], "running")
    BY <2>1 DEF States, MayBecome
  <2> QED BY <2>1, <2>2, SaveProgresses
<1>5. CASE TickTurnsBack(NoActiveWork)
  <2>1. job \in Requests /\ receipt[job] = "running" /\ Save(job, "unknown") /\ UNCHANGED executions
    BY <1>5 DEF TickTurnsBack, Ends, OwnerInv
  <2>2. "unknown" \in States /\ MayBecome(receipt[job], "unknown")
    BY <2>1 DEF States, MayBecome
  <2> QED BY <2>1, <2>2, SaveProgresses
<1>6. CASE OwnerRestarts
  <2>1. OneMoves /\ UNCHANGED executions
    BY <1>6, OwnerRestartsMoves DEF OwnerRestarts
  <2>2. \A r \in Requests : receipt'[r] = "completed" => receipt[r] = "completed"
    BY <1>6 DEF OwnerRestarts, Recovered, SelfReloadTypeOK, States
  <2> QED BY <2>1, <2>2 DEF Progresses
<1> QED BY <1>1, <1>2, <1>3, <1>4, <1>5, <1>6 DEF OwnerTicks

LEMMA ReplaceProgresses ==
  ASSUME BridgeInv, Replacing
  PROVE  Progresses
<1> USE TypeIs DEF BridgeInv
<1>1. ASSUME NEW state \in {"unknown", "completed"}, Ends(state), stage \in {"stop", "check"}, UNCHANGED executions
      PROVE  Progresses
  <2>1. job \in Requests /\ receipt[job] = "running" /\ executions[job] = 1 /\ Save(job, state)
    BY <1>1 DEF Ends, OwnerInv
  <2>2. state \in States /\ MayBecome(receipt[job], state)
    BY <2>1 DEF States, MayBecome
  <2> QED BY <1>1, <2>1, <2>2, SaveProgresses
<1>2. CASE ReloadFails
  BY <1>1, <1>2 DEF ReloadFails
<1>3. CASE ReloadCompletes
  BY <1>1, <1>3 DEF ReloadCompletes
<1>4. CASE ~(ReloadFails \/ ReloadCompletes)
  BY <1>4, SameReceipts
     DEF Replacing, Exits, Crashes, ProcessGone, OperatorStarts, ReloadFindsStopped, ReloadStarts, owner
<1> QED BY <1>2, <1>3, <1>4

LEMMA EachProgresses ==
  ASSUME BridgeInv, [Next]_vars
  PROVE  Progresses \/ TickInvokes(NoActiveWork)
<1>1. CASE Working
  BY <1>1, SameReceipts, AskMoves
     DEF Working, Arrives, ClientLeaves, Admitted, Draining, AsksAppServer, Settles, reloadVars, owner
<1>2. CASE AppServerStep
  BY <1>2, SameReceipts DEF AppServerStep, owner
<1>3. CASE Messages
  BY <1>3, MessagesMove DEF MessageMoves, Progresses
<1>4. CASE Shutting
  BY <1>4, SameReceipts
     DEF Shutting, ShutdownRefused, ShutdownBegins, DrainBegins, DrainFindsIdle, DrainFindsWork,
         DrainReleases, DrainKept, RuntimeCloses, RuntimeCloseTimesOut, CloseEnds, DrainTimesOut, reloadVars, owner
<1>5. CASE UNCHANGED vars
  BY <1>5, SameReceipts DEF vars, reloadVars, owner
<1> QED BY <1>1, <1>2, <1>3, <1>4, <1>5, OwnerProgresses, ReplaceProgresses DEF Next

(* The receipts as OneExecution sees them *)
Seen == [r \in Requests |-> Receipt(r)]

LEMMA SeenIs ==
  ASSUME NEW r \in Requests
  PROVE  Seen[r] = Receipt(r) /\ Seen'[r] = Receipt(r)'
BY DEF Seen

LEMMA PromiseStutters ==
  ASSUME UNCHANGED <<receipt, executions>>
  PROVE  UNCHANGED Once!vars
BY DEF Once!vars, Receipt

LEMMA PromiseMoves ==
  ASSUME SelfReloadTypeOK, Progresses
  PROVE  Once!Next \/ UNCHANGED Once!vars
<1>1. CASE receipt' = receipt
  BY <1>1, PromiseStutters DEF Progresses
<1>2. ASSUME NEW r \in Requests, NEW to \in States, ReceiptMoves(r, to)
      PROVE  Once!Next \/ UNCHANGED Once!vars
  <2>1. receipt'[r] = to /\ \A s \in Requests : s # r => receipt'[s] = receipt[s]
    BY <1>2, MovedReceipts
  <2>2. MayBecome(receipt[r], to) /\ UNCHANGED executions
    BY <1>2 DEF ReceiptMoves, Progresses
  <2>3. ASSUME NEW new, Receipt(r)' = new PROVE Seen' = [Seen EXCEPT ![r] = new]
    <3>1. \A s \in Requests : s # r => Receipt(s)' = Receipt(s)
      BY <2>1 DEF Receipt
    <3> QED BY <2>3, <3>1 DEF Seen
  <2>4. ASSUME NEW from, NEW new, Receipt(r) \in from, Receipt(r)' = new
        PROVE  Once!Becomes(r, from, new)
    BY <2>2, <2>3, <2>4, SeenIs DEF Once!Becomes, Seen
  <2>5. CASE receipt[r] = "none"
    <3>1. Receipt(r) = "none" /\ Receipt(r)' = "asked"
      BY <2>1, <2>2, <2>5 DEF Receipt, MayBecome
    <3> QED BY <2>4, <3>1 DEF Once!Next, Once!Ask
  <2>6. CASE receipt[r] = "accepted" /\ to = "approved"
    <3>1. Receipt(r) = "asked" /\ Receipt(r)' = "allowed"
      BY <2>1, <2>6 DEF Receipt
    <3> QED BY <2>4, <3>1 DEF Once!Next, Once!Allow
  <2>7. CASE receipt[r] \in {"accepted", "approved"} /\ to = "failed"
    <3>1. Receipt(r) \in {"asked", "allowed"} /\ Receipt(r)' = "refused"
      BY <2>1, <2>7 DEF Receipt
    <3> QED BY <2>4, <3>1 DEF Once!Next, Once!Refuse
  <2>8. CASE receipt[r] = "approved" /\ to = "dispatching"
    <3>1. Receipt(r) = "allowed" /\ Receipt(r)' = "intent"
      BY <2>1, <2>8 DEF Receipt
    <3> QED BY <2>4, <3>1 DEF Once!Next, Once!Intend
  <2>9. CASE receipt[r] = "dispatching" /\ to = "running"
    <3>1. Receipt(r) = "intent" /\ Receipt(r)' = "intent"
      BY <2>1, <2>9 DEF Receipt
    <3>2. \A s \in Requests : Receipt(s)' = Receipt(s)
      BY <2>1, <3>1 DEF Receipt
    <3> QED BY <2>2, <3>2 DEF Once!vars
  <2>10. CASE receipt[r] \in {"dispatching", "running"} /\ to = "unknown"
    <3>1. Receipt(r) = "intent" /\ Receipt(r)' = "unknown"
      BY <2>1, <2>10 DEF Receipt
    <3> QED BY <2>4, <3>1 DEF Once!Next, Once!GiveUp
  <2>11. CASE receipt[r] = "running" /\ to = "completed"
    <3>1. Receipt(r) = "intent" /\ Receipt(r)' = "succeeded" /\ executions[r] = 1
      BY <2>1, <2>11 DEF Receipt, Progresses
    <3>2. Once!Report(r, "succeeded")
      BY <2>4, <3>1 DEF Once!Report
    <3> QED BY <3>2 DEF Once!Next
  <2> QED BY <2>2, <2>5, <2>6, <2>7, <2>8, <2>9, <2>10, <2>11 DEF MayBecome
<1> QED BY <1>1, <1>2 DEF Progresses, OneMoves

LEMMA PromiseExecutes ==
  ASSUME SelfReloadTypeOK, OwnerInv, TickInvokes(NoActiveWork)
  PROVE  Once!Next
<1>1. job \in Requests /\ receipt[job] = "running" /\ executions[job] = 0 /\ receipt' = receipt
      /\ executions' = [executions EXCEPT ![job] = @ + 1]
  BY DEF TickInvokes, OwnerInv
<1>2. PICK r \in Requests : r = job
  BY <1>1
<1>3. Receipt(r) = "intent" /\ executions' = [executions EXCEPT ![r] = 1]
  BY <1>1, <1>2 DEF Receipt, SelfReloadTypeOK
<1>4. Seen' = Seen
  BY <1>1 DEF Seen, Receipt
<1>5. Once!Execute(r)
  BY <1>1, <1>2, <1>3, <1>4, SeenIs DEF Once!Execute, Seen
<1> QED BY <1>5 DEF Once!Next

LEMMA PromiseInit == Init => Once!Init
<1> SUFFICES ASSUME Init PROVE Once!Init
  OBVIOUS
<1>1. \A r \in Requests : Receipt(r) = "none"
  BY DEF Init, SelfReloadInit, Receipt
<1> QED BY <1>1 DEF Init, SelfReloadInit, Once!Init

(* A request reloads the Bridge once at most, after it was approved and its *)
(* intent is written down, and none is reported done that was not executed  *)
(* (Invoke-R1Tick, New-R1Engine).                                           *)
THEOREM ReloadIsExecutedOnce == Spec => ExecutedOnce
<1>1. BridgeInv /\ [Next]_vars => [Once!Next]_Once!vars
  <2> SUFFICES ASSUME BridgeInv, [Next]_vars PROVE Once!Next \/ UNCHANGED Once!vars
    OBVIOUS
  <2> QED BY EachProgresses, PromiseMoves, PromiseExecutes, TypeIs DEF BridgeInv
<1> QED BY <1>1, PromiseInit, BridgeIsSound, PTL DEF Spec, ExecutedOnce, Once!Spec

-----------------------------------------------------------------------------
(* A shutdown whose outcome is unknown to its asker admits no work again   *)
(* (cooperative-shutdown.ts, drainAndClose).                               *)
THEOREM UnknownStaysClosedAlways == Spec => UnknownStaysClosed
<1>1. ASSUME BridgeInv, [Next]_vars, verdict = "unknown", fence = Stop, alive' PROVE fence' = Stop
  <2>1. CASE Working \/ AppServerStep \/ OwnerTicks \/ UNCHANGED vars
    BY <1>1, <2>1, AskMoves
       DEF Working, Arrives, ClientLeaves, Admitted, Draining, AsksAppServer, Settles, AppServerStep,
           OwnerTicks, Expires, TickExpires, TickRefuses, TickDispatches, TickRuns, TickInvokes, TickTurnsBack,
           OwnerCrashes, OwnerRestarts, vars, reloadVars, bridge
  <2>2. CASE Messages
    BY <1>1, <2>2, MessagesMove, Identifiers DEF MessageMoves
  <2>3. CASE Shutting
    BY <1>1, <2>3, Identifiers
       DEF Shutting, ShutdownRefused, ShutdownBegins, DrainBegins, DrainFindsIdle, DrainFindsWork,
           DrainReleases, DrainKept, RuntimeCloses, RuntimeCloseTimesOut, CloseEnds, DrainTimesOut, reloadVars, bridge
  <2>4. CASE Replacing
    BY <1>1, <2>4
       DEF Replacing, Exits, Crashes, ProcessGone, OperatorStarts, BridgeUp, ReloadFails, ReloadFindsStopped,
           ReloadStarts, ReloadCompletes, bridge
  <2> QED BY <1>1, <2>1, <2>2, <2>3, <2>4 DEF Next
<1>2. BridgeInv /\ [Next]_vars => [verdict = "unknown" /\ fence = Stop /\ alive' => fence' = Stop]_vars
  BY <1>1
<1> QED BY <1>2, BridgeIsSound, PTL DEF Spec, UnknownStaysClosed

-----------------------------------------------------------------------------
(* The App Server *)

LEMMA ServerInitially == Init => ServerInv
BY DEF Init, AppServerInit, SelfReloadInit, ServerInv, ChildInv, QuietInv, NoneLives, Running, Live

LEMMA LastKept == ASSUME UNCHANGED proc PROVE Last' = Last
BY DEF Last, Spawned

LEMMA ChildKept ==
  ASSUME ChildInv, UNCHANGED <<child, status, start, proc, unheard, forgotten>>,
         (alive' /\ ~accepting') \/ UNCHANGED <<alive, accepting>> \/ ~alive
  PROVE  ChildInv'
BY LastKept DEF ChildInv, NoneLives, Running, Live

LEMMA QuietKept ==
  ASSUME QuietInv, UNCHANGED <<start, proc, forgotten, closer, ending, alive, accepting, strays>>, active' \subseteq active
  PROVE  QuietInv'
BY DEF QuietInv, NoneLives, Running, Live

LEMMA ServerKept ==
  ASSUME ServerInv, UNCHANGED <<appServer, work, alive, accepting>>
  PROVE  ServerInv'
BY ChildKept, QuietKept DEF ServerInv, appServer, link, work

LEMMA WorkServes ==
  ASSUME BridgeInv, ServerInv, Working
  PROVE  ServerInv'
<1> USE DEF ServerInv
<1>1. PICK q \in Calls : \/ Arrives(q) \/ ClientLeaves(q) \/ Admitted(q) \/ Draining(q)
                         \/ AsksAppServer(q) \/ Settles(q)
  BY DEF Working
<1>2. CASE Arrives(q) \/ ClientLeaves(q) \/ Draining(q) \/ Settles(q)
  <2>1. /\ UNCHANGED <<child, status, closing, start, proc, unheard, forgotten, link, reloadVars, strays>>
        /\ active' \subseteq active
    BY <1>2 DEF Arrives, ClientLeaves, Draining, Settles, appServer
  <2> QED BY <2>1, ChildKept, QuietKept DEF link, reloadVars, bridge, process
<1>3. CASE Admitted(q)
  <2>1. UNCHANGED <<appServer, alive, accepting>> /\ fence = NoRequest
    BY <1>3 DEF Admitted, reloadVars, bridge, process
  <2>2. ~(alive /\ ~accepting)
    BY <2>1, Identifiers DEF BridgeInv, ShutInv
  <2> QED BY <2>1, <2>2, ChildKept DEF QuietInv, appServer
<1>4. CASE AsksAppServer(q)
  <2>1. UNCHANGED <<alive, accepting>> /\ Ask(q)
    BY <1>4 DEF AsksAppServer, reloadVars, bridge, process
  <2>2. QuietInv'
    BY <1>4, <2>1 DEF AsksAppServer, QuietInv
  <2>3. CASE ~Starts(q)
    <3>1. UNCHANGED <<child, status, start, proc, unheard, forgotten>>
      BY <2>1, <2>3 DEF Ask, RefusedWhileClosing, SendsAtOnce, JoinsStart
    <3> QED BY <2>1, <2>2, <3>1, ChildKept
  <2>4. CASE Starts(q)
    <3>1. /\ start = "none" /\ ~(status = "ready" /\ Usable)
          /\ start' = "before" /\ status' = "starting" /\ UNCHANGED <<child, proc, unheard, forgotten>>
      BY <2>4 DEF Starts
    <3>2. NoneLives
      <4> SUFFICES ASSUME NEW c \in Running PROVE FALSE
        BY DEF NoneLives
      <4>1. status = "ready" /\ child = c
        BY <3>1 DEF ChildInv
      <4>2. Usable
        BY <4>1, AppServerClientAssumption DEF Usable, Children, Running, Live
      <4> QED BY <3>1, <4>1, <4>2
    <3>3. ChildInv'
      BY <3>1, <3>2, LastKept DEF ChildInv, NoneLives, Running, Live
    <3> QED BY <2>2, <3>3
  <2> QED BY <2>3, <2>4
<1> QED BY <1>1, <1>2, <1>3, <1>4

(* A start that fails, and an exit event, leave no process running *)
LEMMA NoneLeft ==
  ASSUME SpawnInv, ChildInv, start # "none", proc' = Kill(Newest), AppServerTypeOK,
         start = "handshake", UNCHANGED forgotten
  PROVE  NoneLives' /\ \A c \in Children : proc[c] = "dead" => proc'[c] = "dead"
<1>1. Newest = Last /\ Last \in Children
  BY NewestIsLast DEF SpawnInv
<1> QED BY <1>1 DEF NoneLives, Running, Live, Kill, ChildInv, AppServerTypeOK

LEMMA NobodyLives ==
  ASSUME NoneLives', start' \in {"none", "before"}, \A c \in unheard' : proc'[c] = "dead",
         start' # "none" => status' # "ready" /\ (status' = "idle" => alive' /\ ~accepting')
  PROVE  ChildInv'
BY DEF ChildInv, NoneLives

LEMMA NobodyLivesQuietly ==
  ASSUME NoneLives', QuietInv, start' \in {start, "none"}, UNCHANGED <<alive, accepting, strays, active>>
  PROVE  QuietInv'
BY DEF QuietInv, NoneLives

LEMMA ExitServes ==
  ASSUME BridgeInv, ServerInv, NEW c \in Children, ExitHandled(c), UNCHANGED <<alive, accepting, strays, active>>
  PROVE  ServerInv'
<1> USE DEF ServerInv, BridgeInv, TypeOK
<1>1. /\ NoneLives' /\ start' \in {start, "none"} /\ start' # "handshake"
      /\ \A d \in Children : proc[d] = "dead" => proc'[d] = "dead"
  <2>1. CASE start = "handshake"
    <3>1. proc' = Kill(Newest) /\ start' = "none" /\ UNCHANGED forgotten
      BY <2>1 DEF ExitHandled, PendingRejected
    <3> QED BY <2>1, <3>1, NoneLeft
  <2>2. CASE start # "handshake"
    <3>1. /\ UNCHANGED <<start, proc>> /\ start \in {"none", "before"}
          /\ forgotten' = forgotten \cup (Live \cap {child})
      BY <2>2 DEF ExitHandled, AppServerTypeOK
    <3>2. Running \subseteq {child}
      BY <3>1 DEF ChildInv, NoneLives
    <3>3. Running' = {}
      BY <3>1, <3>2 DEF Running, Live
    <3> QED BY <3>1, <3>3 DEF NoneLives
  <2> QED BY <2>1, <2>2
<1>2. start' # "none" => status' # "ready" /\ (status' = "idle" => closing)
  BY DEF ExitHandled, PendingRejected
<1>3. closing => alive /\ ~accepting
  BY DEF ShutInv
<1>4. \A d \in unheard' : proc'[d] = "dead"
  BY <1>1 DEF ExitHandled, ChildInv, AppServerTypeOK
<1>5. start' \in {"none", "before"}
  BY <1>1 DEF AppServerTypeOK
<1> QED BY <1>1, <1>2, <1>3, <1>4, <1>5, NobodyLives, NobodyLivesQuietly

LEMMA ServerServes ==
  ASSUME BridgeInv, ServerInv, AppServerStep
  PROVE  ServerInv'
<1> USE DEF ServerInv, BridgeInv, TypeOK
<1>1. ServerMoves /\ UNCHANGED <<alive, accepting, strays, active>>
  BY ServerStepIs DEF bridge, process, work
<1>2. CASE SpawnFails
  <2>1. start = "before" /\ start' = "none" /\ UNCHANGED <<proc, unheard, forgotten>>
    BY <1>2 DEF SpawnFails, StartFails
  <2>2. NoneLives'
    BY <2>1 DEF ChildInv, NoneLives, Running, Live
  <2> QED BY <1>1, <2>1, <2>2, NobodyLives, NobodyLivesQuietly DEF ChildInv
<1>3. CASE HandshakeFails
  <2>1. start = "handshake" /\ start' = "none" /\ proc' = Kill(Newest)
        /\ UNCHANGED <<unheard, forgotten>>
    BY <1>3 DEF HandshakeFails, StartFails
  <2>2. NoneLives' /\ \A c \in Children : proc[c] = "dead" => proc'[c] = "dead"
    BY <2>1, NoneLeft
  <2> QED BY <1>1, <2>1, <2>2, NobodyLives, NobodyLivesQuietly DEF ChildInv, AppServerTypeOK
<1>4. CASE Spawns
  <2>1. /\ start = "before" /\ start' = "handshake" /\ child' = Last + 1
        /\ proc' = [proc EXCEPT ![Last + 1] = "live"] /\ UNCHANGED <<status, unheard, forgotten>>
    BY <1>4 DEF Spawns, Last
  <2>2. Last' = Last + 1 /\ Last + 1 \in Children
    BY <1>4, OneMoreSpawned
  <2>3. proc[Last + 1] = "none"
    BY <2>2, AppServerClientAssumption DEF SpawnInv, Children
  <2>4. \A c \in Running' : c = Last + 1
    BY <2>1, <2>2 DEF ChildInv, NoneLives, Running, Live, AppServerTypeOK
  <2>5. \A c \in unheard : proc'[c] = "dead"
    BY <2>1, <2>3 DEF ChildInv, AppServerTypeOK
  <2>6. ChildInv'
    BY <1>1, <2>1, <2>2, <2>4, <2>5 DEF ChildInv
  <2>7. QuietInv'
    BY <1>1, <2>1 DEF QuietInv
  <2> QED BY <2>6, <2>7
<1>5. CASE HandshakeDone
  <2>1. /\ start = "handshake" /\ start' = "none" /\ status' = "ready"
        /\ UNCHANGED <<child, proc, unheard, forgotten>>
    BY <1>5 DEF HandshakeDone
  <2>2. ChildInv'
    BY <2>1, LastKept DEF ChildInv, Running, Live
  <2>3. QuietInv'
    BY <1>1, <2>1 DEF QuietInv
  <2> QED BY <2>2, <2>3
<1>6. ASSUME NEW c \in Children, Dies(c) PROVE ServerInv'
  <2>1. /\ proc[c] \in {"live", "killed"} /\ proc' = [proc EXCEPT ![c] = "dead"]
        /\ unheard' = unheard \cup {c} /\ UNCHANGED <<child, status, start, forgotten, closer, ending>>
    BY <1>6 DEF Dies, link
  <2>2. proc'[c] = "dead" /\ \A d \in Children : d # c => proc'[d] = proc[d]
    BY <2>1 DEF AppServerTypeOK
  <2>3. Last' = Last
    <3>1. Spawned' = Spawned
      BY <2>1, <2>2 DEF Spawned
    <3> QED BY <3>1 DEF Last
  <2>4. Running' \subseteq Running
    BY <2>1, <2>2 DEF Running, Live
  <2>5. ChildInv'
    BY <1>1, <2>1, <2>2, <2>3, <2>4 DEF ChildInv, NoneLives
  <2>6. QuietInv'
    BY <1>1, <2>1, <2>4 DEF QuietInv, NoneLives
  <2> QED BY <2>5, <2>6
<1>7. ASSUME NEW c \in Children, ExitHandled(c) PROVE ServerInv'
  BY <1>1, <1>7, ExitServes
<1>8. ASSUME NEW q \in Calls, Answers(q) \/ CallTimesOut(q) PROVE ServerInv'
  <2>1. UNCHANGED <<child, status, start, proc, unheard, forgotten, closer, ending>>
    BY <1>8 DEF Answers, CallTimesOut, link
  <2> QED BY <1>1, <2>1, ChildKept, QuietKept
<1> QED BY <1>1, <1>2, <1>3, <1>4, <1>5, <1>6, <1>7, <1>8 DEF ServerMoves

LEMMA ShutServes ==
  ASSUME BridgeInv, ServerInv, Shutting
  PROVE  ServerInv'
<1> USE DEF ServerInv, BridgeInv, TypeOK
<1>1. CASE RuntimeCloses
  <2>1. /\ AppServerTypeOK' /\ closer' \in {"closed", "waiting"} /\ UNCHANGED <<child, status, start, proc, unheard, forgotten>>
        /\ closer' = "closed" => child = NoChild
        /\ closer' = "waiting" => ending' = child
        /\ UNCHANGED <<alive, accepting, strays, active>>
    BY <1>1, CloseMoves DEF RuntimeCloses, process, work
  <2>2. NoChild \notin Children
    BY AppServerClientAssumption DEF Children
  <2>3. QuietInv'
    BY <2>1, <2>2 DEF QuietInv, ChildInv, NoneLives, Running, Live
  <2> QED BY <2>1, <2>3, ChildKept
<1>2. CASE RuntimeCloseTimesOut
  <2>1. /\ closer' = "unknown" /\ UNCHANGED <<child, status, start, proc, unheard, forgotten>>
        /\ UNCHANGED <<alive, accepting, strays, active>>
    BY <1>2 DEF RuntimeCloseTimesOut, CloseTimesOut, bridge, process, work
  <2> QED BY <2>1, ChildKept DEF QuietInv
<1>3. CASE DrainFindsIdle
  <2>1. /\ accepting /\ active = {} /\ status \in {"idle", "ready"} /\ ~accepting'
        /\ UNCHANGED <<appServer, work, alive>> /\ shut = "check"
    BY <1>3 DEF DrainFindsIdle, IsIdle, NoActiveWork
  <2>2. start = "none" /\ closer = "none" /\ alive
    BY <2>1 DEF ChildInv, ShutInv, DownInv
  <2> QED BY <2>1, <2>2, ChildKept DEF QuietInv, appServer, link, work
<1>4. CASE ~(RuntimeCloses \/ RuntimeCloseTimesOut \/ DrainFindsIdle)
  <2>1. UNCHANGED <<appServer, work, alive, accepting>>
    BY <1>4 DEF Shutting, ShutdownRefused, ShutdownBegins, DrainBegins, DrainFindsWork,
         DrainReleases, DrainKept, CloseEnds, DrainTimesOut, reloadVars, bridge, process
  <2> QED BY <2>1, ServerKept
<1> QED BY <1>1, <1>2, <1>3, <1>4

LEMMA ReplaceServes ==
  ASSUME BridgeInv, ServerInv, Replacing
  PROVE  ServerInv'
<1> USE DEF ServerInv, BridgeInv, TypeOK
<1>1. CASE Exits \/ Crashes
  <2>1. /\ alive' = FALSE /\ start' = "none" /\ unheard' = {} /\ \A c \in Children : proc'[c] = "none"
    BY <1>1 DEF Exits, Crashes, ProcessGone
  <2>2. NoneLives'
    BY <2>1 DEF NoneLives, Running, Live
  <2> QED BY <2>1, <2>2, NobodyLives DEF QuietInv
<1>2. CASE OperatorStarts \/ ReloadStarts
  <2>1. ~alive /\ accepting' /\ UNCHANGED appServer
    BY <1>2 DEF OperatorStarts, ReloadStarts, BridgeUp
  <2> QED BY <2>1, ChildKept DEF QuietInv, appServer
<1>3. CASE ~(Exits \/ Crashes \/ OperatorStarts \/ ReloadStarts)
  <2>1. UNCHANGED <<appServer, work, alive, accepting>>
    BY <1>3 DEF Replacing, ReloadFails, ReloadFindsStopped, ReloadCompletes, bridge, process
  <2> QED BY <2>1, ServerKept
<1> QED BY <1>1, <1>2, <1>3

LEMMA ServerNext == BridgeInv /\ ServerInv /\ [Next]_vars => ServerInv'
<1> SUFFICES ASSUME BridgeInv, ServerInv, [Next]_vars PROVE ServerInv'
  OBVIOUS
<1>1. CASE Messages
  BY <1>1, MessagesMove, ServerKept DEF Messages, MessageMoves, process
<1>2. CASE OwnerTicks
  BY <1>2, ServerKept
     DEF OwnerTicks, Expires, TickExpires, TickRefuses, TickDispatches, TickRuns, TickInvokes, TickTurnsBack,
         OwnerCrashes, OwnerRestarts, bridge, process
<1>3. CASE UNCHANGED vars
  BY <1>3, ServerKept DEF vars, reloadVars, bridge, process
<1> QED BY <1>1, <1>2, <1>3, WorkServes, ServerServes, ShutServes, ReplaceServes DEF Next

LEMMA KnownIs == BridgeInv /\ ServerInv => AppServerIsKnown
<1> SUFFICES ASSUME BridgeInv, ServerInv PROVE AppServerIsKnown
  OBVIOUS
<1>1. OneAppServer
  <2>1. Running \subseteq {Last}
    BY DEF ServerInv, ChildInv
  <2>2. IsFiniteSet({Last}) /\ Cardinality({Last}) = 1
    BY FS_Singleton
  <2> QED BY <2>1, <2>2, FS_Subset DEF OneAppServer
<1>2. ClosedIsQuiet
  BY DEF ClosedIsQuiet, BridgeInv, ShutInv, ServerInv, QuietInv, NoneLives
<1> QED BY <1>1, <1>2 DEF AppServerIsKnown

(* One App Server at a time, and who is told CLOSED finds none, those apart *)
(* that the late exit of another has made the client forget                 *)
(* (app-server-client.ts, start and close; cooperative-shutdown.ts).        *)
THEOREM AppServerIsKnownAlways == Spec => []AppServerIsKnown
<1>1. ServerInv /\ BridgeInv /\ [Next]_vars => ServerInv'
  BY ServerNext
<1> QED BY <1>1, ServerInitially, KnownIs, BridgeIsSound, PTL DEF Spec

(* The variables keep their types *)
THEOREM TypeIsCorrect == Spec => []TypeOK
<1>1. BridgeInv => TypeOK
  BY DEF BridgeInv
<1> QED BY <1>1, BridgeIsSound, PTL
=============================================================================
