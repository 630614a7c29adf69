------------------------- MODULE TurnControlProofs -------------------------
(***************************************************************************)
(* Proofs of TurnControl, for any requests and bounds: what Codex was told *)
(* of a request and what the record says are one, neither a request nor    *)
(* the end of a turn is forgotten, and a recovery takes nothing away.      *)
(***************************************************************************)
EXTENDS TurnControl, FiniteSetTheorems, TLAPS

-----------------------------------------------------------------------------
(* The inductive invariant *)

(* The App Server's lines and the tasks of the lock *)
Natives == {"none", "running", "completed", "interrupted"}
Over == {"completed", "interrupted"}
Texts == [Turns -> Nat]
Shown == [Turns -> Natives]

TurnLine == [kind : {"turn"}, flow : Flows, turn : Turns]
NewsLine == [kind : {"started", "text"}, turn : Turns, state : {"running"}]
EndLine == [kind : {"ended"}, turn : Turns, state : Over]
RequestLine == [kind : {"request"}, turn : Turns, request : Requests]
HistoryLine == [kind : {"history"}, text : Texts, native : Shown]
Lines == TurnLine \cup NewsLine \cup EndLine \cup RequestLine \cup HistoryLine

Places == {"check", "complete", "add", "project", "resolve", "interrupt", "rejected", "steer", "prepare"}
NewsTask == [kind : {"started", "text"}, at : Places, turn : Turns, state : {"running"}, seen : Turns \cup {0}]
EndTask == [kind : {"ended"}, at : Places, turn : Turns, state : Over, seen : Turns \cup {0}]
RequestTask == [kind : {"request"}, at : Places, turn : Turns, request : Requests]
DecideTask == [kind : {"decide"}, at : Places, request : Requests, decision : {"accept", "decline"}]
CancelTask == [kind : {"cancel"}, at : Places, seen : Turns \cup {0}]
PlainTask == [kind : {"send", "baseline"}, at : Places]
ApplyTask == [kind : {"apply"}, at : Places, text : Texts, native : Shown]
Tasks ==
  NewsTask \cup EndTask \cup RequestTask \cup DecideTask \cup CancelTask \cup PlainTask \cup ApplyTask

(* The types, part by part *)
RecordOK ==
  /\ status \in Terminal \cup {"queued", "preparing", "running", "awaiting_approval"}
  /\ thread \in BOOLEAN /\ turn \in Turns \cup {0}
  /\ approvals \in [Requests -> {"none", "pending", "accepted", "declined", "cancelled", "expired"}]
  /\ projected \in Texts
MapsOK == byThread \in BOOLEAN /\ byTurn \subseteq Turns /\ live \subseteq Requests
FlowsOK ==
  /\ flows \in [Flows -> {"none", "execute", "resume", "thread", "turn", "project", "failed", "done"}]
  /\ exiting \in {"none", "project", "complete"}
ServerOK ==
  /\ ready \in BOOLEAN /\ starts \subseteq Flows
  /\ native \in Shown /\ said \in [Turns -> 0 .. MaxText]
  /\ asker \in [Requests -> Turns \cup {0}] /\ gone \subseteq Requests
AnswersOK == answers \in [Requests -> {<<>>, <<"accept">>, <<"decline">>}]
ReadOK ==
  /\ changed \in BOOLEAN
  /\ read.at \in {"none", "waiting", "reading", "asked", "sent", "read"}
  /\ read.at = "none" => read = NoRead
  /\ read.at \in {"waiting", "reading", "sent", "read"} => read = [at |-> read.at, turn |-> read.turn]
  /\ read.at # "none" => read.turn \in Turns /\ native[read.turn] # "none"
  /\ read.at = "asked" => read.text \in Texts /\ read.native \in Shown
CountsOK ==
  sends \in Nat /\ cancels \in Nat /\ decides \in Nat /\ reads \in Nat /\ exits \in Nat /\ faults \in Nat

(* Only the holder of the lock is past its check *)
QueueOK ==
  /\ queue \in Seq(Tasks)
  /\ \A i \in DOMAIN queue : i # 1 => queue[i].at = "check"
WireOK ==
  /\ wire \in Seq(Lines)
  /\ \A i \in DOMAIN wire : wire[i].kind # "history" => native[wire[i].turn] # "none"

(* A turn that is being interrupted is one *)
CancelInv == Holds("cancel", "interrupt") => Task.seen \in Turns

TypeInv ==
  /\ RecordOK /\ MapsOK /\ FlowsOK /\ ServerOK /\ AnswersOK /\ ReadOK /\ CountsOK
  /\ QueueOK /\ WireOK /\ CancelInv

(* Turns are made for a job whose thread is known, by a process that runs *)
NativeInv ==
  /\ starts # {} => thread
  /\ \A t \in Turns : native[t] # "none" => thread
  /\ \A t \in Turns : native[t] = "running" => ready
  /\ turn # 0 => native[turn] # "none"

(* A request is in one place - on its way, in the queue or live - until it  *)
(* is answered, and answered requests are in none                           *)
IsRequest(x, r) == x.kind = "request" /\ x.request = r
NeverAsked(r) == r \notin gone /\ answers[r] = <<>> /\ approvals[r] = "none" /\ r \notin live
Waits(r) == asker[r] # 0 /\ answers[r] = <<>>
PlaceOf(r) ==
  /\ asker[r] = 0 => NeverAsked(r)
  /\ asker[r] # 0 /\ r \notin gone => ready
  /\ r \in live => Waits(r)
  /\ \A i \in DOMAIN wire : IsRequest(wire[i], r) =>
       /\ Waits(r) /\ r \notin live
       /\ \A j \in DOMAIN wire : IsRequest(wire[j], r) => j = i
       /\ \A j \in DOMAIN queue : ~IsRequest(queue[j], r)
  /\ \A i \in DOMAIN queue : IsRequest(queue[i], r) =>
       /\ Waits(r)
       /\ IF queue[i].at = "check" THEN r \notin live ELSE r \in live \cup gone
       /\ \A j \in DOMAIN queue : IsRequest(queue[j], r) => j = i
PlaceInv == \A r \in Requests : PlaceOf(r)
KeptOf(r) == Unanswered(r) => InWire("request", r) \/ InQueue("request", r) \/ r \in live
KeptInv == \A r \in Requests : KeptOf(r)

(* What is about to be stored was answered *)
DecisionInv ==
  /\ StoreTellsTheAnswer
  /\ \A i \in DOMAIN queue : queue[i].kind = "decide" =>
       /\ asker[queue[i].request] # 0
       /\ queue[i].at = "resolve" /\ queue[i].request \notin gone =>
            answers[queue[i].request] = <<queue[i].decision>>

(* The job before execute *)
Fresh ==
  /\ status = "queued" /\ ~thread /\ turn = 0 /\ wire = <<>> /\ starts = {} /\ ~ready
  /\ read = NoRead /\ exiting = "none"
  /\ \A g \in Flows : g # 1 => flows[g] = "none"
  /\ \A r \in Requests : approvals[r] = "none"
  /\ \A i \in DOMAIN queue : queue[i].kind = "send" /\ queue[i].at = "check"

(* A job that is being prepared has a flow that will settle or start it *)
Preparing == {"execute", "resume", "thread", "turn", "failed"}
StatusInv ==
  /\ \A f \in Flows : flows[f] = "execute" => f = 1 /\ Fresh
  /\ status \in {"queued", "preparing"} => \E f \in Flows : flows[f] \in Preparing
  /\ \A r \in Requests : approvals[r] = "pending" => InTurn /\ ~Holds("send", "prepare")

(* As long as nothing failed, the end of the record's turn is still to come,*)
(* on its way or in the queue                                               *)
IsEnd(x, t) == x.kind = "ended" /\ x.turn = t
EndKnown(t) ==
  \/ native[t] = "running"
  \/ \E i \in DOMAIN wire : IsEnd(wire[i], t)
  \/ \E i \in DOMAIN queue : IsEnd(queue[i], t)
EndBehind(i) ==
  native[wire[i].turn] = "running" \/ \E j \in DOMAIN wire : j > i /\ IsEnd(wire[j], wire[i].turn)
EndsFollow == \A i \in DOMAIN wire : wire[i].kind = "turn" => EndBehind(i)
EndInv ==
  faults = 0 /\ exits = 0 =>
    /\ \A f \in Flows : flows[f] # "failed"
    /\ exiting = "none"
    /\ Holds("request", "add") => InTurn
    /\ InTurn => turn # 0 /\ turn \in byTurn /\ EndKnown(turn)
    /\ EndsFollow

(* One recovery at a time: its task, its line and its task again *)
ReadInv ==
  /\ \A i \in DOMAIN wire : wire[i].kind = "history" =>
       /\ read.at = "sent" /\ wire[i].native[read.turn] # "none"
       /\ \A j \in DOMAIN wire : wire[j].kind = "history" => j = i
  /\ \A i \in DOMAIN queue : queue[i].kind = "baseline" =>
       /\ read.at = "waiting"
       /\ \A j \in DOMAIN queue : queue[j].kind = "baseline" => j = i
  /\ \A i \in DOMAIN queue : queue[i].kind = "apply" =>
       /\ read.at = "read" /\ queue[i].native[read.turn] # "none"
       /\ queue[i].at = "complete" => queue[i].native[read.turn] # "running"
       /\ \A j \in DOMAIN queue : queue[j].kind = "apply" => j = i
  /\ read.at = "asked" => read.native[read.turn] # "none"

(* The pieces of output of turn t in s, behind the first k of it *)
IsPiece(x, t) == x.kind = "text" /\ x.turn = t
PieceAt(s, t, k) == {i \in (k + 1) .. Len(s) : IsPiece(s[i], t)}
Pieces(s, t, k) == Cardinality(PieceAt(s, t, k))

(* What is in the projection, in the queue and on its way was said, and     *)
(* what a read shows has all of it that came before, and nothing that comes *)
(* after, unless a notification moved the epoch                             *)
ShownWasSaid ==
  \A t \in Turns : projected[t] + Pieces(queue, t, 0) + Pieces(wire, t, 0) <= said[t]
AskedWasSaid == read.at = "asked" => \A t \in Turns : read.text[t] <= said[t]
HistoryWasSaid ==
  \A k \in DOMAIN wire : wire[k].kind = "history" =>
    \A t \in Turns : wire[k].text[t] + Pieces(wire, t, k) <= said[t]
AppliedWasSaid ==
  \A k \in DOMAIN queue : queue[k].kind = "apply" =>
    \A t \in Turns : queue[k].text[t] + Pieces(wire, t, 0) <= said[t]
OutputInv == ShownWasSaid /\ AskedWasSaid /\ HistoryWasSaid /\ AppliedWasSaid

ShownWasAsked ==
  read.at = "asked" => \A t \in Turns : projected[t] + Pieces(queue, t, 0) <= read.text[t]
ShownIsInHistory ==
  \A k \in DOMAIN wire : wire[k].kind = "history" =>
    \A t \in Turns : projected[t] + Pieces(queue, t, 0) <= wire[k].text[t]
ShownIsApplied ==
  \A k \in DOMAIN queue : queue[k].kind = "apply" =>
    \A t \in Turns : /\ projected[t] + Pieces(queue, t, 0) <= queue[k].text[t]
                     /\ Pieces(queue, t, k) = 0
SnapshotInv == ~changed => ShownWasAsked /\ ShownIsInHistory /\ ShownIsApplied

TurnInv ==
  /\ TypeInv /\ NativeInv /\ PlaceInv /\ KeptInv /\ DecisionInv /\ StatusInv /\ EndInv
  /\ ReadInv /\ OutputInv /\ SnapshotInv

-----------------------------------------------------------------------------
(* Sequences: what Append, Tail and a new head leave where *)

LEMMA Appended ==
  ASSUME NEW S, NEW s \in Seq(S), NEW e \in S
  PROVE  /\ Append(s, e) \in Seq(S) /\ Len(Append(s, e)) = Len(s) + 1
         /\ DOMAIN s = 1 .. Len(s) /\ Len(s) \in Nat
         /\ DOMAIN Append(s, e) = DOMAIN s \cup {Len(s) + 1}
         /\ \A i \in DOMAIN s : Append(s, e)[i] = s[i] /\ i <= Len(s)
         /\ Append(s, e)[Len(s) + 1] = e
<1>1. Append(s, e) \in Seq(S) /\ Len(Append(s, e)) = Len(s) + 1
  OBVIOUS
<1>2. DOMAIN s = 1 .. Len(s) /\ Len(s) \in Nat /\ DOMAIN Append(s, e) = 1 .. (Len(s) + 1)
  BY <1>1
<1>3. 1 .. (Len(s) + 1) = 1 .. Len(s) \cup {Len(s) + 1}
  BY <1>2
<1> QED BY <1>1, <1>2, <1>3

LEMMA Rest1 ==
  ASSUME NEW S, NEW s \in Seq(S), s # <<>>
  PROVE  /\ Tail(s) \in Seq(S) /\ Len(Tail(s)) = Len(s) - 1
         /\ DOMAIN s = 1 .. Len(s) /\ Len(s) \in Nat /\ 1 \in DOMAIN s
         /\ DOMAIN Tail(s) = 1 .. (Len(s) - 1)
         /\ \A i \in DOMAIN Tail(s) : Tail(s)[i] = s[i + 1] /\ i + 1 \in DOMAIN s
         /\ \A i \in DOMAIN s : i # 1 => i - 1 \in DOMAIN Tail(s) /\ Tail(s)[i - 1] = s[i]
<1>1. Tail(s) \in Seq(S) /\ Len(Tail(s)) = Len(s) - 1 /\ Len(s) \in Nat /\ Len(s) # 0
  OBVIOUS
<1>2. DOMAIN s = 1 .. Len(s) /\ DOMAIN Tail(s) = 1 .. (Len(s) - 1)
  BY <1>1
<1>3. \A i \in 1 .. (Len(s) - 1) : Tail(s)[i] = s[i + 1]
  OBVIOUS
<1>4. \A i \in DOMAIN Tail(s) : Tail(s)[i] = s[i + 1] /\ i + 1 \in DOMAIN s
  BY <1>1, <1>2, <1>3
<1>5. \A i \in DOMAIN s : i # 1 => i - 1 \in DOMAIN Tail(s) /\ Tail(s)[i - 1] = s[i]
  BY <1>1, <1>2, <1>3
<1> QED BY <1>1, <1>2, <1>4, <1>5

LEMMA NewHead ==
  ASSUME NEW S, NEW s \in Seq(S), s # <<>>, NEW e \in S
  PROVE  /\ [s EXCEPT ![1] = e] \in Seq(S) /\ Len([s EXCEPT ![1] = e]) = Len(s)
         /\ DOMAIN [s EXCEPT ![1] = e] = DOMAIN s /\ 1 \in DOMAIN s
         /\ DOMAIN s = 1 .. Len(s) /\ Len(s) \in Nat
         /\ [s EXCEPT ![1] = e][1] = e
         /\ \A i \in DOMAIN s : i # 1 => [s EXCEPT ![1] = e][i] = s[i]
<1>1. Len(s) \in Nat /\ DOMAIN s = 1 .. Len(s) /\ Len(s) # 0
  OBVIOUS
<1>2. 1 \in DOMAIN s
  BY <1>1
<1>3. [s EXCEPT ![1] = e] \in Seq(S) /\ Len([s EXCEPT ![1] = e]) = Len(s)
  BY <1>2
<1> QED BY <1>1, <1>2, <1>3

(* The pieces of a sequence are finitely many, and how their number changes *)
LEMMA PiecesAreNat ==
  ASSUME NEW s, Len(s) \in Nat, NEW t, NEW k \in Nat
  PROVE  IsFiniteSet(PieceAt(s, t, k)) /\ Pieces(s, t, k) \in Nat
<1>1. IsFiniteSet((k + 1) .. Len(s))
  BY FS_Interval
<1>2. PieceAt(s, t, k) \subseteq (k + 1) .. Len(s)
  BY DEF PieceAt
<1>3. IsFiniteSet(PieceAt(s, t, k))
  BY <1>1, <1>2, FS_Subset
<1> QED BY <1>3, FS_CardinalityType DEF Pieces

LEMMA PiecesAppended ==
  ASSUME NEW S, NEW s \in Seq(S), NEW e \in S, NEW t, NEW k \in 0 .. Len(s)
  PROVE  Pieces(Append(s, e), t, k) = Pieces(s, t, k) + (IF IsPiece(e, t) THEN 1 ELSE 0)
<1> DEFINE z == Append(s, e)
           n == Len(s)
<1>1. /\ n \in Nat /\ Len(z) = n + 1 /\ \A i \in 1 .. n : z[i] = s[i]
      /\ z[n + 1] = e
  BY Appended
<1> HIDE DEF z
<1>2. (k + 1) .. (n + 1) = ((k + 1) .. n) \cup {n + 1} /\ n + 1 \notin (k + 1) .. n
  BY <1>1
<1>3. \A i \in (k + 1) .. n : z[i] = s[i]
  BY <1>1
<1>4. CASE IsPiece(e, t)
  <2>1. PieceAt(z, t, k) = PieceAt(s, t, k) \cup {n + 1}
    BY <1>1, <1>2, <1>3, <1>4 DEF PieceAt
  <2>2. n + 1 \notin PieceAt(s, t, k)
    BY <1>2 DEF PieceAt
  <2>3. IsFiniteSet(PieceAt(s, t, k)) /\ Pieces(s, t, k) \in Nat
    BY <1>1, PiecesAreNat
  <2> QED BY <1>4, <2>1, <2>2, <2>3, FS_AddElement DEF Pieces, z
<1>5. CASE ~IsPiece(e, t)
  <2>1. PieceAt(z, t, k) = PieceAt(s, t, k)
    BY <1>1, <1>2, <1>3, <1>5 DEF PieceAt
  <2>2. Pieces(s, t, k) \in Nat
    BY <1>1, PiecesAreNat
  <2> QED BY <1>5, <2>1, <2>2 DEF Pieces, z
<1> QED BY <1>4, <1>5

LEMMA PiecesShifted ==
  ASSUME NEW S, NEW s \in Seq(S), s # <<>>, NEW t, NEW k \in 1 .. Len(s)
  PROVE  Pieces(Tail(s), t, k - 1) = Pieces(s, t, k)
<1> DEFINE z == Tail(s)
           n == Len(s)
           F == [i \in PieceAt(s, t, k) |-> i - 1]
<1>1. n \in Nat /\ n # 0 /\ Len(z) = n - 1 /\ \A i \in 1 .. (n - 1) : z[i] = s[i + 1]
  BY Rest1
<1> HIDE DEF z
<1>2. \A i \in PieceAt(s, t, k) : i \in (k + 1) .. n /\ IsPiece(s[i], t)
  BY DEF PieceAt
<1>3. \A i \in PieceAt(s, t, k) : i - 1 \in PieceAt(z, t, k - 1)
  <2> SUFFICES ASSUME NEW i \in PieceAt(s, t, k) PROVE i - 1 \in PieceAt(z, t, k - 1)
    OBVIOUS
  <2>1. i \in (k + 1) .. n /\ IsPiece(s[i], t)
    BY <1>2
  <2>2. i - 1 \in 1 .. (n - 1) /\ (i - 1) + 1 = i /\ i - 1 \in ((k - 1) + 1) .. (n - 1)
    BY <1>1, <2>1
  <2>3. z[i - 1] = s[i]
    BY <1>1, <2>2
  <2> QED BY <1>1, <2>1, <2>2, <2>3 DEF PieceAt
<1>4. \A i \in PieceAt(z, t, k - 1) : i + 1 \in PieceAt(s, t, k) /\ (i + 1) - 1 = i
  <2> SUFFICES ASSUME NEW i \in PieceAt(z, t, k - 1)
               PROVE  i + 1 \in PieceAt(s, t, k) /\ (i + 1) - 1 = i
    OBVIOUS
  <2>1. i \in ((k - 1) + 1) .. (n - 1) /\ IsPiece(z[i], t)
    BY <1>1 DEF PieceAt
  <2>2. i \in 1 .. (n - 1) /\ i + 1 \in (k + 1) .. n /\ (i + 1) - 1 = i
    BY <1>1, <2>1
  <2>3. z[i] = s[i + 1]
    BY <1>1, <2>2
  <2> QED BY <2>1, <2>2, <2>3 DEF PieceAt
<1>5. F \in Bijection(PieceAt(s, t, k), PieceAt(z, t, k - 1))
  <2>1. F \in [PieceAt(s, t, k) -> PieceAt(z, t, k - 1)]
    BY <1>3
  <2>2. \A i, j \in PieceAt(s, t, k) : F[i] = F[j] => i = j
    BY <1>1, <1>2
  <2>3. \A j \in PieceAt(z, t, k - 1) : \E i \in PieceAt(s, t, k) : F[i] = j
    BY <1>4
  <2> QED BY <2>1, <2>2, <2>3 DEF Bijection, Injection, Surjection, IsInjective
<1>6. ExistsBijection(PieceAt(s, t, k), PieceAt(z, t, k - 1))
  BY <1>5 DEF ExistsBijection
<1>7. IsFiniteSet(PieceAt(s, t, k))
  BY <1>1, PiecesAreNat
<1> QED BY <1>6, <1>7, FS_Bijection DEF Pieces, z

LEMMA PiecesFirst ==
  ASSUME NEW S, NEW s \in Seq(S), s # <<>>, NEW t
  PROVE  Pieces(s, t, 0) = Pieces(s, t, 1) + (IF IsPiece(s[1], t) THEN 1 ELSE 0)
<1> DEFINE n == Len(s)
<1>1. n \in Nat /\ n # 0
  OBVIOUS
<1>2. (0 + 1) .. n = {1} \cup ((1 + 1) .. n) /\ 1 \notin (1 + 1) .. n
  BY <1>1
<1>3. IsFiniteSet(PieceAt(s, t, 1)) /\ Pieces(s, t, 1) \in Nat
  BY <1>1, PiecesAreNat
<1>4. CASE IsPiece(s[1], t)
  <2>1. PieceAt(s, t, 0) = PieceAt(s, t, 1) \cup {1} /\ 1 \notin PieceAt(s, t, 1)
    BY <1>2, <1>4 DEF PieceAt
  <2> QED BY <1>3, <1>4, <2>1, FS_AddElement DEF Pieces
<1>5. CASE ~IsPiece(s[1], t)
  <2>1. PieceAt(s, t, 0) = PieceAt(s, t, 1)
    BY <1>2, <1>5 DEF PieceAt
  <2> QED BY <1>3, <1>5, <2>1 DEF Pieces
<1> QED BY <1>4, <1>5

LEMMA PiecesReleased ==
  ASSUME NEW S, NEW s \in Seq(S), s # <<>>, NEW t
  PROVE  /\ Pieces(s, t, 0) = Pieces(Tail(s), t, 0) + (IF IsPiece(s[1], t) THEN 1 ELSE 0)
         /\ Pieces(Tail(s), t, 0) \in Nat
<1>1. Len(s) \in Nat /\ Len(s) # 0 /\ Len(Tail(s)) = Len(s) - 1
  OBVIOUS
<1>2. 1 \in 1 .. Len(s) /\ 1 - 1 = 0 /\ Len(Tail(s)) \in Nat
  BY <1>1
<1>3. Pieces(Tail(s), t, 1 - 1) = Pieces(s, t, 1)
  BY <1>2, PiecesShifted
<1> QED BY <1>2, <1>3, PiecesFirst, PiecesAreNat

-----------------------------------------------------------------------------
(* The tasks and the lines: what a step does with one of them *)

(* A task with another place, or another turn it has seen, is what it was *)
SameTask(e, q) ==
  /\ e.kind = q.kind
  /\ q.kind = "request" => e.turn = q.turn /\ e.request = q.request
  /\ q.kind = "decide" => e.request = q.request /\ e.decision = q.decision
  /\ q.kind \in {"started", "text", "ended"} => e.turn = q.turn /\ e.state = q.state
  /\ q.kind = "apply" => e.text = q.text /\ e.native = q.native

Moved(e, at) == e \in Tasks /\ SameTask(e, Task) /\ e.at = at /\ queue' = [queue EXCEPT ![1] = e]

LEMMA TaskParts ==
  ASSUME NEW q \in Tasks
  PROVE  /\ q.kind \in {"started", "text", "ended", "request", "decide", "cancel", "send", "baseline", "apply"}
         /\ q.at \in Places
         /\ q.kind \in {"started", "text"} <=> q \in NewsTask
         /\ q.kind = "ended" <=> q \in EndTask
         /\ q.kind = "request" <=> q \in RequestTask
         /\ q.kind = "decide" <=> q \in DecideTask
         /\ q.kind = "cancel" <=> q \in CancelTask
         /\ q.kind \in {"send", "baseline"} <=> q \in PlainTask
         /\ q.kind = "apply" <=> q \in ApplyTask
BY DEF Tasks, NewsTask, EndTask, RequestTask, DecideTask, CancelTask, PlainTask, ApplyTask

LEMMA LineParts ==
  ASSUME NEW x \in Lines
  PROVE  /\ x.kind \in {"turn", "started", "text", "ended", "request", "history"}
         /\ x.kind = "turn" <=> x \in TurnLine
         /\ x.kind \in {"started", "text"} <=> x \in NewsLine
         /\ x.kind = "ended" <=> x \in EndLine
         /\ x.kind = "request" <=> x \in RequestLine
         /\ x.kind = "history" <=> x \in HistoryLine
         /\ x.kind # "history" => x.turn \in Turns
BY DEF Lines, TurnLine, NewsLine, EndLine, RequestLine, HistoryLine

LEMMA TaskMoves ==
  ASSUME NEW q \in Tasks, NEW a \in Places, NEW e, e = [q EXCEPT !.at = a]
  PROVE  e \in Tasks /\ SameTask(e, q) /\ e.at = a
<1>1. CASE q \in NewsTask
  BY <1>1 DEF NewsTask, Tasks, SameTask
<1>2. CASE q \in EndTask
  BY <1>2 DEF EndTask, Tasks, SameTask
<1>3. CASE q \in RequestTask
  BY <1>3 DEF RequestTask, Tasks, SameTask
<1>4. CASE q \in DecideTask
  BY <1>4 DEF DecideTask, Tasks, SameTask
<1>5. CASE q \in CancelTask
  BY <1>5 DEF CancelTask, Tasks, SameTask
<1>6. CASE q \in PlainTask
  BY <1>6 DEF PlainTask, Tasks, SameTask
<1>7. CASE q \in ApplyTask
  BY <1>7 DEF ApplyTask, Tasks, SameTask
<1> QED BY <1>1, <1>2, <1>3, <1>4, <1>5, <1>6, <1>7 DEF Tasks

(* The queue, the wire, a task and a line *)
LEMMA QueueParts ==
  ASSUME QueueOK, queue # <<>>
  PROVE  Task \in Tasks /\ queue \in Seq(Tasks) /\ 1 \in DOMAIN queue
BY Rest1 DEF QueueOK, Task

LEMMA GoToMoves ==
  ASSUME QueueOK, queue # <<>>, NEW a \in Places, GoTo(a)
  PROVE  \E e \in Tasks : Moved(e, a)
<1>1. Task \in Tasks /\ queue \in Seq(Tasks) /\ 1 \in DOMAIN queue
  BY QueueParts
<1> DEFINE e == [queue[1] EXCEPT !.at = a]
<1>2. e \in Tasks /\ SameTask(e, Task) /\ e.at = a
  BY <1>1, TaskMoves DEF Task
<1>3. queue' = [queue EXCEPT ![1] = e]
  BY <1>1 DEF GoTo
<1> QED BY <1>2, <1>3 DEF Moved

(* One task of the kinds K joins, leaves or moves; one line comes or goes *)
QueueStep(K) ==
  \/ queue' = queue
  \/ \E e \in Tasks : e.kind \in K /\ e.at = "check" /\ queue' = Append(queue, e)
  \/ queue # <<>> /\ Task.kind \in K /\ queue' = Tail(queue)
  \/ queue # <<>> /\ Task.kind \in K /\ \E e \in Tasks : e.kind = Task.kind /\ queue' = [queue EXCEPT ![1] = e]
WireStep(K) ==
  \/ wire' = wire
  \/ \E e \in Lines : e.kind \in K /\ wire' = Append(wire, e)
  \/ wire # <<>> /\ wire[1].kind \in K /\ wire' = Tail(wire)

(* The elements of the kinds L are still there, in their order *)
Carries(s, z, L) ==
  \E d \in {0, 1} :
    /\ \A i \in DOMAIN z : z[i].kind \in L => i + d \in DOMAIN s /\ z[i] = s[i + d]
    /\ \A i \in DOMAIN s : s[i].kind \in L => i - d \in DOMAIN z /\ z[i - d] = s[i]

LEMMA QueueTyped ==
  ASSUME QueueOK, NEW K, QueueStep(K)
  PROVE  QueueOK'
<1>1. CASE queue' = queue
  BY <1>1 DEF QueueOK
<1>2. ASSUME NEW e \in Tasks, e.at = "check", queue' = Append(queue, e) PROVE QueueOK'
  BY <1>2, Appended DEF QueueOK
<1>3. CASE queue # <<>> /\ queue' = Tail(queue)
  <2>1. queue' \in Seq(Tasks) /\ \A i \in DOMAIN queue' : i \in Nat /\ i # 0 /\ queue'[i] = queue[i + 1] /\ i + 1 \in DOMAIN queue
    BY <1>3, Rest1 DEF QueueOK
  <2> QED BY <2>1 DEF QueueOK
<1>4. ASSUME queue # <<>>, NEW e \in Tasks, queue' = [queue EXCEPT ![1] = e] PROVE QueueOK'
  BY <1>4, NewHead DEF QueueOK
<1> QED BY <1>1, <1>2, <1>3, <1>4 DEF QueueStep

LEMMA QueueCarries ==
  ASSUME QueueOK, NEW K, QueueStep(K), NEW L, K \cap L = {}
  PROVE  Carries(queue, queue', L)
<1>0. \A i \in DOMAIN queue : i \in Int /\ i + 0 = i /\ i - 0 = i /\ (i - 1) + 1 = i /\ (i + 1) - 1 = i
  BY DEF QueueOK
<1>1. CASE queue' = queue
  BY <1>0, <1>1 DEF Carries
<1>2. ASSUME NEW e \in Tasks, e.kind \in K, queue' = Append(queue, e) PROVE Carries(queue, queue', L)
  <2>1. /\ DOMAIN queue' = DOMAIN queue \cup {Len(queue) + 1} /\ queue'[Len(queue) + 1] = e
        /\ \A i \in DOMAIN queue : queue'[i] = queue[i]
    BY <1>2, Appended DEF QueueOK
  <2>2. e.kind \notin L
    BY <1>2
  <2>3. /\ \A i \in DOMAIN queue' : queue'[i].kind \in L => i + 0 \in DOMAIN queue /\ queue'[i] = queue[i + 0]
        /\ \A i \in DOMAIN queue : queue[i].kind \in L => i - 0 \in DOMAIN queue' /\ queue'[i - 0] = queue[i]
    BY <1>0, <2>1, <2>2
  <2> QED BY <2>3 DEF Carries
<1>3. CASE queue # <<>> /\ Task.kind \in K /\ queue' = Tail(queue)
  <2>1. /\ \A i \in DOMAIN queue' : queue'[i] = queue[i + 1] /\ i + 1 \in DOMAIN queue
        /\ \A i \in DOMAIN queue : i # 1 => i - 1 \in DOMAIN queue' /\ queue'[i - 1] = queue[i]
    BY <1>3, Rest1 DEF QueueOK
  <2>2. queue[1].kind \notin L
    BY <1>3 DEF Task
  <2>3. /\ \A i \in DOMAIN queue' : queue'[i].kind \in L => i + 1 \in DOMAIN queue /\ queue'[i] = queue[i + 1]
        /\ \A i \in DOMAIN queue : queue[i].kind \in L => i - 1 \in DOMAIN queue' /\ queue'[i - 1] = queue[i]
    BY <2>1, <2>2
  <2> QED BY <2>3 DEF Carries
<1>4. ASSUME queue # <<>>, Task.kind \in K, NEW e \in Tasks, e.kind = Task.kind, queue' = [queue EXCEPT ![1] = e]
      PROVE  Carries(queue, queue', L)
  <2>1. /\ DOMAIN queue' = DOMAIN queue /\ queue'[1] = e /\ 1 \in DOMAIN queue
        /\ \A i \in DOMAIN queue : i # 1 => queue'[i] = queue[i]
    BY <1>4, NewHead DEF QueueOK
  <2>2. e.kind \notin L /\ queue[1].kind \notin L
    BY <1>4 DEF Task
  <2>3. /\ \A i \in DOMAIN queue' : queue'[i].kind \in L => i + 0 \in DOMAIN queue /\ queue'[i] = queue[i + 0]
        /\ \A i \in DOMAIN queue : queue[i].kind \in L => i - 0 \in DOMAIN queue' /\ queue'[i - 0] = queue[i]
    BY <1>0, <2>1, <2>2
  <2> QED BY <2>3 DEF Carries
<1> QED BY <1>1, <1>2, <1>3, <1>4 DEF QueueStep

LEMMA WireCarries ==
  ASSUME wire \in Seq(Lines), NEW K, WireStep(K), NEW L, K \cap L = {}
  PROVE  wire' \in Seq(Lines) /\ Carries(wire, wire', L)
<1>0. \A i \in DOMAIN wire : i \in Int /\ i + 0 = i /\ i - 0 = i /\ (i - 1) + 1 = i /\ (i + 1) - 1 = i
  OBVIOUS
<1>1. CASE wire' = wire
  BY <1>0, <1>1 DEF Carries
<1>2. ASSUME NEW e \in Lines, e.kind \in K, wire' = Append(wire, e)
      PROVE  wire' \in Seq(Lines) /\ Carries(wire, wire', L)
  <2>1. /\ DOMAIN wire' = DOMAIN wire \cup {Len(wire) + 1} /\ wire'[Len(wire) + 1] = e
        /\ \A i \in DOMAIN wire : wire'[i] = wire[i]
        /\ wire' \in Seq(Lines)
    BY <1>2, Appended
  <2>2. e.kind \notin L
    BY <1>2
  <2>3. /\ \A i \in DOMAIN wire' : wire'[i].kind \in L => i + 0 \in DOMAIN wire /\ wire'[i] = wire[i + 0]
        /\ \A i \in DOMAIN wire : wire[i].kind \in L => i - 0 \in DOMAIN wire' /\ wire'[i - 0] = wire[i]
    BY <1>0, <2>1, <2>2
  <2> QED BY <2>1, <2>3 DEF Carries
<1>3. CASE wire # <<>> /\ wire[1].kind \in K /\ wire' = Tail(wire)
  <2>1. /\ \A i \in DOMAIN wire' : wire'[i] = wire[i + 1] /\ i + 1 \in DOMAIN wire
        /\ \A i \in DOMAIN wire : i # 1 => i - 1 \in DOMAIN wire' /\ wire'[i - 1] = wire[i]
        /\ wire' \in Seq(Lines)
    BY <1>3, Rest1
  <2>2. wire[1].kind \notin L
    BY <1>3
  <2>3. /\ \A i \in DOMAIN wire' : wire'[i].kind \in L => i + 1 \in DOMAIN wire /\ wire'[i] = wire[i + 1]
        /\ \A i \in DOMAIN wire : wire[i].kind \in L => i - 1 \in DOMAIN wire' /\ wire'[i - 1] = wire[i]
    BY <2>1, <2>2
  <2> QED BY <2>1, <2>3 DEF Carries
<1> QED BY <1>1, <1>2, <1>3 DEF WireStep

-----------------------------------------------------------------------------
(* What each part of the next-state relation does to the queue and the wire *)

LEMMA Releases ==
  ASSUME QueueOK, NEW kind, NEW at, Holds(kind, at), Release
  PROVE  QueueStep({Task.kind}) /\ Task.kind = kind /\ Task.at = at /\ queue # <<>>
BY DEF Holds, Release, QueueStep, Task

LEMMA Goes ==
  ASSUME QueueOK, NEW kind, NEW at, Holds(kind, at), NEW a \in Places, GoTo(a)
  PROVE  /\ QueueStep({Task.kind}) /\ Task.kind = kind /\ Task.at = at /\ queue # <<>>
         /\ \E e \in Tasks : Moved(e, a)
<1>1. PICK e \in Tasks : Moved(e, a)
  BY GoToMoves DEF Holds
<1> QED BY <1>1 DEF Holds, QueueStep, Task, Moved, SameTask

(* TurnEnded and CancelRead look at the record's turn *)
LEMMA Sees ==
  ASSUME QueueOK, queue # <<>>, Task \in EndTask \cup CancelTask, NEW a \in Places, NEW u \in Turns \cup {0},
         \/ queue' = [queue EXCEPT ![1].at = a, ![1].seen = u]
         \/ queue' = [queue EXCEPT ![1].seen = u, ![1].at = a]
  PROVE  QueueStep({Task.kind}) /\ \E e \in Tasks : Moved(e, a) /\ e.seen = u
<1>1. Task \in Tasks /\ queue \in Seq(Tasks) /\ 1 \in DOMAIN queue
  BY QueueParts
<1>2. PICK e : e = [Task EXCEPT !.at = a, !.seen = u]
  OBVIOUS
<1>3. e \in Tasks /\ SameTask(e, Task) /\ e.at = a /\ e.seen = u
  <2>1. CASE Task \in EndTask
    BY <1>2, <2>1 DEF EndTask, Tasks, SameTask
  <2>2. CASE Task \in CancelTask
    BY <1>2, <2>2 DEF CancelTask, Tasks, SameTask
  <2> QED BY <2>1, <2>2
<1>a. e = [Task EXCEPT !.seen = u, !.at = a]
  BY <1>2 DEF EndTask, CancelTask
<1>4. queue' = [queue EXCEPT ![1] = e]
  BY <1>1, <1>2, <1>a DEF Task
<1>5. Moved(e, a)
  BY <1>3, <1>4 DEF Moved
<1> QED BY <1>3, <1>5, <1>4 DEF QueueStep, SameTask

NewsStep ==
  NotificationIgnored \/ TurnStarted \/ TextArrived \/ TurnEnded \/ TurnSettles \/ NotificationFails
RequestStep == RequestDeclined \/ RequestGoesLive \/ RequestPending \/ RequestProjected \/ RequestFails
DecideStep == DecisionRefused \/ DecisionSent \/ DecisionStored \/ DecisionFails
CancelStep == CancelRead \/ CancelInterrupts \/ CancelConfirmed \/ CancelFails \/ CancelSettles
SendStep == MessageRead \/ MessageSteers \/ MessagePrepares
ApplyStep == HistoryRefused \/ HistoryApplied \/ HistorySettles

LEMMA NewsShape ==
  ASSUME QueueOK, RecordOK, NewsStep
  PROVE  /\ queue # <<>> /\ Task.kind \in {"started", "text", "ended"} /\ QueueStep({Task.kind})
         /\ UNCHANGED <<wire, starts, native, said, asker, gone, answers, live, ready>>
         /\ TurnEnded => \E e \in Tasks : Moved(e, "complete")
<1> USE DEF server, recovery, store, maps, counts
<1>1. CASE NotificationIgnored
  <2>1. PICK kind \in {"started", "text", "ended"} : Holds(kind, "check")
    BY <1>1 DEF NotificationIgnored
  <2> QED BY <1>1, <2>1, Releases DEF NotificationIgnored, TurnEnded, Ignored
<1>2. CASE TurnStarted
  BY <1>2, Releases DEF TurnStarted, TurnEnded, Holds
<1>3. CASE TextArrived
  BY <1>3, Releases DEF TextArrived, TurnEnded, Holds
<1>4. CASE TurnEnded
  <2>1. queue # <<>> /\ Task.kind = "ended" /\ Task \in EndTask
    BY <1>4, QueueParts, TaskParts DEF TurnEnded, Holds, Task
  <2>2. turn \in Turns \cup {0} /\ "complete" \in Places
    BY DEF RecordOK, Places
  <2>3. QueueStep({Task.kind}) /\ \E e \in Tasks : Moved(e, "complete")
    BY <1>4, <2>1, <2>2, Sees DEF TurnEnded
  <2> QED BY <1>4, <2>1, <2>3 DEF TurnEnded
<1>5. CASE TurnSettles
  BY <1>5, Releases DEF TurnSettles, TurnEnded, Holds
<1>6. CASE NotificationFails
  <2>1. PICK kind \in {"started", "text", "ended"}, at \in {"check", "complete"} : Holds(kind, at)
    BY <1>6 DEF NotificationFails
  <2>2. Release /\ UNCHANGED <<wire, starts, native, said, asker, gone, answers, live, ready>>
    BY <1>6 DEF NotificationFails
  <2>3. QueueStep({Task.kind}) /\ Task.kind = kind /\ queue # <<>>
    BY <2>1, <2>2, Releases
  <2>4. TurnEnded => \E e \in Tasks : Moved(e, "complete")
    BY <1>4, <1>6 DEF NotificationFails, TurnEnded, Fault
  <2> QED BY <2>1, <2>2, <2>3, <2>4
<1> QED BY <1>1, <1>2, <1>3, <1>4, <1>5, <1>6 DEF NewsStep

LEMMA RequestShape ==
  ASSUME QueueOK, RequestStep
  PROVE  /\ queue # <<>> /\ Task.kind = "request" /\ QueueStep({Task.kind})
         /\ UNCHANGED <<wire, starts, native, said, asker, gone, ready, read>>
         /\ RequestGoesLive => \E e \in Tasks : Moved(e, "add")
         /\ RequestPending => \E e \in Tasks : Moved(e, "project")
<1> USE DEF server, recovery, store, maps, counts
<1>0. "add" \in Places /\ "project" \in Places
  BY DEF Places
<1>1. RequestDeclined => queue # <<>> /\ Task.kind = "request" /\ QueueStep({Task.kind})
  BY Releases DEF RequestDeclined
<1>2. RequestGoesLive => /\ queue # <<>> /\ Task.kind = "request" /\ QueueStep({Task.kind})
                         /\ \E e \in Tasks : Moved(e, "add")
  BY <1>0, Goes DEF RequestGoesLive
<1>3. RequestPending => /\ queue # <<>> /\ Task.kind = "request" /\ QueueStep({Task.kind})
                        /\ \E e \in Tasks : Moved(e, "project")
  BY <1>0, Goes DEF RequestPending
<1>4. RequestProjected => queue # <<>> /\ Task.kind = "request" /\ QueueStep({Task.kind})
  BY Releases DEF RequestProjected
<1>5. RequestFails => queue # <<>> /\ Task.kind = "request" /\ QueueStep({Task.kind})
  BY Releases DEF RequestFails
<1>6. UNCHANGED <<wire, starts, native, said, asker, gone, ready, read>>
  BY DEF RequestStep, RequestDeclined, RequestGoesLive, RequestPending, RequestProjected, RequestFails
<1> QED BY <1>1, <1>2, <1>3, <1>4, <1>5, <1>6 DEF RequestStep

LEMMA DecideShape ==
  ASSUME QueueOK, DecideStep
  PROVE  /\ queue # <<>> /\ Task.kind = "decide" /\ QueueStep({Task.kind})
         /\ UNCHANGED <<wire, starts, native, said, asker, gone, ready, read>>
         /\ DecisionSent => \E e \in Tasks : Moved(e, "resolve")
<1> USE DEF server, recovery, store, maps, counts
<1>0. "resolve" \in Places
  BY DEF Places
<1>1. DecisionRefused => queue # <<>> /\ Task.kind = "decide" /\ QueueStep({Task.kind})
  BY Releases DEF DecisionRefused
<1>2. DecisionSent => /\ queue # <<>> /\ Task.kind = "decide" /\ QueueStep({Task.kind})
                      /\ \E e \in Tasks : Moved(e, "resolve")
  BY <1>0, Goes DEF DecisionSent
<1>3. DecisionStored => queue # <<>> /\ Task.kind = "decide" /\ QueueStep({Task.kind})
  BY Releases DEF DecisionStored
<1>4. DecisionFails => queue # <<>> /\ Task.kind = "decide" /\ QueueStep({Task.kind})
  BY Releases DEF DecisionFails
<1>5. UNCHANGED <<wire, starts, native, said, asker, gone, ready, read>>
  BY DEF DecideStep, DecisionRefused, DecisionSent, DecisionStored, DecisionFails
<1> QED BY <1>1, <1>2, <1>3, <1>4, <1>5 DEF DecideStep

LEMMA CancelShape ==
  ASSUME QueueOK, RecordOK, CancelStep
  PROVE  /\ queue # <<>> /\ Task.kind = "cancel" /\ QueueStep({Task.kind})
         /\ UNCHANGED <<starts, said, asker, gone, answers, live, ready, read>>
         /\ ~CancelInterrupts => UNCHANGED <<wire, native>>
         /\ Release \/ \E e \in Tasks :
              \/ Moved(e, "complete")
              \/ Moved(e, "interrupt") /\ e.seen \in Turns
<1> USE DEF server, recovery, store, maps, counts
<1>0. {"complete", "interrupt"} \subseteq Places
  BY DEF Places
<1>1. CASE CancelRead
  <2>1. queue # <<>> /\ Task.kind = "cancel" /\ Task \in CancelTask
    BY <1>1, QueueParts, TaskParts DEF CancelRead, Holds, Task
  <2>2. turn \in Turns \cup {0}
    BY DEF RecordOK
  <2>3. CASE Settled
    BY <1>1, <2>3, Releases DEF CancelRead
  <2>4. CASE ~Settled
    <3>1. QueueStep({Task.kind}) /\ \E e \in Tasks :
            \/ Moved(e, "complete")
            \/ Moved(e, "interrupt") /\ e.seen \in Turns
      <4>1. CASE thread /\ turn # 0 /\ ready
        <5>1. queue' = [queue EXCEPT ![1].seen = turn, ![1].at = "interrupt"]
          BY <1>1, <2>4, <4>1 DEF CancelRead
        <5>2. turn \in Turns /\ "interrupt" \in Places
          BY <1>0, <2>2, <4>1
        <5>3. QueueStep({Task.kind}) /\ \E e \in Tasks : Moved(e, "interrupt") /\ e.seen = turn
          BY <2>1, <2>2, <5>1, <5>2, Sees
        <5> QED BY <5>2, <5>3
      <4>2. CASE ~(thread /\ turn # 0 /\ ready)
        BY <1>0, <1>1, <2>1, <2>2, <2>4, <4>2, Sees DEF CancelRead
      <4> QED BY <4>1, <4>2
    <3> QED BY <1>1, <2>1, <3>1 DEF CancelRead
  <2> QED BY <2>3, <2>4
<1>2. CASE CancelInterrupts
  BY <1>0, <1>2, Goes DEF CancelInterrupts
<1>3. CASE CancelConfirmed
  BY <1>0, <1>3, Goes DEF CancelConfirmed
<1>4. CASE CancelFails
  BY <1>4, Releases DEF CancelFails
<1>5. CASE CancelSettles
  BY <1>5, Releases DEF CancelSettles
<1> QED BY <1>1, <1>2, <1>3, <1>4, <1>5 DEF CancelStep

LEMMA SendShape ==
  ASSUME QueueOK, SendStep
  PROVE  /\ queue # <<>> /\ Task.kind = "send" /\ QueueStep({Task.kind})
         /\ UNCHANGED <<wire, starts, native, said, asker, gone, answers, live, read>>
<1> USE DEF server, recovery, store, maps, counts
<1>0. {"steer", "prepare"} \subseteq Places
  BY DEF Places
<1>1. CASE MessageRead
  BY <1>0, <1>1, Releases, Goes DEF MessageRead
<1>2. CASE MessageSteers
  BY <1>2, Releases DEF MessageSteers
<1>3. CASE MessagePrepares
  BY <1>3, Releases DEF MessagePrepares
<1> QED BY <1>1, <1>2, <1>3 DEF SendStep

LEMMA BaselineShape ==
  ASSUME QueueOK, TakeBaseline
  PROVE  /\ queue # <<>> /\ Task.kind = "baseline" /\ QueueStep({Task.kind})
         /\ UNCHANGED <<wire, starts, native, said, asker, gone, answers, live, ready>>
BY Releases DEF TakeBaseline, server, maps

LEMMA ApplyShape ==
  ASSUME QueueOK, ApplyStep
  PROVE  /\ queue # <<>> /\ Task.kind = "apply" /\ QueueStep({Task.kind})
         /\ UNCHANGED <<wire, starts, native, said, asker, gone, answers, live, ready>>
         /\ HistoryApplied => Release \/ \E e \in Tasks : Moved(e, "complete")
<1> USE DEF server, recovery, store, maps, counts
<1>0. "complete" \in Places
  BY DEF Places
<1>1. HistoryRefused => queue # <<>> /\ Task.kind = "apply" /\ QueueStep({Task.kind})
  BY Releases DEF HistoryRefused
<1>2. HistoryApplied => /\ queue # <<>> /\ Task.kind = "apply" /\ QueueStep({Task.kind})
                        /\ Release \/ \E e \in Tasks : Moved(e, "complete")
  BY <1>0, Releases, Goes DEF HistoryApplied
<1>3. HistorySettles => queue # <<>> /\ Task.kind = "apply" /\ QueueStep({Task.kind})
  BY Releases DEF HistorySettles
<1>4. UNCHANGED <<wire, starts, native, said, asker, gone, answers, live, ready>>
  BY DEF ApplyStep, HistoryRefused, HistoryApplied, HistorySettles
<1> QED BY <1>1, <1>2, <1>3, <1>4 DEF ApplyStep

(* A line is taken off the wire; the task that comes of it *)
Queued(e) == e \in Tasks /\ e.at = "check" /\ queue' = Append(queue, e)

LEMMA LineShape ==
  ASSUME wire \in Seq(Lines), HandleLine
  PROVE  /\ wire # <<>> /\ wire[1] \in Lines /\ wire' = Tail(wire) /\ WireStep({wire[1].kind})
         /\ UNCHANGED <<ready, starts, native, said, asker, gone>>
         /\ \/ wire[1].kind = "turn" /\ TurnResponse(wire[1])
            \/ wire[1].kind \in {"started", "text", "ended"} /\ Notify(wire[1])
            \/ wire[1].kind = "request" /\ AskApproval(wire[1])
            \/ wire[1].kind = "history" /\ History(wire[1])
<1>1. wire # <<>> /\ wire' = Tail(wire) /\ 1 \in DOMAIN wire /\ wire[1] \in Lines
  BY Rest1 DEF HandleLine
<1>2. \/ TurnResponse(wire[1]) \/ Notify(wire[1])
      \/ AskApproval(wire[1]) \/ History(wire[1])
  BY DEF HandleLine
<1>3. UNCHANGED <<ready, starts, native, said, asker, gone>>
  BY DEF HandleLine
<1> QED BY <1>1, <1>2, <1>3 DEF WireStep, TurnResponse, Notify, AskApproval, History

LEMMA NotifyShape ==
  ASSUME NEW x \in Lines, x.kind \in {"started", "text", "ended"}, Notify(x)
  PROVE  /\ Mapped(x.turn) =>
              \E e \in Tasks : Queued(e) /\ e.kind = x.kind /\ e.turn = x.turn /\ e.state = x.state
         /\ ~Mapped(x.turn) => queue' = queue
         /\ QueueStep({x.kind})
<1>1. CASE Mapped(x.turn)
  <2> DEFINE e == [kind |-> x.kind, at |-> "check", turn |-> x.turn, state |-> x.state, seen |-> 0]
  <2>1. x \in NewsLine \cup EndLine
    BY LineParts
  <2>2. e \in Tasks
    BY <2>1 DEF NewsLine, EndLine, Tasks, NewsTask, EndTask, Places
  <2>3. queue' = Append(queue, e)
    BY <1>1 DEF Notify, Wait
  <2> QED BY <1>1, <2>2, <2>3 DEF Queued, QueueStep
<1>2. CASE ~Mapped(x.turn)
  BY <1>2 DEF Notify, QueueStep
<1> QED BY <1>1, <1>2

LEMMA AskShape ==
  ASSUME NEW x \in Lines, x.kind = "request", AskApproval(x)
  PROVE  /\ x.request \in Requests
         /\ Mapped(x.turn) =>
              \E e \in Tasks : Queued(e) /\ e.kind = "request" /\ e.request = x.request
         /\ ~Mapped(x.turn) => queue' = queue /\ Respond(x.request, "decline")
         /\ QueueStep({"request"})
<1>0. x.turn \in Turns /\ x.request \in Requests
  BY LineParts DEF RequestLine
<1>1. CASE Mapped(x.turn)
  <2> DEFINE e == [kind |-> "request", at |-> "check", turn |-> x.turn, request |-> x.request]
  <2>2. e \in Tasks
    BY <1>0 DEF Tasks, RequestTask, Places
  <2>3. queue' = Append(queue, e)
    BY <1>1 DEF AskApproval, Wait
  <2> QED BY <1>0, <1>1, <2>2, <2>3 DEF Queued, QueueStep
<1>2. CASE ~Mapped(x.turn)
  BY <1>0, <1>2 DEF AskApproval, QueueStep
<1> QED BY <1>1, <1>2

LEMMA HistoryShape ==
  ASSUME NEW x \in Lines, x.kind = "history", History(x)
  PROVE  /\ x.text \in Texts /\ x.native \in Shown
         /\ \E e \in Tasks : Queued(e) /\ e.kind = "apply" /\ e.text = x.text /\ e.native = x.native
         /\ QueueStep({"apply"})
<1>0. x.text \in Texts /\ x.native \in Shown
  BY LineParts DEF HistoryLine
<1> DEFINE e == [kind |-> "apply", at |-> "check", text |-> x.text, native |-> x.native]
<1>2. e \in Tasks
  BY <1>0 DEF Tasks, ApplyTask, Places
<1>3. queue' = Append(queue, e)
  BY DEF History, Wait
<1> QED BY <1>0, <1>2, <1>3 DEF Queued, QueueStep

(* The operator's calls join the queue *)
LEMMA OperatorShape ==
  ASSUME Operator
  PROVE  /\ UNCHANGED <<wire, starts, native, said, asker, gone, answers, live, ready>>
         /\ \/ /\ \E e \in Tasks : Queued(e) /\ e.kind = "decide" /\ approvals[e.request] # "none"
               /\ QueueStep({"decide"}) /\ read' = read
            \/ QueueStep({"cancel"}) /\ read' = read /\ Cancel
            \/ QueueStep({"send"}) /\ read' = read
            \/ Recover /\ QueueStep({"baseline"}) /\ \E e \in Tasks : Queued(e) /\ e.kind = "baseline"
<1> USE DEF server, store, maps, counts
<1>0. "check" \in Places
  BY DEF Places
<1>1. ASSUME NEW r \in Requests, NEW d \in {"accept", "decline"}, Decide(r, d)
      PROVE  /\ UNCHANGED <<wire, starts, native, said, asker, gone, answers, live, ready, read>>
             /\ \E e \in Tasks : Queued(e) /\ e.kind = "decide" /\ approvals[e.request] # "none"
             /\ QueueStep({"decide"})
  <2> DEFINE e == [kind |-> "decide", at |-> "check", request |-> r, decision |-> d]
  <2>1. e \in Tasks
    BY <1>0 DEF Tasks, DecideTask
  <2>2. queue' = Append(queue, e) /\ approvals[r] # "none"
    BY <1>1 DEF Decide, Wait
  <2>3. UNCHANGED <<wire, starts, native, said, asker, gone, answers, live, ready, read>>
    BY <1>1 DEF Decide
  <2> QED BY <2>1, <2>2, <2>3 DEF Queued, QueueStep
<1>2. CASE Cancel
  <2> DEFINE e == [kind |-> "cancel", at |-> "check", seen |-> 0]
  <2>1. e \in Tasks
    BY <1>0 DEF Tasks, CancelTask
  <2>2. queue' = Append(queue, e)
    BY <1>2 DEF Cancel, Wait
  <2>3. UNCHANGED <<wire, starts, native, said, asker, gone, answers, live, ready, read>>
    BY <1>2 DEF Cancel
  <2> QED BY <1>2, <2>1, <2>2, <2>3 DEF QueueStep
<1>3. CASE SendMessage
  <2> DEFINE e == [kind |-> "send", at |-> "check"]
  <2>1. e \in Tasks
    BY <1>0 DEF Tasks, PlainTask
  <2>2. queue' = Append(queue, e)
    BY <1>3 DEF SendMessage, Wait
  <2>3. UNCHANGED <<wire, starts, native, said, asker, gone, answers, live, ready, read>>
    BY <1>3 DEF SendMessage, recovery
  <2> QED BY <2>1, <2>2, <2>3 DEF QueueStep
<1>4. CASE Recover
  <2> DEFINE e == [kind |-> "baseline", at |-> "check"]
  <2>1. e \in Tasks
    BY <1>0 DEF Tasks, PlainTask
  <2>2. queue' = Append(queue, e)
    BY <1>4 DEF Recover, Wait
  <2>3. UNCHANGED <<wire, starts, native, said, asker, gone, answers, live, ready>>
    BY <1>4 DEF Recover
  <2> QED BY <1>4, <2>1, <2>2, <2>3 DEF QueueStep, Queued
<1> QED BY <1>1, <1>2, <1>3, <1>4 DEF Operator

(* The App Server's lines *)
Sent(e) == e \in Lines /\ wire' = Append(wire, e)

LEMMA SaysShape ==
  ASSUME NEW t \in Turns, NativeSays(t)
  PROVE  WireStep({"text"}) /\ \E e \in Lines : Sent(e) /\ e.kind = "text" /\ e.turn = t
<1> DEFINE e == [kind |-> "text", turn |-> t, state |-> "running"]
<1>1. e \in Lines
  BY DEF Lines, NewsLine
<1>2. wire' = Append(wire, e)
  BY DEF NativeSays, Send
<1> QED BY <1>1, <1>2 DEF Sent, WireStep

LEMMA AsksShape ==
  ASSUME NEW t \in Turns, NEW r \in Requests, NativeAsks(t, r)
  PROVE  WireStep({"request"}) /\ \E e \in Lines : Sent(e) /\ e.kind = "request" /\ e.turn = t /\ e.request = r
<1> DEFINE e == [kind |-> "request", turn |-> t, request |-> r]
<1>1. e \in Lines
  BY DEF Lines, RequestLine
<1>2. wire' = Append(wire, e)
  BY DEF NativeAsks, Send
<1> QED BY <1>1, <1>2 DEF Sent, WireStep

LEMMA EndsShape ==
  ASSUME NEW t \in Turns, NativeEnds(t)
  PROVE  WireStep({"ended"}) /\ \E e \in Lines : Sent(e) /\ e.kind = "ended" /\ e.turn = t
<1> DEFINE e == [kind |-> "ended", turn |-> t, state |-> "completed"]
<1>1. e \in Lines
  BY DEF Lines, EndLine, Over
<1>2. wire' = Append(wire, e)
  BY DEF NativeEnds, Send
<1> QED BY <1>1, <1>2 DEF Sent, WireStep

LEMMA InterruptShape ==
  ASSUME CancelInv, CancelInterrupts
  PROVE  /\ Task.seen \in Turns /\ native[Task.seen] = "running"
         /\ native' = [native EXCEPT ![Task.seen] = "interrupted"]
         /\ WireStep({"ended"}) /\ \E e \in Lines : Sent(e) /\ e.kind = "ended" /\ e.turn = Task.seen
<1>1. native[Task.seen] = "running"
  BY DEF CancelInterrupts
<1>2. Task.seen \in Turns
  BY DEF CancelInv, CancelInterrupts
<1> DEFINE e == [kind |-> "ended", turn |-> Task.seen, state |-> "interrupted"]
<1>3. e \in Lines
  BY <1>2 DEF Lines, EndLine, Over
<1>4. wire' = Append(wire, e) /\ native' = [native EXCEPT ![Task.seen] = "interrupted"]
  BY DEF CancelInterrupts, Send
<1> QED BY <1>1, <1>2, <1>3, <1>4 DEF Sent, WireStep

LEMMA AnswerShape ==
  ASSUME ReadOK, AnswerHistory
  PROVE  /\ WireStep({"history"})
         /\ \E e \in Lines : Sent(e) /\ e.kind = "history" /\ e.text = read.text /\ e.native = read.native
<1> DEFINE e == [kind |-> "history", text |-> read.text, native |-> read.native]
<1>1. e \in Lines
  BY DEF Lines, HistoryLine, ReadOK, AnswerHistory
<1>2. wire' = Append(wire, e)
  BY DEF AnswerHistory, Send
<1> QED BY <1>1, <1>2 DEF Sent, WireStep

LEMMA StartShape ==
  ASSUME wire \in Seq(Lines), NEW f \in Flows, NEW t \in Turns, NativeStart(f, t)
  PROVE  \E d, e \in Lines :
           /\ d.kind = "turn" /\ d.turn = t /\ e.kind = "started" /\ e.turn = t
           /\ wire' = Append(Append(wire, d), e)
<1> DEFINE d == [kind |-> "turn", flow |-> f, turn |-> t]
           e == [kind |-> "started", turn |-> t, state |-> "running"]
<1>1. d \in Lines /\ e \in Lines
  BY DEF Lines, TurnLine, NewsLine
<1>2. wire' = wire \o <<d, e>>
  BY DEF NativeStart
<1>3. wire \o <<d, e>> = Append(Append(wire, d), e)
  <2> HIDE DEF d, e
  <2> QED BY <1>1
<1> QED BY <1>1, <1>2, <1>3

(* An exit leaves the wire empty and the tasks what they were *)
LEMMA ExitShape ==
  ASSUME QueueOK, Exit
  PROVE  /\ wire' = <<>> /\ ~ready' /\ ready
         /\ \/ queue' = queue
            \/ /\ Task.kind = "cancel" /\ QueueStep({"cancel"})
               /\ \E e \in Tasks : Moved(e, "rejected")
<1>1. CASE Holds("cancel", "interrupt")
  <2>1. queue' = [queue EXCEPT ![1].at = "rejected"] /\ queue # <<>> /\ "rejected" \in Places
    BY <1>1 DEF Exit, Holds, Places
  <2>2. PICK e \in Tasks : Moved(e, "rejected")
    BY <2>1, GoToMoves DEF GoTo
  <2> QED BY <1>1, <2>1, <2>2 DEF Exit, Holds, Moved, SameTask, QueueStep, Task
<1>2. CASE ~Holds("cancel", "interrupt")
  BY <1>2 DEF Exit
<1> QED BY <1>1, <1>2

(* Who holds the lock past its check did so, or has been moved there *)
LEMMA HeadStep ==
  ASSUME QueueOK, NEW K, QueueStep(K), NEW kind, NEW at, at # "check", Holds(kind, at)'
  PROVE  \/ Holds(kind, at) /\ queue'[1] = queue[1]
         \/ /\ kind \in K /\ queue # <<>> /\ Task.kind = kind
            /\ \E e \in Tasks : queue' = [queue EXCEPT ![1] = e] /\ queue'[1] = e
<1>0. queue' # <<>> /\ queue'[1].kind = kind /\ queue'[1].at = at
  BY DEF Holds
<1>1. CASE queue' = queue
  BY <1>0, <1>1 DEF Holds
<1>2. ASSUME NEW e \in Tasks, e.at = "check", queue' = Append(queue, e)
      PROVE  Holds(kind, at) /\ queue'[1] = queue[1]
  <2>1. CASE queue = <<>>
    BY <1>0, <1>2, <2>1
  <2>2. CASE queue # <<>>
    <3>1. 1 \in DOMAIN queue
      BY <2>2, QueueParts
    <3>2. queue'[1] = queue[1]
      BY <1>2, <3>1, Appended DEF QueueOK
    <3> QED BY <1>0, <2>2, <3>2 DEF Holds
  <2> QED BY <2>1, <2>2
<1>3. ASSUME queue # <<>>, queue' = Tail(queue) PROVE FALSE
  <2>1. queue' \in Seq(Tasks) /\ 1 \in DOMAIN queue'
    BY <1>0, <1>3, Rest1 DEF QueueOK
  <2>2. queue'[1] = queue[1 + 1] /\ 1 + 1 \in DOMAIN queue
    BY <1>3, <2>1, Rest1 DEF QueueOK
  <2>3. 1 + 1 # 1
    OBVIOUS
  <2> QED BY <1>0, <2>2, <2>3 DEF QueueOK
<1>4. ASSUME queue # <<>>, Task.kind \in K, NEW e \in Tasks, e.kind = Task.kind, queue' = [queue EXCEPT ![1] = e]
      PROVE  /\ kind \in K /\ Task.kind = kind
             /\ queue'[1] = e
  <2>1. queue'[1] = e
    BY <1>4, NewHead DEF QueueOK
  <2> QED BY <1>0, <1>4, <2>1
<1> QED BY <1>1, <1>2, <1>3, <1>4 DEF QueueStep

LEMMA CancelKept ==
  ASSUME QueueOK, CancelInv, NEW K, QueueStep(K), "cancel" \notin K
  PROVE  CancelInv'
<1> SUFFICES ASSUME Holds("cancel", "interrupt")' PROVE Task'.seen \in Turns
  BY DEF CancelInv
<1>1. Holds("cancel", "interrupt") /\ queue'[1] = queue[1]
  BY HeadStep
<1> QED BY <1>1 DEF CancelInv, Task

(* A task that has moved is at its new place *)
LEMMA CancelMoved ==
  ASSUME QueueOK, NEW e \in Tasks, NEW a, Moved(e, a), queue # <<>>, a = "interrupt" => e.seen \in Turns
  PROVE  CancelInv'
<1>1. queue'[1] = e /\ e.at = a
  BY NewHead DEF Moved, QueueOK
<1> QED BY <1>1 DEF CancelInv, Holds, Task

LEMMA CancelReleased ==
  ASSUME QueueOK, queue # <<>>, Release
  PROVE  CancelInv'
<1>1. QueueStep({Task.kind})
  BY DEF QueueStep, Release
<1> SUFFICES ASSUME Holds("cancel", "interrupt")' PROVE FALSE
  BY DEF CancelInv
<1>2. queue' \in Seq(Tasks) /\ queue' # <<>> /\ queue' = Tail(queue)
  BY Rest1 DEF QueueOK, Release, Holds
<1>3. 1 \in DOMAIN queue'
  BY <1>2
<1>4. queue'[1] = queue[1 + 1] /\ 1 + 1 \in DOMAIN queue
  BY <1>2, <1>3, Rest1 DEF QueueOK
<1>5. 1 + 1 # 1
  OBVIOUS
<1> QED BY <1>4, <1>5 DEF QueueOK, Holds

LEMMA QueueAlways ==
  ASSUME TypeInv, Next
  PROVE  QueueOK' /\ CancelInv'
<1> USE DEF TypeInv
<1> DEFINE Kinds == {"started", "text", "ended", "request", "decide", "send", "baseline", "apply"}
<1>0. ASSUME NEW K \in SUBSET Kinds, QueueStep(K) PROVE QueueOK' /\ CancelInv'
  BY <1>0, QueueTyped, CancelKept
<1>a. ASSUME queue' = queue PROVE QueueOK' /\ CancelInv'
  BY <1>a DEF QueueOK, CancelInv, Holds, Task
<1>1. ASSUME NEW f \in Flows, FlowStep(f) \/ FlowFails(f) PROVE queue' = queue
  BY <1>1 DEF FlowStep, OpenThread, StartTurn, ProjectStart, Catch, FlowFails
<1>2. ASSUME HandleLine PROVE queue' = queue \/ \E K \in SUBSET Kinds : QueueStep(K)
  <2>1. /\ wire[1] \in Lines
        /\ \/ wire[1].kind = "turn" /\ TurnResponse(wire[1])
           \/ wire[1].kind \in {"started", "text", "ended"} /\ Notify(wire[1])
           \/ wire[1].kind = "request" /\ AskApproval(wire[1])
           \/ wire[1].kind = "history" /\ History(wire[1])
    BY <1>2, LineShape DEF WireOK
  <2>2. TurnResponse(wire[1]) => queue' = queue
    BY DEF TurnResponse
  <2>3. ASSUME wire[1].kind \in {"started", "text", "ended"}, Notify(wire[1])
        PROVE  QueueStep({wire[1].kind}) /\ {wire[1].kind} \in SUBSET Kinds
    BY <2>1, <2>3, NotifyShape
  <2>4. ASSUME wire[1].kind = "request", AskApproval(wire[1])
        PROVE  QueueStep({"request"}) /\ {"request"} \in SUBSET Kinds
    BY <2>1, <2>4, AskShape
  <2>5. ASSUME wire[1].kind = "history", History(wire[1])
        PROVE  QueueStep({"apply"}) /\ {"apply"} \in SUBSET Kinds
    BY <2>1, <2>5, HistoryShape
  <2> QED BY <2>1, <2>2, <2>3, <2>4, <2>5
<1>3. ASSUME NewsStep \/ RequestStep \/ DecideStep \/ SendStep \/ TakeBaseline \/ ApplyStep
      PROVE  QueueStep({Task.kind}) /\ {Task.kind} \in SUBSET Kinds
  BY <1>3, NewsShape, RequestShape, DecideShape, SendShape, BaselineShape, ApplyShape
<1>4. ASSUME CancelStep PROVE QueueOK' /\ CancelInv'
  <2>1. QueueStep({Task.kind}) /\ queue # <<>>
    BY <1>4, CancelShape
  <2>2. CASE Release
    BY <2>1, <2>2, QueueTyped, CancelReleased
  <2>3. CASE \E e \in Tasks : Moved(e, "complete") \/ (Moved(e, "interrupt") /\ e.seen \in Turns)
    <3>1. QueueOK'
      BY <2>1, QueueTyped
    <3>2. PICK e \in Tasks : Moved(e, "complete") \/ (Moved(e, "interrupt") /\ e.seen \in Turns)
      BY <2>3
    <3>3. CancelInv'
      BY <2>1, <3>2, CancelMoved
    <3> QED BY <3>1, <3>3
  <2> QED BY <1>4, <2>2, <2>3, CancelShape
<1>5. ASSUME Operator PROVE QueueOK' /\ CancelInv'
  <2>1. CASE QueueStep({"cancel"}) /\ Cancel
    <3>1. QueueOK'
      BY <2>1, QueueTyped
    <3>2. queue' = Append(queue, [kind |-> "cancel", at |-> "check", seen |-> 0])
      BY <2>1 DEF Cancel, Wait
    <3>3. CASE queue = <<>>
      <4>1. queue' = << [kind |-> "cancel", at |-> "check", seen |-> 0] >>
        BY <3>2, <3>3
      <4>2. queue'[1].at = "check"
        BY <4>1
      <4> QED BY <3>1, <4>2 DEF CancelInv, Holds
    <3>4. CASE queue # <<>>
      <4>1. [kind |-> "cancel", at |-> "check", seen |-> 0] \in Tasks
        BY DEF Tasks, CancelTask, Places
      <4>2. queue'[1] = queue[1]
        BY <3>2, <3>4, <4>1, QueueParts, Appended DEF QueueOK
      <4> QED BY <3>1, <3>4, <4>2 DEF CancelInv, Holds, Task
    <3> QED BY <3>1, <3>3, <3>4
  <2>2. CASE QueueStep({"decide"}) \/ QueueStep({"send"}) \/ QueueStep({"baseline"})
    BY <1>0, <2>2
  <2> QED BY <1>5, <2>1, <2>2, OperatorShape
<1>6. ASSUME Exit PROVE QueueOK' /\ CancelInv'
  <2>1. CASE queue' = queue
    BY <1>a, <2>1
  <2>2. CASE Task.kind = "cancel" /\ QueueStep({"cancel"}) /\ \E e \in Tasks : Moved(e, "rejected")
    <3>1. QueueOK'
      BY <2>2, QueueTyped
    <3>2. CASE queue = <<>>
      BY <1>6, <3>2, <1>a DEF Exit, Holds
    <3>3. CASE queue # <<>>
      BY <2>2, <3>1, <3>3, CancelMoved
    <3> QED BY <3>2, <3>3
  <2> QED BY <1>6, <2>1, <2>2, ExitShape
<1>7. ASSUME AppServer, ~Exit PROVE queue' = queue
  BY <1>7 DEF AppServer, NativeStart, NativeSays, NativeAsks, NativeEnds
<1>8. ASSUME ReadHistory \/ AnswerHistory \/ ReadFails \/ ExitProjects \/ ExitSettles \/ Rest PROVE queue' = queue
  BY <1>8 DEF ReadHistory, AnswerHistory, ReadFails, ExitProjects, ExitSettles, Rest, vars
<1>9. CASE LockStep \/ NotificationFails \/ RequestFails \/ DecisionFails
  <2>1. NewsStep \/ RequestStep \/ DecideStep \/ SendStep \/ TakeBaseline \/ ApplyStep \/ CancelStep
    BY <1>9 DEF LockStep, NewsStep, RequestStep, DecideStep, SendStep, ApplyStep, CancelStep
  <2> QED BY <1>0, <1>3, <1>4, <2>1
<1> QED BY <1>0, <1>a, <1>1, <1>2, <1>5, <1>6, <1>7, <1>8, <1>9 DEF Next

-----------------------------------------------------------------------------
(* The types of the record, the maps, the flows, the server and the counts *)

LEMMA CompleteTyped ==
  ASSUME RecordOK, NEW st \in Terminal, CompleteJob(st), UNCHANGED <<thread, turn, projected>>
  PROVE  RecordOK'
BY DEF RecordOK, CompleteJob

LEMMA LineTask ==
  ASSUME TypeInv, queue # <<>>
  PROVE  /\ Task \in Tasks
         /\ Task.kind \in {"started", "text", "ended"} => Task.turn \in Turns
         /\ Task.kind = "ended" => Task.state \in Over
         /\ Task.kind = "request" => Task.turn \in Turns /\ Task.request \in Requests
         /\ Task.kind = "decide" => Task.request \in Requests /\ Task.decision \in {"accept", "decline"}
         /\ Task.kind = "apply" => Task.text \in Texts /\ Task.native \in Shown
<1>1. Task \in Tasks
  BY QueueParts DEF TypeInv
<1> HIDE DEF Task
<1> QED BY <1>1, TaskParts DEF NewsTask, EndTask, RequestTask, DecideTask, ApplyTask

LEMMA RecordAlways ==
  ASSUME TypeInv, ReadInv, Next
  PROVE  RecordOK'
<1> USE DEF TypeInv
<1>a. ASSUME UNCHANGED store PROVE RecordOK'
  BY <1>a DEF store, RecordOK
<1>1. ASSUME NEW f \in Flows, OpenThread(f) PROVE RecordOK'
  BY <1>1 DEF OpenThread, RecordOK
<1>2. ASSUME NEW f \in Flows, StartTurn(f) PROVE RecordOK'
  BY <1>2 DEF StartTurn, RecordOK
<1>3. ASSUME NEW f \in Flows, Catch(f) PROVE RecordOK'
  <2>1. UNCHANGED <<thread, turn, projected>>
    BY <1>3 DEF Catch
  <2>2. CASE Settled
    BY <1>3, <2>1, <2>2, <1>a DEF Catch, store
  <2>3. CASE ~Settled
    BY <1>3, <2>1, <2>3, CompleteTyped DEF Catch, Terminal
  <2> QED BY <2>2, <2>3
<1>4. ASSUME NEW f \in Flows, ProjectStart(f) \/ FlowFails(f) PROVE RecordOK'
  BY <1>4, <1>a DEF ProjectStart, FlowFails
<1>5. CASE HandleLine
  <2>1. wire[1] \in Lines
    BY <1>5, LineShape DEF WireOK
  <2>2. CASE TurnResponse(wire[1])
    <3>1. wire[1].turn \in Turns
      BY <2>1, <2>2, LineParts DEF TurnResponse
    <3> QED BY <2>2, <3>1 DEF TurnResponse, RecordOK
  <2>3. CASE Notify(wire[1]) \/ AskApproval(wire[1]) \/ History(wire[1])
    BY <1>a, <2>3 DEF Notify, AskApproval, History
  <2> QED BY <1>5, <2>2, <2>3, LineShape DEF WireOK
<1>6. CASE TextArrived
  <2>1. Task.turn \in Turns
    BY <1>6, LineTask DEF TextArrived, Holds, Task
  <2>2. projected' \in Texts
    BY <1>6, <2>1 DEF TextArrived, RecordOK, Texts
  <2> QED BY <1>6, <2>2 DEF TextArrived, RecordOK
<1>7. CASE TurnSettles
  <2>1. Task.state \in Terminal
    BY <1>7, LineTask DEF TurnSettles, Holds, Task, Over, Terminal
  <2>2. CompleteJob(Task.state) /\ UNCHANGED <<thread, turn, projected>>
    BY <1>7 DEF TurnSettles
  <2> QED BY <2>1, <2>2, CompleteTyped
<1>8. CASE NotificationIgnored \/ TurnStarted \/ TurnEnded \/ NotificationFails
  BY <1>a, <1>8 DEF NotificationIgnored, TurnStarted, TurnEnded, NotificationFails
<1>9. CASE RequestPending
  BY <1>9 DEF RequestPending, RecordOK
<1>10. CASE RequestDeclined \/ RequestGoesLive \/ RequestProjected \/ RequestFails
  BY <1>a, <1>10 DEF RequestDeclined, RequestGoesLive, RequestProjected, RequestFails
<1>11. CASE DecisionStored
  BY <1>11 DEF DecisionStored, RecordOK
<1>12. CASE DecisionRefused \/ DecisionSent \/ DecisionFails
  BY <1>a, <1>12 DEF DecisionRefused, DecisionSent, DecisionFails
<1>13. CASE CancelSettles
  BY <1>13, CompleteTyped DEF CancelSettles, Terminal
<1>14. CASE CancelRead \/ CancelInterrupts \/ CancelConfirmed \/ CancelFails
  BY <1>a, <1>14 DEF CancelRead, CancelInterrupts, CancelConfirmed, CancelFails
<1>15. CASE MessagePrepares
  BY <1>15 DEF MessagePrepares, RecordOK
<1>16. CASE MessageRead \/ MessageSteers \/ TakeBaseline \/ HistoryRefused
  BY <1>a, <1>16 DEF MessageRead, MessageSteers, TakeBaseline, HistoryRefused
<1>17. CASE HistoryApplied
  <2>1. Task.text \in Texts
    BY <1>17, LineTask DEF HistoryApplied, Holds, Task
  <2> QED BY <1>17, <2>1 DEF HistoryApplied, RecordOK
<1>18. CASE HistorySettles
  <2>1. queue # <<>> /\ Task.kind = "apply" /\ Task.at = "complete" /\ Task = queue[1] /\ 1 \in DOMAIN queue
    BY <1>18, QueueParts DEF HistorySettles, Holds, Task
  <2>2. read.at = "read" /\ Task.native[read.turn] # "none" /\ Task.native[read.turn] # "running"
    BY <2>1 DEF ReadInv
  <2>3. read.turn \in Turns /\ Task.native \in Shown
    BY <2>1, <2>2, LineTask DEF ReadOK
  <2>4. Task.native[read.turn] \in Terminal
    BY <2>2, <2>3 DEF Shown, Natives, Terminal
  <2>5. CompleteJob(Task.native[read.turn]) /\ UNCHANGED <<thread, turn, projected>>
    BY <1>18 DEF HistorySettles
  <2> QED BY <2>4, <2>5, CompleteTyped
<1>19. CASE Operator
  BY <1>a, <1>19 DEF Operator, Decide, Cancel, SendMessage, Recover
<1>20. CASE AppServer
  BY <1>a, <1>20 DEF AppServer, NativeStart, NativeSays, NativeAsks, NativeEnds, Exit
<1>21. CASE ReadHistory \/ AnswerHistory \/ ReadFails \/ ExitProjects \/ Rest
  BY <1>a, <1>21 DEF ReadHistory, AnswerHistory, ReadFails, ExitProjects, Rest, vars
<1>22. CASE ExitSettles
  BY <1>22, CompleteTyped DEF ExitSettles, Terminal
<1> QED
  BY <1>1, <1>2, <1>3, <1>4, <1>5, <1>6, <1>7, <1>8, <1>9, <1>10, <1>11, <1>12, <1>13, <1>14, <1>15, <1>16,
     <1>17, <1>18, <1>19, <1>20, <1>21, <1>22
  DEF Next, FlowStep, LockStep

LEMMA MapsAlways ==
  ASSUME TypeInv, Next
  PROVE  MapsOK'
<1> USE DEF TypeInv
<1>a. ASSUME UNCHANGED maps PROVE MapsOK'
  BY <1>a DEF maps, MapsOK
<1>1. ASSUME NEW f \in Flows, FlowStep(f) \/ FlowFails(f) PROVE MapsOK'
  <2>1. byThread \in BOOLEAN /\ thread \in BOOLEAN /\ (byThread /\ ~thread) \in BOOLEAN
    BY DEF MapsOK, RecordOK
  <2> QED BY <1>1, <2>1 DEF FlowStep, OpenThread, StartTurn, ProjectStart, Catch, FlowFails, maps, MapsOK
<1>2. CASE HandleLine
  <2>1. wire[1] \in Lines
    BY <1>2, LineShape DEF WireOK
  <2>2. CASE TurnResponse(wire[1])
    <3>1. wire[1].turn \in Turns
      BY <2>1, <2>2, LineParts DEF TurnResponse
    <3> QED BY <2>2, <3>1 DEF TurnResponse, MapsOK
  <2>3. CASE Notify(wire[1]) \/ AskApproval(wire[1]) \/ History(wire[1])
    BY <1>a, <2>3 DEF Notify, AskApproval, History
  <2> QED BY <1>2, <2>2, <2>3, LineShape DEF WireOK
<1>3. CASE TurnSettles \/ HistorySettles
  BY <1>3 DEF TurnSettles, HistorySettles, RemoveMappings, MapsOK
<1>4. CASE RequestGoesLive
  <2>1. Task.request \in Requests
    BY <1>4, LineTask DEF RequestGoesLive, Holds, Task
  <2> QED BY <1>4, <2>1 DEF RequestGoesLive, MapsOK
<1>5. CASE RequestFails \/ DecisionSent
  BY <1>5 DEF RequestFails, DecisionSent, MapsOK
<1>6. CASE Exit
  BY <1>6 DEF Exit, MapsOK
<1>7. CASE NotificationIgnored \/ TurnStarted \/ TextArrived \/ TurnEnded \/ NotificationFails
  BY <1>a, <1>7 DEF NotificationIgnored, TurnStarted, TextArrived, TurnEnded, NotificationFails
<1>8. CASE RequestDeclined \/ RequestPending \/ RequestProjected \/ DecisionRefused \/ DecisionStored \/ DecisionFails
  BY <1>a, <1>8 DEF RequestDeclined, RequestPending, RequestProjected, DecisionRefused, DecisionStored, DecisionFails
<1>9. CASE CancelStep
  BY <1>a, <1>9 DEF CancelStep, CancelRead, CancelInterrupts, CancelConfirmed, CancelFails, CancelSettles
<1>10. CASE SendStep \/ TakeBaseline \/ HistoryRefused \/ HistoryApplied
  BY <1>a, <1>10 DEF SendStep, MessageRead, MessageSteers, MessagePrepares, TakeBaseline, HistoryRefused, HistoryApplied
<1>11. CASE Operator
  BY <1>a, <1>11 DEF Operator, Decide, Cancel, SendMessage, Recover
<1>12. CASE AppServer /\ ~Exit
  BY <1>a, <1>12 DEF AppServer, NativeStart, NativeSays, NativeAsks, NativeEnds
<1>13. CASE ReadHistory \/ AnswerHistory \/ ReadFails \/ ExitProjects \/ ExitSettles \/ Rest
  BY <1>a, <1>13 DEF ReadHistory, AnswerHistory, ReadFails, ExitProjects, ExitSettles, Rest, vars
<1> QED
  BY <1>1, <1>2, <1>3, <1>4, <1>5, <1>6, <1>7, <1>8, <1>9, <1>10, <1>11, <1>12, <1>13
  DEF Next, LockStep, CancelStep, SendStep

LEMMA FlowsAlways ==
  ASSUME TypeInv, Next
  PROVE  FlowsOK'
<1> USE DEF TypeInv
<1>a. ASSUME UNCHANGED <<flows, exiting>> PROVE FlowsOK'
  BY <1>a DEF FlowsOK
<1>1. ASSUME NEW f \in Flows, FlowStep(f) \/ FlowFails(f) PROVE FlowsOK'
  BY <1>1 DEF FlowStep, OpenThread, StartTurn, ProjectStart, Catch, FlowFails, FlowAt, FlowsOK
<1>2. CASE HandleLine
  <2>2. CASE TurnResponse(wire[1])
    BY <2>2 DEF TurnResponse, FlowAt, FlowsOK
  <2>3. CASE Notify(wire[1]) \/ AskApproval(wire[1]) \/ History(wire[1])
    BY <1>a, <2>3 DEF Notify, AskApproval, History
  <2> QED BY <1>2, <2>2, <2>3, LineShape DEF WireOK
<1>3. CASE MessagePrepares
  BY <1>3 DEF MessagePrepares, FlowAt, FlowsOK
<1>4. CASE Exit
  BY <1>4 DEF Exit, FlowsOK
<1>5. CASE NewsStep
  BY <1>a, <1>5 DEF NewsStep, NotificationIgnored, TurnStarted, TextArrived, TurnEnded, TurnSettles, NotificationFails
<1>6. CASE RequestStep \/ DecideStep
  BY <1>a, <1>6 DEF RequestStep, RequestDeclined, RequestGoesLive, RequestPending, RequestProjected, RequestFails,
                    DecideStep, DecisionRefused, DecisionSent, DecisionStored, DecisionFails
<1>7. CASE CancelStep
  BY <1>a, <1>7 DEF CancelStep, CancelRead, CancelInterrupts, CancelConfirmed, CancelFails, CancelSettles
<1>8. CASE MessageRead \/ MessageSteers \/ TakeBaseline \/ ApplyStep
  BY <1>a, <1>8 DEF MessageRead, MessageSteers, TakeBaseline, ApplyStep, HistoryRefused, HistoryApplied, HistorySettles
<1>9. CASE Operator
  BY <1>a, <1>9 DEF Operator, Decide, Cancel, SendMessage, Recover
<1>10. CASE AppServer /\ ~Exit
  BY <1>a, <1>10 DEF AppServer, NativeStart, NativeSays, NativeAsks, NativeEnds
<1>11. CASE ReadHistory \/ AnswerHistory \/ ReadFails \/ ExitProjects \/ ExitSettles \/ Rest
  BY <1>11 DEF ReadHistory, AnswerHistory, ReadFails, ExitProjects, ExitSettles, Rest, vars, FlowsOK
<1> QED
  BY <1>1, <1>2, <1>3, <1>4, <1>5, <1>6, <1>7, <1>8, <1>9, <1>10, <1>11
  DEF Next, LockStep, NewsStep, RequestStep, DecideStep, CancelStep, ApplyStep

LEMMA CountsAlways ==
  ASSUME TypeInv, Next
  PROVE  CountsOK'
<1> USE DEF TypeInv, CountsOK, counts
<1>1. ASSUME NEW f \in Flows, FlowStep(f) \/ FlowFails(f) PROVE CountsOK'
  BY <1>1 DEF FlowStep, OpenThread, StartTurn, ProjectStart, Catch, FlowFails, Fault
<1>2. CASE HandleLine
  BY <1>2, LineShape DEF WireOK, TurnResponse, Notify, AskApproval, History
<1>3. CASE NewsStep
  BY <1>3 DEF NewsStep, NotificationIgnored, TurnStarted, TextArrived, TurnEnded, TurnSettles, NotificationFails, Fault
<1>4. CASE RequestStep \/ DecideStep
  BY <1>4 DEF RequestStep, RequestDeclined, RequestGoesLive, RequestPending, RequestProjected, RequestFails,
              DecideStep, DecisionRefused, DecisionSent, DecisionStored, DecisionFails, Fault
<1>5. CASE CancelStep \/ SendStep
  BY <1>5 DEF CancelStep, CancelRead, CancelInterrupts, CancelConfirmed, CancelFails, CancelSettles,
              SendStep, MessageRead, MessageSteers, MessagePrepares
<1>6. CASE TakeBaseline \/ ApplyStep
  BY <1>6 DEF TakeBaseline, ApplyStep, HistoryRefused, HistoryApplied, HistorySettles
<1>7. CASE Operator
  <2>1. ASSUME NEW r \in Requests, NEW d \in {"accept", "decline"}, Decide(r, d) PROVE CountsOK'
    BY <2>1 DEF Decide
  <2>2. CASE Cancel
    BY <2>2 DEF Cancel
  <2>3. CASE SendMessage
    BY <2>3 DEF SendMessage
  <2>4. CASE Recover
    BY <2>4 DEF Recover
  <2> QED BY <1>7, <2>1, <2>2, <2>3, <2>4 DEF Operator
<1>8. CASE AppServer
  <2>1. CASE Exit
    BY <2>1 DEF Exit
  <2>2. CASE ~Exit
    BY <1>8, <2>2 DEF AppServer, NativeStart, NativeSays, NativeAsks, NativeEnds
  <2> QED BY <2>1, <2>2
<1>9. CASE ReadHistory \/ AnswerHistory \/ ReadFails \/ ExitProjects \/ ExitSettles \/ Rest
  BY <1>9 DEF ReadHistory, AnswerHistory, ReadFails, ExitProjects, ExitSettles, Rest, vars, Fault
<1> QED
  BY <1>1, <1>2, <1>3, <1>4, <1>5, <1>6, <1>7, <1>8, <1>9
  DEF Next, LockStep, NewsStep, RequestStep, DecideStep, CancelStep, SendStep, ApplyStep

(* What the handlers leave of the App Server *)
LEMMA HandlersKeepServer ==
  ASSUME TypeInv, Next, ~AppServer, ~CancelInterrupts
  PROVE  /\ UNCHANGED <<native, said, asker, gone>>
         /\ ready => ready'
         /\ ready' \in BOOLEAN
         /\ starts' = starts \/ \E f \in Flows : starts' = starts \cup {f} /\ thread'
         /\ thread => thread'
         /\ turn' = turn \/ turn' = 0 \/ (turn' \in Turns /\ native[turn'] # "none")
<1> USE DEF TypeInv, server, store
<1>0. ready \in BOOLEAN /\ thread \in BOOLEAN
  BY DEF ServerOK, RecordOK
<1>1. ASSUME NEW f \in Flows, FlowStep(f) \/ FlowFails(f)
      PROVE  /\ UNCHANGED <<native, said, asker, gone, turn>> /\ (ready => ready') /\ ready' \in BOOLEAN
             /\ (starts' = starts \/ (starts' = starts \cup {f} /\ thread')) /\ (thread => thread')
  BY <1>0, <1>1 DEF FlowStep, OpenThread, StartTurn, ProjectStart, Catch, FlowFails
<1>2. ASSUME HandleLine
      PROVE  /\ UNCHANGED <<native, said, asker, gone, ready, starts, thread>>
             /\ turn' = turn \/ (turn' \in Turns /\ native[turn'] # "none")
  <2>1. /\ wire # <<>> /\ wire[1] \in Lines /\ UNCHANGED <<native, said, asker, gone, ready, starts>>
        /\ \/ wire[1].kind = "turn" /\ TurnResponse(wire[1])
           \/ Notify(wire[1]) \/ AskApproval(wire[1]) \/ History(wire[1])
    BY <1>2, LineShape DEF WireOK
  <2>2. 1 \in DOMAIN wire
    BY <2>1, Rest1 DEF WireOK
  <2>3. CASE wire[1].kind = "turn" /\ TurnResponse(wire[1])
    <3>1. wire[1].turn \in Turns /\ native[wire[1].turn] # "none"
      BY <2>1, <2>2, <2>3, LineParts DEF WireOK
    <3> QED BY <2>1, <2>3, <3>1 DEF TurnResponse
  <2>4. CASE Notify(wire[1]) \/ AskApproval(wire[1]) \/ History(wire[1])
    BY <2>1, <2>4 DEF Notify, AskApproval, History
  <2> QED BY <2>1, <2>3, <2>4
<1>3. ASSUME NewsStep \/ ApplyStep \/ TakeBaseline PROVE UNCHANGED <<native, said, asker, gone, ready, starts, thread, turn>>
  BY <1>3 DEF NewsStep, NotificationIgnored, TurnStarted, TextArrived, TurnEnded, TurnSettles, NotificationFails,
              TakeBaseline, ApplyStep, HistoryRefused, HistoryApplied, HistorySettles
<1>4. ASSUME RequestStep \/ DecideStep PROVE UNCHANGED <<native, said, asker, gone, ready, starts, thread, turn>>
  BY <1>4 DEF RequestStep, RequestDeclined, RequestGoesLive, RequestPending, RequestProjected, RequestFails,
              DecideStep, DecisionRefused, DecisionSent, DecisionStored, DecisionFails
<1>5. ASSUME CancelStep PROVE UNCHANGED <<native, said, asker, gone, ready, starts, thread, turn>>
  BY <1>5 DEF CancelStep, CancelRead, CancelConfirmed, CancelFails, CancelSettles
<1>6. ASSUME SendStep
      PROVE  /\ UNCHANGED <<native, said, asker, gone, starts, thread>> /\ (ready => ready') /\ ready' \in BOOLEAN
             /\ turn' = turn \/ turn' = 0
  <2>1. (ready \/ turn # 0) \in BOOLEAN /\ (ready => (ready \/ turn # 0))
    BY <1>0
  <2> QED BY <1>0, <1>6, <2>1 DEF SendStep, MessageRead, MessageSteers, MessagePrepares
<1>7. ASSUME Operator PROVE UNCHANGED <<native, said, asker, gone, ready, starts, thread, turn>>
  BY <1>7 DEF Operator, Decide, Cancel, SendMessage, Recover
<1>8. ASSUME ReadHistory \/ AnswerHistory \/ ReadFails \/ ExitProjects \/ ExitSettles \/ Rest
      PROVE  UNCHANGED <<native, said, asker, gone, starts, thread, turn>> /\ (ready => ready') /\ ready' \in BOOLEAN
  BY <1>0, <1>8 DEF ReadHistory, AnswerHistory, ReadFails, ExitProjects, ExitSettles, Rest, vars
<1>9. \/ \E f \in Flows : FlowStep(f) \/ FlowFails(f)
      \/ HandleLine \/ NewsStep \/ ApplyStep \/ TakeBaseline \/ RequestStep \/ DecideStep \/ CancelStep \/ SendStep
      \/ Operator \/ ReadHistory \/ AnswerHistory \/ ReadFails \/ ExitProjects \/ ExitSettles \/ Rest
  BY DEF Next, LockStep, NewsStep, RequestStep, DecideStep, CancelStep, SendStep, ApplyStep
<1>10. CASE \E f \in Flows : FlowStep(f) \/ FlowFails(f)
  BY <1>1, <1>10
<1>11. CASE HandleLine
  BY <1>0, <1>2, <1>11
<1>12. CASE NewsStep \/ ApplyStep \/ TakeBaseline \/ RequestStep \/ DecideStep \/ CancelStep \/ Operator
  BY <1>0, <1>3, <1>4, <1>5, <1>7, <1>12
<1>13. CASE SendStep \/ ReadHistory \/ AnswerHistory \/ ReadFails \/ ExitProjects \/ ExitSettles \/ Rest
  BY <1>6, <1>8, <1>13
<1> QED BY <1>9, <1>10, <1>11, <1>12, <1>13

(* What the App Server does, and the interrupt of a turn *)
LEMMA ServerTurns ==
  ASSUME TypeInv, NativeInv, AppServer \/ CancelInterrupts
  PROVE  /\ ServerOK' /\ NativeInv' /\ UNCHANGED store
         /\ \A t \in Turns : native[t] # "none" => native'[t] # "none"
         /\ \A t \in Turns : said'[t] >= said[t]
<1> USE DEF TypeInv, NativeInv, store
<1>0. /\ native \in [Turns -> Natives] /\ said \in [Turns -> 0 .. MaxText] /\ asker \in [Requests -> Turns \cup {0}]
      /\ starts \subseteq Flows /\ gone \subseteq Requests /\ MaxText \in Nat /\ turn \in Turns \cup {0}
      /\ ready \in BOOLEAN
  BY TurnControlAssumption DEF ServerOK, Shown, RecordOK
<1>1. ASSUME NEW f \in Flows, NEW t \in Turns, NativeStart(f, t)
      PROVE  /\ ServerOK' /\ NativeInv' /\ UNCHANGED <<store, said>>
             /\ \A u \in Turns : native[u] # "none" => native'[u] # "none"
  BY <1>0, <1>1 DEF NativeStart, ServerOK, Shown, Natives
<1>2. ASSUME NEW t \in Turns, NativeSays(t)
      PROVE  /\ ServerOK' /\ NativeInv' /\ UNCHANGED <<store, native>>
             /\ \A u \in Turns : said'[u] >= said[u]
  <2>1. said' \in [Turns -> 0 .. MaxText] /\ \A u \in Turns : said'[u] >= said[u]
    BY <1>0, <1>2 DEF NativeSays
  <2> QED BY <1>0, <1>2, <2>1 DEF NativeSays, ServerOK
<1>3. ASSUME NEW t \in Turns, NEW r \in Requests, NativeAsks(t, r)
      PROVE  /\ ServerOK' /\ NativeInv' /\ UNCHANGED <<store, native, said>>
  BY <1>0, <1>3 DEF NativeAsks, ServerOK
<1>4. ASSUME NEW t \in Turns, NativeEnds(t)
      PROVE  /\ ServerOK' /\ NativeInv' /\ UNCHANGED <<store, said>>
             /\ \A u \in Turns : native[u] # "none" => native'[u] # "none"
  BY <1>0, <1>4 DEF NativeEnds, ServerOK, Shown, Natives
<1>5. ASSUME Exit
      PROVE  /\ ServerOK' /\ NativeInv' /\ UNCHANGED <<store, said>>
             /\ \A u \in Turns : native[u] # "none" => native'[u] # "none"
  BY <1>0, <1>5 DEF Exit, ServerOK, Shown, Natives
<1>6. ASSUME CancelInterrupts
      PROVE  /\ ServerOK' /\ NativeInv' /\ UNCHANGED <<store, said>>
             /\ \A u \in Turns : native[u] # "none" => native'[u] # "none"
  <2>1. /\ Task.seen \in Turns /\ native[Task.seen] = "running"
        /\ native' = [native EXCEPT ![Task.seen] = "interrupted"]
    BY <1>6, InterruptShape
  <2>2. UNCHANGED <<store, said, asker, gone, ready, starts>>
    BY <1>6 DEF CancelInterrupts
  <2> HIDE DEF Task
  <2> QED BY <1>0, <2>1, <2>2 DEF ServerOK, Shown, Natives
<1>7. \A u \in Turns : said[u] >= said[u]
  BY <1>0
<1> QED BY <1>1, <1>2, <1>3, <1>4, <1>5, <1>6, <1>7 DEF AppServer

LEMMA ServerAlways ==
  ASSUME TypeInv, NativeInv, Next
  PROVE  /\ ServerOK' /\ NativeInv'
         /\ \A t \in Turns : native[t] # "none" => native'[t] # "none"
<1>1. CASE AppServer \/ CancelInterrupts
  BY <1>1, ServerTurns
<1>2. CASE ~AppServer /\ ~CancelInterrupts
  <2> USE DEF TypeInv
  <2>1. /\ UNCHANGED <<native, said, asker, gone>> /\ (ready => ready') /\ ready' \in BOOLEAN
        /\ starts' = starts \/ \E f \in Flows : starts' = starts \cup {f} /\ thread'
        /\ thread => thread'
        /\ turn' = turn \/ turn' = 0 \/ (turn' \in Turns /\ native[turn'] # "none")
    BY <1>2, HandlersKeepServer
  <2>2. ServerOK'
    BY <2>1 DEF ServerOK
  <2>3. NativeInv'
    BY <2>1 DEF NativeInv
  <2> QED BY <2>1, <2>2, <2>3
<1> QED BY <1>1, <1>2


-----------------------------------------------------------------------------
(* The steps by the part of the code they are of, and what each does to the *)
(* tasks and the lines                                                      *)

LEMMA Steps ==
  ASSUME Next
  PROVE  \/ \E f \in Flows : FlowStep(f) \/ FlowFails(f)
         \/ HandleLine \/ NewsStep \/ RequestStep \/ DecideStep \/ CancelStep \/ SendStep
         \/ TakeBaseline \/ ApplyStep \/ ReadHistory \/ AnswerHistory \/ ReadFails
         \/ ExitProjects \/ ExitSettles \/ Operator \/ AppServer \/ Rest
BY DEF Next, LockStep, NewsStep, RequestStep, DecideStep, CancelStep, SendStep, ApplyStep

News == {"started", "text", "ended"}

LEMMA QueueKinds ==
  ASSUME TypeInv, Next
  PROVE  \/ queue' = queue
         \/ QueueStep(News) /\ (HandleLine \/ NewsStep)
         \/ QueueStep({"request"}) /\ (HandleLine \/ RequestStep)
         \/ QueueStep({"decide"}) /\ (Operator \/ DecideStep)
         \/ QueueStep({"cancel"}) /\ (Operator \/ CancelStep \/ Exit)
         \/ QueueStep({"send"}) /\ (Operator \/ SendStep)
         \/ QueueStep({"baseline"}) /\ (Recover \/ TakeBaseline)
         \/ QueueStep({"apply"}) /\ (HandleLine \/ ApplyStep)
<1> USE DEF TypeInv
<1>1. ASSUME HandleLine
      PROVE  queue' = queue \/ QueueStep(News) \/ QueueStep({"request"}) \/ QueueStep({"apply"})
  <2>1. /\ wire[1] \in Lines
        /\ \/ TurnResponse(wire[1])
           \/ wire[1].kind \in News /\ Notify(wire[1])
           \/ wire[1].kind = "request" /\ AskApproval(wire[1])
           \/ wire[1].kind = "history" /\ History(wire[1])
    BY <1>1, LineShape DEF WireOK, News
  <2>2. TurnResponse(wire[1]) => queue' = queue
    BY DEF TurnResponse
  <2>3. ASSUME wire[1].kind \in News, Notify(wire[1]) PROVE QueueStep(News)
    <3>1. QueueStep({wire[1].kind})
      BY <2>1, <2>3, NotifyShape DEF News
    <3> QED BY <2>3, <3>1 DEF QueueStep
  <2> QED BY <2>1, <2>2, <2>3, AskShape, HistoryShape
<1>2. ASSUME NewsStep PROVE QueueStep(News)
  <2>1. Task.kind \in News /\ QueueStep({Task.kind})
    BY <1>2, NewsShape DEF News
  <2> QED BY <2>1 DEF QueueStep
<1>3. /\ RequestStep => QueueStep({"request"})
      /\ DecideStep => QueueStep({"decide"})
      /\ CancelStep => QueueStep({"cancel"})
      /\ SendStep => QueueStep({"send"})
      /\ TakeBaseline => QueueStep({"baseline"})
      /\ ApplyStep => QueueStep({"apply"})
  <2>1. RequestStep => QueueStep({"request"})
    BY RequestShape
  <2>2. DecideStep => QueueStep({"decide"})
    BY DecideShape
  <2>3. CancelStep => QueueStep({"cancel"})
    BY CancelShape
  <2>4. SendStep => QueueStep({"send"})
    BY SendShape
  <2>5. TakeBaseline => QueueStep({"baseline"})
    BY BaselineShape
  <2>6. ApplyStep => QueueStep({"apply"})
    BY ApplyShape
  <2> QED BY <2>1, <2>2, <2>3, <2>4, <2>5, <2>6
<1>4. Operator => \/ QueueStep({"decide"}) \/ QueueStep({"cancel"}) \/ QueueStep({"send"})
                  \/ Recover /\ QueueStep({"baseline"})
  BY OperatorShape
<1>5. Exit => queue' = queue \/ QueueStep({"cancel"})
  BY ExitShape
<1>6. ASSUME NEW f \in Flows, FlowStep(f) \/ FlowFails(f) PROVE queue' = queue
  BY <1>6 DEF FlowStep, OpenThread, StartTurn, ProjectStart, Catch, FlowFails
<1>7. ASSUME AppServer, ~Exit PROVE queue' = queue
  BY <1>7 DEF AppServer, NativeStart, NativeSays, NativeAsks, NativeEnds
<1>8. ASSUME ReadHistory \/ AnswerHistory \/ ReadFails \/ ExitProjects \/ ExitSettles \/ Rest PROVE queue' = queue
  BY <1>8 DEF ReadHistory, AnswerHistory, ReadFails, ExitProjects, ExitSettles, Rest, vars
<1> QED BY <1>1, <1>2, <1>3, <1>4, <1>5, <1>6, <1>7, <1>8, Steps

Writes ==
  \/ \E f \in Flows, t \in Turns : NativeStart(f, t)
  \/ \E t \in Turns : NativeSays(t) \/ NativeEnds(t)
  \/ \E t \in Turns, r \in Requests : NativeAsks(t, r)
  \/ CancelInterrupts \/ AnswerHistory

LEMMA WireKinds ==
  ASSUME TypeInv, Next, ~HandleLine, ~Exit, ~Writes
  PROVE  wire' = wire
<1> USE DEF TypeInv
<1>1. ASSUME NEW f \in Flows, FlowStep(f) \/ FlowFails(f) PROVE wire' = wire
  BY <1>1 DEF FlowStep, OpenThread, StartTurn, ProjectStart, Catch, FlowFails, server
<1>2. ASSUME NewsStep \/ RequestStep \/ DecideStep \/ SendStep \/ TakeBaseline \/ ApplyStep PROVE wire' = wire
  BY <1>2, NewsShape, RequestShape, DecideShape, SendShape, BaselineShape, ApplyShape
<1>3. ASSUME CancelStep PROVE wire' = wire
  BY <1>3, CancelShape DEF Writes
<1>4. ASSUME Operator PROVE wire' = wire
  BY <1>4, OperatorShape
<1>5. ASSUME ReadHistory \/ ReadFails \/ ExitProjects \/ ExitSettles \/ Rest PROVE wire' = wire
  BY <1>5 DEF ReadHistory, ReadFails, ExitProjects, ExitSettles, Rest, vars, server
<1>6. ~AppServer /\ ~AnswerHistory
  BY DEF AppServer, Writes
<1> QED BY <1>1, <1>2, <1>3, <1>4, <1>5, <1>6, Steps

(* The two lines of a new turn *)
LEMMA StartCarries ==
  ASSUME wire \in Seq(Lines), NEW f \in Flows, NEW t \in Turns, NativeStart(f, t), NEW L, L \cap {"turn", "started"} = {}
  PROVE  wire' \in Seq(Lines) /\ Carries(wire, wire', L)
<1>1. PICK d \in Lines, e \in Lines :
        /\ d.kind = "turn" /\ e.kind = "started" /\ wire' = Append(Append(wire, d), e)
  BY StartShape
<1>2. PICK z : z = Append(wire, d)
  OBVIOUS
<1>3. /\ z \in Seq(Lines) /\ DOMAIN z = DOMAIN wire \cup {Len(wire) + 1} /\ z[Len(wire) + 1] = d
      /\ \A i \in DOMAIN wire : z[i] = wire[i]
  BY <1>2, Appended
<1>4. /\ wire' \in Seq(Lines) /\ DOMAIN wire' = DOMAIN z \cup {Len(z) + 1} /\ wire'[Len(z) + 1] = e
      /\ \A i \in DOMAIN z : wire'[i] = z[i]
  BY <1>1, <1>2, <1>3, Appended
<1>0. \A i \in DOMAIN wire : i + 0 = i /\ i - 0 = i
  OBVIOUS
<1>5. /\ \A i \in DOMAIN wire' : wire'[i].kind \in L => i + 0 \in DOMAIN wire /\ wire'[i] = wire[i + 0]
      /\ \A i \in DOMAIN wire : wire[i].kind \in L => i - 0 \in DOMAIN wire' /\ wire'[i - 0] = wire[i]
  BY <1>0, <1>1, <1>3, <1>4
<1> QED BY <1>4, <1>5 DEF Carries

LEMMA LineComes ==
  ASSUME WireOK, NEW e, Sent(e), \A t \in Turns : native[t] # "none" => native'[t] # "none",
         e.kind # "history" => native'[e.turn] # "none"
  PROVE  WireOK'
<1>1. /\ wire' \in Seq(Lines) /\ DOMAIN wire' = DOMAIN wire \cup {Len(wire) + 1} /\ wire'[Len(wire) + 1] = e
      /\ \A i \in DOMAIN wire : wire'[i] = wire[i]
  BY Appended DEF Sent, WireOK
<1>2. \A i \in DOMAIN wire : wire[i].kind # "history" => native'[wire[i].turn] # "none"
  <2>1. \A i \in DOMAIN wire : wire[i] \in Lines
    BY DEF WireOK
  <2> QED BY <2>1, LineParts DEF WireOK
<1> QED BY <1>1, <1>2 DEF WireOK

LEMMA WireAlways ==
  ASSUME TypeInv, NativeInv, Next
  PROVE  WireOK'
<1> USE DEF TypeInv
<1>0. \A t \in Turns : native[t] # "none" => native'[t] # "none"
  BY ServerAlways
<1>a. wire \in Seq(Lines) /\ \A i \in DOMAIN wire : wire[i] \in Lines
  BY DEF WireOK
<1>1. CASE wire' = wire
  BY <1>0, <1>1, <1>a, LineParts DEF WireOK
<1>2. CASE HandleLine
  <2>1. wire # <<>> /\ wire' = Tail(wire) /\ UNCHANGED native
    BY <1>2, LineShape DEF WireOK
  <2>2. /\ wire' \in Seq(Lines)
        /\ \A i \in DOMAIN wire' : wire'[i] = wire[i + 1] /\ i + 1 \in DOMAIN wire
    BY <1>a, <2>1, Rest1
  <2> QED BY <2>1, <2>2 DEF WireOK
<1>3. CASE Exit
  <2>1. wire' = <<>>
    BY <1>3 DEF Exit
  <2> QED BY <2>1 DEF WireOK
<1>4. ASSUME NEW f \in Flows, NEW t \in Turns, NativeStart(f, t) PROVE WireOK'
  <2>1. PICK d \in Lines, e \in Lines :
          /\ d.kind = "turn" /\ d.turn = t /\ e.kind = "started" /\ e.turn = t
          /\ wire' = Append(Append(wire, d), e)
    BY <1>a, <1>4, StartShape
  <2>2. PICK z : z = Append(wire, d)
    OBVIOUS
  <2>3. /\ z \in Seq(Lines) /\ DOMAIN z = DOMAIN wire \cup {Len(wire) + 1} /\ z[Len(wire) + 1] = d
        /\ \A i \in DOMAIN wire : z[i] = wire[i]
    BY <1>a, <2>2, Appended
  <2>4. /\ wire' \in Seq(Lines) /\ DOMAIN wire' = DOMAIN z \cup {Len(z) + 1} /\ wire'[Len(z) + 1] = e
        /\ \A i \in DOMAIN z : wire'[i] = z[i]
    BY <2>1, <2>2, <2>3, Appended
  <2>5. native'[t] = "running"
    BY <1>4 DEF NativeStart, ServerOK, Shown
  <2>6. \A i \in DOMAIN wire : wire[i].kind # "history" => native'[wire[i].turn] # "none"
    BY <1>0, <1>a, LineParts DEF WireOK
  <2> QED BY <2>1, <2>3, <2>4, <2>5, <2>6 DEF WireOK
<1>5. ASSUME NEW t \in Turns, NativeSays(t) PROVE WireOK'
  <2>1. PICK e \in Lines : Sent(e) /\ e.turn = t
    BY <1>5, SaysShape
  <2>2. native[t] # "none"
    BY <1>5 DEF NativeSays
  <2> QED BY <1>0, <2>1, <2>2, LineComes
<1>6. ASSUME NEW t \in Turns, NativeEnds(t) PROVE WireOK'
  <2>1. PICK e \in Lines : Sent(e) /\ e.turn = t
    BY <1>6, EndsShape
  <2>2. native[t] # "none"
    BY <1>6 DEF NativeEnds
  <2> QED BY <1>0, <2>1, <2>2, LineComes
<1>7. ASSUME NEW t \in Turns, NEW r \in Requests, NativeAsks(t, r) PROVE WireOK'
  <2>1. PICK e \in Lines : Sent(e) /\ e.turn = t
    BY <1>7, AsksShape
  <2>2. native[t] # "none"
    BY <1>7 DEF NativeAsks
  <2> QED BY <1>0, <2>1, <2>2, LineComes
<1>8. CASE CancelInterrupts
  <2>1. PICK t \in Turns : t = Task.seen /\ native[t] = "running"
    BY <1>8, InterruptShape
  <2>2. PICK e \in Lines : Sent(e) /\ e.turn = t
    BY <1>8, <2>1, InterruptShape
  <2> QED BY <1>0, <2>1, <2>2, LineComes
<1>9. CASE AnswerHistory
  <2>1. PICK e \in Lines : Sent(e) /\ e.kind = "history"
    BY <1>9, AnswerShape
  <2> QED BY <1>0, <2>1, LineComes
<1> QED BY <1>1, <1>2, <1>3, <1>4, <1>5, <1>6, <1>7, <1>8, <1>9, WireKinds DEF Writes

-----------------------------------------------------------------------------
(* The recovery: one task or one line at a time *)

TouchesRead ==
  \/ Recover \/ TakeBaseline \/ ReadHistory \/ AnswerHistory \/ ReadFails \/ ApplyStep \/ Exit
  \/ HandleLine /\ wire[1].kind = "history"

LEMMA BumpTyped ==
  ASSUME ReadOK
  PROVE  Bump => changed' \in BOOLEAN
<1>1. (changed \/ Watching) \in BOOLEAN
  OBVIOUS
<1> QED BY <1>1 DEF Bump

LEMMA ReadSteps ==
  ASSUME TypeInv, Next, ~TouchesRead
  PROVE  read' = read /\ changed' \in BOOLEAN /\ (changed' = changed \/ Bump)
<1> USE DEF recovery
<1>0. changed \in BOOLEAN /\ (Bump => changed' \in BOOLEAN)
  BY BumpTyped DEF ReadOK, TypeInv
<1>1. ASSUME NEW f \in Flows, FlowStep(f) \/ FlowFails(f) PROVE read' = read /\ (changed' = changed \/ Bump)
  BY <1>0, <1>1 DEF FlowStep, OpenThread, StartTurn, ProjectStart, Catch, FlowFails
<1>2. CASE HandleLine
  <2>1. TurnResponse(wire[1]) \/ Notify(wire[1]) \/ AskApproval(wire[1])
    BY <1>2, LineShape DEF TouchesRead, TypeInv, WireOK
  <2> QED BY <1>0, <2>1 DEF TurnResponse, Notify, AskApproval
<1>3. CASE NewsStep
  BY <1>0, <1>3 DEF NewsStep, NotificationIgnored, TurnStarted, TextArrived, TurnEnded, TurnSettles, NotificationFails
<1>4. CASE RequestStep
  BY <1>0, <1>4 DEF RequestStep, RequestDeclined, RequestGoesLive, RequestPending, RequestProjected, RequestFails
<1>5. CASE DecideStep
  BY <1>0, <1>5 DEF DecideStep, DecisionRefused, DecisionSent, DecisionStored, DecisionFails
<1>6. CASE CancelStep
  BY <1>0, <1>6 DEF CancelStep, CancelRead, CancelInterrupts, CancelConfirmed, CancelFails, CancelSettles
<1>7. CASE SendStep
  BY <1>0, <1>7 DEF SendStep, MessageRead, MessageSteers, MessagePrepares
<1>8. CASE Operator
  BY <1>0, <1>8 DEF Operator, Decide, Cancel, SendMessage, TouchesRead
<1>9. CASE AppServer
  BY <1>0, <1>9 DEF AppServer, NativeStart, NativeSays, NativeAsks, NativeEnds, TouchesRead
<1>10. CASE ExitProjects \/ ExitSettles \/ Rest
  BY <1>0, <1>10 DEF ExitProjects, ExitSettles, Rest, vars
<1>11. read' = read /\ (changed' = changed \/ Bump)
  BY <1>1, <1>2, <1>3, <1>4, <1>5, <1>6, <1>7, <1>8, <1>9, <1>10, Steps DEF TouchesRead
<1> QED BY <1>0, <1>11

(* Without its tasks and lines the recovery is one that has not asked yet *)
NoHistory == \A i \in DOMAIN wire : wire[i].kind # "history"
NoRecovery == \A i \in DOMAIN queue : queue[i].kind \notin {"baseline", "apply"}

LEMMA ReadKept ==
  ASSUME TypeInv, ReadInv, read' = read,
         \A t \in Turns : native[t] # "none" => native'[t] # "none",
         changed' \in BOOLEAN,
         Carries(queue, queue', {"baseline", "apply"}), Carries(wire, wire', {"history"}),
         queue' \in Seq(Tasks), wire' \in Seq(Lines)
  PROVE  ReadOK' /\ ReadInv'
<1> USE DEF TypeInv
<1>1. ReadOK'
  BY DEF ReadOK
<1>0. /\ \A i \in DOMAIN queue : i \in Int
      /\ \A i \in DOMAIN queue' : i \in Int
      /\ \A i \in DOMAIN wire : i \in Int
      /\ \A i \in DOMAIN wire' : i \in Int
  BY DEF QueueOK, WireOK
<1>2. ASSUME NEW i \in DOMAIN wire', wire'[i].kind = "history"
      PROVE  /\ read'.at = "sent" /\ wire'[i].native[read'.turn] # "none"
             /\ \A j \in DOMAIN wire' : wire'[j].kind = "history" => j = i
  <2>1. PICK d \in {0, 1} :
          \A k \in DOMAIN wire' : wire'[k].kind = "history" => k + d \in DOMAIN wire /\ wire'[k] = wire[k + d]
    BY DEF Carries
  <2>2. i + d \in DOMAIN wire /\ wire'[i] = wire[i + d] /\ wire[i + d].kind = "history"
    BY <1>2, <2>1
  <2>3. /\ read.at = "sent" /\ wire[i + d].native[read.turn] # "none"
        /\ \A j \in DOMAIN wire : wire[j].kind = "history" => j = i + d
    BY <2>2 DEF ReadInv
  <2>4. ASSUME NEW j \in DOMAIN wire', wire'[j].kind = "history" PROVE j = i
    <3>1. j + d = i + d
      BY <2>1, <2>3, <2>4
    <3> QED BY <1>0, <3>1
  <2> QED BY <2>2, <2>3, <2>4
<1>3. PICK d \in {0, 1} :
        \A k \in DOMAIN queue' : queue'[k].kind \in {"baseline", "apply"} =>
          k + d \in DOMAIN queue /\ queue'[k] = queue[k + d]
  BY DEF Carries
<1>4. ASSUME NEW i \in DOMAIN queue', queue'[i].kind = "baseline"
      PROVE  /\ read'.at = "waiting"
             /\ \A j \in DOMAIN queue' : queue'[j].kind = "baseline" => j = i
  <2>1. i + d \in DOMAIN queue /\ queue'[i] = queue[i + d] /\ queue[i + d].kind = "baseline"
    BY <1>3, <1>4
  <2>2. read.at = "waiting" /\ \A j \in DOMAIN queue : queue[j].kind = "baseline" => j = i + d
    BY <2>1 DEF ReadInv
  <2>3. ASSUME NEW j \in DOMAIN queue', queue'[j].kind = "baseline" PROVE j = i
    <3>1. j + d = i + d
      BY <1>3, <2>2, <2>3
    <3> QED BY <1>0, <3>1
  <2> QED BY <2>2, <2>3
<1>5. ASSUME NEW i \in DOMAIN queue', queue'[i].kind = "apply"
      PROVE  /\ read'.at = "read" /\ queue'[i].native[read'.turn] # "none"
             /\ queue'[i].at = "complete" => queue'[i].native[read'.turn] # "running"
             /\ \A j \in DOMAIN queue' : queue'[j].kind = "apply" => j = i
  <2>1. i + d \in DOMAIN queue /\ queue'[i] = queue[i + d] /\ queue[i + d].kind = "apply"
    BY <1>3, <1>5
  <2>2. /\ read.at = "read" /\ queue[i + d].native[read.turn] # "none"
        /\ queue[i + d].at = "complete" => queue[i + d].native[read.turn] # "running"
        /\ \A j \in DOMAIN queue : queue[j].kind = "apply" => j = i + d
    BY <2>1 DEF ReadInv
  <2>3. ASSUME NEW j \in DOMAIN queue', queue'[j].kind = "apply" PROVE j = i
    <3>1. j + d = i + d
      BY <1>3, <2>2, <2>3
    <3> QED BY <1>0, <3>1
  <2> QED BY <2>1, <2>2, <2>3
<1>6. read'.at = "asked" => read'.native[read'.turn] # "none"
  BY DEF ReadInv
<1> QED BY <1>1, <1>2, <1>4, <1>5, <1>6 DEF ReadInv

(* What the others leave of the recovery's task and line *)
LEMMA ReadCarries ==
  ASSUME TypeInv, NativeInv, Next, ~TouchesRead
  PROVE  Carries(queue, queue', {"baseline", "apply"}) /\ Carries(wire, wire', {"history"})
<1> USE DEF TypeInv
<1>1. Carries(queue, queue', {"baseline", "apply"})
  <2>1. \/ queue' = queue
        \/ QueueStep(News) \/ QueueStep({"request"}) \/ QueueStep({"decide"}) \/ QueueStep({"cancel"})
        \/ QueueStep({"send"}) \/ (QueueStep({"apply"}) /\ HandleLine)
    BY QueueKinds DEF TouchesRead
  <2>2. ASSUME queue' = queue PROVE Carries(queue, queue', {"baseline", "apply"})
    <3>1. QueueStep({}) /\ {} \cap {"baseline", "apply"} = {}
      BY <2>2 DEF QueueStep
    <3> QED BY <3>1, QueueCarries
  <2>3. CASE QueueStep(News) \/ QueueStep({"request"}) \/ QueueStep({"decide"}) \/ QueueStep({"cancel"})
             \/ QueueStep({"send"})
    BY <2>3, QueueCarries DEF News
  <2>4. CASE HandleLine
    <3>1. /\ wire[1] \in Lines
          /\ \/ TurnResponse(wire[1])
             \/ wire[1].kind \in News /\ Notify(wire[1])
             \/ wire[1].kind = "request" /\ AskApproval(wire[1])
      BY <2>4, LineShape DEF WireOK, TouchesRead, News
    <3>2. CASE TurnResponse(wire[1])
      BY <2>2, <3>2 DEF TurnResponse
    <3>3. CASE wire[1].kind \in News /\ Notify(wire[1])
      <4>1. QueueStep({wire[1].kind}) /\ {wire[1].kind} \cap {"baseline", "apply"} = {}
        BY <3>1, <3>3, NotifyShape DEF News
      <4> QED BY <4>1, QueueCarries
    <3>4. CASE wire[1].kind = "request" /\ AskApproval(wire[1])
      BY <3>1, <3>4, AskShape, QueueCarries
    <3> QED BY <3>1, <3>2, <3>3, <3>4
  <2> QED BY <2>1, <2>2, <2>3, <2>4
<1>2. Carries(wire, wire', {"history"})
  <2>0. wire \in Seq(Lines) /\ ~Exit /\ ~AnswerHistory
    BY DEF WireOK, TouchesRead
  <2>1. CASE wire' = wire
    <3>1. WireStep({}) /\ {} \cap {"history"} = {}
      BY <2>1 DEF WireStep
    <3> QED BY <2>0, <3>1, WireCarries
  <2>2. CASE HandleLine
    <3>1. WireStep({wire[1].kind}) /\ {wire[1].kind} \cap {"history"} = {}
      BY <2>0, <2>2, LineShape DEF TouchesRead
    <3> QED BY <2>0, <3>1, WireCarries
  <2>3. ASSUME NEW f \in Flows, NEW t \in Turns, NativeStart(f, t) PROVE Carries(wire, wire', {"history"})
    BY <2>0, <2>3, StartCarries
  <2>4. ASSUME NEW t \in Turns, NativeSays(t) \/ NativeEnds(t) PROVE Carries(wire, wire', {"history"})
    BY <2>0, <2>4, SaysShape, EndsShape, WireCarries
  <2>5. ASSUME NEW t \in Turns, NEW r \in Requests, NativeAsks(t, r) PROVE Carries(wire, wire', {"history"})
    BY <2>0, <2>5, AsksShape, WireCarries
  <2>6. CASE CancelInterrupts
    BY <2>0, <2>6, InterruptShape, WireCarries
  <2> QED BY <2>0, <2>1, <2>2, <2>3, <2>4, <2>5, <2>6, WireKinds DEF Writes
<1> QED BY <1>1, <1>2

LEMMA RecoveryIsOne ==
  ASSUME ReadInv
  PROVE  /\ read.at # "sent" => NoHistory
         /\ read.at \notin {"waiting", "read"} => NoRecovery
         /\ (\E i \in DOMAIN queue : queue[i].kind = "baseline") => read.at = "waiting"
         /\ (\E i \in DOMAIN queue : queue[i].kind = "apply") => read.at = "read"
BY DEF ReadInv, NoHistory, NoRecovery

LEMMA RecoveryReleased ==
  ASSUME TypeInv, ReadInv, queue # <<>>, Task.kind \in {"baseline", "apply"}, Release
  PROVE  NoRecovery'
<1>1. /\ 1 \in DOMAIN queue /\ \A i \in DOMAIN queue : i \in Nat
      /\ \A i \in DOMAIN queue' : queue'[i] = queue[i + 1] /\ i + 1 \in DOMAIN queue /\ i + 1 # 1
  <2>1. /\ 1 \in DOMAIN queue /\ DOMAIN queue = 1 .. Len(queue) /\ Len(queue) \in Nat
        /\ DOMAIN queue' = 1 .. (Len(queue) - 1)
        /\ \A i \in DOMAIN queue' : queue'[i] = queue[i + 1] /\ i + 1 \in DOMAIN queue
    BY Rest1 DEF TypeInv, QueueOK, Release
  <2> QED BY <2>1
<1>2. ASSUME NEW i \in DOMAIN queue, i # 1 PROVE queue[i].kind \notin {"baseline", "apply"}
  <2>1. CASE queue[1].kind = "baseline"
    BY <1>1, <1>2, <2>1 DEF ReadInv
  <2>2. CASE queue[1].kind = "apply"
    BY <1>1, <1>2, <2>2 DEF ReadInv
  <2> QED BY <2>1, <2>2 DEF Task
<1> QED BY <1>1, <1>2 DEF NoRecovery

LEMMA HistoryTaken ==
  ASSUME TypeInv, ReadInv, wire # <<>>, wire[1].kind = "history", wire' = Tail(wire)
  PROVE  NoHistory'
<1>1. /\ 1 \in DOMAIN wire
      /\ \A i \in DOMAIN wire' : wire'[i] = wire[i + 1] /\ i + 1 \in DOMAIN wire /\ i + 1 # 1
  <2>1. /\ 1 \in DOMAIN wire /\ Len(wire) \in Nat
        /\ DOMAIN wire' = 1 .. (Len(wire) - 1)
        /\ \A i \in DOMAIN wire' : wire'[i] = wire[i + 1] /\ i + 1 \in DOMAIN wire
    BY Rest1 DEF TypeInv, WireOK
  <2> QED BY <2>1
<1>2. \A i \in DOMAIN wire : i # 1 => wire[i].kind # "history"
  BY <1>1 DEF ReadInv
<1> QED BY <1>1, <1>2 DEF NoHistory

LEMMA ReadCleared ==
  ASSUME TypeInv, read' = NoRead, changed' \in BOOLEAN, NoHistory', NoRecovery'
  PROVE  ReadOK' /\ ReadInv'
BY DEF TypeInv, ReadOK, ReadInv, NoRead, NoHistory, NoRecovery

LEMMA ReadTouched ==
  ASSUME TypeInv, NativeInv, ReadInv, Next, TouchesRead
  PROVE  ReadOK' /\ ReadInv'
<1> USE DEF TypeInv
<1>a. changed \in BOOLEAN /\ \A t \in Turns : native[t] # "none" => native'[t] # "none"
  BY ServerAlways DEF ReadOK
<1>1. CASE Recover
  <2>1. /\ read = NoRead /\ changed' = changed /\ wire' = wire /\ native' = native
        /\ read' = [at |-> "waiting", turn |-> turn] /\ turn # 0
    BY <1>1 DEF Recover, server
  <2>2. turn \in Turns /\ native[turn] # "none"
    BY <2>1 DEF RecordOK, NativeInv
  <2>3. NoHistory /\ NoRecovery
    BY <2>1, RecoveryIsOne DEF NoRead
  <2>4. ReadOK'
    BY <1>a, <2>1, <2>2 DEF ReadOK, NoRead
  <2>5. PICK e \in Tasks : e.kind = "baseline" /\ queue' = Append(queue, e)
    <3> DEFINE e == [kind |-> "baseline", at |-> "check"]
    <3>1. e \in Tasks
      BY DEF Tasks, PlainTask, Places
    <3> QED BY <1>1, <3>1 DEF Recover, Wait
  <2>6. /\ DOMAIN queue' = DOMAIN queue \cup {Len(queue) + 1} /\ queue'[Len(queue) + 1] = e
        /\ \A i \in DOMAIN queue : queue'[i] = queue[i]
    BY <2>5, Appended DEF QueueOK
  <2> QED BY <2>1, <2>3, <2>4, <2>5, <2>6 DEF ReadInv, NoHistory, NoRecovery
<1>2. CASE TakeBaseline
  <2>1. queue # <<>> /\ Task.kind = "baseline" /\ 1 \in DOMAIN queue /\ Release
    BY <1>2, BaselineShape, QueueParts DEF TakeBaseline
  <2>2. read.at = "waiting"
    BY <2>1, RecoveryIsOne DEF Task
  <2>3. read = [at |-> "waiting", turn |-> read.turn] /\ read.turn \in Turns /\ native[read.turn] # "none"
    BY <2>2 DEF ReadOK
  <2>4. /\ changed' = FALSE /\ read' = [at |-> "reading", turn |-> read.turn] /\ wire' = wire /\ native' = native
    BY <1>2, <2>3 DEF TakeBaseline, server
  <2>5. NoRecovery' /\ NoHistory'
    BY <2>1, <2>2, <2>4, RecoveryReleased, RecoveryIsOne DEF NoHistory
  <2> QED BY <2>3, <2>4, <2>5 DEF ReadOK, ReadInv, NoRecovery, NoHistory, NoRead
<1>3. CASE ReadHistory
  <2>1. /\ read.at = "reading" /\ changed' = changed /\ wire' = wire /\ queue' = queue /\ native' = native
        /\ read' = [at |-> "asked", turn |-> read.turn, text |-> said, native |-> native]
    BY <1>3 DEF ReadHistory
  <2>2. read.turn \in Turns /\ native[read.turn] # "none"
    BY <2>1 DEF ReadOK
  <2>3. said \in Texts /\ native \in Shown
    <3>1. said \in [Turns -> 0 .. MaxText] /\ 0 .. MaxText \subseteq Nat
      BY TurnControlAssumption DEF ServerOK
    <3> QED BY <3>1 DEF Texts, ServerOK
  <2>4. NoHistory' /\ NoRecovery'
    BY <2>1, RecoveryIsOne DEF NoHistory, NoRecovery
  <2>5. ReadOK'
    BY <1>a, <2>1, <2>2, <2>3 DEF ReadOK
  <2> QED BY <2>1, <2>2, <2>4, <2>5 DEF ReadInv, NoRecovery, NoHistory
<1>4. CASE AnswerHistory
  <2>1. /\ read.at = "asked" /\ changed' = changed /\ queue' = queue /\ native' = native
        /\ read' = [at |-> "sent", turn |-> read.turn]
    BY <1>4 DEF AnswerHistory
  <2>2. read.turn \in Turns /\ native[read.turn] # "none" /\ read.native[read.turn] # "none"
    BY <2>1 DEF ReadOK, ReadInv
  <2>3. NoHistory /\ NoRecovery'
    BY <2>1, RecoveryIsOne DEF NoRecovery
  <2>4. PICK e \in Lines : Sent(e) /\ e.kind = "history" /\ e.native = read.native
    BY <1>4, AnswerShape
  <2>5. /\ DOMAIN wire' = DOMAIN wire \cup {Len(wire) + 1} /\ wire'[Len(wire) + 1] = e
        /\ \A i \in DOMAIN wire : wire'[i] = wire[i]
    BY <2>4, Appended DEF WireOK, Sent
  <2>6. ReadOK'
    BY <1>a, <2>1, <2>2 DEF ReadOK, NoRead
  <2> QED BY <2>1, <2>2, <2>3, <2>4, <2>5, <2>6 DEF ReadInv, NoHistory, NoRecovery
<1>5. CASE ReadFails
  <2>1. read.at = "reading" /\ read' = NoRead /\ changed' = FALSE /\ wire' = wire /\ queue' = queue
    BY <1>5 DEF ReadFails, server
  <2>2. NoHistory' /\ NoRecovery'
    BY <2>1, RecoveryIsOne DEF NoHistory, NoRecovery
  <2> QED BY <2>1, <2>2, ReadCleared
<1>6. CASE HandleLine /\ wire[1].kind = "history"
  <2>1. /\ wire # <<>> /\ wire[1] \in Lines /\ wire' = Tail(wire) /\ native' = native /\ History(wire[1])
        /\ 1 \in DOMAIN wire
    BY <1>6, LineShape, Rest1 DEF WireOK
  <2>2. read.at = "sent" /\ wire[1].native[read.turn] # "none"
    BY <1>6, <2>1 DEF ReadInv
  <2>3. read = [at |-> "sent", turn |-> read.turn] /\ read.turn \in Turns /\ native[read.turn] # "none"
    BY <2>2 DEF ReadOK
  <2>4. read' = [at |-> "read", turn |-> read.turn] /\ changed' = changed
    BY <2>1, <2>3 DEF History
  <2>5. NoHistory' /\ NoRecovery
    BY <1>6, <2>1, <2>2, HistoryTaken, RecoveryIsOne
  <2>6. PICK e \in Tasks : Queued(e) /\ e.kind = "apply" /\ e.native = wire[1].native
    BY <1>6, <2>1, HistoryShape
  <2>7. /\ DOMAIN queue' = DOMAIN queue \cup {Len(queue) + 1} /\ queue'[Len(queue) + 1] = e
        /\ \A i \in DOMAIN queue : queue'[i] = queue[i]
    BY <2>6, Appended DEF QueueOK, Queued
  <2>8. ReadOK'
    BY <1>a, <2>1, <2>3, <2>4 DEF ReadOK, NoRead
  <2>9. e.at = "check" /\ e.native[read'.turn] # "none"
    BY <2>2, <2>4, <2>6 DEF Queued
  <2> QED BY <2>4, <2>5, <2>6, <2>7, <2>8, <2>9 DEF ReadInv, NoHistory, NoRecovery
<1>7. CASE ApplyStep
  <2>1. /\ queue # <<>> /\ Task.kind = "apply" /\ wire' = wire /\ native' = native
        /\ 1 \in DOMAIN queue
    BY <1>7, ApplyShape, QueueParts
  <2>2. read.at = "read" /\ Task.native[read.turn] # "none" /\ \A j \in DOMAIN queue : queue[j].kind = "apply" => j = 1
    BY <2>1 DEF ReadInv, Task
  <2>3. NoHistory'
    BY <2>1, <2>2, RecoveryIsOne DEF NoHistory
  <2>4. \A j \in DOMAIN queue : queue[j].kind # "baseline"
    BY <2>2, RecoveryIsOne
  <2>5. CASE Release /\ read' = NoRead /\ changed' = FALSE
    <3>1. NoRecovery'
      BY <2>1, <2>5, RecoveryReleased
    <3> QED BY <2>3, <2>5, <3>1, ReadCleared
  <2>6. CASE HistoryApplied /\ Task.native[turn] # "running"
    <3>1. /\ UNCHANGED <<read, changed>> /\ turn = read.turn /\ Task.native[turn] # "running"
      BY <2>6 DEF HistoryApplied, Unmoved
    <3>2. PICK e \in Tasks : Moved(e, "complete")
      <4>1. GoTo("complete") /\ "complete" \in Places
        BY <2>6 DEF HistoryApplied, Places
      <4> QED BY <2>1, <4>1, GoToMoves
    <3>3. e.kind = "apply" /\ e.at = "complete" /\ e.native = Task.native
      BY <2>1, <3>2 DEF Moved, SameTask
    <3>4. /\ DOMAIN queue' = DOMAIN queue /\ queue'[1] = e
          /\ \A i \in DOMAIN queue : i # 1 => queue'[i] = queue[i]
      BY <2>1, <3>2, NewHead DEF Moved, QueueOK
    <3>5. ReadOK'
      BY <1>a, <2>1, <3>1 DEF ReadOK
    <3>6. e.native[read'.turn] # "none" /\ e.native[read'.turn] # "running"
      BY <2>2, <3>1, <3>3
    <3> QED BY <2>2, <2>3, <2>4, <3>1, <3>3, <3>4, <3>5, <3>6 DEF ReadInv, NoHistory
  <2>7. \/ Release /\ read' = NoRead /\ changed' = FALSE
        \/ HistoryApplied /\ Task.native[turn] # "running"
    BY <1>7 DEF ApplyStep, HistoryRefused, HistoryApplied, HistorySettles
  <2> QED BY <2>5, <2>6, <2>7
<1>8. CASE Exit
  <2>1. wire' = <<>>
    BY <1>8 DEF Exit
  <2>2. NoHistory'
    BY <2>1 DEF NoHistory
  <2>3. QueueStep({"cancel"})
    BY <1>8, ExitShape DEF QueueStep
  <2>4. Carries(queue, queue', {"baseline", "apply"}) /\ queue' \in Seq(Tasks)
    <3>1. {"cancel"} \cap {"baseline", "apply"} = {}
      OBVIOUS
    <3> QED BY <2>3, <3>1, QueueCarries, QueueTyped DEF QueueOK
  <2>5. CASE read.at \in {"asked", "sent"}
    <3>1. read' = NoRead /\ changed' = FALSE
      BY <1>8, <2>5 DEF Exit
    <3>2. NoRecovery
      BY <2>5, RecoveryIsOne
    <3>3. NoRecovery'
      BY <2>4, <3>2 DEF NoRecovery, Carries
    <3> QED BY <2>2, <3>1, <3>3, ReadCleared
  <2>6. CASE read.at \notin {"asked", "sent"}
    <3>1. UNCHANGED <<read, changed>>
      BY <1>8, <2>6 DEF Exit, recovery
    <3>2. wire' \in Seq(Lines)
      BY <2>1
    <3>3. Carries(wire, wire', {"history"})
      <4>1. \A i \in DOMAIN wire' : FALSE
        BY <2>1
      <4>2. \A i \in DOMAIN wire : wire[i].kind # "history"
        BY <2>6, RecoveryIsOne DEF NoHistory
      <4>3. /\ \A i \in DOMAIN wire' : wire'[i].kind \in {"history"} => i + 0 \in DOMAIN wire /\ wire'[i] = wire[i + 0]
            /\ \A i \in DOMAIN wire : wire[i].kind \in {"history"} => i - 0 \in DOMAIN wire' /\ wire'[i - 0] = wire[i]
        BY <4>1, <4>2
      <4> QED BY <4>3 DEF Carries
    <3> QED BY <1>a, <2>4, <3>1, <3>2, <3>3, ReadKept
  <2> QED BY <2>5, <2>6
<1> QED BY <1>1, <1>2, <1>3, <1>4, <1>5, <1>6, <1>7, <1>8 DEF TouchesRead

LEMMA ReadAlways ==
  ASSUME TypeInv, NativeInv, ReadInv, Next
  PROVE  ReadOK' /\ ReadInv'
<1>1. CASE TouchesRead
  BY <1>1, ReadTouched
<1>2. CASE ~TouchesRead
  <2>1. queue' \in Seq(Tasks) /\ wire' \in Seq(Lines)
    BY QueueAlways, WireAlways DEF QueueOK, WireOK
  <2> QED BY <1>2, <2>1, ReadSteps, ReadCarries, ReadKept, ServerAlways
<1> QED BY <1>1, <1>2

-----------------------------------------------------------------------------
(* The approval requests: where they are and what they were told *)

TouchesRequest ==
  \/ RequestStep \/ DecisionSent \/ DecisionStored \/ Exit
  \/ \E t \in Turns, r \in Requests : NativeAsks(t, r)
  \/ HandleLine /\ wire[1].kind = "request"

(* An approval that is not the step's own is as it was, or settled *)
StoreKept ==
  \A r \in Requests :
    /\ approvals[r] = "none" => approvals'[r] = "none"
    /\ approvals'[r] \in {"accepted", "declined", "pending"} => approvals'[r] = approvals[r]

LEMMA CompleteKeeps ==
  ASSUME NEW st, CompleteJob(st)
  PROVE  StoreKept /\ \A r \in Requests : approvals'[r] # "pending"
BY DEF CompleteJob, StoreKept

LEMMA StoreSteps ==
  ASSUME TypeInv, Next, ~RequestPending, ~DecisionStored
  PROVE  StoreKept
<1> USE DEF store
<1>a. ASSUME approvals' = approvals PROVE StoreKept
  BY <1>a DEF StoreKept
<1>1. ASSUME NEW f \in Flows, FlowStep(f) \/ FlowFails(f) PROVE StoreKept
  <2>1. CASE Catch(f)
    BY <1>a, <2>1, CompleteKeeps DEF Catch
  <2>2. CASE ~Catch(f)
    BY <1>a, <1>1, <2>2 DEF FlowStep, OpenThread, StartTurn, ProjectStart, FlowFails
  <2> QED BY <2>1, <2>2
<1>2. CASE HandleLine
  <2>1. TurnResponse(wire[1]) \/ Notify(wire[1]) \/ AskApproval(wire[1]) \/ History(wire[1])
    BY <1>2, LineShape DEF TypeInv, WireOK
  <2> QED BY <1>a, <2>1 DEF TurnResponse, Notify, AskApproval, History
<1>3. CASE TurnSettles \/ CancelSettles \/ HistorySettles \/ ExitSettles
  BY <1>3, CompleteKeeps DEF TurnSettles, CancelSettles, HistorySettles, ExitSettles
<1>4. CASE NewsStep /\ ~TurnSettles
  BY <1>a, <1>4 DEF NewsStep, NotificationIgnored, TurnStarted, TextArrived, TurnEnded, NotificationFails
<1>5. CASE RequestStep
  BY <1>a, <1>5 DEF RequestStep, RequestDeclined, RequestGoesLive, RequestProjected, RequestFails
<1>6. CASE DecideStep
  BY <1>a, <1>6 DEF DecideStep, DecisionRefused, DecisionSent, DecisionFails
<1>7. CASE CancelStep /\ ~CancelSettles
  BY <1>a, <1>7 DEF CancelStep, CancelRead, CancelInterrupts, CancelConfirmed, CancelFails
<1>8. CASE SendStep
  BY <1>a, <1>8 DEF SendStep, MessageRead, MessageSteers, MessagePrepares
<1>9. CASE TakeBaseline \/ HistoryRefused \/ HistoryApplied
  BY <1>a, <1>9 DEF TakeBaseline, HistoryRefused, HistoryApplied
<1>10. CASE Operator
  BY <1>a, <1>10 DEF Operator, Decide, Cancel, SendMessage, Recover
<1>11. CASE AppServer
  BY <1>a, <1>11 DEF AppServer, NativeStart, NativeSays, NativeAsks, NativeEnds, Exit
<1>12. CASE ReadHistory \/ AnswerHistory \/ ReadFails \/ ExitProjects \/ Rest
  BY <1>a, <1>12 DEF ReadHistory, AnswerHistory, ReadFails, ExitProjects, Rest, vars
<1> QED
  BY <1>1, <1>2, <1>3, <1>4, <1>5, <1>6, <1>7, <1>8, <1>9, <1>10, <1>11, <1>12, Steps
  DEF ApplyStep

LEMMA AnswerSteps ==
  ASSUME TypeInv, Next, ~TouchesRequest
  PROVE  UNCHANGED <<asker, gone, answers, live>> /\ (ready => ready')
<1> USE DEF maps, server
<1>1. ASSUME NEW f \in Flows, FlowStep(f) \/ FlowFails(f)
      PROVE  UNCHANGED <<asker, gone, answers, live>> /\ (ready => ready')
  BY <1>1 DEF FlowStep, OpenThread, StartTurn, ProjectStart, Catch, FlowFails
<1>2. CASE HandleLine
  <2>1. /\ TurnResponse(wire[1]) \/ Notify(wire[1]) \/ History(wire[1])
        /\ UNCHANGED <<asker, gone, ready>>
    BY <1>2, LineShape DEF TypeInv, WireOK, TouchesRequest
  <2> QED BY <2>1 DEF TurnResponse, Notify, History
<1>3. CASE NewsStep \/ TakeBaseline \/ ApplyStep
  BY <1>3, NewsShape, BaselineShape, ApplyShape DEF TypeInv
<1>4. CASE DecisionRefused \/ DecisionFails
  BY <1>4 DEF DecisionRefused, DecisionFails
<1>5. CASE CancelStep
  BY <1>5, CancelShape DEF TypeInv
<1>6. CASE SendStep
  <2>1. ready => (ready \/ turn # 0)
    OBVIOUS
  <2>2. ready \in BOOLEAN /\ (ready \/ turn # 0) \in BOOLEAN
    BY DEF TypeInv, ServerOK
  <2> QED BY <1>6, <2>1, <2>2 DEF SendStep, MessageRead, MessageSteers, MessagePrepares
<1>7. CASE Operator
  BY <1>7, OperatorShape
<1>8. CASE AppServer
  <2>1. ASSUME NEW f \in Flows, NEW t \in Turns, NativeStart(f, t)
        PROVE  UNCHANGED <<asker, gone, answers, live, ready>>
    BY <2>1 DEF NativeStart
  <2>2. ASSUME NEW t \in Turns, NativeSays(t) \/ NativeEnds(t)
        PROVE  UNCHANGED <<asker, gone, answers, live, ready>>
    BY <2>2 DEF NativeSays, NativeEnds
  <2> QED BY <1>8, <2>1, <2>2 DEF AppServer, TouchesRequest
<1>9. CASE ReadHistory \/ AnswerHistory \/ ReadFails \/ ExitProjects \/ ExitSettles \/ Rest
  BY <1>9 DEF ReadHistory, AnswerHistory, ReadFails, ExitProjects, ExitSettles, Rest, vars
<1> QED BY <1>1, <1>2, <1>3, <1>4, <1>5, <1>6, <1>7, <1>8, <1>9, Steps DEF TouchesRequest, DecideStep

LEMMA RequestCarries ==
  ASSUME TypeInv, Next, ~TouchesRequest
  PROVE  Carries(queue, queue', {"request"}) /\ Carries(wire, wire', {"request"})
<1> USE DEF TypeInv
<1>1. Carries(queue, queue', {"request"})
  <2>1. \/ queue' = queue
        \/ QueueStep(News) \/ QueueStep({"decide"}) \/ QueueStep({"cancel"})
        \/ QueueStep({"send"}) \/ QueueStep({"baseline"}) \/ QueueStep({"apply"})
        \/ HandleLine
    BY QueueKinds DEF TouchesRequest
  <2>2. ASSUME queue' = queue PROVE Carries(queue, queue', {"request"})
    <3>1. QueueStep({}) /\ {} \cap {"request"} = {}
      BY <2>2 DEF QueueStep
    <3> QED BY <3>1, QueueCarries
  <2>3. CASE QueueStep(News) \/ QueueStep({"decide"}) \/ QueueStep({"cancel"})
        \/ QueueStep({"send"}) \/ QueueStep({"baseline"}) \/ QueueStep({"apply"})
    BY <2>3, QueueCarries DEF News
  <2>4. CASE HandleLine
    <3>1. /\ wire[1] \in Lines
          /\ \/ TurnResponse(wire[1])
             \/ wire[1].kind \in News /\ Notify(wire[1])
             \/ wire[1].kind = "history" /\ History(wire[1])
      BY <2>4, LineShape DEF WireOK, TouchesRequest, News
    <3>2. CASE TurnResponse(wire[1])
      BY <2>2, <3>2 DEF TurnResponse
    <3>3. CASE wire[1].kind \in News /\ Notify(wire[1])
      <4>1. QueueStep({wire[1].kind}) /\ {wire[1].kind} \cap {"request"} = {}
        BY <3>1, <3>3, NotifyShape DEF News
      <4> QED BY <4>1, QueueCarries
    <3>4. CASE wire[1].kind = "history" /\ History(wire[1])
      BY <3>1, <3>4, HistoryShape, QueueCarries
    <3> QED BY <3>1, <3>2, <3>3, <3>4
  <2> QED BY <2>1, <2>2, <2>3, <2>4
<1>2. Carries(wire, wire', {"request"})
  <2>0. wire \in Seq(Lines) /\ ~Exit /\ \A t \in Turns, r \in Requests : ~NativeAsks(t, r)
    BY DEF WireOK, TouchesRequest
  <2>1. CASE wire' = wire
    <3>1. WireStep({}) /\ {} \cap {"request"} = {}
      BY <2>1 DEF WireStep
    <3> QED BY <2>0, <3>1, WireCarries
  <2>2. CASE HandleLine
    <3>1. WireStep({wire[1].kind}) /\ {wire[1].kind} \cap {"request"} = {}
      BY <2>0, <2>2, LineShape DEF TouchesRequest
    <3> QED BY <2>0, <3>1, WireCarries
  <2>3. ASSUME NEW f \in Flows, NEW t \in Turns, NativeStart(f, t) PROVE Carries(wire, wire', {"request"})
    BY <2>0, <2>3, StartCarries
  <2>4. ASSUME NEW t \in Turns, NativeSays(t) \/ NativeEnds(t) PROVE Carries(wire, wire', {"request"})
    BY <2>0, <2>4, SaysShape, EndsShape, WireCarries
  <2>5. CASE CancelInterrupts
    BY <2>0, <2>5, InterruptShape, WireCarries
  <2>6. CASE AnswerHistory
    BY <2>0, <2>6, AnswerShape, WireCarries
  <2> QED BY <2>0, <2>1, <2>2, <2>3, <2>4, <2>5, <2>6, WireKinds DEF Writes
<1> QED BY <1>1, <1>2

(* One request among the others *)
CarriesOf(s, z, r) ==
  \E d \in {0, 1} :
    /\ \A i \in DOMAIN z : IsRequest(z[i], r) => i + d \in DOMAIN s /\ z[i] = s[i + d]
    /\ \A i \in DOMAIN s : IsRequest(s[i], r) => i - d \in DOMAIN z /\ z[i - d] = s[i]
Nowhere(s, r) == \A i \in DOMAIN s : ~IsRequest(s[i], r)

LEMMA CarriesOfAll ==
  ASSUME NEW s, NEW z, NEW r, Carries(s, z, {"request"})
  PROVE  CarriesOf(s, z, r)
BY DEF Carries, CarriesOf, IsRequest

LEMMA SameOf ==
  ASSUME NEW S, NEW s \in Seq(S), NEW r
  PROVE  CarriesOf(s, s, r)
<1>1. \A i \in DOMAIN s : i + 0 = i /\ i - 0 = i
  OBVIOUS
<1>2. /\ \A i \in DOMAIN s : IsRequest(s[i], r) => i + 0 \in DOMAIN s /\ s[i] = s[i + 0]
      /\ \A i \in DOMAIN s : IsRequest(s[i], r) => i - 0 \in DOMAIN s /\ s[i - 0] = s[i]
  BY <1>1
<1> QED BY <1>2 DEF CarriesOf

LEMMA TailOf ==
  ASSUME NEW S, NEW s \in Seq(S), s # <<>>, NEW r
  PROVE  /\ ~IsRequest(s[1], r) => CarriesOf(s, Tail(s), r)
         /\ (\A i \in DOMAIN s : IsRequest(s[i], r) => i = 1) => Nowhere(Tail(s), r)
<1>1. PICK z : z = Tail(s)
  OBVIOUS
<1>2. /\ \A i \in DOMAIN z : z[i] = s[i + 1] /\ i + 1 \in DOMAIN s
      /\ \A i \in DOMAIN s : i # 1 => i - 1 \in DOMAIN z /\ z[i - 1] = s[i]
      /\ DOMAIN z = 1 .. (Len(s) - 1) /\ Len(s) \in Nat
  BY <1>1, Rest1
<1>3. \A i \in DOMAIN z : i + 1 # 1
  BY <1>2
<1>4. ASSUME ~IsRequest(s[1], r) PROVE CarriesOf(s, z, r)
  <2>1. /\ \A i \in DOMAIN z : IsRequest(z[i], r) => i + 1 \in DOMAIN s /\ z[i] = s[i + 1]
        /\ \A i \in DOMAIN s : IsRequest(s[i], r) => i - 1 \in DOMAIN z /\ z[i - 1] = s[i]
    BY <1>2, <1>4
  <2> QED BY <2>1 DEF CarriesOf
<1>5. ASSUME \A i \in DOMAIN s : IsRequest(s[i], r) => i = 1 PROVE Nowhere(z, r)
  BY <1>2, <1>3, <1>5 DEF Nowhere
<1> QED BY <1>1, <1>4, <1>5

LEMMA AppendOf ==
  ASSUME NEW S, NEW s \in Seq(S), NEW e \in S, NEW r
  PROVE  ~IsRequest(e, r) => CarriesOf(s, Append(s, e), r)
<1>1. PICK z : z = Append(s, e)
  OBVIOUS
<1>2. /\ DOMAIN z = DOMAIN s \cup {Len(s) + 1} /\ z[Len(s) + 1] = e
      /\ \A i \in DOMAIN s : z[i] = s[i]
  BY <1>1, Appended
<1>3. \A i \in DOMAIN s : i + 0 = i /\ i - 0 = i
  OBVIOUS
<1>4. ASSUME ~IsRequest(e, r) PROVE CarriesOf(s, z, r)
  <2>1. /\ \A i \in DOMAIN z : IsRequest(z[i], r) => i + 0 \in DOMAIN s /\ z[i] = s[i + 0]
        /\ \A i \in DOMAIN s : IsRequest(s[i], r) => i - 0 \in DOMAIN z /\ z[i - 0] = s[i]
    BY <1>2, <1>3, <1>4
  <2> QED BY <2>1 DEF CarriesOf
<1> QED BY <1>1, <1>4

LEMMA HeadOf ==
  ASSUME NEW S, NEW s \in Seq(S), s # <<>>, NEW e \in S, NEW r, ~IsRequest(s[1], r), ~IsRequest(e, r)
  PROVE  CarriesOf(s, [s EXCEPT ![1] = e], r)
<1>1. PICK z : z = [s EXCEPT ![1] = e]
  OBVIOUS
<1>2. /\ DOMAIN z = DOMAIN s /\ z[1] = e
      /\ \A i \in DOMAIN s : i # 1 => z[i] = s[i]
  BY <1>1, NewHead
<1>3. \A i \in DOMAIN s : i + 0 = i /\ i - 0 = i
  OBVIOUS
<1>4. /\ \A i \in DOMAIN z : IsRequest(z[i], r) => i + 0 \in DOMAIN s /\ z[i] = s[i + 0]
      /\ \A i \in DOMAIN s : IsRequest(s[i], r) => i - 0 \in DOMAIN z /\ z[i - 0] = s[i]
  BY <1>2, <1>3
<1> QED BY <1>1, <1>4 DEF CarriesOf

(* A request that the step is not about is where it was *)
LEMMA PlaceKept ==
  ASSUME TypeInv, QueueOK', WireOK', NEW r, PlaceOf(r), KeptOf(r),
         asker'[r] = asker[r], answers'[r] = answers[r],
         r \in gone' <=> r \in gone, r \in live' <=> r \in live, ready => ready',
         approvals[r] = "none" => approvals'[r] = "none",
         CarriesOf(queue, queue', r), CarriesOf(wire, wire', r)
  PROVE  PlaceOf(r)' /\ KeptOf(r)'
<1> USE DEF TypeInv
<1>0. /\ \A i \in DOMAIN queue' : i \in Int
      /\ \A i \in DOMAIN wire' : i \in Int
  BY DEF QueueOK, WireOK
<1>1. PICK d \in {0, 1} :
        /\ \A i \in DOMAIN queue' : IsRequest(queue'[i], r) => i + d \in DOMAIN queue /\ queue'[i] = queue[i + d]
        /\ \A i \in DOMAIN queue : IsRequest(queue[i], r) => i - d \in DOMAIN queue' /\ queue'[i - d] = queue[i]
  BY DEF CarriesOf
<1>2. PICK c \in {0, 1} :
        /\ \A i \in DOMAIN wire' : IsRequest(wire'[i], r) => i + c \in DOMAIN wire /\ wire'[i] = wire[i + c]
        /\ \A i \in DOMAIN wire : IsRequest(wire[i], r) => i - c \in DOMAIN wire' /\ wire'[i - c] = wire[i]
  BY DEF CarriesOf
<1>3. Waits(r)' <=> Waits(r)
  BY DEF Waits
<1>4. /\ asker'[r] = 0 => NeverAsked(r)'
      /\ asker'[r] # 0 /\ r \notin gone' => ready'
      /\ r \in live' => Waits(r)'
  BY <1>3 DEF PlaceOf, NeverAsked
<1>5. ASSUME NEW i \in DOMAIN wire', IsRequest(wire'[i], r)
      PROVE  /\ Waits(r)' /\ r \notin live'
             /\ \A j \in DOMAIN wire' : IsRequest(wire'[j], r) => j = i
             /\ \A j \in DOMAIN queue' : ~IsRequest(queue'[j], r)
  <2>1. i + c \in DOMAIN wire /\ IsRequest(wire[i + c], r)
    BY <1>2, <1>5
  <2>2. /\ Waits(r) /\ r \notin live
        /\ \A j \in DOMAIN wire : IsRequest(wire[j], r) => j = i + c
        /\ \A j \in DOMAIN queue : ~IsRequest(queue[j], r)
    BY <2>1 DEF PlaceOf
  <2>3. ASSUME NEW j \in DOMAIN wire', IsRequest(wire'[j], r) PROVE j = i
    <3>1. j + c \in DOMAIN wire /\ IsRequest(wire[j + c], r)
      BY <1>2, <2>3
    <3>2. j + c = i + c
      BY <2>2, <3>1
    <3> QED BY <1>0, <3>2
  <2> QED BY <1>1, <1>3, <2>2, <2>3
<1>6. ASSUME NEW i \in DOMAIN queue', IsRequest(queue'[i], r)
      PROVE  /\ Waits(r)'
             /\ IF queue'[i].at = "check" THEN r \notin live' ELSE r \in live' \cup gone'
             /\ \A j \in DOMAIN queue' : IsRequest(queue'[j], r) => j = i
  <2>1. i + d \in DOMAIN queue /\ IsRequest(queue[i + d], r) /\ queue'[i] = queue[i + d]
    BY <1>1, <1>6
  <2>2. /\ Waits(r)
        /\ IF queue[i + d].at = "check" THEN r \notin live ELSE r \in live \cup gone
        /\ \A j \in DOMAIN queue : IsRequest(queue[j], r) => j = i + d
    BY <2>1 DEF PlaceOf
  <2>3. ASSUME NEW j \in DOMAIN queue', IsRequest(queue'[j], r) PROVE j = i
    <3>1. j + d \in DOMAIN queue /\ IsRequest(queue[j + d], r)
      BY <1>1, <2>3
    <3>2. j + d = i + d
      BY <2>2, <3>1
    <3> QED BY <1>0, <3>2
  <2> QED BY <1>3, <2>1, <2>2, <2>3
<1>7. PlaceOf(r)'
  BY <1>4, <1>5, <1>6 DEF PlaceOf, IsRequest
<1>8. KeptOf(r)'
  <2>1. Unanswered(r)' => Unanswered(r)
    BY DEF Unanswered
  <2>2. InWire("request", r) => InWire("request", r)'
    BY <1>2 DEF InWire, IsRequest
  <2>3. InQueue("request", r) => InQueue("request", r)'
    BY <1>1 DEF InQueue, IsRequest
  <2> QED BY <2>1, <2>2, <2>3 DEF KeptOf
<1> QED BY <1>7, <1>8

LEMMA PlacedNowhere ==
  ASSUME NEW r, asker'[r] = 0 => NeverAsked(r)', asker'[r] # 0 /\ r \notin gone' => ready',
         r \in live' => Waits(r)', Nowhere(queue', r), Nowhere(wire', r),
         Unanswered(r)' => r \in live'
  PROVE  PlaceOf(r)' /\ KeptOf(r)'
BY DEF PlaceOf, KeptOf, Nowhere, IsRequest

(* The request whose task holds the lock *)
LEMMA HeadRequest ==
  ASSUME TypeInv, PlaceInv, queue # <<>>, Task.kind = "request"
  PROVE  /\ Task.request \in Requests /\ IsRequest(queue[1], Task.request) /\ 1 \in DOMAIN queue
         /\ asker[Task.request] # 0 /\ answers[Task.request] = <<>>
         /\ IF Task.at = "check" THEN Task.request \notin live ELSE Task.request \in live \cup gone
         /\ \A i \in DOMAIN queue : IsRequest(queue[i], Task.request) => i = 1
         /\ Nowhere(wire, Task.request)
         /\ Task.request \notin gone => ready
<1>1. Task.request \in Requests /\ 1 \in DOMAIN queue
  BY LineTask, QueueParts DEF TypeInv
<1>2. PICK r \in Requests : r = Task.request
  BY <1>1
<1>3. IsRequest(queue[1], r)
  BY <1>2 DEF IsRequest, Task
<1>4. PlaceOf(r)
  BY DEF PlaceInv
<1>5. /\ Waits(r)
      /\ IF queue[1].at = "check" THEN r \notin live ELSE r \in live \cup gone
      /\ \A i \in DOMAIN queue : IsRequest(queue[i], r) => i = 1
  BY <1>1, <1>3, <1>4 DEF PlaceOf
<1>6. Nowhere(wire, r)
  BY <1>1, <1>3, <1>4 DEF PlaceOf, Nowhere
<1>7. r \notin gone => ready
  BY <1>4, <1>5 DEF PlaceOf, Waits
<1> QED BY <1>1, <1>2, <1>3, <1>5, <1>6, <1>7 DEF Waits, Task

(* The others, when the task at the head leaves or moves *)
LEMMA OthersKept ==
  ASSUME TypeInv, QueueOK', WireOK', PlaceInv, KeptInv, UNCHANGED <<wire, asker, gone>>, ready => ready', queue # <<>>,
         NEW r \in Requests, ~IsRequest(queue[1], r), answers'[r] = answers[r], r \in live' <=> r \in live,
         approvals[r] = "none" => approvals'[r] = "none",
         \/ queue' = Tail(queue)
         \/ \E e \in Tasks : queue' = [queue EXCEPT ![1] = e] /\ ~IsRequest(e, r)
  PROVE  PlaceOf(r)' /\ KeptOf(r)'
<1>0. queue \in Seq(Tasks) /\ wire \in Seq(Lines)
  BY DEF TypeInv, QueueOK, WireOK
<1>1. CarriesOf(queue, queue', r)
  <2>1. CASE queue' = Tail(queue)
    BY <1>0, <2>1, TailOf
  <2>2. ASSUME NEW e \in Tasks, queue' = [queue EXCEPT ![1] = e], ~IsRequest(e, r) PROVE CarriesOf(queue, queue', r)
    BY <1>0, <2>2, HeadOf
  <2> QED BY <2>1, <2>2
<1>2. CarriesOf(wire, wire', r)
  BY <1>0, SameOf
<1>3. PlaceOf(r) /\ KeptOf(r)
  BY DEF PlaceInv, KeptInv
<1> QED BY <1>1, <1>2, <1>3, PlaceKept

LEMMA AnswersKept ==
  ASSUME AnswersOK, NEW r \in Requests, NEW d \in {"accept", "decline"}, Respond(r, d), answers[r] = <<>>
  PROVE  /\ AnswersOK' /\ \A q \in Requests : q # r => answers'[q] = answers[q]
         /\ ready /\ r \notin gone => answers'[r] = <<d>>
         /\ ~ready \/ r \in gone => answers' = answers
<1>1. Append(answers[r], d) = <<d>>
  OBVIOUS
<1>2. answers \in [Requests -> {<<>>, <<"accept">>, <<"decline">>}] /\ <<d>> \in {<<>>, <<"accept">>, <<"decline">>}
  BY DEF AnswersOK
<1>3. CASE ready /\ r \notin gone
  <2>1. answers' = [answers EXCEPT ![r] = <<d>>]
    BY <1>1, <1>3 DEF Respond
  <2> QED BY <1>2, <1>3, <2>1 DEF AnswersOK
<1>4. CASE ~(ready /\ r \notin gone)
  BY <1>2, <1>4 DEF Respond, AnswersOK
<1> QED BY <1>3, <1>4

LEMMA RequestsPlaced ==
  ASSUME TypeInv, QueueOK', WireOK', PlaceInv, KeptInv, RequestStep
  PROVE  AnswersOK' /\ PlaceInv' /\ KeptInv'
<1> USE DEF TypeInv, store, maps, server
<1>0. /\ queue # <<>> /\ Task.kind = "request" /\ UNCHANGED <<wire, asker, gone, ready>>
      /\ queue \in Seq(Tasks)
  BY RequestShape DEF QueueOK
<1>1. PICK r0 \in Requests : r0 = Task.request
  BY <1>0, HeadRequest
<1>2. /\ IsRequest(queue[1], r0) /\ 1 \in DOMAIN queue
      /\ asker[r0] # 0 /\ answers[r0] = <<>>
      /\ IF Task.at = "check" THEN r0 \notin live ELSE r0 \in live \cup gone
      /\ \A i \in DOMAIN queue : IsRequest(queue[i], r0) => i = 1
      /\ Nowhere(wire, r0)
      /\ r0 \notin gone => ready
  BY <1>0, <1>1, HeadRequest
<1>3. \A r \in Requests : r # r0 => ~IsRequest(queue[1], r)
  BY <1>2 DEF IsRequest
<1>4. ASSUME Release PROVE queue' = Tail(queue) /\ Nowhere(queue', r0)
  BY <1>0, <1>2, <1>4, TailOf DEF Release
<1>5. AnswersOK'
  <2>1. CASE RequestDeclined \/ RequestFails
    <3>1. Respond(r0, "decline")
      BY <1>1, <2>1 DEF RequestDeclined, RequestFails
    <3> QED BY <1>2, <3>1, AnswersKept
  <2>2. CASE RequestGoesLive \/ RequestPending \/ RequestProjected
    BY <2>2 DEF RequestGoesLive, RequestPending, RequestProjected, AnswersOK
  <2> QED BY <2>1, <2>2 DEF RequestStep
<1>6. ASSUME NEW r \in Requests, r # r0 PROVE PlaceOf(r)' /\ KeptOf(r)'
  <2>1. answers'[r] = answers[r]
    <3>1. CASE RequestDeclined \/ RequestFails
      <4>1. Respond(r0, "decline")
        BY <1>1, <3>1 DEF RequestDeclined, RequestFails
      <4> QED BY <1>2, <1>6, <4>1, AnswersKept
    <3>2. CASE RequestGoesLive \/ RequestPending \/ RequestProjected
      BY <3>2 DEF RequestGoesLive, RequestPending, RequestProjected
    <3> QED BY <3>1, <3>2 DEF RequestStep
  <2>2. r \in live' <=> r \in live
    BY <1>1, <1>6 DEF RequestStep, RequestDeclined, RequestFails, RequestGoesLive, RequestPending, RequestProjected
  <2>3. approvals[r] = "none" => approvals'[r] = "none"
    BY <1>1, <1>6 DEF RequestStep, RequestDeclined, RequestFails, RequestGoesLive, RequestPending, RequestProjected, RecordOK
  <2>4. \/ queue' = Tail(queue)
        \/ \E e \in Tasks : queue' = [queue EXCEPT ![1] = e] /\ ~IsRequest(e, r)
    <3>1. CASE RequestDeclined \/ RequestFails \/ RequestProjected
      BY <1>4, <3>1 DEF RequestDeclined, RequestFails, RequestProjected
    <3>2. CASE RequestGoesLive \/ RequestPending
      <4>1. PICK e \in Tasks : SameTask(e, Task) /\ queue' = [queue EXCEPT ![1] = e]
        BY <3>2, RequestShape DEF RequestStep, Moved
      <4>2. ~IsRequest(e, r)
        BY <1>0, <1>1, <1>6, <4>1 DEF SameTask, IsRequest
      <4> QED BY <4>1, <4>2
    <3> QED BY <3>1, <3>2 DEF RequestStep
  <2> QED BY <1>0, <1>3, <1>6, <2>1, <2>2, <2>3, <2>4, OthersKept
<1>7. PlaceOf(r0)' /\ KeptOf(r0)'
  <2>0. Nowhere(wire', r0) /\ asker'[r0] # 0 /\ (r0 \notin gone' => ready')
    BY <1>0, <1>2
  <2>1. CASE RequestDeclined
    <3>1. Nowhere(queue', r0) /\ live' = live /\ Task.at = "check" /\ Respond(r0, "decline")
      BY <1>1, <1>4, <2>1 DEF RequestDeclined, Holds, Task
    <3>2. Unanswered(r0)' => FALSE
      <4>1. r0 \notin gone => answers'[r0] = <<"decline">>
        BY <1>2, <3>1, AnswersKept
      <4>2. <<"decline">> # <<>>
        OBVIOUS
      <4> QED BY <1>0, <4>1, <4>2 DEF Unanswered
    <3> QED BY <1>2, <2>0, <3>1, <3>2, PlacedNowhere
  <2>2. CASE RequestFails
    <3>1. Nowhere(queue', r0) /\ r0 \notin live' /\ Respond(r0, "decline")
      BY <1>1, <1>4, <2>2 DEF RequestFails
    <3>2. Unanswered(r0)' => FALSE
      <4>1. r0 \notin gone => answers'[r0] = <<"decline">>
        BY <1>2, <3>1, AnswersKept
      <4>2. <<"decline">> # <<>>
        OBVIOUS
      <4> QED BY <1>0, <4>1, <4>2 DEF Unanswered
    <3> QED BY <2>0, <3>1, <3>2, PlacedNowhere
  <2>3. CASE RequestProjected
    <3>1. Nowhere(queue', r0) /\ live' = live /\ answers' = answers /\ Task.at # "check"
      BY <1>1, <1>4, <2>3 DEF RequestProjected, Holds, Task
    <3>2. Waits(r0)'
      BY <1>0, <1>2, <3>1 DEF Waits
    <3>3. Unanswered(r0)' => r0 \in live'
      BY <1>0, <1>2, <3>1 DEF Unanswered
    <3> QED BY <2>0, <3>1, <3>2, <3>3, PlacedNowhere
  <2>4. CASE RequestGoesLive \/ RequestPending
    <3>1. PICK e \in Tasks : /\ e.at # "check" /\ SameTask(e, Task) /\ queue' = [queue EXCEPT ![1] = e]
      <4>1. "add" # "check" /\ "project" # "check"
        OBVIOUS
      <4> QED BY <2>4, <4>1, RequestShape DEF RequestStep, Moved
    <3>2. answers' = answers /\ r0 \in live' \cup gone'
      <4>1. CASE RequestGoesLive
        BY <1>1, <4>1 DEF RequestGoesLive
      <4>2. CASE RequestPending
        BY <1>0, <1>2, <4>2 DEF RequestPending, Holds, Task
      <4> QED BY <2>4, <4>1, <4>2
    <3>3. IsRequest(e, r0)
      BY <1>0, <1>1, <3>1 DEF SameTask, IsRequest
    <3>4. DOMAIN queue' = DOMAIN queue /\ queue'[1] = e /\ \A i \in DOMAIN queue : i # 1 => queue'[i] = queue[i]
      BY <1>0, <3>1, NewHead
    <3>5. \A i \in DOMAIN queue' : IsRequest(queue'[i], r0) => i = 1
      BY <1>2, <3>4
    <3>6. Waits(r0)'
      BY <1>0, <1>2, <3>2 DEF Waits
    <3>7. /\ \A i \in DOMAIN queue' : IsRequest(queue'[i], r0) =>
               /\ queue'[i].at # "check"
               /\ \A j \in DOMAIN queue' : IsRequest(queue'[j], r0) => j = i
      BY <3>1, <3>4, <3>5
    <3>8. PlaceOf(r0)'
      BY <2>0, <3>2, <3>6, <3>7 DEF PlaceOf, Nowhere, IsRequest
    <3>9. KeptOf(r0)'
      BY <1>2, <3>3, <3>4 DEF KeptOf, InQueue, IsRequest
    <3> QED BY <3>8, <3>9
  <2> QED BY <2>1, <2>2, <2>3, <2>4 DEF RequestStep
<1> QED BY <1>5, <1>6, <1>7 DEF PlaceInv, KeptInv

LEMMA SameShift ==
  ASSUME NEW i \in Int, NEW j \in Int, NEW d \in {0, 1}, j + d = i + d
  PROVE  j = i
OBVIOUS

LEMMA AskPlaced ==
  ASSUME TypeInv, QueueOK', WireOK', PlaceInv, KeptInv, HandleLine, wire[1].kind = "request"
  PROVE  AnswersOK' /\ PlaceInv' /\ KeptInv'
<1> USE DEF TypeInv, store, maps
<1>0. /\ wire # <<>> /\ wire[1] \in Lines /\ wire' = Tail(wire) /\ AskApproval(wire[1])
      /\ UNCHANGED <<ready, asker, gone>> /\ 1 \in DOMAIN wire /\ wire \in Seq(Lines) /\ queue \in Seq(Tasks)
  BY LineShape, Rest1 DEF WireOK, QueueOK
<1>1. PICK r0 \in Requests : r0 = wire[1].request
  BY <1>0, AskShape
<1>2. IsRequest(wire[1], r0)
  BY <1>1 DEF IsRequest
<1>3. /\ asker[r0] # 0 /\ answers[r0] = <<>> /\ r0 \notin live /\ (r0 \notin gone => ready)
      /\ \A j \in DOMAIN wire : IsRequest(wire[j], r0) => j = 1
      /\ Nowhere(queue, r0)
  BY <1>0, <1>2 DEF PlaceInv, PlaceOf, Waits, Nowhere
<1>4. Nowhere(wire', r0) /\ live' = live /\ approvals' = approvals
  BY <1>0, <1>3, TailOf DEF AskApproval
<1>5. ASSUME NEW r \in Requests, r # r0 PROVE CarriesOf(wire, wire', r) /\ PlaceOf(r) /\ KeptOf(r)
  <2>1. ~IsRequest(wire[1], r)
    BY <1>1, <1>5 DEF IsRequest
  <2> QED BY <1>0, <2>1, TailOf DEF PlaceInv, KeptInv
<1>6. CASE Mapped(wire[1].turn)
  <2>1. answers' = answers
    BY <1>0, <1>6 DEF AskApproval
  <2>2. PICK e \in Tasks : e.at = "check" /\ queue' = Append(queue, e) /\ e.kind = "request" /\ e.request = r0
    BY <1>0, <1>1, <1>6, AskShape DEF Queued
  <2>3. ASSUME NEW r \in Requests, r # r0 PROVE PlaceOf(r)' /\ KeptOf(r)'
    <3>1. CarriesOf(queue, queue', r)
      BY <1>0, <2>2, <2>3, AppendOf DEF IsRequest
    <3> QED BY <1>0, <1>4, <1>5, <2>1, <2>3, <3>1, PlaceKept
  <2>4. /\ DOMAIN queue' = DOMAIN queue \cup {Len(queue) + 1} /\ queue'[Len(queue) + 1] = e
        /\ \A i \in DOMAIN queue : queue'[i] = queue[i]
    BY <1>0, <2>2, Appended
  <2>5. /\ \A i \in DOMAIN queue' : IsRequest(queue'[i], r0) => i = Len(queue) + 1
        /\ IsRequest(queue'[Len(queue) + 1], r0)
    BY <1>3, <2>2, <2>4 DEF Nowhere, IsRequest
  <2>6. Waits(r0)'
    BY <1>0, <1>3, <2>1 DEF Waits
  <2>7. PlaceOf(r0)'
    BY <1>0, <1>3, <1>4, <2>2, <2>4, <2>5, <2>6 DEF PlaceOf, Nowhere, IsRequest
  <2>8. KeptOf(r0)'
    BY <2>4, <2>5 DEF KeptOf, InQueue, IsRequest
  <2>9. AnswersOK'
    BY <2>1 DEF AnswersOK
  <2> QED BY <2>3, <2>7, <2>8, <2>9 DEF PlaceInv, KeptInv
<1>7. CASE ~Mapped(wire[1].turn)
  <2>1. queue' = queue /\ Respond(r0, "decline")
    BY <1>0, <1>1, <1>7, AskShape
  <2>2. AnswersOK' /\ \A q \in Requests : q # r0 => answers'[q] = answers[q]
    BY <1>3, <2>1, AnswersKept
  <2>3. ASSUME NEW r \in Requests, r # r0 PROVE PlaceOf(r)' /\ KeptOf(r)'
    <3>1. CarriesOf(queue, queue', r)
      BY <1>0, <2>1, SameOf
    <3> QED BY <1>0, <1>4, <1>5, <2>2, <2>3, <3>1, PlaceKept
  <2>4. Unanswered(r0)' => FALSE
    <3>1. r0 \notin gone => answers'[r0] = <<"decline">>
      BY <1>3, <2>1, AnswersKept
    <3>2. <<"decline">> # <<>>
      OBVIOUS
    <3> QED BY <1>0, <3>1, <3>2 DEF Unanswered
  <2>5. PlaceOf(r0)' /\ KeptOf(r0)'
    BY <1>0, <1>3, <1>4, <2>1, <2>4, PlacedNowhere
  <2> QED BY <2>2, <2>3, <2>5 DEF PlaceInv, KeptInv
<1> QED BY <1>6, <1>7

LEMMA SentPlaced ==
  ASSUME TypeInv, QueueOK', WireOK', PlaceInv, KeptInv, DecisionSent
  PROVE  AnswersOK' /\ PlaceInv' /\ KeptInv'
<1> USE DEF TypeInv, store, maps, server
<1>0. /\ queue # <<>> /\ Task.kind = "decide" /\ UNCHANGED <<wire, asker, gone, ready>>
      /\ queue \in Seq(Tasks) /\ 1 \in DOMAIN queue
  BY DecideShape, QueueParts DEF QueueOK, DecideStep
<1>1. PICK r0 \in Requests : r0 = Task.request
  BY <1>0, LineTask
<1>2. PICK d \in {"accept", "decline"} : d = Task.decision
  BY <1>0, LineTask
<1>3. Respond(r0, d) /\ live' = live \ {r0} /\ r0 \in live /\ approvals' = approvals
  BY <1>1, <1>2 DEF DecisionSent
<1>4. asker[r0] # 0 /\ answers[r0] = <<>> /\ (r0 \notin gone => ready) /\ Nowhere(wire, r0)
  BY <1>3 DEF PlaceInv, PlaceOf, Waits, Nowhere
<1>5. Nowhere(queue, r0)
  <2> SUFFICES ASSUME NEW i \in DOMAIN queue, IsRequest(queue[i], r0) PROVE FALSE
    BY DEF Nowhere
  <2>1. queue[i].at # "check"
    BY <1>3 DEF PlaceInv, PlaceOf
  <2>2. i = 1
    BY <2>1 DEF QueueOK
  <2> QED BY <1>0, <2>2 DEF IsRequest, Task
<1>6. AnswersOK' /\ (\A q \in Requests : q # r0 => answers'[q] = answers[q]) /\ (r0 \notin gone => answers'[r0] = <<d>>)
  BY <1>4, <1>3, AnswersKept
<1>7. PICK e \in Tasks : SameTask(e, Task) /\ queue' = [queue EXCEPT ![1] = e]
  BY DecideShape DEF DecideStep, Moved
<1>8. \A r \in Requests : ~IsRequest(e, r) /\ ~IsRequest(queue[1], r)
  BY <1>0, <1>7 DEF SameTask, IsRequest, Task
<1>9. ASSUME NEW r \in Requests, r # r0 PROVE PlaceOf(r)' /\ KeptOf(r)'
  BY <1>0, <1>3, <1>6, <1>7, <1>8, <1>9, OthersKept
<1>10. PlaceOf(r0)' /\ KeptOf(r0)'
  <2>1. Nowhere(queue', r0)
    <3>1. DOMAIN queue' = DOMAIN queue /\ queue'[1] = e /\ \A i \in DOMAIN queue : i # 1 => queue'[i] = queue[i]
      BY <1>0, <1>7, NewHead
    <3> QED BY <1>5, <1>8, <3>1 DEF Nowhere
  <2>2. Unanswered(r0)' => FALSE
    <3>1. <<d>> # <<>>
      OBVIOUS
    <3> QED BY <1>0, <1>6, <3>1 DEF Unanswered
  <2> QED BY <1>0, <1>3, <1>4, <2>1, <2>2, PlacedNowhere
<1> QED BY <1>6, <1>9, <1>10 DEF PlaceInv, KeptInv

LEMMA StoredPlaced ==
  ASSUME TypeInv, QueueOK', WireOK', PlaceInv, KeptInv, DecisionStored
  PROVE  AnswersOK' /\ PlaceInv' /\ KeptInv'
<1> USE DEF TypeInv, maps, server
<1>0. /\ queue # <<>> /\ Task.kind = "decide" /\ UNCHANGED <<wire, asker, gone, ready, answers, live>>
      /\ queue' = Tail(queue)
  BY DEF DecisionStored, Holds, Task, Release
<1>1. \A r \in Requests : ~IsRequest(queue[1], r) /\ (approvals[r] = "none" => approvals'[r] = "none")
  <2>1. Task.request \in Requests /\ approvals \in [Requests -> {"none", "pending", "accepted", "declined", "cancelled", "expired"}]
    BY <1>0, LineTask DEF RecordOK
  <2> QED BY <1>0, <2>1 DEF DecisionStored, IsRequest, Task
<1>2. ASSUME NEW r \in Requests PROVE PlaceOf(r)' /\ KeptOf(r)'
  BY <1>0, <1>1, OthersKept
<1>3. AnswersOK'
  BY <1>0 DEF AnswersOK
<1> QED BY <1>2, <1>3 DEF PlaceInv, KeptInv

LEMMA AsksPlaced ==
  ASSUME TypeInv, NativeInv, QueueOK', WireOK', PlaceInv, KeptInv,
         NEW t \in Turns, NEW r0 \in Requests, NativeAsks(t, r0)
  PROVE  AnswersOK' /\ PlaceInv' /\ KeptInv'
<1> USE DEF TypeInv, store, maps
<1>0. /\ UNCHANGED <<queue, gone, ready, answers, live, approvals>> /\ wire \in Seq(Lines) /\ queue \in Seq(Tasks)
      /\ native[t] = "running" /\ asker[r0] = 0 /\ asker' = [asker EXCEPT ![r0] = t]
  BY DEF NativeAsks, WireOK, QueueOK
<1>1. PICK e \in Lines : wire' = Append(wire, e) /\ e.kind = "request" /\ e.request = r0
  BY AsksShape DEF Sent
<1>2. ready /\ t # 0
  BY <1>0 DEF NativeInv, Turns, Flows
<1>3. asker'[r0] = t /\ \A r \in Requests : r # r0 => asker'[r] = asker[r]
  BY <1>0 DEF ServerOK
<1>4. NeverAsked(r0) /\ Nowhere(queue, r0) /\ Nowhere(wire, r0)
  BY <1>0 DEF PlaceInv, PlaceOf, Waits, Nowhere
<1>5. ASSUME NEW r \in Requests, r # r0 PROVE PlaceOf(r)' /\ KeptOf(r)'
  <2>1. CarriesOf(queue, queue', r)
    BY <1>0, SameOf
  <2>2. CarriesOf(wire, wire', r)
    BY <1>0, <1>1, <1>5, AppendOf DEF IsRequest
  <2>3. PlaceOf(r) /\ KeptOf(r)
    BY DEF PlaceInv, KeptInv
  <2> QED BY <1>0, <1>3, <1>5, <2>1, <2>2, <2>3, PlaceKept
<1>6. /\ DOMAIN wire' = DOMAIN wire \cup {Len(wire) + 1} /\ wire'[Len(wire) + 1] = e
      /\ \A i \in DOMAIN wire : wire'[i] = wire[i]
  BY <1>0, <1>1, Appended
<1>7. /\ \A i \in DOMAIN wire' : IsRequest(wire'[i], r0) => i = Len(wire) + 1
      /\ IsRequest(wire'[Len(wire) + 1], r0)
  BY <1>1, <1>4, <1>6 DEF Nowhere, IsRequest
<1>8. Waits(r0)' /\ r0 \notin live' /\ r0 \notin gone' /\ ready' /\ Nowhere(queue', r0)
  BY <1>0, <1>2, <1>3, <1>4 DEF Waits, NeverAsked
<1>9. PlaceOf(r0)'
  BY <1>7, <1>8 DEF PlaceOf, Nowhere, IsRequest, Waits
<1>10. KeptOf(r0)'
  BY <1>6, <1>7 DEF KeptOf, InWire, IsRequest
<1>11. AnswersOK'
  BY <1>0 DEF AnswersOK
<1> QED BY <1>5, <1>9, <1>10, <1>11 DEF PlaceInv, KeptInv

(* With its process every request is gone *)
LEMMA ExitPlaced ==
  ASSUME TypeInv, QueueOK', PlaceInv, Exit
  PROVE  AnswersOK' /\ PlaceInv' /\ KeptInv'
<1> USE DEF TypeInv, store
<1>0. /\ wire' = <<>> /\ gone' = {r \in Requests : asker[r] # 0} /\ live' = {}
      /\ UNCHANGED <<asker, answers, approvals>>
  BY DEF Exit
<1>1. AnswersOK'
  BY <1>0 DEF AnswersOK
<1>2. Carries(queue, queue', {"request"})
  <2>1. QueueStep({"cancel"}) /\ {"cancel"} \cap {"request"} = {}
    BY ExitShape DEF QueueStep
  <2> QED BY <2>1, QueueCarries
<1>3. /\ \A i \in DOMAIN queue : i \in Int
      /\ \A i \in DOMAIN queue' : i \in Int
  BY DEF QueueOK
<1>4. PICK d \in {0, 1} :
        \A i \in DOMAIN queue' : queue'[i].kind \in {"request"} => i + d \in DOMAIN queue /\ queue'[i] = queue[i + d]
  BY <1>2 DEF Carries
<1>5. ASSUME NEW r \in Requests PROVE PlaceOf(r)' /\ KeptOf(r)'
  <2>1. asker'[r] = 0 => NeverAsked(r)'
    BY <1>0 DEF PlaceInv, PlaceOf, NeverAsked
  <2>2. asker'[r] # 0 => r \in gone'
    BY <1>0
  <2>3. ASSUME NEW i \in DOMAIN queue', IsRequest(queue'[i], r)
        PROVE  /\ Waits(r)' /\ r \in gone' /\ r \notin live'
               /\ \A j \in DOMAIN queue' : IsRequest(queue'[j], r) => j = i
    <3>1. i + d \in DOMAIN queue /\ IsRequest(queue[i + d], r)
      BY <1>4, <2>3 DEF IsRequest
    <3>2. Waits(r) /\ \A j \in DOMAIN queue : IsRequest(queue[j], r) => j = i + d
      BY <3>1 DEF PlaceInv, PlaceOf
    <3>3. ASSUME NEW j \in DOMAIN queue', IsRequest(queue'[j], r) PROVE j = i
      <4>1. j + d \in DOMAIN queue /\ IsRequest(queue[j + d], r)
        BY <1>4, <3>3 DEF IsRequest
      <4>2. j + d = i + d
        BY <3>2, <4>1
      <4> QED BY <1>3, <4>2, SameShift
    <3> QED BY <1>0, <2>2, <3>2, <3>3 DEF Waits
  <2>5. \A i \in DOMAIN wire' : FALSE
    BY <1>0
  <2>6. r \in live' => FALSE
    BY <1>0
  <2>7. \A i \in DOMAIN queue' : IsRequest(queue'[i], r) =>
          /\ Waits(r)'
          /\ IF queue'[i].at = "check" THEN r \notin live' ELSE r \in live' \cup gone'
          /\ \A j \in DOMAIN queue' : IsRequest(queue'[j], r) => j = i
    BY <2>3
  <2>8. PlaceOf(r)'
    BY <2>1, <2>2, <2>5, <2>6, <2>7 DEF PlaceOf, IsRequest
  <2>9. KeptOf(r)'
    BY <2>2 DEF KeptOf, Unanswered
  <2> QED BY <2>8, <2>9
<1> QED BY <1>1, <1>5 DEF PlaceInv, KeptInv

LEMMA PlaceAlways ==
  ASSUME TypeInv, NativeInv, PlaceInv, KeptInv, Next
  PROVE  AnswersOK' /\ PlaceInv' /\ KeptInv'
<1>0. QueueOK' /\ WireOK'
  BY QueueAlways, WireAlways
<1>1. CASE TouchesRequest
  BY <1>0, <1>1, RequestsPlaced, AskPlaced, SentPlaced, StoredPlaced, AsksPlaced, ExitPlaced DEF TouchesRequest
<1>2. CASE ~TouchesRequest
  <2>1. UNCHANGED <<asker, gone, answers, live>> /\ (ready => ready') /\ StoreKept
    BY <1>2, AnswerSteps, StoreSteps DEF TouchesRequest, RequestStep
  <2>2. Carries(queue, queue', {"request"}) /\ Carries(wire, wire', {"request"})
    BY <1>2, RequestCarries
  <2>3. ASSUME NEW r \in Requests PROVE PlaceOf(r)' /\ KeptOf(r)'
    <3>1. CarriesOf(queue, queue', r) /\ CarriesOf(wire, wire', r)
      BY <2>2, CarriesOfAll
    <3>2. PlaceOf(r) /\ KeptOf(r) /\ (approvals[r] = "none" => approvals'[r] = "none")
      BY <2>1 DEF PlaceInv, KeptInv, StoreKept
    <3> QED BY <1>0, <2>1, <3>1, <3>2, PlaceKept
  <2>4. AnswersOK'
    BY <2>1 DEF AnswersOK, TypeInv
  <2> QED BY <2>3, <2>4 DEF PlaceInv, KeptInv
<1> QED BY <1>1, <1>2

-----------------------------------------------------------------------------
(* What the store says was answered *)

(* The tasks of the queue are old ones, and one that joins or has moved *)
LEMMA OldTasks ==
  ASSUME QueueOK
  PROVE  /\ queue # <<>> /\ queue' = Tail(queue) =>
              \A i \in DOMAIN queue' : \E j \in DOMAIN queue : queue'[i] = queue[j]
         /\ \A e \in Tasks : queue' = Append(queue, e) =>
              \A i \in DOMAIN queue' : queue'[i] = e \/ \E j \in DOMAIN queue : queue'[i] = queue[j]
         /\ \A e \in Tasks : queue # <<>> /\ queue' = [queue EXCEPT ![1] = e] =>
              \A i \in DOMAIN queue' : queue'[i] = e \/ \E j \in DOMAIN queue : queue'[i] = queue[j]
<1>1. ASSUME queue # <<>>, queue' = Tail(queue)
      PROVE  \A i \in DOMAIN queue' : \E j \in DOMAIN queue : queue'[i] = queue[j]
  BY <1>1, Rest1 DEF QueueOK
<1>2. ASSUME NEW e \in Tasks, queue' = Append(queue, e)
      PROVE  \A i \in DOMAIN queue' : queue'[i] = e \/ \E j \in DOMAIN queue : queue'[i] = queue[j]
  <2>1. /\ DOMAIN queue' = DOMAIN queue \cup {Len(queue) + 1} /\ queue'[Len(queue) + 1] = e
        /\ \A i \in DOMAIN queue : queue'[i] = queue[i]
    BY <1>2, Appended DEF QueueOK
  <2> QED BY <2>1
<1>3. ASSUME NEW e \in Tasks, queue # <<>>, queue' = [queue EXCEPT ![1] = e]
      PROVE  \A i \in DOMAIN queue' : queue'[i] = e \/ \E j \in DOMAIN queue : queue'[i] = queue[j]
  <2>1. /\ DOMAIN queue' = DOMAIN queue /\ queue'[1] = e /\ \A i \in DOMAIN queue : i # 1 => queue'[i] = queue[i]
    BY <1>3, NewHead DEF QueueOK
  <2> QED BY <2>1
<1> QED BY <1>1, <1>2, <1>3

(* An answer is never taken back, a request never unasked *)
LEMMA AnswersGrow ==
  ASSUME TypeInv, PlaceInv, Next, NEW r \in Requests
  PROVE  /\ answers[r] # <<>> => answers'[r] = answers[r]
         /\ asker[r] # 0 => asker'[r] # 0
         /\ r \in gone => r \in gone'
<1> USE DEF TypeInv, store, maps, server
<1>1. CASE RequestStep
  <2>1. /\ queue # <<>> /\ Task.kind = "request" /\ UNCHANGED <<asker, gone>>
    BY <1>1, RequestShape
  <2>2. PICK r0 \in Requests : r0 = Task.request /\ answers[r0] = <<>>
    BY <2>1, HeadRequest
  <2>3. answers' = answers \/ Respond(r0, "decline")
    BY <1>1, <2>2 DEF RequestStep, RequestDeclined, RequestGoesLive, RequestPending, RequestProjected, RequestFails
  <2> QED BY <2>1, <2>2, <2>3, AnswersKept
<1>2. CASE HandleLine /\ wire[1].kind = "request"
  <2>1. /\ wire[1] \in Lines /\ AskApproval(wire[1]) /\ UNCHANGED <<asker, gone>> /\ 1 \in DOMAIN wire
    BY <1>2, LineShape, Rest1 DEF WireOK
  <2>2. PICK r0 \in Requests : r0 = wire[1].request
    BY <1>2, <2>1, AskShape
  <2>3. answers[r0] = <<>>
    BY <1>2, <2>1, <2>2 DEF PlaceInv, PlaceOf, Waits, IsRequest
  <2>4. answers' = answers \/ Respond(r0, "decline")
    BY <2>1, <2>2 DEF AskApproval
  <2> QED BY <2>1, <2>3, <2>4, AnswersKept
<1>3. CASE DecisionSent
  <2>1. /\ queue # <<>> /\ Task.kind = "decide" /\ UNCHANGED <<asker, gone>>
    BY <1>3, DecideShape DEF DecideStep
  <2>2. PICK r0 \in Requests, d \in {"accept", "decline"} : r0 = Task.request /\ d = Task.decision
    BY <2>1, LineTask
  <2>3. answers[r0] = <<>> /\ Respond(r0, d)
    BY <1>3, <2>2 DEF PlaceInv, PlaceOf, Waits, DecisionSent
  <2> QED BY <2>1, <2>3, AnswersKept
<1>4. CASE DecisionStored
  BY <1>4 DEF DecisionStored
<1>5. ASSUME NEW t \in Turns, NEW q \in Requests, NativeAsks(t, q)
      PROVE  answers' = answers /\ gone' = gone /\ (asker[r] # 0 => asker'[r] # 0)
  BY <1>5 DEF NativeAsks, ServerOK, Turns, Flows
<1>6. CASE Exit
  BY <1>6 DEF Exit, PlaceInv, PlaceOf, NeverAsked
<1>7. CASE ~TouchesRequest
  BY <1>7, AnswerSteps
<1> QED BY <1>1, <1>2, <1>3, <1>4, <1>5, <1>6, <1>7 DEF TouchesRequest

Decided(q, by, left, told) ==
  /\ by[q.request] # 0
  /\ q.at = "resolve" /\ q.request \notin left => told[q.request] = <<q.decision>>

LEMMA DecidedStays ==
  ASSUME TypeInv, PlaceInv, Next, NEW q, q.request \in Requests, Decided(q, asker, gone, answers)
  PROVE  Decided(q, asker', gone', answers')
<1>1. <<q.decision>> # <<>>
  OBVIOUS
<1>2. PICK r \in Requests : r = q.request
  OBVIOUS
<1>3. /\ answers[r] # <<>> => answers'[r] = answers[r]
      /\ asker[r] # 0 => asker'[r] # 0
      /\ r \in gone => r \in gone'
  BY AnswersGrow
<1> QED BY <1>1, <1>2, <1>3 DEF Decided

LEMMA DecisionsQueued ==
  ASSUME TypeInv, PlaceInv, DecisionInv, Next
  PROVE  \A i \in DOMAIN queue' : queue'[i].kind = "decide" => Decided(queue'[i], asker', gone', answers')
<1> USE DEF TypeInv
<1>1. ASSUME NEW q, q.kind = "decide", \E j \in DOMAIN queue : q = queue[j] PROVE Decided(q, asker', gone', answers')
  <2>1. q \in Tasks
    BY <1>1 DEF QueueOK
  <2>2. q.request \in Requests
    BY <1>1, <2>1, TaskParts DEF DecideTask
  <2>3. Decided(q, asker, gone, answers)
    BY <1>1 DEF DecisionInv, Decided
  <2> QED BY <2>2, <2>3, DecidedStays
<1>2. CASE Carries(queue, queue', {"decide"})
  BY <1>1, <1>2 DEF Carries
<1>3. CASE DecideStep
  <2>0. queue # <<>> /\ Task.kind = "decide" /\ Task.request \in Requests
    BY <1>3, DecideShape, LineTask
  <2>1. CASE queue' = Tail(queue)
    BY <1>1, <2>0, <2>1, OldTasks
  <2>2. CASE DecisionSent
    <3>1. PICK e \in Tasks : SameTask(e, Task) /\ queue' = [queue EXCEPT ![1] = e]
      BY <1>3, <2>2, DecideShape DEF Moved
    <3>2. PICK r0 \in Requests, d \in {"accept", "decline"} : r0 = Task.request /\ d = Task.decision
      BY <2>0, LineTask
    <3>3. e.request = r0 /\ e.decision = d
      BY <2>0, <3>1, <3>2 DEF SameTask
    <3>4. Respond(r0, d) /\ r0 \in live /\ UNCHANGED <<asker, gone>>
      BY <2>2, <3>2 DEF DecisionSent, server
    <3>5. asker[r0] # 0 /\ answers[r0] = <<>> /\ (r0 \notin gone => ready)
      BY <3>4 DEF PlaceInv, PlaceOf, Waits
    <3>6. r0 \notin gone => answers'[r0] = <<d>>
      BY <3>4, <3>5, AnswersKept
    <3>7. Decided(e, asker', gone', answers')
      BY <3>3, <3>4, <3>5, <3>6 DEF Decided
    <3> QED BY <1>1, <2>0, <3>1, <3>7, OldTasks
  <2> QED BY <1>3, <2>1, <2>2 DEF DecideStep, DecisionRefused, DecisionStored, DecisionFails, Release
<1>4. CASE Operator
  <2>1. CASE \E e \in Tasks : Queued(e) /\ e.kind = "decide" /\ approvals[e.request] # "none"
    <3>1. PICK e \in Tasks : Queued(e) /\ e.kind = "decide" /\ approvals[e.request] # "none"
      BY <2>1
    <3>2. e.request \in Requests
      BY <3>1, TaskParts DEF DecideTask
    <3>3. asker[e.request] # 0
      BY <3>1, <3>2 DEF PlaceInv, PlaceOf, NeverAsked
    <3>4. Decided(e, asker, gone, answers)
      BY <3>1, <3>3 DEF Decided, Queued
    <3>5. Decided(e, asker', gone', answers')
      BY <3>2, <3>4, DecidedStays
    <3> QED BY <1>1, <3>1, <3>5, OldTasks DEF Queued
  <2>2. CASE QueueStep({"cancel"}) \/ QueueStep({"send"}) \/ QueueStep({"baseline"})
    BY <1>2, <2>2, QueueCarries
  <2> QED BY <1>4, <2>1, <2>2, OperatorShape
<1>5. CASE ~DecideStep /\ ~Operator
  <2>1. \/ queue' = queue
        \/ QueueStep(News) \/ QueueStep({"request"}) \/ QueueStep({"cancel"})
        \/ QueueStep({"send"}) \/ QueueStep({"baseline"}) \/ QueueStep({"apply"})
    BY <1>5, QueueKinds
  <2>2. CASE queue' = queue
    BY <1>1, <2>2
  <2>3. CASE QueueStep(News) \/ QueueStep({"request"}) \/ QueueStep({"cancel"})
        \/ QueueStep({"send"}) \/ QueueStep({"baseline"}) \/ QueueStep({"apply"})
    BY <1>2, <2>3, QueueCarries DEF News
  <2> QED BY <2>1, <2>2, <2>3
<1> QED BY <1>3, <1>4, <1>5

LEMMA DecisionAlways ==
  ASSUME TypeInv, PlaceInv, DecisionInv, Next
  PROVE  DecisionInv'
<1> USE DEF TypeInv
<1>1. StoreTellsTheAnswer'
  <2> SUFFICES ASSUME NEW r \in Requests, r \notin gone'
               PROVE  /\ approvals'[r] = "accepted" => answers'[r] = <<"accept">>
                      /\ approvals'[r] = "declined" => answers'[r] = <<"decline">>
    BY DEF StoreTellsTheAnswer
  <2>1. /\ answers[r] # <<>> => answers'[r] = answers[r]
        /\ r \in gone => r \in gone'
    BY AnswersGrow
  <2>2. /\ approvals[r] = "accepted" => answers[r] = <<"accept">>
        /\ approvals[r] = "declined" => answers[r] = <<"decline">>
    BY <2>1 DEF DecisionInv, StoreTellsTheAnswer
  <2>3. <<"accept">> # <<>> /\ <<"decline">> # <<>>
    OBVIOUS
  <2>4. CASE approvals'[r] \in {"accepted", "declined"} => approvals'[r] = approvals[r]
    BY <2>1, <2>2, <2>3, <2>4
  <2>5. CASE RequestPending
    <3>1. approvals'[r] = "pending" \/ approvals'[r] = approvals[r]
      BY <2>5 DEF RequestPending, RecordOK
    <3> QED BY <2>4, <3>1
  <2>6. CASE DecisionStored
    <3>1. queue # <<>> /\ Task.kind = "decide" /\ Task.at = "resolve" /\ 1 \in DOMAIN queue
      BY <2>6, QueueParts DEF DecisionStored, Holds, Task
    <3>2. Task.decision \in {"accept", "decline"}
      BY <3>1, LineTask
    <3>3. Task.request \notin gone => answers[Task.request] = <<Task.decision>>
      BY <3>1 DEF DecisionInv, Task
    <3>4. CASE approvals'[r] = approvals[r]
      BY <2>4, <3>4
    <3>5. CASE approvals'[r] # approvals[r]
      <4>1. r = Task.request /\ approvals'[r] = IF Task.decision = "accept" THEN "accepted" ELSE "declined"
        BY <2>6, <3>5 DEF DecisionStored, RecordOK
      <4>2. answers[r] = <<Task.decision>>
        BY <2>1, <3>3, <4>1
      <4>3. answers' = answers
        BY <2>6 DEF DecisionStored
      <4> QED BY <3>2, <4>1, <4>2, <4>3
    <3> QED BY <3>4, <3>5
  <2>7. CASE ~RequestPending /\ ~DecisionStored
    <3>1. StoreKept
      BY <2>7, StoreSteps
    <3> QED BY <2>4, <3>1 DEF StoreKept
  <2> QED BY <2>5, <2>6, <2>7
<1>2. \A i \in DOMAIN queue' : queue'[i].kind = "decide" => Decided(queue'[i], asker', gone', answers')
  BY DecisionsQueued
<1> QED BY <1>1, <1>2 DEF DecisionInv, Decided

-----------------------------------------------------------------------------
(* The status: a job is fresh, has a flow that prepares it, or is in turn *)

TouchesFlows ==
  \/ \E f \in Flows : FlowStep(f) \/ FlowFails(f)
  \/ MessagePrepares \/ Exit
  \/ HandleLine /\ wire[1].kind = "turn"

LEMMA StatusSteps ==
  ASSUME TypeInv, ReadInv, Next, ~TouchesFlows
  PROVE  /\ flows' = flows
         /\ \/ status' = status /\ approvals' = approvals
            \/ status' \in Terminal /\ \A r \in Requests : approvals'[r] # "pending"
            \/ RequestPending /\ status' = "awaiting_approval"
            \/ /\ DecisionStored /\ status' \in {"running", "awaiting_approval"}
               /\ approvals[Task.request] = "pending"
<1> USE DEF store
<1>1. CASE HandleLine
  <2>1. Notify(wire[1]) \/ AskApproval(wire[1]) \/ History(wire[1])
    BY <1>1, LineShape DEF TypeInv, WireOK, TouchesFlows
  <2> QED BY <2>1 DEF Notify, AskApproval, History
<1>2. CASE TurnSettles
  <2>1. Task.state \in Terminal
    BY <1>2, LineTask DEF TurnSettles, Holds, Task, Over, Terminal
  <2>2. CompleteJob(Task.state) /\ flows' = flows
    BY <1>2 DEF TurnSettles
  <2> QED BY <2>1, <2>2, CompleteKeeps DEF CompleteJob
<1>3. CASE HistorySettles
  <2>1. queue # <<>> /\ Task.kind = "apply" /\ Task.at = "complete" /\ Task = queue[1] /\ 1 \in DOMAIN queue
    BY <1>3, QueueParts DEF HistorySettles, Holds, Task, TypeInv
  <2>2. read.at = "read" /\ Task.native[read.turn] # "none" /\ Task.native[read.turn] # "running"
    BY <2>1 DEF ReadInv
  <2>3. read.turn \in Turns /\ Task.native \in Shown
    BY <2>1, <2>2, LineTask DEF ReadOK, TypeInv
  <2>4. Task.native[read.turn] \in Terminal
    BY <2>2, <2>3 DEF Shown, Natives, Terminal
  <2>5. CompleteJob(Task.native[read.turn]) /\ flows' = flows
    BY <1>3 DEF HistorySettles
  <2> QED BY <2>4, <2>5, CompleteKeeps DEF CompleteJob
<1>4. CASE CancelSettles \/ ExitSettles
  <2>1. {"cancelled", "interrupted"} \subseteq Terminal
    BY DEF Terminal
  <2> QED BY <1>4, <2>1, CompleteKeeps DEF CancelSettles, ExitSettles, CompleteJob
<1>5. CASE RequestPending
  BY <1>5 DEF RequestPending
<1>6. CASE DecisionStored
  BY <1>6 DEF DecisionStored
<1>7. CASE NewsStep /\ ~TurnSettles
  BY <1>7 DEF NewsStep, NotificationIgnored, TurnStarted, TextArrived, TurnEnded, NotificationFails
<1>8. CASE RequestStep /\ ~RequestPending
  BY <1>8 DEF RequestStep, RequestDeclined, RequestGoesLive, RequestProjected, RequestFails
<1>9. CASE DecideStep /\ ~DecisionStored
  BY <1>9 DEF DecideStep, DecisionRefused, DecisionSent, DecisionFails
<1>10. CASE CancelStep /\ ~CancelSettles
  BY <1>10 DEF CancelStep, CancelRead, CancelInterrupts, CancelConfirmed, CancelFails
<1>11. CASE SendStep
  BY <1>11 DEF SendStep, MessageRead, MessageSteers, TouchesFlows
<1>12. CASE TakeBaseline \/ HistoryRefused \/ HistoryApplied
  BY <1>12 DEF TakeBaseline, HistoryRefused, HistoryApplied
<1>13. CASE Operator
  BY <1>13 DEF Operator, Decide, Cancel, SendMessage, Recover
<1>14. CASE AppServer
  BY <1>14 DEF AppServer, NativeStart, NativeSays, NativeAsks, NativeEnds, TouchesFlows
<1>15. CASE ReadHistory \/ AnswerHistory \/ ReadFails \/ ExitProjects \/ Rest
  BY <1>15 DEF ReadHistory, AnswerHistory, ReadFails, ExitProjects, Rest, vars
<1> QED
  BY <1>1, <1>2, <1>3, <1>4, <1>5, <1>6, <1>7, <1>8, <1>9, <1>10, <1>11, <1>12, <1>13, <1>14, <1>15, Steps
  DEF ApplyStep, TouchesFlows

(* Nobody but the operator's messages comes before execute *)
LEMMA FreshStays ==
  ASSUME TypeInv, NativeInv, Fresh, flows[1] = "execute", Next
  PROVE  flows'[1] # "execute" \/ Fresh'
<1> USE DEF TypeInv
<1>0. /\ status = "queued" /\ ~thread /\ turn = 0 /\ wire = <<>> /\ starts = {} /\ ~ready
      /\ read = NoRead /\ exiting = "none" /\ 1 \in Flows
      /\ \A g \in Flows : g # 1 => flows[g] = "none"
      /\ \A r \in Requests : approvals[r] = "none"
      /\ \A i \in DOMAIN queue : queue[i].kind = "send" /\ queue[i].at = "check"
      /\ flows \in [Flows -> {"none", "execute", "resume", "thread", "turn", "project", "failed", "done"}]
      /\ \A t \in Turns : native[t] # "running"
  BY TurnControlAssumption DEF Fresh, FlowsOK, NativeInv, Flows
<1>1. ASSUME NEW f \in Flows, FlowStep(f) \/ FlowFails(f) PROVE flows'[1] # "execute"
  <2>1. flows[f] \in {"execute", "none"}
    BY <1>0
  <2> QED BY <1>0, <1>1, <2>1 DEF FlowStep, OpenThread, StartTurn, ProjectStart, Catch, FlowFails, Flow, FlowAt
<1>2. ~HandleLine /\ ~Exit
  BY <1>0 DEF HandleLine, Exit
<1>3. queue # <<>> => Task.kind = "send" /\ Task.at = "check"
  BY <1>0, QueueParts DEF Task
<1>4. ~NewsStep /\ ~RequestStep /\ ~DecideStep /\ ~CancelStep /\ ~TakeBaseline /\ ~ApplyStep
  <2>1. ~NewsStep
    BY <1>3, NewsShape
  <2>2. ~RequestStep
    BY <1>3, RequestShape
  <2>3. ~DecideStep
    BY <1>3, DecideShape
  <2>4. ~CancelStep
    BY <1>3, CancelShape
  <2>5. ~TakeBaseline
    BY <1>3, BaselineShape
  <2>6. ~ApplyStep
    BY <1>3, ApplyShape
  <2> QED BY <2>1, <2>2, <2>3, <2>4, <2>5, <2>6
<1>5. ASSUME UNCHANGED <<store, server, read, exiting, flows>>,
             \A i \in DOMAIN queue' : queue'[i].kind = "send" /\ queue'[i].at = "check"
      PROVE  Fresh'
  BY <1>0, <1>5 DEF Fresh, store, server
<1>6. CASE SendStep
  <2>1. Release /\ UNCHANGED <<store, server, read, exiting, flows>> /\ queue # <<>>
    BY <1>0, <1>3, <1>6 DEF SendStep, MessageRead, MessageSteers, MessagePrepares, Holds, Task, InTurn, Settled,
                            recovery, Terminal
  <2>2. \A i \in DOMAIN queue' : queue'[i].kind = "send" /\ queue'[i].at = "check"
    BY <1>0, <2>1, OldTasks DEF Release
  <2> QED BY <1>5, <2>1, <2>2
<1>7. CASE Operator
  <2>1. ~Cancel /\ ~Recover /\ \A r \in Requests, d \in {"accept", "decline"} : ~Decide(r, d)
    BY <1>0 DEF Cancel, Recover, Decide
  <2>2. SendMessage
    BY <1>7, <2>1 DEF Operator
  <2>3. UNCHANGED <<store, server, read, exiting, flows>>
    BY <2>2 DEF SendMessage, recovery
  <2>4. PICK e \in Tasks : e = [kind |-> "send", at |-> "check"] /\ queue' = Append(queue, e)
    <3>1. [kind |-> "send", at |-> "check"] \in Tasks
      BY DEF Tasks, PlainTask, Places
    <3> QED BY <2>2, <3>1 DEF SendMessage, Wait
  <2>5. \A i \in DOMAIN queue' : queue'[i].kind = "send" /\ queue'[i].at = "check"
    BY <1>0, <2>4, OldTasks
  <2> QED BY <1>5, <2>3, <2>5
<1>8. ~AppServer
  <2>1. \A f \in Flows, t \in Turns : ~NativeStart(f, t)
    BY <1>0 DEF NativeStart
  <2>2. \A t \in Turns : ~NativeSays(t) /\ ~NativeEnds(t)
    BY <1>0 DEF NativeSays, NativeEnds
  <2>3. \A t \in Turns, r \in Requests : ~NativeAsks(t, r)
    BY <1>0 DEF NativeAsks
  <2> QED BY <1>2, <2>1, <2>2, <2>3 DEF AppServer
<1>9. ~ReadHistory /\ ~AnswerHistory /\ ~ReadFails /\ ~ExitProjects /\ ~ExitSettles
  BY <1>0 DEF ReadHistory, AnswerHistory, ReadFails, ExitProjects, ExitSettles, NoRead
<1>10. CASE Rest
  BY <1>0, <1>5, <1>10 DEF Rest, vars, recovery
<1> QED BY <1>1, <1>2, <1>4, <1>6, <1>7, <1>8, <1>9, <1>10, Steps

(* A message that is about to prepare a turn found the job settled *)
LEMMA PrepareHeld ==
  ASSUME TypeInv, Next, Holds("send", "prepare")'
  PROVE  Holds("send", "prepare") \/ Settled
<1> USE DEF TypeInv
<1>1. CASE SendStep
  <2>1. CASE Release
    <3>1. queue # <<>> /\ QueueOK'
      BY <1>1, SendShape, QueueAlways
    <3>2. \A i \in DOMAIN queue' : i + 1 # 1 /\ queue'[i] = queue[i + 1] /\ i + 1 \in DOMAIN queue
      <4>1. /\ Len(queue) \in Nat /\ DOMAIN queue' = 1 .. (Len(queue) - 1)
            /\ \A i \in DOMAIN queue' : queue'[i] = queue[i + 1] /\ i + 1 \in DOMAIN queue
        BY <2>1, <3>1, Rest1 DEF QueueOK, Release
      <4> QED BY <4>1
    <3>3. 1 \in DOMAIN queue'
      BY <3>1, Rest1 DEF QueueOK, Holds
    <3>4. queue'[1].at = "check"
      BY <3>2, <3>3 DEF QueueOK
    <3> QED BY <3>4 DEF Holds
  <2>2. CASE MessageRead /\ InTurn
    <3>1. queue # <<>> /\ GoTo("steer") /\ "steer" \in Places
      BY <2>2 DEF MessageRead, Holds, Places
    <3>2. PICK e \in Tasks : Moved(e, "steer")
      BY <3>1, GoToMoves
    <3>3. queue'[1].at = "steer"
      BY <3>1, <3>2, NewHead DEF Moved, QueueOK
    <3> QED BY <3>3 DEF Holds
  <2> QED BY <1>1, <2>1, <2>2 DEF SendStep, MessageRead, MessageSteers, MessagePrepares
<1>2. CASE Operator /\ QueueStep({"send"})
  <2>1. CASE queue' = queue
    BY <2>1 DEF Holds
  <2>2. ASSUME NEW e \in Tasks, e.at = "check", queue' = Append(queue, e) PROVE Holds("send", "prepare")
    <3>1. CASE queue = <<>>
      BY <2>2, <3>1 DEF Holds
    <3>2. CASE queue # <<>>
      <4>1. queue'[1] = queue[1]
        BY <2>2, <3>2, QueueParts, Appended DEF QueueOK
      <4> QED BY <3>2, <4>1 DEF Holds
    <3> QED BY <3>1, <3>2
  <2>3. UNCHANGED queue \/ \E e \in Tasks : e.at = "check" /\ queue' = Append(queue, e)
    <3>1. "check" \in Places
      BY DEF Places
    <3>2. [kind |-> "send", at |-> "check"] \in Tasks /\ [kind |-> "baseline", at |-> "check"] \in Tasks
      BY <3>1 DEF Tasks, PlainTask
    <3>3. [kind |-> "cancel", at |-> "check", seen |-> 0] \in Tasks
      BY <3>1 DEF Tasks, CancelTask
    <3>4. ASSUME NEW r \in Requests, NEW d \in {"accept", "decline"}
          PROVE  [kind |-> "decide", at |-> "check", request |-> r, decision |-> d] \in Tasks
      BY <3>1 DEF Tasks, DecideTask
    <3>5. ASSUME NEW r \in Requests, NEW d \in {"accept", "decline"}, Decide(r, d)
          PROVE  \E e \in Tasks : e.at = "check" /\ queue' = Append(queue, e)
      BY <3>4, <3>5 DEF Decide, Wait
    <3>6. CASE Cancel
      BY <3>3, <3>6 DEF Cancel, Wait
    <3>7. CASE SendMessage \/ Recover
      BY <3>2, <3>7 DEF SendMessage, Recover, Wait
    <3> QED BY <1>2, <3>5, <3>6, <3>7 DEF Operator
  <2> QED BY <2>1, <2>2, <2>3
<1>3. CASE ~SendStep /\ ~(Operator /\ QueueStep({"send"}))
  <2>1. \/ queue' = queue
        \/ QueueStep(News) \/ QueueStep({"request"}) \/ QueueStep({"decide"}) \/ QueueStep({"cancel"})
        \/ QueueStep({"baseline"}) \/ QueueStep({"apply"})
    BY <1>3, QueueKinds
  <2>2. "prepare" # "check"
    OBVIOUS
  <2>3. CASE queue' = queue
    BY <2>3 DEF Holds
  <2>4. CASE QueueStep(News) \/ QueueStep({"request"}) \/ QueueStep({"decide"}) \/ QueueStep({"cancel"})
        \/ QueueStep({"baseline"}) \/ QueueStep({"apply"})
    BY <2>2, <2>4, HeadStep DEF News
  <2> QED BY <2>1, <2>3, <2>4
<1> QED BY <1>1, <1>2, <1>3

LEMMA StatusAlways ==
  ASSUME TypeInv, NativeInv, ReadInv, StatusInv, Next
  PROVE  StatusInv'
<1> USE DEF TypeInv
<1>0. /\ flows \in [Flows -> {"none", "execute", "resume", "thread", "turn", "project", "failed", "done"}]
      /\ 1 \in Flows /\ {"queued", "preparing"} \cap Terminal = {}
      /\ \A f \in Flows : flows[f] = "execute" => f = 1 /\ Fresh
      /\ status \in {"queued", "preparing"} => \E f \in Flows : flows[f] \in Preparing
      /\ \A r \in Requests : approvals[r] = "pending" => InTurn /\ ~Holds("send", "prepare")
  BY TurnControlAssumption DEF FlowsOK, Flows, Terminal, StatusInv
(* a flow executes once *)
<1>1. ASSUME NEW f \in Flows, flows'[f] = "execute" PROVE f = 1 /\ Fresh'
  <2>1. flows[f] = "execute"
    <3>1. CASE ~TouchesFlows
      BY <1>1, <3>1, StatusSteps
    <3>2. ASSUME NEW g \in Flows, FlowStep(g) \/ FlowFails(g) PROVE flows[f] = "execute"
      BY <1>0, <1>1, <3>2 DEF FlowStep, OpenThread, StartTurn, ProjectStart, Catch, FlowFails, FlowAt
    <3>3. CASE MessagePrepares
      BY <1>0, <1>1, <3>3 DEF MessagePrepares, FlowAt
    <3>4. CASE Exit
      BY <1>0, <1>1, <3>4 DEF Exit
    <3>5. CASE HandleLine /\ wire[1].kind = "turn"
      <4>1. TurnResponse(wire[1])
        BY <3>5, LineShape DEF WireOK
      <4> QED BY <1>0, <1>1, <4>1 DEF TurnResponse, FlowAt
    <3> QED BY <3>1, <3>2, <3>3, <3>4, <3>5 DEF TouchesFlows
  <2> QED BY <1>0, <1>1, <2>1, FreshStays
(* a job that is being prepared has its flow *)
<1>2. ASSUME status' \in {"queued", "preparing"} PROVE \E f \in Flows : flows'[f] \in Preparing
  <2>1. CASE ~TouchesFlows
    <3>1. flows' = flows /\ status' = status
      BY <1>0, <1>2, <2>1, StatusSteps
    <3> QED BY <1>0, <1>2, <3>1
  <2>2. ASSUME NEW g \in Flows, OpenThread(g) PROVE flows'[g] \in Preparing
    BY <1>0, <2>2 DEF OpenThread, FlowAt, Preparing
  <2>3. ASSUME NEW g \in Flows, StartTurn(g) \/ FlowFails(g) PROVE flows'[g] \in Preparing
    BY <1>0, <2>3 DEF StartTurn, FlowFails, FlowAt, Preparing
  <2>4. ASSUME NEW g \in Flows, ProjectStart(g) PROVE \E f \in Flows : flows'[f] \in Preparing
    <3>1. PICK f \in Flows : flows[f] \in Preparing
      BY <1>0, <1>2, <2>4 DEF ProjectStart, store
    <3>2. flows[g] = "project" /\ flows' = [flows EXCEPT ![g] = "done"]
      BY <2>4 DEF ProjectStart, FlowAt, Flow
    <3>3. f # g
      BY <3>1, <3>2 DEF Preparing
    <3> QED BY <1>0, <3>1, <3>2, <3>3
  <2>5. ASSUME NEW g \in Flows, Catch(g) PROVE FALSE
    <3>1. status' = status \/ status' = "failed"
      BY <2>5 DEF Catch, CompleteJob
    <3>2. "failed" \in Terminal
      BY DEF Terminal
    <3>3. status' = status /\ ~Settled
      BY <1>0, <1>2, <3>1, <3>2 DEF Settled
    <3>4. status' = "failed"
      BY <2>5, <3>3 DEF Catch, CompleteJob
    <3> QED BY <1>0, <1>2, <3>2, <3>4
  <2>6. CASE MessagePrepares
    <3>1. PICK f \in Flows : flows' = [flows EXCEPT ![f] = "resume"]
      BY <2>6 DEF MessagePrepares, FlowAt
    <3> QED BY <1>0, <3>1 DEF Preparing
  <2>7. CASE Exit
    <3>1. PICK f \in Flows : flows[f] \in Preparing
      BY <1>0, <1>2, <2>7 DEF Exit, store
    <3> QED BY <1>0, <2>7, <3>1 DEF Exit, Preparing
  <2>8. CASE HandleLine /\ wire[1].kind = "turn"
    <3>1. TurnResponse(wire[1])
      BY <2>8, LineShape DEF WireOK
    <3>2. UNCHANGED <<flows, status>>
      BY <1>2, <3>1 DEF TurnResponse
    <3> QED BY <1>0, <1>2, <3>2
  <2> QED BY <2>1, <2>2, <2>3, <2>4, <2>5, <2>6, <2>7, <2>8 DEF TouchesFlows, FlowStep
(* only a job in turn has pending approvals *)
<1>3. ASSUME NEW r \in Requests, approvals'[r] = "pending" PROVE InTurn' /\ ~Holds("send", "prepare")'
  <2>a. Holds("send", "prepare")' => Holds("send", "prepare") \/ Settled
    BY PrepareHeld
  <2>b. ~(InTurn /\ Settled)
    BY DEF InTurn, Settled, Terminal
  <2>1. ASSUME approvals[r] = "pending", status' = status PROVE InTurn' /\ ~Holds("send", "prepare")'
    <3>1. InTurn /\ ~Holds("send", "prepare")
      BY <1>0, <2>1
    <3> QED BY <2>a, <2>b, <2>1, <3>1 DEF InTurn
  <2>2. CASE ~TouchesFlows
    <3>1. \/ status' = status /\ approvals' = approvals
          \/ RequestPending /\ status' = "awaiting_approval"
          \/ /\ DecisionStored /\ status' \in {"running", "awaiting_approval"}
             /\ approvals[Task.request] = "pending"
      BY <1>3, <2>2, StatusSteps
    <3>2. ASSUME RequestPending \/ DecisionStored PROVE ~Holds("send", "prepare")'
      <4>1. \/ QueueStep({"request"}) /\ Task.kind = "request"
            \/ QueueStep({"decide"}) /\ Task.kind = "decide"
        BY <3>2, RequestShape, DecideShape DEF RequestStep, DecideStep
      <4>2. "prepare" # "check" /\ "send" \notin {"request"} /\ "send" \notin {"decide"}
        OBVIOUS
      <4> QED BY <4>1, <4>2, HeadStep DEF Holds, Task
    <3> QED BY <1>3, <2>1, <3>1, <3>2 DEF InTurn
  <2>3. ASSUME NEW f \in Flows, OpenThread(f) PROVE InTurn' /\ ~Holds("send", "prepare")'
    <3>1. approvals' = approvals /\ flows[f] \in {"execute", "resume"}
          /\ (flows[f] # "execute" => status' = status)
      BY <2>3 DEF OpenThread, Flow
    <3>2. flows[f] # "execute"
      BY <1>0, <1>3, <3>1 DEF Fresh
    <3> QED BY <1>3, <2>1, <3>1, <3>2
  <2>4. ASSUME NEW f \in Flows, StartTurn(f) \/ ProjectStart(f) \/ FlowFails(f) PROVE InTurn' /\ ~Holds("send", "prepare")'
    BY <1>3, <2>1, <2>4 DEF StartTurn, ProjectStart, FlowFails, store
  <2>5. ASSUME NEW f \in Flows, Catch(f) PROVE InTurn' /\ ~Holds("send", "prepare")'
    <3>1. UNCHANGED <<status, approvals>>
      BY <1>3, <2>5, CompleteKeeps DEF Catch
    <3> QED BY <1>3, <2>1, <3>1
  <2>6. ~MessagePrepares
    BY <1>0, <1>3 DEF MessagePrepares
  <2>7. CASE Exit
    BY <1>3, <2>1, <2>7 DEF Exit, store
  <2>8. CASE HandleLine /\ wire[1].kind = "turn"
    <3>1. TurnResponse(wire[1])
      BY <2>8, LineShape DEF WireOK
    <3>2. approvals[r] = "pending" /\ status' \in {status, "running"} /\ queue' = queue
      BY <1>3, <3>1 DEF TurnResponse
    <3> QED BY <1>0, <2>1, <3>2 DEF InTurn, Holds
  <2> QED BY <2>2, <2>3, <2>4, <2>5, <2>6, <2>7, <2>8 DEF TouchesFlows, FlowStep
<1> QED BY <1>1, <1>2, <1>3 DEF StatusInv

-----------------------------------------------------------------------------
(* The end of a turn is on its way or at work *)

LEMMA CountsGrow ==
  ASSUME TypeInv, Next
  PROVE  faults' >= faults /\ exits' >= exits
<1> USE DEF TypeInv, CountsOK, counts
<1>1. ASSUME NEW f \in Flows, FlowStep(f) \/ FlowFails(f) PROVE faults' >= faults /\ exits' >= exits
  BY <1>1 DEF FlowStep, OpenThread, StartTurn, ProjectStart, Catch, FlowFails, Fault
<1>2. CASE HandleLine
  BY <1>2, LineShape DEF WireOK, TurnResponse, Notify, AskApproval, History
<1>3. CASE NewsStep
  BY <1>3 DEF NewsStep, NotificationIgnored, TurnStarted, TextArrived, TurnEnded, TurnSettles, NotificationFails, Fault
<1>4. CASE RequestStep \/ DecideStep
  BY <1>4 DEF RequestStep, RequestDeclined, RequestGoesLive, RequestPending, RequestProjected, RequestFails,
              DecideStep, DecisionRefused, DecisionSent, DecisionStored, DecisionFails, Fault
<1>5. CASE CancelStep \/ SendStep
  BY <1>5 DEF CancelStep, CancelRead, CancelInterrupts, CancelConfirmed, CancelFails, CancelSettles,
              SendStep, MessageRead, MessageSteers, MessagePrepares
<1>6. CASE TakeBaseline \/ ApplyStep
  BY <1>6 DEF TakeBaseline, ApplyStep, HistoryRefused, HistoryApplied, HistorySettles
<1>7. CASE Operator
  <2>1. ASSUME NEW r \in Requests, NEW d \in {"accept", "decline"}, Decide(r, d)
        PROVE  faults' >= faults /\ exits' >= exits
    BY <2>1 DEF Decide
  <2>2. CASE Cancel
    BY <2>2 DEF Cancel
  <2>3. CASE SendMessage
    BY <2>3 DEF SendMessage
  <2>4. CASE Recover
    BY <2>4 DEF Recover
  <2> QED BY <1>7, <2>1, <2>2, <2>3, <2>4 DEF Operator
<1>8. CASE AppServer
  <2>1. CASE Exit
    BY <2>1 DEF Exit
  <2>2. ASSUME NEW f \in Flows, NEW t \in Turns, NativeStart(f, t) PROVE faults' >= faults /\ exits' >= exits
    BY <2>2 DEF NativeStart
  <2>3. ASSUME NEW t \in Turns, NativeSays(t) PROVE faults' >= faults /\ exits' >= exits
    BY <2>3 DEF NativeSays
  <2>4. ASSUME NEW t \in Turns, NativeEnds(t) PROVE faults' >= faults /\ exits' >= exits
    BY <2>4 DEF NativeEnds
  <2>5. ASSUME NEW t \in Turns, NEW r \in Requests, NativeAsks(t, r) PROVE faults' >= faults /\ exits' >= exits
    BY <2>5 DEF NativeAsks
  <2> QED BY <1>8, <2>1, <2>2, <2>3, <2>4, <2>5 DEF AppServer
<1>9. CASE ReadHistory \/ AnswerHistory \/ ReadFails \/ ExitProjects \/ ExitSettles \/ Rest
  BY <1>9 DEF ReadHistory, AnswerHistory, ReadFails, ExitProjects, ExitSettles, Rest, vars, Fault
<1> QED BY <1>1, <1>2, <1>3, <1>4, <1>5, <1>6, <1>7, <1>8, <1>9, Steps

(* So far nothing failed and the App Server stayed *)
Calm == faults = 0 /\ exits = 0
CalmStep ==
  /\ \A f \in Flows : ~FlowFails(f) /\ flows[f] # "failed"
  /\ ~Exit /\ ~NotificationFails /\ exiting = "none"

LEMMA CalmBefore ==
  ASSUME TypeInv, EndInv, Next, Calm'
  PROVE  Calm /\ CalmStep
<1>1. faults \in Nat /\ exits \in Nat /\ faults' = 0 /\ exits' = 0
  BY DEF TypeInv, CountsOK, Calm
<1>2. Calm
  BY <1>1, CountsGrow DEF Calm
<1>3. ~Exit /\ ~NotificationFails /\ \A f \in Flows : ~FlowFails(f)
  BY <1>1 DEF Exit, NotificationFails, FlowFails, Fault
<1> QED BY <1>2, <1>3 DEF EndInv, Calm, CalmStep

(* What is on the wire stays there, but for the line that is handled *)
LEMMA WritesKeep ==
  ASSUME WireOK, TypeInv, Writes
  PROVE  \A i \in DOMAIN wire : i \in DOMAIN wire' /\ wire'[i] = wire[i]
<1>0. wire \in Seq(Lines)
  BY DEF WireOK
<1>1. ASSUME NEW e \in Lines, wire' = Append(wire, e)
      PROVE  \A i \in DOMAIN wire : i \in DOMAIN wire' /\ wire'[i] = wire[i]
  BY <1>0, <1>1, Appended
<1>2. ASSUME NEW f \in Flows, NEW t \in Turns, NativeStart(f, t)
      PROVE  \A i \in DOMAIN wire : i \in DOMAIN wire' /\ wire'[i] = wire[i]
  <2>1. PICK d \in Lines, e \in Lines : wire' = Append(Append(wire, d), e)
    BY <1>0, <1>2, StartShape
  <2>2. PICK z : z = Append(wire, d)
    OBVIOUS
  <2>3. z \in Seq(Lines) /\ \A i \in DOMAIN wire : i \in DOMAIN z /\ z[i] = wire[i]
    BY <1>0, <2>2, Appended
  <2>4. \A i \in DOMAIN z : i \in DOMAIN wire' /\ wire'[i] = z[i]
    BY <2>1, <2>2, <2>3, Appended
  <2> QED BY <2>3, <2>4
<1>3. ASSUME NEW t \in Turns, NativeSays(t) \/ NativeEnds(t)
      PROVE  \E e \in Lines : wire' = Append(wire, e)
  BY <1>3, SaysShape, EndsShape DEF Sent
<1>4. ASSUME NEW t \in Turns, NEW r \in Requests, NativeAsks(t, r)
      PROVE  \E e \in Lines : wire' = Append(wire, e)
  BY <1>4, AsksShape DEF Sent
<1>5. CancelInterrupts \/ AnswerHistory => \E e \in Lines : wire' = Append(wire, e)
  BY InterruptShape, AnswerShape DEF Sent, TypeInv
<1> QED BY <1>1, <1>2, <1>3, <1>4, <1>5 DEF Writes

LEMMA NativeKept ==
  ASSUME TypeInv, Next, ~Exit
  PROVE  \A t \in Turns :
           \/ native'[t] = native[t]
           \/ native[t] = "none" /\ native'[t] = "running"
           \/ /\ native[t] = "running"
              /\ \E e \in Lines : wire' = Append(wire, e) /\ IsEnd(e, t)
<1> USE DEF TypeInv
<1>0. native \in [Turns -> Natives]
  BY DEF ServerOK, Shown
<1>1. ASSUME NEW f \in Flows, NEW u \in Turns, NativeStart(f, u)
      PROVE  \A t \in Turns : native'[t] = native[t] \/ (native[t] = "none" /\ native'[t] = "running")
  BY <1>0, <1>1 DEF NativeStart, Started
<1>2. ASSUME NEW u \in Turns, NativeEnds(u)
      PROVE  \A t \in Turns : native'[t] = native[t]
               \/ (native[t] = "running" /\ \E e \in Lines : wire' = Append(wire, e) /\ IsEnd(e, t))
  <2>1. PICK e \in Lines : wire' = Append(wire, e) /\ IsEnd(e, u)
    BY <1>2, EndsShape DEF Sent, IsEnd
  <2>2. native[u] = "running" /\ native' = [native EXCEPT ![u] = "completed"]
    BY <1>2 DEF NativeEnds
  <2> QED BY <1>0, <2>1, <2>2
<1>3. CASE CancelInterrupts
  <2>1. PICK u \in Turns : u = Task.seen /\ native[u] = "running" /\ native' = [native EXCEPT ![u] = "interrupted"]
    BY <1>3, InterruptShape
  <2>2. PICK e \in Lines : wire' = Append(wire, e) /\ IsEnd(e, u)
    BY <1>3, <2>1, InterruptShape DEF Sent, IsEnd
  <2> QED BY <1>0, <2>1, <2>2
<1>4. CASE ~AppServer /\ ~CancelInterrupts
  BY <1>4, HandlersKeepServer
<1>5. CASE AppServer /\ native' = native
  BY <1>5
<1>6. AppServer =>
        \/ native' = native
        \/ \E f \in Flows, t \in Turns : NativeStart(f, t)
        \/ \E t \in Turns : NativeEnds(t)
  BY DEF AppServer, NativeSays, NativeAsks
<1> QED BY <1>1, <1>2, <1>3, <1>4, <1>5, <1>6

(* The end of a turn that is mapped gets into the queue, and stays there    *)
(* until it settles the job                                                 *)
LEMMA EndKnownStays ==
  ASSUME TypeInv, Next, CalmStep, ~TurnSettles, ~Ignored, NEW t \in Turns, t \in byTurn, EndKnown(t)
  PROVE  EndKnown(t)'
<1> USE DEF TypeInv
<1>0. wire \in Seq(Lines) /\ queue \in Seq(Tasks) /\ ~Exit
  BY DEF WireOK, QueueOK, CalmStep
<1>1. CASE native[t] = "running"
  <2>1. CASE native'[t] = "running"
    BY <2>1 DEF EndKnown
  <2>2. CASE \E e \in Lines : wire' = Append(wire, e) /\ IsEnd(e, t)
    <3>1. PICK e \in Lines : wire' = Append(wire, e) /\ IsEnd(e, t)
      BY <2>2
    <3>2. DOMAIN wire' = DOMAIN wire \cup {Len(wire) + 1} /\ wire'[Len(wire) + 1] = e
      BY <1>0, <3>1, Appended
    <3>3. \E i \in DOMAIN wire' : IsEnd(wire'[i], t)
      BY <3>1, <3>2
    <3> QED BY <3>3 DEF EndKnown, IsEnd
  <2> QED BY <1>0, <1>1, <2>1, <2>2, NativeKept
<1>2. ASSUME NEW i \in DOMAIN wire, IsEnd(wire[i], t) PROVE EndKnown(t)'
  <2>1. CASE Writes \/ wire' = wire
    <3>1. \E j \in DOMAIN wire' : IsEnd(wire'[j], t)
      BY <1>2, <2>1, WritesKeep
    <3> QED BY <3>1 DEF EndKnown, IsEnd
  <2>2. CASE HandleLine
    <3>1. wire # <<>> /\ wire[1] \in Lines /\ wire' = Tail(wire)
      BY <1>0, <2>2, LineShape
    <3>2. CASE i # 1
      <4>1. i - 1 \in DOMAIN wire' /\ wire'[i - 1] = wire[i]
        BY <1>0, <1>2, <3>1, <3>2, Rest1
      <4>2. \E j \in DOMAIN wire' : IsEnd(wire'[j], t)
        BY <1>2, <4>1
      <4> QED BY <4>2 DEF EndKnown, IsEnd
    <3>3. CASE i = 1
      <4>1. wire[1].kind = "ended" /\ wire[1].turn = t
        BY <1>2, <3>3 DEF IsEnd
      <4>2. Notify(wire[1]) /\ Mapped(t)
        BY <1>0, <2>2, <4>1, LineShape DEF Mapped
      <4>a. PICK x \in Lines : x = wire[1]
        BY <3>1
      <4>b. x.kind \in {"started", "text", "ended"} /\ Notify(x) /\ Mapped(x.turn) /\ x.kind = "ended" /\ x.turn = t
        BY <4>1, <4>2, <4>a
      <4>c. \E e \in Tasks : Queued(e) /\ e.kind = x.kind /\ e.turn = x.turn
        BY <4>b, NotifyShape
      <4>3. PICK e \in Tasks : queue' = Append(queue, e) /\ e.kind = "ended" /\ e.turn = t
        BY <4>b, <4>c DEF Queued
      <4>4. DOMAIN queue' = DOMAIN queue \cup {Len(queue) + 1} /\ queue'[Len(queue) + 1] = e
        BY <1>0, <4>3, Appended
      <4>5. \E j \in DOMAIN queue' : IsEnd(queue'[j], t)
        BY <4>3, <4>4 DEF IsEnd
      <4> QED BY <4>5 DEF EndKnown, IsEnd
    <3> QED BY <3>2, <3>3
  <2> QED BY <1>0, <2>1, <2>2, WireKinds
<1>3. ASSUME NEW i \in DOMAIN queue, IsEnd(queue[i], t) PROVE EndKnown(t)'
  <2>1. ASSUME \E j \in DOMAIN queue' : IsEnd(queue'[j], t) PROVE EndKnown(t)'
    BY <2>1 DEF EndKnown, IsEnd
  <2>2. CASE Carries(queue, queue', {"ended"})
    <3>1. \E j \in DOMAIN queue' : queue'[j] = queue[i]
      BY <1>3, <2>2 DEF Carries, IsEnd
    <3> QED BY <1>3, <2>1, <3>1
  <2>3. CASE queue' = queue
    BY <1>3, <2>1, <2>3
  <2>4. ASSUME HandleLine PROVE \E j \in DOMAIN queue' : IsEnd(queue'[j], t)
    <3>1. queue' = queue \/ \E e \in Tasks : queue' = Append(queue, e)
      <4>1. /\ wire[1] \in Lines
            /\ \/ TurnResponse(wire[1])
               \/ wire[1].kind \in News /\ Notify(wire[1])
               \/ wire[1].kind = "request" /\ AskApproval(wire[1])
               \/ wire[1].kind = "history" /\ History(wire[1])
        BY <1>0, <2>4, LineShape DEF News
      <4>2. TurnResponse(wire[1]) => queue' = queue
        BY DEF TurnResponse
      <4> QED BY <4>1, <4>2, NotifyShape, AskShape, HistoryShape DEF News, Queued
    <3>2. ASSUME NEW e \in Tasks, queue' = Append(queue, e) PROVE i \in DOMAIN queue' /\ queue'[i] = queue[i]
      BY <1>0, <3>2, Appended
    <3> QED BY <1>3, <3>1, <3>2
  <2>5. ASSUME NewsStep PROVE \E j \in DOMAIN queue' : IsEnd(queue'[j], t)
    <3>1. queue # <<>> /\ Task = queue[1]
      BY <2>5, NewsShape DEF Task
    <3>2. CASE i # 1
      <4>1. CASE queue' = Tail(queue)
        <5>1. i - 1 \in DOMAIN queue' /\ queue'[i - 1] = queue[i]
          BY <1>0, <1>3, <3>1, <3>2, <4>1, Rest1
        <5> QED BY <1>3, <5>1
      <4>2. CASE \E e \in Tasks : queue' = [queue EXCEPT ![1] = e]
        <5>1. i \in DOMAIN queue' /\ queue'[i] = queue[i]
          BY <1>0, <1>3, <3>1, <3>2, <4>2, NewHead
        <5> QED BY <1>3, <5>1
      <4>3. queue' = Tail(queue) \/ \E e \in Tasks : queue' = [queue EXCEPT ![1] = e]
        BY <2>5, NewsShape DEF NewsStep, NotificationIgnored, TurnStarted, TextArrived, TurnSettles, NotificationFails,
                               Release, Moved
      <4> QED BY <4>1, <4>2, <4>3
    <3>3. CASE i = 1
      <4>1. Task.kind = "ended" /\ Task.turn = t
        BY <1>3, <3>1, <3>3 DEF IsEnd
      <4>2. TurnEnded
        BY <2>5, <4>1 DEF NewsStep, NotificationIgnored, TurnStarted, TextArrived, CalmStep, Holds, Task
      <4>3. PICK e \in Tasks : SameTask(e, Task) /\ queue' = [queue EXCEPT ![1] = e]
        BY <2>5, <4>2, NewsShape DEF Moved
      <4>4. 1 \in DOMAIN queue' /\ queue'[1] = e /\ IsEnd(e, t)
        BY <1>0, <3>1, <4>1, <4>3, NewHead DEF SameTask, IsEnd
      <4> QED BY <4>4
    <3> QED BY <3>2, <3>3
  <2>6. \/ queue' = queue
        \/ HandleLine \/ NewsStep
        \/ QueueStep({"request"}) \/ QueueStep({"decide"}) \/ QueueStep({"cancel"})
        \/ QueueStep({"send"}) \/ QueueStep({"baseline"}) \/ QueueStep({"apply"})
    BY QueueKinds
  <2>7. CASE QueueStep({"request"}) \/ QueueStep({"decide"}) \/ QueueStep({"cancel"})
        \/ QueueStep({"send"}) \/ QueueStep({"baseline"}) \/ QueueStep({"apply"})
    BY <2>2, <2>7, QueueCarries
  <2> QED BY <2>1, <2>3, <2>4, <2>5, <2>6, <2>7
<1> QED BY <1>1, <1>2, <1>3 DEF EndKnown

(* Who joins the queue, and who leaves it, lets nobody past a check *)
LEMMA ReleasedHead ==
  ASSUME QueueOK, queue # <<>>, Release, NEW kind, NEW at, at # "check"
  PROVE  ~Holds(kind, at)'
<1> SUFFICES ASSUME Holds(kind, at)' PROVE FALSE
  OBVIOUS
<1>1. queue' \in Seq(Tasks) /\ queue' # <<>> /\ queue' = Tail(queue)
  BY Rest1 DEF QueueOK, Release, Holds
<1>2. 1 \in DOMAIN queue'
  BY <1>1
<1>3. queue'[1] = queue[1 + 1] /\ 1 + 1 \in DOMAIN queue
  BY <1>1, <1>2, Rest1 DEF QueueOK
<1>4. 1 + 1 # 1
  OBVIOUS
<1> QED BY <1>3, <1>4 DEF QueueOK, Holds

LEMMA JoinedHead ==
  ASSUME QueueOK, NEW kind, NEW at, at # "check", Holds(kind, at)',
         queue' = queue \/ \E e \in Tasks : e.at = "check" /\ queue' = Append(queue, e)
  PROVE  Holds(kind, at)
<1>1. CASE queue' = queue
  BY <1>1 DEF Holds
<1>2. ASSUME NEW e \in Tasks, e.at = "check", queue' = Append(queue, e) PROVE Holds(kind, at)
  <2>1. CASE queue = <<>>
    BY <1>2, <2>1 DEF Holds
  <2>2. CASE queue # <<>>
    <3>1. queue'[1] = queue[1]
      BY <1>2, <2>2, QueueParts, Appended DEF QueueOK
    <3> QED BY <2>2, <3>1 DEF Holds
  <2> QED BY <2>1, <2>2
<1> QED BY <1>1, <1>2

LEMMA LineJoins ==
  ASSUME wire \in Seq(Lines), HandleLine
  PROVE  queue' = queue \/ \E e \in Tasks : e.at = "check" /\ queue' = Append(queue, e)
<1>1. PICK x \in Lines : x = wire[1]
  BY LineShape
<1>2. \/ TurnResponse(x)
      \/ x.kind \in {"started", "text", "ended"} /\ Notify(x)
      \/ x.kind = "request" /\ AskApproval(x)
      \/ x.kind = "history" /\ History(x)
  BY <1>1, LineShape
<1>3. TurnResponse(x) => queue' = queue
  BY DEF TurnResponse
<1> QED BY <1>2, <1>3, NotifyShape, AskShape, HistoryShape DEF Queued

(* What a step does to the record's turn while nothing fails *)
Settles == TurnSettles \/ HistorySettles \/ CancelSettles
TurnComes == HandleLine /\ wire[1].kind = "turn"

LEMMA SettlesShape ==
  ASSUME TypeInv, ReadInv, Next, Settles
  PROVE  status' \in Terminal /\ exiting' = exiting
<1>2. ASSUME TurnSettles PROVE status' = Task.state /\ Task.state \in Terminal
  <2>1. Task.state \in Terminal
    BY <1>2, LineTask DEF TurnSettles, Holds, Task, Over, Terminal
  <2> QED BY <1>2, <2>1 DEF TurnSettles, CompleteJob
<1>3. ASSUME HistorySettles PROVE status' \in Terminal
  <2>1. queue # <<>> /\ Task.kind = "apply" /\ Task.at = "complete" /\ Task = queue[1] /\ 1 \in DOMAIN queue
    BY <1>3, QueueParts DEF HistorySettles, Holds, Task, TypeInv
  <2>2. read.at = "read" /\ Task.native[read.turn] # "none" /\ Task.native[read.turn] # "running"
    BY <2>1 DEF ReadInv
  <2>3. read.turn \in Turns /\ Task.native \in Shown
    BY <2>1, <2>2, LineTask DEF ReadOK, TypeInv
  <2>4. Task.native[read.turn] \in Terminal
    BY <2>2, <2>3 DEF Shown, Natives, Terminal
  <2> QED BY <1>3, <2>4 DEF HistorySettles, CompleteJob
<1>4. CancelSettles => status' \in Terminal
  BY DEF CancelSettles, CompleteJob, Terminal
<1>5. exiting' = exiting
  BY DEF Settles, TurnSettles, HistorySettles, CancelSettles
<1> QED BY <1>2, <1>3, <1>4, <1>5 DEF Settles

LEMMA CalmSteps ==
  ASSUME TypeInv, CalmStep, Next, ~Settles, ~TurnComes
  PROVE  /\ exiting' = "none" /\ byTurn' = byTurn
         /\ \/ status' = status /\ turn' = turn
            \/ MessagePrepares /\ status' = "preparing"
            \/ (\E f \in Flows : flows[f] = "execute") /\ status' = "preparing"
            \/ /\ turn' = turn
               /\ RequestPending \/ (DecisionStored /\ approvals[Task.request] = "pending")
<1> USE DEF store, maps
<1>0. /\ exiting = "none" /\ ~Exit /\ ~NotificationFails
      /\ \A f \in Flows : flows[f] # "failed" /\ ~FlowFails(f)
  BY DEF CalmStep
<1>1. ASSUME NEW f \in Flows, FlowStep(f)
      PROVE  /\ exiting' = "none" /\ byTurn' = byTurn /\ turn' = turn
             /\ status' = status \/ (flows[f] = "execute" /\ status' = "preparing")
  <2>1. ~Catch(f)
    BY <1>0 DEF Catch, Flow
  <2> QED BY <1>0, <1>1, <2>1 DEF FlowStep, OpenThread, StartTurn, ProjectStart, Flow
<1>2. CASE HandleLine
  <2>1. Notify(wire[1]) \/ AskApproval(wire[1]) \/ History(wire[1])
    BY <1>2, LineShape DEF TypeInv, WireOK, TurnComes
  <2> QED BY <1>0, <2>1 DEF Notify, AskApproval, History
<1>3. CASE NewsStep
  BY <1>0, <1>3 DEF NewsStep, NotificationIgnored, TurnStarted, TextArrived, TurnEnded, Settles
<1>4. CASE RequestStep
  BY <1>0, <1>4 DEF RequestStep, RequestDeclined, RequestGoesLive, RequestPending, RequestProjected, RequestFails
<1>5. CASE DecideStep
  BY <1>0, <1>5 DEF DecideStep, DecisionRefused, DecisionSent, DecisionStored, DecisionFails
<1>6. CASE CancelStep
  BY <1>0, <1>6 DEF CancelStep, CancelRead, CancelInterrupts, CancelConfirmed, CancelFails, Settles
<1>7. CASE SendStep
  BY <1>0, <1>7 DEF SendStep, MessageRead, MessageSteers, MessagePrepares
<1>8. CASE TakeBaseline \/ ApplyStep
  BY <1>0, <1>8 DEF TakeBaseline, ApplyStep, HistoryRefused, HistoryApplied, Settles
<1>9. CASE Operator
  BY <1>0, <1>9 DEF Operator, Decide, Cancel, SendMessage, Recover
<1>10. CASE AppServer
  BY <1>0, <1>10 DEF AppServer, NativeStart, NativeSays, NativeAsks, NativeEnds
<1>11. CASE ReadHistory \/ AnswerHistory \/ ReadFails \/ ExitProjects \/ ExitSettles \/ Rest
  BY <1>0, <1>11 DEF ReadHistory, AnswerHistory, ReadFails, ExitProjects, ExitSettles, Rest, vars
<1> QED BY <1>0, <1>1, <1>2, <1>3, <1>4, <1>5, <1>6, <1>7, <1>8, <1>9, <1>10, <1>11, Steps

(* The response of turn/start, and the end of its turn behind it *)
LEMMA EndStaysBehind ==
  ASSUME TypeInv, Next, ~Exit, Writes \/ wire' = wire,
         NEW i \in DOMAIN wire, wire[i].kind = "turn", EndBehind(i)
  PROVE  EndBehind(i)'
<1> USE DEF TypeInv
<1>1. wire \in Seq(Lines) /\ wire[i] \in Lines /\ wire[i].turn \in Turns
  <2>1. wire \in Seq(Lines) /\ wire[i] \in Lines
    BY DEF WireOK
  <2> QED BY <2>1, LineParts
<1>2. \A j \in DOMAIN wire : j \in DOMAIN wire' /\ wire'[j] = wire[j]
  BY WritesKeep
<1>3. PICK t \in Turns : t = wire[i].turn /\ wire'[i].turn = t
  BY <1>1, <1>2
<1>4. CASE \E j \in DOMAIN wire : j > i /\ IsEnd(wire[j], t)
  <2>1. \E j \in DOMAIN wire' : j > i /\ IsEnd(wire'[j], t)
    BY <1>2, <1>4 DEF IsEnd
  <2> QED BY <1>3, <2>1 DEF EndBehind, IsEnd
<1>5. CASE native[t] = "running" /\ native'[t] = "running"
  BY <1>3, <1>5 DEF EndBehind
<1>6. CASE \E e \in Lines : wire' = Append(wire, e) /\ IsEnd(e, t)
  <2>1. PICK e \in Lines : wire' = Append(wire, e) /\ IsEnd(e, t)
    BY <1>6
  <2>2. /\ DOMAIN wire' = DOMAIN wire \cup {Len(wire) + 1} /\ wire'[Len(wire) + 1] = e
        /\ i <= Len(wire) /\ Len(wire) \in Nat /\ DOMAIN wire = 1 .. Len(wire)
    BY <1>1, <2>1, Appended
  <2>3. Len(wire) + 1 > i /\ Len(wire) + 1 \in DOMAIN wire'
    BY <2>2
  <2>4. \E j \in DOMAIN wire' : j > i /\ IsEnd(wire'[j], t)
    BY <2>1, <2>2, <2>3
  <2> QED BY <1>3, <2>4 DEF EndBehind, IsEnd
<1>7. \/ native[t] = "running" /\ (native'[t] = native[t] \/ \E e \in Lines : wire' = Append(wire, e) /\ IsEnd(e, t))
      \/ \E j \in DOMAIN wire : j > i /\ IsEnd(wire[j], t)
  <2>1. native[t] = "running" \/ \E j \in DOMAIN wire : j > i /\ IsEnd(wire[j], t)
    BY <1>3 DEF EndBehind, IsEnd
  <2>2. native[t] = "running" => native'[t] = native[t] \/ \E e \in Lines : wire' = Append(wire, e) /\ IsEnd(e, t)
    BY NativeKept
  <2> QED BY <2>1, <2>2
<1> QED BY <1>4, <1>5, <1>6, <1>7

(* Only the App Server's start of a turn puts a response on the wire *)
LEMMA ResponsesWritten ==
  ASSUME TypeInv, Writes, NEW i \in DOMAIN wire', wire'[i].kind = "turn"
  PROVE  i \in DOMAIN wire \/ native'[wire'[i].turn] = "running"
<1> USE DEF TypeInv
<1>0. wire \in Seq(Lines)
  BY DEF WireOK
<1>1. ASSUME NEW e \in Lines, wire' = Append(wire, e), e.kind # "turn" PROVE i \in DOMAIN wire
  <2>1. DOMAIN wire' = DOMAIN wire \cup {Len(wire) + 1} /\ wire'[Len(wire) + 1] = e
    BY <1>0, <1>1, Appended
  <2> QED BY <1>1, <2>1
<1>2. ASSUME NEW f \in Flows, NEW t \in Turns, NativeStart(f, t)
      PROVE  i \in DOMAIN wire \/ native'[wire'[i].turn] = "running"
  <2>1. PICK d \in Lines, e \in Lines :
          d.kind = "turn" /\ d.turn = t /\ e.kind = "started" /\ wire' = Append(Append(wire, d), e)
    BY <1>0, <1>2, StartShape
  <2>2. PICK z : z = Append(wire, d)
    OBVIOUS
  <2>3. z \in Seq(Lines) /\ DOMAIN z = DOMAIN wire \cup {Len(wire) + 1} /\ z[Len(wire) + 1] = d
    BY <1>0, <2>2, Appended
  <2>4. /\ DOMAIN wire' = DOMAIN z \cup {Len(z) + 1} /\ wire'[Len(z) + 1] = e
        /\ \A j \in DOMAIN z : wire'[j] = z[j]
    BY <2>1, <2>2, <2>3, Appended
  <2>5. native'[t] = "running"
    BY <1>2 DEF NativeStart, ServerOK, Shown
  <2>6. i # Len(z) + 1
    BY <2>1, <2>4
  <2>7. i \in DOMAIN wire \/ wire'[i] = d
    BY <2>3, <2>4, <2>6
  <2> QED BY <2>1, <2>5, <2>7
<1>3. ASSUME NEW t \in Turns, NativeSays(t) \/ NativeEnds(t) PROVE i \in DOMAIN wire
  <2>1. \E e \in Lines : wire' = Append(wire, e) /\ e.kind # "turn"
    BY <1>3, SaysShape, EndsShape DEF Sent
  <2> QED BY <1>1, <2>1
<1>4. ASSUME NEW t \in Turns, NEW r \in Requests, NativeAsks(t, r) PROVE i \in DOMAIN wire
  <2>1. \E e \in Lines : wire' = Append(wire, e) /\ e.kind # "turn"
    BY <1>4, AsksShape DEF Sent
  <2> QED BY <1>1, <2>1
<1>5. ASSUME CancelInterrupts \/ AnswerHistory PROVE i \in DOMAIN wire
  <2>1. \E e \in Lines : wire' = Append(wire, e) /\ e.kind # "turn"
    BY <1>5, InterruptShape, AnswerShape DEF Sent
  <2> QED BY <1>1, <2>1
<1> QED BY <1>2, <1>3, <1>4, <1>5 DEF Writes

LEMMA EndsFollowAlways ==
  ASSUME TypeInv, Next, ~Exit, EndsFollow
  PROVE  EndsFollow'
<1> USE DEF TypeInv
<1>0. wire \in Seq(Lines)
  BY DEF WireOK
<1> SUFFICES ASSUME NEW i \in DOMAIN wire', wire'[i].kind = "turn" PROVE EndBehind(i)'
  BY DEF EndsFollow
<1>1. CASE Writes \/ wire' = wire
  <2>1. CASE i \in DOMAIN wire
    <3>1. wire'[i] = wire[i]
      BY <1>1, <2>1, WritesKeep
    <3>2. EndBehind(i)
      BY <2>1, <3>1 DEF EndsFollow
    <3> QED BY <1>1, <2>1, <3>1, <3>2, EndStaysBehind
  <2>2. CASE native'[wire'[i].turn] = "running"
    BY <2>2 DEF EndBehind
  <2> QED BY <1>1, <2>1, <2>2, ResponsesWritten
<1>2. CASE HandleLine
  <2>1. wire # <<>> /\ wire' = Tail(wire) /\ native' = native
    BY <1>0, <1>2, LineShape
  <2>2. /\ i \in Nat /\ wire'[i] = wire[i + 1] /\ i + 1 \in DOMAIN wire
        /\ \A j \in DOMAIN wire : j \in Nat /\ (j # 1 => j - 1 \in DOMAIN wire' /\ wire'[j - 1] = wire[j])
    <3>1. /\ Len(wire) \in Nat /\ DOMAIN wire = 1 .. Len(wire) /\ DOMAIN wire' = 1 .. (Len(wire) - 1)
          /\ wire'[i] = wire[i + 1] /\ i + 1 \in DOMAIN wire
          /\ \A j \in DOMAIN wire : j # 1 => j - 1 \in DOMAIN wire' /\ wire'[j - 1] = wire[j]
      BY <1>0, <2>1, Rest1
    <3> QED BY <3>1
  <2>3. EndBehind(i + 1)
    BY <2>2 DEF EndsFollow
  <2>4. ASSUME NEW j \in DOMAIN wire, j > i + 1, IsEnd(wire[j], wire[i + 1].turn)
        PROVE  \E k \in DOMAIN wire' : k > i /\ IsEnd(wire'[k], wire'[i].turn)
    <3>1. j # 1 /\ j - 1 > i
      BY <2>2, <2>4
    <3> QED BY <2>2, <2>4, <3>1
  <2>5. CASE native[wire[i + 1].turn] = "running"
    BY <2>1, <2>2, <2>5 DEF EndBehind
  <2>6. CASE \E k \in DOMAIN wire' : k > i /\ IsEnd(wire'[k], wire'[i].turn)
    BY <2>6 DEF EndBehind, IsEnd
  <2> QED BY <2>3, <2>4, <2>5, <2>6 DEF EndBehind
<1> QED BY <1>1, <1>2, WireKinds

(* A request that is about to be stored is of the running turn *)
LEMMA AddIsInTurn ==
  ASSUME TypeInv, ReadInv, EndInv, Calm, CalmStep, StatusInv, Next, Holds("request", "add")'
  PROVE  InTurn'
<1> USE DEF TypeInv
<1>0. Holds("request", "add") => InTurn
  BY DEF EndInv, Calm
<1>1. CASE RequestGoesLive
  BY <1>1 DEF RequestGoesLive, OfTheTurn, InTurn, store
<1>2. ~RequestDeclined /\ ~RequestProjected /\ ~RequestFails
  <2>1. ASSUME RequestStep, Release PROVE FALSE
    <3>1. queue # <<>> /\ "add" # "check"
      BY <2>1, RequestShape
    <3> QED BY <2>1, <3>1, ReleasedHead
  <2> QED BY <2>1 DEF RequestStep, RequestDeclined, RequestProjected, RequestFails
<1>3. ~RequestPending
  <2>1. ASSUME RequestPending PROVE FALSE
    <3>1. queue # <<>> /\ \E e \in Tasks : Moved(e, "project")
      BY <2>1, RequestShape DEF RequestStep
    <3>2. queue'[1].at = "project"
      BY <3>1, NewHead DEF Moved, QueueOK
    <3> QED BY <3>2 DEF Holds
  <2> QED BY <2>1
<1>4. ASSUME ~RequestStep PROVE Holds("request", "add") /\ (queue' = queue \/ queue'[1] = queue[1])
  <2>0. "add" # "check"
    OBVIOUS
  <2>1. CASE HandleLine
    <3>1. queue' = queue \/ \E e \in Tasks : e.at = "check" /\ queue' = Append(queue, e)
      BY <2>1, LineJoins DEF WireOK
    <3>2. Holds("request", "add")
      BY <2>0, <3>1, JoinedHead
    <3>3. queue # <<>>
      BY <3>2 DEF Holds
    <3>4. queue' = queue \/ queue'[1] = queue[1]
      BY <3>1, <3>3, QueueParts, Appended DEF QueueOK
    <3> QED BY <3>2, <3>4
  <2>2. CASE ~HandleLine
    <3>1. \/ queue' = queue
          \/ QueueStep(News) \/ QueueStep({"decide"}) \/ QueueStep({"cancel"})
          \/ QueueStep({"send"}) \/ QueueStep({"baseline"}) \/ QueueStep({"apply"})
      BY <1>4, <2>2, QueueKinds
    <3>2. CASE queue' = queue
      BY <3>2 DEF Holds
    <3>3. CASE \/ QueueStep(News) \/ QueueStep({"decide"}) \/ QueueStep({"cancel"})
               \/ QueueStep({"send"}) \/ QueueStep({"baseline"}) \/ QueueStep({"apply"})
      BY <2>0, <3>3, HeadStep DEF News
    <3> QED BY <3>1, <3>2, <3>3
  <2> QED BY <2>1, <2>2
<1>5. CASE ~RequestStep
  <2>1. Holds("request", "add") /\ InTurn /\ queue # <<>> /\ Task.kind = "request"
    BY <1>0, <1>4, <1>5 DEF Holds, Task
  <2>2. ~Settles /\ ~MessagePrepares
    BY <2>1 DEF Settles, TurnSettles, HistorySettles, CancelSettles, MessagePrepares, Holds
  <2>3. CASE TurnComes
    <3>1. TurnResponse(wire[1])
      BY <2>3, LineShape DEF WireOK, TurnComes
    <3> QED BY <2>1, <3>1 DEF TurnResponse, InTurn
  <2>4. \A f \in Flows : flows[f] # "execute"
    BY <2>1 DEF StatusInv, Fresh, InTurn
  <2>5. CASE ~TurnComes
    <3>1. status' = status
      BY <1>5, <2>1, <2>2, <2>4, <2>5, CalmSteps DEF RequestStep, DecisionStored, Holds
    <3> QED BY <2>1, <3>1 DEF InTurn
  <2> QED BY <2>3, <2>5
<1> QED BY <1>1, <1>2, <1>3, <1>5 DEF RequestStep

(* A response that starts the record's turn leaves the end of it to come *)
LEMMA TurnStarts ==
  ASSUME TypeInv, EndsFollow, TurnComes, Flow(wire[1].flow, "turn")
  PROVE  turn' \in Turns /\ turn' \in byTurn' /\ EndKnown(turn)'
<1> USE DEF TypeInv
<1>0. wire \in Seq(Lines)
  BY DEF WireOK
<1>1. /\ wire # <<>> /\ wire' = Tail(wire) /\ native' = native /\ TurnResponse(wire[1])
      /\ wire[1] \in Lines /\ wire[1].kind = "turn" /\ 1 \in DOMAIN wire
  BY <1>0, LineShape, Rest1 DEF TurnComes
<1>2. PICK t \in Turns : t = wire[1].turn
  BY <1>1, LineParts
<1>3. turn' = t /\ byTurn' = byTurn \cup {t}
  BY <1>1, <1>2 DEF TurnResponse
<1>4. native[t] = "running" \/ \E j \in DOMAIN wire : j > 1 /\ IsEnd(wire[j], t)
  BY <1>1, <1>2 DEF EndsFollow, EndBehind, IsEnd
<1>5. native[t] = "running" \/ \E j \in DOMAIN wire' : IsEnd(wire'[j], t)
  <2>1. ASSUME NEW j \in DOMAIN wire, j > 1, IsEnd(wire[j], t) PROVE \E k \in DOMAIN wire' : IsEnd(wire'[k], t)
    <3>1. j # 1
      BY <2>1
    <3>2. j - 1 \in DOMAIN wire' /\ wire'[j - 1] = wire[j]
      BY <1>0, <1>1, <3>1, Rest1
    <3> QED BY <2>1, <3>2
  <2> QED BY <1>4, <2>1
<1> QED BY <1>1, <1>3, <1>5 DEF EndKnown, IsEnd

LEMMA EndAlways ==
  ASSUME TypeInv, NativeInv, ReadInv, StatusInv, EndInv, Next
  PROVE  EndInv'
<1> USE DEF TypeInv
<1> SUFFICES ASSUME Calm'
             PROVE  /\ \A f \in Flows : flows'[f] # "failed"
                    /\ exiting' = "none"
                    /\ Holds("request", "add")' => InTurn'
                    /\ InTurn' => turn' # 0 /\ turn' \in byTurn' /\ EndKnown(turn)'
                    /\ EndsFollow'
  BY DEF EndInv, Calm
<1>0. Calm /\ CalmStep
  BY CalmBefore
<1>1. /\ flows \in [Flows -> {"none", "execute", "resume", "thread", "turn", "project", "failed", "done"}]
      /\ \A f \in Flows : flows[f] # "failed" /\ ~FlowFails(f)
      /\ ~Exit /\ EndsFollow
      /\ InTurn => turn # 0 /\ turn \in byTurn /\ EndKnown(turn)
      /\ Holds("request", "add") => InTurn
  BY <1>0 DEF FlowsOK, CalmStep, EndInv, Calm
<1>2. \A f \in Flows : flows'[f] # "failed"
  <2>1. CASE ~TouchesFlows
    BY <1>1, <2>1, StatusSteps
  <2>2. ASSUME NEW g \in Flows, FlowStep(g) PROVE \A f \in Flows : flows'[f] # "failed"
    BY <1>1, <2>2 DEF FlowStep, OpenThread, StartTurn, ProjectStart, Catch, FlowAt
  <2>3. CASE MessagePrepares
    BY <1>1, <2>3 DEF MessagePrepares, FlowAt
  <2>4. CASE HandleLine /\ wire[1].kind = "turn"
    <3>1. TurnResponse(wire[1])
      BY <2>4, LineShape DEF WireOK
    <3> QED BY <1>1, <3>1 DEF TurnResponse, FlowAt
  <2> QED BY <1>1, <2>1, <2>2, <2>3, <2>4 DEF TouchesFlows
<1>3. Holds("request", "add")' => InTurn'
  BY <1>0, AddIsInTurn
<1>4. EndsFollow'
  BY <1>1, EndsFollowAlways
<1>5. exiting' = "none"
  <2>1. CASE Settles
    BY <1>0, <2>1, SettlesShape DEF CalmStep
  <2>2. CASE TurnComes
    <3>1. TurnResponse(wire[1])
      BY <2>2, LineShape DEF WireOK, TurnComes
    <3> QED BY <1>0, <3>1 DEF TurnResponse, CalmStep
  <2>3. CASE ~Settles /\ ~TurnComes
    BY <1>0, <2>3, CalmSteps
  <2> QED BY <2>1, <2>2, <2>3
<1>6. ASSUME InTurn' PROVE turn' # 0 /\ turn' \in byTurn' /\ EndKnown(turn)'
  <2>0. ~Settles
    BY <1>6, SettlesShape DEF InTurn, Terminal
  <2>1. ASSUME InTurn, turn' = turn, byTurn' = byTurn PROVE turn' # 0 /\ turn' \in byTurn' /\ EndKnown(turn)'
    <3>1. turn \in Turns \cup {0} /\ turn # 0 /\ turn \in byTurn /\ EndKnown(turn)
      BY <1>1, <2>1 DEF RecordOK
    <3>2. PICK t \in Turns : t = turn /\ t = turn' /\ t \in byTurn /\ EndKnown(t)
      BY <2>1, <3>1 DEF EndKnown, IsEnd
    <3>3. ~Ignored
      BY <2>1, <3>1 DEF NativeInv, Ignored, InTurn, Settled, Terminal
    <3>4. EndKnown(t)'
      BY <1>0, <2>0, <3>2, <3>3, EndKnownStays DEF Settles
    <3>5. EndKnown(turn)'
      BY <3>2, <3>4 DEF EndKnown, IsEnd
    <3> QED BY <2>1, <3>1, <3>5
  <2>2. CASE TurnComes
    <3>1. TurnResponse(wire[1])
      BY <2>2, LineShape DEF WireOK, TurnComes
    <3>2. CASE Flow(wire[1].flow, "turn")
      <4>1. turn' \in Turns /\ turn' \in byTurn' /\ EndKnown(turn)'
        BY <1>1, <2>2, <3>2, TurnStarts
      <4> QED BY <4>1 DEF Turns, Flows
    <3>3. CASE ~Flow(wire[1].flow, "turn")
      <4>1. UNCHANGED <<byTurn, turn, status>>
        BY <3>1, <3>3 DEF TurnResponse
      <4> QED BY <1>6, <2>1, <4>1 DEF InTurn
    <3> QED BY <3>2, <3>3
  <2>3. CASE ~TurnComes
    <3>1. /\ byTurn' = byTurn
          /\ \/ status' = status /\ turn' = turn
             \/ status' = "preparing"
             \/ /\ turn' = turn
                /\ RequestPending \/ (DecisionStored /\ approvals[Task.request] = "pending")
      BY <1>0, <2>0, <2>3, CalmSteps
    <3>2. RequestPending => InTurn
      BY <1>1 DEF RequestPending
    <3>3. DecisionStored /\ approvals[Task.request] = "pending" => InTurn
      <4>1. DecisionStored => Task.request \in Requests
        BY LineTask DEF DecisionStored, Holds, Task
      <4> QED BY <4>1 DEF StatusInv
    <3>4. status' = status => InTurn
      BY <1>6 DEF InTurn
    <3>5. status' # "preparing"
      BY <1>6 DEF InTurn
    <3> QED BY <2>1, <3>1, <3>2, <3>3, <3>4, <3>5
  <2> QED BY <2>2, <2>3
<1> QED BY <1>2, <1>3, <1>4, <1>5, <1>6

-----------------------------------------------------------------------------
(* The output: what a step does to the pieces in the queue and on the wire *)

LEMMA PiecesTyped ==
  ASSUME QueueOK, wire \in Seq(Lines), NEW t, NEW k \in Nat
  PROVE  Pieces(queue, t, k) \in Nat /\ Pieces(wire, t, k) \in Nat
<1>1. Len(queue) \in Nat /\ Len(wire) \in Nat
  BY DEF QueueOK
<1> QED BY <1>1, PiecesAreNat

(* Nothing is behind the last one *)
LEMMA PiecesAtEnd ==
  ASSUME NEW s, Len(s) \in Nat, NEW t
  PROVE  Pieces(s, t, Len(s)) = 0
<1>1. (Len(s) + 1) .. Len(s) = {}
  OBVIOUS
<1>2. PieceAt(s, t, Len(s)) = {}
  BY <1>1 DEF PieceAt
<1> QED BY <1>2, FS_EmptySet DEF Pieces

(* A recovery that is to be applied keeps its place among the pieces *)
AppliesStay ==
  \A k \in DOMAIN queue' : queue'[k].kind = "apply" =>
    \E j \in DOMAIN queue : queue[j] = queue'[k] /\ \A t \in Turns : Pieces(queue', t, k) = Pieces(queue, t, j)

LEMMA HeadAsks ==
  ASSUME QueueOK, queue # <<>>, NEW e \in Tasks, queue' = [queue EXCEPT ![1] = e]
  PROVE  /\ \A k \in DOMAIN queue, t \in Turns : Pieces(queue', t, k) = Pieces(queue, t, k)
         /\ e.kind # "apply" => AppliesStay
<1>1. /\ DOMAIN queue' = DOMAIN queue /\ queue'[1] = e /\ 1 \in DOMAIN queue /\ Len(queue') = Len(queue)
      /\ DOMAIN queue = 1 .. Len(queue) /\ Len(queue) \in Nat
      /\ \A i \in DOMAIN queue : i # 1 => queue'[i] = queue[i]
  BY NewHead DEF QueueOK
<1>2. ASSUME NEW k \in DOMAIN queue, NEW t \in Turns PROVE Pieces(queue', t, k) = Pieces(queue, t, k)
  <2>1. \A i \in (k + 1) .. Len(queue) : i \in DOMAIN queue /\ i # 1
    BY <1>1
  <2>2. \A i \in (k + 1) .. Len(queue) : queue'[i] = queue[i]
    BY <1>1, <2>1
  <2>3. PieceAt(queue', t, k) = PieceAt(queue, t, k)
    BY <1>1, <2>2 DEF PieceAt
  <2> QED BY <2>3 DEF Pieces
<1>3. e.kind # "apply" => \A k \in DOMAIN queue' : queue'[k].kind = "apply" => k # 1
  BY <1>1
<1> QED BY <1>1, <1>2, <1>3 DEF AppliesStay

LEMMA LeaverAsks ==
  ASSUME QueueOK, queue # <<>>, queue' = Tail(queue)
  PROVE  /\ AppliesStay
         /\ \A t \in Turns : Pieces(queue, t, 0) = Pieces(queue', t, 0) + (IF IsPiece(Task, t) THEN 1 ELSE 0)
<1>1. /\ Len(queue) \in Nat /\ DOMAIN queue = 1 .. Len(queue) /\ DOMAIN queue' = 1 .. (Len(queue) - 1)
      /\ \A i \in DOMAIN queue' : queue'[i] = queue[i + 1] /\ i + 1 \in DOMAIN queue
  BY Rest1 DEF QueueOK
<1>2. ASSUME NEW k \in DOMAIN queue', NEW t PROVE Pieces(queue', t, k) = Pieces(queue, t, k + 1)
  <2>1. k + 1 \in 1 .. Len(queue) /\ (k + 1) - 1 = k
    BY <1>1
  <2>2. Pieces(queue', t, (k + 1) - 1) = Pieces(queue, t, k + 1)
    BY <2>1, PiecesShifted DEF QueueOK
  <2> QED BY <2>1, <2>2
<1>3. \A t \in Turns : Pieces(queue, t, 0) = Pieces(queue', t, 0) + (IF IsPiece(Task, t) THEN 1 ELSE 0)
  BY PiecesReleased DEF QueueOK, Task
<1> QED BY <1>1, <1>2, <1>3 DEF AppliesStay

LEMMA JoinerAsks ==
  ASSUME QueueOK, NEW e \in Tasks, queue' = Append(queue, e)
  PROVE  /\ \A t \in Turns : Pieces(queue', t, 0) = Pieces(queue, t, 0) + (IF IsPiece(e, t) THEN 1 ELSE 0)
         /\ e.kind \notin {"text", "apply"} => AppliesStay
<1>1. /\ DOMAIN queue' = DOMAIN queue \cup {Len(queue) + 1} /\ queue'[Len(queue) + 1] = e
      /\ \A i \in DOMAIN queue : queue'[i] = queue[i]
      /\ DOMAIN queue = 1 .. Len(queue) /\ Len(queue) \in Nat
  BY Appended DEF QueueOK
<1>2. ASSUME NEW k \in 0 .. Len(queue), NEW t
      PROVE  Pieces(queue', t, k) = Pieces(queue, t, k) + (IF IsPiece(e, t) THEN 1 ELSE 0)
  BY PiecesAppended DEF QueueOK
<1>3. 0 \in 0 .. Len(queue) /\ DOMAIN queue \subseteq 0 .. Len(queue)
  BY <1>1
<1>4. ASSUME e.kind \notin {"text", "apply"} PROVE AppliesStay
  <2> SUFFICES ASSUME NEW k \in DOMAIN queue', queue'[k].kind = "apply"
               PROVE  /\ k \in DOMAIN queue /\ queue[k] = queue'[k]
                      /\ \A t \in Turns : Pieces(queue', t, k) = Pieces(queue, t, k)
    BY DEF AppliesStay
  <2>1. k \in DOMAIN queue /\ queue[k] = queue'[k] /\ k \in 0 .. Len(queue)
    BY <1>1, <1>3, <1>4
  <2>2. ASSUME NEW t \in Turns PROVE Pieces(queue', t, k) = Pieces(queue, t, k)
    <3>1. Pieces(queue', t, k) = Pieces(queue, t, k) + (IF IsPiece(e, t) THEN 1 ELSE 0)
      BY <1>2, <2>1
    <3>2. ~IsPiece(e, t)
      BY <1>4 DEF IsPiece
    <3>3. Pieces(queue, t, k) \in Nat
      BY <1>1, <2>1, PiecesAreNat
    <3> QED BY <3>1, <3>2, <3>3
  <2> QED BY <2>1, <2>2
<1> QED BY <1>2, <1>3, <1>4

(* A step of other tasks than output and recoveries leaves both alone *)
LEMMA QueueAsks ==
  ASSUME QueueOK, NEW K, QueueStep(K), K \cap {"text", "apply"} = {}
  PROVE  AppliesStay /\ \A t \in Turns : Pieces(queue', t, 0) = Pieces(queue, t, 0)
<1>0. /\ \A t \in Turns : Pieces(queue, t, 0) \in Nat /\ 1 \in Nat
      /\ Len(queue) \in Nat
  <2>1. Len(queue) \in Nat
    BY DEF QueueOK
  <2> QED BY <2>1, PiecesAreNat
<1>1. CASE queue' = queue
  BY <1>1 DEF AppliesStay
<1>2. ASSUME NEW e \in Tasks, e.kind \in K, queue' = Append(queue, e)
      PROVE  AppliesStay /\ \A t \in Turns : Pieces(queue', t, 0) = Pieces(queue, t, 0)
  <2>1. e.kind \notin {"text", "apply"} /\ \A t \in Turns : ~IsPiece(e, t)
    BY <1>2 DEF IsPiece
  <2> QED BY <1>0, <1>2, <2>1, JoinerAsks
<1>3. CASE queue # <<>> /\ Task.kind \in K /\ queue' = Tail(queue)
  <2>1. \A t \in Turns : ~IsPiece(Task, t)
    BY <1>3 DEF IsPiece
  <2>2. QueueOK'
    BY QueueTyped
  <2>3. Len(queue') \in Nat
    BY <2>2 DEF QueueOK
  <2>4. \A t \in Turns : Pieces(queue', t, 0) \in Nat
    BY <2>3, PiecesAreNat
  <2> QED BY <1>0, <1>3, <2>1, <2>4, LeaverAsks
<1>4. ASSUME queue # <<>>, Task.kind \in K, NEW e \in Tasks, e.kind = Task.kind, queue' = [queue EXCEPT ![1] = e]
      PROVE  AppliesStay /\ \A t \in Turns : Pieces(queue', t, 0) = Pieces(queue, t, 0)
  <2>1. e.kind # "apply" /\ \A t \in Turns : ~IsPiece(Task, t) /\ ~IsPiece(e, t)
    BY <1>4 DEF IsPiece
  <2>2. AppliesStay /\ \A t \in Turns : Pieces(queue', t, 1) = Pieces(queue, t, 1)
    <3>1. 1 \in DOMAIN queue
      BY <1>4, QueueParts
    <3> QED BY <1>4, <2>1, <3>1, HeadAsks
  <2>3. queue' \in Seq(Tasks) /\ queue' # <<>> /\ queue'[1] = e
    BY <1>4, NewHead DEF QueueOK
  <2>4. \A t \in Turns : /\ Pieces(queue', t, 0) = Pieces(queue', t, 1) + (IF IsPiece(e, t) THEN 1 ELSE 0)
                         /\ Pieces(queue, t, 0) = Pieces(queue, t, 1) + (IF IsPiece(Task, t) THEN 1 ELSE 0)
    BY <1>4, <2>3, PiecesFirst DEF QueueOK, Task
  <2> QED BY <2>1, <2>2, <2>4
<1> QED BY <1>1, <1>2, <1>3, <1>4 DEF QueueStep

(* What is shown and waits to be shown only grows when a line is handled or *)
(* a history is applied                                                     *)
ShowsLess ==
  \A t \in Turns : projected'[t] + Pieces(queue', t, 0) <= projected[t] + Pieces(queue, t, 0)

LEMMA ProjectedKept ==
  ASSUME TypeInv, Next, ~TextArrived, ~HistoryApplied
  PROVE  projected' = projected
<1> USE DEF store
<1>1. ASSUME NEW f \in Flows, FlowStep(f) \/ FlowFails(f) PROVE projected' = projected
  BY <1>1 DEF FlowStep, OpenThread, StartTurn, ProjectStart, Catch, FlowFails
<1>2. CASE HandleLine
  <2>1. TurnResponse(wire[1]) \/ Notify(wire[1]) \/ AskApproval(wire[1]) \/ History(wire[1])
    BY <1>2, LineShape DEF TypeInv, WireOK
  <2> QED BY <2>1 DEF TurnResponse, Notify, AskApproval, History
<1>3. CASE NewsStep
  BY <1>3 DEF NewsStep, NotificationIgnored, TurnStarted, TurnEnded, TurnSettles, NotificationFails
<1>4. CASE RequestStep
  BY <1>4 DEF RequestStep, RequestDeclined, RequestGoesLive, RequestPending, RequestProjected, RequestFails
<1>5. CASE DecideStep
  BY <1>5 DEF DecideStep, DecisionRefused, DecisionSent, DecisionStored, DecisionFails
<1>6. CASE CancelStep
  BY <1>6 DEF CancelStep, CancelRead, CancelInterrupts, CancelConfirmed, CancelFails, CancelSettles
<1>7. CASE SendStep
  BY <1>7 DEF SendStep, MessageRead, MessageSteers, MessagePrepares
<1>8. CASE TakeBaseline \/ ApplyStep
  BY <1>8 DEF TakeBaseline, ApplyStep, HistoryRefused, HistorySettles
<1>9. CASE Operator
  BY <1>9 DEF Operator, Decide, Cancel, SendMessage, Recover
<1>10. CASE AppServer
  BY <1>10 DEF AppServer, NativeStart, NativeSays, NativeAsks, NativeEnds, Exit
<1>11. CASE ReadHistory \/ AnswerHistory \/ ReadFails \/ ExitProjects \/ ExitSettles \/ Rest
  BY <1>11 DEF ReadHistory, AnswerHistory, ReadFails, ExitProjects, ExitSettles, Rest, vars
<1> QED BY <1>1, <1>2, <1>3, <1>4, <1>5, <1>6, <1>7, <1>8, <1>9, <1>10, <1>11, Steps

LEMMA QueueShows ==
  ASSUME TypeInv, Next, ~HandleLine, ~HistoryApplied
  PROVE  AppliesStay /\ ShowsLess
<1> USE DEF TypeInv
<1>0. /\ wire \in Seq(Lines) /\ QueueOK' /\ Len(queue) \in Nat /\ Len(queue') \in Nat
      /\ \A t \in Turns : projected[t] \in Nat
      /\ \A t \in Turns : Pieces(queue, t, 0) \in Nat /\ Pieces(queue', t, 0) \in Nat
  <2>1. QueueOK' /\ wire \in Seq(Lines)
    BY QueueAlways DEF WireOK
  <2>2. Len(queue) \in Nat /\ Len(queue') \in Nat
    BY <2>1 DEF QueueOK
  <2>3. \A t \in Turns : Pieces(queue, t, 0) \in Nat /\ Pieces(queue', t, 0) \in Nat
    BY <2>2, PiecesAreNat
  <2> QED BY <2>1, <2>2, <2>3 DEF RecordOK, Texts
<1>a. ASSUME projected' = projected, \A t \in Turns : Pieces(queue', t, 0) = Pieces(queue, t, 0) PROVE ShowsLess
  BY <1>0, <1>a DEF ShowsLess
<1>b. ASSUME projected' = projected, queue # <<>>, Release PROVE AppliesStay /\ ShowsLess
  <2>1. /\ AppliesStay
        /\ \A t \in Turns : Pieces(queue, t, 0) = Pieces(queue', t, 0) + (IF IsPiece(Task, t) THEN 1 ELSE 0)
    BY <1>b, LeaverAsks DEF Release
  <2>2. \A t \in Turns : (IF IsPiece(Task, t) THEN 1 ELSE 0) \in {0, 1}
    OBVIOUS
  <2>3. \A t \in Turns : Pieces(queue', t, 0) <= Pieces(queue, t, 0)
    BY <1>0, <2>1, <2>2
  <2> QED BY <1>0, <1>b, <2>1, <2>3 DEF ShowsLess
<1>1. CASE TextArrived
  <2>1. /\ queue # <<>> /\ Task.kind = "text" /\ Release
        /\ projected' = [projected EXCEPT ![Task.turn] = @ + 1]
    BY <1>1 DEF TextArrived, Holds, Task
  <2>2. PICK u \in Turns : u = Task.turn
    BY <2>1, LineTask
  <2>3. /\ AppliesStay
        /\ \A t \in Turns : Pieces(queue, t, 0) = Pieces(queue', t, 0) + (IF IsPiece(Task, t) THEN 1 ELSE 0)
    BY <2>1, LeaverAsks DEF Release
  <2>4. \A t \in Turns : IsPiece(Task, t) <=> t = u
    BY <2>1, <2>2 DEF IsPiece
  <2>5. ASSUME NEW t \in Turns, t # u
        PROVE  projected'[t] + Pieces(queue', t, 0) <= projected[t] + Pieces(queue, t, 0)
    <3>1. Pieces(queue, t, 0) = Pieces(queue', t, 0) + 0
      BY <2>3, <2>4, <2>5
    <3>2. projected'[t] = projected[t]
      BY <2>1, <2>2, <2>5 DEF RecordOK, Texts
    <3> QED BY <1>0, <3>1, <3>2
  <2>6. projected'[u] + Pieces(queue', u, 0) <= projected[u] + Pieces(queue, u, 0)
    <3>1. Pieces(queue, u, 0) = Pieces(queue', u, 0) + 1
      BY <2>3, <2>4
    <3>2. projected'[u] = projected[u] + 1
      BY <2>1, <2>2 DEF RecordOK, Texts
    <3> QED BY <1>0, <3>1, <3>2
  <2> QED BY <2>3, <2>5, <2>6 DEF ShowsLess
<1>2. CASE NewsStep /\ ~TextArrived
  <2>1. projected' = projected /\ queue # <<>>
    BY <1>2, ProjectedKept, NewsShape
  <2>2. CASE TurnEnded
    <3>1. QueueStep({Task.kind}) /\ Task.kind = "ended"
      BY <1>2, <2>2, NewsShape DEF TurnEnded, Holds, Task
    <3>2. {Task.kind} \cap {"text", "apply"} = {}
      BY <3>1
    <3>3. AppliesStay /\ \A t \in Turns : Pieces(queue', t, 0) = Pieces(queue, t, 0)
      BY <3>1, <3>2, QueueAsks
    <3> QED BY <1>a, <2>1, <3>3
  <2>3. CASE Release
    BY <1>b, <2>1, <2>3
  <2> QED BY <1>2, <2>2, <2>3 DEF NewsStep, NotificationIgnored, TurnStarted, TurnSettles, NotificationFails
<1>3. CASE ApplyStep
  <2>1. projected' = projected /\ queue # <<>> /\ Release
    BY <1>3, ApplyShape DEF ApplyStep, HistoryRefused, HistorySettles, store
  <2> QED BY <1>b, <2>1
<1>4. CASE ~NewsStep /\ ~ApplyStep
  <2>1. projected' = projected
    BY <1>4, ProjectedKept DEF NewsStep
  <2>2. \/ queue' = queue
        \/ QueueStep({"request"}) \/ QueueStep({"decide"}) \/ QueueStep({"cancel"})
        \/ QueueStep({"send"}) \/ QueueStep({"baseline"})
    BY <1>4, QueueKinds
  <2>3. CASE queue' = queue
    BY <1>a, <2>1, <2>3 DEF AppliesStay
  <2>4. CASE \/ QueueStep({"request"}) \/ QueueStep({"decide"}) \/ QueueStep({"cancel"})
             \/ QueueStep({"send"}) \/ QueueStep({"baseline"})
    <3>1. AppliesStay /\ \A t \in Turns : Pieces(queue', t, 0) = Pieces(queue, t, 0)
      BY <2>4, QueueAsks
    <3> QED BY <1>a, <2>1, <3>1
  <2> QED BY <2>2, <2>3, <2>4
<1> QED BY <1>1, <1>2, <1>3, <1>4

(* What is on the wire was said, and a history on it keeps its place *)
TellsMore ==
  \A t \in Turns : said'[t] >= said[t] /\ Pieces(wire', t, 0) + said[t] <= Pieces(wire, t, 0) + said'[t]
HistoriesStay ==
  \A k \in DOMAIN wire' : wire'[k].kind = "history" =>
    \E j \in DOMAIN wire :
      /\ wire[j] = wire'[k]
      /\ \A t \in Turns : Pieces(wire', t, k) + said[t] <= Pieces(wire, t, j) + said'[t]

LEMMA LineLeaves ==
  ASSUME TypeInv, wire # <<>>, wire' = Tail(wire), said' = said
  PROVE  /\ TellsMore /\ HistoriesStay
         /\ \A t \in Turns : /\ Pieces(wire', t, 0) \in Nat /\ Pieces(wire, t, 1) = Pieces(wire', t, 0)
                             /\ Pieces(wire, t, 0) = Pieces(wire', t, 0) + (IF IsPiece(wire[1], t) THEN 1 ELSE 0)
<1>0. wire \in Seq(Lines) /\ \A t \in Turns : said[t] \in Nat
  BY TurnControlAssumption DEF TypeInv, WireOK, ServerOK
<1>1. /\ Len(wire) \in Nat /\ DOMAIN wire = 1 .. Len(wire) /\ DOMAIN wire' = 1 .. (Len(wire) - 1)
      /\ 1 \in 1 .. Len(wire) /\ Len(wire') \in Nat
      /\ \A i \in DOMAIN wire' : wire'[i] = wire[i + 1] /\ i + 1 \in DOMAIN wire
  BY <1>0, Rest1
<1>2. ASSUME NEW t \in Turns
      PROVE  /\ Pieces(wire', t, 0) \in Nat /\ Pieces(wire, t, 1) = Pieces(wire', t, 0)
             /\ Pieces(wire, t, 0) = Pieces(wire', t, 0) + (IF IsPiece(wire[1], t) THEN 1 ELSE 0)
  <2>1. 1 - 1 = 0
    OBVIOUS
  <2>2. Pieces(wire', t, 1 - 1) = Pieces(wire, t, 1)
    BY <1>0, <1>1, PiecesShifted
  <2> QED BY <1>0, <2>1, <2>2, PiecesReleased
<1>3. TellsMore
  <2>1. \A t \in Turns : (IF IsPiece(wire[1], t) THEN 1 ELSE 0) \in {0, 1}
    OBVIOUS
  <2>2. \A t \in Turns : Pieces(wire', t, 0) <= Pieces(wire, t, 0) /\ Pieces(wire, t, 0) \in Nat
    BY <1>2, <2>1
  <2> QED BY <1>0, <1>2, <2>2 DEF TellsMore
<1>4. ASSUME NEW k \in DOMAIN wire', NEW t \in Turns
      PROVE  Pieces(wire', t, k) + said[t] <= Pieces(wire, t, k + 1) + said'[t]
  <2>1. k + 1 \in 1 .. Len(wire) /\ (k + 1) - 1 = k /\ k + 1 \in Nat
    BY <1>1
  <2>2. Pieces(wire', t, (k + 1) - 1) = Pieces(wire, t, k + 1) /\ Pieces(wire, t, k + 1) \in Nat
    BY <1>0, <1>1, <2>1, PiecesShifted, PiecesAreNat
  <2> QED BY <1>0, <2>1, <2>2
<1> QED BY <1>1, <1>2, <1>3, <1>4 DEF HistoriesStay

(* A line that is written says what has been said *)
LEMMA LineSays ==
  ASSUME NEW w \in Seq(Lines), NEW e \in Lines
  PROVE  \A t \in Turns :
           /\ Pieces(Append(w, e), t, 0) = Pieces(w, t, 0) + (IF IsPiece(e, t) THEN 1 ELSE 0)
           /\ \A k \in DOMAIN w : Pieces(Append(w, e), t, k) = Pieces(w, t, k) + (IF IsPiece(e, t) THEN 1 ELSE 0)
           /\ \A k \in Nat : Pieces(w, t, k) \in Nat
<1>1. DOMAIN w = 1 .. Len(w) /\ Len(w) \in Nat /\ 0 \in 0 .. Len(w)
  OBVIOUS
<1>2. DOMAIN w \subseteq 0 .. Len(w)
  BY <1>1
<1>3. \A t \in Turns : \A k \in 0 .. Len(w) :
        Pieces(Append(w, e), t, k) = Pieces(w, t, k) + (IF IsPiece(e, t) THEN 1 ELSE 0)
  BY PiecesAppended
<1> QED BY <1>1, <1>2, <1>3, PiecesAreNat

LEMMA LineSilent ==
  ASSUME NEW w \in Seq(Lines), NEW e \in Lines, e.kind # "text", NEW t \in Turns
  PROVE  /\ Pieces(Append(w, e), t, 0) = Pieces(w, t, 0)
         /\ \A k \in DOMAIN w : Pieces(Append(w, e), t, k) = Pieces(w, t, k)
<1>1. \A k \in DOMAIN w : k \in Nat
  OBVIOUS
<1>2. (IF IsPiece(e, t) THEN 1 ELSE 0) = 0
  BY DEF IsPiece
<1>3. /\ Pieces(Append(w, e), t, 0) = Pieces(w, t, 0) + 0 /\ Pieces(w, t, 0) \in Nat
      /\ \A k \in DOMAIN w : Pieces(Append(w, e), t, k) = Pieces(w, t, k) + 0 /\ Pieces(w, t, k) \in Nat
  BY <1>1, <1>2, LineSays
<1> QED BY <1>3

LEMMA LineWritten ==
  ASSUME TypeInv, ServerOK', NEW e \in Lines, wire' = Append(wire, e),
         \A t \in Turns : said'[t] = said[t] + (IF IsPiece(e, t) THEN 1 ELSE 0)
  PROVE  TellsMore /\ (e.kind # "history" => HistoriesStay)
<1>0. wire \in Seq(Lines) /\ \A t \in Turns : said[t] \in Nat /\ said'[t] \in Nat
  BY TurnControlAssumption DEF TypeInv, WireOK, ServerOK
<1>1. /\ DOMAIN wire' = DOMAIN wire \cup {Len(wire) + 1} /\ wire'[Len(wire) + 1] = e
      /\ \A i \in DOMAIN wire : wire'[i] = wire[i] /\ i \in Nat
  BY <1>0, Appended
<1>2. ASSUME NEW t \in Turns
      PROVE  /\ said'[t] >= said[t] /\ Pieces(wire', t, 0) + said[t] <= Pieces(wire, t, 0) + said'[t]
             /\ \A k \in DOMAIN wire : Pieces(wire', t, k) + said[t] <= Pieces(wire, t, k) + said'[t]
  <2>1. PICK d \in {0, 1} : d = IF IsPiece(e, t) THEN 1 ELSE 0
    OBVIOUS
  <2>2. /\ Pieces(wire', t, 0) = Pieces(wire, t, 0) + d /\ Pieces(wire, t, 0) \in Nat
        /\ \A k \in DOMAIN wire : Pieces(wire', t, k) = Pieces(wire, t, k) + d /\ Pieces(wire, t, k) \in Nat
    BY <1>0, <1>1, <2>1, LineSays
  <2>3. said'[t] = said[t] + d
    BY <2>1
  <2> QED BY <1>0, <2>2, <2>3
<1>3. TellsMore
  BY <1>2 DEF TellsMore
<1>4. ASSUME e.kind # "history" PROVE HistoriesStay
  BY <1>1, <1>2, <1>4 DEF HistoriesStay
<1> QED BY <1>3, <1>4

LEMMA WritesTell ==
  ASSUME TypeInv, ServerOK', Writes
  PROVE  TellsMore /\ (~AnswerHistory => HistoriesStay)
<1> USE DEF TypeInv
<1>0. wire \in Seq(Lines) /\ said \in [Turns -> 0 .. MaxText] /\ \A t \in Turns : said[t] \in Nat
  BY TurnControlAssumption DEF WireOK, ServerOK
<1>a. ASSUME NEW e \in Lines, wire' = Append(wire, e), e.kind # "text", said' = said
      PROVE  TellsMore /\ (e.kind # "history" => HistoriesStay)
  <2>1. \A t \in Turns : ~IsPiece(e, t)
    BY <1>a DEF IsPiece
  <2>2. \A t \in Turns : said'[t] = said[t] + (IF IsPiece(e, t) THEN 1 ELSE 0)
    BY <1>0, <1>a, <2>1
  <2> QED BY <1>a, <2>2, LineWritten
<1>1. ASSUME NEW f \in Flows, NEW t \in Turns, NativeStart(f, t) PROVE TellsMore /\ HistoriesStay
  <2>1. PICK d \in Lines, e \in Lines : d.kind = "turn" /\ e.kind = "started" /\ wire' = Append(Append(wire, d), e)
    BY <1>0, <1>1, StartShape
  <2>2. PICK z : z = Append(wire, d)
    OBVIOUS
  <2>3. /\ z \in Seq(Lines) /\ DOMAIN z = DOMAIN wire \cup {Len(wire) + 1} /\ z[Len(wire) + 1] = d
        /\ \A i \in DOMAIN wire : z[i] = wire[i] /\ i \in Nat
    BY <1>0, <2>2, Appended
  <2>4. /\ DOMAIN wire' = DOMAIN z \cup {Len(z) + 1} /\ wire'[Len(z) + 1] = e
        /\ \A i \in DOMAIN z : wire'[i] = z[i]
    BY <2>1, <2>2, <2>3, Appended
  <2>5. said' = said
    BY <1>1 DEF NativeStart
  <2>6. ASSUME NEW u \in Turns
        PROVE  /\ Pieces(wire', u, 0) = Pieces(wire, u, 0) /\ Pieces(wire, u, 0) \in Nat
               /\ \A k \in DOMAIN wire : Pieces(wire', u, k) = Pieces(wire, u, k) /\ Pieces(wire, u, k) \in Nat
    <3>1. \A k \in Nat : Pieces(wire, u, k) \in Nat
      BY <1>0, LineSays
    <3>2. Pieces(z, u, 0) = Pieces(wire, u, 0) /\ \A k \in DOMAIN wire : Pieces(z, u, k) = Pieces(wire, u, k)
      <4>1. /\ Pieces(Append(wire, d), u, 0) = Pieces(wire, u, 0)
            /\ \A k \in DOMAIN wire : Pieces(Append(wire, d), u, k) = Pieces(wire, u, k)
        <5>1. d.kind # "text"
          BY <2>1
        <5> QED BY <1>0, <5>1, LineSilent
      <4> QED BY <2>2, <4>1
    <3>3. Pieces(wire', u, 0) = Pieces(z, u, 0) /\ \A k \in DOMAIN z : Pieces(wire', u, k) = Pieces(z, u, k)
      <4>1. /\ Pieces(Append(z, e), u, 0) = Pieces(z, u, 0)
            /\ \A k \in DOMAIN z : Pieces(Append(z, e), u, k) = Pieces(z, u, k)
        <5>1. e.kind # "text" /\ z \in Seq(Lines)
          BY <2>1, <2>3
        <5> QED BY <5>1, LineSilent
      <4>2. wire' = Append(z, e)
        BY <2>1, <2>2
      <4> QED BY <4>1, <4>2
    <3> QED BY <2>3, <3>1, <3>2, <3>3
  <2>7. TellsMore
    BY <1>0, <2>5, <2>6 DEF TellsMore
  <2>8. HistoriesStay
    <3>1. \A k \in DOMAIN wire' : wire'[k].kind = "history" => k \in DOMAIN wire /\ wire'[k] = wire[k]
      BY <2>1, <2>3, <2>4
    <3> QED BY <1>0, <2>5, <2>6, <3>1 DEF HistoriesStay
  <2> QED BY <2>7, <2>8
<1>2. ASSUME NEW t \in Turns, NativeSays(t) PROVE TellsMore /\ HistoriesStay
  <2>1. PICK e \in Lines : wire' = Append(wire, e) /\ e.kind = "text" /\ e.turn = t
    BY <1>2, SaysShape DEF Sent
  <2>2. \A u \in Turns : IsPiece(e, u) <=> u = t
    BY <2>1 DEF IsPiece
  <2>3. said' = [said EXCEPT ![t] = said[t] + 1]
    BY <1>2 DEF NativeSays
  <2>4. \A u \in Turns : said'[u] = said[u] + (IF IsPiece(e, u) THEN 1 ELSE 0)
    BY <1>0, <2>2, <2>3
  <2> QED BY <2>1, <2>4, LineWritten
<1>3. ASSUME NEW t \in Turns, NativeEnds(t) PROVE TellsMore /\ HistoriesStay
  <2>1. PICK e \in Lines : wire' = Append(wire, e) /\ e.kind = "ended"
    BY <1>3, EndsShape DEF Sent
  <2>2. said' = said
    BY <1>3 DEF NativeEnds
  <2> QED BY <1>a, <2>1, <2>2
<1>4. ASSUME NEW t \in Turns, NEW r \in Requests, NativeAsks(t, r) PROVE TellsMore /\ HistoriesStay
  <2>1. PICK e \in Lines : wire' = Append(wire, e) /\ e.kind = "request"
    BY <1>4, AsksShape DEF Sent
  <2>2. said' = said
    BY <1>4 DEF NativeAsks
  <2> QED BY <1>a, <2>1, <2>2
<1>5. ASSUME CancelInterrupts PROVE TellsMore /\ HistoriesStay
  <2>1. PICK e \in Lines : wire' = Append(wire, e) /\ e.kind = "ended"
    BY <1>5, InterruptShape DEF Sent
  <2>2. said' = said
    BY <1>5 DEF CancelInterrupts
  <2> QED BY <1>a, <2>1, <2>2
<1>6. ASSUME AnswerHistory PROVE TellsMore
  <2>1. PICK e \in Lines : wire' = Append(wire, e) /\ e.kind = "history"
    BY <1>6, AnswerShape DEF Sent
  <2>2. said' = said
    BY <1>6 DEF AnswerHistory
  <2> QED BY <1>a, <2>1, <2>2
<1> QED BY <1>1, <1>2, <1>3, <1>4, <1>5, <1>6 DEF Writes

(* What any step does to the wire *)
LEMMA WireTells ==
  ASSUME TypeInv, NativeInv, Next
  PROVE  TellsMore /\ (~AnswerHistory => HistoriesStay)
<1> USE DEF TypeInv
<1>0. ServerOK' /\ wire \in Seq(Lines) /\ \A t \in Turns : said[t] \in Nat
  BY ServerAlways, TurnControlAssumption DEF WireOK, ServerOK
<1>1. CASE HandleLine
  <2>1. wire # <<>> /\ wire' = Tail(wire) /\ said' = said
    BY <1>1 DEF HandleLine
  <2> QED BY <2>1, LineLeaves
<1>2. CASE Exit
  <2>1. wire' = <<>> /\ said' = said
    BY <1>2 DEF Exit
  <2>2. Len(wire') = 0 /\ DOMAIN wire' = {} /\ 0 \in Nat
    BY <2>1
  <2>3. \A t \in Turns : Pieces(wire', t, 0) = 0
    BY <2>2, PiecesAtEnd
  <2>4. Len(wire) \in Nat
    BY <1>0
  <2>5. \A t \in Turns : Pieces(wire, t, 0) \in Nat
    BY <2>2, <2>4, PiecesAreNat
  <2> QED BY <1>0, <2>1, <2>2, <2>3, <2>5 DEF TellsMore, HistoriesStay
<1>3. CASE Writes
  BY <1>0, <1>3, WritesTell
<1>4. CASE ~HandleLine /\ ~Exit /\ ~Writes
  <2>1. wire' = wire
    BY <1>4, WireKinds
  <2>2. ~AppServer /\ ~CancelInterrupts
    BY <1>4 DEF AppServer, Writes
  <2>3. said' = said
    BY <2>2, HandlersKeepServer
  <2>4. Len(wire) \in Nat /\ \A k \in DOMAIN wire : k \in Nat
    BY <1>0
  <2>5. \A t \in Turns : Pieces(wire, t, 0) \in Nat /\ \A k \in DOMAIN wire : Pieces(wire, t, k) \in Nat
    BY <2>4, PiecesAreNat
  <2> QED BY <1>0, <2>1, <2>3, <2>5 DEF TellsMore, HistoriesStay
<1> QED BY <1>1, <1>2, <1>3, <1>4

(* A line that is handled takes its output from the wire to the queue *)
LEMMA LineShows ==
  ASSUME TypeInv, HandleLine
  PROVE  /\ projected' = projected /\ said' = said
         /\ \A t \in Turns : Pieces(queue', t, 0) + Pieces(wire', t, 0) <= Pieces(queue, t, 0) + Pieces(wire, t, 0)
         /\ wire[1].kind # "text" => \A t \in Turns : Pieces(queue', t, 0) = Pieces(queue, t, 0)
<1> USE DEF TypeInv
<1>1. /\ wire # <<>> /\ wire[1] \in Lines /\ wire' = Tail(wire) /\ UNCHANGED said
      /\ \/ wire[1].kind = "turn" /\ TurnResponse(wire[1])
         \/ wire[1].kind \in {"started", "text", "ended"} /\ Notify(wire[1])
         \/ wire[1].kind = "request" /\ AskApproval(wire[1])
         \/ wire[1].kind = "history" /\ History(wire[1])
  BY LineShape DEF WireOK
<1>2. projected' = projected
  BY <1>1 DEF TurnResponse, Notify, AskApproval, History, store
<1>3. /\ \A t \in Turns : Pieces(queue, t, 0) \in Nat /\ Pieces(wire', t, 0) \in Nat
      /\ \A t \in Turns : Pieces(wire, t, 0) = Pieces(wire', t, 0) + (IF IsPiece(wire[1], t) THEN 1 ELSE 0)
  <2>1. \A t \in Turns : /\ Pieces(wire', t, 0) \in Nat /\ Pieces(wire, t, 1) = Pieces(wire', t, 0)
                         /\ Pieces(wire, t, 0) = Pieces(wire', t, 0) + (IF IsPiece(wire[1], t) THEN 1 ELSE 0)
    BY <1>1, LineLeaves
  <2>2. wire \in Seq(Lines) /\ 0 \in Nat
    BY DEF WireOK
  <2>3. \A t \in Turns : Pieces(queue, t, 0) \in Nat
    BY <2>2, PiecesTyped
  <2> QED BY <2>1, <2>3
<1>4. ASSUME NEW t \in Turns PROVE Pieces(wire', t, 0) <= Pieces(wire, t, 0)
  <2>1. PICK d \in {0, 1} : d = IF IsPiece(wire[1], t) THEN 1 ELSE 0
    OBVIOUS
  <2> QED BY <1>3, <2>1
<1>a. ASSUME \A t \in Turns : Pieces(queue', t, 0) = Pieces(queue, t, 0)
      PROVE  \A t \in Turns : Pieces(queue', t, 0) + Pieces(wire', t, 0) <= Pieces(queue, t, 0) + Pieces(wire, t, 0)
  <2>1. \A t \in Turns : Pieces(wire, t, 0) \in Nat
    <3>1. wire \in Seq(Lines) /\ 0 \in Nat
      BY DEF WireOK
    <3> QED BY <3>1, PiecesTyped
  <2> QED BY <1>3, <1>4, <1>a, <2>1
<1>5. CASE wire[1].kind = "turn" /\ TurnResponse(wire[1])
  BY <1>1, <1>2, <1>5, <1>a DEF TurnResponse
<1>6. CASE wire[1].kind \in {"started", "text", "ended"} /\ Notify(wire[1])
  <2>1. CASE ~Mapped(wire[1].turn)
    <3>1. queue' = queue
      BY <1>1, <1>6, <2>1, NotifyShape
    <3> QED BY <1>1, <1>2, <1>a, <3>1
  <2>2. CASE Mapped(wire[1].turn)
    <3>1. PICK e \in Tasks : Queued(e) /\ e.kind = wire[1].kind /\ e.turn = wire[1].turn
      BY <1>1, <1>6, <2>2, NotifyShape
    <3>2. \A t \in Turns : Pieces(queue', t, 0) = Pieces(queue, t, 0) + (IF IsPiece(e, t) THEN 1 ELSE 0)
      BY <3>1, JoinerAsks DEF Queued
    <3>3. ASSUME NEW t \in Turns
          PROVE  Pieces(queue', t, 0) + Pieces(wire', t, 0) <= Pieces(queue, t, 0) + Pieces(wire, t, 0)
      <4>1. PICK d \in {0, 1} : d = IF IsPiece(wire[1], t) THEN 1 ELSE 0
        OBVIOUS
      <4>2. d = IF IsPiece(e, t) THEN 1 ELSE 0
        BY <3>1, <4>1 DEF IsPiece
      <4>3. Pieces(queue', t, 0) = Pieces(queue, t, 0) + d /\ Pieces(wire, t, 0) = Pieces(wire', t, 0) + d
        BY <1>3, <3>2, <4>1, <4>2
      <4> QED BY <1>3, <4>3
    <3>4. ASSUME wire[1].kind # "text", NEW t \in Turns PROVE Pieces(queue', t, 0) = Pieces(queue, t, 0)
      <4>1. (IF IsPiece(e, t) THEN 1 ELSE 0) = 0
        BY <3>1, <3>4 DEF IsPiece
      <4> QED BY <1>3, <3>2, <4>1
    <3> QED BY <1>1, <1>2, <3>3, <3>4
  <2> QED BY <2>1, <2>2
<1>7. CASE wire[1].kind = "request" /\ AskApproval(wire[1])
  <2>1. QueueStep({"request"}) /\ {"request"} \cap {"text", "apply"} = {}
    BY <1>1, <1>7, AskShape
  <2>2. \A t \in Turns : Pieces(queue', t, 0) = Pieces(queue, t, 0)
    BY <2>1, QueueAsks
  <2> QED BY <1>1, <1>2, <1>a, <2>2
<1>8. CASE wire[1].kind = "history" /\ History(wire[1])
  <2>1. PICK e \in Tasks : Queued(e) /\ e.kind = "apply"
    BY <1>1, <1>8, HistoryShape
  <2>2. ASSUME NEW t \in Turns PROVE Pieces(queue', t, 0) = Pieces(queue, t, 0)
    <3>1. Pieces(queue', t, 0) = Pieces(queue, t, 0) + (IF IsPiece(e, t) THEN 1 ELSE 0)
      BY <2>1, JoinerAsks DEF Queued
    <3>2. (IF IsPiece(e, t) THEN 1 ELSE 0) = 0
      BY <2>1 DEF IsPiece
    <3> QED BY <1>3, <3>1, <3>2
  <2> QED BY <1>1, <1>2, <1>a, <2>2
<1> QED BY <1>1, <1>5, <1>6, <1>7, <1>8

(* A recovery in the queue was there, unless its history just arrived *)
OldApplies ==
  \A k \in DOMAIN queue' : queue'[k].kind = "apply" =>
    \E j \in DOMAIN queue : queue[j].kind = "apply" /\ queue[j].text = queue'[k].text

LEMMA AppliesAreOld ==
  ASSUME TypeInv, Next, ~(HandleLine /\ wire[1].kind = "history")
  PROVE  OldApplies
<1> USE DEF TypeInv
<1>a. ASSUME NEW K, QueueStep(K), "apply" \notin K PROVE OldApplies
  <2>1. K \cap {"apply"} = {}
    BY <1>a
  <2>2. Carries(queue, queue', {"apply"})
    BY <1>a, <2>1, QueueCarries
  <2> QED BY <2>2 DEF Carries, OldApplies
<1>1. CASE HandleLine
  <2>1. /\ wire[1] \in Lines
        /\ \/ wire[1].kind = "turn" /\ TurnResponse(wire[1])
           \/ wire[1].kind \in {"started", "text", "ended"} /\ Notify(wire[1])
           \/ wire[1].kind = "request" /\ AskApproval(wire[1])
    BY <1>1, LineShape DEF WireOK
  <2>2. CASE wire[1].kind = "turn" /\ TurnResponse(wire[1])
    BY <2>2 DEF TurnResponse, OldApplies
  <2>3. CASE wire[1].kind \in {"started", "text", "ended"} /\ Notify(wire[1])
    <3>1. QueueStep({wire[1].kind}) /\ "apply" \notin {wire[1].kind}
      BY <2>1, <2>3, NotifyShape
    <3> QED BY <1>a, <3>1
  <2>4. CASE wire[1].kind = "request" /\ AskApproval(wire[1])
    <3>1. QueueStep({"request"}) /\ "apply" \notin {"request"}
      BY <2>1, <2>4, AskShape
    <3> QED BY <1>a, <3>1
  <2> QED BY <2>1, <2>2, <2>3, <2>4
<1>2. CASE HistoryApplied
  <2>1. queue # <<>> /\ Task.kind = "apply" /\ (Release \/ \E e \in Tasks : Moved(e, "complete"))
    BY <1>2, ApplyShape DEF ApplyStep
  <2>2. CASE Release
    BY <2>1, <2>2, LeaverAsks DEF Release, AppliesStay, OldApplies
  <2>3. ASSUME NEW e \in Tasks, Moved(e, "complete") PROVE OldApplies
    <3>1. e.text = Task.text /\ queue' = [queue EXCEPT ![1] = e]
      BY <2>1, <2>3 DEF Moved, SameTask
    <3>2. /\ DOMAIN queue' = DOMAIN queue /\ queue'[1] = e /\ 1 \in DOMAIN queue
          /\ \A i \in DOMAIN queue : i # 1 => queue'[i] = queue[i]
      BY <2>1, <3>1, NewHead DEF QueueOK
    <3> QED BY <2>1, <3>1, <3>2 DEF OldApplies, Task
  <2> QED BY <2>1, <2>2, <2>3
<1>3. CASE ~HandleLine /\ ~HistoryApplied
  BY <1>3, QueueShows DEF AppliesStay, OldApplies
<1> QED BY <1>1, <1>2, <1>3

(* What a read was told does not change while it is on its way *)
LEMMA AskedStays ==
  ASSUME TypeInv, ReadInv, Next, ~ReadHistory, read'.at = "asked"
  PROVE  read' = read
<1> USE DEF TypeInv
<1>1. CASE ~TouchesRead
  BY <1>1, ReadSteps
<1>2. CASE Recover \/ AnswerHistory \/ ReadFails
  BY <1>2 DEF Recover, AnswerHistory, ReadFails, NoRead
<1>3. CASE TakeBaseline \/ (HandleLine /\ wire[1].kind = "history")
  <2>1. \E at \in {"reading", "read"} : read' = [read EXCEPT !.at = at]
    BY <1>3, LineShape DEF WireOK, TakeBaseline, History
  <2>2. PICK at \in {"reading", "read"} : read' = [read EXCEPT !.at = at]
    BY <2>1
  <2>3. (\E i \in DOMAIN queue : queue[i].kind = "baseline") \/ (\E i \in DOMAIN wire : wire[i].kind = "history")
    <3>1. CASE TakeBaseline
      BY <3>1, BaselineShape, QueueParts DEF Task
    <3>2. CASE HandleLine /\ wire[1].kind = "history"
      BY <3>2, LineShape, Rest1 DEF WireOK
    <3> QED BY <1>3, <3>1, <3>2
  <2>4. read = [at |-> read.at, turn |-> read.turn]
    BY <2>3 DEF ReadInv, ReadOK
  <2>5. PICK u : u = [read EXCEPT !.at = at]
    OBVIOUS
  <2>6. u.at = at
    BY <2>4, <2>5
  <2> QED BY <2>2, <2>5, <2>6
<1>4. CASE ApplyStep
  BY <1>4 DEF ApplyStep, HistoryRefused, HistoryApplied, HistorySettles, NoRead
<1>5. CASE Exit
  BY <1>5 DEF Exit, recovery, NoRead
<1> QED BY <1>1, <1>2, <1>3, <1>4, <1>5 DEF TouchesRead

LEMMA OutputTyped ==
  ASSUME TypeInv, NativeInv, ReadInv, Next
  PROVE  /\ \A t \in Turns : /\ projected[t] \in Nat /\ projected'[t] \in Nat /\ said[t] \in Nat /\ said'[t] \in Nat
                             /\ Pieces(queue, t, 0) \in Nat /\ Pieces(queue', t, 0) \in Nat
                             /\ Pieces(wire, t, 0) \in Nat /\ Pieces(wire', t, 0) \in Nat
                             /\ \A k \in Nat : Pieces(wire, t, k) \in Nat /\ Pieces(wire', t, k) \in Nat
                             /\ \A k \in Nat : Pieces(queue, t, k) \in Nat /\ Pieces(queue', t, k) \in Nat
         /\ \A k \in DOMAIN wire : k \in Nat /\ (wire[k].kind = "history" => wire[k].text \in Texts)
         /\ \A k \in DOMAIN queue : k \in Nat /\ (queue[k].kind = "apply" => queue[k].text \in Texts)
         /\ read.at = "asked" => read.text \in Texts
         /\ wire \in Seq(Lines) /\ wire' \in Seq(Lines) /\ queue' \in Seq(Tasks) /\ queue \in Seq(Tasks)
<1>1. RecordOK' /\ ServerOK' /\ WireOK' /\ QueueOK'
  BY RecordAlways, ServerAlways, WireAlways, QueueAlways
<1>2. wire \in Seq(Lines) /\ wire' \in Seq(Lines) /\ queue' \in Seq(Tasks) /\ queue \in Seq(Tasks)
  BY <1>1 DEF TypeInv, WireOK, QueueOK
<1>3. Len(wire) \in Nat /\ Len(wire') \in Nat /\ Len(queue) \in Nat /\ Len(queue') \in Nat /\ 0 \in Nat
  BY <1>2
<1>4. \A t \in Turns : projected[t] \in Nat /\ projected'[t] \in Nat /\ said[t] \in Nat /\ said'[t] \in Nat
  BY <1>1, TurnControlAssumption DEF TypeInv, RecordOK, ServerOK, Texts
<1>5. \A k \in DOMAIN wire : k \in Nat /\ (wire[k].kind = "history" => wire[k].text \in Texts)
  <2>1. \A k \in DOMAIN wire : k \in Nat /\ wire[k] \in Lines
    BY <1>2
  <2> QED BY <2>1, LineParts DEF HistoryLine
<1>6. \A k \in DOMAIN queue : k \in Nat /\ (queue[k].kind = "apply" => queue[k].text \in Texts)
  <2>1. \A k \in DOMAIN queue : k \in Nat /\ queue[k] \in Tasks
    BY <1>2
  <2> QED BY <2>1, TaskParts DEF ApplyTask
<1>7. read.at = "asked" => read.text \in Texts
  BY DEF TypeInv, ReadOK
<1>8. \A t \in Turns, k \in Nat : /\ Pieces(wire, t, k) \in Nat /\ Pieces(wire', t, k) \in Nat
                                  /\ Pieces(queue, t, k) \in Nat /\ Pieces(queue', t, k) \in Nat
  BY <1>3, PiecesAreNat
<1> QED BY <1>2, <1>3, <1>4, <1>5, <1>6, <1>7, <1>8

(* A recovery that is applied shows no more than was said *)
LEMMA AppliedShows ==
  ASSUME TypeInv, NativeInv, ReadInv, OutputInv, SnapshotInv, Next, HistoryApplied
  PROVE  \A t \in Turns :
           /\ projected'[t] = Task.text[t] /\ Pieces(queue', t, 0) = 0
           /\ projected[t] + Pieces(queue, t, 0) <= Task.text[t]
<1>1. /\ queue # <<>> /\ Task.kind = "apply" /\ projected' = Task.text /\ ~changed
      /\ Release \/ \E e \in Tasks : Moved(e, "complete")
  BY ApplyShape DEF ApplyStep, HistoryApplied, Unmoved, TypeInv
<1>2. 1 \in DOMAIN queue /\ queue \in Seq(Tasks) /\ QueueOK
  BY <1>1, QueueParts DEF TypeInv
<1>3. ASSUME NEW t \in Turns
      PROVE  Pieces(queue, t, 1) = 0 /\ projected[t] + Pieces(queue, t, 0) <= Task.text[t]
  BY <1>1, <1>2 DEF SnapshotInv, ShownIsApplied, Task
<1>4. CASE Release
  <2>1. queue' = Tail(queue) /\ 1 \in 1 .. Len(queue) /\ 1 - 1 = 0
    BY <1>2, <1>4 DEF Release
  <2>2. \A t \in Turns : Pieces(queue', t, 1 - 1) = Pieces(queue, t, 1)
    BY <1>1, <1>2, <2>1, PiecesShifted
  <2> QED BY <1>1, <1>3, <2>1, <2>2
<1>5. ASSUME NEW e \in Tasks, Moved(e, "complete") PROVE \A t \in Turns : Pieces(queue', t, 0) = 0
  <2>1. queue' = [queue EXCEPT ![1] = e] /\ e.kind = "apply"
    BY <1>1, <1>5 DEF Moved, SameTask
  <2>2. \A t \in Turns : Pieces(queue', t, 1) = Pieces(queue, t, 1)
    BY <1>1, <1>2, <2>1, HeadAsks
  <2>3. queue' \in Seq(Tasks) /\ queue' # <<>> /\ queue'[1] = e
    BY <1>1, <1>2, <2>1, NewHead
  <2>4. \A t \in Turns : Pieces(queue', t, 0) = Pieces(queue', t, 1) + (IF IsPiece(e, t) THEN 1 ELSE 0)
    BY <2>3, PiecesFirst
  <2>5. \A t \in Turns : (IF IsPiece(e, t) THEN 1 ELSE 0) = 0
    BY <2>1 DEF IsPiece
  <2>6. 0 + 0 = 0
    OBVIOUS
  <2> QED BY <1>3, <2>2, <2>4, <2>5, <2>6
<1> QED BY <1>1, <1>3, <1>4, <1>5

LEMMA ShownAlways ==
  ASSUME TypeInv, NativeInv, ReadInv, OutputInv, SnapshotInv, Next
  PROVE  ShownWasSaid'
<1>0. TellsMore
  BY WireTells
<1> SUFFICES ASSUME NEW t \in Turns
             PROVE  projected'[t] + Pieces(queue', t, 0) + Pieces(wire', t, 0) <= said'[t]
  BY DEF ShownWasSaid
<1>1. /\ projected[t] + Pieces(queue, t, 0) + Pieces(wire, t, 0) <= said[t]
      /\ Pieces(wire', t, 0) + said[t] <= Pieces(wire, t, 0) + said'[t]
  BY <1>0 DEF OutputInv, ShownWasSaid, TellsMore
<1>2. /\ projected[t] \in Nat /\ projected'[t] \in Nat /\ said[t] \in Nat /\ said'[t] \in Nat
      /\ Pieces(queue, t, 0) \in Nat /\ Pieces(queue', t, 0) \in Nat
      /\ Pieces(wire, t, 0) \in Nat /\ Pieces(wire', t, 0) \in Nat
  BY OutputTyped
<1>3. CASE HandleLine
  <2>1. /\ projected'[t] = projected[t] /\ said'[t] = said[t]
        /\ Pieces(queue', t, 0) + Pieces(wire', t, 0) <= Pieces(queue, t, 0) + Pieces(wire, t, 0)
    BY <1>3, LineShows
  <2> QED BY <1>1, <1>2, <2>1
<1>4. CASE HistoryApplied
  <2>1. projected'[t] = Task.text[t] /\ Pieces(queue', t, 0) = 0
    BY <1>4, AppliedShows
  <2>2. queue # <<>> /\ Task.kind = "apply" /\ 1 \in DOMAIN queue
    BY <1>4, ApplyShape, QueueParts DEF ApplyStep, TypeInv
  <2>3. Task.text[t] + Pieces(wire, t, 0) <= said[t]
    BY <2>2 DEF OutputInv, AppliedWasSaid, Task
  <2> QED BY <1>1, <1>2, <2>1, <2>3
<1>5. CASE ~HandleLine /\ ~HistoryApplied
  <2>1. projected'[t] + Pieces(queue', t, 0) <= projected[t] + Pieces(queue, t, 0)
    BY <1>5, QueueShows DEF ShowsLess
  <2> QED BY <1>1, <1>2, <2>1
<1> QED BY <1>3, <1>4, <1>5

LEMMA OutputAlways ==
  ASSUME TypeInv, NativeInv, ReadInv, OutputInv, SnapshotInv, Next
  PROVE  OutputInv'
<1>0. TellsMore /\ (~AnswerHistory => HistoriesStay) /\ wire' \in Seq(Lines)
  BY WireTells, OutputTyped
<1>1. AskedWasSaid'
  <2> SUFFICES ASSUME read'.at = "asked", NEW t \in Turns PROVE read'.text[t] <= said'[t]
    BY DEF AskedWasSaid
  <2>1. CASE ReadHistory
    <3>1. read'.text[t] = said[t] /\ said'[t] = said[t]
      BY <2>1 DEF ReadHistory
    <3>2. said[t] \in Nat
      BY OutputTyped
    <3> QED BY <3>1, <3>2
  <2>2. CASE ~ReadHistory
    <3>1. read' = read
      BY <2>2, AskedStays
    <3>2. read.text[t] <= said[t] /\ said[t] <= said'[t]
      BY <1>0, <3>1 DEF OutputInv, AskedWasSaid, TellsMore
    <3>3. read.text[t] \in Nat /\ said[t] \in Nat /\ said'[t] \in Nat
      BY <3>1, OutputTyped DEF Texts
    <3> QED BY <3>1, <3>2, <3>3
  <2> QED BY <2>1, <2>2
<1>2. HistoryWasSaid'
  <2> SUFFICES ASSUME NEW k \in DOMAIN wire', wire'[k].kind = "history", NEW t \in Turns
               PROVE  wire'[k].text[t] + Pieces(wire', t, k) <= said'[t]
    BY DEF HistoryWasSaid
  <2>1. CASE AnswerHistory
    <3>1. PICK e \in Lines : wire' = Append(wire, e) /\ e.text = read.text
      BY <2>1, AnswerShape DEF Sent, TypeInv
    <3>2. read.at = "asked" /\ said' = said
      BY <2>1 DEF AnswerHistory
    <3>3. NoHistory
      BY <3>2, RecoveryIsOne
    <3>4. /\ DOMAIN wire' = DOMAIN wire \cup {Len(wire) + 1} /\ wire'[Len(wire) + 1] = e
          /\ \A i \in DOMAIN wire : wire'[i] = wire[i]
          /\ Len(wire') = Len(wire) + 1 /\ Len(wire) \in Nat
      <4>1. wire \in Seq(Lines)
        BY DEF TypeInv, WireOK
      <4> QED BY <3>1, <4>1, Appended
    <3>5. k = Len(wire')
      BY <3>3, <3>4 DEF NoHistory
    <3>6. Pieces(wire', t, Len(wire')) = 0
      BY <3>4, PiecesAtEnd
    <3>7. read.text[t] <= said[t] /\ read.text[t] \in Nat
      BY <3>2, OutputTyped DEF OutputInv, AskedWasSaid, Texts
    <3> QED BY <3>1, <3>2, <3>4, <3>5, <3>6, <3>7
  <2>2. CASE ~AnswerHistory
    <3>1. PICK j \in DOMAIN wire :
            wire[j] = wire'[k] /\ Pieces(wire', t, k) + said[t] <= Pieces(wire, t, j) + said'[t]
      BY <1>0, <2>2 DEF HistoriesStay
    <3>2. wire[j].text[t] + Pieces(wire, t, j) <= said[t]
      BY <3>1 DEF OutputInv, HistoryWasSaid
    <3>3. k \in Nat
      BY <1>0
    <3>4. /\ wire[j].text[t] \in Nat /\ said[t] \in Nat /\ said'[t] \in Nat
          /\ Pieces(wire, t, j) \in Nat /\ Pieces(wire', t, k) \in Nat
      BY <3>1, <3>3, OutputTyped DEF Texts
    <3> QED BY <3>1, <3>2, <3>4
  <2> QED BY <2>1, <2>2
<1>3. AppliedWasSaid'
  <2> SUFFICES ASSUME NEW k \in DOMAIN queue', queue'[k].kind = "apply", NEW t \in Turns
               PROVE  queue'[k].text[t] + Pieces(wire', t, 0) <= said'[t]
    BY DEF AppliedWasSaid
  <2>1. ASSUME NEW j \in DOMAIN queue, queue[j].kind = "apply", queue[j].text = queue'[k].text
        PROVE  queue'[k].text[t] + Pieces(wire', t, 0) <= said'[t]
    <3>1. queue[j].text[t] + Pieces(wire, t, 0) <= said[t]
      BY <2>1 DEF OutputInv, AppliedWasSaid
    <3>2. Pieces(wire', t, 0) + said[t] <= Pieces(wire, t, 0) + said'[t]
      BY <1>0 DEF TellsMore
    <3>3. /\ queue[j].text[t] \in Nat /\ said[t] \in Nat /\ said'[t] \in Nat
          /\ Pieces(wire, t, 0) \in Nat /\ Pieces(wire', t, 0) \in Nat
      BY <2>1, OutputTyped DEF Texts
    <3> QED BY <2>1, <3>1, <3>2, <3>3
  <2>2. CASE ~(HandleLine /\ wire[1].kind = "history")
    BY <2>1, <2>2, AppliesAreOld DEF OldApplies
  <2>3. CASE HandleLine /\ wire[1].kind = "history"
    <3>1. wire # <<>> /\ wire[1] \in Lines /\ History(wire[1]) /\ wire' = Tail(wire) /\ said' = said
      BY <2>3, LineShape DEF TypeInv, WireOK
    <3>2. PICK e \in Tasks : queue' = Append(queue, e) /\ e.text = wire[1].text
      BY <2>3, <3>1, HistoryShape DEF Queued
    <3>3. /\ DOMAIN queue' = DOMAIN queue \cup {Len(queue) + 1} /\ queue'[Len(queue) + 1] = e
          /\ \A i \in DOMAIN queue : queue'[i] = queue[i]
      <4>1. queue \in Seq(Tasks)
        BY DEF TypeInv, QueueOK
      <4> QED BY <3>2, <4>1, Appended
    <3>4. CASE k \in DOMAIN queue
      BY <2>1, <3>3, <3>4
    <3>5. CASE k = Len(queue) + 1
      <4>1. 1 \in DOMAIN wire
        BY <3>1, OutputTyped, Rest1
      <4>2. wire[1].text[t] + Pieces(wire, t, 1) <= said[t]
        BY <2>3, <4>1 DEF OutputInv, HistoryWasSaid
      <4>3. Pieces(wire, t, 1) = Pieces(wire', t, 0)
        BY <3>1, LineLeaves
      <4> QED BY <3>1, <3>2, <3>3, <3>5, <4>2, <4>3
    <3> QED BY <3>3, <3>4, <3>5
  <2> QED BY <2>2, <2>3
<1> QED BY <1>1, <1>2, <1>3, ShownAlways DEF OutputInv

(* A baseline that was the same stays the same, but for a handler that moves *)
(* the epoch                                                                 *)
LEMMA BaselineKept ==
  ASSUME TypeInv, Next, ~TouchesRead, ~changed', read'.at \in {"asked", "sent", "read"}
  PROVE  read' = read /\ changed' = changed /\ ~changed
<1>1. read' = read /\ (changed' = changed \/ Bump)
  BY ReadSteps
<1>2. Watching
  BY <1>1 DEF Watching
<1>3. ~Bump
  BY <1>2 DEF Bump
<1> QED BY <1>1, <1>3

LEMMA SnapshotIdle ==
  ASSUME ReadInv', read'.at \notin {"asked", "sent", "read"}
  PROVE  SnapshotInv'
BY DEF ReadInv, SnapshotInv, ShownWasAsked, ShownIsInHistory, ShownIsApplied

(* A step that shows no more, while the recovery goes on *)
LEMMA SnapshotKept ==
  ASSUME TypeInv, NativeInv, ReadInv, SnapshotInv, Next, ~changed, ShowsLess, AppliesStay,
         \A k \in DOMAIN wire' : wire'[k].kind = "history" => \E j \in DOMAIN wire : wire[j] = wire'[k],
         read'.at = "asked" => read' = read
  PROVE  SnapshotInv'
<1>1. /\ \A t \in Turns : /\ projected[t] \in Nat /\ projected'[t] \in Nat
                          /\ Pieces(queue, t, 0) \in Nat /\ Pieces(queue', t, 0) \in Nat
      /\ \A k \in DOMAIN wire : wire[k].kind = "history" => wire[k].text \in Texts
      /\ \A k \in DOMAIN queue : queue[k].kind = "apply" => queue[k].text \in Texts
      /\ read.at = "asked" => read.text \in Texts
  BY OutputTyped
<1>2. ASSUME NEW t \in Turns, NEW n \in Nat, projected[t] + Pieces(queue, t, 0) <= n
      PROVE  projected'[t] + Pieces(queue', t, 0) <= n
  <2>1. projected'[t] + Pieces(queue', t, 0) <= projected[t] + Pieces(queue, t, 0)
    BY DEF ShowsLess
  <2> QED BY <1>1, <1>2, <2>1
<1>3. ShownWasAsked'
  <2> SUFFICES ASSUME read'.at = "asked", NEW t \in Turns
               PROVE  projected'[t] + Pieces(queue', t, 0) <= read'.text[t]
    BY DEF ShownWasAsked
  <2>1. read' = read /\ read.text[t] \in Nat /\ projected[t] + Pieces(queue, t, 0) <= read.text[t]
    BY <1>1 DEF SnapshotInv, ShownWasAsked, Texts
  <2> QED BY <1>2, <2>1
<1>4. ShownIsInHistory'
  <2> SUFFICES ASSUME NEW k \in DOMAIN wire', wire'[k].kind = "history", NEW t \in Turns
               PROVE  projected'[t] + Pieces(queue', t, 0) <= wire'[k].text[t]
    BY DEF ShownIsInHistory
  <2>1. PICK j \in DOMAIN wire : wire[j] = wire'[k]
    OBVIOUS
  <2>2. wire[j].text[t] \in Nat /\ projected[t] + Pieces(queue, t, 0) <= wire[j].text[t]
    BY <1>1, <2>1 DEF SnapshotInv, ShownIsInHistory, Texts
  <2>3. projected'[t] + Pieces(queue', t, 0) <= wire[j].text[t]
    BY <1>2, <2>2
  <2> QED BY <2>1, <2>3
<1>5. ShownIsApplied'
  <2> SUFFICES ASSUME NEW k \in DOMAIN queue', queue'[k].kind = "apply", NEW t \in Turns
               PROVE  /\ projected'[t] + Pieces(queue', t, 0) <= queue'[k].text[t]
                      /\ Pieces(queue', t, k) = 0
    BY DEF ShownIsApplied
  <2>1. PICK j \in DOMAIN queue : queue[j] = queue'[k] /\ Pieces(queue', t, k) = Pieces(queue, t, j)
    BY DEF AppliesStay
  <2>2. /\ queue[j].text[t] \in Nat /\ projected[t] + Pieces(queue, t, 0) <= queue[j].text[t]
        /\ Pieces(queue, t, j) = 0
    BY <1>1, <2>1 DEF SnapshotInv, ShownIsApplied, Texts
  <2>3. projected'[t] + Pieces(queue', t, 0) <= queue[j].text[t]
    BY <1>2, <2>2
  <2> QED BY <2>1, <2>2, <2>3
<1> QED BY <1>3, <1>4, <1>5 DEF SnapshotInv

LEMMA SnapshotAlways ==
  ASSUME TypeInv, NativeInv, ReadInv, OutputInv, SnapshotInv, Next
  PROVE  SnapshotInv'
<1>0. ReadInv' /\ wire \in Seq(Lines) /\ queue \in Seq(Tasks) /\ QueueOK
  BY ReadAlways, OutputTyped DEF TypeInv
<1>1. CASE read'.at \notin {"asked", "sent", "read"}
  BY <1>0, <1>1, SnapshotIdle
<1> SUFFICES ASSUME read'.at \in {"asked", "sent", "read"}, ~changed' PROVE SnapshotInv'
  BY <1>1 DEF SnapshotInv
<1>2. CASE ReadHistory
  <2>1. /\ read'.at = "asked" /\ read'.text = said /\ projected' = projected /\ queue' = queue
    BY <1>2 DEF ReadHistory, store
  <2>2. ASSUME NEW t \in Turns PROVE projected'[t] + Pieces(queue', t, 0) <= read'.text[t]
    <3>1. projected[t] + Pieces(queue, t, 0) + Pieces(wire, t, 0) <= said[t]
      BY DEF OutputInv, ShownWasSaid
    <3>2. /\ projected[t] \in Nat /\ Pieces(queue, t, 0) \in Nat /\ Pieces(wire, t, 0) \in Nat /\ said[t] \in Nat
      BY OutputTyped
    <3>3. projected[t] + Pieces(queue, t, 0) <= said[t]
      BY <3>1, <3>2
    <3> QED BY <2>1, <3>3
  <2>3. ShownIsInHistory' /\ ShownIsApplied'
    BY <1>0, <2>1 DEF ReadInv, ShownIsInHistory, ShownIsApplied
  <2> QED BY <2>2, <2>3 DEF SnapshotInv, ShownWasAsked
<1>3. CASE AnswerHistory
  <2>1. read.at = "asked" /\ read'.at = "sent" /\ ~changed /\ projected' = projected /\ queue' = queue
    BY <1>3 DEF AnswerHistory, store
  <2>2. PICK e \in Lines : wire' = Append(wire, e) /\ e.text = read.text
    BY <1>3, AnswerShape DEF Sent, TypeInv
  <2>3. /\ DOMAIN wire' = DOMAIN wire \cup {Len(wire) + 1} /\ wire'[Len(wire) + 1] = e
        /\ \A i \in DOMAIN wire : wire'[i] = wire[i]
    BY <1>0, <2>2, Appended
  <2>4. NoHistory
    BY <2>1, RecoveryIsOne
  <2>5. ShownIsInHistory'
    <3> SUFFICES ASSUME NEW k \in DOMAIN wire', wire'[k].kind = "history", NEW t \in Turns
                 PROVE  projected'[t] + Pieces(queue', t, 0) <= wire'[k].text[t]
      BY DEF ShownIsInHistory
    <3>1. wire'[k] = e
      BY <2>3, <2>4 DEF NoHistory
    <3>2. projected[t] + Pieces(queue, t, 0) <= read.text[t]
      BY <2>1 DEF SnapshotInv, ShownWasAsked
    <3> QED BY <2>1, <2>2, <3>1, <3>2
  <2>6. ShownWasAsked' /\ ShownIsApplied'
    BY <1>0, <2>1 DEF ReadInv, ShownWasAsked, ShownIsApplied
  <2> QED BY <2>5, <2>6 DEF SnapshotInv
<1>4. CASE HandleLine /\ wire[1].kind = "history"
  <2>1. wire # <<>> /\ wire[1] \in Lines /\ History(wire[1])
    BY <1>4, LineShape, <1>0
  <2>2. 1 \in DOMAIN wire
    BY <1>0, <2>1, Rest1
  <2>3. read.at = "sent" /\ ~changed /\ read' = [read EXCEPT !.at = "read"]
    BY <1>4, <2>1, <2>2 DEF ReadInv, History
  <2>4. read = [at |-> read.at, turn |-> read.turn]
    BY <2>3 DEF TypeInv, ReadOK
  <2>5. read'.at = "read"
    BY <2>3, <2>4
  <2>6. PICK e \in Tasks : queue' = Append(queue, e) /\ e.text = wire[1].text
    BY <1>4, <2>1, HistoryShape DEF Queued
  <2>7. /\ DOMAIN queue' = DOMAIN queue \cup {Len(queue) + 1} /\ queue'[Len(queue) + 1] = e
        /\ \A i \in DOMAIN queue : queue'[i] = queue[i]
        /\ Len(queue') = Len(queue) + 1 /\ Len(queue) \in Nat
    BY <1>0, <2>6, Appended
  <2>8. NoRecovery
    BY <2>3, RecoveryIsOne
  <2>9. ShownIsApplied'
    <3> SUFFICES ASSUME NEW k \in DOMAIN queue', queue'[k].kind = "apply", NEW t \in Turns
                 PROVE  /\ projected'[t] + Pieces(queue', t, 0) <= queue'[k].text[t]
                        /\ Pieces(queue', t, k) = 0
      BY DEF ShownIsApplied
    <3>1. queue'[k] = e /\ k = Len(queue')
      BY <2>7, <2>8 DEF NoRecovery
    <3>2. projected[t] + Pieces(queue, t, 0) <= wire[1].text[t]
      BY <1>4, <2>2, <2>3 DEF SnapshotInv, ShownIsInHistory
    <3>3. projected' = projected /\ Pieces(queue', t, 0) = Pieces(queue, t, 0)
      BY <1>4, LineShows
    <3>4. Pieces(queue', t, Len(queue')) = 0
      BY <2>7, PiecesAtEnd
    <3> QED BY <2>6, <3>1, <3>2, <3>3, <3>4
  <2>10. ShownWasAsked' /\ ShownIsInHistory'
    BY <1>0, <2>5 DEF ReadInv, ShownWasAsked, ShownIsInHistory
  <2> QED BY <2>9, <2>10 DEF SnapshotInv
<1>5. CASE HandleLine /\ wire[1].kind # "history"
  <2>0. /\ wire[1] \in Lines /\ wire # <<>> /\ wire' = Tail(wire) /\ said' = said
        /\ \/ TurnResponse(wire[1])
           \/ wire[1].kind \in {"started", "text", "ended"} /\ Notify(wire[1])
           \/ wire[1].kind = "request" /\ AskApproval(wire[1])
    BY <1>0, <1>5, LineShape
  <2>1. read' = read /\ (changed' = changed \/ Bump)
    BY <2>0 DEF TurnResponse, Notify, AskApproval, recovery
  <2>a. read' = read
    BY <2>1
  <2>b. Watching
    BY <2>a DEF Watching
  <2>c. ~Bump
    BY <2>b DEF Bump
  <2>2. read' = read /\ ~changed /\ ~Bump
    BY <2>1, <2>c
  <2>3. queue' = queue
    BY <2>0, <2>2 DEF TurnResponse, Notify, AskApproval
  <2>4. AppliesStay
    BY <2>3 DEF AppliesStay
  <2>5. ShowsLess
    <3>1. projected' = projected /\ \A t \in Turns : projected[t] \in Nat /\ Pieces(queue, t, 0) \in Nat
      BY <1>5, LineShows, OutputTyped
    <3> QED BY <2>3, <3>1 DEF ShowsLess
  <2>6. \A k \in DOMAIN wire' : wire'[k].kind = "history" => \E j \in DOMAIN wire : wire[j] = wire'[k]
    BY <2>0, LineLeaves DEF HistoriesStay
  <2> QED BY <2>2, <2>4, <2>5, <2>6, SnapshotKept
<1>6. CASE HistoryApplied
  <2>1. queue # <<>> /\ Task.kind = "apply"
    BY <1>6, <1>0, ApplyShape DEF ApplyStep
  <2>2. GoTo("complete") /\ read' = read
    BY <1>6 DEF HistoryApplied, NoRead
  <2>3. PICK e \in Tasks : Moved(e, "complete")
    BY <1>0, <2>1, <2>2, GoToMoves DEF Places
  <2>4. /\ queue' = [queue EXCEPT ![1] = e] /\ e.kind = "apply" /\ e.text = Task.text
    BY <2>1, <2>3 DEF Moved, SameTask
  <2>5. DOMAIN queue' = DOMAIN queue /\ queue'[1] = e /\ 1 \in DOMAIN queue
    BY <1>0, <2>1, <2>4, NewHead
  <2>6. read'.at = "read" /\ \A k \in DOMAIN queue' : queue'[k].kind = "apply" => k = 1
    BY <1>0, <2>4, <2>5 DEF ReadInv
  <2>7. ShownIsApplied'
    <3> SUFFICES ASSUME NEW t \in Turns
                 PROVE  /\ projected'[t] + Pieces(queue', t, 0) <= e.text[t]
                        /\ Pieces(queue', t, 1) = 0
      BY <2>5, <2>6 DEF ShownIsApplied
    <3>1. projected'[t] = e.text[t] /\ Pieces(queue', t, 0) = 0
      BY <1>6, <2>4, AppliedShows
    <3>2. Pieces(queue', t, 1) = Pieces(queue, t, 1)
      BY <1>0, <2>1, <2>4, <2>5, HeadAsks
    <3>3. ~changed
      BY <1>6 DEF HistoryApplied, Unmoved
    <3>4. Pieces(queue, t, 1) = 0
      BY <2>1, <2>5, <3>3 DEF SnapshotInv, ShownIsApplied, Task
    <3>5. projected'[t] \in Nat
      BY OutputTyped
    <3> QED BY <3>1, <3>2, <3>4, <3>5
  <2>8. ShownWasAsked' /\ ShownIsInHistory'
    BY <1>0, <2>6 DEF ReadInv, ShownWasAsked, ShownIsInHistory
  <2> QED BY <2>7, <2>8 DEF SnapshotInv
<1>7. CASE Exit
  <2>1. read' = read /\ changed' = changed /\ wire' = <<>>
    BY <1>7 DEF Exit, recovery, NoRead
  <2>2. AppliesStay /\ ShowsLess
    <3>1. QueueStep({"cancel"}) /\ {"cancel"} \cap {"text", "apply"} = {}
      BY <1>0, <1>7, ExitShape DEF QueueStep
    <3>2. AppliesStay /\ \A t \in Turns : Pieces(queue', t, 0) = Pieces(queue, t, 0)
      BY <1>0, <3>1, QueueAsks
    <3>3. projected' = projected /\ \A t \in Turns : projected[t] \in Nat /\ Pieces(queue, t, 0) \in Nat
      BY <1>7, OutputTyped DEF Exit, store
    <3> QED BY <3>2, <3>3 DEF ShowsLess
  <2> QED BY <2>1, <2>2, SnapshotKept
<1>8. CASE ~HandleLine /\ ~HistoryApplied /\ ~ReadHistory /\ ~AnswerHistory /\ ~Exit
  <2>1. ~TouchesRead
    <3>1. ~Recover /\ ~ReadFails
      BY DEF Recover, ReadFails, NoRead
    <3>2. ~HistoryRefused /\ ~HistorySettles
      BY DEF HistoryRefused, HistorySettles, NoRead
    <3>3. ~TakeBaseline
      <4> SUFFICES ASSUME TakeBaseline PROVE FALSE
        OBVIOUS
      <4>1. \E i \in DOMAIN queue : queue[i].kind = "baseline"
        BY <1>0, BaselineShape, QueueParts DEF Task
      <4>2. read.at = "waiting" /\ read' = [read EXCEPT !.at = "reading"]
        BY <4>1 DEF ReadInv, TakeBaseline
      <4>3. read = [at |-> read.at, turn |-> read.turn]
        BY <4>2 DEF TypeInv, ReadOK
      <4> QED BY <4>2, <4>3
    <3> QED BY <1>8, <3>1, <3>2, <3>3 DEF TouchesRead, ApplyStep
  <2>2. read' = read /\ changed' = changed /\ ~changed
    BY <2>1, BaselineKept
  <2>3. \A k \in DOMAIN wire' : wire'[k].kind = "history" => \E j \in DOMAIN wire : wire[j] = wire'[k]
    BY <2>1, ReadCarries DEF Carries
  <2> QED BY <1>8, <2>2, <2>3, QueueShows, SnapshotKept
<1> QED BY <1>2, <1>3, <1>4, <1>5, <1>6, <1>7, <1>8

-----------------------------------------------------------------------------
(* The invariant *)

LEMMA TurnInitially == Init => TurnInv
<1> SUFFICES ASSUME Init PROVE TurnInv
  OBVIOUS
<1> USE DEF Init
<1>1. 1 \in Flows /\ Flows = Turns
  BY TurnControlAssumption DEF Flows, Turns
<1>2. RecordOK /\ MapsOK /\ FlowsOK /\ AnswersOK /\ CountsOK
  BY <1>1 DEF RecordOK, MapsOK, FlowsOK, AnswersOK, CountsOK, Texts
<1>3. ServerOK /\ ReadOK
  <2>1. 0 \in 0 .. MaxText /\ native \in Shown
    BY TurnControlAssumption DEF Shown, Natives
  <2>2. ServerOK
    BY <2>1 DEF ServerOK
  <2>3. read.at = "none"
    BY DEF NoRead
  <2>4. ReadOK
    BY <2>3 DEF ReadOK
  <2> QED BY <2>2, <2>4
<1>4. queue \in Seq(Tasks) /\ wire \in Seq(Lines) /\ DOMAIN queue = {} /\ DOMAIN wire = {}
      /\ Len(queue) = 0 /\ Len(wire) = 0
  OBVIOUS
<1>5. QueueOK /\ WireOK /\ CancelInv
  BY <1>4 DEF QueueOK, WireOK, CancelInv, Holds
<1>6. NativeInv /\ PlaceInv /\ KeptInv /\ DecisionInv
  BY <1>4 DEF NativeInv, PlaceInv, PlaceOf, NeverAsked, KeptInv, KeptOf, Unanswered, DecisionInv, StoreTellsTheAnswer
<1>7. StatusInv
  BY <1>1, <1>4 DEF StatusInv, Fresh, Preparing, Flows, Turns
<1>8. EndInv
  BY <1>4 DEF EndInv, EndsFollow, InTurn, Holds
<1>9. ReadInv
  BY <1>4 DEF ReadInv, NoRead
<1>10. \A t \in Turns : Pieces(queue, t, 0) = 0 /\ Pieces(wire, t, 0) = 0
  BY <1>4, PiecesAtEnd
<1>11. OutputInv /\ SnapshotInv
  BY <1>4, <1>10 DEF OutputInv, ShownWasSaid, AskedWasSaid, HistoryWasSaid, AppliedWasSaid, SnapshotInv, ShownWasAsked,
                     ShownIsInHistory, ShownIsApplied, NoRead
<1> QED BY <1>2, <1>3, <1>5, <1>6, <1>7, <1>8, <1>9, <1>11 DEF TurnInv, TypeInv

LEMMA TurnNext == TurnInv /\ [Next]_vars => TurnInv'
<1> SUFFICES ASSUME TurnInv, [Next]_vars PROVE TurnInv'
  OBVIOUS
<1> USE DEF TurnInv
<1>1. CASE Next
  <2>1. TypeInv'
    BY <1>1, RecordAlways, MapsAlways, FlowsAlways, ServerAlways, PlaceAlways, ReadAlways, CountsAlways, QueueAlways,
       WireAlways DEF TypeInv
  <2> QED BY <1>1, <2>1, ServerAlways, PlaceAlways, DecisionAlways, StatusAlways, EndAlways, ReadAlways, OutputAlways,
             SnapshotAlways
<1>2. CASE UNCHANGED vars
  <2> USE <1>2 DEF vars, store, maps, recovery, server, counts
  <2>1. TypeInv'
    BY DEF TypeInv, RecordOK, MapsOK, FlowsOK, ServerOK, AnswersOK, ReadOK, CountsOK, QueueOK, WireOK, CancelInv,
           Holds, Task
  <2>2. NativeInv' /\ PlaceInv' /\ KeptInv'
    BY DEF NativeInv, PlaceInv, PlaceOf, NeverAsked, Waits, KeptInv, KeptOf, Unanswered, InWire, InQueue
  <2>3. DecisionInv' /\ StatusInv'
    BY DEF DecisionInv, StoreTellsTheAnswer, StatusInv, Fresh, InTurn, Holds
  <2>4. EndInv' /\ ReadInv'
    BY DEF EndInv, EndsFollow, EndBehind, EndKnown, InTurn, Holds, ReadInv
  <2>5. OutputInv' /\ SnapshotInv'
    BY DEF OutputInv, ShownWasSaid, AskedWasSaid, HistoryWasSaid, AppliedWasSaid, SnapshotInv, ShownWasAsked,
           ShownIsInHistory, ShownIsApplied
  <2> QED BY <2>1, <2>2, <2>3, <2>4, <2>5
<1> QED BY <1>1, <1>2

(* In every reachable state the invariant holds. *)
THEOREM TurnIsSound == Spec => []TurnInv
<1> QED BY TurnInitially, TurnNext, PTL DEF Spec

(* What Codex was told of a request and what the record says of it are the *)
(* same thing and were said once: a declined failure, a decision and a     *)
(* second decision of one approval never both reach the App Server         *)
(* (controller.ts: handleServerRequest, decideApproval).                   *)
THEOREM DecisionsHoldAlways == Spec => []DecisionsHold
<1>1. TurnInv => DecisionsHold
  <2> SUFFICES ASSUME TurnInv PROVE DecisionsHold
    OBVIOUS
  <2>1. \A r \in Requests : answers[r] \in {<<>>, <<"accept">>, <<"decline">>}
    BY DEF TurnInv, TypeInv, AnswersOK
  <2>2. \A s \in {<<>>, <<"accept">>, <<"decline">>} : Len(s) <= 1
    OBVIOUS
  <2> QED BY <2>1, <2>2 DEF DecisionsHold, AnsweredOnce, TurnInv, DecisionInv
<1> QED BY <1>1, TurnIsSound, PTL

(* Neither a request of Codex nor the end of a turn is forgotten, in         *)
(* whichever order requests, answers, notifications and exits arrive          *)
(* (controller.ts: handleNotification, handleServerRequest, handleExit,       *)
(* execute).                                                                  *)
THEOREM NothingIsForgottenAlways == Spec => []NothingIsForgotten
<1>1. TurnInv => NothingIsForgotten
  <2> SUFFICES ASSUME TurnInv PROVE NothingIsForgotten
    OBVIOUS
  <2>1. RequestsNotForgotten
    BY DEF TurnInv, KeptInv, KeptOf, RequestsNotForgotten
  <2>2. ASSUME Idle, ~Settled PROVE InTurn
    <3>1. \A f \in Flows : flows[f] \notin Preparing
      BY <2>2 DEF Idle, Preparing
    <3>2. status \notin {"queued", "preparing"}
      BY <3>1 DEF TurnInv, StatusInv
    <3> QED BY <2>2, <3>2 DEF TurnInv, TypeInv, RecordOK, Settled, InTurn
  <2>3. ASSUME Idle, InTurn, faults = 0, exits = 0 PROVE native[turn] = "running" /\ Mapped(turn)
    <3>1. turn \in byTurn /\ EndKnown(turn)
      BY <2>3 DEF TurnInv, EndInv
    <3>2. DOMAIN wire = {} /\ DOMAIN queue = {}
      BY <2>3 DEF Idle
    <3> QED BY <3>1, <3>2 DEF EndKnown, Mapped
  <2> QED BY <2>1, <2>2, <2>3 DEF NothingIsForgotten, NoTurnIsMissed
<1> QED BY <1>1, TurnIsSound, PTL

(* A history read never takes output away that a notification brought: its *)
(* baseline and the epoch refuse a snapshot that is older than what is     *)
(* shown (controller.ts: readActiveConversation).                          *)
THEOREM RecoveryNeverRegressesAlways == Spec => RecoveryNeverRegresses
<1>1. ASSUME TurnInv, [Next]_vars, NEW t \in Turns PROVE projected'[t] >= projected[t]
  <2> USE DEF TurnInv
  <2>0. projected[t] \in Nat
    BY <1>1 DEF TypeInv, RecordOK, Texts
  <2>1. CASE UNCHANGED vars
    BY <2>0, <2>1 DEF vars, store
  <2>2. CASE Next /\ TextArrived
    <3>1. projected' = [projected EXCEPT ![Task.turn] = @ + 1]
      BY <2>2 DEF TextArrived
    <3>2. projected'[t] \in {projected[t], projected[t] + 1}
      BY <1>1, <3>1 DEF TypeInv, RecordOK, Texts
    <3> QED BY <2>0, <3>2
  <2>3. CASE Next /\ HistoryApplied
    <3>1. projected'[t] = Task.text[t] /\ projected[t] + Pieces(queue, t, 0) <= Task.text[t]
      BY <1>1, <2>3, AppliedShows
    <3>2. projected'[t] \in Nat /\ Pieces(queue, t, 0) \in Nat
      BY <1>1, <2>3, OutputTyped
    <3> QED BY <2>0, <3>1, <3>2
  <2>4. CASE Next /\ ~TextArrived /\ ~HistoryApplied
    BY <1>1, <2>0, <2>4, ProjectedKept
  <2> QED BY <1>1, <2>1, <2>2, <2>3, <2>4
<1>2. TurnInv /\ [Next]_vars => [\A t \in Turns : projected'[t] >= projected[t]]_vars
  BY <1>1
<1> QED BY <1>2, TurnIsSound, PTL DEF Spec, RecoveryNeverRegresses
=============================================================================
