--------------------------- MODULE HostApprovalProofs ---------------------------
(***************************************************************************)
(* Proofs of HostApproval, for any reviews, sessions, times, limits, ends  *)
(* of either process and failing appends: what was claimed is given up     *)
(* when its session is over, and the store, the transport and the host     *)
(* together keep the promise of OneExecution.                              *)
(***************************************************************************)
EXTENDS HostApproval, FiniteSetTheorems, TLAPS

-----------------------------------------------------------------------------
(* The inductive invariant *)

ReviewRecords == [state : ReviewStates, expires : Nat]
ProductionRecords ==
  [state : ProductionStates, of : Reviews \cup {None}, expires : Nat, deadline : Nat]
Phases == {"new", "prepared", "admitted", "approved", "consumed", "done"}
SessionRecords ==
  [of : Reviews \cup {None}, phase : Phases, begun : Nat, closed : BOOLEAN, lowering : BOOLEAN]
ReviewKinds == {"create", "ACCEPTED", "DECLINED"}
Ops ==
  [kind : ReviewKinds, id : Reviews] \cup [kind : Calls, id : Sessions] \cup [kind : {"close"}, id : {None}]
HostStates == Calls \cup {"off", "asked", "claimed", "running", "over"}
WireStates == {"idle", "sent", "busy", "ok", "no", "cut"}

TypeInv ==
  /\ now \in Nat /\ entries \in Nat
  /\ saved \in Receipts /\ known \in Receipts
  /\ store \in {"down", "recovering", "open", "faulted"}
  /\ queue \in Seq(Ops)
  /\ active \in Sessions \cup {None}
  /\ session \in [Sessions -> SessionRecords]
  /\ host \in [Sessions -> HostStates] /\ wire \in [Sessions -> WireStates]
  /\ offer \in [Sessions -> Nat] /\ executed \in [Sessions -> BOOLEAN]

(* The journal: a review has one attempt at most, which is of a review that *)
(* was made, and only what was executed is said to have ended              *)
Attempt(s) == saved.production[s]
Claimed(s) == Attempt(s).state \in {"CONSUMED", "SUCCEEDED", "FAILED", "UNKNOWN"}

JournalInv ==
  /\ \A s \in Sessions : Attempt(s).of = None <=> Attempt(s).state = "none"
  /\ \A s, t \in Sessions : Attempt(s).of = Attempt(t).of /\ Attempt(s).of # None => s = t
  /\ \A s \in Sessions : Attempt(s).of # None => saved.review[Attempt(s).of].state # "none"
  /\ \A s \in Sessions : Attempt(s).state \in {"SUCCEEDED", "FAILED"} => executed[s]

(* What may become of an attempt and of a review *)
Stands(r) == saved.review[r].state \in {"PENDING", "ACCEPTED"}
MayBecome(s, to) ==
  \/ /\ Attempt(s).of = None /\ to.state = "PROPOSED" /\ to.of \in Reviews
     /\ \A t \in Sessions : Attempt(t).of # to.of
     /\ Stands(to.of) /\ host[s] # "off" /\ session[s].of \in {None, to.of}
  \/ /\ to.of = Attempt(s).of
     /\ \/ Attempt(s).state = "PROPOSED" /\ to.state = "APPROVED" /\ Stands(to.of)
        \/ Attempt(s).state = "APPROVED" /\ to.state = "CONSUMED" /\ Stands(to.of)
        \/ Attempt(s).state \in {"PROPOSED", "APPROVED"} /\ to.state = "EXPIRED"
        \/ Attempt(s).state = "CONSUMED" /\ to.state = "UNKNOWN"
        \/ Attempt(s).state = "CONSUMED" /\ to.state \in {"SUCCEEDED", "FAILED"} /\ executed[s]
MayReview(r, to) ==
  \/ saved.review[r].state = "none" /\ to.state = "PENDING"
  \/ saved.review[r].state = "PENDING" /\ to.state \in {"ACCEPTED", "DECLINED", "EXPIRED"}

IsReviewLine(line) ==
  /\ line.what = "review" /\ line.id \in Reviews /\ line.to \in ReviewRecords
  /\ MayReview(line.id, line.to)
IsProductionLine(line) ==
  /\ line.what = "production" /\ line.id \in Sessions /\ line.to \in ProductionRecords
  /\ MayBecome(line.id, line.to)

(* The line that is being appended is that of the operation under way *)
IsLineOf(op, line) ==
  /\ op.kind \in ReviewKinds => line.what = "review"
  /\ op.kind \in Calls =>
       /\ line.what = "production" /\ line.id = op.id
       /\ CASE op.kind = "prepare" -> FALSE
            [] op.kind = "admit" -> line.to.state = "PROPOSED"
            [] op.kind = "approve" -> line.to.state = "APPROVED"
            [] op.kind = "claim" -> line.to.state = "CONSUMED"
            [] op.kind = "ingest" -> line.to.state \in Outcomes
            [] op.kind = "unknown" -> line.to.state = "UNKNOWN"

WritingInv ==
  /\ store \in {"open", "recovering"} => known = saved
  /\ writing # None =>
       /\ store \in {"open", "recovering"}
       /\ IsReviewLine(writing) \/ IsProductionLine(writing)
       /\ store = "open" => queue # <<>> /\ Head1.kind # "close" /\ IsLineOf(Head1, writing)

(* A session, its operations in the queue, its call and its host *)
OwnCalls == Calls \ {"unknown"}
CallInv ==
  \A s \in Sessions :
    /\ host[s] = "off" => Attempt(s).of = None
    /\ session[s].of # None /\ Attempt(s).of # None => session[s].of = Attempt(s).of
    /\ host[s] = "asked" \/ active = s => session[s].of # None
    /\ active = s => host[s] \notin {"off", "asked"}
    /\ host[s] \in {"off", "asked"} => ~session[s].closed
    /\ wire[s] = "sent" => host[s] \in Calls
    /\ session[s].closed => wire[s] \in {"busy", "cut"}
    /\ host[s] \in {"claimed", "running"} => wire[s] # "busy"
    /\ session[s].lowering => session[s].phase \in {"consumed", "done"}
QueueInv ==
  /\ \A i \in DOMAIN queue : queue[i].kind \in Calls => active = queue[i].id
  /\ \A i \in DOMAIN queue : queue[i].kind \in OwnCalls =>
       LET s == queue[i].id IN
       /\ wire[s] = "busy" /\ host[s] \in {queue[i].kind, "over"}
       /\ session[s].phase = BeforeCall[queue[i].kind]
       /\ queue[i].kind = "ingest" => executed[s]
  /\ \A i, j \in DOMAIN queue :
       /\ queue[i].kind \in OwnCalls /\ queue[j].kind \in OwnCalls => i = j
       /\ queue[i].kind = "unknown" /\ queue[j].kind \in OwnCalls => j < i
  /\ \A i \in DOMAIN queue : queue[i].kind = "unknown" =>
       LET s == queue[i].id IN
       session[s].lowering /\ (host[s] \in {"unknown", "over"} \/ session[s].closed \/ ~Timely(s))

(* The host hands out the script once, after the claim *)
HostInv ==
  \A s \in Sessions :
    /\ executed[s] => Claimed(s) /\ host[s] \in {"running", "ingest", "unknown", "over"}
    /\ host[s] \in {"running", "ingest"} => executed[s]
    /\ host[s] = "claimed" \/ (host[s] = "claim" /\ wire[s] = "ok") =>
         Attempt(s).state \in {"CONSUMED", "UNKNOWN"}

(* A claim that stands is that of the session under way, or about to be lowered *)
ClaimInv ==
  \A s \in Sessions :
    store = "open" /\ HasCapacity /\ Attempt(s).state = "CONSUMED" =>
      /\ active = s /\ session[s].phase = "consumed"
      /\ session[s].closed => session[s].lowering
      /\ session[s].lowering => \E i \in DOMAIN queue : queue[i] = Op("unknown", s)

IInv == TypeInv /\ JournalInv /\ WritingInv /\ CallInv /\ QueueInv /\ HostInv /\ ClaimInv

-----------------------------------------------------------------------------
(* The operators *)

LEMMA CallNames ==
  /\ Calls = {"prepare", "admit", "approve", "claim", "ingest", "unknown"}
  /\ OwnCalls = {"prepare", "admit", "approve", "claim", "ingest"}
  /\ AfterCall["prepare"] = "prepared" /\ AfterCall["admit"] = "admitted"
  /\ AfterCall["approve"] = "approved" /\ AfterCall["claim"] = "consumed"
  /\ AfterCall["ingest"] = "done" /\ AfterCall["unknown"] = "done"
  /\ BeforeCall["prepare"] = "new" /\ BeforeCall["admit"] = "prepared"
  /\ BeforeCall["approve"] = "admitted" /\ BeforeCall["claim"] = "approved"
  /\ BeforeCall["ingest"] = "consumed" /\ BeforeCall["unknown"] = "consumed"
<1>1. Calls = {"prepare", "admit", "approve", "claim", "ingest", "unknown"}
  BY DEF Calls, AfterCall
<1> QED BY <1>1 DEF OwnCalls, AfterCall, BeforeCall

LEMMA ReceiptsTyped ==
  ASSUME NEW rs \in Receipts
  PROVE  /\ rs.review \in [Reviews -> ReviewRecords]
         /\ rs.production \in [Sessions -> ProductionRecords]
         /\ rs = [review |-> rs.review, production |-> rs.production]
BY DEF Receipts, ReviewRecords, ProductionRecords

LEMMA WithReview ==
  ASSUME NEW rs \in Receipts, NEW line, line.what = "review", line.id \in Reviews,
         line.to \in ReviewRecords
  PROVE  /\ With(rs, line) \in Receipts
         /\ With(rs, line).production = rs.production
         /\ With(rs, line).review = [rs.review EXCEPT ![line.id] = line.to]
<1>1. With(rs, line) = [rs EXCEPT !.review = [rs.review EXCEPT ![line.id] = line.to]]
  BY DEF With
<1> DEFINE rv == [rs.review EXCEPT ![line.id] = line.to]
<1>2. rv \in [Reviews -> ReviewRecords]
  BY ReceiptsTyped
<1>3. With(rs, line) = [review |-> rv, production |-> rs.production]
  BY <1>1, ReceiptsTyped
<1> HIDE DEF rv
<1>4. With(rs, line) \in Receipts
  BY <1>2, <1>3, ReceiptsTyped DEF Receipts, ReviewRecords, ProductionRecords
<1> QED BY <1>3, <1>4 DEF rv

LEMMA WithProduction ==
  ASSUME NEW rs \in Receipts, NEW line, line.what = "production", line.id \in Sessions,
         line.to \in ProductionRecords
  PROVE  /\ With(rs, line) \in Receipts
         /\ With(rs, line).review = rs.review
         /\ With(rs, line).production = [rs.production EXCEPT ![line.id] = line.to]
<1>1. With(rs, line) = [rs EXCEPT !.production = [rs.production EXCEPT ![line.id] = line.to]]
  BY DEF With
<1> DEFINE ps == [rs.production EXCEPT ![line.id] = line.to]
<1>2. ps \in [Sessions -> ProductionRecords]
  BY ReceiptsTyped
<1>3. With(rs, line) = [review |-> rs.review, production |-> ps]
  BY <1>1, ReceiptsTyped
<1> HIDE DEF ps
<1>4. With(rs, line) \in Receipts
  BY <1>2, <1>3, ReceiptsTyped DEF Receipts, ReviewRecords, ProductionRecords
<1> QED BY <1>3, <1>4 DEF ps

LEMMA NoReceiptsTyped == NoReceipts \in Receipts
BY DEF NoReceipts, Receipts, ReviewStates, ProductionStates

LEMMA OpsTyped ==
  /\ \A s \in Sessions : Op("unknown", s) \in Ops
  /\ \A s \in Sessions, k \in Calls : Op(k, s) \in Ops
  /\ \A r \in Reviews, k \in ReviewKinds : Op(k, r) \in Ops
  /\ Op("close", None) \in Ops
  /\ \A op \in Ops : op.kind \in Calls => op.id \in Sessions
  /\ \A op \in Ops : op.kind \in ReviewKinds => op.id \in Reviews
  /\ \A op \in Ops : op.kind \in ReviewKinds \cup Calls \cup {"close"}
BY CallNames DEF Ops, Op, ReviewKinds

(* Where the operations of a queue come from when one is added, or the     *)
(* head is taken off it                                                    *)
LEMMA QueueGrows ==
  ASSUME NEW q \in Seq(Ops), NEW op \in Ops
  PROVE  /\ Append(q, op) \in Seq(Ops) /\ q \o <<op>> = Append(q, op)
         /\ Len(Append(q, op)) = Len(q) + 1
         /\ DOMAIN Append(q, op) = DOMAIN q \cup {Len(q) + 1}
         /\ \A i \in DOMAIN q : i \in 1 .. Len(q) /\ Append(q, op)[i] = q[i]
         /\ Append(q, op)[Len(q) + 1] = op
OBVIOUS

LEMMA QueueMoves ==
  ASSUME NEW q \in Seq(Ops), q # <<>>
  PROVE  /\ 1 \in DOMAIN q /\ q[1] \in Ops
         /\ Tail(q) \in Seq(Ops) /\ Tail(q) \o <<>> = Tail(q)
         /\ \A i \in DOMAIN Tail(q) : i + 1 \in DOMAIN q /\ i \in Nat /\ Tail(q)[i] = q[i + 1]
         /\ \A i \in DOMAIN q : i # 1 => i - 1 \in DOMAIN Tail(q) /\ Tail(q)[i - 1] = q[i]
OBVIOUS

(* What the answer of the operation at the head leaves of a session *)
AnswerOf(s, ok) ==
  /\ Head1.kind \in Calls /\ Head1.id = s
  /\ session'[s].phase = IF ok THEN AfterCall[Head1.kind] ELSE session[s].phase
  /\ session[s].lowering => session'[s].lowering
  /\ session'[s].lowering /\ ~session[s].lowering =>
       /\ session'[s].phase = "consumed"
       /\ session[s].closed \/ ~Timely(s)
       /\ queue' = Append(Tail(queue), Op("unknown", s))
  /\ session'[s].phase = "consumed" /\ session[s].closed => session'[s].lowering
  /\ wire'[s] = wire[s] \/ (wire[s] = "busy" /\ wire'[s] \in {"cut", "ok", "no"})
  /\ wire'[s] # wire[s] /\ session[s].closed => wire'[s] = "cut"
  /\ wire'[s] # wire[s] /\ wire'[s] = "ok" => ok /\ ~session[s].closed /\ Timely(s)

LEMMA AnsweredFacts ==
  ASSUME TypeInv, queue # <<>>, NEW ok \in BOOLEAN, Answered(ok)
  PROVE  /\ queue' \in Seq(Ops)
         /\ session' \in [Sessions -> SessionRecords] /\ wire' \in [Sessions -> WireStates]
         /\ queue' = Tail(queue)
              \/ (Head1.kind \in Calls /\ queue' = Append(Tail(queue), Op("unknown", Head1.id))
                    /\ session'[Head1.id].lowering /\ (session[Head1.id].closed \/ ~Timely(Head1.id)))
         /\ \A s \in Sessions :
              /\ session'[s].of = session[s].of /\ session'[s].begun = session[s].begun
              /\ session'[s].closed = session[s].closed
              /\ (session'[s] = session[s] /\ wire'[s] = wire[s] /\ (Head1.kind \in Calls => Head1.id # s))
                   \/ AnswerOf(s, ok)
<1>1. Head1 \in Ops /\ Tail(queue) \in Seq(Ops) /\ Tail(queue) \o <<>> = Tail(queue)
  BY QueueMoves DEF TypeInv, Head1
<1>2. CASE Head1.kind \notin Calls
  <2>1. queue' = Tail(queue) /\ session' = session /\ wire' = wire
    BY <1>2 DEF Answered
  <2> QED BY <1>1, <1>2, <2>1 DEF TypeInv
<1>3. CASE Head1.kind \in Calls
  <2> DEFINE s == Head1.id
             phase == IF ok THEN AfterCall[Head1.kind] ELSE session[s].phase
             late == session[s].closed \/ ~Timely(s)
             lowers == Lowers(s, phase) /\ (IF ok THEN late ELSE session[s].closed)
             low == session[s].lowering \/ lowers
             news == IF wire[s] # "busy" \/ lowers THEN wire[s]
                       ELSE IF session[s].closed THEN "cut" ELSE IF ok /\ ~late THEN "ok" ELSE "no"
             new == [session[s] EXCEPT !.phase = phase, !.lowering = low]
  <2>1. s \in Sessions /\ session[s] \in SessionRecords /\ wire[s] \in WireStates
    BY <1>1, <1>3, OpsTyped DEF TypeInv
  <2>2. queue' = Tail(queue) \o (IF lowers THEN <<Op("unknown", s)>> ELSE <<>>)
    BY <1>3 DEF Answered
  <2>3. session' = [session EXCEPT ![s].phase = phase, ![s].lowering = @ \/ lowers]
    BY <1>3 DEF Answered
  <2>4. wire' = IF wire[s] # "busy" \/ lowers THEN wire
                ELSE [wire EXCEPT ![s] = IF session[s].closed THEN "cut"
                                         ELSE IF ok /\ ~late THEN "ok" ELSE "no"]
    BY <1>3 DEF Answered
  <2>5. phase \in Phases
    BY <1>3, <2>1, CallNames DEF Phases, SessionRecords
  <2>6. lowers \in BOOLEAN /\ low \in BOOLEAN
    BY <2>1 DEF SessionRecords, Lowers
  <2>7. lowers => phase = "consumed" /\ ~session[s].lowering /\ late
    BY DEF Lowers
  <2>8. ~lowers /\ phase = "consumed" /\ session[s].closed => session[s].lowering
    BY DEF Lowers
  <2> HIDE DEF phase, lowers
  <2>9. session' = [session EXCEPT ![s] = new]
    BY <2>1, <2>3 DEF TypeInv
  <2>10. new \in SessionRecords /\ new.of = session[s].of /\ new.begun = session[s].begun
         /\ new.closed = session[s].closed /\ new.phase = phase /\ new.lowering = low
    BY <2>1, <2>5, <2>6 DEF SessionRecords
  <2> HIDE DEF new
  <2>11. session' \in [Sessions -> SessionRecords] /\ session'[s] = new
         /\ \A t \in Sessions : t # s => session'[t] = session[t]
    BY <2>1, <2>9, <2>10 DEF TypeInv
  <2>12. news \in WireStates
    BY <2>1 DEF WireStates
  <2>13. wire' = [wire EXCEPT ![s] = news]
    BY <2>1, <2>4 DEF TypeInv
  <2>14. wire' \in [Sessions -> WireStates] /\ wire'[s] = news
         /\ \A t \in Sessions : t # s => wire'[t] = wire[t]
    BY <2>1, <2>12, <2>13 DEF TypeInv
  <2>15. Op("unknown", s) \in Ops
    BY <2>1, OpsTyped
  <2>16. queue' \in Seq(Ops)
         /\ queue' = IF lowers THEN Append(Tail(queue), Op("unknown", s)) ELSE Tail(queue)
    BY <1>1, <2>2, <2>15, QueueGrows
  <2>17. phase = IF ok THEN AfterCall[Head1.kind] ELSE session[s].phase
    BY DEF phase
  <2>18. AnswerOf(s, ok)
    BY <1>3, <2>6, <2>7, <2>8, <2>10, <2>11, <2>14, <2>16, <2>17 DEF AnswerOf
  <2> QED BY <1>3, <2>1, <2>6, <2>7, <2>10, <2>11, <2>14, <2>16, <2>18
<1> QED BY <1>2, <1>3

-----------------------------------------------------------------------------
(* The journal takes a line *)

AttemptsGo ==
  \A s \in Sessions : saved'.production[s] = Attempt(s) \/ MayBecome(s, saved'.production[s])

LEMMA JournalLine ==
  ASSUME TypeInv, JournalInv, NEW line, IsReviewLine(line) \/ IsProductionLine(line),
         saved' = With(saved, line), executed' = executed
  PROVE  saved' \in Receipts /\ JournalInv' /\ AttemptsGo
<1>1. saved \in Receipts /\ saved.production \in [Sessions -> ProductionRecords]
      /\ saved.review \in [Reviews -> ReviewRecords]
  BY ReceiptsTyped DEF TypeInv
<1>2. CASE IsReviewLine(line)
  <2>1. saved' \in Receipts /\ saved'.production = saved.production
        /\ saved'.review = [saved.review EXCEPT ![line.id] = line.to]
    BY <1>1, <1>2, WithReview DEF IsReviewLine
  <2>2. line.id \in Reviews /\ line.to.state # "none"
    BY <1>2 DEF IsReviewLine, MayReview
  <2>3. \A s \in Sessions : Attempt(s)' = Attempt(s) /\ Attempt(s).of \in Reviews \cup {None}
    BY <1>1, <2>1 DEF Attempt, ProductionRecords
  <2>4. \A r \in Reviews : saved.review[r].state # "none" => saved'.review[r].state # "none"
    BY <1>1, <2>1, <2>2
  <2>5. JournalInv'
    BY <2>3, <2>4 DEF JournalInv
  <2> QED BY <2>1, <2>3, <2>5 DEF AttemptsGo, Attempt
<1>3. CASE IsProductionLine(line)
  <2>1. saved' \in Receipts /\ saved'.review = saved.review
        /\ saved'.production = [saved.production EXCEPT ![line.id] = line.to]
    BY <1>1, <1>3, WithProduction DEF IsProductionLine
  <2> DEFINE u == line.id
  <2>2. u \in Sessions /\ line.to \in ProductionRecords /\ MayBecome(u, line.to)
    BY <1>3 DEF IsProductionLine
  <2>3. Attempt(u)' = line.to /\ \A s \in Sessions : s # u => Attempt(s)' = Attempt(s)
    BY <1>1, <2>1, <2>2 DEF Attempt
  <2>4. \A s \in Sessions : Attempt(s).of \in Reviews \cup {None}
    BY <1>1 DEF Attempt, ProductionRecords
  <2>5. CASE /\ Attempt(u).of = None /\ line.to.state = "PROPOSED" /\ line.to.of \in Reviews
             /\ \A t \in Sessions : Attempt(t).of # line.to.of
             /\ Stands(line.to.of)
    <3>1. line.to.of # None /\ saved.review[line.to.of].state # "none"
      BY <2>5, HostApprovalAssumption DEF Stands
    <3> HIDE DEF u
    <3> QED BY <2>1, <2>2, <2>3, <2>5, <3>1 DEF JournalInv, AttemptsGo, Attempt
  <2>6. CASE line.to.of = Attempt(u).of
    <3>1. line.to.of # None /\ line.to.state # "none"
          /\ (line.to.state \in {"SUCCEEDED", "FAILED"} => executed[u])
      BY <2>2, <2>6 DEF JournalInv, MayBecome
    <3> HIDE DEF u
    <3> QED BY <2>1, <2>2, <2>3, <2>6, <3>1 DEF JournalInv, AttemptsGo, Attempt
  <2> QED BY <2>2, <2>5, <2>6 DEF MayBecome
<1> QED BY <1>2, <1>3

(* The journal stays: an execution more does no harm *)
LEMMA JournalKept ==
  ASSUME JournalInv, saved' = saved, \A s \in Sessions : executed[s] => executed'[s]
  PROVE  JournalInv' /\ AttemptsGo
BY DEF JournalInv, Attempt, AttemptsGo

(* What the attempts' progress leaves of a session and of its host *)
LEMMA AttemptsKeep ==
  ASSUME TypeInv, JournalInv, CallInv, HostInv, AttemptsGo
  PROVE  \A s \in Sessions :
           /\ host[s] = "off" => Attempt(s)'.of = None
           /\ session[s].of # None /\ Attempt(s)'.of # None => session[s].of = Attempt(s)'.of
           /\ executed[s] => Claimed(s)'
           /\ host[s] = "claimed" \/ (host[s] = "claim" /\ wire[s] = "ok") =>
                Attempt(s)'.state \in {"CONSUMED", "UNKNOWN"}
<1> TAKE s \in Sessions
<1>1. Attempt(s)' = saved'.production[s]
  BY DEF Attempt
<1>2. CASE saved'.production[s] = Attempt(s)
  BY <1>1, <1>2 DEF CallInv, HostInv, Claimed, Attempt
<1>3. CASE MayBecome(s, saved'.production[s])
  <2>1. executed[s] => Claimed(s) /\ host[s] \in {"running", "ingest", "unknown", "over"}
    BY DEF HostInv
  <2>2. Claimed(s)' <=> saved'.production[s].state \in {"CONSUMED", "SUCCEEDED", "FAILED", "UNKNOWN"}
    BY DEF Claimed, Attempt
  <2>3. Attempt(s).of = None <=> Attempt(s).state = "none"
    BY DEF JournalInv
  <2>4. host[s] = "off" => Attempt(s).of = None
    BY DEF CallInv
  <2>5. session[s].of # None /\ Attempt(s).of # None => session[s].of = Attempt(s).of
    BY DEF CallInv
  <2>6. host[s] = "claimed" \/ (host[s] = "claim" /\ wire[s] = "ok") =>
         Attempt(s).state \in {"CONSUMED", "UNKNOWN"}
    BY DEF HostInv
  <2> QED BY <1>1, <1>3, <2>1, <2>2, <2>3, <2>4, <2>5, <2>6 DEF MayBecome, Claimed
<1> QED BY <1>2, <1>3 DEF AttemptsGo

LEMMA WritingKept ==
  ASSUME WritingInv, saved' = saved, known' = known, store' = store, writing' = writing,
         queue # <<>> => queue' # <<>> /\ queue'[1] = queue[1],
         \A s \in Sessions :
           /\ host[s] # "off" => host'[s] # "off"
           /\ executed[s] => executed'[s]
           /\ session'[s].of \in {session[s].of, None} \/ host[s] = "off"
  PROVE  WritingInv'
<1>1. CASE writing = None
  BY <1>1 DEF WritingInv
<1>2. CASE writing # None
  <2>1. IsReviewLine(writing) => IsReviewLine(writing)'
    BY DEF IsReviewLine, MayReview
  <2>2. ASSUME IsProductionLine(writing) PROVE IsProductionLine(writing)'
    <3>1. writing.id \in Sessions /\ MayBecome(writing.id, writing.to)
      BY <2>2 DEF IsProductionLine
    <3>2. \A t \in Sessions : Attempt(t)' = Attempt(t)
      BY DEF Attempt
    <3>3. \A r : Stands(r)' = Stands(r)
      BY DEF Stands
    <3>4. MayBecome(writing.id, writing.to)'
      BY <3>1, <3>2, <3>3 DEF MayBecome, Attempt
    <3> QED BY <2>2, <3>4 DEF IsProductionLine
  <2>3. ASSUME store = "open" PROVE queue' # <<>> /\ Head1' = Head1
    BY <1>2, <2>3 DEF WritingInv, Head1
  <2>4. IsLineOf(Head1, writing) /\ Head1' = Head1 => IsLineOf(Head1, writing)'
    BY DEF IsLineOf
  <2> QED BY <1>2, <2>1, <2>2, <2>3, <2>4 DEF WritingInv
<1> QED BY <1>1, <1>2

-----------------------------------------------------------------------------
(* What an answer leaves of the sessions, the queue and the hosts *)

LEMMA AnsweredQueue ==
  ASSUME TypeInv, CallInv, QueueInv, queue # <<>>, NEW ok \in BOOLEAN, Answered(ok),
         now' = now, active' = active, host' = host, executed' = executed
  PROVE  QueueInv'
<1>1. Head1 \in Ops /\ 1 \in DOMAIN queue /\ Head1 = queue[1] /\ Tail(queue) \in Seq(Ops)
  BY QueueMoves DEF TypeInv, Head1
<1>2. \A i \in DOMAIN Tail(queue) :
        i + 1 \in DOMAIN queue /\ i \in Nat /\ Tail(queue)[i] = queue[i + 1]
  BY QueueMoves DEF TypeInv
<1>3. CASE Head1.kind \notin Calls
  <2>1. queue' = Tail(queue) /\ session' = session /\ wire' = wire
    BY <1>3 DEF Answered
  <2>2. \A s \in Sessions : Timely(s) <=> now' < session'[s].begun + Ttl
    BY <2>1 DEF Timely
  <2>3. \A i \in DOMAIN queue : queue[i].kind \in Calls => queue[i].id \in Sessions
    BY OpsTyped DEF TypeInv
  <2>4. \A i \in DOMAIN queue' : queue'[i].kind \in Calls => active' = queue'[i].id
    BY <1>2, <2>1 DEF QueueInv
  <2>5. \A i \in DOMAIN queue' : queue'[i].kind \in OwnCalls =>
          LET s == queue'[i].id IN
          /\ wire'[s] = "busy" /\ host'[s] \in {queue'[i].kind, "over"}
          /\ session'[s].phase = BeforeCall[queue'[i].kind]
          /\ queue'[i].kind = "ingest" => executed'[s]
    BY <1>2, <2>1 DEF QueueInv
  <2>6. \A i, j \in DOMAIN queue' :
          /\ queue'[i].kind \in OwnCalls /\ queue'[j].kind \in OwnCalls => i = j
          /\ queue'[i].kind = "unknown" /\ queue'[j].kind \in OwnCalls => j < i
    BY <1>2, <2>1 DEF QueueInv
  <2>7. \A i \in DOMAIN queue' : queue'[i].kind = "unknown" =>
          LET s == queue'[i].id IN
          session'[s].lowering /\ (host'[s] \in {"unknown", "over"} \/ session'[s].closed \/ ~(now' < session'[s].begun + Ttl))
    BY <1>2, <2>1, <2>2, <2>3, CallNames DEF QueueInv
  <2> QED BY <2>4, <2>5, <2>6, <2>7 DEF QueueInv, Timely
<1>4. CASE Head1.kind \in Calls
  <2> DEFINE h == Head1.id
  <2>1. h \in Sessions /\ active = h
    BY <1>1, <1>4, OpsTyped DEF QueueInv
  <2>2. \A i \in DOMAIN Tail(queue) : Tail(queue)[i].kind \notin OwnCalls
    <3>1. ASSUME NEW i \in DOMAIN Tail(queue), queue[i + 1].kind \in OwnCalls PROVE FALSE
      <4>1. i + 1 \in DOMAIN queue /\ i \in Nat /\ i >= 1
        BY <1>1, <1>2
      <4>2. CASE queue[1].kind \in OwnCalls
        BY <1>1, <3>1, <4>1, <4>2 DEF QueueInv
      <4>3. CASE queue[1].kind = "unknown"
        BY <1>1, <3>1, <4>1, <4>3 DEF QueueInv
      <4> QED BY <1>1, <1>4, <4>2, <4>3, CallNames
    <3> QED BY <1>2, <3>1
  <2>3. \A s \in Sessions : session'[s].begun = session[s].begun /\ session'[s].closed = session[s].closed
    BY AnsweredFacts
  <2>4. \A s \in Sessions : Timely(s) <=> now' < session'[s].begun + Ttl
    BY <2>3 DEF Timely
  <2>5. \A s \in Sessions : session[s].lowering => session'[s].lowering
    BY AnsweredFacts DEF AnswerOf
  <2> HIDE DEF h
  <2>6. \/ queue' = Tail(queue)
        \/ /\ queue' = Append(Tail(queue), Op("unknown", h))
           /\ session'[h].lowering /\ (session[h].closed \/ ~Timely(h))
    BY AnsweredFacts DEF h
  <2>7. \A i \in DOMAIN queue' :
          \/ i + 1 \in DOMAIN queue /\ queue'[i] = queue[i + 1] /\ queue'[i].kind \notin OwnCalls
          \/ /\ queue'[i] = Op("unknown", h)
             /\ session'[h].lowering /\ (session[h].closed \/ ~Timely(h))
    <3>1. CASE queue' = Tail(queue)
      BY <1>2, <2>2, <3>1
    <3>2. CASE queue' = Append(Tail(queue), Op("unknown", h)) /\ session'[h].lowering
               /\ (session[h].closed \/ ~Timely(h))
      <4>1. Op("unknown", h) \in Ops
        BY <2>1, OpsTyped
      <4>2. ASSUME NEW i \in DOMAIN queue'
            PROVE  \/ i \in DOMAIN Tail(queue) /\ queue'[i] = Tail(queue)[i]
                   \/ queue'[i] = Op("unknown", h)
        BY <1>1, <3>2, <4>1, <4>2, QueueGrows
      <4> QED BY <1>2, <2>2, <3>2, <4>2
    <3> QED BY <2>6, <3>1, <3>2
  <2>8. Op("unknown", h).kind = "unknown" /\ Op("unknown", h).id = h /\ "unknown" \notin OwnCalls
    BY CallNames DEF Op
  <2>9. \A i \in DOMAIN queue' : queue'[i].kind \notin OwnCalls
    BY <2>7, <2>8
  <2>10. \A i \in DOMAIN queue : queue[i].kind \in Calls => queue[i].id \in Sessions
    BY OpsTyped DEF TypeInv
  <2>11. \A i \in DOMAIN queue' : queue'[i].kind \in Calls => active' = queue'[i].id
    BY <2>1, <2>7, <2>8 DEF QueueInv
  <2>12. \A i \in DOMAIN queue' : queue'[i].kind = "unknown" =>
          LET s == queue'[i].id IN
          session'[s].lowering /\ (host'[s] \in {"unknown", "over"} \/ session'[s].closed \/ ~(now' < session'[s].begun + Ttl))
    <3> TAKE i \in DOMAIN queue'
    <3>1. CASE i + 1 \in DOMAIN queue /\ queue'[i] = queue[i + 1]
      BY <2>3, <2>4, <2>5, <2>10, <3>1, CallNames DEF QueueInv
    <3>2. CASE queue'[i] = Op("unknown", h) /\ session'[h].lowering /\ (session[h].closed \/ ~Timely(h))
      BY <2>1, <2>3, <2>4, <2>8, <3>2
    <3> QED BY <2>7, <3>1, <3>2
  <2> QED BY <2>9, <2>11, <2>12 DEF QueueInv, Timely
<1> QED BY <1>3, <1>4

LEMMA AnsweredCalls ==
  ASSUME TypeInv, JournalInv, CallInv, QueueInv, HostInv, AttemptsGo,
         queue # <<>>, NEW ok \in BOOLEAN, Answered(ok),
         now' = now, active' = active, host' = host, executed' = executed,
         ok /\ Head1.kind = "claim" => saved'.production[Head1.id].state \in {"CONSUMED", "UNKNOWN"}
  PROVE  CallInv' /\ HostInv'
<1>1. Head1 \in Ops /\ 1 \in DOMAIN queue /\ Head1 = queue[1]
  BY QueueMoves DEF TypeInv, Head1
<1> SUFFICES ASSUME NEW s \in Sessions
             PROVE  /\ host[s] = "off" => Attempt(s)'.of = None
                    /\ session'[s].of # None /\ Attempt(s)'.of # None => session'[s].of = Attempt(s)'.of
                    /\ host[s] = "asked" \/ active = s => session'[s].of # None
                    /\ active = s => host[s] \notin {"off", "asked"}
                    /\ host[s] \in {"off", "asked"} => ~session'[s].closed
                    /\ wire'[s] = "sent" => host[s] \in Calls
                    /\ session'[s].closed => wire'[s] \in {"busy", "cut"}
                    /\ host[s] \in {"claimed", "running"} => wire'[s] # "busy"
                    /\ session'[s].lowering => session'[s].phase \in {"consumed", "done"}
                    /\ executed[s] => Claimed(s)' /\ host[s] \in {"running", "ingest", "unknown", "over"}
                    /\ host[s] \in {"running", "ingest"} => executed[s]
                    /\ host[s] = "claimed" \/ (host[s] = "claim" /\ wire'[s] = "ok") =>
                         Attempt(s)'.state \in {"CONSUMED", "UNKNOWN"}
  BY DEF CallInv, HostInv
<1>2. /\ session'[s].of = session[s].of /\ session'[s].closed = session[s].closed
      /\ (session'[s] = session[s] /\ wire'[s] = wire[s]) \/ AnswerOf(s, ok)
  BY AnsweredFacts
<1>3. /\ host[s] = "off" => Attempt(s)'.of = None
      /\ session[s].of # None /\ Attempt(s)'.of # None => session[s].of = Attempt(s)'.of
      /\ executed[s] => Claimed(s)'
      /\ host[s] = "claimed" \/ (host[s] = "claim" /\ wire[s] = "ok") =>
           Attempt(s)'.state \in {"CONSUMED", "UNKNOWN"}
  BY AttemptsKeep
<1>4. /\ host[s] = "asked" \/ active = s => session[s].of # None
      /\ active = s => host[s] \notin {"off", "asked"}
      /\ host[s] \in {"off", "asked"} => ~session[s].closed
      /\ wire[s] = "sent" => host[s] \in Calls
      /\ session[s].closed => wire[s] \in {"busy", "cut"}
      /\ host[s] \in {"claimed", "running"} => wire[s] # "busy"
      /\ session[s].lowering => session[s].phase \in {"consumed", "done"}
  BY DEF CallInv
<1>5. /\ executed[s] => host[s] \in {"running", "ingest", "unknown", "over"}
      /\ host[s] \in {"running", "ingest"} => executed[s]
  BY DEF HostInv
<1>6. CASE session'[s] = session[s] /\ wire'[s] = wire[s]
  BY <1>3, <1>4, <1>5, <1>6
<1>7. CASE AnswerOf(s, ok)
  <2>1. Head1.kind \in Calls /\ Head1.id = s
    BY <1>7 DEF AnswerOf
  <2>2. Head1.kind \in OwnCalls =>
          host[s] \in {Head1.kind, "over"} /\ session[s].phase = BeforeCall[Head1.kind]
    BY <1>1, <2>1 DEF QueueInv
  <2>3. Head1.kind = "unknown" =>
          session[s].lowering /\ (host[s] \in {"unknown", "over"} \/ session[s].closed \/ ~Timely(s))
    BY <1>1, <2>1 DEF QueueInv
  <2>4. session'[s].phase = IF ok THEN AfterCall[Head1.kind] ELSE session[s].phase
    BY <1>7 DEF AnswerOf
  <2>5. session[s].lowering => session'[s].phase \in {"consumed", "done"}
    BY <1>4, <2>1, <2>2, <2>4, CallNames
  <2>6. session'[s].lowering => session'[s].phase \in {"consumed", "done"}
    BY <1>7, <2>5 DEF AnswerOf
  <2>7. wire'[s] = wire[s] \/ (wire[s] = "busy" /\ wire'[s] \in {"cut", "ok", "no"})
    BY <1>7 DEF AnswerOf
  <2>8. session[s].closed => wire'[s] \in {"busy", "cut"}
    BY <1>4, <1>7 DEF AnswerOf
  <2>9. ASSUME host[s] = "claim", wire'[s] = "ok", wire[s] # "ok" PROVE Head1.kind = "claim" /\ ok
    <3>1. ok /\ ~session[s].closed /\ Timely(s)
      BY <1>7, <2>9 DEF AnswerOf
    <3>2. Head1.kind # "unknown"
      BY <2>3, <2>9, <3>1
    <3> QED BY <2>1, <2>2, <2>9, <3>1, <3>2, CallNames
  <2>10. host[s] = "claim" /\ wire'[s] = "ok" => Attempt(s)'.state \in {"CONSUMED", "UNKNOWN"}
    BY <1>3, <2>1, <2>9 DEF Attempt
  <2> QED BY <1>2, <1>3, <1>4, <1>5, <2>6, <2>7, <2>8, <2>10
<1> QED BY <1>2, <1>6, <1>7

-----------------------------------------------------------------------------
(* The steps of the store *)

(* What an operation writes is a line its receipt allows *)
LEMMA ReviewLineOk ==
  ASSUME TypeInv, known = saved, NEW r \in Reviews, NEW kind \in ReviewKinds,
         NEW line, line \in CreateLines(r) \cup DecideLines(r, "ACCEPTED") \cup DecideLines(r, "DECLINED")
  PROVE  IsReviewLine(line)
<1>1. saved.review[r] \in ReviewRecords /\ now \in Nat /\ now + ReviewTtl \in Nat
  BY ReceiptsTyped, HostApprovalAssumption DEF TypeInv
<1>2. [saved.review[r] EXCEPT !.state = "EXPIRED"] \in ReviewRecords
      /\ [saved.review[r] EXCEPT !.state = "EXPIRED"].state = "EXPIRED"
  BY <1>1 DEF ReviewRecords, ReviewStates
<1>3. [saved.review[r] EXCEPT !.state = "ACCEPTED"] \in ReviewRecords
      /\ [saved.review[r] EXCEPT !.state = "ACCEPTED"].state = "ACCEPTED"
  BY <1>1 DEF ReviewRecords, ReviewStates
<1>4. [saved.review[r] EXCEPT !.state = "DECLINED"] \in ReviewRecords
      /\ [saved.review[r] EXCEPT !.state = "DECLINED"].state = "DECLINED"
  BY <1>1 DEF ReviewRecords, ReviewStates
<1>5. [state |-> "PENDING", expires |-> now + ReviewTtl] \in ReviewRecords
  BY <1>1 DEF ReviewRecords, ReviewStates
<1>6. \/ saved.review[r].state = "none"
         /\ line = Line("review", r, [state |-> "PENDING", expires |-> now + ReviewTtl])
      \/ saved.review[r].state = "PENDING"
         /\ \/ line = Line("review", r, [saved.review[r] EXCEPT !.state = "EXPIRED"])
            \/ line = Line("review", r, [saved.review[r] EXCEPT !.state = "ACCEPTED"])
            \/ line = Line("review", r, [saved.review[r] EXCEPT !.state = "DECLINED"])
  <2>1. line \in ExpireLines(r) => saved.review[r].state = "PENDING"
          /\ line = Line("review", r, [saved.review[r] EXCEPT !.state = "EXPIRED"])
    BY DEF ExpireLines, When, ToReview, Review
  <2>2. line \in CreateLines(r) => line \in ExpireLines(r) \/ (saved.review[r].state = "none"
          /\ line = Line("review", r, [state |-> "PENDING", expires |-> now + ReviewTtl]))
    BY DEF CreateLines, When, Review
  <2>3. line \in DecideLines(r, "ACCEPTED") => line \in ExpireLines(r) \/ (saved.review[r].state = "PENDING"
          /\ line = Line("review", r, [saved.review[r] EXCEPT !.state = "ACCEPTED"]))
    BY DEF DecideLines, When, ToReview, Review
  <2>4. line \in DecideLines(r, "DECLINED") => line \in ExpireLines(r) \/ (saved.review[r].state = "PENDING"
          /\ line = Line("review", r, [saved.review[r] EXCEPT !.state = "DECLINED"]))
    BY DEF DecideLines, When, ToReview, Review
  <2> QED BY <2>1, <2>2, <2>3, <2>4
<1>7. ASSUME NEW to \in ReviewRecords, line = Line("review", r, to), MayReview(r, to)
      PROVE  IsReviewLine(line)
  BY <1>7 DEF IsReviewLine, Line
<1>8. CASE /\ saved.review[r].state = "none"
           /\ line = Line("review", r, [state |-> "PENDING", expires |-> now + ReviewTtl])
  BY <1>5, <1>7, <1>8 DEF MayReview
<1>9. CASE /\ saved.review[r].state = "PENDING"
           /\ line = Line("review", r, [saved.review[r] EXCEPT !.state = "EXPIRED"])
  BY <1>2, <1>7, <1>9 DEF MayReview
<1>10. CASE /\ saved.review[r].state = "PENDING"
            /\ line = Line("review", r, [saved.review[r] EXCEPT !.state = "ACCEPTED"])
  BY <1>3, <1>7, <1>10 DEF MayReview
<1>11. CASE /\ saved.review[r].state = "PENDING"
            /\ line = Line("review", r, [saved.review[r] EXCEPT !.state = "DECLINED"])
  BY <1>4, <1>7, <1>11 DEF MayReview
<1> QED BY <1>6, <1>8, <1>9, <1>10, <1>11

LEMMA ProductionTyped ==
  ASSUME TypeInv, NEW s \in Sessions, NEW state \in ProductionStates
  PROVE  /\ [Attempt(s) EXCEPT !.state = state] \in ProductionRecords
         /\ [Attempt(s) EXCEPT !.state = state].state = state
         /\ [Attempt(s) EXCEPT !.state = state].of = Attempt(s).of
         /\ Attempt(s) \in ProductionRecords
<1>1. Attempt(s) \in ProductionRecords
  BY ReceiptsTyped DEF TypeInv, Attempt
<1> QED BY <1>1 DEF ProductionRecords

LEMMA AdmitLineOk ==
  ASSUME TypeInv, CallInv, known = saved, NEW s \in Sessions, active = s, NEW line \in AdmitLines(s)
  PROVE  IsProductionLine(line) /\ line.id = s /\ line.to.state = "PROPOSED"
<1> DEFINE r == session[s].of
<1>1. r \in Reviews
  BY DEF TypeInv, SessionRecords, CallInv
<1>2. /\ line = Line("production", s, [state |-> "PROPOSED", of |-> r, expires |-> offer[s], deadline |-> 0])
      /\ saved.review[r].state \in {"PENDING", "ACCEPTED"}
      /\ \A t \in Sessions : Attempt(t).of # r
  BY DEF AdmitLines, When, SourceStands, Review, Production, Attempt
<1>3. Attempt(s).of = None
  BY <1>1, <1>2, HostApprovalAssumption DEF CallInv
<1>4. [state |-> "PROPOSED", of |-> r, expires |-> offer[s], deadline |-> 0] \in ProductionRecords
  BY <1>1 DEF ProductionRecords, ProductionStates, TypeInv
<1>5. host[s] # "off"
  BY DEF CallInv
<1> QED BY <1>1, <1>2, <1>3, <1>4, <1>5 DEF IsProductionLine, MayBecome, Stands, Line

LEMMA LaterLineOk ==
  ASSUME TypeInv, JournalInv, known = saved, NEW s \in Sessions,
         NEW line \in ApproveLines(s) \cup ClaimLines(s) \cup UnknownLines(s)
  PROVE  /\ IsProductionLine(line) /\ line.id = s
         /\ line \in ApproveLines(s) => line.to.state = "APPROVED"
         /\ line \in ClaimLines(s) => line.to.state = "CONSUMED"
         /\ line \in UnknownLines(s) => line.to.state = "UNKNOWN"
<1>1. Attempt(s) = Production(s) /\ Attempt(s) \in ProductionRecords
  BY ProductionTyped DEF Attempt, Production, ProductionStates
<1>2. ASSUME line \in ApproveLines(s)
      PROVE  IsProductionLine(line) /\ line.id = s /\ line.to.state = "APPROVED"
  <2>1. /\ line = Line("production", s, [Attempt(s) EXCEPT !.state = "APPROVED"])
        /\ Attempt(s).state = "PROPOSED" /\ Stands(Attempt(s).of)
    BY <1>1, <1>2 DEF ApproveLines, When, MayAdvance, SourceStands, Stands, Review, ToProduction
  <2>2. "APPROVED" \in ProductionStates
    BY DEF ProductionStates
  <2> QED BY <2>1, <2>2, ProductionTyped DEF IsProductionLine, MayBecome, Line
<1>3. ASSUME line \in ClaimLines(s)
      PROVE  IsProductionLine(line) /\ line.id = s /\ line.to.state = "CONSUMED"
  <2> DEFINE to == [Attempt(s) EXCEPT !.state = "CONSUMED", !.deadline = now + Ttl]
  <2>1. /\ line = Line("production", s, to)
        /\ Attempt(s).state = "APPROVED" /\ Stands(Attempt(s).of)
    BY <1>1, <1>3 DEF ClaimLines, When, MayAdvance, SourceStands, Stands, Review
  <2>2. to \in ProductionRecords /\ to.state = "CONSUMED" /\ to.of = Attempt(s).of
    <3>1. now + Ttl \in Nat
      BY HostApprovalAssumption DEF TypeInv
    <3> QED BY <1>1, <3>1 DEF ProductionRecords, ProductionStates
  <2> HIDE DEF to
  <2> QED BY <2>1, <2>2 DEF IsProductionLine, MayBecome, Line
<1>4. ASSUME line \in UnknownLines(s)
      PROVE  IsProductionLine(line) /\ line.id = s /\ line.to.state = "UNKNOWN"
  <2>1. /\ line = Line("production", s, [Attempt(s) EXCEPT !.state = "UNKNOWN"])
        /\ Attempt(s).state = "CONSUMED"
    BY <1>1, <1>4 DEF UnknownLines, When, ToProduction
  <2>2. "UNKNOWN" \in ProductionStates
    BY DEF ProductionStates
  <2> QED BY <2>1, <2>2, ProductionTyped DEF IsProductionLine, MayBecome, Line
<1> QED BY <1>2, <1>3, <1>4

LEMMA IngestLineOk ==
  ASSUME TypeInv, JournalInv, known = saved, NEW s \in Sessions, executed[s], NEW line \in IngestLines(s)
  PROVE  IsProductionLine(line) /\ line.id = s /\ line.to.state \in Outcomes
<1>1. Attempt(s) = Production(s)
  BY DEF Attempt, Production
<1>2. PICK outcome \in Outcomes :
        /\ line = Line("production", s, [Attempt(s) EXCEPT !.state = outcome])
        /\ Attempt(s).state = "CONSUMED"
  BY <1>1 DEF IngestLines, ToProduction
<1>3. outcome \in ProductionStates
  BY DEF Outcomes, ProductionStates
<1> QED BY <1>2, <1>3, ProductionTyped DEF IsProductionLine, MayBecome, Line, Outcomes

LEMMA LinesAreOk ==
  ASSUME TypeInv, JournalInv, WritingInv, CallInv, QueueInv, Running, NEW line \in Lines(Head1)
  PROVE  (IsReviewLine(line) \/ IsProductionLine(line)) /\ IsLineOf(Head1, line)
<1>1. Head1 \in Ops /\ 1 \in DOMAIN queue /\ Head1 = queue[1] /\ Head1.kind # "close" /\ known = saved
  BY QueueMoves DEF TypeInv, Head1, Running, WritingInv
<1>2. CASE Head1.kind \in ReviewKinds
  <2>1. Head1.id \in Reviews
    BY <1>1, <1>2, OpsTyped
  <2>2. line \in CreateLines(Head1.id) \cup DecideLines(Head1.id, "ACCEPTED") \cup DecideLines(Head1.id, "DECLINED")
    BY <1>2 DEF Lines, ReviewKinds
  <2>3. IsReviewLine(line)
    BY <1>1, <1>2, <2>1, <2>2, ReviewLineOk
  <2>4. Head1.kind \notin Calls
    BY <1>2, CallNames DEF ReviewKinds
  <2> QED BY <2>3, <2>4 DEF IsLineOf, IsReviewLine
<1>3. CASE Head1.kind \in Calls
  <2> DEFINE s == Head1.id
  <2>1. s \in Sessions /\ active = s
    BY <1>1, <1>3, OpsTyped DEF QueueInv
  <2>2. Head1.kind \notin ReviewKinds
    BY <1>3, CallNames DEF ReviewKinds
  <2>3. Head1.kind = "ingest" => executed[s]
    BY <1>1, CallNames DEF QueueInv
  <2>4. \/ Head1.kind = "admit" /\ line \in AdmitLines(s)
        \/ Head1.kind = "approve" /\ line \in ApproveLines(s)
        \/ Head1.kind = "claim" /\ line \in ClaimLines(s)
        \/ Head1.kind = "ingest" /\ line \in IngestLines(s)
        \/ Head1.kind = "unknown" /\ line \in UnknownLines(s)
    BY <1>3, CallNames DEF Lines
  <2> HIDE DEF s
  <2>5. /\ IsProductionLine(line) /\ line.id = s
        /\ Head1.kind # "prepare"
        /\ Head1.kind = "admit" => line.to.state = "PROPOSED"
        /\ Head1.kind = "approve" => line.to.state = "APPROVED"
        /\ Head1.kind = "claim" => line.to.state = "CONSUMED"
        /\ Head1.kind = "ingest" => line.to.state \in Outcomes
        /\ Head1.kind = "unknown" => line.to.state = "UNKNOWN"
    <3>1. CASE Head1.kind = "admit" /\ line \in AdmitLines(s)
      BY <1>1, <2>1, <3>1, AdmitLineOk
    <3>2. CASE Head1.kind = "approve" /\ line \in ApproveLines(s)
      BY <1>1, <2>1, <3>2, LaterLineOk
    <3>3. CASE Head1.kind = "claim" /\ line \in ClaimLines(s)
      BY <1>1, <2>1, <3>3, LaterLineOk
    <3>4. CASE Head1.kind = "ingest" /\ line \in IngestLines(s)
      BY <1>1, <2>1, <2>3, <3>4, IngestLineOk
    <3>5. CASE Head1.kind = "unknown" /\ line \in UnknownLines(s)
      BY <1>1, <2>1, <3>5, LaterLineOk
    <3> QED BY <2>4, <3>1, <3>2, <3>3, <3>4, <3>5
  <2>6. line.what = "production"
    BY <2>5 DEF IsProductionLine
  <2> QED BY <1>3, <2>2, <2>5, <2>6, CallNames DEF IsLineOf, s
<1> QED BY <1>1, <1>2, <1>3, OpsTyped

LEMMA AppendStartsStep == IInv /\ AppendStarts => IInv'
<1> SUFFICES ASSUME IInv, AppendStarts PROVE IInv'
  OBVIOUS
<1>1. /\ Running /\ writing' \in Lines(Head1)
      /\ UNCHANGED <<now, saved, entries, store, known, queue, active, session, wire, host, offer, executed>>
  BY DEF AppendStarts, journal, hosts
<1>2. TypeInv' /\ QueueInv' /\ ClaimInv' /\ CallInv' /\ HostInv' /\ JournalInv'
  BY <1>1 DEF IInv, TypeInv, QueueInv, ClaimInv, CallInv, HostInv, JournalInv, Attempt, Claimed,
              HasCapacity, Timely
<1>3. (IsReviewLine(writing') \/ IsProductionLine(writing')) /\ IsLineOf(Head1, writing')
  BY <1>1, LinesAreOk DEF IInv
<1>4. IsReviewLine(writing)' <=> IsReviewLine(writing')
  BY <1>1 DEF IsReviewLine, MayReview
<1>5. IsProductionLine(writing)' <=> IsProductionLine(writing')
  BY <1>1 DEF IsProductionLine, MayBecome, Attempt, Stands
<1>6. IsLineOf(Head1, writing)' <=> IsLineOf(Head1, writing')
  BY <1>1 DEF IsLineOf, Head1
<1>7. WritingInv'
  BY <1>1, <1>3, <1>4, <1>5, <1>6 DEF IInv, WritingInv, Running, Head1
<1> QED BY <1>2, <1>7 DEF IInv

LEMMA AnswersStep == IInv /\ Answers => IInv'
<1> SUFFICES ASSUME IInv, Answers PROVE IInv'
  OBVIOUS
<1>1. /\ Running /\ (Lines(Head1) = {} \/ ~HasCapacity)
      /\ Answered(Succeeds(Head1))
      /\ UNCHANGED <<now, saved, entries, store, known, writing, active, host, offer, executed>>
  BY DEF Answers, journal, hosts
<1>2. queue # <<>> /\ writing = None /\ store = "open" /\ known = saved
  BY <1>1 DEF Running, IInv, WritingInv
<1>3. PICK ok \in BOOLEAN : ok = Succeeds(Head1)
  BY DEF Succeeds
<1>4. Answered(ok) /\ (ok => Head1.kind = "prepare")
  BY <1>1, <1>3 DEF Succeeds
<1>5. JournalInv' /\ AttemptsGo
  BY <1>1, JournalKept DEF IInv
<1>6. QueueInv'
  BY <1>1, <1>2, <1>4, AnsweredQueue DEF IInv
<1>7. CallInv' /\ HostInv'
  BY <1>1, <1>2, <1>4, <1>5, AnsweredCalls DEF IInv
<1>8. TypeInv'
  BY <1>1, <1>2, <1>4, AnsweredFacts DEF IInv, TypeInv
<1>9. WritingInv'
  BY <1>1, <1>2 DEF WritingInv
<1>10. ClaimInv'
  <2> SUFFICES ASSUME NEW s \in Sessions, HasCapacity, Attempt(s).state = "CONSUMED"
               PROVE  /\ active = s /\ session'[s].phase = "consumed"
                      /\ session'[s].closed => session'[s].lowering
                      /\ session'[s].lowering => \E i \in DOMAIN queue' : queue'[i] = Op("unknown", s)
    BY <1>1 DEF ClaimInv, HasCapacity, Attempt
  <2>1. /\ active = s /\ session[s].phase = "consumed"
        /\ session[s].closed => session[s].lowering
        /\ session[s].lowering => \E i \in DOMAIN queue : queue[i] = Op("unknown", s)
    BY <1>2 DEF IInv, ClaimInv
  <2>2. Head1 \in Ops /\ 1 \in DOMAIN queue /\ Head1 = queue[1] /\ Tail(queue) \in Seq(Ops)
        /\ \A i \in DOMAIN queue : i # 1 => i - 1 \in DOMAIN Tail(queue) /\ Tail(queue)[i - 1] = queue[i]
    BY <1>2, QueueMoves DEF TypeInv, Head1, IInv
  <2>3. Head1 # Op("unknown", s)
    <3>1. ASSUME Head1 = Op("unknown", s) PROVE FALSE
      <4>1. Head1.kind = "unknown" /\ Head1.id = s
        BY <3>1 DEF Op
      <4>2. Lines(Head1) = UnknownLines(s)
        BY <4>1 DEF Lines
      <4>3. UnknownLines(s) # {}
        BY <1>2 DEF UnknownLines, When, Production, Attempt
      <4> QED BY <1>1, <4>2, <4>3
    <3> QED BY <3>1
  <2>4. ASSUME session[s].lowering PROVE \E i \in DOMAIN Tail(queue) : Tail(queue)[i] = Op("unknown", s)
    <3>1. PICK i \in DOMAIN queue : queue[i] = Op("unknown", s)
      BY <2>1, <2>4
    <3> QED BY <2>2, <2>3, <3>1
  <2>5. /\ session'[s].closed = session[s].closed
        /\ (session'[s] = session[s] /\ wire'[s] = wire[s] /\ (Head1.kind \in Calls => Head1.id # s))
             \/ AnswerOf(s, ok)
    BY <1>2, <1>4, AnsweredFacts DEF IInv
  <2>6. queue' = Tail(queue) \/ (Head1.kind \in Calls /\ queue' = Append(Tail(queue), Op("unknown", Head1.id)))
    BY <1>2, <1>4, AnsweredFacts DEF IInv
  <2>7. ASSUME \E i \in DOMAIN Tail(queue) : Tail(queue)[i] = Op("unknown", s)
        PROVE  \E i \in DOMAIN queue' : queue'[i] = Op("unknown", s)
    <3>1. CASE queue' = Tail(queue)
      BY <2>7, <3>1
    <3>2. CASE Head1.kind \in Calls /\ queue' = Append(Tail(queue), Op("unknown", Head1.id))
      <4>1. Op("unknown", Head1.id) \in Ops
        BY <2>2, <3>2, OpsTyped
      <4> QED BY <2>2, <2>7, <3>2, <4>1, QueueGrows
    <3> QED BY <2>6, <3>1, <3>2
  <2>8. CASE session'[s] = session[s]
    BY <2>1, <2>4, <2>7, <2>8
  <2>9. CASE AnswerOf(s, ok)
    <3>1. ~ok
      <4>1. ASSUME ok PROVE FALSE
        <5>1. Head1.kind = "prepare" /\ Head1.id = s
          BY <1>4, <2>9, <4>1 DEF AnswerOf
        <5>2. session[s].phase = "new"
          BY <2>2, <5>1, CallNames DEF IInv, QueueInv
        <5> QED BY <2>1, <5>2
      <4> QED BY <4>1
    <3>2. session'[s].phase = "consumed"
      BY <2>1, <2>9, <3>1 DEF AnswerOf
    <3>3. session'[s].closed => session'[s].lowering
      BY <2>5, <2>9, <3>2 DEF AnswerOf
    <3>4. ASSUME session'[s].lowering, ~session[s].lowering
          PROVE  \E i \in DOMAIN queue' : queue'[i] = Op("unknown", s)
      <4>1. queue' = Append(Tail(queue), Op("unknown", s))
        BY <2>9, <3>4 DEF AnswerOf
      <4>2. Op("unknown", s) \in Ops
        BY OpsTyped
      <4> QED BY <2>2, <4>1, <4>2, QueueGrows
    <3> QED BY <2>1, <2>4, <2>7, <3>2, <3>3, <3>4
  <2> QED BY <2>5, <2>8, <2>9
<1> QED BY <1>5, <1>6, <1>7, <1>8, <1>9, <1>10 DEF IInv

LEMMA AppendDoneStep == IInv /\ AppendDone => IInv'
<1> SUFFICES ASSUME IInv, AppendDone PROVE IInv'
  OBVIOUS
<1>1. /\ writing # None /\ saved' = With(saved, writing) /\ entries' = entries + 1
      /\ known' = With(known, writing) /\ writing' = None
      /\ UNCHANGED <<now, store, active, host, offer, executed>>
      /\ IF store = "open" THEN Answered(TRUE) ELSE UNCHANGED <<queue, session, wire>>
  BY DEF AppendDone, WholeLine, hosts
<1>2. store \in {"open", "recovering"} /\ known = saved
      /\ (IsReviewLine(writing) \/ IsProductionLine(writing))
      /\ (store = "open" => queue # <<>> /\ Head1.kind # "close" /\ IsLineOf(Head1, writing))
  BY <1>1 DEF IInv, WritingInv
<1>3. saved' \in Receipts /\ JournalInv' /\ AttemptsGo
  BY <1>1, <1>2, JournalLine DEF IInv
<1>4. entries' \in Nat
  BY <1>1 DEF IInv, TypeInv
<1>5. WritingInv'
  BY <1>1, <1>2 DEF WritingInv
<1>6. CASE store # "open"
  <2>1. UNCHANGED <<queue, session, wire, store, now, active, host, offer, executed>>
    BY <1>1, <1>6
  <2>2. CallInv' /\ HostInv'
    BY <1>3, <2>1, AttemptsKeep DEF IInv, CallInv, HostInv
  <2>3. QueueInv'
    BY <2>1 DEF IInv, QueueInv, Timely
  <2>4. TypeInv'
    BY <1>1, <1>2, <1>3, <1>4, <2>1 DEF IInv, TypeInv
  <2>5. ClaimInv'
    BY <1>6, <2>1 DEF ClaimInv
  <2> QED BY <1>3, <1>5, <2>2, <2>3, <2>4, <2>5 DEF IInv
<1>7. CASE store = "open"
  <2>1. PICK ok \in BOOLEAN : ok = TRUE
    OBVIOUS
  <2>2. Answered(ok) /\ queue # <<>>
    BY <1>1, <1>2, <1>7, <2>1
  <2>3. Head1 \in Ops /\ 1 \in DOMAIN queue /\ Head1 = queue[1] /\ Tail(queue) \in Seq(Ops)
        /\ \A i \in DOMAIN queue : i # 1 => i - 1 \in DOMAIN Tail(queue) /\ Tail(queue)[i - 1] = queue[i]
    BY <1>2, <1>7, QueueMoves DEF TypeInv, Head1, IInv
  <2>4. Head1.kind \in Calls =>
          /\ IsProductionLine(writing) /\ writing.id = Head1.id /\ Head1.id \in Sessions
          /\ active = Head1.id
          /\ saved'.production[Head1.id] = writing.to
    <3>1. CASE Head1.kind \in Calls
      <4>1. writing.what = "production" /\ writing.id = Head1.id
        BY <1>2, <1>7, <3>1 DEF IsLineOf
      <4>2. IsProductionLine(writing)
        BY <1>2, <4>1 DEF IsReviewLine
      <4>3. Head1.id \in Sessions /\ writing.to \in ProductionRecords
        BY <2>3, <3>1, <4>2, OpsTyped DEF IsProductionLine
      <4>4. saved'.production = [saved.production EXCEPT ![writing.id] = writing.to]
        BY <1>1, <4>1, <4>2, WithProduction DEF IsProductionLine, IInv, TypeInv
      <4>5. saved.production \in [Sessions -> ProductionRecords]
        BY ReceiptsTyped DEF IInv, TypeInv
      <4>6. active = Head1.id
        BY <2>3, <3>1 DEF IInv, QueueInv
      <4> QED BY <4>1, <4>2, <4>3, <4>4, <4>5, <4>6
    <3> QED BY <3>1
  <2>5. Head1.kind = "claim" => writing.to.state = "CONSUMED"
    BY <1>2, <1>7, CallNames DEF IsLineOf
  <2>6. Head1.kind \in Calls /\ writing.to.state = "CONSUMED" => Head1.kind = "claim"
    BY <1>2, <1>7, CallNames DEF IsLineOf, Outcomes
  <2>7. Head1.kind = "claim" => saved'.production[Head1.id].state \in {"CONSUMED", "UNKNOWN"}
    BY <2>4, <2>5, CallNames
  <2>8. QueueInv'
    BY <1>1, <2>2, AnsweredQueue DEF IInv
  <2>9. CallInv' /\ HostInv'
    BY <1>1, <1>3, <2>2, <2>7, AnsweredCalls DEF IInv
  <2>10. TypeInv'
    BY <1>1, <1>2, <1>3, <1>4, <2>2, AnsweredFacts DEF IInv, TypeInv
  <2>11. ClaimInv'
    <3> SUFFICES ASSUME NEW s \in Sessions, HasCapacity', saved'.production[s].state = "CONSUMED"
                 PROVE  /\ active = s /\ session'[s].phase = "consumed"
                        /\ session'[s].closed => session'[s].lowering
                        /\ session'[s].lowering => \E i \in DOMAIN queue' : queue'[i] = Op("unknown", s)
      BY <1>1 DEF ClaimInv, Attempt
    <3>1. HasCapacity
      BY <1>1, HostApprovalAssumption DEF HasCapacity, IInv, TypeInv
    <3>2. /\ session'[s].closed = session[s].closed
          /\ (session'[s] = session[s] /\ wire'[s] = wire[s] /\ (Head1.kind \in Calls => Head1.id # s))
               \/ AnswerOf(s, ok)
      BY <2>2, AnsweredFacts DEF IInv
    <3>3. CASE AnswerOf(s, ok)
      <4>1. Head1.kind = "claim" /\ Head1.id = s
        BY <2>4, <2>6, <3>3 DEF AnswerOf
      <4>2. active = s /\ session[s].phase = "approved"
        BY <2>3, <2>4, <4>1, CallNames DEF IInv, QueueInv
      <4>3. ~session[s].lowering
        BY <4>2 DEF IInv, CallInv
      <4>4. session'[s].phase = "consumed"
        BY <2>1, <3>3, <4>1, CallNames DEF AnswerOf
      <4>5. session'[s].closed => session'[s].lowering
        BY <3>2, <3>3, <4>4 DEF AnswerOf
      <4>6. ASSUME session'[s].lowering PROVE \E i \in DOMAIN queue' : queue'[i] = Op("unknown", s)
        <5>1. queue' = Append(Tail(queue), Op("unknown", s))
          BY <3>3, <4>3, <4>6 DEF AnswerOf
        <5>2. Op("unknown", s) \in Ops
          BY OpsTyped
        <5> QED BY <2>3, <5>1, <5>2, QueueGrows
      <4> QED BY <4>2, <4>4, <4>5, <4>6
    <3>4. CASE session'[s] = session[s] /\ (Head1.kind \in Calls => Head1.id # s)
      <4>1. Attempt(s).state = "CONSUMED"
        <5>1. saved'.production[s] = Attempt(s) \/ MayBecome(s, saved'.production[s])
          BY <1>3 DEF AttemptsGo
        <5>2. CASE saved'.production[s] = Attempt(s)
          BY <5>2
        <5>3. CASE saved'.production[s] # Attempt(s)
          <6>1. Head1.kind \notin Calls
            <7>1. ASSUME Head1.kind \in Calls PROVE FALSE
              <8>1. saved'.production = [saved.production EXCEPT ![writing.id] = writing.to]
                BY <1>1, <2>4, <7>1, WithProduction DEF IsProductionLine, IInv, TypeInv
              <8>2. saved.production \in [Sessions -> ProductionRecords]
                BY ReceiptsTyped DEF IInv, TypeInv
              <8> QED BY <2>4, <3>4, <5>3, <7>1, <8>1, <8>2 DEF Attempt
            <7> QED BY <7>1
          <6>2. Head1.kind \in ReviewKinds
            BY <1>2, <1>7, <2>3, <6>1, OpsTyped
          <6>3. writing.what = "review"
            BY <1>2, <1>7, <6>2 DEF IsLineOf
          <6>4. IsReviewLine(writing)
            BY <1>2, <6>3 DEF IsProductionLine
          <6>5. saved'.production = saved.production
            BY <1>1, <6>3, <6>4, WithReview DEF IsReviewLine, IInv, TypeInv
          <6> QED BY <5>3, <6>5 DEF Attempt
        <5> QED BY <5>2, <5>3
      <4>2. /\ active = s /\ session[s].phase = "consumed"
            /\ session[s].closed => session[s].lowering
            /\ session[s].lowering => \E i \in DOMAIN queue : queue[i] = Op("unknown", s)
        BY <1>7, <3>1, <4>1 DEF IInv, ClaimInv
      <4>3. Head1.kind \notin Calls
        BY <2>4, <3>4, <4>2
      <4>4. queue' = Tail(queue)
        BY <2>2, <4>3 DEF Answered
      <4>5. Head1 # Op("unknown", s)
        BY <4>3, CallNames DEF Op
      <4>6. ASSUME session[s].lowering PROVE \E i \in DOMAIN queue' : queue'[i] = Op("unknown", s)
        <5>1. PICK i \in DOMAIN queue : queue[i] = Op("unknown", s)
          BY <4>2, <4>6
        <5> QED BY <2>3, <4>4, <4>5, <5>1
      <4> QED BY <3>4, <4>2, <4>6
    <3> QED BY <3>2, <3>3, <3>4
  <2> QED BY <1>3, <1>5, <2>8, <2>9, <2>10, <2>11 DEF IInv
<1> QED BY <1>6, <1>7

LEMMA UncertainFacts ==
  ASSUME IInv, writing # None, Uncertain, executed' = executed
  PROVE  saved' \in Receipts /\ entries' \in Nat /\ JournalInv' /\ AttemptsGo
<1>1. IsReviewLine(writing) \/ IsProductionLine(writing)
  BY DEF IInv, WritingInv
<1>2. CASE WholeLine
  BY <1>1, <1>2, JournalLine DEF WholeLine, IInv, TypeInv
<1>3. CASE saved' = saved /\ entries' = entries
  BY <1>3, JournalKept DEF IInv, TypeInv
<1> QED BY <1>2, <1>3 DEF Uncertain, journal

LEMMA AppendFailsStep == IInv /\ AppendFails => IInv'
<1> SUFFICES ASSUME IInv, AppendFails PROVE IInv'
  OBVIOUS
<1>1. /\ writing # None /\ Uncertain /\ writing' = None
      /\ UNCHANGED <<now, active, host, offer, executed>>
      /\ \/ /\ store = "open" /\ store' = "faulted" /\ Answered(FALSE) /\ UNCHANGED known
         \/ /\ store # "open" /\ store' = "down" /\ known' = NoReceipts
            /\ UNCHANGED <<queue, session, wire>>
  BY DEF AppendFails, hosts
<1>2. saved' \in Receipts /\ entries' \in Nat /\ JournalInv' /\ AttemptsGo
  BY <1>1, UncertainFacts
<1>3. WritingInv' /\ ClaimInv'
  BY <1>1 DEF WritingInv, ClaimInv
<1>4. CASE store = "open"
  <2>1. PICK ok \in BOOLEAN : ok = FALSE
    OBVIOUS
  <2>2. Answered(ok) /\ queue # <<>> /\ ~ok /\ store' = "faulted" /\ known' = known
    BY <1>1, <1>4, <2>1 DEF IInv, WritingInv
  <2>3. QueueInv'
    BY <1>1, <2>2, AnsweredQueue DEF IInv
  <2>4. CallInv' /\ HostInv'
    BY <1>1, <1>2, <2>2, AnsweredCalls DEF IInv
  <2>5. TypeInv'
    BY <1>1, <1>2, <2>2, AnsweredFacts DEF IInv, TypeInv
  <2> QED BY <1>2, <1>3, <2>3, <2>4, <2>5 DEF IInv
<1>5. CASE store # "open"
  <2>1. UNCHANGED <<queue, session, wire>> /\ store' = "down" /\ known' = NoReceipts
    BY <1>1, <1>5
  <2>2. CallInv' /\ HostInv'
    BY <1>1, <1>2, <2>1, AttemptsKeep DEF IInv, CallInv, HostInv
  <2>3. QueueInv'
    BY <1>1, <2>1 DEF IInv, QueueInv, Timely
  <2>4. TypeInv'
    BY <1>1, <1>2, <2>1, NoReceiptsTyped DEF IInv, TypeInv
  <2> QED BY <1>2, <1>3, <2>2, <2>3, <2>4 DEF IInv
<1> QED BY <1>4, <1>5

LEMMA FaultedAnswersStep == IInv /\ FaultedAnswers => IInv'
<1> SUFFICES ASSUME IInv, FaultedAnswers PROVE IInv'
  OBVIOUS
<1>1. /\ store = "faulted" /\ queue # <<>> /\ Answered(FALSE)
      /\ UNCHANGED <<now, saved, entries, store, known, writing, active, host, offer, executed>>
  BY DEF FaultedAnswers, journal, hosts
<1>2. PICK ok \in BOOLEAN : ok = FALSE
  OBVIOUS
<1>3. JournalInv' /\ AttemptsGo
  BY <1>1, JournalKept DEF IInv
<1>4. QueueInv'
  BY <1>1, <1>2, AnsweredQueue DEF IInv
<1>5. CallInv' /\ HostInv'
  BY <1>1, <1>2, <1>3, AnsweredCalls DEF IInv
<1>6. TypeInv'
  BY <1>1, <1>2, AnsweredFacts DEF IInv, TypeInv
<1>7. WritingInv' /\ ClaimInv'
  BY <1>1 DEF IInv, WritingInv, ClaimInv
<1> QED BY <1>3, <1>4, <1>5, <1>6, <1>7 DEF IInv

-----------------------------------------------------------------------------
(* The end and the start of the Bridge *)

LEMMA ProcessEndsStep ==
  ASSUME IInv, ProcessEnds, now' = now, offer' = offer, executed' = executed,
         saved' \in Receipts, entries' \in Nat, JournalInv', AttemptsGo
  PROVE  IInv'
<1>1. /\ store' = "down" /\ known' = NoReceipts /\ queue' = <<>> /\ writing' = None /\ active' = None
      /\ session' = [s \in Sessions |-> IF host[s] = "off" THEN NoSession ELSE Ended]
      /\ wire' = [s \in Sessions |-> IF host[s] = "off" THEN "idle" ELSE "cut"]
      /\ host' = [s \in Sessions |-> IF host[s] = "asked" THEN "over" ELSE host[s]]
  BY DEF ProcessEnds
<1>2. NoSession \in SessionRecords /\ Ended \in SessionRecords
      /\ NoSession.of = None /\ Ended.of = None
      /\ NoSession.closed = FALSE /\ NoSession.lowering = FALSE /\ Ended.lowering = FALSE
  BY DEF NoSession, Ended, SessionRecords, Phases
<1>3. session' \in [Sessions -> SessionRecords]
  BY <1>1, <1>2
<1>4. wire' \in [Sessions -> WireStates] /\ host' \in [Sessions -> HostStates]
  BY <1>1 DEF IInv, TypeInv, WireStates, HostStates
<1>5. TypeInv'
  BY <1>1, <1>3, <1>4, NoReceiptsTyped DEF IInv, TypeInv
<1>6. WritingInv' /\ ClaimInv'
  BY <1>1 DEF WritingInv, ClaimInv
<1>7. QueueInv'
  BY <1>1 DEF QueueInv
<1>8. None \notin Sessions
  BY HostApprovalAssumption
<1>9. ASSUME NEW s \in Sessions
      PROVE  /\ session'[s].of = None /\ ~session'[s].lowering
             /\ host[s] = "off" => ~session'[s].closed
             /\ wire'[s] = IF host[s] = "off" THEN "idle" ELSE "cut"
             /\ host'[s] = IF host[s] = "asked" THEN "over" ELSE host[s]
             /\ session'[s].closed => host[s] # "off"
  <2>1. session'[s] = IF host[s] = "off" THEN NoSession ELSE Ended
    BY <1>1
  <2>2. wire'[s] = (IF host[s] = "off" THEN "idle" ELSE "cut")
        /\ host'[s] = IF host[s] = "asked" THEN "over" ELSE host[s]
    BY <1>1
  <2> QED BY <1>2, <2>1, <2>2
<1>10. ASSUME NEW s \in Sessions
       PROVE  /\ host[s] = "off" => Attempt(s)'.of = None
              /\ executed[s] => Claimed(s)' /\ host[s] \in {"running", "ingest", "unknown", "over"}
              /\ host[s] \in {"running", "ingest"} => executed[s]
              /\ host[s] = "claimed" => Attempt(s)'.state \in {"CONSUMED", "UNKNOWN"}
  BY AttemptsKeep DEF IInv, HostInv
<1>11. CallInv'
  BY <1>1, <1>8, <1>9, <1>10 DEF CallInv
<1>12. HostInv'
  BY <1>9, <1>10 DEF HostInv
<1> QED BY <1>5, <1>6, <1>7, <1>11, <1>12 DEF IInv

LEMMA CloseStoreStep == IInv /\ CloseStore => IInv'
<1> SUFFICES ASSUME IInv, CloseStore PROVE IInv'
  OBVIOUS
<1>1. ProcessEnds /\ UNCHANGED <<now, saved, entries, offer, executed>>
  BY DEF CloseStore, journal
<1>2. saved' \in Receipts /\ entries' \in Nat /\ JournalInv' /\ AttemptsGo
  BY <1>1, JournalKept DEF IInv, TypeInv
<1> QED BY <1>1, <1>2, ProcessEndsStep

LEMMA CrashStep == IInv /\ Crash => IInv'
<1> SUFFICES ASSUME IInv, Crash PROVE IInv'
  OBVIOUS
<1>1. ProcessEnds /\ UNCHANGED <<now, offer, executed>>
      /\ IF writing = None THEN UNCHANGED journal ELSE Uncertain
  BY DEF Crash
<1>2. saved' \in Receipts /\ entries' \in Nat /\ JournalInv' /\ AttemptsGo
  <2>1. CASE writing = None
    BY <1>1, <2>1, JournalKept DEF IInv, TypeInv, journal
  <2>2. CASE writing # None
    BY <1>1, <2>2, UncertainFacts
  <2> QED BY <2>1, <2>2
<1> QED BY <1>1, <1>2, ProcessEndsStep

(* An operation more at the end of the queue *)
LEMMA AppendedQueue ==
  ASSUME TypeInv, QueueInv, NEW op \in Ops, queue' = Append(queue, op),
         now' = now, active' = active, host' = host, executed' = executed,
         \A s \in Sessions :
           /\ session'[s].phase = session[s].phase /\ session'[s].begun = session[s].begun
           /\ session[s].lowering => session'[s].lowering
           /\ session[s].closed => session'[s].closed
           /\ wire[s] = "busy" => wire'[s] = "busy",
         op.kind \in Calls => active = op.id,
         op.kind \in OwnCalls =>
           /\ wire'[op.id] = "busy" /\ host[op.id] = op.kind
           /\ session[op.id].phase = BeforeCall[op.kind]
           /\ op.kind = "ingest" => executed[op.id]
           /\ \A i \in DOMAIN queue : queue[i].kind \notin Calls,
         op.kind = "unknown" =>
           session'[op.id].lowering /\ (host[op.id] = "unknown" \/ session'[op.id].closed)
  PROVE  QueueInv'
<1>1. /\ DOMAIN queue' = DOMAIN queue \cup {Len(queue) + 1} /\ queue'[Len(queue) + 1] = op
      /\ \A i \in DOMAIN queue : i \in 1 .. Len(queue) /\ queue'[i] = queue[i]
      /\ Len(queue) \in Nat
  BY QueueGrows DEF TypeInv
<1>2. \A i \in DOMAIN queue : queue[i].kind \in Calls => queue[i].id \in Sessions
  BY OpsTyped DEF TypeInv
<1>3. op.kind \in Calls => op.id \in Sessions
  BY OpsTyped
<1>4. \A s \in Sessions : ~Timely(s) <=> ~(now' < session'[s].begun + Ttl)
  BY DEF Timely
<1>5. \A i \in DOMAIN queue' : queue'[i].kind \in Calls => active' = queue'[i].id
  BY <1>1 DEF QueueInv
<1>6. ASSUME NEW i \in DOMAIN queue', queue'[i].kind \in OwnCalls
      PROVE  /\ wire'[queue'[i].id] = "busy" /\ host'[queue'[i].id] \in {queue'[i].kind, "over"}
             /\ session'[queue'[i].id].phase = BeforeCall[queue'[i].kind]
             /\ queue'[i].kind = "ingest" => executed'[queue'[i].id]
  <2>1. queue'[i].kind \in Calls
    BY <1>6, CallNames
  <2>2. CASE i \in DOMAIN queue
    <3>1. queue'[i] = queue[i] /\ queue[i].id \in Sessions
      BY <1>1, <1>2, <2>1, <2>2
    <3>2. /\ wire[queue[i].id] = "busy" /\ host[queue[i].id] \in {queue[i].kind, "over"}
          /\ session[queue[i].id].phase = BeforeCall[queue[i].kind]
          /\ queue[i].kind = "ingest" => executed[queue[i].id]
      BY <1>6, <2>2, <3>1 DEF QueueInv
    <3> QED BY <3>1, <3>2
  <2>3. CASE i = Len(queue) + 1
    BY <1>1, <1>3, <1>6, <2>1, <2>3
  <2> QED BY <1>1, <2>2, <2>3
<1>7. \A i, j \in DOMAIN queue' :
        /\ queue'[i].kind \in OwnCalls /\ queue'[j].kind \in OwnCalls => i = j
        /\ queue'[i].kind = "unknown" /\ queue'[j].kind \in OwnCalls => j < i
  <2> TAKE i, j \in DOMAIN queue'
  <2>1. CASE i \in DOMAIN queue /\ j \in DOMAIN queue
    BY <1>1, <2>1 DEF QueueInv
  <2>2. CASE j = Len(queue) + 1 /\ i \in DOMAIN queue
    BY <1>1, <2>2, CallNames
  <2>3. CASE i = Len(queue) + 1 /\ j \in DOMAIN queue
    BY <1>1, <2>3, CallNames
  <2>4. CASE i = Len(queue) + 1 /\ j = Len(queue) + 1
    BY <1>1, <2>4, CallNames
  <2> QED BY <1>1, <2>1, <2>2, <2>3, <2>4
<1>8. ASSUME NEW i \in DOMAIN queue', queue'[i].kind = "unknown"
      PROVE  /\ session'[queue'[i].id].lowering
             /\ \/ host'[queue'[i].id] \in {"unknown", "over"} \/ session'[queue'[i].id].closed
                \/ ~(now' < session'[queue'[i].id].begun + Ttl)
  <2>1. CASE i \in DOMAIN queue
    <3>1. queue'[i] = queue[i] /\ queue[i].id \in Sessions
      BY <1>1, <1>2, <1>8, <2>1, CallNames
    <3>2. /\ session[queue[i].id].lowering
          /\ host[queue[i].id] \in {"unknown", "over"} \/ session[queue[i].id].closed \/ ~Timely(queue[i].id)
      BY <1>8, <2>1, <3>1 DEF QueueInv
    <3> QED BY <1>4, <3>1, <3>2
  <2>2. CASE i = Len(queue) + 1
    BY <1>1, <1>8, <2>2
  <2> QED BY <1>1, <2>1, <2>2
<1> QED BY <1>5, <1>6, <1>7, <1>8 DEF QueueInv, Timely

LEMMA ShutdownStep == IInv /\ Shutdown => IInv'
<1> SUFFICES ASSUME IInv, Shutdown PROVE IInv'
  OBVIOUS
<1>1. /\ queue' = Append(queue, Op("close", None))
      /\ UNCHANGED <<now, saved, entries, store, known, writing, active, session, wire, host, offer, executed>>
  BY DEF Shutdown, Queued, journal, hosts
<1> DEFINE op == Op("close", None)
<1>2. op \in Ops /\ op.kind = "close" /\ op.kind \notin Calls /\ op.kind \notin OwnCalls
  BY OpsTyped, CallNames DEF Op
<1>3. queue' = Append(queue, op)
  BY <1>1
<1> HIDE DEF op
<1>4. QueueInv'
  BY <1>1, <1>2, <1>3, AppendedQueue DEF IInv
<1>5. queue' \in Seq(Ops) /\ queue' # <<>>
      /\ \A i \in DOMAIN queue : i \in DOMAIN queue' /\ queue'[i] = queue[i]
  BY <1>2, <1>3, QueueGrows DEF IInv, TypeInv
<1>6. TypeInv'
  BY <1>1, <1>5 DEF IInv, TypeInv
<1>7. JournalInv' /\ CallInv' /\ HostInv'
  BY <1>1 DEF IInv, JournalInv, CallInv, HostInv, Attempt, Claimed
<1>8. queue # <<>> => queue'[1] = queue[1]
  BY <1>5, QueueMoves DEF IInv, TypeInv
<1>9. WritingInv'
  BY <1>1, <1>5, <1>8, WritingKept DEF IInv
<1>10. ClaimInv'
  BY <1>1, <1>5 DEF IInv, ClaimInv, Attempt, HasCapacity
<1> QED BY <1>4, <1>6, <1>7, <1>9, <1>10 DEF IInv

LEMMA OperatorStep == IInv /\ OperatorRemovesLock => IInv'
<1> SUFFICES ASSUME IInv, OperatorRemovesLock PROVE IInv'
  OBVIOUS
<1>1. UNCHANGED <<now, saved, entries, store, known, queue, writing, active, session, wire, host, offer, executed>>
  BY DEF OperatorRemovesLock, journal, bridge, hosts
<1>2. WritingInv'
  BY <1>1, WritingKept DEF IInv
<1> QED BY <1>1, <1>2 DEF IInv, TypeInv, JournalInv, CallInv, QueueInv, HostInv, ClaimInv,
             Attempt, Claimed, Timely, HasCapacity

LEMMA OpenStep == IInv /\ Open => IInv'
<1> SUFFICES ASSUME IInv, Open PROVE IInv'
  OBVIOUS
<1>1. /\ store = "down" /\ store' = "recovering" /\ known' = saved
      /\ UNCHANGED <<now, saved, entries, queue, writing, active, session, wire, host, offer, executed>>
  BY DEF Open, journal, hosts
<1>2. writing = None
  BY <1>1 DEF IInv, WritingInv
<1>3. WritingInv' /\ ClaimInv'
  BY <1>1, <1>2 DEF WritingInv, ClaimInv
<1>4. TypeInv'
  BY <1>1 DEF IInv, TypeInv
<1> QED BY <1>1, <1>3, <1>4 DEF IInv, JournalInv, CallInv, QueueInv, HostInv, Attempt, Claimed, Timely

LEMMA RecoveryLineOk ==
  ASSUME TypeInv, JournalInv, known = saved, NEW line \in RecoveryLines
  PROVE  IsReviewLine(line) \/ IsProductionLine(line)
<1>1. CASE \E s \in Sessions : Production(s).state \in {"PROPOSED", "APPROVED", "CONSUMED"}
             /\ line = ToProduction(s, IF Production(s).state = "CONSUMED" THEN "UNKNOWN" ELSE "EXPIRED")
  <2>1. PICK s \in Sessions : Production(s).state \in {"PROPOSED", "APPROVED", "CONSUMED"}
             /\ line = ToProduction(s, IF Production(s).state = "CONSUMED" THEN "UNKNOWN" ELSE "EXPIRED")
    BY <1>1
  <2>2. Attempt(s) = Production(s)
    BY DEF Attempt, Production
  <2>3. PICK state : state = IF Production(s).state = "CONSUMED" THEN "UNKNOWN" ELSE "EXPIRED"
    OBVIOUS
  <2>4. line = Line("production", s, [Attempt(s) EXCEPT !.state = state])
    BY <2>1, <2>2, <2>3 DEF ToProduction
  <2>5. state \in ProductionStates
    BY <2>3 DEF ProductionStates
  <2> DEFINE to == [Attempt(s) EXCEPT !.state = state]
  <2>6. to \in ProductionRecords /\ to.state = state /\ to.of = Attempt(s).of
    BY <2>5, ProductionTyped
  <2>7. line = Line("production", s, to)
    BY <2>4
  <2> HIDE DEF to
  <2>8. MayBecome(s, to)
    BY <2>1, <2>2, <2>3, <2>6 DEF MayBecome
  <2>9. IsProductionLine(line)
    BY <2>6, <2>7, <2>8 DEF IsProductionLine, Line
  <2> QED BY <2>9
<1>2. CASE \E r \in Reviews : line \in ExpireLines(r)
  <2>1. PICK r \in Reviews : line \in ExpireLines(r)
    BY <1>2
  <2>2. line \in CreateLines(r) /\ "create" \in ReviewKinds
    BY <2>1 DEF CreateLines, ReviewKinds
  <2> QED BY <2>2, ReviewLineOk
<1> QED BY <1>1, <1>2 DEF RecoveryLines

LEMMA RecoversStep == IInv /\ Recovers => IInv'
<1> SUFFICES ASSUME IInv, Recovers PROVE IInv'
  OBVIOUS
<1>1. /\ store = "recovering" /\ writing = None
      /\ UNCHANGED <<now, saved, entries, queue, active, session, wire, host, offer, executed>>
  BY DEF Recovers, journal, hosts
<1>2. known = saved
  BY <1>1 DEF IInv, WritingInv
<1>3. JournalInv' /\ CallInv' /\ QueueInv' /\ HostInv'
  BY <1>1 DEF IInv, JournalInv, CallInv, QueueInv, HostInv, Attempt, Claimed, Timely
<1>4. CASE writing' \in RecoveryLines /\ store' = store /\ known' = known
  <2>1. IsReviewLine(writing') \/ IsProductionLine(writing')
    BY <1>2, <1>4, RecoveryLineOk DEF IInv
  <2>2. IsReviewLine(writing)' <=> IsReviewLine(writing')
    BY <1>1 DEF IsReviewLine, MayReview
  <2>3. IsProductionLine(writing)' <=> IsProductionLine(writing')
    BY <1>1 DEF IsProductionLine, MayBecome, Attempt, Stands
  <2>4. WritingInv' /\ ClaimInv'
    BY <1>1, <1>2, <1>4, <2>1, <2>2, <2>3 DEF WritingInv, ClaimInv
  <2>5. TypeInv'
    BY <1>1, <1>4 DEF IInv, TypeInv
  <2> QED BY <1>3, <2>4, <2>5 DEF IInv
<1>5. CASE store' = "down" /\ known' = NoReceipts /\ writing' = writing
  <2>1. WritingInv' /\ ClaimInv'
    BY <1>1, <1>5 DEF WritingInv, ClaimInv
  <2>2. TypeInv'
    BY <1>1, <1>5, NoReceiptsTyped DEF IInv, TypeInv
  <2> QED BY <1>3, <2>1, <2>2 DEF IInv
<1>6. CASE RecoveryLines = {} /\ store' = "open" /\ UNCHANGED <<writing, known>>
  <2>1. \A s \in Sessions : Attempt(s).state # "CONSUMED"
    <3>1. ASSUME NEW s \in Sessions, Attempt(s).state = "CONSUMED" PROVE FALSE
      <4>1. Production(s).state = "CONSUMED"
        BY <1>2, <3>1 DEF Attempt, Production
      <4> QED BY <1>6, <4>1 DEF RecoveryLines
    <3> QED BY <3>1
  <2>2. ClaimInv'
    BY <1>1, <2>1 DEF ClaimInv, Attempt
  <2>3. WritingInv'
    BY <1>1, <1>2, <1>6 DEF WritingInv
  <2>4. TypeInv'
    BY <1>1, <1>6 DEF IInv, TypeInv
  <2> QED BY <1>3, <2>2, <2>3, <2>4 DEF IInv
<1> QED BY <1>4, <1>5, <1>6 DEF Recovers

-----------------------------------------------------------------------------
(* The tools and the sessions *)

LEMMA ReviewToolStep == \A r \in Reviews : IInv /\ ReviewTool(r) => IInv'
<1> SUFFICES ASSUME NEW r \in Reviews, IInv, ReviewTool(r) PROVE IInv'
  OBVIOUS
<1>1. PICK kind \in ReviewKinds : queue' = Append(queue, Op(kind, r))
  BY DEF ReviewTool, Queued, ReviewKinds
<1>2. UNCHANGED <<now, saved, entries, store, known, writing, active, session, wire, host, offer, executed>>
  BY DEF ReviewTool, journal, hosts
<1> DEFINE op == Op(kind, r)
<1>3. op \in Ops /\ op.kind \notin Calls /\ op.kind \notin OwnCalls /\ op.kind # "unknown"
  BY OpsTyped, CallNames DEF Op, ReviewKinds
<1>4. queue' = Append(queue, op)
  BY <1>1
<1> HIDE DEF op
<1>5. QueueInv'
  BY <1>2, <1>3, <1>4, AppendedQueue DEF IInv
<1>6. queue' \in Seq(Ops) /\ queue' # <<>>
      /\ \A i \in DOMAIN queue : i \in DOMAIN queue' /\ queue'[i] = queue[i]
  BY <1>3, <1>4, QueueGrows DEF IInv, TypeInv
<1>7. TypeInv'
  BY <1>2, <1>6 DEF IInv, TypeInv
<1>8. JournalInv' /\ CallInv' /\ HostInv'
  BY <1>2 DEF IInv, JournalInv, CallInv, HostInv, Attempt, Claimed
<1>9. queue # <<>> => queue'[1] = queue[1]
  BY <1>6, QueueMoves DEF IInv, TypeInv
<1>10. WritingInv'
  BY <1>2, <1>6, <1>9, WritingKept DEF IInv
<1>11. ClaimInv'
  BY <1>2, <1>6 DEF IInv, ClaimInv, Attempt, HasCapacity
<1> QED BY <1>5, <1>7, <1>8, <1>10, <1>11 DEF IInv

LEMMA ExecuteToolStep == \A s \in Sessions, r \in Reviews : IInv /\ ExecuteTool(s, r) => IInv'
<1> SUFFICES ASSUME NEW s \in Sessions, NEW r \in Reviews, IInv, ExecuteTool(s, r) PROVE IInv'
  OBVIOUS
<1>1. /\ host[s] = "off" /\ host' = [host EXCEPT ![s] = "asked"]
      /\ session' = [session EXCEPT ![s].of = r]
      /\ UNCHANGED <<now, saved, entries, store, known, queue, writing, active, wire, offer, executed>>
  BY DEF ExecuteTool, journal
<1>2. session[s] \in SessionRecords /\ r # None
  BY HostApprovalAssumption DEF IInv, TypeInv
<1> DEFINE new == [session[s] EXCEPT !.of = r]
<1>3. new \in SessionRecords /\ new.of = r /\ new.phase = session[s].phase /\ new.begun = session[s].begun
      /\ new.closed = session[s].closed /\ new.lowering = session[s].lowering
  BY <1>2 DEF SessionRecords
<1>4. session' = [session EXCEPT ![s] = new]
  BY <1>1 DEF IInv, TypeInv
<1> HIDE DEF new
<1>5. session' \in [Sessions -> SessionRecords] /\ session'[s] = new
      /\ \A t \in Sessions : t # s => session'[t] = session[t]
  BY <1>3, <1>4 DEF IInv, TypeInv
<1>6. host' \in [Sessions -> HostStates] /\ host'[s] = "asked"
      /\ \A t \in Sessions : t # s => host'[t] = host[t]
  BY <1>1 DEF IInv, TypeInv, HostStates
<1>7. TypeInv'
  BY <1>1, <1>5, <1>6 DEF IInv, TypeInv
<1>8. JournalInv'
  BY <1>1 DEF IInv, JournalInv, Attempt
<1>9. active # s /\ Attempt(s).of = None /\ ~executed[s]
  BY <1>1 DEF IInv, CallInv, HostInv
<1>10. CallInv'
  BY <1>1, <1>2, <1>3, <1>5, <1>6, <1>9, CallNames DEF IInv, CallInv, Attempt
<1>11. HostInv'
  BY <1>1, <1>6, <1>9 DEF IInv, HostInv, Attempt, Claimed
<1>12. \A i \in DOMAIN queue : queue[i].kind \in Calls => queue[i].id \in Sessions \ {s}
  BY <1>9, OpsTyped DEF IInv, TypeInv, QueueInv
<1>13. QueueInv'
  BY <1>1, <1>5, <1>6, <1>12, CallNames DEF IInv, QueueInv, Timely
<1>14. WritingInv'
  BY <1>1, <1>5, <1>6, WritingKept DEF IInv
<1>15. ClaimInv'
  BY <1>1, <1>3, <1>5 DEF IInv, ClaimInv, Attempt, HasCapacity
<1> QED BY <1>7, <1>8, <1>10, <1>11, <1>13, <1>14, <1>15 DEF IInv

LEMMA InspectStep == \A s \in Sessions : IInv /\ Inspect(s) => IInv'
<1> SUFFICES ASSUME NEW s \in Sessions, IInv, Inspect(s) PROVE IInv'
  OBVIOUS
<1>1. /\ host[s] = "asked"
      /\ UNCHANGED <<now, saved, entries, store, known, queue, writing, offer, executed>>
  BY DEF Inspect, journal
<1>2. active # s /\ ~executed[s] /\ session[s].of # None /\ ~session[s].closed
      /\ session[s] \in SessionRecords
  BY <1>1 DEF IInv, CallInv, HostInv, TypeInv
<1>3. \A i \in DOMAIN queue : queue[i].kind \in Calls => queue[i].id \in Sessions \ {s}
  BY <1>2, OpsTyped DEF IInv, TypeInv, QueueInv
<1>4. JournalInv'
  BY <1>1 DEF IInv, JournalInv, Attempt
<1>5. CASE /\ host' = [host EXCEPT ![s] = "over"] /\ session' = [session EXCEPT ![s] = Ended]
           /\ wire' = [wire EXCEPT ![s] = "cut"] /\ active' = active
  <2>1. Ended \in SessionRecords /\ Ended.of = None /\ ~Ended.lowering
    BY DEF NoSession, Ended, SessionRecords, Phases
  <2>2. session' \in [Sessions -> SessionRecords] /\ session'[s] = Ended
        /\ \A t \in Sessions : t # s => session'[t] = session[t]
    BY <1>5, <2>1 DEF IInv, TypeInv
  <2>3. host' \in [Sessions -> HostStates] /\ host'[s] = "over"
        /\ \A t \in Sessions : t # s => host'[t] = host[t]
    BY <1>5 DEF IInv, TypeInv, HostStates
  <2>4. wire' \in [Sessions -> WireStates] /\ wire'[s] = "cut"
        /\ \A t \in Sessions : t # s => wire'[t] = wire[t]
    BY <1>5 DEF IInv, TypeInv, WireStates
  <2>5. TypeInv'
    BY <1>1, <1>5, <2>2, <2>3, <2>4 DEF IInv, TypeInv
  <2>6. CallInv'
    BY <1>1, <1>2, <1>5, <2>1, <2>2, <2>3, <2>4, CallNames DEF IInv, CallInv, Attempt
  <2>7. HostInv'
    BY <1>1, <1>2, <1>5, <2>3, <2>4 DEF IInv, HostInv, Attempt, Claimed
  <2>8. QueueInv'
    BY <1>1, <1>3, <1>5, <2>2, <2>3, <2>4, CallNames DEF IInv, QueueInv, Timely
  <2>9. WritingInv'
    BY <1>1, <2>1, <2>2, <2>3, WritingKept DEF IInv
  <2>10. ClaimInv'
    BY <1>1, <1>2, <1>5, <2>2 DEF IInv, ClaimInv, Attempt, HasCapacity
  <2> QED BY <1>4, <2>5, <2>6, <2>7, <2>8, <2>9, <2>10 DEF IInv
<1>6. CASE /\ active = None /\ active' = s /\ session' = [session EXCEPT ![s].begun = now]
           /\ host' = [host EXCEPT ![s] = "prepare"] /\ wire' = [wire EXCEPT ![s] = "sent"]
  <2> DEFINE new == [session[s] EXCEPT !.begun = now]
  <2>1. new \in SessionRecords /\ new.of = session[s].of /\ new.phase = session[s].phase
        /\ new.closed = session[s].closed /\ new.lowering = session[s].lowering
    BY <1>2 DEF SessionRecords, IInv, TypeInv
  <2>2. session' = [session EXCEPT ![s] = new]
    BY <1>6 DEF IInv, TypeInv
  <2> HIDE DEF new
  <2>3. session' \in [Sessions -> SessionRecords] /\ session'[s] = new
        /\ \A t \in Sessions : t # s => session'[t] = session[t]
    BY <2>1, <2>2 DEF IInv, TypeInv
  <2>4. host' \in [Sessions -> HostStates] /\ host'[s] = "prepare"
        /\ \A t \in Sessions : t # s => host'[t] = host[t]
    BY <1>6, CallNames DEF IInv, TypeInv, HostStates
  <2>5. wire' \in [Sessions -> WireStates] /\ wire'[s] = "sent"
        /\ \A t \in Sessions : t # s => wire'[t] = wire[t]
    BY <1>6 DEF IInv, TypeInv, WireStates
  <2>6. TypeInv'
    BY <1>1, <1>6, <2>3, <2>4, <2>5 DEF IInv, TypeInv
  <2>7. None \notin Sessions
    BY HostApprovalAssumption
  <2>8. \A i \in DOMAIN queue : queue[i].kind \notin Calls
    BY <1>3, <1>6, <2>7 DEF IInv, QueueInv
  <2>9. CallInv'
    BY <1>1, <1>2, <1>6, <2>1, <2>3, <2>4, <2>5, <2>7, CallNames DEF IInv, CallInv, Attempt
  <2>10. HostInv'
    BY <1>1, <1>2, <2>4, <2>5 DEF IInv, HostInv, Attempt, Claimed
  <2>11. QueueInv'
    BY <1>1, <2>8, CallNames DEF QueueInv
  <2>12. WritingInv'
    BY <1>1, <2>1, <2>3, <2>4, WritingKept DEF IInv
  <2>13. ClaimInv'
    BY <1>1, <1>6, <2>7 DEF IInv, ClaimInv, Attempt, HasCapacity
  <2> QED BY <1>4, <2>6, <2>9, <2>10, <2>11, <2>12, <2>13 DEF IInv
<1> QED BY <1>5, <1>6 DEF Inspect

LEMMA ReceiveStep == \A s \in Sessions : IInv /\ Receive(s) => IInv'
<1> SUFFICES ASSUME NEW s \in Sessions, IInv, Receive(s) PROVE IInv'
  OBVIOUS
<1>1. /\ active = s /\ wire[s] = "sent"
      /\ UNCHANGED <<now, saved, entries, store, known, writing, active, host, offer, executed>>
  BY DEF Receive, journal, hosts
<1>2. session[s] \in SessionRecords /\ ~session[s].closed /\ host[s] \in Calls
      /\ (host[s] \in {"running", "ingest"} => executed[s])
  BY <1>1 DEF IInv, CallInv, HostInv, TypeInv
<1>3. JournalInv'
  BY <1>1 DEF IInv, JournalInv, Attempt
<1>4. CASE Timely(s) /\ session[s].phase = BeforeCall[host[s]]
  <2>1. /\ queue' = Append(queue, Op(host[s], s))
        /\ session' = [session EXCEPT ![s].lowering = @ \/ host[s] = "unknown"]
        /\ wire' = [wire EXCEPT ![s] = "busy"]
    BY <1>4 DEF Receive, Queued
  <2>2. PICK low \in BOOLEAN : low = (session[s].lowering \/ host[s] = "unknown")
    BY <1>2 DEF SessionRecords
  <2> DEFINE new == [session[s] EXCEPT !.lowering = low]
             op == Op(host[s], s)
  <2>3. session' = [session EXCEPT ![s] = new]
    BY <2>1, <2>2 DEF IInv, TypeInv
  <2>4. new \in SessionRecords /\ new.of = session[s].of /\ new.phase = session[s].phase
        /\ new.begun = session[s].begun /\ new.closed = session[s].closed /\ new.lowering = low
    BY <1>2, <2>2 DEF SessionRecords
  <2> HIDE DEF new
  <2>5. session' \in [Sessions -> SessionRecords] /\ session'[s] = new
        /\ \A t \in Sessions : t # s => session'[t] = session[t]
    BY <2>3, <2>4 DEF IInv, TypeInv
  <2>6. wire' \in [Sessions -> WireStates] /\ wire'[s] = "busy"
        /\ \A t \in Sessions : t # s => wire'[t] = wire[t]
    BY <2>1 DEF IInv, TypeInv, WireStates
  <2>7. op \in Ops /\ op.kind = host[s] /\ op.id = s /\ queue' = Append(queue, op)
    BY <1>2, <2>1, OpsTyped DEF Op
  <2> HIDE DEF op
  <2>8. queue' \in Seq(Ops) /\ queue' # <<>> /\ queue'[Len(queue) + 1] = op
        /\ Len(queue) + 1 \in DOMAIN queue'
        /\ \A i \in DOMAIN queue : i \in DOMAIN queue' /\ queue'[i] = queue[i]
    BY <2>7, QueueGrows DEF IInv, TypeInv
  <2>9. TypeInv'
    BY <1>1, <2>5, <2>6, <2>8 DEF IInv, TypeInv
  <2>10. low => session[s].phase \in {"consumed", "done"}
    <3>1. session[s].lowering => session[s].phase \in {"consumed", "done"}
      BY DEF IInv, CallInv
    <3>2. host[s] = "unknown" => session[s].phase = "consumed"
      BY <1>4, CallNames
    <3> QED BY <2>2, <3>1, <3>2
  <2>11. CallInv'
    BY <1>1, <1>2, <2>4, <2>5, <2>6, <2>10, CallNames DEF IInv, CallInv, Attempt
  <2>12. HostInv'
    BY <1>1, <2>6 DEF IInv, HostInv, Attempt, Claimed
  <2>13. \A i \in DOMAIN queue : queue[i].kind \in Calls => queue[i].id = s
    BY <1>1 DEF IInv, QueueInv
  <2>14. \A i \in DOMAIN queue : queue[i].kind \notin OwnCalls
    BY <1>1, <2>13, CallNames DEF IInv, QueueInv
  <2>15. ASSUME op.kind \in OwnCalls PROVE \A i \in DOMAIN queue : queue[i].kind \notin Calls
    <3>1. ASSUME NEW i \in DOMAIN queue, queue[i].kind = "unknown" PROVE FALSE
      <4>1. queue[i].id = s
        BY <2>13, <3>1, CallNames
      <4>2. host[s] \in {"unknown", "over"} \/ session[s].closed \/ ~Timely(s)
        BY <3>1, <4>1 DEF IInv, QueueInv
      <4> QED BY <1>2, <1>4, <2>7, <2>15, <4>2, CallNames
    <3> QED BY <2>14, <3>1, CallNames
  <2>16. QueueInv'
    <3>1. \A t \in Sessions :
            /\ session'[t].phase = session[t].phase /\ session'[t].begun = session[t].begun
            /\ session[t].lowering => session'[t].lowering
            /\ session[t].closed => session'[t].closed
            /\ wire[t] = "busy" => wire'[t] = "busy"
      BY <2>2, <2>4, <2>5, <2>6
    <3>2. op.kind \in OwnCalls =>
            /\ wire'[op.id] = "busy" /\ host[op.id] = op.kind
            /\ session[op.id].phase = BeforeCall[op.kind]
            /\ op.kind = "ingest" => executed[op.id]
            /\ \A i \in DOMAIN queue : queue[i].kind \notin Calls
      BY <1>2, <1>4, <2>6, <2>7, <2>15
    <3>3. op.kind = "unknown" =>
            session'[op.id].lowering /\ (host[op.id] = "unknown" \/ session'[op.id].closed)
      BY <2>2, <2>4, <2>5, <2>7
    <3> QED BY <1>1, <2>7, <3>1, <3>2, <3>3, AppendedQueue DEF IInv
  <2>17. WritingInv'
    <3>1. queue # <<>> => queue'[1] = queue[1]
      BY <2>8, QueueMoves DEF IInv, TypeInv
    <3> QED BY <1>1, <2>4, <2>5, <2>8, <3>1, WritingKept DEF IInv
  <2>18. ClaimInv'
    <3> SUFFICES ASSUME NEW t \in Sessions, store = "open", HasCapacity, Attempt(t).state = "CONSUMED"
                 PROVE  /\ active = t /\ session'[t].phase = "consumed"
                        /\ session'[t].closed => session'[t].lowering
                        /\ session'[t].lowering => \E i \in DOMAIN queue' : queue'[i] = Op("unknown", t)
      BY <1>1 DEF ClaimInv, HasCapacity, Attempt
    <3>1. /\ active = t /\ session[t].phase = "consumed"
          /\ session[t].closed => session[t].lowering
          /\ session[t].lowering => \E i \in DOMAIN queue : queue[i] = Op("unknown", t)
      BY DEF IInv, ClaimInv
    <3>2. t = s
      BY <1>1, <3>1
    <3>3. ASSUME host[s] = "unknown" PROVE queue'[Len(queue) + 1] = Op("unknown", t)
      BY <2>8, <3>2, <3>3 DEF op
    <3> QED BY <1>2, <2>2, <2>4, <2>5, <2>8, <3>1, <3>2, <3>3
  <2> QED BY <1>3, <2>9, <2>11, <2>12, <2>16, <2>17, <2>18 DEF IInv
<1>5. CASE ~(Timely(s) /\ session[s].phase = BeforeCall[host[s]])
  <2>1. wire' = [wire EXCEPT ![s] = "no"] /\ queue' = queue /\ session' = session
    BY <1>5 DEF Receive
  <2>2. wire' \in [Sessions -> WireStates] /\ wire'[s] = "no"
        /\ \A t \in Sessions : t # s => wire'[t] = wire[t]
    BY <2>1 DEF IInv, TypeInv, WireStates
  <2>3. TypeInv'
    BY <1>1, <2>1, <2>2 DEF IInv, TypeInv
  <2>4. CallInv'
    BY <1>1, <1>2, <2>1, <2>2 DEF IInv, CallInv, Attempt
  <2>5. HostInv'
    BY <1>1, <2>2 DEF IInv, HostInv, Attempt, Claimed
  <2>6. \A i \in DOMAIN queue : queue[i].kind \in OwnCalls => queue[i].id \in Sessions \ {s}
    BY <1>1, OpsTyped, CallNames DEF IInv, TypeInv, QueueInv
  <2>7. QueueInv'
    BY <1>1, <2>1, <2>2, <2>6 DEF IInv, QueueInv, Timely
  <2>8. WritingInv'
    BY <1>1, <2>1, WritingKept DEF IInv
  <2>9. ClaimInv'
    BY <1>1, <2>1 DEF IInv, ClaimInv, Attempt, HasCapacity
  <2> QED BY <1>3, <2>3, <2>4, <2>5, <2>7, <2>8, <2>9 DEF IInv
<1> QED BY <1>4, <1>5

LEMMA EndSessionStep == \A s \in Sessions : IInv /\ EndSession(s) => IInv'
<1> SUFFICES ASSUME NEW s \in Sessions, IInv, EndSession(s) PROVE IInv'
  OBVIOUS
<1> DEFINE lowers == Lowers(s, session[s].phase)
<1>1. /\ active = s /\ ~session[s].closed
      /\ session' = [session EXCEPT ![s].closed = TRUE, ![s].lowering = @ \/ lowers]
      /\ queue' = queue \o (IF lowers THEN <<Op("unknown", s)>> ELSE <<>>)
      /\ wire' = [wire EXCEPT ![s] = IF @ = "busy" THEN @ ELSE "cut"]
      /\ UNCHANGED <<now, saved, entries, store, known, writing, active, host, offer, executed>>
  BY DEF EndSession, journal, hosts
<1>2. session[s] \in SessionRecords /\ wire[s] \in WireStates /\ host[s] \notin {"off", "asked"}
  BY <1>1 DEF IInv, CallInv, TypeInv
<1>3. lowers \in BOOLEAN /\ (lowers => session[s].phase = "consumed" /\ ~session[s].lowering)
      /\ (~lowers /\ session[s].phase = "consumed" => session[s].lowering)
  BY DEF Lowers
<1> HIDE DEF lowers
<1>4. PICK yes, low \in BOOLEAN : yes = TRUE /\ low = (session[s].lowering \/ lowers)
  BY <1>2, <1>3 DEF SessionRecords
<1> DEFINE new == [session[s] EXCEPT !.closed = yes, !.lowering = low]
<1>5. session' = [session EXCEPT ![s] = new]
  BY <1>1, <1>4 DEF IInv, TypeInv
<1>6. new \in SessionRecords /\ new.of = session[s].of /\ new.phase = session[s].phase
      /\ new.begun = session[s].begun /\ new.closed = yes /\ new.lowering = low
  BY <1>2, <1>4 DEF SessionRecords
<1> HIDE DEF new
<1>7. session' \in [Sessions -> SessionRecords] /\ session'[s] = new
      /\ \A t \in Sessions : t # s => session'[t] = session[t]
  BY <1>5, <1>6 DEF IInv, TypeInv
<1>8. wire' \in [Sessions -> WireStates] /\ wire'[s] = (IF wire[s] = "busy" THEN "busy" ELSE "cut")
      /\ \A t \in Sessions : t # s => wire'[t] = wire[t]
  BY <1>1, <1>2 DEF IInv, TypeInv, WireStates
<1>9. Op("unknown", s) \in Ops /\ Op("unknown", s).kind = "unknown" /\ Op("unknown", s).id = s
  BY OpsTyped DEF Op
<1>10. queue' = IF lowers THEN Append(queue, Op("unknown", s)) ELSE queue
  BY <1>1, <1>9, QueueGrows DEF IInv, TypeInv
<1>11. /\ queue' \in Seq(Ops) /\ (queue # <<>> => queue' # <<>>)
       /\ \A i \in DOMAIN queue : i \in DOMAIN queue' /\ queue'[i] = queue[i]
       /\ lowers => \E i \in DOMAIN queue' : queue'[i] = Op("unknown", s)
  BY <1>9, <1>10, QueueGrows DEF IInv, TypeInv
<1>12. TypeInv'
  BY <1>1, <1>7, <1>8, <1>11 DEF IInv, TypeInv
<1>13. JournalInv'
  BY <1>1 DEF IInv, JournalInv, Attempt
<1>14. low => session[s].phase \in {"consumed", "done"}
  <2>1. session[s].lowering => session[s].phase \in {"consumed", "done"}
    BY DEF IInv, CallInv
  <2> QED BY <1>3, <1>4, <2>1
<1>15. CallInv'
  <2>1. ASSUME NEW t \in Sessions
        PROVE  /\ session'[t].of = session[t].of
               /\ host[t] \in {"off", "asked"} => ~session'[t].closed
               /\ wire'[t] = "sent" => host[t] \in Calls
               /\ session'[t].closed => wire'[t] \in {"busy", "cut"}
               /\ host[t] \in {"claimed", "running"} => wire'[t] # "busy"
               /\ session'[t].lowering => session'[t].phase \in {"consumed", "done"}
    <3>1. /\ host[t] \in {"off", "asked"} => ~session[t].closed
          /\ wire[t] = "sent" => host[t] \in Calls
          /\ session[t].closed => wire[t] \in {"busy", "cut"}
          /\ host[t] \in {"claimed", "running"} => wire[t] # "busy"
          /\ session[t].lowering => session[t].phase \in {"consumed", "done"}
      BY DEF IInv, CallInv
    <3>2. CASE t = s
      BY <1>2, <1>6, <1>7, <1>8, <1>14, <3>1, <3>2
    <3>3. CASE t # s
      BY <1>7, <1>8, <3>1, <3>3
    <3> QED BY <3>2, <3>3
  <2> QED BY <1>1, <2>1 DEF IInv, CallInv, Attempt
<1>16. HostInv'
  BY <1>1, <1>8 DEF IInv, HostInv, Attempt, Claimed
<1>17. \A t \in Sessions :
         /\ session'[t].phase = session[t].phase /\ session'[t].begun = session[t].begun
         /\ session[t].lowering => session'[t].lowering
         /\ session[t].closed => session'[t].closed
         /\ wire[t] = "busy" => wire'[t] = "busy"
  BY <1>4, <1>6, <1>7, <1>8
<1>18. QueueInv'
  <2>1. CASE lowers
    <3>1. queue' = Append(queue, Op("unknown", s))
      BY <1>10, <2>1
    <3>2. session'[s].lowering /\ session'[s].closed
      BY <1>4, <1>6, <1>7, <2>1
    <3>3. Op("unknown", s).kind \notin OwnCalls /\ Op("unknown", s).kind \in Calls
      BY <1>9, CallNames
    <3> QED BY <1>1, <1>9, <1>17, <3>1, <3>2, <3>3, AppendedQueue DEF IInv
  <2>2. CASE ~lowers
    <3>1. queue' = queue
      BY <1>10, <2>2
    <3>2. \A i \in DOMAIN queue : queue[i].kind \in Calls => queue[i].id \in Sessions
      BY OpsTyped DEF IInv, TypeInv
    <3>3. ASSUME NEW i \in DOMAIN queue, queue[i].kind = "unknown"
          PROVE  /\ session'[queue[i].id].lowering
                 /\ host[queue[i].id] \in {"unknown", "over"} \/ session'[queue[i].id].closed
                      \/ ~(now < session'[queue[i].id].begun + Ttl)
      <4>1. queue[i].id \in Sessions
        BY <3>2, <3>3, CallNames
      <4>2. /\ session[queue[i].id].lowering
            /\ host[queue[i].id] \in {"unknown", "over"} \/ session[queue[i].id].closed
                 \/ ~(now < session[queue[i].id].begun + Ttl)
        BY <3>3 DEF IInv, QueueInv, Timely
      <4> QED BY <1>17, <4>1, <4>2
    <3>4. \A i \in DOMAIN queue' : queue'[i].kind \in Calls => active' = queue'[i].id
      BY <1>1, <3>1 DEF IInv, QueueInv
    <3>5. ASSUME NEW i \in DOMAIN queue, queue[i].kind \in OwnCalls
          PROVE  /\ wire'[queue[i].id] = "busy" /\ host[queue[i].id] \in {queue[i].kind, "over"}
                 /\ session'[queue[i].id].phase = BeforeCall[queue[i].kind]
                 /\ queue[i].kind = "ingest" => executed[queue[i].id]
      <4>1. queue[i].id \in Sessions
        BY <3>2, <3>5, CallNames
      <4>2. /\ wire[queue[i].id] = "busy" /\ host[queue[i].id] \in {queue[i].kind, "over"}
            /\ session[queue[i].id].phase = BeforeCall[queue[i].kind]
            /\ queue[i].kind = "ingest" => executed[queue[i].id]
        BY <3>5 DEF IInv, QueueInv
      <4> QED BY <1>17, <4>1, <4>2
    <3>6. \A i, j \in DOMAIN queue' :
            /\ queue'[i].kind \in OwnCalls /\ queue'[j].kind \in OwnCalls => i = j
            /\ queue'[i].kind = "unknown" /\ queue'[j].kind \in OwnCalls => j < i
      BY <3>1 DEF IInv, QueueInv
    <3> QED BY <1>1, <3>1, <3>3, <3>4, <3>5, <3>6 DEF QueueInv, Timely
  <2> QED BY <1>3, <2>1, <2>2
<1>19. WritingInv'
  <2>1. queue # <<>> => queue'[1] = queue[1]
    BY <1>11, QueueMoves DEF IInv, TypeInv
  <2> QED BY <1>1, <1>6, <1>7, <1>11, <2>1, WritingKept DEF IInv
<1>20. ClaimInv'
  <2> SUFFICES ASSUME NEW t \in Sessions, store = "open", HasCapacity, Attempt(t).state = "CONSUMED"
               PROVE  /\ active = t /\ session'[t].phase = "consumed"
                      /\ session'[t].closed => session'[t].lowering
                      /\ session'[t].lowering => \E i \in DOMAIN queue' : queue'[i] = Op("unknown", t)
    BY <1>1 DEF ClaimInv, HasCapacity, Attempt
  <2>1. /\ active = t /\ session[t].phase = "consumed"
        /\ session[t].closed => session[t].lowering
        /\ session[t].lowering => \E i \in DOMAIN queue : queue[i] = Op("unknown", t)
    BY DEF IInv, ClaimInv
  <2>2. t = s
    BY <1>1, <2>1
  <2> QED BY <1>3, <1>4, <1>6, <1>7, <1>11, <2>1, <2>2
<1> QED BY <1>12, <1>13, <1>15, <1>16, <1>18, <1>19, <1>20 DEF IInv

LEMMA SessionIsOverStep == \A s \in Sessions : IInv /\ SessionIsOver(s) => IInv'
<1> SUFFICES ASSUME NEW s \in Sessions, IInv, SessionIsOver(s) PROVE IInv'
  OBVIOUS
<1>1. /\ active = s /\ session[s].closed /\ wire[s] # "busy"
      /\ \A i \in DOMAIN queue : queue[i].id # s
      /\ active' = None /\ session' = [session EXCEPT ![s] = Ended]
      /\ wire' = [wire EXCEPT ![s] = "cut"]
      /\ UNCHANGED <<now, saved, entries, store, known, queue, writing, host, offer, executed>>
  BY DEF SessionIsOver, journal, hosts
<1>2. Ended \in SessionRecords /\ Ended.of = None /\ ~Ended.lowering
  BY DEF NoSession, Ended, SessionRecords, Phases
<1>3. session' \in [Sessions -> SessionRecords] /\ session'[s] = Ended
      /\ \A t \in Sessions : t # s => session'[t] = session[t]
  BY <1>1, <1>2 DEF IInv, TypeInv
<1>4. wire' \in [Sessions -> WireStates] /\ wire'[s] = "cut"
      /\ \A t \in Sessions : t # s => wire'[t] = wire[t]
  BY <1>1 DEF IInv, TypeInv, WireStates
<1>5. None \notin Sessions /\ host[s] \notin {"off", "asked"}
  BY <1>1, HostApprovalAssumption DEF IInv, CallInv
<1>6. TypeInv'
  BY <1>1, <1>3, <1>4 DEF IInv, TypeInv
<1>7. JournalInv'
  BY <1>1 DEF IInv, JournalInv, Attempt
<1>8. CallInv'
  BY <1>1, <1>2, <1>3, <1>4, <1>5 DEF IInv, CallInv, Attempt
<1>9. HostInv'
  BY <1>1, <1>4 DEF IInv, HostInv, Attempt, Claimed
<1>10. \A i \in DOMAIN queue : queue[i].kind \notin Calls
  BY <1>1 DEF IInv, QueueInv
<1>11. QueueInv'
  BY <1>1, <1>10, CallNames DEF QueueInv
<1>12. WritingInv'
  BY <1>1, <1>2, <1>3, WritingKept DEF IInv
<1>13. ClaimInv'
  <2>1. ASSUME NEW t \in Sessions, store = "open", HasCapacity, Attempt(t).state = "CONSUMED" PROVE FALSE
    <3>1. /\ active = t /\ (session[t].closed => session[t].lowering)
          /\ session[t].lowering => \E i \in DOMAIN queue : queue[i] = Op("unknown", t)
      BY <2>1 DEF IInv, ClaimInv
    <3> QED BY <1>1, <3>1 DEF Op
  <2> QED BY <1>1, <2>1 DEF ClaimInv, HasCapacity, Attempt
<1> QED BY <1>6, <1>7, <1>8, <1>9, <1>11, <1>12, <1>13 DEF IInv

LEMMA TickStep == IInv /\ Tick => IInv'
<1> SUFFICES ASSUME IInv, Tick PROVE IInv'
  OBVIOUS
<1>1. /\ now' = now + 1
      /\ UNCHANGED <<saved, entries, store, known, queue, writing, active, session, wire, host, offer, executed>>
  BY DEF Tick, journal, bridge, hosts
<1>2. TypeInv'
  BY <1>1 DEF IInv, TypeInv
<1>3. \A s \in Sessions : session[s].begun + Ttl \in Nat
  BY HostApprovalAssumption DEF IInv, TypeInv, SessionRecords
<1>4. \A s \in Sessions : ~Timely(s) => ~(now' < session'[s].begun + Ttl)
  BY <1>1, <1>3 DEF IInv, TypeInv, Timely
<1>5. \A i \in DOMAIN queue : queue[i].kind \in Calls => queue[i].id \in Sessions
  BY OpsTyped DEF IInv, TypeInv
<1>6. QueueInv'
  <2>1. \A i \in DOMAIN queue' : queue'[i].kind = "unknown" =>
          /\ session'[queue'[i].id].lowering
          /\ host'[queue'[i].id] \in {"unknown", "over"} \/ session'[queue'[i].id].closed
               \/ ~(now' < session'[queue'[i].id].begun + Ttl)
    BY <1>1, <1>4, <1>5, CallNames DEF IInv, QueueInv
  <2>2. \A i \in DOMAIN queue' : queue'[i].kind \in Calls => active' = queue'[i].id
    BY <1>1 DEF IInv, QueueInv
  <2>3. \A i \in DOMAIN queue' : queue'[i].kind \in OwnCalls =>
          /\ wire'[queue'[i].id] = "busy" /\ host'[queue'[i].id] \in {queue'[i].kind, "over"}
          /\ session'[queue'[i].id].phase = BeforeCall[queue'[i].kind]
          /\ queue'[i].kind = "ingest" => executed'[queue'[i].id]
    BY <1>1 DEF IInv, QueueInv
  <2>4. \A i, j \in DOMAIN queue' :
          /\ queue'[i].kind \in OwnCalls /\ queue'[j].kind \in OwnCalls => i = j
          /\ queue'[i].kind = "unknown" /\ queue'[j].kind \in OwnCalls => j < i
    BY <1>1 DEF IInv, QueueInv
  <2> QED BY <2>1, <2>2, <2>3, <2>4 DEF QueueInv, Timely
<1>7. WritingInv'
  BY <1>1, WritingKept DEF IInv
<1> QED BY <1>1, <1>2, <1>6, <1>7 DEF IInv, JournalInv, CallInv, HostInv, ClaimInv, Attempt, Claimed, HasCapacity

-----------------------------------------------------------------------------
(* The host *)

(* A step of a host that makes a call, waits, or leaves *)
LEMMA HostMoves ==
  ASSUME IInv, NEW s \in Sessions, NEW h \in HostStates, NEW w \in WireStates,
         host' = [host EXCEPT ![s] = h], wire' = [wire EXCEPT ![s] = w], offer' \in [Sessions -> Nat],
         UNCHANGED <<now, saved, entries, store, known, queue, writing, active, session, executed>>,
         host[s] \notin {"off", "asked"}, h \notin {"off", "asked"},
         w = "sent" => h \in Calls,
         session[s].closed => w \in {"busy", "cut"},
         h \in {"claimed", "running"} => w # "busy",
         wire[s] = "busy" => w = "busy" /\ h \in {host[s], "over"},
         host[s] \in {"unknown", "over"} => h \in {"unknown", "over"},
         executed[s] => h \in {"running", "ingest", "unknown", "over"},
         h \in {"running", "ingest"} => executed[s],
         h = "claimed" \/ (h = "claim" /\ w = "ok") => Attempt(s).state \in {"CONSUMED", "UNKNOWN"}
  PROVE  IInv'
<1>1. host' \in [Sessions -> HostStates] /\ host'[s] = h /\ \A t \in Sessions : t # s => host'[t] = host[t]
  BY DEF IInv, TypeInv
<1>2. wire' \in [Sessions -> WireStates] /\ wire'[s] = w /\ \A t \in Sessions : t # s => wire'[t] = wire[t]
  BY DEF IInv, TypeInv
<1>3. TypeInv'
  BY <1>1, <1>2 DEF IInv, TypeInv
<1>4. JournalInv'
  BY DEF IInv, JournalInv, Attempt
<1>5. CallInv'
  BY <1>1, <1>2 DEF IInv, CallInv, Attempt
<1>6. HostInv'
  BY <1>1, <1>2 DEF IInv, HostInv, Attempt, Claimed
<1>7. WritingInv'
  BY <1>1, WritingKept DEF IInv
<1>8. ClaimInv'
  BY DEF IInv, ClaimInv, Attempt, HasCapacity
<1>9. \A i \in DOMAIN queue : queue[i].kind \in Calls => queue[i].id \in Sessions
  BY OpsTyped DEF IInv, TypeInv
<1>10. QueueInv'
  <2>1. ASSUME NEW i \in DOMAIN queue, queue[i].kind \in OwnCalls
        PROVE  wire'[queue[i].id] = "busy" /\ host'[queue[i].id] \in {queue[i].kind, "over"}
    <3>1. /\ queue[i].id \in Sessions /\ wire[queue[i].id] = "busy"
          /\ host[queue[i].id] \in {queue[i].kind, "over"}
      BY <1>9, <2>1, CallNames DEF IInv, QueueInv
    <3>2. queue[i].id = s /\ host[s] = "over" => h = "over"
      BY <3>1
    <3> QED BY <1>1, <1>2, <3>1, <3>2
  <2>2. ASSUME NEW i \in DOMAIN queue, queue[i].kind = "unknown"
        PROVE  host[queue[i].id] \in {"unknown", "over"} => host'[queue[i].id] \in {"unknown", "over"}
    <3>1. queue[i].id \in Sessions
      BY <1>9, <2>2, CallNames
    <3> QED BY <1>1, <3>1
  <2> QED BY <2>1, <2>2 DEF IInv, QueueInv, Timely
<1> QED BY <1>3, <1>4, <1>5, <1>6, <1>7, <1>8, <1>10 DEF IInv

LEMMA HostLeavesStep ==
  ASSUME IInv, NEW s \in Sessions, HostLeaves(s), HostUnchanged, host[s] \notin {"off", "asked"}
  PROVE  IInv'
<1>1. UNCHANGED <<now, saved, entries, store, known, queue, writing, active, session, executed>>
  BY DEF HostUnchanged, journal, bridge
<1>2. PICK h \in HostStates : h = "over"
  BY DEF HostStates
<1>3. wire[s] \in WireStates
  BY DEF IInv, TypeInv
<1>4. PICK w \in WireStates : w = IF wire[s] = "busy" THEN "busy" ELSE "cut"
  BY DEF WireStates
<1>5. host' = [host EXCEPT ![s] = h] /\ wire' = [wire EXCEPT ![s] = w]
  BY <1>2, <1>4 DEF HostLeaves, IInv, TypeInv
<1>6. offer' \in [Sessions -> Nat]
  BY DEF HostLeaves, IInv, TypeInv
<1>7. w \in {"busy", "cut"} /\ (wire[s] = "busy" => w = "busy")
  BY <1>4
<1> QED BY <1>1, <1>2, <1>5, <1>6, <1>7, HostMoves

LEMMA HostCallsStep ==
  ASSUME IInv, NEW s \in Sessions, NEW call \in Calls, HostCalls(s, call), HostUnchanged,
         host[s] \notin {"off", "asked", "unknown", "over"}, wire[s] # "busy",
         executed[s] => call \in {"ingest", "unknown"},
         call = "ingest" => executed[s]
  PROVE  IInv'
<1>1. UNCHANGED <<now, saved, entries, store, known, queue, writing, active, session, executed>>
  BY DEF HostUnchanged, journal, bridge
<1>2. CASE wire[s] # "cut" /\ Timely(s)
  <2>1. PICK w \in WireStates : w = "sent"
    BY DEF WireStates
  <2>2. host' = [host EXCEPT ![s] = call] /\ wire' = [wire EXCEPT ![s] = w]
        /\ offer' = [offer EXCEPT ![s] = IF call = "admit" THEN now + Ttl ELSE @]
    BY <1>2, <2>1 DEF HostCalls
  <2>3. now + Ttl \in Nat
    BY HostApprovalAssumption DEF IInv, TypeInv
  <2>4. offer' \in [Sessions -> Nat]
    BY <2>2, <2>3 DEF IInv, TypeInv
  <2>5. call \in HostStates
    BY DEF HostStates
  <2>6. ~session[s].closed
    BY <1>2 DEF IInv, CallInv
  <2>7. call \notin {"off", "asked", "claimed", "running"}
    BY CallNames
  <2> QED BY <1>1, <2>1, <2>2, <2>4, <2>5, <2>6, <2>7, HostMoves
<1>3. CASE ~(wire[s] # "cut" /\ Timely(s))
  BY <1>3, HostLeavesStep DEF HostCalls
<1> QED BY <1>2, <1>3

LEMMA HostStep == \A s \in Sessions : IInv /\ HostNext(s) => IInv'
<1> SUFFICES ASSUME NEW s \in Sessions, IInv, HostNext(s) PROVE IInv'
  OBVIOUS
<1>1. /\ executed[s] => host[s] \in {"running", "ingest", "unknown", "over"}
      /\ host[s] \in {"running", "ingest"} => executed[s]
      /\ host[s] \in {"claimed", "running"} => wire[s] # "busy"
      /\ host[s] = "claimed" \/ (host[s] = "claim" /\ wire[s] = "ok") =>
           Attempt(s).state \in {"CONSUMED", "UNKNOWN"}
      /\ session[s].closed => wire[s] \in {"busy", "cut"}
      /\ wire[s] = "sent" => host[s] \in Calls
      /\ wire[s] \in WireStates
  BY DEF IInv, HostInv, CallInv, TypeInv
<1>2. CASE HostOffers(s)
  <2>1. host[s] = "prepare" /\ wire[s] = "ok" /\ HostUnchanged
        /\ (HostCalls(s, "admit") \/ HostLeaves(s))
    BY <1>2 DEF HostOffers
  <2>2. CASE HostCalls(s, "admit")
    BY <1>1, <2>1, <2>2, HostCallsStep, CallNames
  <2>3. CASE HostLeaves(s)
    BY <2>1, <2>3, HostLeavesStep
  <2> QED BY <2>1, <2>2, <2>3
<1>3. CASE HostAnswered(s)
  <2>1. wire[s] = "ok" /\ HostUnchanged /\ ~session[s].closed
    BY <1>1, <1>3 DEF HostAnswered
  <2>2. \/ host[s] = "admit" /\ HostCalls(s, "approve")
        \/ host[s] = "approve" /\ HostCalls(s, "claim")
        \/ host[s] = "claim" /\ host' = [host EXCEPT ![s] = "claimed"]
             /\ wire' = [wire EXCEPT ![s] = "idle"] /\ offer' = offer
        \/ host[s] \in {"ingest", "unknown"} /\ HostLeaves(s)
    BY <1>3, CallNames DEF HostAnswered
  <2>3. CASE host[s] = "admit" /\ HostCalls(s, "approve")
    BY <1>1, <2>1, <2>3, HostCallsStep, CallNames
  <2>4. CASE host[s] = "approve" /\ HostCalls(s, "claim")
    BY <1>1, <2>1, <2>4, HostCallsStep, CallNames
  <2>5. CASE host[s] = "claim" /\ host' = [host EXCEPT ![s] = "claimed"]
               /\ wire' = [wire EXCEPT ![s] = "idle"] /\ offer' = offer
    <3>1. PICK h \in HostStates : h = "claimed"
      BY DEF HostStates
    <3>2. PICK w \in WireStates : w = "idle"
      BY DEF WireStates
    <3>3. UNCHANGED <<now, saved, entries, store, known, queue, writing, active, session, executed>>
      BY <2>1 DEF HostUnchanged, journal, bridge
    <3>4. host' = [host EXCEPT ![s] = h] /\ wire' = [wire EXCEPT ![s] = w] /\ offer' \in [Sessions -> Nat]
      BY <2>5, <3>1, <3>2 DEF IInv, TypeInv
    <3>5. ~executed[s] /\ Attempt(s).state \in {"CONSUMED", "UNKNOWN"}
      BY <1>1, <2>1, <2>5
    <3>6. /\ h \notin {"off", "asked"} /\ w # "sent" /\ w # "busy"
          /\ host[s] = "claim" /\ wire[s] # "busy" /\ ~session[s].closed
          /\ h \notin {"running", "ingest"}
      BY <2>1, <2>5, <3>1, <3>2
    <3> QED BY <3>3, <3>4, <3>5, <3>6, HostMoves
  <2>6. CASE host[s] \in {"ingest", "unknown"} /\ HostLeaves(s)
    BY <2>1, <2>6, HostLeavesStep
  <2> QED BY <2>2, <2>3, <2>4, <2>5, <2>6
<1>4. CASE HostGivesUp(s)
  <2>1. PICK h \in HostStates : h = "over"
    BY DEF HostStates
  <2>2. host[s] \in Calls /\ wire[s] \in {"no", "cut"} /\ host' = [host EXCEPT ![s] = h]
        /\ offer' = [offer EXCEPT ![s] = 0] /\ wire' = wire
    BY <1>4, <2>1 DEF HostGivesUp
  <2>3. wire' = [wire EXCEPT ![s] = wire[s]]
    BY <2>2 DEF IInv, TypeInv
  <2>4. UNCHANGED <<now, saved, entries, store, known, queue, writing, active, session, executed>>
    BY <1>4 DEF HostGivesUp, HostUnchanged, journal, bridge
  <2>5. offer' \in [Sessions -> Nat]
    BY <2>2 DEF IInv, TypeInv
  <2>6. host[s] \notin {"off", "asked"}
    BY <2>2, CallNames
  <2>7. /\ h \in {"unknown", "over"} /\ wire[s] # "sent" /\ wire[s] # "busy"
        /\ session[s].closed => wire[s] \in {"busy", "cut"}
    BY <1>1, <2>1, <2>2
  <2>8. wire[s] \in WireStates
    BY <1>1
  <2> QED BY <2>1, <2>2, <2>3, <2>4, <2>5, <2>6, <2>7, <2>8, HostMoves
<1>5. CASE HostExecutes(s)
  <2>1. /\ host[s] = "claimed" /\ host' = [host EXCEPT ![s] = "running"]
        /\ executed' = [executed EXCEPT ![s] = TRUE]
        /\ UNCHANGED <<now, saved, entries, store, known, queue, writing, active, session, wire, offer>>
    BY <1>5 DEF HostExecutes, journal, bridge
  <2>2. host' \in [Sessions -> HostStates] /\ host'[s] = "running"
        /\ \A t \in Sessions : t # s => host'[t] = host[t]
    BY <2>1 DEF IInv, TypeInv, HostStates
  <2>3. executed' \in [Sessions -> BOOLEAN] /\ executed'[s] = TRUE
        /\ \A t \in Sessions : t # s => executed'[t] = executed[t]
    BY <2>1 DEF IInv, TypeInv
  <2>4. \A t \in Sessions : executed[t] => executed'[t]
    BY <2>3
  <2>5. JournalInv'
    BY <2>1, <2>4, JournalKept DEF IInv
  <2>6. TypeInv'
    BY <2>1, <2>2, <2>3 DEF IInv, TypeInv
  <2>7. CallInv'
    BY <1>1, <2>1, <2>2, CallNames DEF IInv, CallInv, Attempt
  <2>8. Claimed(s) /\ wire[s] # "busy"
    BY <1>1, <2>1 DEF Claimed
  <2>9. HostInv'
    BY <2>1, <2>2, <2>3, <2>8 DEF IInv, HostInv, Attempt, Claimed
  <2>10. WritingInv'
    BY <2>1, <2>2, <2>4, WritingKept DEF IInv
  <2>11. ClaimInv'
    BY <2>1 DEF IInv, ClaimInv, Attempt, HasCapacity
  <2>12. \A i \in DOMAIN queue : queue[i].kind \in Calls => queue[i].id \in Sessions
    BY OpsTyped DEF IInv, TypeInv
  <2>13. ASSUME NEW i \in DOMAIN queue, queue[i].kind \in OwnCalls
         PROVE  /\ host'[queue[i].id] \in {queue[i].kind, "over"}
                /\ queue[i].kind = "ingest" => executed'[queue[i].id]
    <3>1. /\ queue[i].id \in Sessions /\ wire[queue[i].id] = "busy"
          /\ host[queue[i].id] \in {queue[i].kind, "over"}
          /\ queue[i].kind = "ingest" => executed[queue[i].id]
      BY <2>12, <2>13, CallNames DEF IInv, QueueInv
    <3> QED BY <2>2, <2>4, <2>8, <3>1
  <2>14. ASSUME NEW i \in DOMAIN queue, queue[i].kind = "unknown"
         PROVE  host[queue[i].id] \in {"unknown", "over"} => host'[queue[i].id] \in {"unknown", "over"}
    <3>1. queue[i].id \in Sessions
      BY <2>12, <2>14, CallNames
    <3> QED BY <2>1, <2>2, <3>1
  <2>15. QueueInv'
    BY <2>1, <2>13, <2>14 DEF IInv, QueueInv, Timely
  <2> QED BY <2>5, <2>6, <2>7, <2>9, <2>10, <2>11, <2>15 DEF IInv
<1>6. CASE HostFails(s)
  <2>1. host[s] \in {"claimed", "running"} /\ HostCalls(s, "unknown") /\ HostUnchanged
    BY <1>6 DEF HostFails
  <2> QED BY <1>1, <2>1, HostCallsStep, CallNames
<1>7. CASE HostFinishes(s)
  <2>1. host[s] = "running" /\ HostCalls(s, "ingest") /\ HostUnchanged
    BY <1>7 DEF HostFinishes
  <2> QED BY <1>1, <2>1, HostCallsStep, CallNames
<1>8. CASE HostDies(s)
  <2>1. host[s] \notin {"off", "asked"} /\ HostLeaves(s) /\ HostUnchanged
    BY <1>8 DEF HostDies
  <2> QED BY <2>1, HostLeavesStep
<1> QED BY <1>2, <1>3, <1>4, <1>5, <1>6, <1>7, <1>8 DEF HostNext

-----------------------------------------------------------------------------
(* Every step *)

LEMMA InitInv == Init => IInv
<1> SUFFICES ASSUME Init PROVE IInv
  OBVIOUS
<1>1. NoSession \in SessionRecords /\ NoSession.of = None
      /\ NoSession.closed = FALSE /\ NoSession.lowering = FALSE
  BY DEF NoSession, SessionRecords, Phases
<1>2. \A s \in Sessions : session[s] = NoSession /\ wire[s] = "idle" /\ host[s] = "off" /\ executed[s] = FALSE
  BY DEF Init
<1>3. \A s \in Sessions : Attempt(s).of = None /\ Attempt(s).state = "none"
  BY DEF Init, NoReceipts, Attempt
<1>4. TypeInv
  BY <1>1, NoReceiptsTyped DEF Init, TypeInv, WireStates, HostStates
<1>5. JournalInv
  BY <1>3 DEF JournalInv
<1>6. WritingInv
  BY DEF Init, WritingInv
<1>7. CallInv
  BY <1>1, <1>2, <1>3, HostApprovalAssumption DEF CallInv, Init
<1>8. QueueInv
  BY DEF Init, QueueInv
<1>9. HostInv
  BY <1>2 DEF HostInv
<1>10. ClaimInv
  BY <1>3 DEF ClaimInv
<1> QED BY <1>4, <1>5, <1>6, <1>7, <1>8, <1>9, <1>10 DEF IInv

LEMMA NextInv == IInv /\ [Next]_vars => IInv'
<1> SUFFICES ASSUME IInv, [Next]_vars PROVE IInv'
  OBVIOUS
<1>1. CASE StoreNext
  BY <1>1, AppendStartsStep, AnswersStep, AppendDoneStep, AppendFailsStep, FaultedAnswersStep DEF StoreNext
<1>2. CASE LifeNext
  BY <1>2, CloseStoreStep, ShutdownStep, CrashStep, OperatorStep, OpenStep, RecoversStep DEF LifeNext
<1>3. CASE Tick
  BY <1>3, TickStep
<1>4. ASSUME NEW r \in Reviews, ReviewTool(r) PROVE IInv'
  BY <1>4, ReviewToolStep
<1>5. ASSUME NEW s \in Sessions, SessionNext(s) PROVE IInv'
  BY <1>5, InspectStep, ReceiveStep, EndSessionStep, SessionIsOverStep DEF SessionNext
<1>6. ASSUME NEW s \in Sessions, HostNext(s) PROVE IInv'
  BY <1>6, HostStep
<1>7. ASSUME NEW s \in Sessions, NEW r \in Reviews, ExecuteTool(s, r) PROVE IInv'
  BY <1>7, ExecuteToolStep
<1>8. CASE UNCHANGED vars
  <2>1. UNCHANGED <<now, saved, entries, store, known, queue, writing, active, session, wire, host, offer, executed>>
    BY <1>8 DEF vars, journal, bridge, hosts
  <2>2. WritingInv'
    BY <2>1, WritingKept DEF IInv
  <2> QED BY <2>1, <2>2 DEF IInv, TypeInv, JournalInv, CallInv, QueueInv, HostInv, ClaimInv,
               Attempt, Claimed, Timely, HasCapacity
<1> QED BY <1>1, <1>2, <1>3, <1>4, <1>5, <1>6, <1>7, <1>8 DEF Next

(* In every reachable state the inductive invariant holds                  *)
THEOREM HostIsSound == Spec => []IInv
<1> QED BY InitInv, NextInv, PTL DEF Spec

(* What was claimed is given up when its session is over: no claim of an   *)
(* ended session is left CONSUMED in an open store that can still write    *)
(* (host-receiver.ts, lower; store.ts, open).                              *)
THEOREM NoClaimIsLeftAlways == Spec => []NoClaimIsLeft
<1>1. IInv => NoClaimIsLeft
  BY DEF IInv, WritingInv, ClaimInv, NoClaimIsLeft, Attempt
<1> QED BY <1>1, HostIsSound, PTL

-----------------------------------------------------------------------------
(* The promise of OneExecution                                             *)

(* The receipt and the executions of a review, for any receipts kept       *)
AttemptsIn(rs, r) == {s \in Sessions : rs.production[s].of = r}
ReceiptFrom(review, attempts) ==
  IF attempts = {} \/ (review = "refused" /\ attempts \subseteq {"asked", "allowed"})
    THEN review ELSE CHOOSE receipt \in attempts : TRUE
ReceiptsIn(rs, r) == {AttemptReceipt[rs.production[s].state] : s \in AttemptsIn(rs, r)}
ReceiptIn(rs, r) == ReceiptFrom(ReviewReceipt[rs.review[r].state], ReceiptsIn(rs, r))
ExecutionsIn(rs, done, r) == Cardinality({s \in AttemptsIn(rs, r) : done[s]})
OneAttempt(rs) ==
  \A s, t \in Sessions : rs.production[s].of = rs.production[t].of /\ rs.production[s].of # None => s = t

(* The receipt an attempt gives a review *)
OfAttempt(review, attempt) ==
  IF review = "refused" /\ attempt \in {"asked", "allowed"} THEN "refused" ELSE attempt

LEMMA ReceiptNames ==
  /\ AttemptReceipt["CONSUMED"] = "intent" /\ AttemptReceipt["SUCCEEDED"] = "succeeded"
  /\ AttemptReceipt["FAILED"] = "failed" /\ AttemptReceipt["UNKNOWN"] = "unknown"
  /\ AttemptReceipt["PROPOSED"] = "asked" /\ AttemptReceipt["APPROVED"] = "allowed"
  /\ AttemptReceipt["EXPIRED"] = "refused"
  /\ ReviewReceipt["none"] = "none" /\ ReviewReceipt["PENDING"] = "asked"
  /\ ReviewReceipt["ACCEPTED"] = "asked" /\ ReviewReceipt["DECLINED"] = "refused"
  /\ ReviewReceipt["EXPIRED"] = "refused"
BY DEF AttemptReceipt, ReviewReceipt

LEMMA ReceiptWithoutAttempt ==
  ASSUME NEW rs, NEW done, NEW r \in Reviews, \A s \in Sessions : rs.production[s].of # r
  PROVE  /\ ReceiptIn(rs, r) = ReviewReceipt[rs.review[r].state]
         /\ ExecutionsIn(rs, done, r) = 0
<1>1. AttemptsIn(rs, r) = {}
  BY DEF AttemptsIn
<1>2. ReceiptsIn(rs, r) = {}
  BY <1>1 DEF ReceiptsIn
<1>3. {s \in AttemptsIn(rs, r) : done[s]} = {}
  BY <1>1
<1> QED BY <1>2, <1>3, FS_EmptySet DEF ReceiptIn, ReceiptFrom, ExecutionsIn

LEMMA ReceiptWithAttempt ==
  ASSUME NEW rs, OneAttempt(rs), NEW done \in [Sessions -> BOOLEAN], NEW s \in Sessions,
         NEW r \in Reviews, rs.production[s].of = r
  PROVE  /\ ReceiptIn(rs, r) =
              OfAttempt(ReviewReceipt[rs.review[r].state], AttemptReceipt[rs.production[s].state])
         /\ ExecutionsIn(rs, done, r) = IF done[s] THEN 1 ELSE 0
<1>1. r # None
  BY HostApprovalAssumption
<1>2. AttemptsIn(rs, r) = {s}
  BY <1>1 DEF AttemptsIn, OneAttempt
<1> DEFINE receipt == AttemptReceipt[rs.production[s].state]
<1>3. ReceiptsIn(rs, r) = {receipt}
  BY <1>2 DEF ReceiptsIn
<1> HIDE DEF receipt
<1>4. ReceiptIn(rs, r) = OfAttempt(ReviewReceipt[rs.review[r].state], receipt)
  BY <1>3 DEF ReceiptIn, ReceiptFrom, OfAttempt
<1>5. CASE done[s]
  <2>1. {t \in AttemptsIn(rs, r) : done[t]} = {s}
    BY <1>2, <1>5
  <2> QED BY <1>4, <1>5, <2>1, FS_Singleton DEF ExecutionsIn, receipt
<1>6. CASE ~done[s]
  <2>1. {t \in AttemptsIn(rs, r) : done[t]} = {}
    BY <1>2, <1>6
  <2> QED BY <1>4, <1>6, <2>1, FS_EmptySet DEF ExecutionsIn, receipt
<1> QED BY <1>5, <1>6

LEMMA ReceiptsAre ==
  /\ \A r \in Reviews : ReceiptOf(r) = ReceiptIn(saved, r)
       /\ ReceiptOf(r)' = ReceiptIn(saved', r)
  /\ \A r \in Reviews : ExecutionsOf(r) = ExecutionsIn(saved, executed, r)
       /\ ExecutionsOf(r)' = ExecutionsIn(saved', executed', r)
BY DEF ReceiptOf, ReceiptIn, ReceiptFrom, ReceiptsIn, AttemptsOf, AttemptsIn, ExecutionsOf, ExecutionsIn

LEMMA PromiseBecomes ==
  ASSUME NEW r \in Reviews, NEW from, NEW to, ReceiptIn(saved, r) \in from, ReceiptIn(saved', r) = to,
         \A q \in Reviews : q # r => ReceiptIn(saved', q) = ReceiptIn(saved, q),
         \A q \in Reviews : ExecutionsIn(saved', executed', q) = ExecutionsIn(saved, executed, q)
  PROVE  Promise!Becomes(r, from, to)
BY ReceiptsAre DEF Promise!Becomes

LEMMA PromiseStutters ==
  ASSUME \A q \in Reviews : ReceiptIn(saved', q) = ReceiptIn(saved, q),
         \A q \in Reviews : ExecutionsIn(saved', executed', q) = ExecutionsIn(saved, executed, q)
  PROVE  UNCHANGED Promise!vars
BY ReceiptsAre DEF Promise!vars

LEMMA PromiseSteps ==
  ASSUME NEW r \in Reviews,
         \/ Promise!Becomes(r, {"none"}, "asked") \/ Promise!Becomes(r, {"asked"}, "allowed")
         \/ Promise!Becomes(r, {"asked", "allowed"}, "refused")
         \/ Promise!Becomes(r, {"allowed"}, "intent") \/ Promise!Becomes(r, {"intent"}, "unknown")
  PROVE  Promise!Next
<1>1. Promise!Ask(r) \/ Promise!Allow(r) \/ Promise!Refuse(r) \/ Promise!Intend(r) \/ Promise!GiveUp(r)
  BY DEF Promise!Ask, Promise!Allow, Promise!Refuse, Promise!Intend, Promise!GiveUp
<1> QED BY <1>1 DEF Promise!Next

(* A review line asks, refuses or changes nothing *)
LEMMA ReviewLineKeepsPromise ==
  ASSUME TypeInv, JournalInv, NEW line, IsReviewLine(line), saved' = With(saved, line), executed' = executed
  PROVE  Promise!Next \/ UNCHANGED Promise!vars
<1> DEFINE r == line.id
<1>1. /\ r \in Reviews /\ saved'.production = saved.production
      /\ saved'.review[r] = line.to /\ MayReview(r, line.to)
      /\ \A q \in Reviews : q # r => saved'.review[q] = saved.review[q]
  <2>1. saved'.production = saved.production /\ saved'.review = [saved.review EXCEPT ![line.id] = line.to]
    BY WithReview DEF IsReviewLine, TypeInv
  <2> QED BY <2>1, ReceiptsTyped DEF IsReviewLine, TypeInv
<1> HIDE DEF r
<1>2. OneAttempt(saved) /\ OneAttempt(saved') /\ executed \in [Sessions -> BOOLEAN]
  BY <1>1 DEF OneAttempt, JournalInv, Attempt, TypeInv
<1>3. \A q \in Reviews : ExecutionsIn(saved', executed', q) = ExecutionsIn(saved, executed, q)
  BY <1>1 DEF ExecutionsIn, AttemptsIn
<1>4. \A q \in Reviews : q # r => ReceiptIn(saved', q) = ReceiptIn(saved, q)
  BY <1>1 DEF ReceiptIn, ReceiptsIn, AttemptsIn
<1>5. CASE \A s \in Sessions : saved.production[s].of # r
  <2>1. ReceiptIn(saved, r) = ReviewReceipt[saved.review[r].state]
        /\ ReceiptIn(saved', r) = ReviewReceipt[line.to.state]
    BY <1>1, <1>5, ReceiptWithoutAttempt
  <2>2. \/ ReceiptIn(saved, r) \in {"none"} /\ ReceiptIn(saved', r) = "asked"
        \/ ReceiptIn(saved, r) \in {"asked", "allowed"} /\ ReceiptIn(saved', r) = "refused"
        \/ ReceiptIn(saved', r) = ReceiptIn(saved, r)
    BY <1>1, <2>1, ReceiptNames DEF MayReview
  <2> QED BY <1>1, <1>3, <1>4, <2>2, PromiseBecomes, PromiseSteps, PromiseStutters
<1>6. CASE \E s \in Sessions : saved.production[s].of = r
  <2>1. PICK s \in Sessions : saved.production[s].of = r
    BY <1>6
  <2>2. saved.review[r].state # "none"
    BY <1>1, <2>1, HostApprovalAssumption DEF JournalInv, Attempt
  <2> DEFINE a == AttemptReceipt[saved.production[s].state]
  <2>3. ReceiptIn(saved, r) = OfAttempt(ReviewReceipt[saved.review[r].state], a)
        /\ ReceiptIn(saved', r) = OfAttempt(ReviewReceipt[line.to.state], a)
    BY <1>1, <1>2, <2>1, ReceiptWithAttempt
  <2> HIDE DEF a
  <2>4. \/ ReceiptIn(saved, r) \in {"asked", "allowed"} /\ ReceiptIn(saved', r) = "refused"
        \/ ReceiptIn(saved', r) = ReceiptIn(saved, r)
    BY <1>1, <2>2, <2>3, ReceiptNames DEF MayReview, OfAttempt
  <2> QED BY <1>1, <1>3, <1>4, <2>4, PromiseBecomes, PromiseSteps, PromiseStutters
<1> QED BY <1>5, <1>6

(* A production line allows, intends, reports, gives up or changes nothing *)
LEMMA ProductionLineKeepsPromise ==
  ASSUME TypeInv, JournalInv, HostInv, JournalInv', NEW line, IsProductionLine(line),
         saved' = With(saved, line), executed' = executed
  PROVE  Promise!Next \/ UNCHANGED Promise!vars
<1> DEFINE s == line.id
<1>1. /\ s \in Sessions /\ saved'.review = saved.review
      /\ saved'.production[s] = line.to /\ MayBecome(s, line.to)
      /\ \A t \in Sessions : t # s => saved'.production[t] = saved.production[t]
      /\ saved.production[s] \in ProductionRecords /\ line.to \in ProductionRecords
  <2>1. saved'.review = saved.review /\ saved'.production = [saved.production EXCEPT ![line.id] = line.to]
    BY WithProduction DEF IsProductionLine, TypeInv
  <2> QED BY <2>1, ReceiptsTyped DEF IsProductionLine, TypeInv
<1> HIDE DEF s
<1> DEFINE r == line.to.of
<1>2. OneAttempt(saved) /\ OneAttempt(saved') /\ executed \in [Sessions -> BOOLEAN]
  BY DEF OneAttempt, JournalInv, Attempt, TypeInv
<1>3. /\ r \in Reviews
      /\ saved.production[s].of \in {None, r}
      /\ saved.production[s].of = None => \A t \in Sessions : saved.production[t].of # r
  BY <1>1 DEF MayBecome, JournalInv, Attempt, ProductionRecords
<1> HIDE DEF r
<1>4. ASSUME NEW q \in Reviews, q # r
      PROVE  ReceiptIn(saved', q) = ReceiptIn(saved, q)
             /\ ExecutionsIn(saved', executed', q) = ExecutionsIn(saved, executed, q)
  <2>1. saved.production[s].of # q /\ saved'.production[s].of # q
    BY <1>1, <1>3, <1>4, HostApprovalAssumption DEF r
  <2>2. AttemptsIn(saved', q) = AttemptsIn(saved, q) /\ s \notin AttemptsIn(saved, q)
    BY <1>1, <2>1 DEF AttemptsIn
  <2>3. ReceiptsIn(saved', q) = ReceiptsIn(saved, q)
    <3>1. \A t \in AttemptsIn(saved, q) : saved'.production[t] = saved.production[t]
      BY <1>1, <2>2 DEF AttemptsIn
    <3> QED BY <2>2, <3>1 DEF ReceiptsIn
  <2> QED BY <1>1, <2>2, <2>3 DEF ReceiptIn, ExecutionsIn
<1>5. saved'.production[s].of = r
  BY <1>1 DEF r
<1> DEFINE review == ReviewReceipt[saved.review[r].state]
<1>6. /\ ReceiptIn(saved', r) = OfAttempt(review, AttemptReceipt[line.to.state])
      /\ ExecutionsIn(saved', executed', r) = IF executed[s] THEN 1 ELSE 0
  BY <1>1, <1>2, <1>3, <1>5, ReceiptWithAttempt
<1>7. Stands(r) => review = "asked"
  BY ReceiptNames DEF Stands
<1> HIDE DEF review
<1>8. CASE saved.production[s].of = None
  <2>1. ReceiptIn(saved, r) = review /\ ExecutionsIn(saved, executed, r) = 0
    BY <1>2, <1>3, <1>8, ReceiptWithoutAttempt DEF review
  <2>2. line.to.state = "PROPOSED" /\ Stands(r) /\ ~executed[s]
    BY <1>1, <1>3, <1>8, HostApprovalAssumption DEF MayBecome, r, HostInv, JournalInv, Claimed, Attempt
  <2>3. ReceiptIn(saved', r) = ReceiptIn(saved, r)
        /\ ExecutionsIn(saved', executed', r) = ExecutionsIn(saved, executed, r)
    BY <1>6, <1>7, <2>1, <2>2, ReceiptNames DEF OfAttempt
  <2>4. \A q \in Reviews : ReceiptIn(saved', q) = ReceiptIn(saved, q)
          /\ ExecutionsIn(saved', executed', q) = ExecutionsIn(saved, executed, q)
    BY <1>4, <2>3
  <2> QED BY <2>4, PromiseStutters
<1>9. CASE saved.production[s].of = r
  <2> DEFINE now1 == saved.production[s].state
  <2>1. /\ ReceiptIn(saved, r) = OfAttempt(review, AttemptReceipt[now1])
        /\ ExecutionsIn(saved, executed, r) = IF executed[s] THEN 1 ELSE 0
    BY <1>1, <1>2, <1>3, <1>9, ReceiptWithAttempt DEF review
  <2>2. r # None
    BY <1>3, HostApprovalAssumption
  <2>3. \/ now1 = "PROPOSED" /\ line.to.state = "APPROVED" /\ Stands(r)
        \/ now1 = "APPROVED" /\ line.to.state = "CONSUMED" /\ Stands(r)
        \/ now1 \in {"PROPOSED", "APPROVED"} /\ line.to.state = "EXPIRED"
        \/ now1 = "CONSUMED" /\ line.to.state = "UNKNOWN"
        \/ now1 = "CONSUMED" /\ line.to.state \in {"SUCCEEDED", "FAILED"} /\ executed[s]
    BY <1>1, <1>9, <2>2 DEF MayBecome, r, Attempt
  <2> HIDE DEF now1
  <2>4. \A q \in Reviews : ExecutionsIn(saved', executed', q) = ExecutionsIn(saved, executed, q)
    BY <1>4, <1>6, <2>1
  <2>5. \/ ReceiptIn(saved, r) \in {"asked"} /\ ReceiptIn(saved', r) = "allowed"
        \/ ReceiptIn(saved, r) \in {"allowed"} /\ ReceiptIn(saved', r) = "intent"
        \/ ReceiptIn(saved, r) \in {"asked", "allowed"} /\ ReceiptIn(saved', r) = "refused"
        \/ ReceiptIn(saved, r) \in {"intent"} /\ ReceiptIn(saved', r) = "unknown"
        \/ /\ executed[s] /\ ReceiptIn(saved, r) \in {"intent"}
           /\ ReceiptIn(saved', r) \in {"succeeded", "failed"}
        \/ ReceiptIn(saved', r) = ReceiptIn(saved, r)
    BY <1>6, <1>7, <2>1, <2>3, ReceiptNames DEF OfAttempt
  <2>6. CASE /\ executed[s] /\ ReceiptIn(saved, r) \in {"intent"}
             /\ ReceiptIn(saved', r) \in {"succeeded", "failed"}
    <3>1. ExecutionsOf(r) = 1
      BY <1>3, <2>1, <2>6, ReceiptsAre
    <3>2. PICK outcome \in {"succeeded", "failed"} : ReceiptIn(saved', r) = outcome
      BY <2>6
    <3>3. Promise!Becomes(r, {"intent"}, outcome)
      BY <1>3, <1>4, <2>4, <2>6, <3>2, PromiseBecomes
    <3>4. Promise!Report(r, outcome)
      BY <1>3, <3>1, <3>3 DEF Promise!Report
    <3> QED BY <1>3, <3>2, <3>4 DEF Promise!Next
  <2>7. CASE ReceiptIn(saved', r) = ReceiptIn(saved, r)
    <3>1. \A q \in Reviews : ReceiptIn(saved', q) = ReceiptIn(saved, q)
      BY <1>4, <2>7
    <3> QED BY <2>4, <3>1, PromiseStutters
  <2> QED BY <1>3, <1>4, <2>4, <2>5, <2>6, <2>7, PromiseBecomes, PromiseSteps
<1> QED BY <1>3, <1>8, <1>9

LEMMA JournalStepKeepsPromise ==
  ASSUME IInv, IInv', executed' = executed,
         saved' = saved \/ (writing # None /\ saved' = With(saved, writing))
  PROVE  Promise!Next \/ UNCHANGED Promise!vars
<1>1. CASE saved' = saved
  BY <1>1, PromiseStutters
<1>2. CASE writing # None /\ saved' = With(saved, writing)
  <2>1. IsReviewLine(writing) \/ IsProductionLine(writing)
    BY <1>2 DEF IInv, WritingInv
  <2> QED BY <1>2, <2>1, ReviewLineKeepsPromise, ProductionLineKeepsPromise DEF IInv
<1> QED BY <1>1, <1>2

LEMMA ExecutesKeepsPromise ==
  ASSUME IInv, NEW s \in Sessions, HostExecutes(s)
  PROVE  Promise!Next
<1>1. /\ host[s] = "claimed" /\ saved' = saved /\ executed' = [executed EXCEPT ![s] = TRUE]
  BY DEF HostExecutes, journal
<1>2. Attempt(s).state \in {"CONSUMED", "UNKNOWN"} /\ ~executed[s]
  BY <1>1 DEF IInv, HostInv
<1> DEFINE r == Attempt(s).of
<1>3. r \in Reviews /\ saved.production[s].of = r
  BY <1>2, ReceiptsTyped DEF IInv, TypeInv, JournalInv, Attempt, ProductionRecords
<1> HIDE DEF r
<1>4. OneAttempt(saved) /\ executed \in [Sessions -> BOOLEAN] /\ executed' \in [Sessions -> BOOLEAN]
      /\ executed'[s] = TRUE /\ \A t \in Sessions : t # s => executed'[t] = executed[t]
  BY <1>1 DEF IInv, TypeInv, JournalInv, OneAttempt, Attempt
<1>5. ReceiptIn(saved, r) \in {"intent", "unknown"}
      /\ ExecutionsIn(saved, executed, r) = 0 /\ ExecutionsIn(saved', executed', r) = 1
  <2>1. ReceiptIn(saved, r) = OfAttempt(ReviewReceipt[saved.review[r].state], AttemptReceipt[saved.production[s].state])
        /\ ExecutionsIn(saved, executed, r) = 0
    BY <1>2, <1>3, <1>4, ReceiptWithAttempt
  <2>2. ExecutionsIn(saved, executed', r) = 1
    BY <1>3, <1>4, ReceiptWithAttempt
  <2> QED BY <1>1, <1>2, <2>1, <2>2, ReceiptNames DEF OfAttempt, Attempt
<1>6. ASSUME NEW q \in Reviews, q # r
      PROVE  ExecutionsIn(saved', executed', q) = ExecutionsIn(saved, executed, q)
  <2>1. s \notin AttemptsIn(saved, q)
    BY <1>3, <1>6 DEF AttemptsIn
  <2>2. {t \in AttemptsIn(saved, q) : executed'[t]} = {t \in AttemptsIn(saved, q) : executed[t]}
    BY <1>4, <2>1 DEF AttemptsIn
  <2> QED BY <1>1, <2>2 DEF ExecutionsIn
<1>7. Promise!Execute(r)
  BY <1>1, <1>3, <1>5, <1>6, ReceiptsAre DEF Promise!Execute
<1> QED BY <1>3, <1>7 DEF Promise!Next

LEMMA StepRefines == IInv /\ IInv' /\ [Next]_vars => [Promise!Next]_(Promise!vars)
<1> SUFFICES ASSUME IInv, IInv', [Next]_vars PROVE Promise!Next \/ UNCHANGED Promise!vars
  BY DEF Promise!vars
<1> DEFINE JournalStep ==
      executed' = executed /\ (saved' = saved \/ (writing # None /\ saved' = With(saved, writing)))
<1>1. CASE StoreNext \/ LifeNext
  <2>1. JournalStep
    BY <1>1 DEF StoreNext, LifeNext, AppendStarts, Answers, AppendDone, AppendFails, FaultedAnswers,
       CloseStore, Shutdown, Crash, OperatorRemovesLock, Open, Recovers, Uncertain, WholeLine, journal, hosts
  <2> QED BY <2>1, JournalStepKeepsPromise
<1>2. ASSUME NEW s \in Sessions, HostExecutes(s) PROVE Promise!Next
  BY <1>2, ExecutesKeepsPromise
<1>3. ASSUME NEW s \in Sessions, \/ HostOffers(s) \/ HostAnswered(s) \/ HostGivesUp(s)
                                 \/ HostFails(s) \/ HostFinishes(s) \/ HostDies(s)
      PROVE  JournalStep
  BY <1>3 DEF HostOffers, HostAnswered, HostGivesUp, HostFails, HostFinishes, HostDies, HostUnchanged, journal
<1>4. ASSUME NEW s \in Sessions, SessionNext(s) \/ \E r \in Reviews : ExecuteTool(s, r)
      PROVE  JournalStep
  BY <1>4 DEF SessionNext, Inspect, Receive, EndSession, SessionIsOver, ExecuteTool, journal, hosts
<1>5. CASE Tick \/ (\E r \in Reviews : ReviewTool(r)) \/ UNCHANGED vars
  <2>1. JournalStep
    BY <1>5 DEF Tick, ReviewTool, vars, journal, hosts
  <2> QED BY <2>1, JournalStepKeepsPromise
<1>6. ASSUME NEW s \in Sessions, HostNext(s) PROVE Promise!Next \/ UNCHANGED Promise!vars
  BY <1>2, <1>3, <1>6, JournalStepKeepsPromise DEF HostNext
<1>7. ASSUME NEW s \in Sessions, SessionNext(s) \/ \E r \in Reviews : ExecuteTool(s, r)
      PROVE  Promise!Next \/ UNCHANGED Promise!vars
  BY <1>4, <1>7, JournalStepKeepsPromise
<1> QED BY <1>1, <1>5, <1>6, <1>7 DEF Next

(* The store, the transport and the host together execute a review once at *)
(* most, after its claim has become durable and never once it was refused, *)
(* and report only what was executed (store.ts, host-receiver.ts,          *)
(* NormalOperator.*.cs).                                                   *)
THEOREM PromiseIsKept == Spec => ExecutedOnce
<1>1. Init => Promise!Init
  <2> SUFFICES ASSUME Init PROVE Promise!Init
    OBVIOUS
  <2>1. \A r \in Reviews, s \in Sessions : saved.production[s].of # r
    BY HostApprovalAssumption DEF Init, NoReceipts
  <2>2. \A r \in Reviews : ReceiptOf(r) = "none" /\ ExecutionsOf(r) = 0
    <3>1. \A r \in Reviews : saved.review[r].state = "none"
      BY DEF Init, NoReceipts
    <3> QED BY <2>1, <3>1, ReceiptWithoutAttempt, ReceiptsAre, ReceiptNames
  <2> QED BY <2>2 DEF Promise!Init
<1> QED BY <1>1, StepRefines, HostIsSound, PTL DEF Spec, ExecutedOnce, Promise!Spec
=============================================================================
