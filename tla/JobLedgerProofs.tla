---------------------------- MODULE JobLedgerProofs ----------------------------
(***************************************************************************)
(* Proofs of JobLedger, for any keys, threads, messages, results, pages    *)
(* and bounds: what was answered survives, retries are harmless, the log   *)
(* reaches the manifest, start-up settles, and a client that is told there *)
(* is no more has every event.                                             *)
(***************************************************************************)
EXTENDS JobLedger, FiniteSetTheorems, WellFoundedInduction, TLAPS

-----------------------------------------------------------------------------
(* The inductive invariant *)

(* The types, part by part *)
DiskOK ==
  /\ made \in 0 .. MaxJobs
  /\ manifest \in [Dirs -> Record \cup {NoRecord}]
  /\ events \in [Dirs -> Seq(Nat \ {0})]
  /\ messages \in [Dirs -> Seq(Line)]
MemoryOK ==
  /\ Live \subseteq Made /\ \A j \in Live : jobs[j] \in Record
  /\ DOMAIN index \subseteq Keys \cup Threads /\ \A k \in DOMAIN index : index[k] \in Live
  /\ DOMAIN ids = Live /\ \A j \in Live : ids[j] \subseteq Line
  /\ lease \in BOOLEAN
ClientOK == watched \in Dirs /\ cursor \in Nat /\ more \in BOOLEAN

Steps == {"free", "line", "event", "manifest", "artifacts", "down", "settle", "settleEvent", "settleManifest"}
Writing == {"event", "manifest", "artifacts", "settleEvent", "settleManifest"}

CountersOK ==
  /\ dispatched \in [Keys \cup Threads -> Nat]
  /\ accepted \in [Dirs \X Messages -> Nat]
  /\ answered \in [Dirs -> Nat]

(* Nothing is in a directory that is not made *)
EmptyDirs ==
  \A j \in Dirs \ Made : manifest[j] = NoRecord /\ events[j] = <<>> /\ messages[j] = <<>>

(* The holder of the lock: what it works on is there; create works on a     *)
(* directory of its own, whose key nobody has                               *)
OpInv ==
  /\ pc \in Steps
  /\ pc \in {"free", "down", "settle"} => op = NoOp
  /\ pc = "line" =>
       /\ op.kind \in {"message", "complete"} /\ op.job \in Live /\ op.line \in Line \ ids[op.job]
       /\ op.new \in Record /\ op.new.key = jobs[op.job].key
  /\ pc \in {"settleEvent", "settleManifest"} => op.kind = "settle"
  /\ pc = "artifacts" => op.kind = "message"
  /\ pc \in Writing \ {"manifest"} => op.kind # "create"
  /\ pc \in Writing /\ op.kind # "create" => op.job \in Live
  /\ pc \in {"line", "event", "manifest", "artifacts"} /\ op.kind = "message" =>
       op.line \in {"user"} \X Messages
  /\ pc = "manifest" /\ op.kind = "create" =>
       /\ op.job = made /\ made # 0 /\ manifest[made] = NoRecord
       /\ op.record \in Record /\ op.record.seq = 1 /\ op.record.key \notin DOMAIN index

(* The records in memory are those on disk, or later ones, and every key on *)
(* disk is in the index                                                     *)
RecordInv ==
  /\ Live \subseteq Readable /\ (pc # "down" => Live = Readable)
  /\ \A j \in Live : jobs[j].key = manifest[j].key /\ jobs[j].seq >= manifest[j].seq
  /\ pc # "down" => \A j \in Readable : manifest[j].key \in DOMAIN index

(* A key that was dispatched is on disk *)
KeyInv ==
  \A k \in Keys \cup Threads :
    dispatched[k] <= 1 /\ (dispatched[k] > 0 => \E j \in Readable : manifest[j].key = k)

(* What is about to be written to the manifest is in the log *)
LogInv ==
  /\ LogReachesManifest
  /\ pc \in {"manifest", "artifacts", "settleManifest"} => Written.seq \in Elements(events[op.job])

(* Start-up leaves nothing in memory that is not on disk *)
SettleInv ==
  /\ pc = "settle" => \A j \in Live : manifest[j] = jobs[j]
  /\ pc \in {"settleEvent", "settleManifest"} => \A j \in Live : j # op.job => manifest[j] = jobs[j]

StoreInv ==
  /\ DiskOK /\ MemoryOK /\ CountersOK /\ EmptyDirs /\ OpInv /\ RecordInv /\ KeyInv
  /\ LogInv /\ SettleInv /\ AnsweredSurvives /\ DrainSeesAdmissions

(* The client ids in memory are those of messages.jsonl, each on one line,  *)
(* and an accepted message has its line                                     *)
MessageInv ==
  /\ \A j \in Live : ids[j] = Elements(messages[j])
  /\ \A j \in Made : \A h, i \in DOMAIN messages[j] : messages[j][h] = messages[j][i] => h = i
  /\ \A jm \in Dirs \X Messages :
       accepted[jm] <= 1 /\ (accepted[jm] > 0 => User(jm[2]) \in Elements(messages[jm[1]]))
  /\ pc \in {"event", "manifest", "artifacts"} /\ op.kind = "message" =>
       op.line \in Elements(messages[op.job]) /\ accepted[<<op.job, op.line[2]>>] = 0

(* No job has more messages than start-up reads back (200 in the code)      *)
FitsWindow == \A j \in Dirs : Len(messages[j]) <= Window

(* What the client was given: the lines up to its cursor, and a page is the *)
(* next ones                                                                *)
Served == {"free", "line", "event", "manifest", "artifacts"}
Increasing == \A h, i \in DOMAIN Log : h < i => Log[h] < Log[i]
ClientInv ==
  /\ ClientOK
  /\ got \subseteq DOMAIN Log
  /\ cursor = 0 \/ cursor \in Elements(Log)
  /\ Increasing => got = {i \in DOMAIN Log : Log[i] <= cursor}
  /\ poll # NoPoll =>
       /\ pc \in Served /\ watched \in Live /\ poll \subseteq DOMAIN Log
       /\ \A i \in poll : Log[i] > cursor /\ \A h \in DOMAIN Log : h < i /\ Log[h] > cursor => h \in poll

-----------------------------------------------------------------------------
(* Types, part by part *)

LEMMA TypeIs ==
  /\ TypeOK <=> DiskOK /\ MemoryOK /\ ClientOK
  /\ TypeOK' <=> DiskOK' /\ MemoryOK' /\ ClientOK'
BY DEF TypeOK, DiskOK, MemoryOK, ClientOK

LEMMA MadeAreDirs == ASSUME DiskOK PROVE Made \subseteq Dirs
BY JobLedgerAssumption DEF DiskOK, Made, Dirs

LEMMA RecordsAreRecords == \A r \in Record : r # NoRecord
<1> SUFFICES ASSUME NEW r \in Record, r = NoRecord PROVE FALSE
  OBVIOUS
<1>1. "seq" \in DOMAIN r
  BY DEF Record
<1>2. "seq" \notin DOMAIN r
  BY DEF NoRecord
<1> QED BY <1>1, <1>2

LEMMA ReadableIs ==
  ASSUME DiskOK, NEW j \in Readable
  PROVE  j \in Dirs /\ j \in Made /\ manifest[j] \in Record
BY MadeAreDirs DEF Readable, DiskOK

LEMMA DiskKept ==
  ASSUME DiskOK, EmptyDirs, UNCHANGED disk
  PROVE  DiskOK' /\ EmptyDirs' /\ Readable' = Readable /\ (LogReachesManifest => LogReachesManifest')
BY DEF DiskOK, EmptyDirs, LogReachesManifest, Readable, Made, disk

LEMMA MemoryKept ==
  ASSUME MemoryOK, UNCHANGED memory, made \in Nat, made' \in Nat, made <= made'
  PROVE  MemoryOK' /\ Live' = Live
BY DEF MemoryOK, memory, Live, Made

LEMMA ClientKept ==
  ASSUME ClientOK, UNCHANGED client
  PROVE  ClientOK'
BY DEF ClientOK, client

LEMMA CountersKept ==
  ASSUME CountersOK, UNCHANGED <<dispatched, accepted, answered>>
  PROVE  CountersOK'
BY DEF CountersOK

LEMMA KeyKept ==
  ASSUME KeyInv, UNCHANGED <<made, manifest, dispatched>>
  PROVE  KeyInv'
BY DEF KeyInv, Readable, Made

LEMMA AnsweredKept ==
  ASSUME AnsweredSurvives, UNCHANGED <<manifest, answered>>
  PROVE  AnsweredSurvives'
BY DEF AnsweredSurvives

-----------------------------------------------------------------------------
(* The records *)

LEMMA NewRecords ==
  ASSUME NEW r \in Record
  PROVE  /\ Prepared(r) \in Record /\ Prepared(r).key = r.key
         /\ \A status \in Active \cup Terminal : Moved(r, status) \in Record /\ Moved(r, status).key = r.key
         /\ \A turn \in 1 .. MaxTurn : Started(r, turn) \in Record /\ Started(r, turn).key = r.key
         /\ Asked(r) \in Record /\ Asked(r).key = r.key
         /\ r.waiting > 0 => Decided(r) \in Record /\ Decided(r).key = r.key
         /\ \A status \in Active \cup Terminal : Finished(r, status) \in Record /\ Finished(r, status).key = r.key
<1> DEFINE As(status, waiting, turn) == [r EXCEPT !.status = status, !.waiting = waiting, !.turn = turn]
<1>1. /\ r.key \in Keys \cup Threads /\ r.status \in Active \cup Terminal /\ r.seq \in Nat \ {0}
      /\ r.waiting \in Nat /\ r.turn \in 0 .. MaxTurn /\ 0 \in 0 .. MaxTurn /\ MaxTurn \in Nat
      /\ {"preparing", "running", "awaiting_approval"} \subseteq Active \cup Terminal
      /\ DOMAIN r = {"key", "status", "seq", "waiting", "turn"}
      /\ r = [key |-> r.key, status |-> r.status, seq |-> r.seq, waiting |-> r.waiting, turn |-> r.turn]
  BY JobLedgerAssumption DEF Record, Active
<1>2. ASSUME NEW status \in Active \cup Terminal, NEW waiting \in Nat, NEW turn \in 0 .. MaxTurn
      PROVE  As(status, waiting, turn) \in Record /\ As(status, waiting, turn).key = r.key
  BY <1>1, <1>2 DEF Record
<1>3. Prepared(r) = As("preparing", r.waiting, 0)
  BY <1>1 DEF Prepared
<1>4. ASSUME NEW status
      PROVE  /\ Moved(r, status) = As(status, r.waiting, r.turn)
             /\ Finished(r, status) = As(status, 0, r.turn)
  BY <1>1 DEF Moved, Finished
<1>5. ASSUME NEW turn \in 1 .. MaxTurn
      PROVE  Started(r, turn) = As("running", r.waiting, turn) /\ turn \in 0 .. MaxTurn
  <2>1. turn \in 0 .. MaxTurn
    BY <1>1
  <2> QED BY <1>1, <2>1 DEF Started
<1>6. Asked(r) = As("awaiting_approval", r.waiting + 1, r.turn)
  BY <1>1 DEF Asked
<1>7. \E status \in {"awaiting_approval", "running"} :
        Decided(r) = As(status, r.waiting - 1, r.turn)
  BY <1>1 DEF Decided
<1>8. r.waiting + 1 \in Nat /\ (r.waiting > 0 => r.waiting - 1 \in Nat) /\ 0 \in Nat
  BY <1>1
<1> HIDE DEF As
<1>9. Prepared(r) \in Record /\ Prepared(r).key = r.key
  BY <1>1, <1>2, <1>3
<1>10. ASSUME NEW status \in Active \cup Terminal
       PROVE  /\ Moved(r, status) \in Record /\ Moved(r, status).key = r.key
              /\ Finished(r, status) \in Record /\ Finished(r, status).key = r.key
  BY <1>1, <1>2, <1>4, <1>8
<1>11. ASSUME NEW turn \in 1 .. MaxTurn PROVE Started(r, turn) \in Record /\ Started(r, turn).key = r.key
  BY <1>1, <1>2, <1>5
<1>12. Asked(r) \in Record /\ Asked(r).key = r.key
  BY <1>1, <1>2, <1>6, <1>8
<1>13. ASSUME r.waiting > 0 PROVE Decided(r) \in Record /\ Decided(r).key = r.key
  BY <1>1, <1>2, <1>7, <1>8, <1>13
<1> QED BY <1>9, <1>10, <1>11, <1>12, <1>13

LEMMA ChangeIs ==
  ASSUME MemoryOK, NEW j \in Live, NEW new \in Record, new.key = jobs[j].key, Change(j, new)
  PROVE  /\ Live' = Live /\ \A i \in Live : i # j => jobs'[i] = jobs[i]
         /\ jobs'[j] \in Record /\ jobs'[j].key = jobs[j].key /\ jobs'[j].seq = jobs[j].seq + 1
<1> DEFINE next == [new EXCEPT !.seq = jobs[j].seq + 1]
<1>1. next \in Record /\ next.key = jobs[j].key /\ next.seq = jobs[j].seq + 1
  BY DEF MemoryOK, Record
<1> HIDE DEF next
<1>2. jobs' = [jobs EXCEPT ![j] = next]
  BY DEF Change, next
<1> QED BY <1>1, <1>2 DEF Live

LEMMA LineIds ==
  ASSUME NEW r \in Record
  PROVE  AssistantId(r) \in Line /\ AssistantId(r)[1] # "user"
BY DEF AssistantId, Line, Record

-----------------------------------------------------------------------------
(* What the operations begin with *)

(* The record changes in memory, at the start of an operation or of a settlement *)
Begins(j, new) ==
  /\ Change(j, new) /\ op'.job = j
  /\ \/ /\ pc = "free" /\ pc' = "event" /\ op'.kind \in {"prepare", "mutate"}
        /\ op'.kind = "prepare" => ~lease
     \/ pc = "settle" /\ pc' = "settleEvent" /\ op'.kind = "settle"
  /\ UNCHANGED <<disk, index, ids, lease, client, ghost>>

LineBegins(j, new) ==
  /\ pc = "free" /\ pc' = "line"
  /\ op'.kind \in {"message", "complete"} /\ op'.job = j /\ op'.new = new /\ op'.line \in Line \ ids[j]
  /\ op'.kind = "message" => ~lease /\ op'.line \in {"user"} \X Messages
  /\ UNCHANGED <<disk, memory, client, ghost>>

LEMMA OperationBegins ==
  ASSUME MemoryOK, NEW j \in Live, Operate(j)
  PROVE  \E new \in Record : new.key = jobs[j].key /\ (Begins(j, new) \/ LineBegins(j, new))
<1>1. jobs[j] \in Record
  BY DEF MemoryOK
<1>2. ASSUME NEW new \in Record, new.key = jobs[j].key, NEW kind \in {"prepare", "mutate"},
             Free, kind = "prepare" => ~lease, Mutate(kind, j, new)
      PROVE  \E newest \in Record : newest.key = jobs[j].key /\ (Begins(j, newest) \/ LineBegins(j, newest))
  BY <1>2 DEF Mutate, Begins, Free
<1>3. CASE PrepareTurn(j)
  BY <1>1, <1>2, <1>3, NewRecords DEF PrepareTurn
<1>4. CASE AddApproval(j) \/ ResolveApproval(j) \/ RecordEvent(j)
  BY <1>1, <1>2, <1>4, NewRecords DEF AddApproval, ResolveApproval, RecordEvent
<1>5. CASE Transition(j, "preparing")
  <2>1. "preparing" \in Active \cup Terminal
    BY DEF Active
  <2> QED BY <1>1, <1>2, <1>5, <2>1, NewRecords DEF Transition
<1>6. CASE \E turn \in 1 .. MaxTurn : SetTurn(j, turn)
  BY <1>1, <1>2, <1>6, NewRecords DEF SetTurn
<1>7. ASSUME NEW m \in Messages, AppendUserMessage(j, m)
      PROVE  LineBegins(j, jobs[j])
  BY <1>7 DEF AppendUserMessage, LineBegins, Free, User, Line
<1>8. ASSUME NEW status \in Results, Complete(j, status)
      PROVE  \E new \in Record : new.key = jobs[j].key /\ (Begins(j, new) \/ LineBegins(j, new))
  <2>1. status \in Active \cup Terminal
    BY JobLedgerAssumption DEF Terminal
  <2>2. Finished(jobs[j], status) \in Record /\ Finished(jobs[j], status).key = jobs[j].key
    BY <1>1, <2>1, NewRecords
  <2>3. CASE AssistantId(jobs[j]) \in ids[j]
    BY <1>2, <1>8, <2>2, <2>3 DEF Complete
  <2>4. CASE AssistantId(jobs[j]) \notin ids[j]
    <3>1. AssistantId(jobs[j]) \in Line
      BY <1>1, LineIds
    <3>2. LineBegins(j, Finished(jobs[j], status))
      BY <1>8, <2>4, <3>1 DEF Complete, LineBegins, Free
    <3> QED BY <2>2, <3>2
  <2> QED BY <2>3, <2>4
<1> QED BY <1>1, <1>3, <1>4, <1>5, <1>6, <1>7, <1>8 DEF Operate

LEMMA BeginsStep ==
  ASSUME StoreInv, NEW j \in Live, NEW new \in Record, new.key = jobs[j].key, Begins(j, new)
  PROVE  StoreInv'
<1> USE DEF StoreInv
<1>1. /\ UNCHANGED <<disk, index, ids, lease, client, ghost>> /\ op'.job = j /\ op'.kind \notin {"create", "message"}
      /\ pc' \in {"event", "settleEvent"} /\ (pc' = "settleEvent" => pc = "settle" /\ op'.kind = "settle")
      /\ pc' = "event" => pc = "free"
      /\ lease => op'.kind # "prepare"
  <2>1. lease => pc # "settle" \/ op'.kind = "settle"
    BY DEF Begins
  <2> QED BY <2>1 DEF Begins
<1>2. /\ Live' = Live /\ \A i \in Live : i # j => jobs'[i] = jobs[i]
      /\ jobs'[j] \in Record /\ jobs'[j].key = jobs[j].key /\ jobs'[j].seq = jobs[j].seq + 1
  BY ChangeIs DEF Begins
<1>3. /\ DiskOK' /\ EmptyDirs' /\ Readable' = Readable /\ LogReachesManifest'
      /\ CountersOK' /\ KeyInv' /\ AnsweredSurvives'
  BY <1>1, DiskKept, CountersKept, KeyKept, AnsweredKept DEF LogInv, ghost, disk
<1>4. MemoryOK'
  BY <1>1, <1>2 DEF MemoryOK, Made, disk
<1>5. OpInv'
  BY <1>1, <1>2 DEF OpInv, Steps, Writing
<1>6. RecordInv'
  <2>1. \A i \in Live : i \in Readable
    BY DEF RecordInv
  <2>2. manifest[j].seq <= jobs[j].seq /\ manifest[j].seq \in Nat /\ jobs[j].seq \in Nat
    BY <2>1, ReadableIs DEF RecordInv, MemoryOK, Record
  <2>3. pc # "down"
    BY <1>1
  <2> QED BY <1>1, <1>2, <1>3, <2>2, <2>3 DEF RecordInv, disk
<1>7. LogInv' /\ DrainSeesAdmissions'
  BY <1>1, <1>3 DEF LogInv, DrainSeesAdmissions
<1>8. SettleInv'
  BY <1>1, <1>2 DEF SettleInv, disk
<1> QED BY <1>3, <1>4, <1>5, <1>6, <1>7, <1>8

LEMMA LineBeginsStep ==
  ASSUME StoreInv, NEW j \in Live, NEW new \in Record, new.key = jobs[j].key, LineBegins(j, new)
  PROVE  StoreInv'
<1> USE DEF StoreInv
<1>1. /\ UNCHANGED <<disk, memory, client, ghost>> /\ pc = "free" /\ pc' = "line"
      /\ op'.kind \in {"message", "complete"} /\ op'.job = j /\ op'.new = new /\ op'.line \in Line \ ids[j]
      /\ op'.kind = "message" => ~lease /\ op'.line \in {"user"} \X Messages
  BY DEF LineBegins
<1>2. /\ DiskOK' /\ EmptyDirs' /\ Readable' = Readable /\ LogReachesManifest'
      /\ CountersOK' /\ KeyInv' /\ AnsweredSurvives'
  BY <1>1, DiskKept, CountersKept, KeyKept, AnsweredKept DEF LogInv, ghost, disk
<1>3. MemoryOK' /\ Live' = Live
  BY <1>1, MemoryKept, JobLedgerAssumption DEF DiskOK, disk
<1>4. OpInv'
  BY <1>1, <1>3 DEF OpInv, Steps, Writing, memory
<1>5. RecordInv' /\ LogInv' /\ SettleInv' /\ DrainSeesAdmissions'
  BY <1>1, <1>2, <1>3 DEF RecordInv, LogInv, SettleInv, DrainSeesAdmissions, disk, memory
<1> QED BY <1>2, <1>3, <1>4, <1>5

-----------------------------------------------------------------------------
(* The steps of an operation *)

LEMMA NextInterval == \A n \in Nat : 1 .. (n + 1) = (1 .. n) \cup {n + 1}
OBVIOUS

LEMMA NoDomain == DOMAIN <<>> = {}
OBVIOUS

LEMMA Appended ==
  ASSUME NEW S, NEW s \in Seq(S), NEW x \in S
  PROVE  /\ Append(s, x) \in Seq(S) /\ Len(Append(s, x)) = Len(s) + 1
         /\ DOMAIN Append(s, x) = DOMAIN s \cup {Len(s) + 1}
         /\ \A i \in DOMAIN s : Append(s, x)[i] = s[i]
         /\ Append(s, x)[Len(s) + 1] = x
         /\ Elements(Append(s, x)) = Elements(s) \cup {x}
<1>1. /\ Append(s, x) \in Seq(S) /\ Len(Append(s, x)) = Len(s) + 1 /\ Len(s) \in Nat
      /\ DOMAIN s = 1 .. Len(s) /\ DOMAIN Append(s, x) = 1 .. Len(s) + 1
      /\ \A i \in DOMAIN s : Append(s, x)[i] = s[i]
      /\ Append(s, x)[Len(s) + 1] = x
  OBVIOUS
<1>2. DOMAIN Append(s, x) = DOMAIN s \cup {Len(s) + 1}
  BY <1>1, NextInterval
<1>3. Elements(Append(s, x)) = Elements(s) \cup {x}
  <2>1. \A i \in DOMAIN s : s[i] \in Elements(Append(s, x))
    BY <1>1, <1>2 DEF Elements
  <2>2. x \in Elements(Append(s, x))
    BY <1>1, <1>2 DEF Elements
  <2>3. \A y \in Elements(Append(s, x)) : y \in Elements(s) \/ y = x
    BY <1>1, <1>2 DEF Elements
  <2> QED BY <2>1, <2>2, <2>3 DEF Elements
<1> QED BY <1>1, <1>2, <1>3

(* Only the holder, the lease and the faults change *)
LEMMA HolderFrame ==
  ASSUME StoreInv, UNCHANGED <<disk, jobs, index, ids, client, dispatched, accepted, answered>>, lease' \in BOOLEAN
  PROVE  /\ DiskOK' /\ EmptyDirs' /\ Readable' = Readable /\ LogReachesManifest' /\ Live' = Live
         /\ MemoryOK' /\ CountersOK' /\ KeyInv' /\ AnsweredSurvives'
<1> USE DEF StoreInv
<1>1. DiskOK' /\ EmptyDirs' /\ Readable' = Readable /\ LogReachesManifest'
  BY DiskKept DEF LogInv
<1>2. CountersOK' /\ KeyInv' /\ AnsweredSurvives'
  BY CountersKept, KeyKept, AnsweredKept DEF disk
<1>3. MemoryOK' /\ Live' = Live
  BY DEF MemoryOK, Made, Live, disk
<1> QED BY <1>1, <1>2, <1>3

LEMMA FreedStep ==
  ASSUME StoreInv, OperationFails \/ BeginSelfReload \/ EndSelfReload \/ Open
  PROVE  StoreInv'
<1> USE DEF StoreInv
<1>1. /\ UNCHANGED <<disk, jobs, index, ids, client, dispatched, accepted, answered>> /\ lease' \in BOOLEAN
      /\ pc' = "free" /\ op' = NoOp /\ pc # "down"
  BY DEF OperationFails, BeginSelfReload, EndSelfReload, Open, Free, ghost, memory, MemoryOK, OpInv
<1>2. /\ DiskOK' /\ EmptyDirs' /\ Readable' = Readable /\ LogReachesManifest' /\ Live' = Live
      /\ MemoryOK' /\ CountersOK' /\ KeyInv' /\ AnsweredSurvives'
  BY <1>1, HolderFrame
<1>3. OpInv'
  BY <1>1 DEF OpInv, Steps, Writing, NoOp
<1>4. RecordInv' /\ LogInv' /\ SettleInv' /\ DrainSeesAdmissions'
  BY <1>1, <1>2 DEF RecordInv, LogInv, SettleInv, DrainSeesAdmissions, disk
<1> QED BY <1>2, <1>3, <1>4

LEMMA ReadStep ==
  ASSUME StoreInv, ReadEvents \/ Reply
  PROVE  StoreInv' /\ UNCHANGED <<disk, memory, pc, op, ghost, watched>>
<1> USE DEF StoreInv
<1>1. UNCHANGED <<disk, memory, pc, op, ghost, watched>>
  BY DEF ReadEvents, Reply
<1>2. /\ DiskOK' /\ EmptyDirs' /\ Readable' = Readable /\ LogReachesManifest' /\ CountersOK' /\ KeyInv'
      /\ AnsweredSurvives'
  BY <1>1, DiskKept, CountersKept, KeyKept, AnsweredKept DEF LogInv, disk, ghost
<1>3. MemoryOK' /\ Live' = Live
  BY <1>1 DEF MemoryOK, Made, Live, disk, memory
<1>4. OpInv' /\ RecordInv' /\ LogInv' /\ SettleInv' /\ DrainSeesAdmissions'
  BY <1>1, <1>2, <1>3 DEF OpInv, RecordInv, LogInv, SettleInv, DrainSeesAdmissions, Written, disk, memory
<1> QED BY <1>1, <1>2, <1>3, <1>4

(* A crash, and a start that fails *)
Forgets ==
  /\ jobs' = <<>> /\ index' = <<>> /\ ids' = <<>> /\ lease' \in {lease, FALSE}
  /\ pc' = "down" /\ op' = NoOp
  /\ UNCHANGED <<disk, watched, cursor, got, more, dispatched, accepted, answered>>

LEMMA ForgetsStep ==
  ASSUME StoreInv, Forgets
  PROVE  StoreInv'
<1> USE DEF StoreInv
<1>1. Live' = {} /\ DOMAIN index' = {} /\ DOMAIN ids' = {} /\ lease' \in BOOLEAN
  BY NoDomain DEF Forgets, Live, MemoryOK
<1>2. pc' = "down" /\ op' = NoOp /\ UNCHANGED <<disk, watched, cursor, got, more, dispatched, accepted, answered>>
  BY DEF Forgets
<1>3. /\ DiskOK' /\ EmptyDirs' /\ Readable' = Readable /\ LogReachesManifest' /\ CountersOK' /\ KeyInv'
      /\ AnsweredSurvives'
  BY <1>2, DiskKept, CountersKept, KeyKept, AnsweredKept DEF LogInv, disk
<1>4. MemoryOK'
  BY <1>1 DEF MemoryOK
<1>5. OpInv'
  BY <1>2 DEF OpInv, Steps, Writing, NoOp
<1>6. RecordInv' /\ LogInv' /\ SettleInv' /\ DrainSeesAdmissions'
  BY <1>1, <1>2, <1>3 DEF RecordInv, LogInv, SettleInv, DrainSeesAdmissions, NoOp
<1> QED BY <1>3, <1>4, <1>5, <1>6

LEMMA LastIsSame ==
  ASSUME NEW S, NEW s \in Seq(S), Len(s) <= Window
  PROVE  Last(s, Window) = s
BY DEF Last

LEMMA LastOfLines ==
  ASSUME NEW s \in Seq(Line)
  PROVE  Elements(Last(s, Window)) \subseteq Line
<1>1. CASE Len(s) <= Window
  BY <1>1 DEF Last, Elements
<1>2. CASE ~(Len(s) <= Window)
  <2>1. Len(s) - Window + 1 \in 1 .. Len(s)
    BY <1>2, JobLedgerAssumption
  <2>2. SubSeq(s, Len(s) - Window + 1, Len(s)) \in Seq(Line)
    BY <2>1
  <2> QED BY <1>2, <2>2 DEF Last, Elements
<1> QED BY <1>1, <1>2

LEMMA LoadStep ==
  ASSUME StoreInv, Load
  PROVE  StoreInv'
<1> USE DEF StoreInv
<1>1. /\ jobs' = [j \in Readable |-> manifest[j]]
      /\ index' = [k \in {manifest[j].key : j \in Readable} |-> CHOOSE j \in Readable : manifest[j].key = k]
      /\ ids' = [j \in Readable |-> Elements(Last(messages[j], Window))]
      /\ pc' = "settle" /\ op' = NoOp /\ UNCHANGED <<disk, lease, client, ghost>>
  BY DEF Load, OpInv
<1>2. /\ DiskOK' /\ EmptyDirs' /\ Readable' = Readable /\ LogReachesManifest'
      /\ CountersOK' /\ KeyInv' /\ AnsweredSurvives'
  BY <1>1, DiskKept, CountersKept, KeyKept, AnsweredKept DEF LogInv, ghost, disk
<1>3. Live' = Readable /\ \A j \in Readable : jobs'[j] = manifest[j]
  BY <1>1 DEF Live
<1>4. MemoryOK'
  <2>1. \A j \in Readable : jobs'[j] \in Record
    BY <1>3, ReadableIs
  <2>2. DOMAIN index' \subseteq Keys \cup Threads /\ \A k \in DOMAIN index' : index'[k] \in Readable
    <3>1. \A j \in Readable : manifest[j].key \in Keys \cup Threads
      BY ReadableIs DEF Record
    <3> QED BY <1>1, <3>1
  <2>3. DOMAIN ids' = Readable /\ \A j \in Readable : ids'[j] \subseteq Line
    <3>1. \A j \in Readable : messages[j] \in Seq(Line)
      BY ReadableIs DEF DiskOK
    <3> QED BY <1>1, <3>1, LastOfLines
  <2>4. Readable \subseteq Made' /\ lease' \in BOOLEAN
    BY <1>1 DEF Readable, Made, disk, MemoryOK
  <2> QED BY <1>3, <2>1, <2>2, <2>3, <2>4 DEF MemoryOK
<1>5. OpInv'
  BY <1>1 DEF OpInv, Steps, Writing, NoOp
<1>6. RecordInv'
  <2>1. \A j \in Readable : jobs'[j].seq >= manifest[j].seq
    BY <1>3, ReadableIs DEF Record
  <2>2. \A j \in Readable : manifest[j].key \in DOMAIN index'
    BY <1>1
  <2> QED BY <1>1, <1>2, <1>3, <2>1, <2>2 DEF RecordInv, disk
<1>7. LogInv' /\ SettleInv' /\ DrainSeesAdmissions'
  BY <1>1, <1>2, <1>3 DEF LogInv, SettleInv, DrainSeesAdmissions, disk, NoOp
<1> QED BY <1>2, <1>4, <1>5, <1>6, <1>7

LEMMA CreateStep ==
  ASSUME StoreInv, NEW k \in Keys \cup Threads, Create(k)
  PROVE  StoreInv'
<1> USE DEF StoreInv
<1>1. /\ pc = "free" /\ ~lease /\ k \notin DOMAIN index /\ made < MaxJobs /\ made' = made + 1
      /\ UNCHANGED <<manifest, memory, client, ghost>> /\ pc' = "manifest"
      /\ op'.kind = "create" /\ op'.job = made + 1
  BY DEF Create, Free
<1>2. /\ made + 1 \in Dirs \ Made /\ made \in Nat /\ made + 1 \in Nat /\ made + 1 # 0
      /\ Made' = Made \cup {made + 1} /\ made' \in 0 .. MaxJobs
  <2>1. made \in Nat /\ MaxJobs \in Nat /\ made < MaxJobs
    BY <1>1, JobLedgerAssumption DEF DiskOK
  <2>2. Made' = Made \cup {made + 1}
    BY <1>1, <2>1, NextInterval DEF Made
  <2> QED BY <1>1, <2>1, <2>2 DEF Dirs, Made
<1>3. manifest[made + 1] = NoRecord
  BY <1>2 DEF EmptyDirs
<1>4. Readable' = Readable
  BY <1>1, <1>2, <1>3 DEF Readable
<1>5. DiskOK'
  <2>1. <<1>> \in Seq(Nat \ {0})
    OBVIOUS
  <2>2. <<Initial>> \in Seq(Line) /\ <<>> \in Seq(Line)
    BY DEF Line
  <2>3. events' \in [Dirs -> Seq(Nat \ {0})]
    BY <1>2, <2>1 DEF Create, DiskOK
  <2>4. messages' \in [Dirs -> Seq(Line)]
    BY <1>2, <2>2 DEF Create, DiskOK
  <2> QED BY <1>1, <1>2, <2>3, <2>4 DEF DiskOK
<1>6. EmptyDirs'
  BY <1>1, <1>2 DEF EmptyDirs, Create, DiskOK
<1>7. MemoryOK' /\ Live' = Live
  BY <1>1, <1>2, MemoryKept, SMT
<1>8. CountersOK' /\ AnsweredSurvives'
  BY <1>1, CountersKept, AnsweredKept DEF ghost
<1>9. KeyInv'
  BY <1>1, <1>4 DEF KeyInv, ghost
<1>10. /\ op'.record \in Record /\ op'.record.seq = 1 /\ op'.record.key = k
  <2>1. op'.record = [key |-> k, seq |-> 1, waiting |-> 0, turn |-> 0,
                      status |-> IF k \in Keys THEN "queued" ELSE "completed"]
    BY DEF Create
  <2> QED BY <2>1, JobLedgerAssumption DEF Record, Active, Terminal
<1>11. OpInv'
  BY <1>1, <1>2, <1>3, <1>10 DEF OpInv, Steps, Writing, memory
<1>12. RecordInv' /\ SettleInv' /\ DrainSeesAdmissions'
  BY <1>1, <1>4, <1>7 DEF RecordInv, SettleInv, DrainSeesAdmissions, memory
<1>13. LogInv'
  <2>1. \A j \in Made : events'[j] = events[j]
    BY <1>2, MadeAreDirs DEF Create, DiskOK
  <2>2. LogReachesManifest'
    BY <1>1, <1>2, <1>3, <2>1 DEF LogReachesManifest, LogInv
  <2>3. Written'.seq \in Elements(events'[op'.job])
    <3>1. events'[made + 1] = <<1>>
      BY <1>2 DEF Create, DiskOK
    <3> QED BY <1>1, <1>10, <3>1 DEF Written, Elements
  <2> QED BY <1>1, <2>2, <2>3 DEF LogInv
<1> QED BY <1>5, <1>6, <1>7, <1>8, <1>9, <1>11, <1>12, <1>13

LEMMA LineStep ==
  ASSUME StoreInv, AppendLine
  PROVE  StoreInv'
<1> USE DEF StoreInv
<1> DEFINE j == op.job
<1>1. /\ pc = "line" /\ pc' = "event" /\ UNCHANGED <<made, manifest, events, index, lease, op, ghost>>
      /\ messages' = [messages EXCEPT ![j] = Append(@, op.line)]
      /\ ids' = [ids EXCEPT ![j] = @ \cup {op.line}] /\ Change(j, op.new)
  BY DEF AppendLine
<1>2. /\ op.kind \in {"message", "complete"} /\ j \in Live /\ op.line \in Line
      /\ op.new \in Record /\ op.new.key = jobs[j].key
  BY <1>1 DEF OpInv
<1>3. PICK i \in Live : i = op.job
  BY <1>2
<1>4. /\ Live' = Live /\ \A h \in Live : h # i => jobs'[h] = jobs[h]
      /\ jobs'[i] \in Record /\ jobs'[i].key = jobs[i].key /\ jobs'[i].seq = jobs[i].seq + 1
  BY <1>1, <1>2, <1>3, ChangeIs
<1>5. i \in Made /\ i \in Dirs /\ messages[i] \in Seq(Line) /\ Append(messages[i], op.line) \in Seq(Line)
  BY <1>2, MadeAreDirs DEF MemoryOK, DiskOK
<1>6. DiskOK' /\ EmptyDirs' /\ Readable' = Readable
  BY <1>1, <1>3, <1>5 DEF DiskOK, EmptyDirs, Readable, Made
<1>7. MemoryOK'
  BY <1>1, <1>2, <1>3, <1>4 DEF MemoryOK, Made
<1>8. LogReachesManifest' /\ CountersOK' /\ KeyInv' /\ AnsweredSurvives'
  BY <1>1, CountersKept, KeyKept, AnsweredKept DEF LogInv, LogReachesManifest, Made, ghost
<1>9. OpInv'
  BY <1>1, <1>2, <1>4 DEF OpInv, Steps, Writing
<1>10. RecordInv'
  <2>1. manifest[i].seq <= jobs[i].seq /\ manifest[i].seq \in Nat /\ jobs[i].seq \in Nat
    BY ReadableIs DEF RecordInv, MemoryOK, Record
  <2> QED BY <1>1, <1>4, <1>6, <2>1 DEF RecordInv
<1>11. LogInv' /\ SettleInv' /\ DrainSeesAdmissions'
  BY <1>1, <1>8 DEF LogInv, SettleInv, DrainSeesAdmissions
<1> QED BY <1>6, <1>7, <1>8, <1>9, <1>10, <1>11

LEMMA EventStep ==
  ASSUME StoreInv, AppendEvent \/ SettleEvent
  PROVE  StoreInv'
<1> USE DEF StoreInv
<1>1. /\ UNCHANGED <<made, manifest, messages, memory, op, ghost>>
      /\ events' = [events EXCEPT ![op.job] = Append(@, jobs[op.job].seq)]
      /\ \/ pc = "event" /\ pc' = "manifest"
         \/ pc = "settleEvent" /\ pc' = "settleManifest"
  BY DEF AppendEvent, SettleEvent
<1>2. op.kind # "create" /\ op.job \in Live
  BY <1>1 DEF OpInv, Writing
<1>3. PICK j \in Live : j = op.job
  BY <1>2
<1>4. j \in Made /\ j \in Dirs /\ events[j] \in Seq(Nat \ {0}) /\ jobs[j].seq \in Nat \ {0}
  BY MadeAreDirs DEF MemoryOK, DiskOK, Record
<1>5. /\ events'[j] = Append(events[j], jobs[j].seq)
      /\ \A i \in Dirs : i # j => events'[i] = events[i]
  BY <1>1, <1>3, <1>4 DEF DiskOK
<1>6. /\ Append(events[j], jobs[j].seq) \in Seq(Nat \ {0})
      /\ Elements(events'[j]) = Elements(events[j]) \cup {jobs[j].seq}
      /\ DOMAIN events'[j] = DOMAIN events[j] \cup {Len(events[j]) + 1}
      /\ \A i \in DOMAIN events[j] : events'[j][i] = events[j][i]
  BY <1>4, <1>5, Appended
<1>7. DiskOK' /\ EmptyDirs' /\ Readable' = Readable
  BY <1>1, <1>3, <1>4, <1>6 DEF DiskOK, EmptyDirs, Readable, Made
<1>8. LogReachesManifest'
  <2> SUFFICES ASSUME NEW i \in Made, manifest[i] # NoRecord
               PROVE  \E h \in DOMAIN events'[i] : events'[i][h] >= manifest[i].seq
    BY <1>1 DEF LogReachesManifest, Made
  <2>1. PICK h \in DOMAIN events[i] : events[i][h] >= manifest[i].seq
    BY DEF LogInv, LogReachesManifest
  <2>2. CASE i = j
    BY <1>6, <2>1, <2>2
  <2>3. CASE i # j
    BY <1>5, <2>1, <2>3, MadeAreDirs
  <2> QED BY <2>2, <2>3
<1>9. MemoryOK' /\ Live' = Live
  BY <1>1 DEF MemoryOK, Made, Live, memory
<1>10. CountersOK' /\ KeyInv' /\ AnsweredSurvives'
  BY <1>1, CountersKept, KeyKept, AnsweredKept DEF ghost
<1>11. OpInv'
  BY <1>1, <1>2, <1>9 DEF OpInv, Steps, Writing
<1>12. RecordInv' /\ SettleInv' /\ DrainSeesAdmissions'
  BY <1>1, <1>7, <1>9 DEF RecordInv, SettleInv, DrainSeesAdmissions, memory
<1>13. LogInv'
  <2>1. Written' = jobs[j]
    BY <1>1, <1>2, <1>3 DEF Written, memory
  <2> QED BY <1>1, <1>3, <1>6, <1>8, <2>1 DEF LogInv
<1> QED BY <1>7, <1>8, <1>9, <1>10, <1>11, <1>12, <1>13

(* The record in memory replaces the manifest *)
Replaces ==
  /\ op.kind # "create"
  /\ manifest' = [manifest EXCEPT ![op.job] = jobs[op.job]]
  /\ UNCHANGED <<made, events, messages, memory, dispatched>> /\ accepted' \in [Dirs \X Messages -> Nat]
  /\ \/ pc \in {"manifest", "artifacts"} /\ pc' = "free" /\ op' = NoOp
        /\ answered' = [answered EXCEPT ![op.job] = jobs[op.job].seq]
     \/ pc = "manifest" /\ pc' = "artifacts" /\ op' = op /\ op.kind = "message" /\ answered' = answered
     \/ pc = "settleManifest" /\ pc' = "settle" /\ op' = NoOp /\ answered' = answered

LEMMA ReplacesIs ==
  ASSUME StoreInv, (WriteManifest /\ op.kind # "create") \/ WriteArtifacts \/ SettleManifest
  PROVE  Replaces
<1> USE DEF StoreInv
<1>1. CASE WriteManifest /\ op.kind # "create"
  BY <1>1 DEF WriteManifest, Written, Replaces, CountersOK, memory
<1>2. CASE WriteArtifacts
  <2>1. op.kind = "message" /\ op.job \in Live /\ op.line \in {"user"} \X Messages
    BY <1>2 DEF WriteArtifacts, OpInv, Writing
  <2>2. op.job \in Dirs /\ op.line[2] \in Messages
    BY <2>1, MadeAreDirs DEF MemoryOK
  <2>3. accepted' \in [Dirs \X Messages -> Nat]
    BY <1>2, <2>2 DEF WriteArtifacts, CountersOK
  <2> QED BY <1>2, <2>1, <2>3 DEF WriteArtifacts, Replaces, memory
<1>3. CASE SettleManifest
  BY <1>3 DEF SettleManifest, Replaces, OpInv, CountersOK, memory, ghost
<1> QED BY <1>1, <1>2, <1>3

LEMMA ReplacesStep ==
  ASSUME StoreInv, Replaces
  PROVE  StoreInv'
<1> USE DEF StoreInv
<1>1. /\ op.kind # "create" /\ UNCHANGED <<made, events, messages, memory, dispatched>>
      /\ pc \in {"manifest", "artifacts", "settleManifest"}
      /\ manifest' = [manifest EXCEPT ![op.job] = jobs[op.job]]
  BY DEF Replaces
<1>2. op.job \in Live
  BY <1>1 DEF OpInv, Writing
<1>3. PICK j \in Live : j = op.job
  BY <1>2
<1>4. /\ j \in Made /\ j \in Dirs /\ j \in Readable /\ jobs[j] \in Record /\ jobs[j] # NoRecord
      /\ manifest[j] \in Record /\ jobs[j].key = manifest[j].key
      /\ jobs[j].seq \in Nat /\ manifest[j].seq \in Nat /\ jobs[j].seq >= manifest[j].seq
  BY MadeAreDirs, RecordsAreRecords, ReadableIs DEF MemoryOK, RecordInv, Record
<1>5. manifest'[j] = jobs[j] /\ \A i \in Dirs : i # j => manifest'[i] = manifest[i]
  BY <1>1, <1>3, <1>4 DEF DiskOK
<1>6. jobs[j].seq \in Elements(events[j])
  BY <1>1, <1>3 DEF LogInv, Written
<1>7. DiskOK' /\ EmptyDirs' /\ Readable' = Readable
  BY <1>1, <1>3, <1>4, <1>5, MadeAreDirs DEF DiskOK, EmptyDirs, Readable, Made
<1>8. MemoryOK' /\ Live' = Live
  BY <1>1 DEF MemoryOK, Made, Live, memory
<1>9. \A i \in Readable : manifest'[i].key = manifest[i].key
  BY <1>4, <1>5, ReadableIs
<1>10. KeyInv'
  BY <1>1, <1>7, <1>9 DEF KeyInv
<1>11. CountersOK' /\ AnsweredSurvives'
  <2>1. answered' = answered \/ answered' = [answered EXCEPT ![j] = jobs[j].seq]
    BY <1>3 DEF Replaces
  <2>2. CountersOK'
    BY <1>1, <1>4, <2>1 DEF Replaces, CountersOK
  <2>3. \A i \in Dirs : i # j => answered'[i] = answered[i] /\ manifest'[i] = manifest[i]
    BY <1>5, <2>1 DEF CountersOK
  <2>4. answered'[j] = answered[j] \/ answered'[j] = jobs[j].seq
    BY <1>4, <2>1 DEF CountersOK
  <2>5. answered[j] \in Nat
    BY <1>4 DEF CountersOK
  <2>6. answered'[j] > 0 => manifest'[j] # NoRecord /\ manifest'[j].seq >= answered'[j]
    BY <1>4, <1>5, <2>4, <2>5 DEF AnsweredSurvives
  <2> QED BY <2>2, <2>3, <2>6 DEF AnsweredSurvives
<1>12. LogInv'
  <2>1. LogReachesManifest'
    <3> SUFFICES ASSUME NEW i \in Made, manifest'[i] # NoRecord
                 PROVE  \E h \in DOMAIN events[i] : events[i][h] >= manifest'[i].seq
      BY <1>1 DEF LogReachesManifest, Made
    <3>1. CASE i = j
      BY <1>4, <1>5, <1>6, <3>1 DEF Elements
    <3>2. CASE i # j
      BY <1>5, <3>2, MadeAreDirs DEF LogInv, LogReachesManifest
    <3> QED BY <3>1, <3>2
  <2>2. pc' = "artifacts" => op' = op /\ op.kind = "message"
    BY <1>1 DEF Replaces
  <2>3. pc' = "artifacts" => Written'.seq \in Elements(events'[op'.job])
    BY <1>1, <1>3, <1>6, <2>2 DEF Written, memory
  <2>4. pc' \in {"free", "artifacts", "settle"}
    BY DEF Replaces
  <2> QED BY <2>1, <2>3, <2>4 DEF LogInv
<1>13. OpInv'
  <2>1. CASE op' = NoOp /\ pc' \in {"free", "settle"}
    BY <2>1 DEF OpInv, Steps, Writing, NoOp
  <2>2. CASE op' = op /\ pc = "manifest" /\ pc' = "artifacts" /\ op.kind = "message"
    BY <1>1, <1>8, <2>2 DEF OpInv, Steps, Writing, memory
  <2> QED BY <2>1, <2>2 DEF Replaces
<1>14. RecordInv'
  <2>1. \A i \in Live : jobs'[i].key = manifest'[i].key /\ jobs'[i].seq >= manifest'[i].seq
    BY <1>1, <1>4, <1>5, MadeAreDirs DEF RecordInv, MemoryOK, memory
  <2> QED BY <1>1, <1>7, <1>8, <1>9, <2>1 DEF RecordInv, memory
<1>15. SettleInv'
  <2>1. pc' = "settle" => pc = "settleManifest"
    BY <1>1 DEF Replaces
  <2>2. pc' \in {"free", "artifacts", "settle"}
    BY DEF Replaces
  <2>3. pc' = "settle" => \A i \in Live : manifest'[i] = jobs[i]
    BY <1>3, <1>5, <2>1, MadeAreDirs DEF SettleInv, MemoryOK
  <2> QED BY <1>1, <1>8, <2>2, <2>3 DEF SettleInv, memory
<1>16. DrainSeesAdmissions'
  BY <1>1 DEF Replaces, DrainSeesAdmissions, NoOp, memory
<1> QED BY <1>7, <1>8, <1>10, <1>11, <1>12, <1>13, <1>14, <1>15, <1>16

(* create publishes its job *)
LEMMA PublishStep ==
  ASSUME StoreInv, WriteManifest, op.kind = "create"
  PROVE  StoreInv'
<1> USE DEF StoreInv
<1>1. /\ pc = "manifest" /\ pc' = "free" /\ op' = NoOp
      /\ manifest' = [manifest EXCEPT ![op.job] = op.record]
      /\ jobs' = Put(jobs, op.job, op.record) /\ index' = Put(index, op.record.key, op.job)
      /\ ids' = Put(ids, op.job, Elements(messages[op.job]))
      /\ dispatched' = [dispatched EXCEPT ![op.record.key] = @ + 1]
      /\ answered' = [answered EXCEPT ![op.job] = op.record.seq]
      /\ UNCHANGED <<made, events, messages, lease, accepted>>
  BY DEF WriteManifest, Written
<1>2. /\ op.job = made /\ made # 0 /\ manifest[made] = NoRecord
      /\ op.record \in Record /\ op.record.seq = 1 /\ op.record.key \notin DOMAIN index
  BY <1>1 DEF OpInv
<1>3. PICK j \in Made : j = op.job
  BY <1>2 DEF Made, DiskOK
<1>4. PICK r \in Record : r = op.record
  BY <1>2
<1>5. /\ j \in Dirs /\ j \notin Readable /\ j \notin Live /\ r # NoRecord /\ r.seq = 1
      /\ r.key \in Keys \cup Threads /\ r.key \notin DOMAIN index
  BY <1>2, <1>3, <1>4, MadeAreDirs, RecordsAreRecords DEF Readable, RecordInv, Record
<1>6. manifest'[j] = r /\ \A i \in Dirs : i # j => manifest'[i] = manifest[i]
  BY <1>1, <1>3, <1>4, <1>5 DEF DiskOK
<1>7. Readable' = Readable \cup {j}
  BY <1>1, <1>3, <1>5, <1>6, MadeAreDirs DEF Readable, Made
<1>8. /\ Live' = Live \cup {j} /\ jobs'[j] = r /\ \A i \in Live : jobs'[i] = jobs[i]
      /\ DOMAIN index' = DOMAIN index \cup {r.key} /\ index'[r.key] = j
      /\ \A k \in DOMAIN index : index'[k] = index[k]
      /\ DOMAIN ids' = DOMAIN ids \cup {j} /\ ids'[j] = Elements(messages[j])
      /\ \A i \in DOMAIN ids : i # j => ids'[i] = ids[i]
  <2>1. Live' = Live \cup {j} /\ jobs'[j] = r /\ \A i \in Live : i # j => jobs'[i] = jobs[i]
    <3>1. jobs' = [y \in DOMAIN jobs \cup {j} |-> IF y = j THEN r ELSE jobs[y]]
      BY <1>1, <1>3, <1>4 DEF Put
    <3> QED BY <3>1 DEF Live
  <2>2. /\ DOMAIN index' = DOMAIN index \cup {r.key} /\ index'[r.key] = j
        /\ \A k \in DOMAIN index : k # r.key => index'[k] = index[k]
    <3>1. index' = [y \in DOMAIN index \cup {r.key} |-> IF y = r.key THEN j ELSE index[y]]
      BY <1>1, <1>3, <1>4 DEF Put
    <3> QED BY <3>1
  <2>3. /\ DOMAIN ids' = DOMAIN ids \cup {j} /\ ids'[j] = Elements(messages[j])
        /\ \A i \in DOMAIN ids : i # j => ids'[i] = ids[i]
    <3>1. ids' = [y \in DOMAIN ids \cup {j} |-> IF y = j THEN Elements(messages[j]) ELSE ids[y]]
      BY <1>1, <1>3 DEF Put
    <3> QED BY <3>1
  <2> QED BY <1>5, <2>1, <2>2, <2>3
<1>9. DiskOK' /\ EmptyDirs'
  BY <1>1, <1>3, <1>4, <1>5, <1>6 DEF DiskOK, EmptyDirs, Made
<1>10. MemoryOK'
  <2>1. Elements(messages[j]) \subseteq Line
    BY <1>5 DEF DiskOK, Elements
  <2>2. Live' \subseteq Made' /\ \A i \in Live' : jobs'[i] \in Record
    BY <1>1, <1>8 DEF MemoryOK, Made
  <2>3. DOMAIN index' \subseteq Keys \cup Threads /\ \A k \in DOMAIN index' : index'[k] \in Live'
    BY <1>5, <1>8 DEF MemoryOK
  <2>4. DOMAIN ids' = Live' /\ \A i \in Live' : ids'[i] \subseteq Line
    BY <1>5, <1>8, <2>1 DEF MemoryOK
  <2> QED BY <1>1, <2>2, <2>3, <2>4 DEF MemoryOK
<1>11. CountersOK'
  BY <1>1, <1>3, <1>4, <1>5 DEF CountersOK
<1>12. \A i \in Readable : manifest'[i] = manifest[i]
  BY <1>5, <1>6, ReadableIs
<1>13. KeyInv'
  <2>1. \A k \in Keys \cup Threads : dispatched[k] \in Nat
    BY DEF CountersOK
  <2>2. dispatched[r.key] = 0
    <3>1. \A i \in Readable : manifest[i].key # r.key
      BY <1>1, <1>5 DEF RecordInv
    <3> QED BY <1>5, <2>1, <3>1 DEF KeyInv
  <2>3. dispatched'[r.key] = 1 /\ \A k \in Keys \cup Threads : k # r.key => dispatched'[k] = dispatched[k]
    BY <1>1, <1>4, <1>5, <2>2 DEF CountersOK
  <2>4. j \in Readable' /\ manifest'[j].key = r.key
    BY <1>6, <1>7
  <2>5. ASSUME NEW k \in Keys \cup Threads
        PROVE  dispatched'[k] <= 1 /\ (dispatched'[k] > 0 => \E i \in Readable' : manifest'[i].key = k)
    <3>1. CASE k = r.key
      BY <2>3, <2>4, <3>1
    <3>2. CASE k # r.key
      BY <1>7, <1>12, <2>3, <3>2 DEF KeyInv
    <3> QED BY <3>1, <3>2
  <2> QED BY <2>5 DEF KeyInv
<1>14. AnsweredSurvives'
  <2>1. answered'[j] = 1 /\ \A i \in Dirs : i # j => answered'[i] = answered[i]
    BY <1>1, <1>3, <1>4, <1>5 DEF CountersOK
  <2> QED BY <1>5, <1>6, <2>1 DEF AnsweredSurvives
<1>15. OpInv'
  BY <1>1 DEF OpInv, Steps, Writing, NoOp
<1>16. RecordInv'
  <2>1. Live = Readable /\ pc # "down"
    BY <1>1 DEF RecordInv
  <2>2. \A i \in Live' : jobs'[i].key = manifest'[i].key /\ jobs'[i].seq >= manifest'[i].seq
    BY <1>5, <1>6, <1>8, <1>12, <2>1 DEF RecordInv
  <2>3. \A i \in Readable' : manifest'[i].key \in DOMAIN index'
    BY <1>6, <1>7, <1>8, <1>12, <2>1 DEF RecordInv
  <2> QED BY <1>7, <1>8, <2>1, <2>2, <2>3 DEF RecordInv
<1>17. LogInv'
  <2>1. 1 \in Elements(events[j])
    BY <1>1, <1>3, <1>4, <1>5 DEF LogInv, Written
  <2>2. LogReachesManifest'
    <3> SUFFICES ASSUME NEW i \in Made, manifest'[i] # NoRecord
                 PROVE  \E h \in DOMAIN events[i] : events[i][h] >= manifest'[i].seq
      BY <1>1 DEF LogReachesManifest, Made
    <3>1. CASE i = j
      BY <1>5, <1>6, <2>1, <3>1 DEF Elements
    <3>2. CASE i # j
      BY <1>6, <3>2, MadeAreDirs DEF LogInv, LogReachesManifest
    <3> QED BY <3>1, <3>2
  <2> QED BY <1>1, <2>2 DEF LogInv
<1>18. SettleInv' /\ DrainSeesAdmissions'
  BY <1>1 DEF SettleInv, DrainSeesAdmissions
<1> QED BY <1>9, <1>10, <1>11, <1>13, <1>14, <1>15, <1>16, <1>17, <1>18

(* Start-up settles a job: the step is the beginning of an operation *)
LEMMA SettleStep ==
  ASSUME StoreInv, Settle
  PROVE  StoreInv'
<1> USE DEF StoreInv
<1>1. PICK j \in Unsettled :
        /\ Change(j, Finished(jobs[j], IF jobs[j].status \in Active THEN "interrupted" ELSE jobs[j].status))
        /\ op' = [kind |-> "settle", job |-> j]
  BY DEF Settle
<1>2. j \in Live /\ jobs[j] \in Record
  BY DEF Unsettled, MemoryOK
<1>3. PICK status \in Active \cup Terminal :
        status = IF jobs[j].status \in Active THEN "interrupted" ELSE jobs[j].status
  BY <1>2 DEF Record, Terminal
<1>4. Finished(jobs[j], status) \in Record /\ Finished(jobs[j], status).key = jobs[j].key
  BY <1>2, NewRecords
<1>5. Begins(j, Finished(jobs[j], status))
  BY <1>1, <1>3 DEF Settle, Begins
<1> QED BY <1>2, <1>4, <1>5, BeginsStep

LEMMA StoreInitially == Init => StoreInv
<1> SUFFICES ASSUME Init PROVE StoreInv
  OBVIOUS
<1> USE JobLedgerAssumption DEF Init
<1>1. Live = {} /\ DOMAIN index = {} /\ DOMAIN ids = {} /\ Made = {} /\ Readable = {}
  BY NoDomain DEF Live, Made, Readable
<1>2. DiskOK /\ EmptyDirs
  BY <1>1 DEF DiskOK, EmptyDirs
<1>3. MemoryOK
  BY <1>1 DEF MemoryOK
<1>4. CountersOK /\ KeyInv /\ AnsweredSurvives
  BY <1>1 DEF CountersOK, KeyInv, AnsweredSurvives
<1>5. OpInv /\ RecordInv /\ LogInv /\ SettleInv /\ DrainSeesAdmissions
  BY <1>1 DEF OpInv, Steps, Writing, NoOp, RecordInv, LogInv, LogReachesManifest, SettleInv, DrainSeesAdmissions
<1> QED BY <1>2, <1>3, <1>4, <1>5 DEF StoreInv

LEMMA StoreNext == StoreInv /\ [Next]_vars => StoreInv'
<1> SUFFICES ASSUME StoreInv, [Next]_vars PROVE StoreInv'
  OBVIOUS
<1>1. CASE \E k \in Keys \cup Threads : Create(k)
  BY <1>1, CreateStep
<1>2. CASE \E j \in Live : Operate(j)
  BY <1>2, OperationBegins, BeginsStep, LineBeginsStep DEF StoreInv
<1>3. CASE Proceed
  BY <1>3, LineStep, EventStep, ReplacesIs, ReplacesStep, PublishStep, LoadStep, SettleStep, FreedStep DEF Proceed
<1>4. CASE OperationFails \/ BeginSelfReload \/ EndSelfReload
  BY <1>4, FreedStep
<1>5. CASE StartFails \/ Crash
  <2>1. Forgets
    BY <1>5 DEF StartFails, Crash, Forgets, client, memory, ghost
  <2> QED BY <2>1, ForgetsStep
<1>6. CASE ReadEvents \/ Reply
  BY <1>6, ReadStep
<1>7. CASE UNCHANGED vars
  <2>1. UNCHANGED <<disk, memory, pc, op, ghost>>
    BY <1>7 DEF vars
  <2>2. /\ DiskOK' /\ EmptyDirs' /\ Readable' = Readable /\ LogReachesManifest' /\ Live' = Live
        /\ MemoryOK' /\ CountersOK' /\ KeyInv' /\ AnsweredSurvives'
    BY <1>7, HolderFrame DEF vars, memory, ghost, StoreInv, MemoryOK
  <2>3. OpInv' /\ RecordInv' /\ LogInv' /\ SettleInv' /\ DrainSeesAdmissions'
    BY <2>1, <2>2 DEF StoreInv, OpInv, RecordInv, LogInv, SettleInv, DrainSeesAdmissions, Written, disk, memory
  <2> QED BY <2>2, <2>3 DEF StoreInv
<1> QED BY <1>1, <1>2, <1>3, <1>4, <1>5, <1>6, <1>7 DEF Next

(* In every reachable state the invariant of the store holds *)
THEOREM StoreIsSound == Spec => []StoreInv
<1> QED BY StoreInitially, StoreNext, PTL DEF Spec

-----------------------------------------------------------------------------
(* What the invariant of the store says *)

(* What an operation answered is on disk, and no restart, failed write or   *)
(* later operation takes it back: mutateUnlocked writes the manifest before *)
(* it answers, and initialize only replaces it with a later record.         *)
THEOREM AnsweredSurvivesAlways == Spec => []AnsweredSurvives
<1>1. StoreInv => AnsweredSurvives
  BY DEF StoreInv
<1> QED BY <1>1, StoreIsSound, PTL

(* A work package's key, or an imported thread, gets a job once, however    *)
(* often create is repeated and the process ends in between.                *)
THEOREM KeyDispatchedOnceAlways == Spec => []KeyDispatchedOnce
<1>1. StoreInv => KeyDispatchedOnce
  BY DEF StoreInv, KeyInv, KeyDispatchedOnce, CountersOK
<1> QED BY <1>1, StoreIsSound, PTL

(* The manifest never counts an event that the log does not have.           *)
THEOREM LogReachesManifestAlways == Spec => []LogReachesManifest
<1>1. StoreInv => LogReachesManifest
  BY DEF StoreInv, LogInv
<1> QED BY <1>1, StoreIsSound, PTL

(* While the drain of a self reload holds the lease, no admission is under  *)
(* way that the map of the jobs does not show yet.                          *)
THEOREM DrainSeesAdmissionsAlways == Spec => []DrainSeesAdmissions
<1>1. StoreInv => DrainSeesAdmissions
  BY DEF StoreInv
<1> QED BY <1>1, StoreIsSound, PTL

(* When start-up opens the store, every job is terminal, waits for no       *)
(* approval, and is on disk as it is in memory.                             *)
THEOREM RestartSettlesAlways == Spec => RestartSettles
<1>1. ASSUME StoreInv, [Next]_vars, pc = "settle", pc' = "free"
      PROVE  \A j \in Live : jobs[j].status \in Terminal /\ jobs[j].waiting = 0 /\ manifest[j] = jobs[j]
  <2>1. Unsettled = {}
    <3>1. Next
      BY <1>1 DEF vars
    <3>2. ASSUME NEW j \in Live PROVE ~ Operate(j)
      BY <1>1 DEF Operate, PrepareTurn, AddApproval, ResolveApproval, RecordEvent, Transition, SetTurn,
                  AppendUserMessage, Complete, Free
    <3>3. ~ Proceed \/ Unsettled = {}
      BY <1>1 DEF Proceed, AppendLine, AppendEvent, WriteManifest, WriteArtifacts, Load, Settle,
                  SettleEvent, SettleManifest, Open
    <3>4. /\ ~ OperationFails /\ ~ StartFails /\ ~ BeginSelfReload /\ ~ EndSelfReload /\ ~ Crash
          /\ \A k \in Keys \cup Threads : ~ Create(k)
      BY <1>1 DEF OperationFails, StartFails, BeginSelfReload, EndSelfReload, Crash, Create, Free
    <3>5. ~ ReadEvents /\ ~ Reply
      BY <1>1 DEF ReadEvents, Reply
    <3> QED BY <3>1, <3>2, <3>3, <3>4, <3>5 DEF Next
  <2> TAKE j \in Live
  <2>2. jobs[j] \in Record /\ j \notin Unsettled
    BY <1>1, <2>1 DEF StoreInv, MemoryOK
  <2>3. jobs[j].status \in Active \cup Terminal /\ jobs[j].waiting \in Nat
    BY <2>2 DEF Record
  <2>4. manifest[j] = jobs[j]
    BY <1>1 DEF StoreInv, SettleInv
  <2> QED BY <2>2, <2>3, <2>4 DEF Unsettled
<1>2. StoreInv /\ [Next]_vars =>
        [pc = "settle" /\ pc' = "free" =>
           \A j \in Live : /\ jobs[j].status \in Terminal /\ jobs[j].waiting = 0
                           /\ manifest[j] = jobs[j]]_vars
  BY <1>1
<1> QED BY <1>2, StoreIsSound, PTL DEF Spec, RestartSettles

-----------------------------------------------------------------------------
(* A retried message is accepted once *)

LEMMA MessageFrame ==
  ASSUME StoreInv, StoreInv', MessageInv, UNCHANGED <<made, messages, ids, accepted>>,
         pc' \in {"event", "manifest", "artifacts"} /\ op'.kind = "message" =>
           op' = op /\ pc \in {"event", "manifest", "artifacts"}
  PROVE  MessageInv'
<1>1. Live' = Live
  BY DEF StoreInv, MemoryOK
<1> QED BY <1>1 DEF MessageInv, Made

LEMMA CreateKeepsMessages ==
  ASSUME StoreInv, StoreInv', MessageInv, NEW k \in Keys \cup Threads, Create(k)
  PROVE  MessageInv'
<1>1. PICK n \in Dirs \ Made : n = made + 1 /\ Made' = Made \cup {n}
  <2>1. made \in Nat /\ MaxJobs \in Nat /\ made < MaxJobs /\ made' = made + 1
    BY JobLedgerAssumption DEF StoreInv, DiskOK, Create
  <2>2. Made' = Made \cup {made + 1}
    BY <2>1, NextInterval DEF Made
  <2> QED BY <2>1, <2>2 DEF Dirs, Made
<1>2. /\ messages'[n] \in {<<Initial>>, <<>>} /\ \A j \in Dirs : j # n => messages'[j] = messages[j]
      /\ messages[n] = <<>>
  BY <1>1 DEF Create, StoreInv, DiskOK, EmptyDirs
<1>3. /\ UNCHANGED <<ids, accepted>> /\ Live' = Live /\ Live \subseteq Made /\ Made \subseteq Dirs
      /\ pc' = "manifest" /\ op'.kind = "create" /\ n \notin Live
  BY <1>1, MadeAreDirs DEF Create, memory, ghost, StoreInv, MemoryOK, Live
<1>4. \A h, i \in DOMAIN messages'[n] : h = i
  BY <1>2, NoDomain
<1>5. \A m \in Messages : accepted[<<n, m>>] = 0
  <2>1. Elements(messages[n]) = {}
    BY <1>2, NoDomain DEF Elements
  <2> TAKE m \in Messages
  <2>2. <<n, m>> \in Dirs \X Messages /\ <<n, m>>[1] = n /\ accepted[<<n, m>>] \in Nat
    BY <1>1 DEF StoreInv, CountersOK
  <2>3. accepted[<<n, m>>] > 0 => User(<<n, m>>[2]) \in Elements(messages[<<n, m>>[1]])
    BY <2>2 DEF MessageInv
  <2> QED BY <2>1, <2>2, <2>3
<1>6. \A j \in Live' : ids'[j] = Elements(messages'[j])
  BY <1>2, <1>3 DEF MessageInv
<1>7. \A j \in Made' : \A h, i \in DOMAIN messages'[j] : messages'[j][h] = messages'[j][i] => h = i
  BY <1>1, <1>2, <1>3, <1>4 DEF MessageInv
<1>8. ASSUME NEW jm \in Dirs \X Messages
      PROVE  accepted'[jm] <= 1 /\ (accepted'[jm] > 0 => User(jm[2]) \in Elements(messages'[jm[1]]))
  <2>1. CASE jm[1] = n
    <3>1. jm = <<n, jm[2]>> /\ jm[2] \in Messages
      BY <2>1
    <3> QED BY <1>3, <1>5, <3>1
  <2>2. CASE jm[1] # n
    BY <1>2, <1>3, <2>2 DEF MessageInv
  <2> QED BY <2>1, <2>2
<1> QED BY <1>3, <1>6, <1>7, <1>8 DEF MessageInv

LEMMA LineKeepsMessages ==
  ASSUME StoreInv, StoreInv', MessageInv, AppendLine
  PROVE  MessageInv'
<1>1. /\ pc = "line" /\ pc' = "event" /\ UNCHANGED <<made, op, accepted>>
      /\ messages' = [messages EXCEPT ![op.job] = Append(@, op.line)]
      /\ ids' = [ids EXCEPT ![op.job] = @ \cup {op.line}]
  BY DEF AppendLine, ghost
<1>2. /\ op.job \in Live /\ op.line \in Line \ ids[op.job]
      /\ op.kind = "message" => op.line \in {"user"} \X Messages
  BY <1>1 DEF StoreInv, OpInv
<1>3. PICK j \in Live : j = op.job
  BY <1>2
<1>4. PICK line \in Line : line = op.line
  BY <1>2
<1>5. j \in Made /\ j \in Dirs /\ messages[j] \in Seq(Line) /\ Live \subseteq Made /\ Made \subseteq Dirs
  BY MadeAreDirs DEF StoreInv, MemoryOK, DiskOK
<1>6. /\ messages'[j] = Append(messages[j], line) /\ \A i \in Dirs : i # j => messages'[i] = messages[i]
      /\ ids'[j] = ids[j] \cup {line} /\ \A i \in Live : i # j => ids'[i] = ids[i]
      /\ Live' = Live
  BY <1>1, <1>3, <1>4, <1>5 DEF StoreInv, MemoryOK, DiskOK
<1>7. /\ DOMAIN messages'[j] = DOMAIN messages[j] \cup {Len(messages[j]) + 1}
      /\ \A i \in DOMAIN messages[j] : messages'[j][i] = messages[j][i]
      /\ messages'[j][Len(messages[j]) + 1] = line
      /\ Elements(messages'[j]) = Elements(messages[j]) \cup {line}
  BY <1>5, <1>6, Appended
<1>8. line \notin Elements(messages[j])
  BY <1>2, <1>3, <1>4 DEF MessageInv
<1>9. \A i \in Live' : ids'[i] = Elements(messages'[i])
  BY <1>5, <1>6, <1>7 DEF MessageInv
<1>10. \A i \in Made' : \A g, h \in DOMAIN messages'[i] : messages'[i][g] = messages'[i][h] => g = h
  <2>1. \A g \in DOMAIN messages[j] : messages[j][g] # line
    BY <1>8 DEF Elements
  <2>2. \A g, h \in DOMAIN messages'[j] : messages'[j][g] = messages'[j][h] => g = h
    BY <1>5, <1>7, <2>1 DEF MessageInv
  <2> QED BY <1>1, <1>5, <1>6, <2>2 DEF MessageInv, Made
<1>11. \A i \in Dirs : Elements(messages[i]) \subseteq Elements(messages'[i])
  BY <1>6, <1>7
<1>12. \A jm \in Dirs \X Messages :
         accepted'[jm] <= 1 /\ (accepted'[jm] > 0 => User(jm[2]) \in Elements(messages'[jm[1]]))
  BY <1>1, <1>11 DEF MessageInv
<1>13. op.kind = "message" => op.line \in Elements(messages'[j]) /\ accepted[<<j, op.line[2]>>] = 0
  <2> SUFFICES ASSUME op.kind = "message" PROVE accepted[<<j, line[2]>>] = 0
    BY <1>4, <1>7
  <2>1. PICK m \in Messages : line = User(m)
    BY <1>2, <1>4 DEF User
  <2>2. line[2] = m /\ <<j, m>> \in Dirs \X Messages /\ User(m) \notin Elements(messages[j])
    BY <1>5, <1>8, <2>1 DEF User
  <2> QED BY <2>2 DEF MessageInv, StoreInv, CountersOK
<1> QED BY <1>1, <1>3, <1>9, <1>10, <1>12, <1>13 DEF MessageInv

LEMMA PublishKeepsMessages ==
  ASSUME StoreInv, StoreInv', MessageInv, WriteManifest, op.kind = "create"
  PROVE  MessageInv'
<1>1. /\ pc' = "free" /\ UNCHANGED <<made, messages, accepted>>
      /\ ids' = [y \in DOMAIN ids \cup {op.job} |-> IF y = op.job THEN Elements(messages[op.job]) ELSE ids[y]]
  BY DEF WriteManifest, Put
<1>2. DOMAIN ids = Live /\ DOMAIN ids' = Live'
  BY DEF StoreInv, MemoryOK
<1>3. \A j \in Live' : ids'[j] = Elements(messages[j])
  BY <1>1, <1>2 DEF MessageInv
<1> QED BY <1>1, <1>3 DEF MessageInv, Made

LEMMA ArtifactsKeepMessages ==
  ASSUME StoreInv, StoreInv', MessageInv, WriteArtifacts
  PROVE  MessageInv'
<1>1. /\ pc = "artifacts" /\ pc' = "free" /\ UNCHANGED <<made, messages, ids>>
      /\ accepted' = [accepted EXCEPT ![<<op.job, op.line[2]>>] = @ + 1]
  BY DEF WriteArtifacts, memory
<1>2. op.kind = "message" /\ op.line \in {"user"} \X Messages /\ op.job \in Live
  BY <1>1 DEF StoreInv, OpInv, Writing
<1>3. PICK j \in Dirs, m \in Messages : j = op.job /\ op.line = User(m) /\ op.line[2] = m
  BY <1>2, MadeAreDirs DEF StoreInv, MemoryOK, User
<1>4. User(m) \in Elements(messages[j]) /\ accepted[<<j, m>>] = 0
  BY <1>1, <1>2, <1>3 DEF MessageInv
<1>5. /\ accepted'[<<j, m>>] = 1
      /\ \A jm \in Dirs \X Messages : jm # <<j, m>> => accepted'[jm] = accepted[jm]
  BY <1>1, <1>3, <1>4 DEF StoreInv, CountersOK
<1>6. ASSUME NEW jm \in Dirs \X Messages
      PROVE  accepted'[jm] <= 1 /\ (accepted'[jm] > 0 => User(jm[2]) \in Elements(messages[jm[1]]))
  <2>1. CASE jm = <<j, m>>
    BY <1>4, <1>5, <2>1
  <2>2. CASE jm # <<j, m>>
    BY <1>5, <2>2 DEF MessageInv
  <2> QED BY <2>1, <2>2
<1>7. Live' = Live
  BY <1>1 DEF StoreInv, MemoryOK
<1> QED BY <1>1, <1>6, <1>7 DEF MessageInv, Made

LEMMA LoadKeepsMessages ==
  ASSUME StoreInv, StoreInv', MessageInv, FitsWindow, Load
  PROVE  MessageInv'
<1>1. /\ pc' = "settle" /\ UNCHANGED <<made, messages, accepted>>
      /\ ids' = [j \in Readable |-> Elements(Last(messages[j], Window))]
  BY DEF Load, disk, ghost
<1>2. ASSUME NEW j \in Live' PROVE ids'[j] = Elements(messages[j])
  <2>1. j \in Readable
    BY <1>1, <1>2 DEF StoreInv, MemoryOK
  <2>2. messages[j] \in Seq(Line) /\ Len(messages[j]) <= Window
    BY <2>1, ReadableIs DEF StoreInv, DiskOK, FitsWindow
  <2>3. Last(messages[j], Window) = messages[j]
    BY <2>2, LastIsSame
  <2> QED BY <1>1, <2>1, <2>3
<1> QED BY <1>1, <1>2 DEF MessageInv, Made

LEMMA ForgetsKeepsMessages ==
  ASSUME StoreInv', MessageInv, Forgets
  PROVE  MessageInv'
<1>1. Live' = {} /\ pc' = "down" /\ UNCHANGED <<made, messages, accepted>>
  BY NoDomain DEF Forgets, Live, disk
<1> QED BY <1>1 DEF MessageInv, Made

LEMMA MessageNext ==
  ASSUME StoreInv, StoreInv', MessageInv, FitsWindow, [Next]_vars
  PROVE  MessageInv'
<1>1. CASE \E k \in Keys \cup Threads : Create(k)
  BY <1>1, CreateKeepsMessages
<1>2. CASE \E j \in Live : Operate(j)
  <2>1. PICK j \in Live, new \in Record : Begins(j, new) \/ LineBegins(j, new)
    BY <1>2, OperationBegins DEF StoreInv
  <2> QED BY <2>1, MessageFrame DEF Begins, LineBegins, disk, memory, ghost
<1>3. CASE Settle \/ SettleEvent \/ SettleManifest \/ Open \/ AppendEvent
  BY <1>3, MessageFrame DEF Settle, SettleEvent, SettleManifest, Open, AppendEvent, disk, memory, ghost
<1>4. CASE WriteManifest
  <2>1. CASE op.kind # "create"
    BY <1>4, <2>1, MessageFrame DEF WriteManifest, NoOp
  <2> QED BY <1>4, <2>1, PublishKeepsMessages
<1>5. CASE AppendLine \/ WriteArtifacts \/ Load
  BY <1>5, LineKeepsMessages, ArtifactsKeepMessages, LoadKeepsMessages
<1>6. CASE StartFails \/ Crash
  <2>1. Forgets
    BY <1>6 DEF StartFails, Crash, Forgets, client, memory, ghost
  <2> QED BY <2>1, ForgetsKeepsMessages
<1>7. CASE OperationFails \/ BeginSelfReload \/ EndSelfReload \/ ReadEvents \/ Reply
  BY <1>7, MessageFrame DEF OperationFails, BeginSelfReload, EndSelfReload, ReadEvents, Reply,
                            disk, memory, ghost
<1>8. CASE UNCHANGED vars
  BY <1>8, MessageFrame DEF vars, disk, memory, ghost
<1> QED BY <1>1, <1>2, <1>3, <1>4, <1>5, <1>6, <1>7, <1>8 DEF Next, Proceed

LEMMA MessageInitially == Init => MessageInv
<1> SUFFICES ASSUME Init PROVE MessageInv
  OBVIOUS
<1>1. Live = {} /\ Made = {}
  BY NoDomain DEF Init, Live, Made
<1> QED BY <1>1 DEF Init, MessageInv

(* As long as no job has more messages than start-up reads back (200), every *)
(* client message id in memory is that of a line, and the reverse: a retried *)
(* message is accepted once, a retried creation makes no second job, over    *)
(* restarts, failed writes and crashes between the writes.                   *)
THEOREM RetriesAreHarmlessAlways == Spec /\ []FitsWindow => []RetriesAreHarmless
<1>1. MessageInv /\ StoreInv => RetriesAreHarmless
  BY DEF MessageInv, StoreInv, KeyInv, CountersOK, RetriesAreHarmless, KeyDispatchedOnce, MessageAcceptedOnce
<1>2. StoreInv /\ StoreInv' /\ MessageInv /\ FitsWindow /\ [Next]_vars => MessageInv'
  BY MessageNext
<1> QED BY <1>1, <1>2, MessageInitially, StoreIsSound, PTL DEF Spec

(* Under the same condition messages.jsonl has each id on one line, and one *)
(* for every message that was accepted.                                     *)
THEOREM MessagesKeptAlways == Spec /\ []FitsWindow => []MessagesKept
<1>1. MessageInv /\ StoreInv => MessagesKept
  BY DEF MessageInv, StoreInv, CountersOK, MessagesKept
<1>2. StoreInv /\ StoreInv' /\ MessageInv /\ FitsWindow /\ [Next]_vars => MessageInv'
  BY MessageNext
<1> QED BY <1>1, <1>2, MessageInitially, StoreIsSound, PTL DEF Spec

-----------------------------------------------------------------------------
(* What a client was given *)

LEMMA HasLast ==
  ASSUME NEW n \in Nat, NEW S, S \subseteq 1 .. n, S # {}
  PROVE  \E m \in S : \A i \in S : i <= m
<1> DEFINE less == OpToRel(<, Nat)
           gaps == {n - i : i \in S}
<1>1. IsWellFoundedOn(less, Nat)
  BY NatLessThanWellFounded
<1>2. \A x, y \in Nat : x < y => <<x, y>> \in less
  BY DEF OpToRel
<1> HIDE DEF less
<1>3. gaps \subseteq Nat /\ gaps # {}
  <2>1. \A i \in S : n - i \in Nat
    OBVIOUS
  <2>2. \A g \in gaps : g \in Nat
    BY <2>1
  <2> QED BY <2>2
<1>4. PICK g \in gaps : \A h \in gaps : ~ (<<h, g>> \in less)
  <2> HIDE DEF gaps
  <2> QED BY <1>1, <1>3, WFMin
<1>5. PICK m \in S : g = n - m
  BY <1>4
<1>6. \A i \in S : ~ (n - i < g)
  BY <1>2, <1>3, <1>4
<1>7. \A i \in S : i \in Nat /\ m \in Nat
  OBVIOUS
<1> QED BY <1>5, <1>6, <1>7

(* A line before one of the first lines is one of them *)
LEMMA FirstAreFirst ==
  ASSUME NEW n \in Nat, NEW S, S \subseteq 1 .. n, NEW i \in FirstLines(S), NEW h \in S, h < i
  PROVE  h \in FirstLines(S)
<1> DEFINE Before(x) == {g \in S : g < x}
<1>1. i \in S /\ Cardinality(Before(i)) < Page
  BY DEF FirstLines
<1>2. Before(h) \subseteq Before(i) /\ Before(i) \subseteq 1 .. n
  <2>1. \A g \in S : g \in Nat
    OBVIOUS
  <2>2. \A g \in S : g < h => g < i
    BY <1>1, <2>1
  <2> QED BY <2>2
<1>3. IsFiniteSet(1 .. n)
  BY FS_Interval
<1>4. IsFiniteSet(Before(i))
  BY <1>2, <1>3, FS_Subset
<1> HIDE DEF Before
<1>5. IsFiniteSet(Before(h)) /\ Cardinality(Before(h)) <= Cardinality(Before(i))
  BY <1>2, <1>4, FS_Subset
<1>6. Cardinality(Before(h)) \in Nat /\ Cardinality(Before(i)) \in Nat
  BY <1>4, <1>5, FS_CardinalityType
<1>7. Cardinality(Before(h)) < Page
  BY <1>1, <1>5, <1>6, JobLedgerAssumption
<1> QED BY <1>7 DEF FirstLines, Before

(* The log of the job that is followed keeps its lines and gets later ones  *)
LogGrows ==
  /\ DOMAIN Log \subseteq DOMAIN Log' /\ \A i \in DOMAIN Log : Log'[i] = Log[i]
  /\ \A i \in DOMAIN Log' \ DOMAIN Log : Log'[i] > 0 /\ \A h \in DOMAIN Log : h < i

LEMMA LogIs ==
  ASSUME DiskOK, ClientOK
  PROVE  /\ Log \in Seq(Nat \ {0}) /\ DOMAIN Log = 1 .. Len(Log) /\ Len(Log) \in Nat
         /\ \A i \in DOMAIN Log : i \in Nat /\ i # 0 /\ Log[i] \in Nat \ {0}
<1>1. Log \in Seq(Nat \ {0})
  BY DEF Log, DiskOK, ClientOK
<1> QED BY <1>1

LEMMA LogSame ==
  ASSUME UNCHANGED <<events, watched>>
  PROVE  LogGrows
BY DEF LogGrows, Log

LEMMA LogAppended ==
  ASSUME DiskOK, ClientOK, watched' = watched, NEW j \in Dirs, NEW seq \in Nat \ {0},
         events' = [events EXCEPT ![j] = Append(@, seq)]
  PROVE  LogGrows
<1>1. CASE watched # j
  <2>1. Log' = Log
    BY <1>1 DEF Log, DiskOK, ClientOK
  <2> QED BY <2>1 DEF LogGrows
<1>2. CASE watched = j
  <2>1. Log' = Append(Log, seq)
    BY <1>2 DEF Log, DiskOK, ClientOK
  <2>2. /\ DOMAIN Log' = DOMAIN Log \cup {Len(Log) + 1} /\ \A i \in DOMAIN Log : Log'[i] = Log[i]
        /\ Log'[Len(Log) + 1] = seq
    BY <2>1, LogIs, Appended
  <2>3. \A h \in DOMAIN Log : h < Len(Log) + 1
    BY LogIs
  <2> QED BY <2>2, <2>3 DEF LogGrows
<1> QED BY <1>1, <1>2

LEMMA LogCreated ==
  ASSUME StoreInv, ClientOK, NEW k \in Keys \cup Threads, Create(k)
  PROVE  LogGrows
<1>1. PICK n \in Dirs \ Made : n = made + 1
  BY JobLedgerAssumption DEF StoreInv, DiskOK, Create, Dirs, Made
<1>2. events[n] = <<>> /\ events'[n] = <<1>> /\ watched' = watched
  BY <1>1 DEF Create, StoreInv, DiskOK, EmptyDirs, client
<1>3. CASE watched # n
  <2>1. Log' = Log
    BY <1>1, <1>2, <1>3 DEF Create, Log, StoreInv, DiskOK, ClientOK
  <2> QED BY <2>1 DEF LogGrows
<1>4. CASE watched = n
  <2>1. Log = <<>> /\ Log' = <<1>>
    BY <1>2, <1>4 DEF Log
  <2>2. DOMAIN Log = {} /\ \A i \in DOMAIN Log' : Log'[i] > 0
    BY <2>1, NoDomain
  <2> QED BY <2>2 DEF LogGrows
<1> QED BY <1>3, <1>4

(* Whatever is appended while nothing is asked for leaves the client right  *)
LEMMA ClientFrame ==
  ASSUME StoreInv, StoreInv', ClientInv, LogGrows, UNCHANGED <<watched, cursor, got, more>>,
         poll' = NoPoll \/ (poll' = poll /\ (poll # NoPoll => pc' \in Served /\ watched \in Live'))
  PROVE  ClientInv'
<1>1. ClientOK' /\ ClientOK
  BY DEF ClientInv, ClientOK
<1>2. /\ \A i \in DOMAIN Log : i \in Nat /\ Log[i] \in Nat \ {0}
      /\ \A i \in DOMAIN Log' : i \in Nat /\ Log'[i] \in Nat \ {0}
  <2>1. \A i \in DOMAIN Log : i \in Nat /\ Log[i] \in Nat \ {0}
    BY <1>1, LogIs DEF StoreInv
  <2>2. Log' \in Seq(Nat \ {0})
    BY <1>1 DEF StoreInv, DiskOK, ClientOK, Log
  <2>3. \A i \in DOMAIN Log' : i \in Nat /\ Log'[i] \in Nat \ {0}
    BY <2>2
  <2> QED BY <2>1, <2>3
<1>3. cursor \in Nat /\ cursor' = cursor /\ got' = got
  BY <1>1 DEF ClientOK
<1>4. got \subseteq DOMAIN Log'
  BY DEF ClientInv, LogGrows
<1>5. cursor = 0 \/ cursor \in Elements(Log')
  BY DEF ClientInv, LogGrows, Elements
<1>6. ASSUME Increasing' PROVE got = {i \in DOMAIN Log' : Log'[i] <= cursor}
  <2>1. Increasing
    BY <1>6 DEF Increasing, LogGrows
  <2>2. got = {i \in DOMAIN Log : Log[i] <= cursor}
    BY <2>1 DEF ClientInv
  <2>3. ASSUME NEW i \in DOMAIN Log' \ DOMAIN Log PROVE ~ (Log'[i] <= cursor)
    <3>1. CASE cursor = 0
      BY <1>2, <3>1
    <3>2. CASE cursor # 0
      <4>1. PICK h \in DOMAIN Log : cursor = Log[h]
        BY <3>2 DEF ClientInv, Elements
      <4>2. h \in DOMAIN Log' /\ h < i /\ Log'[h] = Log[h]
        BY DEF LogGrows
      <4> QED BY <1>2, <1>6, <4>1, <4>2 DEF Increasing
    <3> QED BY <3>1, <3>2
  <2> QED BY <2>2, <2>3 DEF LogGrows
<1>7. ASSUME poll' # NoPoll
      PROVE  /\ pc' \in Served /\ watched' \in Live' /\ poll' \subseteq DOMAIN Log'
             /\ \A i \in poll' : Log'[i] > cursor' /\ \A h \in DOMAIN Log' : h < i /\ Log'[h] > cursor' => h \in poll'
  <2>1. /\ poll' = poll /\ poll # NoPoll /\ poll \subseteq DOMAIN Log /\ pc' \in Served /\ watched' \in Live'
        /\ \A i \in poll : Log[i] > cursor /\ \A h \in DOMAIN Log : h < i /\ Log[h] > cursor => h \in poll
    BY <1>7 DEF ClientInv
  <2>2. ASSUME NEW i \in poll, NEW h \in DOMAIN Log', h < i PROVE h \in DOMAIN Log
    <3>1. i \in DOMAIN Log
      BY <2>1
    <3>2. h \in DOMAIN Log \/ i < h
      BY <3>1 DEF LogGrows
    <3>3. i \in Nat /\ h \in Nat
      BY <1>2, <3>1
    <3> QED BY <2>2, <3>2, <3>3
  <2> QED BY <1>3, <2>1, <2>2 DEF LogGrows
<1> QED BY <1>1, <1>3, <1>4, <1>5, <1>6, <1>7 DEF ClientInv

LEMMA ReadKeepsClient ==
  ASSUME StoreInv, ClientInv, ReadEvents
  PROVE  ClientInv'
<1>1. /\ Serving /\ watched \in Live /\ poll' = FirstLines(LinesAfterCursor)
      /\ UNCHANGED <<events, jobs, pc, watched, cursor, got, more>>
  BY DEF ReadEvents, disk, memory
<1>2. Log' = Log /\ Live' = Live /\ ClientOK' /\ ClientOK /\ (Increasing' <=> Increasing)
  BY <1>1 DEF Log, Live, ClientInv, ClientOK, Increasing
<1>3. LinesAfterCursor \subseteq 1 .. Len(Log) /\ Len(Log) \in Nat /\ DOMAIN Log = 1 .. Len(Log)
  BY <1>2, LogIs DEF StoreInv, LinesAfterCursor
<1>4. pc \in Served
  BY <1>1 DEF StoreInv, OpInv, Steps, Serving, Served
<1>5. poll' \subseteq LinesAfterCursor
  BY <1>1 DEF FirstLines
<1>6. ASSUME NEW i \in poll'
      PROVE  Log[i] > cursor /\ \A h \in DOMAIN Log : h < i /\ Log[h] > cursor => h \in poll'
  <2>1. Log[i] > cursor
    BY <1>5 DEF LinesAfterCursor
  <2>2. ASSUME NEW h \in DOMAIN Log, h < i, Log[h] > cursor PROVE h \in poll'
    <3>1. h \in LinesAfterCursor
      BY <2>2 DEF LinesAfterCursor
    <3>2. i \in FirstLines(LinesAfterCursor)
      BY <1>1
    <3>3. h \in FirstLines(LinesAfterCursor)
      BY <1>3, <2>2, <3>1, <3>2, FirstAreFirst
    <3> QED BY <1>1, <3>3
  <2> QED BY <2>1, <2>2
<1>7. poll' \subseteq DOMAIN Log
  BY <1>5 DEF LinesAfterCursor
<1> QED BY <1>1, <1>2, <1>4, <1>6, <1>7 DEF ClientInv

LEMMA ReplyKeepsClient ==
  ASSUME StoreInv, ClientInv, Reply
  PROVE  /\ ClientInv' /\ watched \in Live /\ Log' = Log
         /\ cursor' \in Nat /\ more' = (cursor' < jobs[watched].seq)
<1>1. /\ poll # NoPoll /\ poll' = NoPoll /\ cursor' = NextEventSeq /\ got' = got \cup poll
      /\ more' = (NextEventSeq < jobs[watched].seq) /\ UNCHANGED <<events, jobs, pc, watched>>
  BY DEF Reply, disk, memory
<1>2. Log' = Log /\ (Increasing' <=> Increasing) /\ ClientOK
  BY <1>1 DEF Log, Increasing, ClientInv
<1>3. /\ watched \in Live /\ poll \subseteq DOMAIN Log
      /\ \A i \in poll : Log[i] > cursor /\ \A h \in DOMAIN Log : h < i /\ Log[h] > cursor => h \in poll
  BY <1>1 DEF ClientInv
<1>4. /\ DOMAIN Log = 1 .. Len(Log) /\ Len(Log) \in Nat /\ cursor \in Nat /\ got \subseteq DOMAIN Log
      /\ \A i \in DOMAIN Log : i \in Nat /\ Log[i] \in Nat \ {0}
  BY <1>2, LogIs DEF StoreInv, ClientInv, ClientOK
<1>5. /\ cursor' \in Nat /\ (cursor' = 0 \/ cursor' \in Elements(Log))
      /\ Increasing => got' = {i \in DOMAIN Log : Log[i] <= cursor'}
  <2>1. CASE poll = {}
    BY <1>1, <1>4, <2>1 DEF NextEventSeq, ClientInv
  <2>2. CASE poll # {}
    <3>1. \E m \in poll : \A h \in poll : h <= m
      BY <1>3, <1>4, <2>2, HasLast
    <3> DEFINE m == CHOOSE i \in poll : \A h \in poll : h <= i
    <3>2. m \in poll /\ \A h \in poll : h <= m
      BY <3>1
    <3>3. cursor' = Log[m]
      BY <1>1, <2>2 DEF NextEventSeq
    <3> HIDE DEF m
    <3>4. m \in DOMAIN Log /\ m \in Nat /\ Log[m] \in Nat /\ Log[m] > cursor
      BY <1>3, <1>4, <3>2
    <3>5. ASSUME Increasing, NEW i \in DOMAIN Log PROVE i \in got \cup poll <=> Log[i] <= Log[m]
      <4>1. got = {l \in DOMAIN Log : Log[l] <= cursor}
        BY <3>5 DEF ClientInv
      <4>2. i \in Nat /\ Log[i] \in Nat
        BY <1>4
      <4>3. i < m => Log[i] < Log[m]
        BY <3>4, <3>5 DEF Increasing
      <4>4. m < i => Log[m] < Log[i]
        BY <3>4, <3>5 DEF Increasing
      <4>5. i \in got => Log[i] <= Log[m]
        BY <1>4, <3>4, <4>1, <4>2
      <4>6. i \in poll => Log[i] <= Log[m]
        <5>1. i \in poll => i = m \/ i < m
          BY <3>2, <3>4, <4>2
        <5> QED BY <3>4, <4>2, <4>3, <5>1
      <4>7. ASSUME Log[i] <= Log[m], i \notin got PROVE i \in poll
        <5>1. Log[i] > cursor
          BY <1>4, <4>1, <4>2, <4>7
        <5>2. i = m \/ i < m
          BY <3>4, <4>2, <4>4, <4>7
        <5> QED BY <1>3, <3>2, <5>1, <5>2
      <4> QED BY <4>5, <4>6, <4>7
    <3>6. Log[m] \in Elements(Log)
      BY <3>4 DEF Elements
    <3> QED BY <1>1, <1>3, <1>4, <3>3, <3>4, <3>5, <3>6
  <2> QED BY <2>1, <2>2
<1>6. ClientOK' /\ got' \subseteq DOMAIN Log
  BY <1>1, <1>2, <1>3, <1>4, <1>5 DEF ClientOK
<1> QED BY <1>1, <1>2, <1>3, <1>5, <1>6 DEF ClientInv

LEMMA ClientNext ==
  ASSUME StoreInv, StoreInv', ClientInv, [Next]_vars
  PROVE  ClientInv'
<1>1. ClientOK
  BY DEF ClientInv
<1>2. ASSUME NEW k \in Keys \cup Threads, Create(k) PROVE ClientInv'
  <2>1. LogGrows
    BY <1>1, <1>2, LogCreated
  <2>2. UNCHANGED <<watched, cursor, got, more, poll, jobs>> /\ pc' = "manifest"
    BY <1>2 DEF Create, client, memory
  <2> QED BY <2>1, <2>2, ClientFrame DEF ClientInv, Served, Live
<1>3. ASSUME NEW j \in Live, Operate(j) PROVE ClientInv'
  <2>1. PICK new \in Record : new.key = jobs[j].key /\ (Begins(j, new) \/ LineBegins(j, new))
    BY <1>3, OperationBegins DEF StoreInv
  <2>2. UNCHANGED <<events, watched, cursor, got, more, poll>>
    BY <2>1 DEF Begins, LineBegins, disk, client
  <2>3. Live' = Live
    BY <2>1, ChangeIs DEF Begins, LineBegins, memory, Live, StoreInv
  <2>4. pc = "free" => pc' \in Served
    BY <2>1 DEF Begins, LineBegins, Served
  <2>5. pc \in Served => pc = "free"
    BY <2>1 DEF Begins, LineBegins, Served
  <2> QED BY <2>2, <2>3, <2>4, <2>5, LogSame, ClientFrame DEF ClientInv
<1>4. CASE AppendEvent \/ SettleEvent
  <2>1. /\ UNCHANGED <<watched, cursor, got, more, poll, jobs>> /\ op.job \in Live
        /\ events' = [events EXCEPT ![op.job] = Append(@, jobs[op.job].seq)]
        /\ pc \in Served => pc' \in Served
    BY <1>4 DEF AppendEvent, SettleEvent, client, memory, Served, StoreInv, OpInv, Writing
  <2>2. PICK j \in Live : j = op.job
    BY <2>1
  <2>3. j \in Dirs /\ jobs[j].seq \in Nat \ {0}
    BY MadeAreDirs DEF StoreInv, MemoryOK, Record
  <2>4. LogGrows
    BY <1>1, <2>1, <2>2, <2>3, LogAppended DEF StoreInv
  <2> QED BY <2>1, <2>4, ClientFrame DEF ClientInv, Live
<1>5. CASE AppendLine \/ WriteManifest \/ WriteArtifacts \/ OperationFails \/ BeginSelfReload \/ EndSelfReload
  <2>1. UNCHANGED <<events, watched, cursor, got, more, poll>> /\ pc' \in Served
    BY <1>5 DEF AppendLine, WriteManifest, WriteArtifacts, OperationFails, BeginSelfReload, EndSelfReload,
                disk, client, Served, Free
  <2>2. Live \subseteq Live'
    BY <1>5 DEF AppendLine, WriteManifest, WriteArtifacts, OperationFails, BeginSelfReload, EndSelfReload,
                memory, Live, Change, Put
  <2> QED BY <2>1, <2>2, LogSame, ClientFrame DEF ClientInv
<1>6. CASE Load \/ Settle \/ SettleManifest \/ StartFails \/ Open
  <2>1. UNCHANGED <<events, watched, cursor, got, more, poll>> /\ pc \notin Served
    BY <1>6 DEF Load, Settle, SettleManifest, StartFails, Open, disk, client, Served
  <2> QED BY <2>1, LogSame, ClientFrame DEF ClientInv
<1>7. CASE Crash
  BY <1>7, LogSame, ClientFrame DEF Crash, disk
<1>8. CASE ReadEvents \/ Reply
  BY <1>8, ReadKeepsClient, ReplyKeepsClient
<1>9. CASE UNCHANGED vars
  <2>1. UNCHANGED <<events, watched, cursor, got, more, poll, jobs, pc>>
    BY <1>9 DEF vars, disk, client, memory
  <2> QED BY <2>1, LogSame, ClientFrame DEF ClientInv, Live
<1> QED BY <1>2, <1>3, <1>4, <1>5, <1>6, <1>7, <1>8, <1>9 DEF Next, Proceed

LEMMA ClientInitially == Init => ClientInv
<1> SUFFICES ASSUME Init PROVE ClientInv
  OBVIOUS
<1>1. Log = <<>>
  BY DEF Init, Log
<1>2. DOMAIN Log = {}
  BY <1>1, NoDomain
<1> QED BY <1>2 DEF Init, ClientInv, ClientOK

LEMMA ClientIsSound == Spec => []ClientInv
<1>1. StoreInv /\ StoreInv' /\ ClientInv /\ [Next]_vars => ClientInv'
  BY ClientNext
<1> QED BY <1>1, ClientInitially, StoreIsSound, PTL DEF Spec

(* The records, the files, the indexes and the client's answers have their types. *)
THEOREM TypeIsCorrect == Spec => []TypeOK
<1>1. StoreInv /\ ClientInv => TypeOK
  BY TypeIs DEF StoreInv, ClientInv
<1> QED BY <1>1, StoreIsSound, ClientIsSound, PTL

(* snapshot reads the log without the lock, in pages, while operations       *)
(* append to it: a client that is told there is no more has every line, as   *)
(* long as the numbers of the log are in order.                              *)
THEOREM CursorMissesNothingAlways == Spec => CursorMissesNothing
<1>1. ASSUME StoreInv, ClientInv, [Next]_vars, Answering, ~ more', InOrder
      PROVE  got' = DOMAIN Log
  <2>1. Reply
    <3>1. poll # NoPoll /\ poll' = NoPoll /\ pc' # "down" /\ poll' # poll
      BY <1>1 DEF Answering
    <3>2. Next /\ ~ UNCHANGED client
      BY <1>1, <3>1 DEF vars, client
    <3>3. \A k \in Keys \cup Threads : ~ Create(k)
      BY <3>2 DEF Create
    <3>4. ASSUME NEW j \in Live PROVE ~ Operate(j)
      BY <3>2 DEF Operate, PrepareTurn, AddApproval, ResolveApproval, RecordEvent, Transition, SetTurn,
                  Mutate, AppendUserMessage, Complete
    <3>5. ~ Proceed
      BY <3>2 DEF Proceed, AppendLine, AppendEvent, WriteManifest, WriteArtifacts, Load, Settle,
                  SettleEvent, SettleManifest, Open
    <3>6. ~ OperationFails /\ ~ StartFails /\ ~ BeginSelfReload /\ ~ EndSelfReload
      BY <3>2 DEF OperationFails, StartFails, BeginSelfReload, EndSelfReload
    <3>7. ~ ReadEvents /\ ~ Crash
      BY <3>1 DEF ReadEvents, Crash
    <3> QED BY <3>2, <3>3, <3>4, <3>5, <3>6, <3>7 DEF Next
  <2>2. /\ ClientInv' /\ watched \in Live /\ Log' = Log
        /\ cursor' \in Nat /\ more' = (cursor' < jobs[watched].seq)
    BY <1>1, <2>1, ReplyKeepsClient
  <2>3. jobs[watched].seq \in Nat
    BY <1>1, <2>2 DEF StoreInv, MemoryOK, Record
  <2>4. Increasing'
    BY <1>1, <2>2 DEF InOrder, Increasing
  <2>5. got' = {i \in DOMAIN Log : Log[i] <= cursor'}
    BY <2>2, <2>4 DEF ClientInv
  <2>6. \A i \in DOMAIN Log : Log[i] \in Nat
    BY <1>1, LogIs DEF StoreInv, ClientInv
  <2>7. \A i \in DOMAIN Log : Log[i] <= cursor'
    <3>1. ~ (cursor' < jobs[watched].seq)
      BY <1>1, <2>2, Zenon
    <3> QED BY <1>1, <2>2, <2>3, <2>6, <3>1 DEF InOrder
  <2> QED BY <2>5, <2>7
<1>2. StoreInv /\ ClientInv /\ [Next]_vars => [Answering /\ ~ more' /\ InOrder => got' = DOMAIN Log]_vars
  BY <1>1
<1> QED BY <1>2, StoreIsSound, ClientIsSound, PTL DEF Spec, CursorMissesNothing
=============================================================================
