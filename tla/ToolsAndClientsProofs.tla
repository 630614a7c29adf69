------------------------- MODULE ToolsAndClientsProofs -------------------------
(***************************************************************************)
(* Proofs of components that serve tool calls, or are clients of others.   *)
(*                                                                         *)
(* TaskIntake: company data comes into a job only as it was confirmed, for *)
(* any texts, chunks, messages, failing writes and restarts.               *)
(* PdfJobs: an answer is that of the job asked for, for any number of jobs *)
(* and of workers given up or broken.                                      *)
(* MobileSync: no record is entered twice, and one the phone shows as      *)
(* synced is entered, for any number of records, requests under way,       *)
(* tokens, lost answers and restarts.                                      *)
(* MarketDashboard: the poll does not die out, and only what was chosen is *)
(* adopted, for any groups and any number of versions.                     *)
(***************************************************************************)
EXTENDS TaskIntake, PdfJobs, MobileSync, MarketDashboard, TLAPS

(* The intake's inductive invariant: what is staged under the class        *)
(* "company" was confirmed, and the log is as it must be.                  *)

StoredRecords == [status : {"none", "open", "finalized"}, class : Classes, confirmed : BOOLEAN,
            received : SUBSET Chunks]
Contents == {"none", "whole", "torn"}
Files == [manifest : StoredRecords, chunk : [Chunks -> {"none", "right", "wrong", "torn"}], content : Contents]
Confirmed(record) == Authorized(record.class, record.confirmed)

StagedInv ==
  /\ bundles \in [Transfers -> StoredRecords] /\ staged \in [Transfers -> Files]
  /\ \A t \in Transfers : Confirmed(bundles[t]) /\ Confirmed(staged[t].manifest)

LoggedFiles == [text : Transfers, class : Classes, confirmed : BOOLEAN, content : Contents]
Messages ==
  [caller : {"app", "model"}, class : Classes, confirmed : BOOLEAN, files : SUBSET LoggedFiles]
WorkInv ==
  /\ work = [origin |-> work.origin, class |-> work.class, current |-> work.current,
             status |-> work.status]
  /\ messages = <<>> \/ work.status # "none"

(* A message that was confirmed as it had to be, with all its texts *)
IsAllowed(m) ==
  /\ m.class = "company" => m.caller = "app" /\ m.confirmed
  /\ \A f \in m.files : f.class = m.class /\ Authorized(f.class, f.confirmed) /\ f.content = "whole"

LogInv ==
  /\ messages \in Seq(Messages)
  /\ \A i \in DOMAIN messages : IsAllowed(messages[i])
  /\ \A i \in DOMAIN messages :
       messages[i].caller = "model" =>
         work.origin # "local" /\ \A k \in 1 .. i : messages[k].class # "company"

IntakeInv == StagedInv /\ WorkInv /\ LogInv

LEMMA IntakeInitially == IntakeInit => IntakeInv
<1> SUFFICES ASSUME IntakeInit PROVE IntakeInv
  OBVIOUS
<1> USE DEF IntakeInit, NothingStaged
<1>1. NoBundle \in StoredRecords /\ Confirmed(NoBundle)
  BY DEF NoBundle, StoredRecords, Classes, Confirmed, Authorized
<1>2. Empty \in [Chunks -> {"none", "right", "wrong", "torn"}]
  BY DEF Empty
<1>3. StagedInv
  BY <1>1, <1>2 DEF StagedInv, Files, Contents
<1>4. WorkInv
  BY DEF WorkInv, NoJob
<1>5. messages = <<>>
  OBVIOUS
<1>6. LogInv
  BY <1>5 DEF LogInv
<1> QED BY <1>3, <1>4, <1>6 DEF IntakeInv

-----------------------------------------------------------------------------
(* Who may call what *)

LEMMA WhoCalls ==
  /\ \A tool : Callers(tool) \subseteq {"app", "model"}
  /\ "model" \notin Callers("codex_conversation_send") /\ "model" \notin Callers("codex_job_dispatch")
BY DEF Callers, MayCall, StatusTools, ThreadTools, DirectTools, ConsoleTools

-----------------------------------------------------------------------------
(* The staging of texts *)

LEMMA SavesTyped ==
  ASSUME StagedInv, NEW t \in Transfers, NEW record \in StoredRecords, NEW files \in Files,
         Confirmed(record), Confirmed(files.manifest), Saves(t, record, files)
  PROVE  StagedInv'
<1>1. bundles' = [bundles EXCEPT ![t] = record]
  BY DEF Saves
<1>2. NoBundle \in StoredRecords /\ Confirmed(NoBundle)
  BY DEF NoBundle, StoredRecords, Classes, Confirmed, Authorized
<1>3. PICK left \in StoredRecords : Confirmed(left) /\ staged' = [staged EXCEPT ![t] = [files EXCEPT !.manifest = left]]
  BY <1>2 DEF Saves, Files
<1>4. [files EXCEPT !.manifest = left] \in Files /\ [files EXCEPT !.manifest = left].manifest = left
  BY DEF Files
<1> QED BY <1>1, <1>3, <1>4 DEF StagedInv

LEMMA StagingStep ==
  ASSUME StagedInv, Staging
  PROVE  StagedInv' /\ UNCHANGED <<work, messages>>
<1> USE DEF StagedInv
<1>1. ASSUME NEW t \in Transfers, NEW class \in Classes, NEW confirmed \in BOOLEAN,
             BeginBundle(t, class, confirmed)
      PROVE  StagedInv' /\ UNCHANGED <<work, messages>>
  <2> DEFINE record == [NoBundle EXCEPT !.status = "open", !.class = class, !.confirmed = confirmed]
  <2> DEFINE files == [manifest |-> record, chunk |-> Empty, content |-> "none"]
  <2>1. /\ bundles' = [bundles EXCEPT ![t] = record] /\ staged' = [staged EXCEPT ![t] = files]
        /\ Authorized(class, confirmed) /\ UNCHANGED <<work, messages>>
    BY <1>1 DEF BeginBundle
  <2>2. record \in [status : {"open"}, class : {class}, confirmed : {confirmed}, received : {{}}]
    BY DEF NoBundle
  <2>3. record \in StoredRecords /\ Confirmed(record)
    BY <2>1, <2>2 DEF StoredRecords, Confirmed
  <2> HIDE DEF record
  <2>4. files \in Files /\ files.manifest = record
    BY <2>3 DEF Files, Empty, Contents
  <2> HIDE DEF files
  <2> QED BY <2>1, <2>3, <2>4
<1>2. ASSUME NEW t \in Transfers, NEW c \in Chunks, NEW text \in {"right", "wrong"}, AppendChunk(t, c, text)
      PROVE  StagedInv' /\ UNCHANGED <<work, messages>>
  <2> DEFINE record == [bundles[t] EXCEPT !.received = @ \cup {c}]
  <2>1. record \in StoredRecords /\ Confirmed(record)
    BY DEF StoredRecords, Confirmed
  <2> HIDE DEF record
  <2>2. ASSUME NEW what \in {"right", "wrong", "torn"}
        PROVE  [staged[t] EXCEPT !.chunk[c] = what] \in Files
               /\ [staged[t] EXCEPT !.chunk[c] = what].manifest = staged[t].manifest
    BY DEF Files
  <2>3. CASE Saves(t, record, [staged[t] EXCEPT !.chunk[c] = text])
    BY <1>2, <2>1, <2>2, <2>3, SavesTyped DEF AppendChunk
  <2>4. CASE staged' = [staged EXCEPT ![t].chunk[c] = "torn"] /\ UNCHANGED bundles
    <3> DEFINE files == [staged[t] EXCEPT !.chunk[c] = "torn"]
    <3>1. files \in Files /\ files.manifest = staged[t].manifest
      BY <2>2
    <3>2. staged' = [staged EXCEPT ![t] = files]
      BY <2>4
    <3> HIDE DEF files
    <3> QED BY <1>2, <2>4, <3>1, <3>2 DEF AppendChunk
  <2> QED BY <1>2, <2>3, <2>4 DEF AppendChunk, record
<1>3. ASSUME NEW t \in Transfers, FinalizeBundle(t)
      PROVE  StagedInv' /\ UNCHANGED <<work, messages>>
  <2> DEFINE record == [bundles[t] EXCEPT !.status = "finalized"]
  <2>1. record \in StoredRecords /\ Confirmed(record)
    BY DEF StoredRecords, Confirmed
  <2> HIDE DEF record
  <2>2. ASSUME NEW what \in Contents
        PROVE  [staged[t] EXCEPT !.content = what] \in Files
               /\ [staged[t] EXCEPT !.content = what].manifest = staged[t].manifest
    BY DEF Files
  <2>3. CASE Saves(t, record, [staged[t] EXCEPT !.content = "whole"])
    BY <1>3, <2>1, <2>2, <2>3, SavesTyped DEF FinalizeBundle, Contents
  <2>4. CASE staged' = [staged EXCEPT ![t].content = "torn"] /\ UNCHANGED bundles
    <3> DEFINE files == [staged[t] EXCEPT !.content = "torn"]
    <3>1. files \in Files /\ files.manifest = staged[t].manifest
      BY <2>2 DEF Contents
    <3>2. staged' = [staged EXCEPT ![t] = files]
      BY <2>4
    <3> HIDE DEF files
    <3> QED BY <1>3, <2>4, <3>1, <3>2 DEF FinalizeBundle
  <2> QED BY <1>3, <2>3, <2>4 DEF FinalizeBundle, record
<1> QED BY <1>1, <1>2, <1>3 DEF Staging

-----------------------------------------------------------------------------
(* The log *)

(* A message whose texts resolve, of a caller that may send its class *)
LEMMA MessageTyped ==
  ASSUME StagedInv, NEW caller \in {"app", "model"}, NEW class \in Classes, NEW confirmed \in BOOLEAN,
         NEW texts \in SUBSET Transfers, Resolves(texts, class), Authorized(class, confirmed),
         class = "company" => caller = "app"
  PROVE  LET m == Message(caller, class, confirmed, texts)
         IN m \in Messages /\ IsAllowed(m) /\ m.caller = caller /\ m.class = class
<1> DEFINE m == Message(caller, class, confirmed, texts)
<1>1. /\ m.caller = caller /\ m.class = class /\ m.confirmed = confirmed
      /\ m = [caller |-> caller, class |-> class, confirmed |-> confirmed, files |-> m.files]
  BY DEF Message
<1>2. ASSUME NEW f \in m.files
      PROVE  /\ f \in LoggedFiles /\ f.class = class /\ f.content = "whole"
             /\ Authorized(f.class, f.confirmed)
  <2>1. PICK t \in texts :
          f = [text |-> t, class |-> bundles[t].class, confirmed |-> bundles[t].confirmed,
               content |-> staged[t].content]
    BY DEF Message
  <2>2. t \in Transfers /\ bundles[t] \in StoredRecords /\ Confirmed(bundles[t]) /\ staged[t] \in Files
    BY DEF StagedInv
  <2>3. bundles[t].class = class /\ staged[t].content = "whole"
    BY DEF Resolves
  <2> QED BY <2>1, <2>2, <2>3 DEF LoggedFiles, StoredRecords, Files, Confirmed
<1> HIDE DEF m
<1>3. m \in Messages
  BY <1>1, <1>2 DEF Messages
<1>4. IsAllowed(m)
  BY <1>1, <1>2 DEF IsAllowed, Authorized
<1> QED BY <1>1, <1>3, <1>4 DEF m

(* What the log gets at its end *)
LEMMA LogStep ==
  ASSUME LogInv, NEW m \in Messages, IsAllowed(m), messages' = Append(messages, m),
         messages = <<>> \/ work'.origin = work.origin,
         m.caller = "model" =>
           /\ work'.origin # "local" /\ m.class # "company"
           /\ \A i \in DOMAIN messages : messages[i].class # "company"
  PROVE  LogInv'
<1>1. messages \in Seq(Messages) /\ Len(messages) \in Nat /\ DOMAIN messages = 1 .. Len(messages)
  BY DEF LogInv
<1>2. messages' \in Seq(Messages) /\ DOMAIN messages' = 1 .. Len(messages) + 1
  BY <1>1
<1>3. /\ \A i \in 1 .. Len(messages) : messages'[i] = messages[i]
      /\ messages'[Len(messages) + 1] = m
  BY <1>1
<1>4. ASSUME NEW i \in DOMAIN messages'
      PROVE  /\ IsAllowed(messages'[i])
             /\ messages'[i].caller = "model" =>
                  work'.origin # "local" /\ \A k \in 1 .. i : messages'[k].class # "company"
  <2>1. CASE i \in 1 .. Len(messages)
    BY <1>1, <1>3, <2>1 DEF LogInv
  <2>2. CASE i = Len(messages) + 1
    BY <1>1, <1>3, <2>2
  <2> QED BY <1>1, <1>2, <2>1, <2>2
<1> QED BY <1>2, <1>4 DEF LogInv

(* The job's own record goes on; the log is as it was, or has one message more *)
LEMMA SendsStep ==
  ASSUME IntakeInv, NEW j, j = [origin |-> j.origin, class |-> j.class, current |-> j.current, status |-> j.status],
         messages = <<>> \/ j.origin = work.origin, NEW m \in Messages, IsAllowed(m), Sends(j, m),
         m.caller = "model" =>
           /\ j.origin # "local" /\ m.class # "company"
           /\ \A i \in DOMAIN messages : messages[i].class # "company"
  PROVE  IntakeInv'
<1>1. /\ work' = [origin |-> work'.origin, class |-> work'.class, current |-> work'.current, status |-> work'.status]
      /\ work'.origin = j.origin /\ work'.status # "none"
  <2>1. CASE work' = j
    BY <2>1 DEF Sends
  <2>2. CASE work' = [j EXCEPT !.status = "preparing", !.current = m.class]
    BY <2>2
  <2> QED BY <2>1, <2>2 DEF Sends
<1>2. messages' = Append(messages, m) /\ UNCHANGED <<bundles, staged>>
  BY DEF Sends
<1>3. LogInv'
  BY <1>1, <1>2, LogStep DEF IntakeInv
<1> QED BY <1>1, <1>2, <1>3 DEF IntakeInv, StagedInv, WorkInv

LEMMA DispatchStep ==
  ASSUME IntakeInv, NEW caller \in {"app", "model"}, NEW direct \in BOOLEAN, NEW class \in Classes,
         NEW confirmed \in BOOLEAN, NEW texts \in SUBSET Transfers,
         Dispatch(caller, direct, class, confirmed, texts)
  PROVE  IntakeInv'
<1> DEFINE m == Message(caller, class, confirmed, texts)
<1>1. /\ messages' = <<m>> /\ UNCHANGED <<bundles, staged>> /\ Resolves(texts, class)
      /\ work' = [origin |-> IF direct THEN "direct" ELSE "app", class |-> class, current |-> class,
                  status |-> "preparing"]
      /\ IF direct THEN class # "company" ELSE Authorized(class, confirmed)
      /\ ~direct => caller = "app"
  BY WhoCalls DEF Dispatch
<1>2. Authorized(class, confirmed) /\ (class = "company" => caller = "app")
      /\ (caller = "model" => class # "company")
  BY <1>1 DEF Authorized
<1>3. m \in Messages /\ IsAllowed(m) /\ m.caller = caller /\ m.class = class
  BY <1>1, <1>2, MessageTyped DEF IntakeInv
<1> HIDE DEF m
<1>4. messages' \in Seq(Messages) /\ DOMAIN messages' = {1} /\ messages'[1] = m
  BY <1>1, <1>3
<1>5. work'.origin # "local" /\ work'.status # "none"
      /\ work' = [origin |-> work'.origin, class |-> work'.class, current |-> work'.current, status |-> work'.status]
  BY <1>1
<1>6. LogInv'
  BY <1>2, <1>3, <1>4, <1>5 DEF LogInv
<1> QED BY <1>1, <1>5, <1>6 DEF IntakeInv, StagedInv, WorkInv

LEMMA WorkingStep ==
  ASSUME IntakeInv, Working
  PROVE  IntakeInv'
<1>1. PICK class \in Classes, confirmed \in BOOLEAN, texts \in SUBSET Transfers :
        \/ \E caller \in {"app", "model"}, direct \in BOOLEAN :
             Dispatch(caller, direct, class, confirmed, texts)
        \/ AppSend(class, confirmed, texts)
        \/ LocalSend(class, confirmed, texts)
        \/ \E caller \in {"app", "model"} : DirectSend(caller, class, texts)
  BY DEF Working
<1>2. work = [origin |-> work.origin, class |-> work.class, current |-> work.current, status |-> work.status]
  BY DEF IntakeInv, WorkInv
<1>3. CASE AppSend(class, confirmed, texts)
  <2>1. PICK caller \in Callers("codex_conversation_send") :
          Sends(work, Message(caller, class, confirmed, texts))
    BY <1>3 DEF AppSend
  <2>2. caller = "app" /\ Authorized(class, confirmed) /\ Resolves(texts, class)
    BY <1>3, WhoCalls DEF AppSend
  <2> DEFINE m == Message(caller, class, confirmed, texts)
  <2>3. m \in Messages /\ IsAllowed(m) /\ m.caller = caller
    BY <2>2, MessageTyped DEF IntakeInv
  <2> HIDE DEF m
  <2> QED BY <1>2, <2>1, <2>2, <2>3, SendsStep DEF m
<1>4. CASE LocalSend(class, confirmed, texts)
  <2> DEFINE imported == [origin |-> "local", class |-> class, current |-> class, status |-> "idle"]
  <2>1. work.status = "none" /\ Authorized(class, confirmed)
    BY <1>4 DEF LocalSend
  <2>2. messages = <<>>
    BY <2>1 DEF IntakeInv, WorkInv
  <2>3. ASSUME NEW caller \in Callers("codex_conversation_send"), Resolves(texts, class),
               Sends(imported, Message(caller, class, confirmed, texts))
        PROVE  IntakeInv'
    <3> DEFINE m == Message(caller, class, confirmed, texts)
    <3>1. caller = "app"
      BY WhoCalls
    <3>2. m \in Messages /\ IsAllowed(m) /\ m.caller = caller
      BY <2>1, <2>3, <3>1, MessageTyped DEF IntakeInv
    <3> HIDE DEF m
    <3> DEFINE j == imported
    <3>3. j = [origin |-> j.origin, class |-> j.class, current |-> j.current, status |-> j.status]
      OBVIOUS
    <3>4. Sends(j, m)
      BY <2>3 DEF m
    <3> HIDE DEF j
    <3> QED BY <2>2, <3>1, <3>2, <3>3, <3>4, SendsStep
  <2>4. CASE work' = imported /\ UNCHANGED <<bundles, staged, messages, refusals>>
    <3>1. work'.status # "none"
          /\ work' = [origin |-> work'.origin, class |-> work'.class, current |-> work'.current, status |-> work'.status]
      BY <2>4
    <3>2. StagedInv' /\ WorkInv'
      BY <2>4, <3>1 DEF IntakeInv, StagedInv, WorkInv
    <3>3. LogInv'
      BY <2>2, <2>4 DEF IntakeInv, LogInv
    <3> QED BY <3>2, <3>3 DEF IntakeInv
  <2> QED BY <1>4, <2>3, <2>4 DEF LocalSend
<1>5. ASSUME NEW caller \in {"app", "model"}, DirectSend(caller, class, texts) PROVE IntakeInv'
  <2>0. PICK no \in BOOLEAN : no = FALSE
    OBVIOUS
  <2> DEFINE m == Message(caller, class, no, texts)
  <2>1. /\ work.origin # "local" /\ class # "company" /\ Resolves(texts, class) /\ Sends(work, m)
        /\ \A i \in DOMAIN messages : messages[i].class # "company"
    BY <1>5, <2>0 DEF DirectSend, HasCompanyHistory
  <2>2. Authorized(class, no) /\ (class = "company" => caller = "app")
    BY <2>1 DEF Authorized
  <2>3. m \in Messages /\ IsAllowed(m) /\ m.class = class
    BY <2>1, <2>2, MessageTyped DEF IntakeInv
  <2> HIDE DEF m
  <2> QED BY <1>2, <2>1, <2>3, SendsStep
<1> QED BY <1>1, <1>3, <1>4, <1>5, DispatchStep

LEMMA IntakeStep == IntakeInv /\ [IntakeNext]_intakeVars => IntakeInv'
<1> SUFFICES ASSUME IntakeInv, [IntakeNext]_intakeVars PROVE IntakeInv'
  OBVIOUS
<1> DEFINE kept == [origin |-> work'.origin, class |-> work'.class, current |-> work'.current, status |-> work'.status]
<1>1. CASE Staging
  BY <1>1, StagingStep DEF IntakeInv, WorkInv, LogInv
<1>2. CASE Working
  BY <1>2, WorkingStep
<1>3. ASSUME StagedInv', work' = work \/ \E status \in {"active", "idle"} :
                                           work' = [work EXCEPT !.status = status],
             UNCHANGED messages
      PROVE  IntakeInv'
  <2>1. /\ work' = kept /\ work'.origin = work.origin
        /\ work'.status = work.status \/ work'.status # "none"
    BY <1>3 DEF IntakeInv, WorkInv
  <2> QED BY <1>3, <2>1 DEF IntakeInv, WorkInv, LogInv
<1>4. CASE TurnStarts \/ TurnEnds
  BY <1>3, <1>4 DEF TurnStarts, TurnEnds, IntakeInv, StagedInv
<1>5. CASE IntakeRestarts
  <2>1. bundles' = [t \in Transfers |-> staged[t].manifest] /\ UNCHANGED <<staged, messages>>
    BY <1>5 DEF IntakeRestarts
  <2>2. StagedInv'
    BY <2>1 DEF IntakeInv, StagedInv, Files
  <2> QED BY <1>3, <1>5, <2>1, <2>2 DEF IntakeRestarts
<1>6. CASE UNCHANGED intakeVars
  BY <1>3, <1>6 DEF intakeVars, IntakeInv, StagedInv
<1> QED BY <1>1, <1>2, <1>4, <1>5, <1>6 DEF IntakeNext

(* In every reachable state of the intake the invariant holds *)
THEOREM IntakeIsSound == IntakeInit /\ [][IntakeNext]_intakeVars => []IntakeInv
<1> QED BY IntakeInitially, IntakeStep, PTL

(* Company data comes into a job only with a confirmation given in the app *)
(* (controller.ts, assertDirectJob and hasCompanyHistory; resolveMany).    *)
THEOREM CompanyIsConfirmedAlways == IntakeInit /\ [][IntakeNext]_intakeVars => []CompanyIsConfirmed
<1>1. IntakeInv => CompanyIsConfirmed
  BY DEF IntakeInv, LogInv, IsAllowed, CompanyIsConfirmed
<1> QED BY <1>1, IntakeIsSound, PTL

-----------------------------------------------------------------------------
(* The PDF client's inductive invariant: a job goes to a worker when those *)
(* before it are answered, and a worker replies to what it has read.       *)

Replies == {reply \in [kind : {"reply"}, id : JobIds, ok : BOOLEAN, of : JobIds] : reply.of = reply.id}
News == Replies \cup [kind : {"error", "exit"}]
ThreadRecords ==
  [inbox : Seq(JobIds), current : 0 .. Jobs, input : 0 .. Jobs, sent : Seq(News), alive : BOOLEAN]
Threads == {t \in ThreadRecords : t.current # 0 => t.input = t.current}

PdfTypeInv ==
  /\ requested \in 0 .. Jobs /\ pending \in 0 .. Jobs
  /\ worker \in 0 .. Started
  /\ job \in [JobIds -> [is : Unanswered \cup {"ok", "failed"}, of : 0 .. Jobs]]
  /\ threads \in Seq(Threads)

(* Jobs are requested and handed out in the order of their ids *)
OrderInv ==
  /\ \A j \in JobIds : j > requested => job[j].is = "none"
  /\ \A j \in JobIds : job[j].is = "pending" => \A i \in 1 .. j - 1 : job[i].is \notin Unanswered

PdfInv == PdfTypeInv /\ OrderInv /\ AnswerIsItsOwn

LEMMA PdfInitially == PdfInit => PdfInv
<1> SUFFICES ASSUME PdfInit PROVE PdfInv
  OBVIOUS
<1> USE DEF PdfInit
<1>1. Jobs \in Nat
  BY PdfJobsAssumption
<1>2. threads \in Seq(Threads) /\ Started = 0
  BY DEF Started
<1>3. PdfTypeInv
  BY <1>1, <1>2 DEF PdfTypeInv, Unanswered
<1> QED BY <1>1, <1>3 DEF PdfInv, OrderInv, AnswerIsItsOwn, JobIds

(* The pending job is answered: by its worker, or as a failure *)
LEMMA AnswerStep ==
  ASSUME PdfInv, pending # 0, NEW answer, answer = JobFailure \/ answer = JobResult(pending),
         JobAnswered(pending, answer), UNCHANGED requested, worker' \in 0 .. Started',
         threads' \in Seq(Threads)
  PROVE  PdfInv'
<1>1. Jobs \in Nat /\ pending \in JobIds
  BY PdfJobsAssumption DEF PdfInv, PdfTypeInv, JobIds
<1>2. job' = [job EXCEPT ![pending] = answer] /\ pending' = 0
  BY DEF JobAnswered
<1>3. /\ answer \in [is : {"ok", "failed"}, of : 0 .. Jobs] /\ (answer.is = "ok" => answer.of = pending)
      /\ answer.is \notin Unanswered
  BY <1>1 DEF JobFailure, JobResult, JobIds, Unanswered
<1> HIDE DEF JobFailure, JobResult
<1>4. job' \in [JobIds -> [is : Unanswered \cup {"ok", "failed"}, of : 0 .. Jobs]]
  BY <1>1, <1>2, <1>3 DEF PdfInv, PdfTypeInv
<1>5. PdfTypeInv'
  BY <1>1, <1>2, <1>4 DEF PdfInv, PdfTypeInv
<1>6. \A j \in JobIds : job'[j] = IF j = pending THEN answer ELSE job[j]
  BY <1>1, <1>2 DEF PdfInv, PdfTypeInv
<1>7. OrderInv'
  <2>1. \A j \in JobIds : j > requested => job'[j].is = "none"
    BY <1>1, <1>6 DEF PdfInv, OrderInv, AnswerIsItsOwn
  <2>2. \A j \in JobIds : \A i \in 1 .. j - 1 : i \in JobIds
    BY <1>1 DEF JobIds
  <2>3. \A j \in JobIds : job'[j].is = "pending" => \A i \in 1 .. j - 1 : job'[i].is \notin Unanswered
    BY <1>3, <1>6, <2>2 DEF PdfInv, OrderInv, Unanswered
  <2> QED BY <2>1, <2>3 DEF OrderInv
<1>8. AnswerIsItsOwn'
  BY <1>1, <1>2, <1>3, <1>6 DEF PdfInv, AnswerIsItsOwn, Unanswered, JobIds
<1> QED BY <1>5, <1>7, <1>8 DEF PdfInv

(* Nothing of the jobs changes, and the client keeps its worker *)
LEMMA ThreadStep ==
  ASSUME PdfInv, threads' \in Seq(Threads), Started' >= Started, UNCHANGED <<requested, job, pending>>,
         worker' = worker \/ (pending = 0 /\ worker' = 0)
  PROVE  PdfInv'
<1>1. Started \in Nat /\ Started' \in Nat
  BY DEF Started, PdfInv, PdfTypeInv
<1>2. PdfTypeInv'
  BY <1>1 DEF PdfInv, PdfTypeInv
<1> QED BY <1>2 DEF PdfInv, OrderInv, AnswerIsItsOwn

(* What becomes of one thread *)
LEMMA ThreadTyped ==
  ASSUME PdfInv, NEW w \in 1 .. Started
  PROVE  /\ threads[w] \in Threads /\ Started \in Nat
         /\ \A t \in Threads : /\ [threads EXCEPT ![w] = t] \in Seq(Threads)
                               /\ Len([threads EXCEPT ![w] = t]) = Started
BY DEF PdfInv, PdfTypeInv, Started

LEMMA ReceivedTyped ==
  ASSUME PdfInv, NEW w \in 1 .. Started, NEW kind, Arrived(w, kind)
  PROVE  /\ Received(w) \in Seq(Threads) /\ Len(Received(w)) = Started
         /\ Head(threads[w].sent) \in News /\ Head(threads[w].sent).kind = kind
<1> DEFINE t == [threads[w] EXCEPT !.sent = Tail(@)]
<1>1. threads[w] \in Threads /\ threads[w].sent \in Seq(News) /\ threads[w].sent # <<>>
  BY ThreadTyped DEF Threads, ThreadRecords, Arrived
<1>2. Head(threads[w].sent) \in News /\ Tail(threads[w].sent) \in Seq(News)
  BY <1>1
<1>3. t \in Threads
  BY <1>1, <1>2 DEF Threads, ThreadRecords
<1>4. Received(w) = [threads EXCEPT ![w] = t]
  BY DEF Received
<1> HIDE DEF t
<1> QED BY <1>2, <1>3, <1>4, ThreadTyped DEF Arrived

(* A thread's record with other fields *)
LEMMA ThreadWith ==
  ASSUME NEW t \in ThreadRecords, NEW inbox \in Seq(JobIds), NEW j \in 0 .. Jobs,
         NEW sent \in Seq(News), NEW alive \in BOOLEAN
  PROVE  /\ [t EXCEPT !.inbox = inbox, !.current = j, !.input = j] \in Threads
         /\ j = 0 => /\ [t EXCEPT !.current = j, !.sent = sent] \in Threads
                     /\ [t EXCEPT !.alive = alive, !.inbox = inbox, !.current = j, !.sent = sent] \in Threads
<1>1. /\ [t EXCEPT !.inbox = inbox, !.current = j, !.input = j] \in ThreadRecords
      /\ [t EXCEPT !.inbox = inbox, !.current = j, !.input = j].current = j
      /\ [t EXCEPT !.inbox = inbox, !.current = j, !.input = j].input = j
  BY DEF ThreadRecords
<1>2. /\ [t EXCEPT !.current = j, !.sent = sent] \in ThreadRecords
      /\ [t EXCEPT !.current = j, !.sent = sent].current = j
  BY DEF ThreadRecords
<1>3. /\ [t EXCEPT !.alive = alive, !.inbox = inbox, !.current = j, !.sent = sent] \in ThreadRecords
      /\ [t EXCEPT !.alive = alive, !.inbox = inbox, !.current = j, !.sent = sent].current = j
  BY DEF ThreadRecords
<1> QED BY <1>1, <1>2, <1>3 DEF Threads

(* ... none of which it still has to read, or reads *)
LEMMA ThreadStopped ==
  ASSUME NEW t \in ThreadRecords, NEW sent \in Seq(News)
  PROVE  /\ [t EXCEPT !.current = 0, !.sent = sent] \in Threads
         /\ [t EXCEPT !.alive = FALSE, !.inbox = <<>>, !.current = 0, !.sent = sent] \in Threads
<1>1. PICK alive \in BOOLEAN : alive = FALSE
  OBVIOUS
<1>2. PICK inbox : inbox = <<>> /\ inbox \in Seq(JobIds)
  <2>1. <<>> \in Seq(JobIds)
    OBVIOUS
  <2> QED BY <2>1
<1>3. PICK j \in 0 .. Jobs : j = 0
  BY PdfJobsAssumption
<1> QED BY <1>1, <1>2, <1>3, ThreadWith

LEMMA TerminatedTyped ==
  ASSUME NEW all \in Seq(Threads), NEW w \in 1 .. Len(all)
  PROVE  WorkerTerminated(all, w) \in Seq(Threads) /\ Len(WorkerTerminated(all, w)) = Len(all)
<1> DEFINE sent == IF all[w].alive THEN Append(all[w].sent, [kind |-> "exit"]) ELSE all[w].sent
           t == [all[w] EXCEPT !.alive = FALSE, !.inbox = <<>>, !.current = 0, !.sent = sent]
<1>1. all[w] \in Threads /\ all[w].sent \in Seq(News)
  BY DEF Threads, ThreadRecords
<1>2. [kind |-> "exit"] \in News
  BY DEF News
<1>3. sent \in Seq(News)
  BY <1>1, <1>2
<1>4. WorkerTerminated(all, w) = [all EXCEPT ![w] = t]
  BY <1>1 DEF WorkerTerminated, Threads
<1> HIDE DEF sent
<1>5. t \in Threads
  BY <1>1, <1>3, ThreadStopped DEF Threads
<1> HIDE DEF t
<1> QED BY <1>4, <1>5

-----------------------------------------------------------------------------

LEMMA ExecuteStep ==
  ASSUME PdfInv, NEW j \in JobIds, Execute(j)
  PROVE  PdfInv'
<1>1. Jobs \in Nat /\ MaxWorkers \in Nat /\ threads \in Seq(Threads) /\ Started \in Nat /\ worker \in 0 .. Started
  BY PdfJobsAssumption DEF PdfInv, PdfTypeInv, Started
<1>2. NewThread \in Threads
  BY <1>1 DEF NewThread, Threads, ThreadRecords
<1>3. PICK all \in Seq(Threads), w \in Nat :
        w \in 1 .. Len(all) /\ Len(all) >= Started /\ PostJob(w, all, j)
  <2>1. CASE worker # 0 /\ PostJob(worker, threads, j)
    BY <1>1, <2>1 DEF Started
  <2>2. CASE PostJob(Started + 1, Append(threads, NewThread), j)
    <3> DEFINE all == Append(threads, NewThread)
    <3>1. all \in Seq(Threads) /\ Len(all) = Started + 1
      BY <1>1, <1>2 DEF Started
    <3> HIDE DEF all
    <3>2. PostJob(Started + 1, all, j)
      BY <2>2 DEF all
    <3> QED BY <1>1, <3>1, <3>2
  <2> QED BY <2>1, <2>2 DEF Execute
<1>4. /\ worker' = w /\ pending' = j /\ job' = [job EXCEPT ![j].is = "pending"] /\ UNCHANGED requested
      /\ threads' = [all EXCEPT ![w].inbox = IF all[w].alive THEN Append(@, j) ELSE @]
  BY <1>3 DEF PostJob, Execute
<1>5. all[w] \in Threads /\ all[w].inbox \in Seq(JobIds)
  BY <1>3 DEF Threads, ThreadRecords
<1> DEFINE inbox == IF all[w].alive THEN Append(all[w].inbox, j) ELSE all[w].inbox
           t == [all[w] EXCEPT !.inbox = inbox]
<1>6. threads' = [all EXCEPT ![w] = t]
  BY <1>4
<1>7. inbox \in Seq(JobIds)
  BY <1>5
<1> HIDE DEF inbox
<1>8. t \in Threads
  BY <1>5, <1>7 DEF Threads, ThreadRecords
<1> HIDE DEF t
<1>9. threads' \in Seq(Threads) /\ Len(threads') = Len(all)
  BY <1>3, <1>6, <1>8
<1>10. /\ JobTurn(j) /\ \A i \in JobIds : job'[i] = IF i = j THEN [job[j] EXCEPT !.is = "pending"] ELSE job[i]
       /\ job' \in [JobIds -> [is : Unanswered \cup {"ok", "failed"}, of : 0 .. Jobs]]
       /\ job'[j].is = "pending"
  BY <1>1, <1>4 DEF Execute, PdfInv, PdfTypeInv, Unanswered
<1>11. pending = 0
  BY <1>1, <1>10 DEF JobTurn, PdfInv, OrderInv, PdfTypeInv, AnswerIsItsOwn, Unanswered, JobIds
<1>12. PdfTypeInv'
  BY <1>1, <1>3, <1>4, <1>9, <1>10 DEF PdfInv, PdfTypeInv, Started, JobIds
<1>13. OrderInv'
  BY <1>1, <1>4, <1>10, <1>11 DEF JobTurn, PdfInv, OrderInv, AnswerIsItsOwn, Unanswered, JobIds
<1>14. AnswerIsItsOwn'
  BY <1>1, <1>3, <1>4, <1>10, <1>11 DEF PdfInv, AnswerIsItsOwn, Unanswered, JobIds
<1> QED BY <1>12, <1>13, <1>14 DEF PdfInv

(* A job that is not pending is asked for, or fails before it was posted *)
LEMMA JobStep ==
  ASSUME PdfInv, Request \/ \E j \in JobIds : PostFails(j)
  PROVE  PdfInv'
<1>1. Jobs \in Nat /\ requested \in 0 .. Jobs
  BY PdfJobsAssumption DEF PdfInv, PdfTypeInv
<1>2. PICK j \in JobIds, is \in {"queued", "failed"} :
        /\ job' = [job EXCEPT ![j] = [is |-> is, of |-> 0]] /\ job[j].is # "pending"
        /\ UNCHANGED <<worker, pending, threads>>
        /\ \/ is = "queued" /\ j = requested + 1 /\ requested' = requested + 1
           \/ is = "failed" /\ job[j].is = "queued" /\ UNCHANGED requested
  <2>1. CASE Request
    <3>1. requested + 1 \in JobIds /\ requested + 1 > requested
      BY <1>1, <2>1 DEF Request, JobIds
    <3>2. job[requested + 1].is = "none"
      BY <3>1 DEF PdfInv, OrderInv
    <3> QED BY <2>1, <3>1, <3>2 DEF Request
  <2>2. CASE \E j \in JobIds : PostFails(j)
    BY <2>2 DEF PostFails, JobTurn, JobFailure
  <2> QED BY <2>1, <2>2
<1>3. /\ \A i \in JobIds : job'[i] = IF i = j THEN [is |-> is, of |-> 0] ELSE job[i]
      /\ job' \in [JobIds -> [is : Unanswered \cup {"ok", "failed"}, of : 0 .. Jobs]]
  BY <1>1, <1>2 DEF PdfInv, PdfTypeInv, Unanswered
<1>4. PdfTypeInv'
  BY <1>1, <1>2, <1>3 DEF PdfInv, PdfTypeInv, Started, JobIds
<1>5. OrderInv'
  BY <1>1, <1>2, <1>3 DEF PdfInv, OrderInv, Unanswered, JobIds
<1>6. AnswerIsItsOwn'
  BY <1>1, <1>2, <1>3 DEF PdfInv, AnswerIsItsOwn
<1> QED BY <1>4, <1>5, <1>6 DEF PdfInv

LEMMA TimeoutStep ==
  ASSUME PdfInv, Timeout
  PROVE  PdfInv'
<1>1. pending # 0 /\ JobAnswered(pending, JobFailure) /\ worker' = 0 /\ UNCHANGED requested
  BY DEF Timeout
<1>2. worker \in 1 .. Started /\ threads \in Seq(Threads) /\ Started \in Nat
  BY <1>1 DEF PdfInv, PdfTypeInv, AnswerIsItsOwn, Started
<1>3. threads' = WorkerTerminated(threads, worker)
  BY <1>2 DEF Timeout
<1>4. threads' \in Seq(Threads) /\ Started' \in Nat
  BY <1>2, <1>3, TerminatedTyped DEF Started
<1> QED BY <1>1, <1>4, AnswerStep

(* What a worker sent arrives *)
LEMMA NewsStep ==
  ASSUME PdfInv, NEW w \in 1 .. Started, WorkerNews(w)
  PROVE  PdfInv'
<1>1. /\ threads \in Seq(Threads) /\ Started \in Nat /\ worker \in 0 .. Started
      /\ Jobs \in Nat /\ pending \in 0 .. Jobs
  BY PdfJobsAssumption DEF PdfInv, PdfTypeInv, Started
<1>2. CASE MessageArrives(w)
  <2> DEFINE reply == Head(threads[w].sent)
  <2>1. /\ Arrived(w, "reply") /\ threads' = Received(w) /\ UNCHANGED <<requested, worker>>
        /\ IF pending = reply.id
           THEN JobAnswered(pending, IF reply.ok THEN JobResult(reply.of) ELSE JobFailure)
           ELSE UNCHANGED <<job, pending>>
    BY <1>2 DEF MessageArrives
  <2>2. reply \in News /\ reply.kind = "reply" /\ threads' \in Seq(Threads) /\ Started' = Started
    BY <2>1, ReceivedTyped DEF Started
  <2> HIDE DEF reply
  <2>3. reply.id \in JobIds /\ reply.of = reply.id
    BY <2>2 DEF News, Replies
  <2>4. CASE pending = reply.id
    <3>1. pending # 0
      BY <2>3, <2>4 DEF JobIds
    <3>2. PICK answer : /\ answer = JobFailure \/ answer = JobResult(pending)
                        /\ JobAnswered(pending, answer)
      BY <2>1, <2>3, <2>4
    <3> QED BY <1>1, <2>1, <2>2, <3>1, <3>2, AnswerStep
  <2>5. CASE pending # reply.id
    BY <1>1, <2>1, <2>2, <2>5, ThreadStep
  <2> QED BY <2>4, <2>5
<1>3. CASE ErrorArrives(w)
  <2>1. /\ Arrived(w, "error") /\ threads' = WorkerTerminated(Received(w), w) /\ FailPending
        /\ worker' = (IF worker = w THEN 0 ELSE worker) /\ UNCHANGED requested
    BY <1>3 DEF ErrorArrives
  <2> DEFINE all == Received(w)
  <2>2. all \in Seq(Threads) /\ Len(all) = Started
    BY <2>1, ReceivedTyped
  <2> HIDE DEF all
  <2>3. threads' = WorkerTerminated(all, w)
    BY <2>1 DEF all
  <2>4. threads' \in Seq(Threads) /\ Started' = Started
    BY <2>2, <2>3, TerminatedTyped DEF Started
  <2>5. CASE pending = 0
    BY <1>1, <2>1, <2>4, <2>5, ThreadStep DEF FailPending
  <2>6. CASE pending # 0
    <3>1. JobAnswered(pending, JobFailure) /\ worker' \in 0 .. Started'
      BY <1>1, <2>1, <2>4, <2>6 DEF FailPending
    <3> QED BY <2>1, <2>4, <2>6, <3>1, AnswerStep
  <2> QED BY <2>5, <2>6
<1>4. CASE ExitArrives(w)
  <2>1. /\ Arrived(w, "exit") /\ threads' = Received(w) /\ UNCHANGED requested
        /\ IF worker = w THEN worker' = 0 /\ FailPending ELSE UNCHANGED <<worker, pending, job>>
    BY <1>4 DEF ExitArrives
  <2>2. threads' \in Seq(Threads) /\ Started' = Started
    BY <2>1, ReceivedTyped DEF Started
  <2>3. CASE worker = w /\ pending # 0
    <3>1. JobAnswered(pending, JobFailure) /\ worker' \in 0 .. Started'
      BY <1>1, <2>1, <2>2, <2>3 DEF FailPending
    <3> QED BY <2>1, <2>2, <2>3, <3>1, AnswerStep
  <2>4. CASE worker # w \/ pending = 0
    BY <1>1, <2>1, <2>2, <2>4, ThreadStep DEF FailPending
  <2> QED BY <2>3, <2>4
<1> QED BY <1>2, <1>3, <1>4 DEF WorkerNews

(* The worker thread reads, replies and breaks *)
LEMMA WorkerStep ==
  ASSUME PdfInv, NEW w \in 1 .. Started, BeginJob(w) \/ FinishJob(w) \/ BreakThread(w)
  PROVE  PdfInv'
<1>1. UNCHANGED <<requested, job, worker, pending>>
  BY DEF BeginJob, FinishJob, BreakThread
<1>2. /\ threads[w] \in Threads /\ threads[w].inbox \in Seq(JobIds) /\ threads[w].sent \in Seq(News)
      /\ Jobs \in Nat
  BY ThreadTyped, PdfJobsAssumption DEF Threads, ThreadRecords
<1>3. \E t \in Threads : threads' = [threads EXCEPT ![w] = t]
  <2>1. CASE BeginJob(w)
    <3> DEFINE j == Head(threads[w].inbox)
               t == [threads[w] EXCEPT !.inbox = Tail(@), !.current = j, !.input = j]
    <3>1. threads[w].inbox # <<>> /\ threads' = [threads EXCEPT ![w] = t]
      BY <2>1 DEF BeginJob
    <3>2. j \in JobIds /\ Tail(threads[w].inbox) \in Seq(JobIds)
      BY <1>2, <3>1
    <3> HIDE DEF j
    <3>3. j \in 0 .. Jobs /\ TRUE \in BOOLEAN
      BY <1>2, <3>2 DEF JobIds
    <3>4. t \in Threads
      BY <1>2, <3>2, <3>3, ThreadWith DEF Threads
    <3> HIDE DEF t
    <3> QED BY <3>1, <3>4
  <2>2. CASE FinishJob(w)
    <3>1. PICK ok \in BOOLEAN :
            /\ threads[w].current # 0
            /\ threads' = [threads EXCEPT ![w].current = 0,
                 ![w].sent = Append(@, [kind |-> "reply", id |-> threads[w].current, ok |-> ok,
                                        of |-> threads[w].input])]
      BY <2>2 DEF FinishJob
    <3> DEFINE reply == [kind |-> "reply", id |-> threads[w].current, ok |-> ok, of |-> threads[w].input]
               sent == Append(threads[w].sent, reply)
               t == [threads[w] EXCEPT !.current = 0, !.sent = sent]
    <3>2. threads' = [threads EXCEPT ![w] = t]
      BY <3>1
    <3>3. reply \in News
      BY <1>2, <3>1 DEF News, Replies, Threads, ThreadRecords, JobIds
    <3> HIDE DEF reply
    <3>4. sent \in Seq(News)
      BY <1>2, <3>3
    <3> HIDE DEF sent
    <3>5. t \in Threads
      BY <1>2, <3>4, ThreadStopped DEF Threads
    <3> HIDE DEF t
    <3> QED BY <3>2, <3>5
  <2>3. CASE BreakThread(w)
    <3>1. PICK error \in BOOLEAN :
           threads' = [threads EXCEPT ![w].alive = FALSE, ![w].inbox = <<>>, ![w].current = 0,
             ![w].sent = @ \o (IF error THEN <<[kind |-> "error"]>> ELSE <<>>) \o <<[kind |-> "exit"]>>]
      BY <2>3 DEF BreakThread
    <3> DEFINE last == (IF error THEN <<[kind |-> "error"]>> ELSE <<>>)
               sent == threads[w].sent \o last \o <<[kind |-> "exit"]>>
               t == [threads[w] EXCEPT !.alive = FALSE, !.inbox = <<>>, !.current = 0, !.sent = sent]
    <3>2. threads' = [threads EXCEPT ![w] = t]
      BY <3>1
    <3>3. [kind |-> "exit"] \in News /\ [kind |-> "error"] \in News
      BY DEF News
    <3>4. last \in Seq(News) /\ <<[kind |-> "exit"]>> \in Seq(News)
      BY <3>3
    <3> HIDE DEF last
    <3>5. sent \in Seq(News)
      BY <1>2, <3>4
    <3> HIDE DEF sent
    <3>6. t \in Threads
      BY <1>2, <3>5, ThreadStopped DEF Threads
    <3> HIDE DEF t
    <3> QED BY <3>2, <3>6
  <2> QED BY <2>1, <2>2, <2>3
<1>4. threads' \in Seq(Threads) /\ Started' = Started /\ Started \in Nat
  BY <1>3, ThreadTyped DEF Started
<1> QED BY <1>1, <1>4, ThreadStep

LEMMA PdfStep == PdfInv /\ [PdfNext]_pdfVars => PdfInv'
<1> SUFFICES ASSUME PdfInv, [PdfNext]_pdfVars PROVE PdfInv'
  OBVIOUS
<1>1. CASE UNCHANGED pdfVars
  BY <1>1 DEF pdfVars, PdfInv, PdfTypeInv, OrderInv, AnswerIsItsOwn, Started
<1> QED BY <1>1, ExecuteStep, JobStep, TimeoutStep, NewsStep, WorkerStep DEF PdfNext

(* In every reachable state of the PDF client the invariant holds *)
THEOREM PdfIsSound == PdfInit /\ [][PdfNext]_pdfVars => []PdfInv
<1> QED BY PdfInitially, PdfStep, PTL

(* An answer is that of the job asked for, whatever workers were given up  *)
(* or broke (pdf.ts, PdfWorkerClient).                                     *)
THEOREM AnswerIsItsOwnAlways == PdfInit /\ [][PdfNext]_pdfVars => []AnswerIsItsOwn
<1>1. PdfInv => AnswerIsItsOwn
  BY DEF PdfInv
<1> QED BY <1>1, PdfIsSound, PTL

-----------------------------------------------------------------------------
(* The phone: the places of a request *)
Places == {"sent", "new", "written", "recorded", "failed", "unauthorized"}

(* What the fields of a request are, whatever event and token it carries *)
IsPost(p) ==
  /\ p = [event |-> p.event, token |-> p.token, at |-> p.at, awaited |-> p.awaited]
  /\ p.at \in Places /\ p.awaited \in BOOLEAN

-----------------------------------------------------------------------------
(* The phone's inductive invariant: PhoneTypeInv, AwaitInv, WriteInv and   *)
(* SyncedInv                                                               *)

PhoneTypeInv ==
  /\ row \in [Records -> Statuses] /\ ledger \in [Records -> Nat]
  /\ sync = [at |-> sync.at, token |-> sync.token, todo |-> sync.todo]
  /\ \A p \in posts : IsPost(p)

(* One request at most is waited for: that of the current record *)
AwaitInv ==
  /\ \A p \in posts : p.awaited => sync.at = "posted" /\ p.event = Current
  /\ \A p, q \in posts : p.awaited /\ q.awaited => p = q

(* The write lock: who has written is alone, and the first for its event *)
WriteInv ==
  /\ \A p, q \in posts : p.at = "written" /\ q.at = "written" => p = q
  /\ \A p \in posts, e \in Records : p.event = e /\ p.at = "written" => ledger[e] = 0
  /\ \A p \in posts, e \in Records : p.event = e /\ p.at = "recorded" => ledger[e] > 0
  /\ \A e \in Records : ledger[e] <= 1

(* A synced record is entered, or its request is at the commit, or lost it *)
IsWritten(e) == \E p \in posts : p.event = e /\ p.at = "written"
SyncedInv ==
  \A e \in Records : row[e] = "synced" => ledger[e] > 0 \/ IsWritten(e) \/ e \in unsaved

PhoneInv == PhoneTypeInv /\ AwaitInv /\ WriteInv /\ SyncedInv

-----------------------------------------------------------------------------
(* How the set of requests changes *)

LEMMA Moved ==
  ASSUME NEW p, IsPost(p), NEW at \in Places
  PROVE  /\ IsPost([p EXCEPT !.at = at]) /\ [p EXCEPT !.at = at].at = at
         /\ [p EXCEPT !.at = at].event = p.event /\ [p EXCEPT !.at = at].awaited = p.awaited
BY DEF IsPost

LEMMA Unawaited ==
  ASSUME NEW p, IsPost(p)
  PROVE  /\ IsPost([p EXCEPT !.awaited = FALSE]) /\ [p EXCEPT !.awaited = FALSE].at = p.at
         /\ [p EXCEPT !.awaited = FALSE].event = p.event /\ [p EXCEPT !.awaited = FALSE].awaited = FALSE
<1>1. p = [event |-> p.event, token |-> p.token, at |-> p.at, awaited |-> p.awaited] /\ p.at \in Places
  BY DEF IsPost
<1>2. [p EXCEPT !.awaited = FALSE] \in
        [event : {p.event}, token : {p.token}, at : {p.at}, awaited : {FALSE}]
  <2>1. p \in [event : {p.event}, token : {p.token}, at : {p.at}, awaited : {p.awaited}]
    BY <1>1
  <2>2. FALSE \in {FALSE}
    OBVIOUS
  <2> QED BY <2>1, <2>2
<1> DEFINE q == [p EXCEPT !.awaited = FALSE]
<1>3. q \in [event : {p.event}, token : {p.token}, at : {p.at}, awaited : {FALSE}]
  BY <1>2
<1> HIDE DEF q
<1>4. /\ q = [event |-> q.event, token |-> q.token, at |-> q.at, awaited |-> q.awaited]
      /\ q.at = p.at /\ q.event = p.event /\ q.awaited = FALSE
  BY <1>3
<1>5. q.awaited \in BOOLEAN /\ q.at \in Places
  BY <1>1, <1>4
<1>6. IsPost(q)
  BY <1>4, <1>5 DEF IsPost
<1> QED BY <1>4, <1>6 DEF q

(* What is not newly synced stays accounted for *)
LEMMA SyncedKept ==
  ASSUME SyncedInv, \A e \in Records : row'[e] = "synced" => row[e] = "synced",
         \A e \in Records : ledger[e] > 0 => ledger'[e] > 0, unsaved \subseteq unsaved',
         \A e \in Records : row[e] = "synced" /\ IsWritten(e) => IsWritten(e)' \/ ledger'[e] > 0 \/ e \in unsaved'
  PROVE  SyncedInv'
BY DEF SyncedInv

(* Requests leave, or are given up *)
LEMMA LeaveStep ==
  ASSUME PhoneInv, posts' \subseteq posts, UNCHANGED <<row, sync, ledger>>, unsaved \subseteq unsaved',
         \A p \in posts \ posts' : p.at = "written" /\ row[p.event] = "synced" => p.event \in unsaved'
  PROVE  PhoneInv'
<1>1. PhoneTypeInv'
  BY DEF PhoneInv, PhoneTypeInv
<1>2. AwaitInv' /\ WriteInv'
  BY DEF PhoneInv, AwaitInv, WriteInv, Current
<1>3. \A e \in Records : row[e] = "synced" /\ IsWritten(e) => IsWritten(e)' \/ e \in unsaved'
  BY DEF IsWritten
<1>4. SyncedInv'
  BY <1>3, SyncedKept DEF PhoneInv
<1> QED BY <1>1, <1>2, <1>4 DEF PhoneInv

(* Nothing is waited for any more *)
NoneAwaited == \A p \in posts : ~p.awaited

LEMMA AbandonStep ==
  ASSUME PhoneInv, posts' = Abandoned, UNCHANGED <<ledger, unsaved>>, row' \in [Records -> Statuses],
         \A e \in Records : row'[e] = "synced" => row[e] = "synced", sync' = SyncIdle
  PROVE  PhoneInv'
<1>1. ASSUME NEW q \in posts'
      PROVE  /\ IsPost(q) /\ q.awaited = FALSE
             /\ \E p \in posts : q = [p EXCEPT !.awaited = FALSE] /\ q.at = p.at /\ q.event = p.event
  <2>1. PICK p \in posts : q = [p EXCEPT !.awaited = FALSE]
    BY DEF Abandoned
  <2>2. IsPost(p)
    BY DEF PhoneInv, PhoneTypeInv
  <2> QED BY <2>1, <2>2, Unawaited
<1>2. PhoneTypeInv'
  BY <1>1 DEF PhoneInv, PhoneTypeInv, SyncIdle
<1>3. AwaitInv'
  BY <1>1 DEF AwaitInv
<1>4. WriteInv'
  <2>1. \A p, q \in posts : p.at = "written" /\ q.at = "written" => p = q
    BY DEF PhoneInv, WriteInv
  <2>2. ASSUME NEW p \in posts', NEW q \in posts', p.at = "written", q.at = "written" PROVE p = q
    <3>1. PICK b \in posts : p = [b EXCEPT !.awaited = FALSE] /\ p.at = b.at
      BY <1>1
    <3>2. PICK c \in posts : q = [c EXCEPT !.awaited = FALSE] /\ q.at = c.at
      BY <1>1
    <3>3. b = c
      BY <2>1, <2>2, <3>1, <3>2
    <3> QED BY <3>1, <3>2, <3>3
  <2>3. \A q \in posts' : \E p \in posts : q.at = p.at /\ q.event = p.event
    BY <1>1
  <2> QED BY <2>2, <2>3 DEF PhoneInv, WriteInv
<1>5. \A e \in Records : IsWritten(e) => IsWritten(e)'
  <2> SUFFICES ASSUME NEW p \in posts, p.at = "written" PROVE \E q \in posts' : q.event = p.event /\ q.at = "written"
    BY DEF IsWritten
  <2>1. [p EXCEPT !.awaited = FALSE] \in posts'
    BY DEF Abandoned
  <2>2. IsPost(p)
    BY DEF PhoneInv, PhoneTypeInv
  <2> QED BY <2>1, <2>2, Unawaited
<1>6. SyncedInv'
  BY <1>5, SyncedKept DEF PhoneInv
<1> QED BY <1>2, <1>3, <1>4, <1>6 DEF PhoneInv

-----------------------------------------------------------------------------
(* The steps *)

LEMMA PhoneInitially == Init => PhoneInv
BY DEF Init, SyncIdle, Statuses, PhoneInv, PhoneTypeInv, AwaitInv, WriteInv, SyncedInv

(* The answer to the request of the current record, or to no request *)
LEMMA PhoneAnswerStep ==
  ASSUME PhoneInv, NEW p \in posts, sync.at = "posted", p.awaited, Leaves(p), UNCHANGED <<ledger, unsaved>>,
         NEW status \in {"synced", "failed"}, row' = [row EXCEPT ![Current] = status],
         status = "synced" => IsAnswered(p), sync'.at # "posted",
         sync' = [at |-> sync'.at, token |-> sync'.token, todo |-> sync'.todo]
  PROVE  PhoneInv'
<1> DEFINE q == [p EXCEPT !.awaited = FALSE]
<1>1. IsPost(q) /\ q.at = p.at /\ q.event = p.event /\ ~q.awaited
  BY Unawaited DEF PhoneInv, PhoneTypeInv
<1>2. /\ posts' \subseteq (posts \ {p}) \cup {q} /\ (p.at # "written" => posts' \subseteq posts \ {p})
      /\ posts \ {p} \subseteq posts' /\ (p.at = "written" => q \in posts')
  BY DEF Leaves
<1> HIDE DEF q
<1>3. p.event = Current /\ \A r \in posts : r # p => ~r.awaited
  BY DEF PhoneInv, AwaitInv
<1>4. PhoneTypeInv'
  BY <1>1, <1>2 DEF PhoneInv, PhoneTypeInv, Statuses
<1>5. AwaitInv'
  BY <1>1, <1>2, <1>3 DEF AwaitInv
<1>6. WriteInv'
  BY <1>1, <1>2 DEF PhoneInv, WriteInv
<1>7. \A e \in Records : IsWritten(e) => IsWritten(e)'
  BY <1>1, <1>2 DEF IsWritten
<1>8. SyncedInv'
  <2> SUFFICES ASSUME NEW e \in Records, row'[e] = "synced"
               PROVE  ledger[e] > 0 \/ IsWritten(e)' \/ e \in unsaved
    BY DEF SyncedInv
  <2>1. CASE e = Current
    <3>1. status = "synced"
      BY <2>1 DEF PhoneInv, PhoneTypeInv
    <3>2. p.at \in {"written", "recorded"}
      BY <3>1 DEF IsAnswered
    <3>3. CASE p.at = "recorded"
      BY <1>3, <2>1, <3>3 DEF PhoneInv, WriteInv
    <3>4. CASE p.at = "written"
      BY <1>3, <1>7, <2>1, <3>4 DEF IsWritten
    <3> QED BY <3>2, <3>3, <3>4
  <2>2. CASE e # Current
    BY <1>7, <2>2 DEF PhoneInv, PhoneTypeInv, SyncedInv
  <2> QED BY <2>1, <2>2
<1> QED BY <1>4, <1>5, <1>6, <1>8 DEF PhoneInv

LEMMA AnsweredStep ==
  ASSUME PhoneInv, NEW p \in posts, Answered(p) \/ CutShort(p)
  PROVE  PhoneInv'
<1>1. /\ sync.at = "posted" /\ p.awaited /\ Leaves(p) /\ UNCHANGED <<ledger, unsaved>>
  BY DEF Answered, CutShort, desktop
<1>2. PICK status \in {"synced", "failed"} :
        /\ row' = [row EXCEPT ![Current] = status] /\ (status = "synced" => IsAnswered(p))
        /\ sync' = NextRecord \/ sync' = [sync EXCEPT !.at = "refused"]
  BY DEF Answered, CutShort, Outcome
<1>3. /\ sync'.at # "posted"
      /\ sync' = [at |-> sync'.at, token |-> sync'.token, todo |-> sync'.todo]
  <2>1. sync = [at |-> sync.at, token |-> sync.token, todo |-> sync.todo]
    BY DEF PhoneInv, PhoneTypeInv
  <2>2. CASE sync' = NextRecord
    BY <2>1, <2>2 DEF NextRecord
  <2>3. CASE sync' = [sync EXCEPT !.at = "refused"]
    BY <2>1, <2>3
  <2> QED BY <1>2, <2>2, <2>3
<1> QED BY <1>1, <1>2, <1>3, PhoneAnswerStep

LEMMA BeginStep ==
  ASSUME PhoneInv, BeginAttempt
  PROVE  PhoneInv'
<1> DEFINE p == Post(Current, sync.token)
<1>1. /\ sync.at = "ready" /\ row' = [row EXCEPT ![Current] = "syncing"] /\ posts' = posts \cup {p}
      /\ sync' = [sync EXCEPT !.at = "posted"] /\ UNCHANGED <<ledger, unsaved>>
  BY DEF BeginAttempt, desktop
<1>2. IsPost(p) /\ p.event = Current /\ p.awaited /\ p.at = "sent"
  BY DEF Post, IsPost, Places
<1> HIDE DEF p
<1>3. sync'.at = "posted" /\ sync'.todo = sync.todo
      /\ sync' = [at |-> sync'.at, token |-> sync'.token, todo |-> sync'.todo]
  BY <1>1 DEF PhoneInv, PhoneTypeInv
<1>4. \A r \in posts : ~r.awaited
  BY <1>1 DEF PhoneInv, AwaitInv
<1>5. PhoneTypeInv'
  BY <1>1, <1>2, <1>3 DEF PhoneInv, PhoneTypeInv, Statuses
<1>6. AwaitInv'
  BY <1>1, <1>2, <1>3, <1>4 DEF AwaitInv, Current
<1>7. WriteInv'
  BY <1>1, <1>2 DEF PhoneInv, WriteInv
<1>8. \A e \in Records : IsWritten(e) => IsWritten(e)'
  BY <1>1 DEF IsWritten
<1>9. SyncedInv'
  BY <1>1, <1>8, SyncedKept DEF PhoneInv, PhoneTypeInv
<1> QED BY <1>5, <1>6, <1>7, <1>9 DEF PhoneInv

(* The synchronisation goes on without a request of its own *)
LEMMA SyncStep ==
  ASSUME PhoneInv, UNCHANGED <<row, posts, ledger, unsaved>>, sync.at # "posted",
         sync' = [at |-> sync'.at, token |-> sync'.token, todo |-> sync'.todo]
  PROVE  PhoneInv'
<1>1. PhoneTypeInv'
  BY DEF PhoneInv, PhoneTypeInv
<1>2. AwaitInv'
  BY DEF PhoneInv, AwaitInv
<1> QED BY <1>1, <1>2 DEF PhoneInv, WriteInv, SyncedInv, IsWritten

LEMMA DesktopStep ==
  ASSUME PhoneInv, NEW p \in posts, DesktopSteps(p)
  PROVE  PhoneInv'
<1>1. UNCHANGED <<row, sync>> /\ IsPost(p)
  BY DEF DesktopSteps, Reads, Writes, Commits, Dropped, phone, flows, PhoneInv, PhoneTypeInv
<1>2. ASSUME NEW at \in Places, Moves(p, at), p.at # "written", UNCHANGED <<ledger, unsaved>>,
             at = "written" => /\ \A q \in posts : q.at # "written"
                               /\ \A e \in Records : p.event = e => ledger[e] = 0,
             at = "recorded" => \A e \in Records : p.event = e => ledger[e] > 0
      PROVE  PhoneInv'
  <2> DEFINE q == [p EXCEPT !.at = at]
  <2>1. /\ IsPost(q) /\ q.at = at /\ q.event = p.event /\ q.awaited = p.awaited
        /\ posts' = (posts \ {p}) \cup {q}
    BY <1>1, <1>2, Moved DEF Moves
  <2> HIDE DEF q
  <2>2. PhoneTypeInv'
    BY <1>1, <1>2, <2>1 DEF PhoneInv, PhoneTypeInv
  <2>3. AwaitInv'
    BY <1>1, <2>1 DEF PhoneInv, AwaitInv, Current
  <2>4. WriteInv'
    BY <1>2, <2>1 DEF PhoneInv, WriteInv
  <2>5. \A e \in Records : IsWritten(e) => IsWritten(e)'
    BY <1>2, <2>1 DEF IsWritten
  <2>6. SyncedInv'
    BY <1>1, <1>2, <2>5, SyncedKept DEF PhoneInv
  <2> QED BY <2>2, <2>3, <2>4, <2>6 DEF PhoneInv
<1>3. CASE Reads(p)
  <2>1. PICK at \in Places \ {"written"} :
          Moves(p, at) /\ (at = "recorded" => ledger[p.event] # 0)
    BY <1>3 DEF Reads, Places
  <2>2. p.at # "written" /\ UNCHANGED <<ledger, unsaved>> /\ \A e \in Records : ledger[e] \in Nat
    BY <1>3 DEF Reads, desktop, PhoneInv, PhoneTypeInv
  <2> QED BY <1>2, <2>1, <2>2
<1>4. CASE Writes(p)
  <2>1. PICK at \in {"failed", "written"} :
          Moves(p, at) /\ (at = "written" => ~(ledger[p.event] > 0))
    BY <1>4 DEF Writes
  <2>2. /\ p.at # "written" /\ UNCHANGED <<ledger, unsaved>> /\ \A e \in Records : ledger[e] \in Nat
        /\ \A q \in posts : q.at # "written"
    BY <1>4 DEF Writes, desktop, PhoneInv, PhoneTypeInv
  <2> QED BY <1>2, <2>1, <2>2 DEF Places
<1>5. CASE Commits(p)
  <2> DEFINE q == [p EXCEPT !.at = "recorded"]
  <2>1. /\ p.at = "written" /\ ledger' = [ledger EXCEPT ![p.event] = @ + 1] /\ UNCHANGED unsaved
        /\ posts' = (posts \ {p}) \cup {q}
    BY <1>5 DEF Commits, Moves, Enters
  <2>2. IsPost(q) /\ q.at = "recorded" /\ q.event = p.event /\ q.awaited = p.awaited
    BY <1>1, Moved DEF Places
  <2> HIDE DEF q
  <2>30. ledger \in [Records -> Nat]
    BY DEF PhoneInv, PhoneTypeInv
  <2> DEFINE event == p.event
  <2>31. ledger' = [ledger EXCEPT ![event] = @ + 1]
    BY <2>1
  <2> HIDE DEF event
  <2>32. \A e \in Records : ledger[e] \in Nat /\ ledger[e] + 1 \in Nat
    BY <2>30
  <2>3. ledger' \in [Records -> Nat]
    BY <2>30, <2>31, <2>32
  <2>4. \A e \in Records : ledger'[e] = IF e = p.event THEN 1 ELSE ledger[e]
    BY <2>1 DEF PhoneInv, PhoneTypeInv, WriteInv
  <2>5. PhoneTypeInv'
    BY <1>1, <2>1, <2>2, <2>3 DEF PhoneInv, PhoneTypeInv
  <2>6. AwaitInv'
    BY <1>1, <2>1, <2>2 DEF PhoneInv, AwaitInv, Current
  <2>7. \A r \in posts' : r.at # "written"
    BY <2>1, <2>2 DEF PhoneInv, WriteInv
  <2>8. WriteInv'
    BY <2>1, <2>2, <2>4, <2>7 DEF PhoneInv, WriteInv
  <2>9. \A e \in Records : (ledger[e] > 0 => ledger'[e] > 0)
                            /\ (IsWritten(e) => IsWritten(e)' \/ ledger'[e] > 0)
    <3> SUFFICES ASSUME NEW e \in Records
                 PROVE  (ledger[e] > 0 => ledger'[e] > 0) /\ (IsWritten(e) => IsWritten(e)' \/ ledger'[e] > 0)
      OBVIOUS
    <3>1. CASE e = p.event
      BY <2>4, <3>1
    <3>2. CASE e # p.event
      BY <2>1, <2>4, <3>2 DEF IsWritten
    <3> QED BY <3>1, <3>2
  <2>10. SyncedInv'
    BY <1>1, <2>1, <2>9, SyncedKept DEF PhoneInv
  <2> QED BY <2>5, <2>6, <2>8, <2>10 DEF PhoneInv
<1>6. CASE Dropped(p)
  <2>1. posts' = posts \ {p} /\ p.at # "written" /\ UNCHANGED <<row, sync, ledger, unsaved>>
    BY <1>6 DEF Dropped, phone, flows, desktop
  <2> QED BY <2>1, LeaveStep
<1> QED BY <1>3, <1>4, <1>5, <1>6 DEF DesktopSteps

LEMMA PhoneStep == PhoneInv /\ [Next]_vars => PhoneInv'
<1> SUFFICES ASSUME PhoneInv, [Next]_vars PROVE PhoneInv'
  OBVIOUS
<1> USE DEF phone, flows, desktop, counts
<1>1. sync = [at |-> sync.at, token |-> sync.token, todo |-> sync.todo]
  BY DEF PhoneInv, PhoneTypeInv
<1>2. ASSUME NEW e \in Records, Capture(e) PROVE PhoneInv'
  <2>1. row' = [row EXCEPT ![e] = "pending"] /\ UNCHANGED <<sync, posts, ledger, unsaved>>
    BY <1>2 DEF Capture
  <2>2. row' \in [Records -> Statuses] /\ \A d \in Records : row'[d] = "synced" => row[d] = "synced"
    BY <2>1 DEF PhoneInv, PhoneTypeInv, Statuses
  <2> QED BY <2>1, <2>2 DEF PhoneInv, PhoneTypeInv, AwaitInv, WriteInv, SyncedInv, IsWritten, Current
<1>3. CASE AutoSync \/ ManualSync
  <2>1. sync.at = "idle" /\ UNCHANGED <<row, posts, ledger, unsaved>>
    BY <1>3 DEF AutoSync, ManualSync, Starts
  <2>2. \E todo : sync' = [at |-> "listed", token |-> 0, todo |-> todo]
    BY <1>3 DEF AutoSync, ManualSync, Starts
  <2> QED BY <2>1, <2>2, SyncStep
<1>4. CASE ReadToken \/ SyncProbed \/ AllDone \/ SyncForgetsToken \/ ProbeTimesOut
  <2>1. sync.at # "posted" /\ UNCHANGED <<row, posts, ledger, unsaved>>
    BY <1>4 DEF ReadToken, SyncProbed, AllDone, SyncForgetsToken, ProbeTimesOut
  <2>2. sync' = [at |-> sync'.at, token |-> sync'.token, todo |-> sync'.todo]
    BY <1>1, <1>4 DEF ReadToken, SyncProbed, AllDone, SyncForgetsToken, ProbeTimesOut, SyncIdle
  <2> QED BY <2>1, <2>2, SyncStep
<1>5. CASE BeginAttempt
  BY <1>5, BeginStep
<1>6. ASSUME NEW p \in posts, Answered(p) \/ CutShort(p) PROVE PhoneInv'
  BY <1>6, AnsweredStep
<1>7. CASE TimesOut \/ PhoneRestarts
  <2>1. posts' = Abandoned /\ UNCHANGED <<ledger, unsaved>> /\ sync' = SyncIdle
        /\ (row' = row \/ row' = [row EXCEPT ![Current] = "failed"])
    BY <1>7 DEF TimesOut, PhoneRestarts, Outcome
  <2>2. row' \in [Records -> Statuses] /\ \A d \in Records : row'[d] = "synced" => row[d] = "synced"
    BY <2>1 DEF PhoneInv, PhoneTypeInv, Statuses
  <2> QED BY <2>1, <2>2, AbandonStep
<1>8. CASE LookSteps \/ PairSteps \/ RevokeDevice \/ CreateAccount \/ UNCHANGED vars
  <2>1. UNCHANGED <<row, sync, posts, ledger, unsaved>>
    BY <1>8 DEF LookSteps, LookStarts, LookProbed, LookForgetsToken, LookTimesOut, PairSteps,
       PairStarts, PairDevice, PairStores, PairFails, RevokeDevice, CreateAccount, vars
  <2> QED BY <2>1, LeaveStep
<1>9. ASSUME NEW p \in posts, DesktopSteps(p) PROVE PhoneInv'
  BY <1>9, DesktopStep
<1>10. CASE DesktopRestarts
  <2>1. posts' = {} /\ UNCHANGED <<row, sync, ledger>>
    BY <1>10 DEF DesktopRestarts
  <2>2. unsaved' = unsaved \cup {p.event : p \in {q \in posts : q.at = "written" /\ row[q.event] = "synced"}}
    BY <1>10 DEF DesktopRestarts
  <2> QED BY <2>1, <2>2, LeaveStep
<1> QED BY <1>2, <1>3, <1>4, <1>5, <1>6, <1>7, <1>8, <1>9, <1>10 DEF Next, SyncSteps

(* In every reachable state the invariant holds *)
THEOREM SyncIsSound == Spec => []PhoneInv
<1> QED BY PhoneInitially, PhoneStep, PTL DEF Spec

(* No record is entered into the ledger twice, whenever the session is     *)
(* committed (services/mobile_sync.py, ingest_mobile_event).               *)
EnteredOnce == \A e \in Records : ledger[e] <= 1
THEOREM EnteredOnceAlways == Spec => []EnteredOnce
<1>1. PhoneInv => EnteredOnce
  BY DEF PhoneInv, WriteInv, EnteredOnce
<1> QED BY <1>1, SyncIsSound, PTL

(* The phone and the ledger agree, with answers that leave before the      *)
(* session commits: a synced record is entered, or its session is about to *)
(* commit, or the desktop stopped just between the two.                    *)
THEOREM RecordedOnceAlways == Spec => []RecordedOnce
<1>1. PhoneInv => RecordedOnce
  BY DEF PhoneInv, WriteInv, SyncedInv, RecordedOnce, IsRecorded, IsWritten
<1> QED BY <1>1, SyncIsSound, PTL

-----------------------------------------------------------------------------
(* The dashboard's inductive invariant: who sets the next timer is always  *)
(* known, and the poll whose answer counts is for what is chosen.          *)

CallPlaces == {"none", "waiting", "sent", "served", "legacy", "answered"}
GroupIds == Groups \cup {0, Default}
Calls == [at : CallPlaces, group : GroupIds, version : Nat, aborted : BOOLEAN, mine : BOOLEAN]
Dashes == [group : GroupIds, version : Nat]
Effects == [group : GroupIds, dash : Dashes, timer : BOOLEAN]

DashTypeInv ==
  /\ host \in [kind : {"native", "legacy"}, ready : BOOLEAN]
  /\ market \in Nat /\ dash \in Dashes /\ chosen \in GroupIds
  /\ effect \in Effects /\ poll \in Calls
  /\ page \in [is : {"shown", "hidden", "gone"}, hides : Nat]

(* The poll's answer is taken *)
Counts(c) == c.at # "none" /\ c.mine /\ ~c.aborted

TimerInv == page.is # "gone" => effect.timer \/ Counts(poll)
GoneInv == page.is = "gone" => ~Counts(poll) /\ ~effect.timer
GroupInv ==
  /\ effect.group # 0 => effect.group = chosen
  /\ Counts(poll) /\ poll.group # 0 => poll.group = chosen

DashInv == DashTypeInv /\ TimerInv /\ GoneInv /\ GroupInv

LEMMA DashInitially == DashInit => DashInv
<1> SUFFICES ASSUME NEW kind \in {"native", "legacy"}, DashStart(kind, "shown") PROVE DashInv
  BY DEF DashInit
<1> USE DEF DashStart
<1>1. DashTypeInv
  BY DEF DashTypeInv, NoDash, NoCall, Effects, Dashes, Calls, CallPlaces, GroupIds
<1> QED BY <1>1 DEF DashInv, TimerInv, GoneInv, GroupInv, Counts, NoCall

(* A call that is cancelled or goes on is one still *)
LEMMA CallGoesOn ==
  ASSUME NEW c \in Calls
  PROVE  /\ Abort(c) \in Calls /\ [Abort(c) EXCEPT !.mine = FALSE] \in Calls
         /\ ~[Abort(c) EXCEPT !.mine = FALSE].mine
         /\ Sent(c) \in Calls
         /\ c.at # "none" => (Counts(c) => Counts(Sent(c))) /\ (Counts(Sent(c)) => Counts(c))
         /\ Counts(c) => Sent(c).group = c.group
<1>1. Abort(c) \in Calls
  BY DEF Abort, Calls, CallPlaces, NoCall, GroupIds
<1>2. [Abort(c) EXCEPT !.mine = FALSE] \in Calls /\ ~[Abort(c) EXCEPT !.mine = FALSE].mine
  BY <1>1 DEF Calls
<1>3. Sent(c) \in Calls
  BY DEF Sent, Calls, CallPlaces, NoCall, GroupIds
<1>4. /\ c.at # "none" => (Counts(c) => Counts(Sent(c))) /\ (Counts(Sent(c)) => Counts(c))
      /\ Counts(c) => Sent(c).group = c.group
  <2>1. CASE c.aborted
    BY <2>1 DEF Sent, Counts, NoCall
  <2>2. CASE ~c.aborted /\ c.at # "none"
    <3>1. Sent(c).at = "sent" /\ Sent(c).mine = c.mine /\ ~Sent(c).aborted /\ Sent(c).group = c.group
      BY <2>2 DEF Sent, Calls
    <3> QED BY <2>2, <3>1 DEF Counts
  <2> QED BY <2>1, <2>2 DEF Counts
<1> QED BY <1>1, <1>2, <1>3, <1>4

LEMMA CallIsServed ==
  ASSUME DashTypeInv, NEW c \in Calls, Serving(c)
  PROVE  /\ Served(c) \in Calls /\ Served(c).at # "none"
         /\ Served(c).mine = c.mine /\ Served(c).aborted = c.aborted /\ Served(c).group = c.group
<1>1. CASE c.at = "sent" /\ host.kind = "native"
  BY <1>1 DEF Served, Calls, CallPlaces, DashTypeInv
<1>2. CASE c.at = "sent" /\ host.kind = "legacy"
  BY <1>2 DEF Served, Calls, CallPlaces, DashTypeInv
<1>3. CASE c.at = "legacy"
  BY <1>3 DEF Served, Calls, CallPlaces, DashTypeInv
<1> QED BY <1>1, <1>2, <1>3 DEF Serving, DashTypeInv

(* What is adopted is the choice, if it was asked for as such *)
LEMMA AdoptStep ==
  ASSUME DashInv, NEW candidate \in Dashes, NEW expected \in GroupIds,
         Adopt(candidate, expected)
  PROVE  /\ dash' \in Dashes /\ chosen' \in GroupIds /\ (chosen # 0 => chosen' = chosen)
         /\ dash' # dash =>
              /\ chosen = expected => chosen' = dash'.group
              /\ dash.group = dash'.group => dash.version <= dash'.version
<1>1. CASE ~ShouldAdopt(candidate, expected)
  BY <1>1 DEF Adopt, DoesNotAdopt, DashInv, DashTypeInv
<1>2. CASE ShouldAdopt(candidate, expected)
  <2>1. dash' = candidate /\ chosen' = IF chosen = 0 THEN candidate.group ELSE chosen
    BY <1>2 DEF Adopt, Adopts
  <2>2. dash' \in Dashes /\ chosen' \in GroupIds /\ (chosen # 0 => chosen' = chosen)
    BY <2>1 DEF DashInv, DashTypeInv, Dashes
  <2>3. chosen = expected => chosen' = dash'.group
    BY <1>2, <2>1 DEF ShouldAdopt
  <2>4. dash.group = dash'.group => dash.version <= dash'.version
    BY <1>2, <2>1 DEF ShouldAdopt, NoDash, DashInv, DashTypeInv, Dashes
  <2> QED BY <2>2, <2>3, <2>4
<1> QED BY <1>1, <1>2

(* The dashboard a poll reads, and a new poll *)
LEMMA SnapshotTyped ==
  ASSUME NEW c \in Calls
  PROVE  Snapshot(c) \in Dashes /\ (c.group # 0 => Snapshot(c).group = c.group)
BY DEF Snapshot, Calls, Dashes, GroupIds

LEMMA CallTyped ==
  ASSUME NEW g \in GroupIds
  PROVE  Call(g) \in Calls /\ Counts(Call(g)) /\ Call(g).group = g
BY DEF Call, Calls, CallPlaces, Counts

(* A poll that counts is taken: its answer, or its failure, sets the timer *)
LEMMA PollEndsStep ==
  ASSUME DashInv, PollAnswers \/ PollFails
  PROVE  DashInv'
<1>1. /\ poll' = NoCall /\ UNCHANGED <<host, market, page>>
      /\ effect' = (IF Counts(poll) THEN [effect EXCEPT !.timer = TRUE] ELSE effect)
  BY DEF PollAnswers, PollFails, Counts, Ending, Outstanding
<1>2. dash' \in Dashes /\ chosen' \in GroupIds /\ (chosen # 0 => chosen' = chosen)
  <2>1. CASE PollFails
    BY <2>1 DEF PollFails, DashInv, DashTypeInv
  <2>2. CASE PollAnswers
    <3>1. poll \in Calls /\ poll.group \in GroupIds
      BY DEF DashInv, DashTypeInv, Calls
    <3>2. CASE DoesNotAdopt
      BY <3>2 DEF DoesNotAdopt, DashInv, DashTypeInv
    <3>3. CASE Adopt(Snapshot(poll), poll.group)
      BY <3>1, <3>3, SnapshotTyped, AdoptStep
    <3> QED BY <2>2, <3>2, <3>3 DEF PollAnswers
  <2> QED BY <2>1, <2>2
<1>3. NoCall \in Calls /\ ~Counts(NoCall)
  BY DEF NoCall, Calls, CallPlaces, GroupIds, Counts
<1>4. effect' \in Effects /\ effect'.group = effect.group
  BY <1>1 DEF DashInv, DashTypeInv, Effects
<1>5. effect'.timer = (Counts(poll) \/ effect.timer)
  BY <1>1 DEF DashInv, DashTypeInv, Effects
<1>6. DashTypeInv'
  BY <1>1, <1>2, <1>3, <1>4 DEF DashInv, DashTypeInv
<1>7. TimerInv' /\ GoneInv'
  BY <1>1, <1>3, <1>5 DEF DashInv, TimerInv, GoneInv
<1>8. GroupInv'
  BY <1>1, <1>2, <1>3, <1>4 DEF DashInv, GroupInv
<1> QED BY <1>6, <1>7, <1>8 DEF DashInv

(* The user chooses, or goes: the poll under way no longer counts *)
LEMMA UserStep ==
  ASSUME DashInv, Unmounts \/ Hides \/ Shows \/ \E g \in Groups : SelectGroup(g)
  PROVE  DashInv'
<1> DEFINE dropped == [Abort(poll) EXCEPT !.mine = FALSE]
<1>1. dropped \in Calls /\ ~dropped.mine
  BY CallGoesOn DEF DashInv, DashTypeInv
<1>2. ~Counts(dropped)
  BY <1>1 DEF Counts
<1> HIDE DEF dropped
<1>3. CASE Hides \/ Shows
  <2>1. /\ UNCHANGED <<host, market, dash, chosen, poll>>
        /\ effect' = effect \/ effect' = [effect EXCEPT !.timer = TRUE]
        /\ page.is # "gone" /\ page'.is \in {"shown", "hidden"} /\ page'.hides \in Nat
        /\ page' \in [is : {"shown", "hidden", "gone"}, hides : Nat]
    BY <1>3 DEF Hides, Shows, DashInv, DashTypeInv
  <2>2. effect' \in Effects /\ effect'.group = effect.group /\ (effect.timer => effect'.timer)
    BY <2>1 DEF DashInv, DashTypeInv, Effects
  <2> QED BY <2>1, <2>2 DEF DashInv, DashTypeInv, TimerInv, GoneInv, GroupInv
<1>4. CASE Unmounts
  <2>1. /\ poll' = dropped /\ UNCHANGED <<market, dash, chosen>>
        /\ effect' = [effect EXCEPT !.timer = FALSE] /\ host' = [host EXCEPT !.ready = TRUE]
        /\ page' = [page EXCEPT !.is = "gone"]
    BY <1>4 DEF Unmounts, dropped
  <2>2. effect' \in Effects /\ effect'.group = effect.group /\ ~effect'.timer
    BY <2>1 DEF DashInv, DashTypeInv, Effects
  <2>3. host' \in [kind : {"native", "legacy"}, ready : BOOLEAN]
    BY <2>1 DEF DashInv, DashTypeInv
  <2>4. page' \in [is : {"shown", "hidden", "gone"}, hides : Nat] /\ page'.is = "gone"
    BY <2>1 DEF DashInv, DashTypeInv
  <2>5. DashTypeInv'
    BY <1>1, <2>1, <2>2, <2>3, <2>4 DEF DashInv, DashTypeInv
  <2> QED BY <1>2, <2>1, <2>2, <2>4, <2>5 DEF DashInv, TimerInv, GoneInv, GroupInv
<1>5. ASSUME NEW g \in Groups, SelectGroup(g) PROVE DashInv'
  <2>1. /\ poll' = dropped /\ UNCHANGED <<host, market, dash, page>> /\ chosen' = g
        /\ effect' = [effect EXCEPT !.group = g, !.timer = TRUE] /\ page.is # "gone"
    BY <1>5 DEF SelectGroup, dropped
  <2>2. g \in GroupIds
    BY DEF GroupIds
  <2>3. effect' \in Effects /\ effect'.group = g /\ effect'.timer
    BY <2>1, <2>2 DEF DashInv, DashTypeInv, Effects
  <2> QED BY <1>1, <1>2, <2>1, <2>2, <2>3 DEF DashInv, DashTypeInv, TimerInv, GoneInv, GroupInv
<1> QED BY <1>3, <1>4, <1>5

(* The poll begins and goes on *)
LEMMA PollStep ==
  ASSUME DashInv, Rerender \/ TimerFires \/ PollIsSent \/ PollIsServed
  PROVE  DashInv'
<1>1. poll \in Calls /\ effect \in Effects /\ effect.group \in GroupIds
  BY DEF DashInv, DashTypeInv, Effects
<1>2. CASE Rerender
  <2>1. /\ effect' = [group |-> chosen, dash |-> dash, timer |-> TRUE] /\ page.is # "gone"
        /\ poll' = [poll EXCEPT !.mine = FALSE] /\ UNCHANGED <<host, market, dash, chosen, page>>
    BY <1>2 DEF Rerender
  <2>2. poll' \in Calls /\ ~poll'.mine
    BY <1>1, <2>1 DEF Calls
  <2>3. effect' \in Effects /\ effect'.group = chosen /\ effect'.timer
    BY <2>1 DEF DashInv, DashTypeInv, Effects
  <2> QED BY <2>1, <2>2, <2>3 DEF DashInv, DashTypeInv, TimerInv, GoneInv, GroupInv, Counts
<1>3. CASE TimerFires
  <2>1. /\ effect' = [effect EXCEPT !.timer = FALSE] /\ page.is = "shown"
        /\ poll' = Call(effect.group) /\ UNCHANGED <<host, market, dash, chosen, page>>
    BY <1>3 DEF TimerFires
  <2>2. poll' \in Calls /\ Counts(poll') /\ poll'.group = effect.group
    BY <1>1, <2>1, CallTyped
  <2>3. effect' \in Effects /\ effect'.group = effect.group
    BY <2>1 DEF DashInv, DashTypeInv, Effects
  <2> QED BY <2>1, <2>2, <2>3 DEF DashInv, DashTypeInv, TimerInv, GoneInv, GroupInv
<1>4. CASE PollIsSent \/ PollIsServed
  <2>1. UNCHANGED <<host, market, dash, chosen, effect, page>>
    BY <1>4 DEF PollIsSent, PollIsServed
  <2>2. /\ poll' \in Calls /\ (Counts(poll) => Counts(poll')) /\ (Counts(poll') => Counts(poll))
        /\ Counts(poll) => poll'.group = poll.group
    <3>1. CASE PollIsSent
      BY <1>1, <3>1, CallGoesOn DEF PollIsSent
    <3>2. CASE PollIsServed
      <4>1. poll' = Served(poll) /\ Serving(poll)
        BY <3>2 DEF PollIsServed
      <4>2. /\ poll' \in Calls /\ poll'.at # "none" /\ poll.at # "none"
            /\ poll'.mine = poll.mine /\ poll'.aborted = poll.aborted /\ poll'.group = poll.group
        BY <1>1, <4>1, CallIsServed DEF DashInv, Serving
      <4> QED BY <4>2 DEF Counts
    <3> QED BY <1>4, <3>1, <3>2
  <2> QED BY <2>1, <2>2 DEF DashInv, DashTypeInv, TimerInv, GoneInv, GroupInv
<1> QED BY <1>2, <1>3, <1>4

LEMMA PushStep ==
  ASSUME DashInv, NEW g \in Groups, NEW version \in 1 .. MaxMarket, HostPushes(g, version)
  PROVE  DashInv'
<1> DEFINE candidate == [group |-> g, version |-> version]
<1>1. candidate \in Dashes /\ Adopt(candidate, chosen) /\ UNCHANGED <<host, market, effect, poll, page>>
  BY DEF HostPushes, Dashes, GroupIds
<1> HIDE DEF candidate
<1>2. dash' \in Dashes /\ chosen' \in GroupIds /\ (chosen # 0 => chosen' = chosen)
  BY <1>1, AdoptStep DEF DashInv, DashTypeInv
<1> QED BY <1>1, <1>2 DEF DashInv, DashTypeInv, TimerInv, GoneInv, GroupInv

LEMMA DashStep == DashInv /\ [DashNext]_dashVars => DashInv'
<1> SUFFICES ASSUME DashInv, [DashNext]_dashVars PROVE DashInv'
  OBVIOUS
<1>1. CASE UNCHANGED <<host, dash, chosen, effect, poll, page>> /\ market' \in Nat
  BY <1>1 DEF DashInv, DashTypeInv, TimerInv, GoneInv, GroupInv
<1>2. CASE BridgeReady
  <2>1. /\ host' = [host EXCEPT !.ready = TRUE]
        /\ UNCHANGED <<market, dash, chosen, effect, poll, page>>
    BY <1>2 DEF BridgeReady
  <2>2. host' \in [kind : {"native", "legacy"}, ready : BOOLEAN]
    BY <2>1 DEF DashInv, DashTypeInv
  <2> QED BY <2>1, <2>2 DEF DashInv, DashTypeInv, TimerInv, GoneInv, GroupInv
<1>3. CASE MarketMoves \/ UNCHANGED dashVars
  BY <1>1, <1>3 DEF MarketMoves, dashVars, DashInv, DashTypeInv
<1>4. ASSUME NEW g \in Groups, ToggleGroup(g) \/ LoadEnds(g) PROVE DashInv'
  BY <1>1, <1>4 DEF ToggleGroup, LoadEnds, DashInv, DashTypeInv
<1> QED BY <1>2, <1>3, <1>4, UserStep, PollStep, PollEndsStep, PushStep DEF DashNext

(* In every reachable state of the dashboard the invariant holds *)
THEOREM DashIsSound == DashInit /\ [][DashNext]_dashVars => []DashInv
<1> QED BY DashInitially, DashStep, PTL

(* The poll does not die out while the widget is there (App.tsx, run).     *)
THEOREM PollGoesOnAlways == DashInit /\ [][DashNext]_dashVars => []PollGoesOn
<1>1. DashInv => PollGoesOn
  BY DEF DashInv, TimerInv, PollGoesOn, Counts
<1> QED BY <1>1, DashIsSound, PTL

(* Whatever is adopted is of the group that is chosen, and no older        *)
(* (state.ts, shouldAdoptSnapshot; App.tsx, adopt).                        *)
LEMMA AdoptsTheChoice ==
  ASSUME DashInv, DashNext, dash' # dash
  PROVE  /\ chosen' = dash'.group \/ (poll.at # "none" /\ poll.group = 0)
         /\ page.is # "gone"
         /\ dash.group = dash'.group => dash.version <= dash'.version
<1>1. CASE PollAnswers
  <2>1. Counts(poll) /\ Adopt(Snapshot(poll), poll.group)
    BY <1>1 DEF PollAnswers, DoesNotAdopt, Counts, Ending
  <2>2. poll \in Calls /\ poll.group \in GroupIds
    BY DEF DashInv, DashTypeInv, Calls
  <2>3. /\ chosen = poll.group => chosen' = dash'.group
        /\ dash.group = dash'.group => dash.version <= dash'.version
    BY <2>1, <2>2, SnapshotTyped, AdoptStep
  <2> QED BY <2>1, <2>3 DEF DashInv, GroupInv, GoneInv, Counts
<1>2. ASSUME NEW g \in Groups, NEW version \in 1 .. MaxMarket, HostPushes(g, version)
      PROVE  /\ chosen' = dash'.group /\ page.is # "gone"
             /\ dash.group = dash'.group => dash.version <= dash'.version
  <2> DEFINE candidate == [group |-> g, version |-> version]
  <2>1. candidate \in Dashes /\ Adopt(candidate, chosen) /\ page.is # "gone"
    BY <1>2 DEF HostPushes, Dashes, GroupIds
  <2> HIDE DEF candidate
  <2> QED BY <2>1, AdoptStep DEF DashInv, DashTypeInv
<1> QED BY <1>1, <1>2 DEF DashNext, Hides, Shows, Unmounts, Rerender, TimerFires, PollIsSent,
           PollIsServed, PollFails, BridgeReady, MarketMoves, SelectGroup, ToggleGroup, LoadEnds

THEOREM AdoptedIsTheChoiceAlways == DashInit /\ [][DashNext]_dashVars => AdoptedIsTheChoice
<1>1. ASSUME DashInv, [DashNext]_dashVars
      PROVE  [dash' # dash =>
               /\ chosen' = dash'.group \/ (poll.at # "none" /\ poll.group = 0)
               /\ page.is # "gone"
               /\ dash.group = dash'.group => dash.version <= dash'.version]_dashVars
  <2>1. CASE DashNext
    BY <1>1, <2>1, AdoptsTheChoice
  <2>2. CASE UNCHANGED dashVars
    BY <2>2
  <2> QED BY <1>1, <2>1, <2>2
<1> QED BY <1>1, DashIsSound, PTL DEF AdoptedIsTheChoice
=============================================================================
