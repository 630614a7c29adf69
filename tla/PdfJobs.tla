------------------------------ MODULE PdfJobs ------------------------------
(***************************************************************************)
(* The PDF worker of Project Reading: the client in the server (pdf.ts,    *)
(* PdfWorkerClient), which gives one worker thread one job at a time and   *)
(* replaces a worker that takes too long or breaks, and the loop of the    *)
(* worker (pdf-worker.ts).  What a worker sends reaches the server later,  *)
(* and even after the server has given the worker up.                      *)
(***************************************************************************)
EXTENDS Naturals, Sequences, FiniteSets

CONSTANTS
  Jobs,       \* jobs 1 .. Jobs are requested, in the order of their ids
  MaxWorkers, \* workers ever started (bounds the model)
  MaxBreaks   \* workers that break (bounds the model)

ASSUME PdfJobsAssumption == {Jobs, MaxWorkers} \subseteq Nat \ {0} /\ MaxBreaks \in Nat

VARIABLES
  requested, \* jobs requested so far
  job,       \* what became of each job: "none", "queued", "pending", or its answer
  worker,    \* the client's worker, or 0
  pending,   \* the client's pending job, or 0
  threads,   \* each worker thread: what it was sent, what it does, what it sent
  breaks

pdfVars == <<requested, job, worker, pending, threads, breaks>>

-----------------------------------------------------------------------------

JobIds == 1 .. Jobs
Started == Len(threads)
NewThread == [inbox |-> <<>>, current |-> 0, input |-> 0, sent |-> <<>>, alive |-> TRUE]
JobResult(of) == [is |-> "ok", of |-> of]
JobFailure == [is |-> "failed", of |-> 0]
Unanswered == {"none", "queued", "pending"}

(* run: the job waits until those before it have an answer *)
Request ==
  /\ requested < Jobs
  /\ requested' = requested + 1
  /\ job' = [job EXCEPT ![requested + 1] = [is |-> "queued", of |-> 0]]
  /\ UNCHANGED <<worker, pending, threads, breaks>>

(* execute: getWorker starts a worker when there is none; the job is posted *)
JobTurn(j) == job[j].is = "queued" /\ \A i \in 1 .. j - 1 : job[i].is \notin Unanswered

PostJob(w, all, j) ==
  /\ worker' = w
  /\ threads' = [all EXCEPT ![w].inbox = IF all[w].alive THEN Append(@, j) ELSE @]
  /\ pending' = j
  /\ job' = [job EXCEPT ![j].is = "pending"]

Execute(j) ==
  /\ JobTurn(j)
  /\ \/ worker # 0 /\ PostJob(worker, threads, j)
     \/ worker = 0 /\ Started < MaxWorkers /\ PostJob(Started + 1, Append(threads, NewThread), j)
  /\ UNCHANGED <<requested, breaks>>

(* The worker cannot be started, or does not take the message *)
PostFails(j) ==
  /\ JobTurn(j)
  /\ job' = [job EXCEPT ![j] = JobFailure]
  /\ UNCHANGED <<requested, worker, pending, threads, breaks>>

JobAnswered(j, answer) == job' = [job EXCEPT ![j] = answer] /\ pending' = 0
WorkerTerminated(all, w) == [all EXCEPT ![w].alive = FALSE, ![w].inbox = <<>>, ![w].current = 0,
                                  ![w].sent = IF all[w].alive THEN Append(@, [kind |-> "exit"]) ELSE @]

(* The timer of the pending job: it is rejected and its worker given up *)
Timeout ==
  /\ pending # 0
  /\ JobAnswered(pending, JobFailure)
  /\ worker' = 0
  /\ threads' = IF worker = 0 THEN threads ELSE WorkerTerminated(threads, worker)
  /\ UNCHANGED <<requested, breaks>>

(* failPending *)
FailPending ==
  IF pending = 0 THEN UNCHANGED <<job, pending>> ELSE JobAnswered(pending, JobFailure)

Arrived(w, kind) == threads[w].sent # <<>> /\ Head(threads[w].sent).kind = kind
Received(w) == [threads EXCEPT ![w].sent = Tail(@)]

(* Mutant of MessageArrives: a reply is the pending job's, whatever its id *)
AnyMessageArrives(w) ==
  LET reply == Head(threads[w].sent)
  IN /\ Arrived(w, "reply")
     /\ threads' = Received(w)
     /\ IF pending # 0
        THEN JobAnswered(pending, IF reply.ok THEN JobResult(reply.of) ELSE JobFailure)
        ELSE UNCHANGED <<job, pending>>
     /\ UNCHANGED <<requested, worker, breaks>>

(* worker.on("message"): a reply to anything but the pending job is dropped *)
MessageArrives(w) ==
  LET reply == Head(threads[w].sent)
  IN /\ Arrived(w, "reply")
     /\ threads' = Received(w)
     /\ IF pending = reply.id
        THEN JobAnswered(pending, IF reply.ok THEN JobResult(reply.of) ELSE JobFailure)
        ELSE UNCHANGED <<job, pending>>
     /\ UNCHANGED <<requested, worker, breaks>>

(* worker.on("error"), failWorker: the pending job fails, whosever it is *)
ErrorArrives(w) ==
  /\ Arrived(w, "error")
  /\ threads' = WorkerTerminated(Received(w), w)
  /\ worker' = IF worker = w THEN 0 ELSE worker
  /\ FailPending
  /\ UNCHANGED <<requested, breaks>>

(* worker.on("exit"): that of a worker given up earlier is ignored *)
ExitArrives(w) ==
  /\ Arrived(w, "exit")
  /\ threads' = Received(w)
  /\ IF worker = w THEN worker' = 0 /\ FailPending
     ELSE UNCHANGED <<worker, pending, job>>
  /\ UNCHANGED <<requested, breaks>>

-----------------------------------------------------------------------------
(* The worker thread *)

(* The next message: input is one variable for all jobs, so a job begins   *)
(* only when the one before it has been answered                           *)
BeginJob(w) ==
  LET t == threads[w]
  IN /\ t.alive /\ t.inbox # <<>> /\ t.current = 0
     /\ threads' = [threads EXCEPT ![w].inbox = Tail(@), ![w].current = Head(t.inbox),
                                   ![w].input = Head(t.inbox)]
     /\ UNCHANGED <<requested, job, worker, pending, breaks>>

(* run has returned or thrown, having read input to the end *)
FinishJob(w) ==
  LET t == threads[w]
  IN /\ t.alive /\ t.current # 0
     /\ \E ok \in BOOLEAN :
          threads' = [threads EXCEPT ![w].current = 0,
            ![w].sent = Append(@, [kind |-> "reply", id |-> t.current, ok |-> ok, of |-> t.input])]
     /\ UNCHANGED <<requested, job, worker, pending, breaks>>

(* The thread runs out of memory, or ends *)
BreakThread(w) ==
  /\ threads[w].alive /\ breaks < MaxBreaks /\ breaks' = breaks + 1
  /\ \E error \in BOOLEAN :
       threads' = [threads EXCEPT ![w].alive = FALSE, ![w].inbox = <<>>, ![w].current = 0,
         ![w].sent = @ \o (IF error THEN <<[kind |-> "error"]>> ELSE <<>>) \o <<[kind |-> "exit"]>>]
  /\ UNCHANGED <<requested, job, worker, pending>>

-----------------------------------------------------------------------------

PdfIdle ==
  /\ requested = Jobs /\ worker = 0 /\ pending = 0 /\ threads = <<>> /\ breaks = 0
  /\ job = [j \in JobIds |-> JobFailure]

PdfInit ==
  /\ requested = 0 /\ worker = 0 /\ pending = 0 /\ threads = <<>> /\ breaks = 0
  /\ job = [j \in JobIds |-> [is |-> "none", of |-> 0]]

WorkerNews(w) == MessageArrives(w) \/ ErrorArrives(w) \/ ExitArrives(w)

PdfNext ==
  \/ Request \/ Timeout
  \/ \E j \in JobIds : Execute(j) \/ PostFails(j)
  \/ \E w \in 1 .. Started : WorkerNews(w) \/ BeginJob(w) \/ FinishJob(w) \/ BreakThread(w)

-----------------------------------------------------------------------------

(* An answer is that of the job asked for, whatever workers were given up  *)
(* or broke before it, and however many of their jobs are still being run: *)
(* each job goes to one thread at most, and a job that is pending has a    *)
(* client's worker or the news of its end is on its way.                   *)
AnswerIsItsOwn ==
  /\ \A j \in JobIds : job[j].is = "ok" => job[j].of = j
  /\ \A j \in JobIds : job[j].is = "pending" <=> pending = j
  /\ pending # 0 => worker # 0
=============================================================================
