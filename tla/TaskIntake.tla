----------------------------- MODULE TaskIntake -----------------------------
(***************************************************************************)
(* How work and files come into a job of the Codex Bridge: the tools of    *)
(* server.ts with who may call them, the texts that the app stages chunk   *)
(* by chunk (text-bundle-store.ts), and the checks of dispatch, sending    *)
(* and direct requests in controller.ts.                                   *)
(*                                                                         *)
(* Two callers: the "model", which sees the tools that are not the app's   *)
(* alone, and the "app" with a user in front of it, who may confirm that   *)
(* company data may be sent.  One job and one allowlisted project; a text  *)
(* is the chunks its client declared, each of which may arrive as "right"  *)
(* or as something else.  "public" data is treated as "personal" is.       *)
(* Receipts of direct requests and repeated message ids are in             *)
(* DirectRequests and JobLedger.                                           *)
(***************************************************************************)
EXTENDS Naturals, Sequences, FiniteSets

CONSTANTS
  Transfers,     \* texts a client stages
  Chunks,        \* the chunks of each
  MaxLog,        \* messages of the job (bounds the model)
  MaxRefusals    \* failing writes and restarts (bounds the model)

ASSUME TaskIntakeAssumption ==
  MaxLog \in Nat \ {0} /\ MaxRefusals \in Nat /\ IsFiniteSet(Chunks) /\ Chunks # {}

VARIABLES
  bundles,  \* what the store knows of each transfer
  staged,   \* its files: manifest, chunks, content
  work,     \* the job: where it is from, its data class, its state
  messages, \* its log of messages
  refusals

intakeVars == <<bundles, staged, work, messages, refusals>>

-----------------------------------------------------------------------------
(* The tools, by who may call them                                         *)

StatusTools == {"codex_bridge_status", "codex_job_preview", "codex_model_list", "codex_usage_status",
                "codex_runtime_status", "codex_inventory"}
ThreadTools == {"codex_direct_thread_compact", "codex_direct_thread_review", "codex_direct_thread_fork"}
DirectTools == {"codex_direct_job_dispatch", "codex_direct_conversation_send", "codex_direct_job_steer",
                "codex_direct_job_cancel"}
ConsoleTools == {"render_codex_console", "codex_job_get", "codex_conversation_list",
                 "codex_conversation_get", "codex_artifact_get", "codex_artifact_list"}
HistoryTools == {"codex_unified_conversation_list", "codex_unified_conversation_get",
                 "codex_local_thread_list", "codex_local_thread_read"}
BundleTools == {"codex_text_bundle_begin", "codex_text_bundle_append", "codex_text_bundle_finalize",
                "codex_artifact_read_chunk"}
JobTools == {"codex_job_dispatch", "codex_conversation_send", "codex_job_cancel", "codex_job_steer",
             "codex_approval_decide"}

AppTools == HistoryTools \cup BundleTools \cup JobTools
MayCall(caller, tool) ==
  tool \in IF caller = "app" THEN AppTools \cup StatusTools \cup ThreadTools \cup DirectTools \cup ConsoleTools
           ELSE StatusTools \cup ThreadTools \cup DirectTools \cup ConsoleTools
Callers(tool) == {c \in {"app", "model"} : MayCall(c, tool)}

Classes == {"personal", "company"}
(* company data needs a confirmation with the call *)
Authorized(class, confirmed) == class = "company" => confirmed

-----------------------------------------------------------------------------
(* The staging of texts                                                    *)

NoBundle == [status |-> "none", class |-> "personal", confirmed |-> FALSE, received |-> {}]
Empty == [c \in Chunks |-> "none"]
Refuses == refusals < MaxRefusals /\ refusals' = refusals + 1

(* A text's record with its manifest written; a write that fails leaves    *)
(* the old manifest, or, when it was a copy, a torn one                    *)
Saves(t, record, files) ==
  /\ bundles' = [bundles EXCEPT ![t] = record]
  /\ \/ staged' = [staged EXCEPT ![t] = [files EXCEPT !.manifest = record]] /\ UNCHANGED refusals
     \/ /\ Refuses
        /\ \E left \in {files.manifest, NoBundle} : staged' = [staged EXCEPT ![t] = [files EXCEPT !.manifest = left]]

(* codex_text_bundle_begin, begin: a transfer that is known is handed out  *)
(* again; one whose manifest cannot be written is not known                *)
BeginBundle(t, class, confirmed) ==
  /\ bundles[t].status = "none" /\ Authorized(class, confirmed)
  /\ Callers("codex_text_bundle_begin") # {}
  /\ LET record == [NoBundle EXCEPT !.status = "open", !.class = class, !.confirmed = confirmed]
     IN /\ bundles' = [bundles EXCEPT ![t] = record]
        /\ staged' = [staged EXCEPT ![t] = [manifest |-> record, chunk |-> Empty, content |-> "none"]]
  /\ UNCHANGED <<work, messages, refusals>>

(* append: a chunk that is there is compared, not written *)
AppendChunk(t, c, text) ==
  LET files == [staged[t] EXCEPT !.chunk[c] = text]
  IN /\ bundles[t].status = "open" /\ c \notin bundles[t].received
     /\ \/ Saves(t, [bundles[t] EXCEPT !.received = @ \cup {c}], files)
        \/ /\ Refuses /\ staged' = [staged EXCEPT ![t].chunk[c] = "torn"]
           /\ UNCHANGED bundles
     /\ UNCHANGED <<work, messages>>

(* What the chunks make together *)
Joined(files) == IF \A c \in Chunks : files.chunk[c] = "right" THEN "whole" ELSE "other"

(* finalize: all chunks, of the declared size and digest *)
FinalizeBundle(t) ==
  /\ bundles[t].status = "open" /\ bundles[t].received = Chunks /\ Joined(staged[t]) = "whole"
  /\ \/ Saves(t, [bundles[t] EXCEPT !.status = "finalized"], [staged[t] EXCEPT !.content = "whole"])
     \/ Refuses /\ staged' = [staged EXCEPT ![t].content = "torn"] /\ UNCHANGED bundles
  /\ UNCHANGED <<work, messages>>

(* resolveMany: finalized, of the same class, and still what was declared *)
Resolves(texts, class) ==
  \A t \in texts : /\ bundles[t].status = "finalized"
                   /\ bundles[t].class = class
                   /\ staged[t].content = "whole"

-----------------------------------------------------------------------------
(* The job and its messages                                                *)

NoJob == [origin |-> "none", class |-> "personal", current |-> "personal", status |-> "none"]
Message(caller, class, confirmed, texts) ==
  [caller |-> caller, class |-> class, confirmed |-> confirmed,
   files |-> {[text |-> t, class |-> bundles[t].class, confirmed |-> bundles[t].confirmed,
               content |-> staged[t].content] : t \in texts}]

(* Mutant of HasCompanyHistory: only what the job says of itself now *)
IsCompanyNow == "company" \in {work.class, work.current}

HasCompanyHistory ==
  \/ "company" \in {work.class, work.current}
  \/ \E i \in DOMAIN messages : messages[i].class = "company"

(* dispatch, create: the job is written as a whole or is not there *)
Dispatch(caller, direct, class, confirmed, texts) ==
  /\ work.status = "none" /\ MaxLog > 0
  /\ caller \in Callers(IF direct THEN "codex_direct_job_dispatch" ELSE "codex_job_dispatch")
  /\ IF direct THEN class # "company" ELSE Authorized(class, confirmed)
  /\ Resolves(texts, class)
  /\ work' = [origin |-> IF direct THEN "direct" ELSE "app", class |-> class, current |-> class,
             status |-> "preparing"]
  /\ messages' = <<Message(caller, class, confirmed, texts)>>
  /\ UNCHANGED <<bundles, staged, refusals>>

(* sendMessageLocked: to the turn that runs, whatever its class, or to a   *)
(* new one; a failure after the log leaves the message there               *)
Sends(j, message) ==
  /\ j.status \in {"active", "idle"} /\ Len(messages) < MaxLog
  /\ messages' = Append(messages, message)
  /\ \/ /\ work' = IF j.status = "active" THEN j
                  ELSE [j EXCEPT !.status = "preparing", !.current = message.class]
        /\ UNCHANGED refusals
     \/ Refuses /\ work' = j
  /\ UNCHANGED <<bundles, staged>>

AppSend(class, confirmed, texts) ==
  /\ Authorized(class, confirmed) /\ Resolves(texts, class)
  /\ \E caller \in Callers("codex_conversation_send") :
       Sends(work, Message(caller, class, confirmed, texts))

(* sendLocalThreadMessage: a thread of the machine's own becomes a job *)
LocalSend(class, confirmed, texts) ==
  /\ work.status = "none" /\ Authorized(class, confirmed)
  /\ LET imported == [origin |-> "local", class |-> class, current |-> class, status |-> "idle"]
     IN \E caller \in Callers("codex_conversation_send") :
          \/ Resolves(texts, class) /\ Sends(imported, Message(caller, class, confirmed, texts))
          \/ /\ work' = imported
             /\ UNCHANGED <<bundles, staged, messages, refusals>>

(* directMessage, assertDirectJob *)
DirectSend(caller, class, texts) ==
  /\ caller \in Callers("codex_direct_conversation_send")
  /\ work.origin # "local" /\ ~HasCompanyHistory /\ class # "company"
  /\ Resolves(texts, class)
  /\ Sends(work, Message(caller, class, FALSE, texts))

(* execute, resumeAndExecute: the turn is there, or it failed *)
TurnStarts ==
  /\ work.status = "preparing"
  /\ \E status \in {"active", "idle"} : work' = [work EXCEPT !.status = status]
  /\ UNCHANGED <<bundles, staged, messages, refusals>>

(* The turn's end, or its cancellation *)
TurnEnds ==
  /\ work.status \in {"preparing", "active"}
  /\ work' = [work EXCEPT !.status = "idle"]
  /\ UNCHANGED <<bundles, staged, messages, refusals>>

(* A restart: the store reads the manifests it can read, the job is settled *)
IntakeRestarts ==
  /\ Refuses
  /\ bundles' = [t \in Transfers |-> staged[t].manifest]
  /\ work' = IF work.status = "none" THEN work ELSE [work EXCEPT !.status = "idle"]
  /\ UNCHANGED <<staged, messages>>

-----------------------------------------------------------------------------

NothingStaged ==
  /\ bundles = [t \in Transfers |-> NoBundle]
  /\ staged = [t \in Transfers |-> [manifest |-> NoBundle, chunk |-> Empty, content |-> "none"]]
  /\ messages = <<>>
IntakeInit == NothingStaged /\ work = NoJob /\ refusals = 0
(* No action is enabled: every call ends in a refusal *)
IntakeIdle == NothingStaged /\ work = [NoJob EXCEPT !.status = "closed"] /\ refusals = MaxRefusals

Staging ==
  \/ \E t \in Transfers, class \in Classes, confirmed \in BOOLEAN : BeginBundle(t, class, confirmed)
  \/ \E t \in Transfers, c \in Chunks, text \in {"right", "wrong"} : AppendChunk(t, c, text)
  \/ \E t \in Transfers : FinalizeBundle(t)
Working ==
  \E class \in Classes, confirmed \in BOOLEAN, texts \in SUBSET Transfers :
    \/ \E caller \in {"app", "model"}, direct \in BOOLEAN :
         Dispatch(caller, direct, class, confirmed, texts)
    \/ AppSend(class, confirmed, texts)
    \/ LocalSend(class, confirmed, texts)
    \/ \E caller \in {"app", "model"} : DirectSend(caller, class, texts)
IntakeNext == work.status # "closed" /\ (Staging \/ Working \/ TurnStarts \/ TurnEnds \/ IntakeRestarts)

-----------------------------------------------------------------------------

(* Company data comes into a job only with a confirmation given in the app, *)
(* with the message and with each text that goes with it; the model adds   *)
(* nothing to a job once company data is in it, nor to a thread whose      *)
(* history nobody classified; and a text that goes with a message is the   *)
(* one its client declared, whatever write failed and whenever the Bridge  *)
(* restarted (assertDirectJob, hasCompanyHistory, resolveMany, finalize).  *)
CompanyIsConfirmed ==
  \A i \in DOMAIN messages :
    /\ messages[i].class = "company" => messages[i].caller = "app" /\ messages[i].confirmed
    /\ \A f \in messages[i].files :
         f.class = messages[i].class /\ Authorized(f.class, f.confirmed) /\ f.content = "whole"
    /\ messages[i].caller = "model" =>
         work.origin # "local" /\ \A k \in 1 .. i : messages[k].class # "company"
=============================================================================
