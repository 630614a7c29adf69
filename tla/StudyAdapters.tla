---------------------------- MODULE StudyAdapters ----------------------------
(***************************************************************************)
(* The MCP adapters of the two study hubs and of the listening trainer:    *)
(* which tools a chat may call and what it must give (server.ts), what     *)
(* each call sends to the hub (api-client.ts, trainer-client.ts), and what *)
(* the chat is told when the hub is slow, breaks or answers nonsense.      *)
(*                                                                         *)
(* A chat wants one thing done, once.  It shows the user what would be     *)
(* written, asks, and asks again under the same id as long as it may.  A   *)
(* request that the adapter has given up may reach the hub later.  The     *)
(* hubs are other programs: they do what is asked under an id once, and    *)
(* refuse a write whose fingerprint is not that of the state.              *)
(***************************************************************************)
EXTENDS Naturals, FiniteSets, TLC

CONSTANTS
  MaxAsks,   \* calls of the chat (bounds the model)
  MaxOthers  \* changes others make at the hub (bounds the model)

ASSUME StudyAssumption == MaxAsks \in Nat \ {0} /\ MaxOthers \in Nat

VARIABLES
  server, tool, draft, \* what the chat wants: the adapter, its tool, the optional field of its draft
  invalid,  \* whether the hub has a reason of its own to refuse it
  base,     \* the state of what is written, at the hub
  others,   \* changes others made
  shown,    \* for each id, the fingerprint the user confirmed
  asks,     \* the chat's calls
  wire      \* the calls whose request the hub has not dealt with

studyVars == <<server, tool, draft, invalid, base, others, shown, asks, wire>>

-----------------------------------------------------------------------------
(* The tools, and what the chat must give to each (server.ts) *)

ReadOnly == [readOnly |-> TRUE, needs |-> {}]
RetrySafe(needs) == [readOnly |-> FALSE, needs |-> needs]

PolicyTools ==
  [study_get_summary |-> ReadOnly, study_get_learner_policy |-> ReadOnly,
   study_set_learner_policy |-> RetrySafe({"id"})]
CatalogTools ==
  [study_get_learning_context |-> ReadOnly, study_get_diagnosis_catalog |-> ReadOnly,
   study_search_items |-> ReadOnly, study_get_item |-> ReadOnly]
CreationTools ==
  [study_preview_item_creation |-> ReadOnly, study_create_item |-> RetrySafe({"id", "fingerprint"})]
RevisionTools ==
  [study_preview_item_revision |-> ReadOnly,
   study_apply_item_revision |-> RetrySafe({"id", "fingerprint"})]
LifecycleTools ==
  [study_preview_item_lifecycle |-> ReadOnly,
   study_apply_item_lifecycle |-> RetrySafe({"id", "fingerprint"})]
ReviewTools ==
  [study_get_quality_inbox |-> ReadOnly, study_get_due_reviews |-> ReadOnly,
   study_list_study_lists |-> ReadOnly]
ListTools ==
  [study_create_study_list |-> RetrySafe({"id"}), study_add_study_list_items |-> RetrySafe({"id"})]
CandidateTools ==
  [study_preview_question_candidates |-> ReadOnly,
   study_save_question_candidate |-> RetrySafe({"id", "fingerprint"}),
   study_promote_question_candidate |-> RetrySafe({"id", "fingerprint"}),
   study_retire_question_candidate |-> RetrySafe({"id"})]
ProgressTools ==
  [study_get_plan |-> ReadOnly, study_set_manual_labels |-> RetrySafe({}),
   study_record_attempt |-> RetrySafe({"id"})]
PracticeTools ==
  [study_preview_practice_record |-> ReadOnly, study_record_practice |-> RetrySafe({"id"}),
   study_record_practice_revision |-> RetrySafe({"id"})]
ResolutionTools ==
  [study_preview_target_resolution |-> ReadOnly, study_list_practice_sessions |-> ReadOnly,
   study_preview_practice_target_resolution |-> ReadOnly]
SessionTools ==
  [study_apply_practice_target_overrides |-> RetrySafe({"id", "fingerprint"}),
   study_supersede_practice_session |-> RetrySafe({"id"}), study_get_practice_session |-> ReadOnly]

JapaneseTools ==
  PolicyTools @@ CatalogTools @@ CreationTools @@ RevisionTools @@ LifecycleTools @@ ReviewTools
  @@ ListTools @@ CandidateTools @@ ProgressTools @@ PracticeTools @@ ResolutionTools @@ SessionTools

EnglishTools ==
  [english_get_summary |-> ReadOnly, english_search_items |-> ReadOnly, english_get_item |-> ReadOnly,
   english_search_reference_entries |-> ReadOnly, english_get_reference_entry |-> ReadOnly,
   english_preview_item_enrichment |-> ReadOnly, english_preview_item_creation |-> ReadOnly,
   english_create_item |-> RetrySafe({"id", "fingerprint"}),
   english_get_due_reviews |-> ReadOnly, english_get_plan |-> ReadOnly,
   english_set_manual_labels |-> RetrySafe({"id"}), english_record_attempt |-> RetrySafe({"id"}),
   english_preview_practice_record |-> ReadOnly,
   english_record_practice |-> RetrySafe({"id", "fingerprint"}),
   english_get_practice_session |-> ReadOnly, english_list_practice_sessions |-> ReadOnly,
   english_get_ielts_progress |-> ReadOnly]

ListeningTools ==
  [listening_health |-> ReadOnly, listening_create_exam |-> RetrySafe({"id"}),
   listening_get_question |-> ReadOnly, listening_render_question |-> ReadOnly,
   listening_prepare_audio |-> RetrySafe({"id"}), listening_submit_answer |-> RetrySafe({"id"}),
   listening_get_attempt_result |-> ReadOnly, question_audio |-> ReadOnly]

Tools == [japanese |-> JapaneseTools, english |-> EnglishTools, listening |-> ListeningTools]
Servers == DOMAIN Tools

-----------------------------------------------------------------------------
(* What a tool's call sends: whether the hub is to write, and the fields   *)
(* of the body by which it recognises and checks it                        *)

Getting == [write |-> FALSE, body |-> {}]
Writing(fields) == [write |-> TRUE, body |-> fields]

ItemRequests ==
  [study_get_summary |-> Getting, study_search_items |-> Getting, study_get_item |-> Getting,
   study_preview_item_creation |-> Getting, study_create_item |-> Writing({"id", "fingerprint"}),
   study_preview_item_revision |-> Getting, study_apply_item_revision |-> Writing({"id", "fingerprint"}),
   study_preview_item_lifecycle |-> Getting, study_apply_item_lifecycle |-> Writing({"id", "fingerprint"})]
ListRequests ==
  [study_get_quality_inbox |-> Getting, study_get_due_reviews |-> Getting, study_list_study_lists |-> Getting,
   study_create_study_list |-> Writing({"id"}), study_add_study_list_items |-> Writing({"id"}),
   study_preview_question_candidates |-> Getting,
   study_save_question_candidate |-> Writing({"id", "fingerprint"}),
   study_promote_question_candidate |-> Writing({"id", "fingerprint"}),
   study_retire_question_candidate |-> Writing({"id"})]
ProgressRequests ==
  [study_get_plan |-> Getting, study_get_learner_policy |-> Getting,
   study_set_learner_policy |-> Writing({"id"}), study_get_learning_context |-> Getting,
   study_get_diagnosis_catalog |-> Getting, study_set_manual_labels |-> Writing({}),
   study_record_attempt |-> Writing({"id"})]
(* Mutant of PracticeRequests: a recorded session has no submission_id *)
PracticeIsAnonymous ==
  [study_preview_practice_record |-> Getting, study_record_practice |-> Writing({}),
   study_record_practice_revision |-> Writing({"id"}), study_get_practice_session |-> Getting,
   study_list_practice_sessions |-> Getting, study_preview_target_resolution |-> Getting,
   study_preview_practice_target_resolution |-> Getting,
   study_apply_practice_target_overrides |-> Writing({"id", "fingerprint"}),
   study_supersede_practice_session |-> Writing({"id"})]
PracticeRequests ==
  [study_preview_practice_record |-> Getting, study_record_practice |-> Writing({"id"}),
   study_record_practice_revision |-> Writing({"id"}), study_get_practice_session |-> Getting,
   study_list_practice_sessions |-> Getting, study_preview_target_resolution |-> Getting,
   study_preview_practice_target_resolution |-> Getting,
   study_apply_practice_target_overrides |-> Writing({"id", "fingerprint"}),
   study_supersede_practice_session |-> Writing({"id"})]
EnglishRequests ==
  [t \in DOMAIN EnglishTools |->
     CASE t \in {"english_create_item", "english_record_practice"} -> Writing({"id", "fingerprint"})
       [] t \in {"english_set_manual_labels", "english_record_attempt"} -> Writing({"id"})
       [] OTHER -> Getting]
(* The set, the question or the attempt is in the path or in the body *)
ListeningRequests ==
  [t \in DOMAIN ListeningTools |->
     IF t \in {"listening_create_exam", "listening_prepare_audio", "listening_submit_answer"}
     THEN Writing({"id"}) ELSE Getting]

Requests ==
  ItemRequests @@ ListRequests @@ ProgressRequests @@ PracticeRequests @@ EnglishRequests
  @@ ListeningRequests

(* toHubItemDraft and mapDraft fill in what the draft leaves out, the      *)
(* changes of a revision leave it out; a session's defaults are filled in  *)
Given == {"given", "absent"}
FilledDraft(d) == IF d = "absent" THEN "default" ELSE d
EnglishDraft(d) == IF d = "absent" THEN "default" ELSE d
FilledSession(d) == IF d = "absent" THEN "default" ELSE d
EnglishSession(d) == IF d = "absent" THEN "default" ELSE d
RevisedFields(d) == d

(* The preview and the write of one thing send it alike *)
PreviewSends(t, d) ==
  CASE t = "study_create_item" -> FilledDraft(d)
    [] t = "english_create_item" -> EnglishDraft(d)
    [] t = "english_record_practice" -> EnglishSession(d)
    [] OTHER -> RevisedFields(d)
WriteSends(t, d) ==
  CASE t = "study_create_item" -> FilledDraft(d)
    [] t = "english_create_item" -> EnglishDraft(d)
    [] t = "english_record_practice" -> EnglishSession(d)
    [] t \in {"study_record_practice", "study_record_practice_revision"} -> FilledSession(d)
    [] OTHER -> RevisedFields(d)

-----------------------------------------------------------------------------
(* What becomes of an answer.  "ok"; "again": an error the chat is told it *)
(* may retry; "no": one it is not to retry; "unclear": one that does not   *)
(* say whether anything was written (the trainer's adapter only).          *)

(* Of the answers that are no object, text is wrapped, nothing is refused  *)
JapaneseResult(reply) ==
  CASE reply \in {"object", "text", "mismatched"} -> "ok"
    [] reply \in {"empty", "busy", "broken"} -> "again"
    [] reply = "refused" -> "no"
EnglishResult(reply) ==
  CASE reply \in {"object", "mismatched"} -> "ok"
    [] reply \in {"text", "empty", "busy", "broken"} -> "again"
    [] reply = "refused" -> "no"
ListeningResult(reply) ==
  CASE reply = "object" -> "ok"
    [] reply = "busy" -> "again"
    [] reply = "refused" -> "no"
    [] reply \in {"text", "empty", "mismatched", "broken"} -> "unclear"
Result(reply) ==
  CASE server = "japanese" -> JapaneseResult(reply)
    [] server = "english" -> EnglishResult(reply)
    [] server = "listening" -> ListeningResult(reply)

(* The timer fires while the body is being read.  The English client takes *)
(* a body it cannot read for none, whatever the reason, and has the status *)
(* left.  A hub that is busy is assumed to answer with one of 500 or more. *)
CutResult(reply) == IF server = "english" /\ reply = "refused" THEN "no" ELSE "again"

-----------------------------------------------------------------------------

Attempts == 1 .. MaxAsks
Ids == 1 .. 2
NoAsk == [at |-> "idle", id |-> 0, reply |-> "none", result |-> "none", wrote |-> 0]
Nothing == <<0, "none">>
Made == {n \in Attempts : asks[n].at # "idle"}
Wrote == {n \in Attempts : asks[n].wrote # 0}
Needs(field) == field \in Tools[server][tool].needs
Carries(field) == field \in Requests[tool].body
Latest == CHOOSE n \in Made : \A m \in Made : m <= n

(* The user is shown what would be written *)
Preview(id) ==
  /\ Needs("fingerprint") /\ shown[id] = Nothing
  /\ id = 1 \/ \E n \in Made : asks[n].result = "no"
  /\ shown' = [shown EXCEPT ![id] = <<base, PreviewSends(tool, draft)>>]
  /\ UNCHANGED <<server, tool, draft, invalid, base, others, asks, wire>>

(* A call begins.  The chat tries again under the id it used, and takes    *)
(* another one when it was told that the first is refused for good.        *)
MayUse(id) ==
  IF Made = {} THEN id = 1
  ELSE /\ asks[Latest].at = "ended"
       /\ IF asks[Latest].result = "no" THEN id = asks[Latest].id + 1 ELSE id = asks[Latest].id
Ask(id) ==
  LET n == Cardinality(Made) + 1
  IN /\ n \in Attempts /\ MayUse(id)
     /\ Needs("fingerprint") => shown[id] # Nothing
     /\ asks' = [asks EXCEPT ![n].at = "asked", ![n].id = id]
     /\ wire' = wire \cup {n}
     /\ UNCHANGED <<server, tool, draft, invalid, base, others, shown>>

Told(n, result) == asks' = [asks EXCEPT ![n].at = "ended", ![n].result = result]

(* fetch is rejected: the hub is not there, or the connection is cut       *)
Unreachable(n) ==
  /\ asks[n].at = "asked"
  /\ Told(n, "again")
  /\ \/ wire' = wire \ {n}
     \/ UNCHANGED wire
  /\ UNCHANGED <<server, tool, draft, invalid, base, others, shown>>

(* The answer has been read *)
AskAnswered(n) ==
  /\ asks[n].at = "answering"
  /\ Told(n, Result(asks[n].reply))
  /\ UNCHANGED <<server, tool, draft, invalid, base, others, shown, wire>>

(* The timer: clearTimeout only when the body has been read *)
AskTimesOut(n) ==
  /\ asks[n].at \in {"asked", "answering"}
  /\ Told(n, IF asks[n].at = "asked" THEN "again" ELSE CutResult(asks[n].reply))
  /\ UNCHANGED <<server, tool, draft, invalid, base, others, shown, wire>>

-----------------------------------------------------------------------------
(* The hub *)

Known(n) == Carries("id") /\ \E m \in Wrote : asks[m].id = asks[n].id
Stale(n) == Carries("fingerprint") /\ shown[asks[n].id] # <<base, WriteSends(tool, draft)>>

(* It deals with a request: the answer begins, unless it is given up *)
Replies(n, reply, wrote) ==
  /\ wire' = wire \ {n}
  /\ asks' = [asks EXCEPT ![n].reply = reply, ![n].wrote = wrote,
                          ![n].at = IF @ = "asked" THEN "answering" ELSE @]
  /\ UNCHANGED <<server, tool, draft, invalid, others, shown>>

HubReplies(n) ==
  /\ n \in wire
  /\ \/ \E reply \in {"broken", "busy"} : Replies(n, reply, 0) /\ UNCHANGED base
     \/ /\ ~Requests[tool].write \/ Known(n)
        /\ Replies(n, "object", 0) /\ UNCHANGED base
     \/ /\ Requests[tool].write /\ ~Known(n)
        /\ IF invalid \/ Stale(n) THEN Replies(n, "refused", 0) /\ UNCHANGED base
           ELSE \E reply \in {"object", "text", "empty", "mismatched", "broken"} :
                  Replies(n, reply, base + 1) /\ base' = base + 1

(* Somebody else changes the same thing *)
OthersWrite ==
  /\ others < MaxOthers
  /\ others' = others + 1 /\ base' = base + 1
  /\ UNCHANGED <<server, tool, draft, invalid, shown, asks, wire>>

-----------------------------------------------------------------------------

StudyInit ==
  /\ server \in Servers /\ tool \in DOMAIN Tools[server]
  /\ draft \in IF Tools[server][tool].readOnly THEN {"given"} ELSE Given
  /\ invalid \in IF Tools[server][tool].readOnly THEN {FALSE} ELSE BOOLEAN
  /\ base = 0 /\ others = 0 /\ wire = {}
  /\ shown = [id \in Ids |-> Nothing] /\ asks = [n \in Attempts |-> NoAsk]

StudyIdle ==
  /\ server = "english" /\ tool = "english_get_plan" /\ draft = "given" /\ invalid = FALSE
  /\ base = 0 /\ others = MaxOthers /\ wire = {} /\ shown = [id \in Ids |-> Nothing]
  /\ asks = [n \in Attempts |-> [NoAsk EXCEPT !.at = "ended", !.id = 1]]

StudyNext ==
  \/ OthersWrite
  \/ \E id \in Ids : Preview(id) \/ Ask(id)
  \/ \E n \in Attempts : Unreachable(n) \/ AskAnswered(n) \/ AskTimesOut(n) \/ HubReplies(n)

-----------------------------------------------------------------------------

(* What the chat wants is done once at most, however often it asks, under  *)
(* whatever ids, and whatever is dealt with late: what a tool asks the     *)
(* chat for reaches the hub, and no error that says "do not retry" hides a *)
(* write.  It is done only as the user saw it, and a tool that says it     *)
(* only reads never writes.  A user who confirms what is still so is not   *)
(* refused for a fingerprint (server.ts and api-client.ts of the adapters, *)
(* safeResult and toToolError).  Labels of the Japanese hub have no id.    *)
DoneOnceAsShown ==
  /\ Needs("id") => Cardinality(Wrote) <= 1
  /\ Wrote # {} => ~Tools[server][tool].readOnly
  /\ \A n \in Wrote :
       /\ Needs("fingerprint") =>
            shown[asks[n].id] = <<asks[n].wrote - 1, WriteSends(tool, draft)>>
       /\ \A m \in Made : asks[m].id = asks[n].id => asks[m].result # "no"
  /\ \A n \in Attempts :
       asks[n].reply = "refused" /\ ~invalid => base > shown[asks[n].id][1]
=============================================================================
