----------------------------- MODULE BatchApply -----------------------------
(***************************************************************************)
(* Memory Core: the review of a batch candidate and the execution of the   *)
(* approved batch, item by item (services/candidates.py and                *)
(* services/batch_apply.py).                                               *)
(*                                                                         *)
(* A request of the reviewer runs in a thread of the API server, and every *)
(* helper it calls opens a session of its own.  A session reads rows, and  *)
(* its writes become one SQLite transaction at the first of them: what was *)
(* read may be stale by then.  So a helper whose writes depend on what it  *)
(* read is two actions here, a read and a write; an UPDATE with its        *)
(* condition in the WHERE is one.  Requests interleave at every action and *)
(* may stop at any of them, by an exception or with the process.           *)
(*                                                                         *)
(* The operations of an item are one transaction: the model keeps that it  *)
(* committed, and how often.  The digests, the scopes and the audit events *)
(* are left out, and so is a revision of the draft, which is possible only *)
(* before the first preparation.                                           *)
(***************************************************************************)
EXTENDS Naturals, FiniteSets

CONSTANTS
  Requests,     \* threads of the server, each serving one apply at a time
  N,            \* items of the sealed revision, in the order of their position
  Keys,         \* review idempotency keys
  MaxApply,     \* apply requests of a behaviour
  MaxPrepare,   \* preparations of a review
  MaxStop,      \* requests that stop half-way
  MaxStall,     \* leases that expire while their holder is still at work
  MaxError,     \* operations and read-backs that raise
  MaxGone       \* records that another client removes after the commit

ASSUME CountsAreNaturals ==
  /\ N \in Nat \ {0}
  /\ {MaxApply, MaxPrepare, MaxStop, MaxStall, MaxError, MaxGone} \subseteq Nat

VARIABLES
  \* memory_candidates and candidate_batches
  status,     \* candidate.status
  review,     \* batch.review_state, of a sealed plan from "prepared" on
  challenge,  \* whether a review challenge is live
  reviewed,   \* review_action and review_idempotency_key
  batch,      \* batch.execution_state
  attempts,   \* batch_apply_attempts.status, by its idempotency key
  \* candidate_items and batch_item_results
  state,      \* execution_state
  policy,     \* retry_policy
  claims,     \* attempt_count: the claim's number stands for claim_token
  token,      \* claim_token, 0 for NULL
  expired,    \* claim_expires_at is in the past
  verified,   \* verified_at is set
  result,     \* verify_status of the item's results, "none" when it has none
  \* the formal data
  commits,    \* committed executions of the item's operations
  present,    \* the records of the item can be read back
  \* the requests
  pc, at,     \* the next step of a request, and the item it is at
  claim,      \* the claim the request took on that item
  key,        \* the attempt the request works for
  seen,       \* what its session has read and will write from
  finished,   \* some request ran to its end
  applies, prepares, stops, stalls, errors, removed

review_row == <<status, review, challenge, reviewed>>
batch_row == <<batch, attempts>>
item_rows == <<state, policy, claims, token, expired, verified, result>>
data == <<commits, present>>
threads == <<pc, at, claim, key, seen, finished>>
counts == <<applies, prepares, stops, stalls, errors, removed>>
vars == <<review_row, batch_row, item_rows, data, threads, counts>>

-----------------------------------------------------------------------------

Items == 1..N
NoKey == "none"
Nothing == "nothing"
ItemStates == {"not_started", "claimed", "applied", "failed", "unverified", "skipped"}
Policies == {"not_applicable", "retry_same_plan", "verify_only", "new_batch_required"}
Steps == {"idle", "start", "inspect", "claim", "check", "execute", "failed", "readback",
          "verdict", "unverify", "count", "finish"}

Go(r, step) == pc' = [pc EXCEPT ![r] = step]

(* the loop's continue: the next item, or the end of the attempt *)
NextItem(r) ==
  /\ at' = [at EXCEPT ![r] = IF @ = N THEN @ ELSE @ + 1]
  /\ Go(r, IF at[r] = N THEN "count" ELSE "inspect")

(* the request is answered, well or with an error *)
Answer(r) ==
  /\ pc' = [pc EXCEPT ![r] = "idle"]
  /\ at' = [at EXCEPT ![r] = 1]
  /\ claim' = [claim EXCEPT ![r] = 0]
  /\ key' = [key EXCEPT ![r] = NoKey]
  /\ seen' = [seen EXCEPT ![r] = Nothing]

-----------------------------------------------------------------------------
(* Review *)

(* prepare_candidate_review: a new challenge, which replaces the last one.  *)
(* prepare_batch_for_review seals the plan and sets the review state        *)
(* whatever it was.                                                         *)
Prepare ==
  /\ prepares < MaxPrepare /\ prepares' = prepares + 1
  /\ status = "pending"
  /\ challenge' = TRUE
  /\ review' = "prepared"
  /\ UNCHANGED <<status, reviewed, batch_row, item_rows, data, threads, applies, stops,
                 stalls, errors, removed>>

(* authorize_batch_candidate: the first use of a key approves; the same     *)
(* approval again goes on with what was approved.                           *)
Approve(r, k) ==
  /\ pc[r] = "idle"
  /\ applies < MaxApply /\ applies' = applies + 1
  /\ IF reviewed = [action |-> "approve", key |-> k]
     THEN UNCHANGED review_row
     ELSE /\ reviewed.key # k
          /\ status = "pending" /\ challenge /\ review = "prepared"
          /\ review' = "approved"
          /\ reviewed' = [action |-> "approve", key |-> k]
          /\ challenge' = FALSE
          /\ UNCHANGED status
  /\ Go(r, "start")
  /\ UNCHANGED <<batch_row, item_rows, data, at, claim, key, seen, finished, prepares, stops, stalls,
                 errors, removed>>

(* reject_candidate *)
Reject(k) ==
  /\ status = "pending" /\ challenge /\ reviewed.key # k
  /\ status' = "rejected" /\ review' = "rejected"
  /\ reviewed' = [action |-> "reject", key |-> k]
  /\ challenge' = FALSE
  /\ UNCHANGED <<batch_row, item_rows, data, threads, counts>>

(* _mark_expired, by any of the three after seven days *)
ExpireCandidate ==
  /\ status = "pending"
  /\ status' = "expired" /\ review' = "expired"
  /\ reviewed' = [reviewed EXCEPT !.action = "expire"]
  /\ challenge' = FALSE
  /\ UNCHANGED <<batch_row, item_rows, data, threads, counts>>

-----------------------------------------------------------------------------
(* Execution *)

(* _start_attempt: the attempt of the key that approved, new or resumed *)
StartAttempt(r) ==
  /\ pc[r] = "start"
  /\ review = "approved"
  /\ attempts' = [attempts EXCEPT ![reviewed.key] = "running"]
  /\ batch' = "applying"
  /\ key' = [key EXCEPT ![r] = reviewed.key]
  /\ Go(r, "inspect")
  /\ UNCHANGED <<review_row, item_rows, data, at, claim, seen, finished, counts>>

(* _load_current_item_ids raises: the batch is not, or no longer, approved *)
StartRefused(r) ==
  /\ pc[r] = "start"
  /\ review # "approved"
  /\ Answer(r)
  /\ UNCHANGED <<review_row, batch_row, item_rows, data, finished, counts>>

(* what the loop does with an item depends on the state it reads *)
Settled(i) == \/ state[i] = "skipped"
              \/ state[i] = "applied" /\ verified[i]

ToReadBack(i) == state[i] \in {"applied", "unverified"} /\ ~ Settled(i)

Inspect(r) ==
  /\ pc[r] = "inspect"
  /\ IF Settled(at[r]) THEN NextItem(r)
     ELSE /\ Go(r, IF ToReadBack(at[r]) THEN "readback" ELSE "claim")
          /\ UNCHANGED at
  /\ UNCHANGED <<review_row, batch_row, item_rows, data, claim, key, seen, finished, counts>>

(* the WHERE of _claim_item *)
Claimable(i) ==
  \/ state[i] = "not_started"
  \/ state[i] = "failed" /\ policy[i] = "retry_same_plan"
  \/ state[i] = "claimed" /\ expired[i]

ClaimItem(r) ==
  /\ pc[r] = "claim"
  /\ LET i == at[r]
     IN /\ Claimable(i)
        /\ state' = [state EXCEPT ![i] = "claimed"]
        /\ claims' = [claims EXCEPT ![i] = @ + 1]
        /\ token' = [token EXCEPT ![i] = claims[i] + 1]
        /\ expired' = [expired EXCEPT ![i] = FALSE]
        /\ policy' = [policy EXCEPT ![i] = "not_applicable"]
        /\ claim' = [claim EXCEPT ![r] = claims[i] + 1]
  /\ Go(r, "check")
  /\ UNCHANGED <<review_row, batch_row, verified, result, data, at, key, seen, finished, counts>>

(* another request has it, or it is not to be tried again *)
ClaimLost(r) ==
  /\ pc[r] = "claim"
  /\ ~ Claimable(at[r])
  /\ NextItem(r)
  /\ UNCHANGED <<review_row, batch_row, item_rows, data, claim, key, seen, finished, counts>>

(* _execute_claimed_item reads the item and compares the claim ... *)
CheckClaim(r) ==
  /\ pc[r] = "check"
  /\ Go(r, IF state[at[r]] = "claimed" /\ token[at[r]] = claim[r] THEN "execute" ELSE "failed")
  /\ UNCHANGED <<review_row, batch_row, item_rows, data, at, claim, key, seen, finished, counts>>

(* Mutant: the results of an operation are not unique *)
ExecuteItemAgain(r) ==
  /\ pc[r] = "execute"
  /\ LET i == at[r]
     IN /\ state' = [state EXCEPT ![i] = "applied"]
        /\ token' = [token EXCEPT ![i] = 0]
        /\ expired' = [expired EXCEPT ![i] = FALSE]
        /\ result' = [result EXCEPT ![i] = "pending"]
        /\ commits' = [commits EXCEPT ![i] = @ + 1]
        /\ present' = [present EXCEPT ![i] = TRUE]
  /\ Go(r, "readback")
  /\ UNCHANGED <<review_row, batch_row, policy, claims, verified, at, claim, key, seen,
                 finished, counts>>

(* ... and its transaction runs the operations and stores their results,    *)
(* which are unique by operation.                                           *)
ExecuteItem(r) ==
  /\ pc[r] = "execute"
  /\ LET i == at[r]
     IN /\ result[i] = "none"
        /\ state' = [state EXCEPT ![i] = "applied"]
        /\ token' = [token EXCEPT ![i] = 0]
        /\ expired' = [expired EXCEPT ![i] = FALSE]
        /\ result' = [result EXCEPT ![i] = "pending"]
        /\ commits' = [commits EXCEPT ![i] = @ + 1]
        /\ present' = [present EXCEPT ![i] = TRUE]
  /\ Go(r, "readback")
  /\ UNCHANGED <<review_row, batch_row, policy, claims, verified, at, claim, key, seen,
                 finished, counts>>

(* an operation raises, by itself or because the results are there already: *)
(* the transaction is rolled back                                           *)
ExecuteRaises(r) ==
  /\ pc[r] = "execute"
  /\ \/ result[at[r]] # "none" /\ UNCHANGED errors
     \/ errors < MaxError /\ errors' = errors + 1
  /\ Go(r, "failed")
  /\ UNCHANGED <<review_row, batch_row, item_rows, data, at, claim, key, seen, finished,
                 applies, prepares, stops, stalls, removed>>

(* _mark_item_failed writes whatever the item has become.  None of the      *)
(* errors an operation raises has a code that may be retried.               *)
MarkItemFailed(r) ==
  /\ pc[r] = "failed"
  /\ LET i == at[r]
     IN /\ state' = [state EXCEPT ![i] = "failed"]
        /\ token' = [token EXCEPT ![i] = 0]
        /\ expired' = [expired EXCEPT ![i] = FALSE]
        /\ policy' = [policy EXCEPT ![i] = "new_batch_required"]
  /\ NextItem(r)
  /\ UNCHANGED <<review_row, batch_row, claims, verified, result, data, claim, key, seen,
                 finished, counts>>

(* _verify_committed_item reads the item and its results back ... *)
ReadBack(r) ==
  /\ pc[r] = "readback"
  /\ LET i == at[r]
     IN seen' = [seen EXCEPT ![r] =
          [ok |-> result[i] = "none" \/ present[i], state |-> state[i], policy |-> policy[i],
           result |-> result[i]]]
  /\ Go(r, "verdict")
  /\ UNCHANGED <<review_row, batch_row, item_rows, data, at, claim, key, finished, counts>>

(* an UPDATE carries the columns that changed since they were read *)
Write(column, i, old, new) ==
  column' = IF old = new THEN column ELSE [column EXCEPT ![i] = new]

(* ... and stores what it found *)
StoreVerdict(r) ==
  /\ pc[r] = "verdict"
  /\ LET i == at[r]
         was == seen[r]
     IN /\ Write(state, i, was.state, IF was.ok THEN "applied" ELSE "unverified")
        /\ Write(policy, i, was.policy, IF was.ok THEN "not_applicable" ELSE "verify_only")
        /\ Write(result, i, was.result, IF was.result = "none" THEN "none"
                                        ELSE IF was.ok THEN "verified" ELSE "failed")
        /\ verified' = [verified EXCEPT ![i] = @ \/ was.ok]
  /\ seen' = [seen EXCEPT ![r] = Nothing]
  /\ NextItem(r)
  /\ UNCHANGED <<review_row, batch_row, claims, token, expired, data, claim, key, finished,
                 counts>>

(* Mutant: an exception of the read-back is treated like one of the execution *)
ReadBackRaisesFailed(r) ==
  /\ pc[r] \in {"readback", "verdict"}
  /\ errors < MaxError /\ errors' = errors + 1
  /\ seen' = [seen EXCEPT ![r] = Nothing]
  /\ Go(r, "failed")
  /\ UNCHANGED <<review_row, batch_row, item_rows, data, at, claim, key, finished, applies,
                 prepares, stops, stalls, removed>>

(* a database error, for example *)
ReadBackRaises(r) ==
  /\ pc[r] \in {"readback", "verdict"}
  /\ errors < MaxError /\ errors' = errors + 1
  /\ seen' = [seen EXCEPT ![r] = Nothing]
  /\ Go(r, "unverify")
  /\ UNCHANGED <<review_row, batch_row, item_rows, data, at, claim, key, finished, applies,
                 prepares, stops, stalls, removed>>

(* _mark_item_unverified: committed, and not known to be there *)
MarkItemUnverified(r) ==
  /\ pc[r] = "unverify"
  /\ LET i == at[r]
     IN /\ state' = [state EXCEPT ![i] = "unverified"]
        /\ token' = [token EXCEPT ![i] = 0]
        /\ expired' = [expired EXCEPT ![i] = FALSE]
        /\ policy' = [policy EXCEPT ![i] = "verify_only"]
  /\ NextItem(r)
  /\ UNCHANGED <<review_row, batch_row, claims, verified, result, data, claim, key, seen,
                 finished, counts>>

(* Mutant: the items another request is still at are not counted *)
CountItemsSettled(r) ==
  /\ pc[r] = "count"
  /\ review = "approved"
  /\ seen' = [seen EXCEPT ![r] =
       [whole |-> \A i \in Items : state[i] \notin {"failed", "unverified"},
        some |-> \E i \in Items : state[i] \in {"applied", "skipped"}]]
  /\ Go(r, "finish")
  /\ UNCHANGED <<review_row, batch_row, item_rows, data, at, claim, key, finished, counts>>

(* _finish_attempt counts the states of the items ... *)
CountItems(r) ==
  /\ pc[r] = "count"
  /\ review = "approved"
  /\ seen' = [seen EXCEPT ![r] =
       [whole |-> \A i \in Items : state[i] \in {"applied", "skipped"},
        some |-> \E i \in Items : state[i] \in {"applied", "skipped"}]]
  /\ Go(r, "finish")
  /\ UNCHANGED <<review_row, batch_row, item_rows, data, at, claim, key, finished, counts>>

(* the batch is no longer approved: the attempt stays as it is *)
CountRefused(r) ==
  /\ pc[r] = "count"
  /\ review # "approved"
  /\ Answer(r)
  /\ UNCHANGED <<review_row, batch_row, item_rows, data, finished, counts>>

(* ... and stores the aggregate *)
FinishAttempt(r) ==
  /\ pc[r] = "finish"
  /\ attempts' = [attempts EXCEPT ![key[r]] = "completed"]
  /\ batch' = IF seen[r].whole THEN "applied"
              ELSE IF seen[r].some THEN "partially_applied" ELSE "failed"
  /\ status' = IF seen[r].whole THEN "applied" ELSE status
  /\ finished' = TRUE
  /\ Answer(r)
  /\ UNCHANGED <<review, challenge, reviewed, item_rows, data, counts>>

-----------------------------------------------------------------------------
(* Faults *)

(* an exception nobody handles, or the end of the process *)
Stop(r) ==
  /\ pc[r] # "idle"
  /\ stops < MaxStop /\ stops' = stops + 1
  /\ Answer(r)
  /\ UNCHANGED <<review_row, batch_row, item_rows, data, finished, applies, prepares, stalls,
                 errors, removed>>

AtWork(i) == \E r \in Requests :
  pc[r] \in {"check", "execute", "failed"} /\ at[r] = i /\ claim[r] = token[i]

(* five minutes after the claim, its holder gone or slow *)
LeaseExpires(i) ==
  /\ state[i] = "claimed" /\ ~ expired[i]
  /\ IF AtWork(i) THEN stalls < MaxStall /\ stalls' = stalls + 1 ELSE UNCHANGED stalls
  /\ expired' = [expired EXCEPT ![i] = TRUE]
  /\ UNCHANGED <<review_row, batch_row, state, policy, claims, token, verified, result, data,
                 threads, applies, prepares, stops, errors, removed>>

(* another client archives what the item wrote *)
RecordGone(i) ==
  /\ present[i]
  /\ removed < MaxGone /\ removed' = removed + 1
  /\ present' = [present EXCEPT ![i] = FALSE]
  /\ UNCHANGED <<review_row, batch_row, item_rows, commits, threads, applies, prepares, stops,
                 stalls, errors>>

-----------------------------------------------------------------------------

(* _persist_revision: an item of which nothing is to be done is skipped *)
Init ==
  /\ status = "pending" /\ review = "pending" /\ challenge = FALSE
  /\ reviewed = [action |-> "none", key |-> NoKey]
  /\ batch = "not_started" /\ attempts = [k \in Keys |-> "none"]
  /\ state \in [Items -> {"not_started", "skipped"}]
  /\ policy = [i \in Items |-> "not_applicable"]
  /\ claims = [i \in Items |-> 0] /\ token = [i \in Items |-> 0]
  /\ expired = [i \in Items |-> FALSE] /\ verified = [i \in Items |-> FALSE]
  /\ result = [i \in Items |-> "none"]
  /\ commits = [i \in Items |-> 0] /\ present = [i \in Items |-> FALSE]
  /\ pc = [r \in Requests |-> "idle"] /\ at = [r \in Requests |-> 1]
  /\ claim = [r \in Requests |-> 0] /\ key = [r \in Requests |-> NoKey]
  /\ seen = [r \in Requests |-> Nothing] /\ finished = FALSE
  /\ applies = 0 /\ prepares = 0 /\ stops = 0 /\ stalls = 0 /\ errors = 0 /\ removed = 0

Quiet == \A r \in Requests : pc[r] = "idle"

(* a state from which a request cannot go on is a deadlock *)
Rest == Quiet /\ UNCHANGED vars

Reviewing ==
  Prepare \/ ExpireCandidate \/ \E k \in Keys : Reject(k)

Executing(r) ==
  \/ StartAttempt(r) \/ StartRefused(r)
  \/ Inspect(r) \/ ClaimItem(r) \/ ClaimLost(r) \/ CheckClaim(r)
  \/ ExecuteItem(r) \/ ExecuteRaises(r) \/ MarkItemFailed(r)
  \/ ReadBack(r) \/ StoreVerdict(r) \/ ReadBackRaises(r) \/ MarkItemUnverified(r)
  \/ CountItems(r) \/ CountRefused(r) \/ FinishAttempt(r)

Next ==
  \/ Reviewing
  \/ \E r \in Requests, k \in Keys : Approve(r, k)
  \/ \E r \in Requests : Executing(r) \/ Stop(r)
  \/ \E i \in Items : LeaseExpires(i) \/ RecordGone(i)
  \/ Rest

Spec == Init /\ [][Next]_vars

-----------------------------------------------------------------------------
(* Properties *)

(* Types of the rows and of the requests' program counters. *)
TypeOK ==
  /\ status \in {"pending", "applied", "rejected", "expired"}
  /\ review \in {"pending", "prepared", "approved", "rejected", "expired"}
  /\ challenge \in BOOLEAN
  /\ reviewed \in [action : {"none", "approve", "reject", "expire"}, key : Keys \cup {NoKey}]
  /\ batch \in {"not_started", "applying", "applied", "partially_applied", "failed"}
  /\ attempts \in [Keys -> {"none", "running", "completed"}]
  /\ state \in [Items -> ItemStates] /\ policy \in [Items -> Policies]
  /\ claims \in [Items -> Nat] /\ token \in [Items -> Nat]
  /\ expired \in [Items -> BOOLEAN] /\ verified \in [Items -> BOOLEAN]
  /\ result \in [Items -> {"none", "pending", "verified", "failed"}]
  /\ commits \in [Items -> Nat] /\ present \in [Items -> BOOLEAN]
  /\ pc \in [Requests -> Steps] /\ at \in [Requests -> Items]
  /\ claim \in [Requests -> Nat] /\ key \in [Requests -> Keys \cup {NoKey}]
  /\ \A i \in Items : (token[i] # 0) = (state[i] = "claimed")

(* The operations of an item are committed once at most, whatever requests  *)
(* overlap, stop, stall or are repeated: the claim, the claim's comparison  *)
(* and, for a lease that expired between the two, the unique results.       *)
AppliedOnce == \A i \in Items : commits[i] <= 1

(* Unless a lease ran out under its holder, an item is applied or           *)
(* unverified exactly when its operations were committed: neither an        *)
(* exception of the read-back, nor a request that stopped, nor a second     *)
(* request makes a committed item look failed, or a failed one applied.     *)
StateTellsTheOutcome ==
  stalls = 0 =>
    \A i \in Items : (commits[i] = 1) = (state[i] \in {"applied", "unverified"})

(* A candidate that is shown as applied was applied as a whole, although    *)
(* the items were counted before it is stored and requests overlap.         *)
AppliedCandidateIsWhole ==
  status = "applied" => \A i \in Items : commits[i] = 1 \/ state[i] = "skipped"

(* A request passes over an item that another request has claimed.  Still,  *)
(* when all have been answered and none stopped half-way, every item of a   *)
(* finished attempt has an outcome.                                         *)
EveryItemReachesAnOutcome ==
  Quiet /\ stops = 0 /\ finished
    => \A i \in Items : state[i] \notin {"not_started", "claimed"}

(* A finished candidate is finished as a whole: applied means every item,   *)
(* and no item is left between two requests.                                *)
FinishedIsWhole == AppliedCandidateIsWhole /\ EveryItemReachesAnOutcome

(* docs/CandidateReview.md, Rejection: a rejected candidate has created no  *)
(* formal memory.                                                           *)
RejectionWroteNothing ==
  status = "rejected" => \A i \in Items : commits[i] = 0

=============================================================================
