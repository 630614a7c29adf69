---------------------------- MODULE RetryProofs ----------------------------
(***************************************************************************)
(* Proofs of the two protocols for requests that are made again.           *)
(*                                                                         *)
(* BatchApply: an item is committed once, its state tells whether it was,  *)
(* an applied candidate was applied as a whole and every item of a         *)
(* finished attempt has an outcome, for any number of requests, items,     *)
(* keys and faults.                                                        *)
(*                                                                         *)
(* DirectRequests: a direct request is delivered once at most and its      *)
(* receipt says so, and a compaction or review keeps its job until its     *)
(* own turn has ended, for any ids, calls, faults, exits and restarts.     *)
(***************************************************************************)
EXTENDS BatchApply, DirectRequests, FiniteSetTheorems, SequenceTheorems, TLAPS

Results == {"none", "pending", "verified", "failed"}
Readings == [ok : BOOLEAN, state : ItemStates, policy : Policies, result : Results]
Tallies == [whole : BOOLEAN, some : BOOLEAN]

(* r holds, or held, the claim of its item *)
Working(r) == pc[r] \in {"check", "execute", "failed"}

(* r goes on with an item that was committed *)
Verifying(r) == pc[r] \in {"readback", "verdict", "unverify"}

-----------------------------------------------------------------------------
(* The inductive invariant: TypeInv, CommitInv, WholeInv, LeaseInv and OutcomeInv *)

RowsTyped ==
  /\ status \in {"pending", "applied", "rejected", "expired"}
  /\ review \in {"pending", "prepared", "approved", "rejected", "expired"}
  /\ challenge \in BOOLEAN
  /\ reviewed \in [action : {"none", "approve", "reject", "expire"}, key : Keys \cup {NoKey}]
  /\ batch \in {"not_started", "applying", "applied", "partially_applied", "failed"}
  /\ attempts \in [Keys -> {"none", "running", "completed"}]

ItemsTyped ==
  /\ state \in [Items -> ItemStates] /\ policy \in [Items -> Policies]
  /\ claims \in [Items -> Nat] /\ token \in [Items -> Nat]
  /\ expired \in [Items -> BOOLEAN] /\ verified \in [Items -> BOOLEAN]
  /\ result \in [Items -> Results]
  /\ commits \in [Items -> Nat] /\ present \in [Items -> BOOLEAN]

ThreadsTyped ==
  /\ pc \in [Requests -> Steps] /\ at \in [Requests -> Items]
  /\ claim \in [Requests -> Nat] /\ key \in [Requests -> Keys \cup {NoKey}]
  /\ DOMAIN seen = Requests
  /\ \A r \in Requests : pc[r] = "verdict" => seen[r] \in Readings
  /\ \A r \in Requests : pc[r] = "finish" => seen[r] \in Tallies
  /\ stalls \in Nat /\ stops \in Nat

TypeInv == RowsTyped /\ ItemsTyped /\ ThreadsTyped

(* What an item's rows say of its transaction.  A failed item may have been *)
(* committed, by a holder whose claim was taken over.                       *)
ItemInv(i) ==
  /\ commits[i] = IF result[i] = "none" THEN 0 ELSE 1
  /\ policy[i] # "retry_same_plan"
  /\ commits[i] = 1 => state[i] \in {"applied", "unverified", "failed"}
  /\ state[i] \in {"applied", "unverified"} => commits[i] = 1
  /\ (token[i] # 0) = (state[i] = "claimed")

StepInv(r) ==
  /\ Working(r) => state[at[r]] \notin {"not_started", "skipped"}
  /\ Verifying(r) => commits[at[r]] = 1
  /\ pc[r] = "verdict" => seen[r].result # "none"

CommitInv == (\A i \in Items : ItemInv(i)) /\ (\A r \in Requests : StepInv(r))

(* What was counted stays so: an item that is committed or skipped. *)
Handled(i) == commits[i] = 1 \/ state[i] = "skipped"

WholeInv ==
  /\ status = "applied" => \A i \in Items : Handled(i)
  /\ \A r \in Requests : pc[r] = "finish" /\ seen[r].whole => \A i \in Items : Handled(i)

(* As long as no lease ran out under its holder, the claim is a lock. *)
LeaseInv ==
  stalls = 0 =>
    /\ \A i \in Items : state[i] = "failed" => commits[i] = 0
    /\ \A r \in Requests : Working(r) =>
         state[at[r]] = "claimed" /\ token[at[r]] = claim[r] /\ ~ expired[at[r]]
    /\ \A r, s \in Requests : Working(r) /\ Working(s) /\ r # s => at[r] # at[s]

(* Nobody passes an item that was not started, and a claim has a holder     *)
(* who is at it, unless a request stopped.                                  *)
Begun(i) == state[i] # "not_started"

OutcomeInv ==
  /\ \A r \in Requests : \A i \in Items : i < at[r] => Begun(i)
  /\ \A r \in Requests : pc[r] \in {"count", "finish"} => \A i \in Items : Begun(i)
  /\ finished => \A i \in Items : Begun(i)
  /\ stops = 0 =>
       \A i \in Items : state[i] = "claimed" => \E r \in Requests : Working(r) /\ at[r] = i

-----------------------------------------------------------------------------
(* Types *)

LEMMA TypeInit == Init => TypeInv
<1> SUFFICES ASSUME Init PROVE TypeInv
  OBVIOUS
<1>1. 1 \in Items
  BY CountsAreNaturals DEF Items
<1>2. RowsTyped
  BY DEF Init, RowsTyped, NoKey
<1>3. ItemsTyped
  BY DEF Init, ItemsTyped, ItemStates, Policies, Results
<1>4. ThreadsTyped
  BY <1>1 DEF Init, ThreadsTyped, Steps
<1> QED BY <1>2, <1>3, <1>4 DEF TypeInv

LEMMA RowsStep == RowsTyped /\ ThreadsTyped /\ [Next]_vars => RowsTyped'
<1> SUFFICES ASSUME RowsTyped, ThreadsTyped, [Next]_vars PROVE RowsTyped'
  OBVIOUS
<1> USE DEF RowsTyped, review_row, batch_row
<1>1. CASE Prepare
  BY <1>1 DEF Prepare
<1>2. CASE ExpireCandidate
  BY <1>2 DEF ExpireCandidate
<1>3. ASSUME NEW k \in Keys, Reject(k) PROVE RowsTyped'
  BY <1>3 DEF Reject
<1>4. ASSUME NEW r \in Requests, NEW k \in Keys, Approve(r, k) PROVE RowsTyped'
  <2>1. UNCHANGED batch_row
    BY <1>4 DEF Approve
  <2>2. CASE reviewed = [action |-> "approve", key |-> k]
    BY <1>4, <2>1, <2>2 DEF Approve
  <2>3. CASE reviewed # [action |-> "approve", key |-> k]
    <3>1. /\ review' = "approved" /\ challenge' = FALSE /\ UNCHANGED status
          /\ reviewed' = [action |-> "approve", key |-> k]
      BY <1>4, <2>3 DEF Approve
    <3> QED BY <2>1, <3>1
  <2> QED BY <2>2, <2>3
<1>5. ASSUME NEW r \in Requests, StartAttempt(r) PROVE RowsTyped'
  BY <1>5 DEF StartAttempt
<1>6. ASSUME NEW r \in Requests, FinishAttempt(r) PROVE RowsTyped'
  BY <1>6 DEF FinishAttempt
<1>7. ASSUME NEW r \in Requests, Executing(r), ~ StartAttempt(r), ~ FinishAttempt(r)
      PROVE  RowsTyped'
  BY <1>7 DEF Executing, StartRefused, Inspect, ClaimItem, ClaimLost, CheckClaim, ExecuteItem,
     ExecuteRaises, MarkItemFailed, ReadBack, StoreVerdict, ReadBackRaises,
     MarkItemUnverified, CountItems, CountRefused
<1>8. ASSUME NEW r \in Requests, Stop(r) PROVE RowsTyped'
  BY <1>8 DEF Stop
<1>9. ASSUME NEW i \in Items, LeaseExpires(i) \/ RecordGone(i) PROVE RowsTyped'
  BY <1>9 DEF LeaseExpires, RecordGone
<1>10. CASE UNCHANGED vars
  BY <1>10 DEF vars
<1> QED BY <1>1, <1>2, <1>3, <1>4, <1>5, <1>6, <1>7, <1>8, <1>9, <1>10
        DEF Next, Reviewing, Executing, Rest
(* What the three ways to go on do to a request *)

LEMMA GoEffect ==
  ASSUME ThreadsTyped, NEW r \in Requests, NEW step \in Steps, Go(r, step)
  PROVE  /\ pc' \in [Requests -> Steps] /\ pc'[r] = step
         /\ \A s \in Requests : s # r => pc'[s] = pc[s]
  BY DEF ThreadsTyped, Go

LEMMA NextItemEffect ==
  ASSUME ThreadsTyped, NEW r \in Requests, NextItem(r)
  PROVE  /\ pc' \in [Requests -> Steps] /\ at' \in [Requests -> Items]
         /\ pc'[r] = IF at[r] = N THEN "count" ELSE "inspect"
         /\ at'[r] = IF at[r] = N THEN N ELSE at[r] + 1
         /\ \A s \in Requests : s # r => pc'[s] = pc[s] /\ at'[s] = at[s]
<1> DEFINE step == IF at[r] = N THEN "count" ELSE "inspect"
<1>1. step \in Steps
  BY DEF Steps
<1>2. /\ pc' \in [Requests -> Steps] /\ pc'[r] = step
      /\ \A s \in Requests : s # r => pc'[s] = pc[s]
  <2>1. Go(r, step)
    BY DEF NextItem
  <2> QED BY <1>1, <2>1, GoEffect
<1>3. /\ at' \in [Requests -> Items]
      /\ at'[r] = IF at[r] = N THEN N ELSE at[r] + 1
      /\ \A s \in Requests : s # r => at'[s] = at[s]
  <2>1. at[r] \in 1..N /\ (at[r] # N => at[r] + 1 \in 1..N)
    BY CountsAreNaturals DEF ThreadsTyped, Items
  <2> QED BY <2>1 DEF NextItem, ThreadsTyped, Items
<1> QED BY <1>2, <1>3

LEMMA AnswerEffect ==
  ASSUME ThreadsTyped, NEW r \in Requests, Answer(r)
  PROVE  /\ pc' \in [Requests -> Steps] /\ at' \in [Requests -> Items]
         /\ claim' \in [Requests -> Nat] /\ key' \in [Requests -> Keys \cup {NoKey}]
         /\ DOMAIN seen' = Requests
         /\ pc'[r] = "idle" /\ at'[r] = 1
         /\ \A s \in Requests : s # r =>
              pc'[s] = pc[s] /\ at'[s] = at[s] /\ claim'[s] = claim[s] /\ seen'[s] = seen[s]
<1>1. 1 \in Items /\ "idle" \in Steps
  BY CountsAreNaturals DEF Items, Steps
<1> QED BY <1>1 DEF Answer, ThreadsTyped

LEMMA ItemsStep == TypeInv /\ [Next]_vars => ItemsTyped'
<1> SUFFICES ASSUME TypeInv, [Next]_vars PROVE ItemsTyped'
  OBVIOUS
<1> USE DEF TypeInv, ItemsTyped, item_rows, data
<1>a. \A r \in Requests : at[r] \in Items /\ claim[r] \in Nat
  BY DEF ThreadsTyped
<1>b. /\ {"applied", "unverified", "failed", "claimed"} \subseteq ItemStates
      /\ {"not_applicable", "verify_only", "new_batch_required"} \subseteq Policies
      /\ {"none", "pending", "verified", "failed"} \subseteq Results
  BY DEF ItemStates, Policies, Results
<1>1. CASE Reviewing
  BY <1>1 DEF Reviewing, Prepare, ExpireCandidate, Reject
<1>2. ASSUME NEW r \in Requests, NEW k \in Keys, Approve(r, k) PROVE ItemsTyped'
  BY <1>2 DEF Approve
<1>3. ASSUME NEW r \in Requests, ClaimItem(r) PROVE ItemsTyped'
  BY <1>3, <1>a, <1>b DEF ClaimItem
<1>4. ASSUME NEW r \in Requests, ExecuteItem(r) PROVE ItemsTyped'
  BY <1>4, <1>a, <1>b DEF ExecuteItem
<1>5. ASSUME NEW r \in Requests, MarkItemFailed(r) PROVE ItemsTyped'
  BY <1>5, <1>a, <1>b DEF MarkItemFailed
<1>6. ASSUME NEW r \in Requests, MarkItemUnverified(r) PROVE ItemsTyped'
  BY <1>6, <1>a, <1>b DEF MarkItemUnverified
<1>7. ASSUME NEW r \in Requests, StoreVerdict(r) PROVE ItemsTyped'
  <2>1. UNCHANGED <<claims, token, expired, commits, present>>
    BY <1>7 DEF StoreVerdict
  <2>2. seen[r] \in Readings
    BY <1>7 DEF StoreVerdict, ThreadsTyped
  <2>3. state' \in [Items -> ItemStates] /\ policy' \in [Items -> Policies]
    BY <1>7, <1>a, <1>b, <2>2 DEF StoreVerdict, Write, Readings
  <2>4. result' \in [Items -> Results]
    BY <1>7, <1>a, <1>b, <2>2 DEF StoreVerdict, Write, Readings
  <2>5. verified' \in [Items -> BOOLEAN]
    BY <1>7, <1>a, <2>2, Zenon DEF StoreVerdict, Readings
  <2> QED BY <2>1, <2>3, <2>4, <2>5
<1>8. ASSUME NEW r \in Requests, Executing(r), ~ ClaimItem(r), ~ ExecuteItem(r),
             ~ MarkItemFailed(r), ~ MarkItemUnverified(r), ~ StoreVerdict(r)
      PROVE  ItemsTyped'
  BY <1>8 DEF Executing, StartAttempt, StartRefused, Inspect, ClaimLost, CheckClaim,
     ExecuteRaises, ReadBack, ReadBackRaises, CountItems, CountRefused, FinishAttempt
<1>9. ASSUME NEW r \in Requests, Stop(r) PROVE ItemsTyped'
  BY <1>9 DEF Stop
<1>10. ASSUME NEW i \in Items, LeaseExpires(i) PROVE ItemsTyped'
  BY <1>10 DEF LeaseExpires
<1>11. ASSUME NEW i \in Items, RecordGone(i) PROVE ItemsTyped'
  BY <1>11 DEF RecordGone
<1>12. CASE UNCHANGED vars
  BY <1>12 DEF vars
<1> QED BY <1>1, <1>2, <1>3, <1>4, <1>5, <1>6, <1>7, <1>8, <1>9, <1>10, <1>11, <1>12
        DEF Next, Rest
(* A request that does not end in "verdict" or "finish" *)
LEMMA ThreadMoves ==
  ASSUME ThreadsTyped, NEW r \in Requests,
         pc' \in [Requests -> Steps], at' \in [Requests -> Items],
         claim' \in [Requests -> Nat], key' \in [Requests -> Keys \cup {NoKey}],
         DOMAIN seen' = Requests, stalls' \in Nat, stops' \in Nat,
         \A s \in Requests : s # r => pc'[s] = pc[s] /\ seen'[s] = seen[s],
         pc'[r] = "verdict" => seen'[r] \in Readings,
         pc'[r] = "finish" => seen'[r] \in Tallies
  PROVE  ThreadsTyped'
  BY DEF ThreadsTyped

LEMMA ThreadsStep == TypeInv /\ [Next]_vars => ThreadsTyped'
<1> SUFFICES ASSUME TypeInv, [Next]_vars PROVE ThreadsTyped'
  OBVIOUS
<1> USE DEF TypeInv, threads, counts
<1>a. /\ pc \in [Requests -> Steps] /\ at \in [Requests -> Items]
      /\ claim \in [Requests -> Nat] /\ key \in [Requests -> Keys \cup {NoKey}]
      /\ DOMAIN seen = Requests /\ stalls \in Nat /\ stops \in Nat
  BY DEF ThreadsTyped
<1>b. \A step \in {"idle", "start", "inspect", "claim", "check", "execute", "failed",
                   "readback", "verdict", "unverify", "count", "finish"} : step \in Steps
  BY DEF Steps
<1>1. CASE Reviewing
  BY <1>1 DEF Reviewing, Prepare, ExpireCandidate, Reject, ThreadsTyped
<1>2. ASSUME NEW r \in Requests, NEW k \in Keys, Approve(r, k) PROVE ThreadsTyped'
  <2>1. Go(r, "start") /\ UNCHANGED <<at, claim, key, seen, stalls, stops>>
    BY <1>2 DEF Approve
  <2> QED BY <1>a, <1>b, <2>1, GoEffect, ThreadMoves
<1>3. ASSUME NEW r \in Requests, StartAttempt(r) PROVE ThreadsTyped'
  <2>1. /\ Go(r, "inspect") /\ UNCHANGED <<at, claim, seen, stalls, stops>>
        /\ key' = [key EXCEPT ![r] = reviewed.key]
    BY <1>3 DEF StartAttempt
  <2>2. reviewed.key \in Keys \cup {NoKey}
    BY DEF RowsTyped
  <2>3. key' \in [Requests -> Keys \cup {NoKey}]
    BY <1>a, <2>1, <2>2
  <2> QED BY <1>a, <1>b, <2>1, <2>3, GoEffect, ThreadMoves
<1>4. ASSUME NEW r \in Requests, StartRefused(r) \/ CountRefused(r) \/ FinishAttempt(r)
      PROVE  ThreadsTyped'
  <2>1. Answer(r) /\ UNCHANGED <<stalls, stops>>
    BY <1>4 DEF StartRefused, CountRefused, FinishAttempt
  <2> QED BY <1>a, <2>1, AnswerEffect, ThreadMoves
<1>5. ASSUME NEW r \in Requests, Stop(r) PROVE ThreadsTyped'
  <2>1. Answer(r) /\ stops' = stops + 1 /\ UNCHANGED stalls
    BY <1>5 DEF Stop
  <2> QED BY <1>a, <2>1, AnswerEffect, ThreadMoves
<1>6. ASSUME NEW r \in Requests, Inspect(r) PROVE ThreadsTyped'
  <2>1. UNCHANGED <<claim, key, seen, stalls, stops>>
    BY <1>6 DEF Inspect
  <2>2. CASE Settled(at[r])
    <3>1. NextItem(r)
      BY <1>6, <2>2 DEF Inspect
    <3> QED BY <1>a, <2>1, <3>1, NextItemEffect, ThreadMoves
  <2>3. CASE ~ Settled(at[r])
    <3>1. UNCHANGED at /\ (Go(r, "readback") \/ Go(r, "claim"))
      BY <1>6, <2>3 DEF Inspect
    <3> QED BY <1>a, <1>b, <2>1, <3>1, GoEffect, ThreadMoves
  <2> QED BY <2>2, <2>3
<1>7. ASSUME NEW r \in Requests, ClaimItem(r) PROVE ThreadsTyped'
  <2>1. /\ Go(r, "check") /\ UNCHANGED <<at, key, seen, stalls, stops>>
        /\ claim' = [claim EXCEPT ![r] = claims[at[r]] + 1]
    BY <1>7 DEF ClaimItem
  <2>2. claims[at[r]] + 1 \in Nat
    BY <1>a DEF ItemsTyped
  <2>3. claim' \in [Requests -> Nat]
    BY <1>a, <2>1, <2>2
  <2> QED BY <1>a, <1>b, <2>1, <2>3, GoEffect, ThreadMoves
<1>8. ASSUME NEW r \in Requests,
             ClaimLost(r) \/ MarkItemFailed(r) \/ MarkItemUnverified(r)
      PROVE  ThreadsTyped'
  <2>1. NextItem(r) /\ UNCHANGED <<claim, key, seen, stalls, stops>>
    BY <1>8 DEF ClaimLost, MarkItemFailed, MarkItemUnverified
  <2> QED BY <1>a, <2>1, NextItemEffect, ThreadMoves
<1>9. ASSUME NEW r \in Requests, CheckClaim(r) \/ ExecuteItem(r) \/ ExecuteRaises(r)
      PROVE  ThreadsTyped'
  <2>1. /\ Go(r, "execute") \/ Go(r, "failed") \/ Go(r, "readback")
        /\ UNCHANGED <<at, claim, key, seen, stalls, stops>>
    BY <1>9 DEF CheckClaim, ExecuteItem, ExecuteRaises
  <2> QED BY <1>a, <1>b, <2>1, GoEffect, ThreadMoves
<1>10. ASSUME NEW r \in Requests, ReadBack(r) PROVE ThreadsTyped'
  <2>1. /\ Go(r, "verdict") /\ UNCHANGED <<at, claim, key, stalls, stops>>
        /\ seen' = [seen EXCEPT ![r] =
             [ok |-> result[at[r]] = "none" \/ present[at[r]], state |-> state[at[r]],
              policy |-> policy[at[r]], result |-> result[at[r]]]]
    BY <1>10 DEF ReadBack
  <2>2. seen'[r] \in Readings
    <3>1. at[r] \in Items
      BY <1>a
    <3>2. /\ state[at[r]] \in ItemStates /\ policy[at[r]] \in Policies
          /\ result[at[r]] \in Results
      BY <3>1 DEF ItemsTyped
    <3>3. (result[at[r]] = "none" \/ present[at[r]]) \in BOOLEAN
      BY <3>1 DEF ItemsTyped
    <3> QED BY <1>a, <2>1, <3>2, <3>3, Zenon DEF Readings
  <2>3. DOMAIN seen' = Requests /\ \A s \in Requests : s # r => seen'[s] = seen[s]
    BY <1>a, <2>1
  <2> QED BY <1>a, <1>b, <2>1, <2>2, <2>3, GoEffect, ThreadMoves
<1>11. ASSUME NEW r \in Requests, StoreVerdict(r) PROVE ThreadsTyped'
  <2>1. /\ NextItem(r) /\ UNCHANGED <<claim, key, stalls, stops>>
        /\ seen' = [seen EXCEPT ![r] = Nothing]
    BY <1>11 DEF StoreVerdict
  <2> QED BY <1>a, <2>1, NextItemEffect, ThreadMoves
<1>12. ASSUME NEW r \in Requests, ReadBackRaises(r) PROVE ThreadsTyped'
  <2>1. /\ Go(r, "unverify") /\ UNCHANGED <<at, claim, key, stalls, stops>>
        /\ seen' = [seen EXCEPT ![r] = Nothing]
    BY <1>12 DEF ReadBackRaises
  <2> QED BY <1>a, <1>b, <2>1, GoEffect, ThreadMoves
<1>13. ASSUME NEW r \in Requests, CountItems(r) PROVE ThreadsTyped'
  <2>1. /\ Go(r, "finish") /\ UNCHANGED <<at, claim, key, stalls, stops>>
        /\ seen' = [seen EXCEPT ![r] =
             [whole |-> \A i \in Items : state[i] \in {"applied", "skipped"},
              some |-> \E i \in Items : state[i] \in {"applied", "skipped"}]]
    BY <1>13 DEF CountItems
  <2>2. seen'[r] \in Tallies
    BY <1>a, <2>1, Zenon DEF Tallies
  <2>3. DOMAIN seen' = Requests /\ \A s \in Requests : s # r => seen'[s] = seen[s]
    BY <1>a, <2>1
  <2> QED BY <1>a, <1>b, <2>1, <2>2, <2>3, GoEffect, ThreadMoves
<1>14. ASSUME NEW i \in Items, LeaseExpires(i) \/ RecordGone(i) PROVE ThreadsTyped'
  <2>1. UNCHANGED threads /\ stalls' \in Nat /\ UNCHANGED stops
    BY <1>14, <1>a DEF LeaseExpires, RecordGone
  <2> QED BY <2>1 DEF ThreadsTyped
<1>15. CASE UNCHANGED vars
  BY <1>15 DEF vars, ThreadsTyped
<1> QED BY <1>1, <1>2, <1>3, <1>4, <1>5, <1>6, <1>7, <1>8, <1>9, <1>10, <1>11, <1>12, <1>13,
           <1>14, <1>15 DEF Next, Executing, Rest
-----------------------------------------------------------------------------
(* Commits *)

(* What a step never takes back from an item *)
Progress(i) ==
  /\ commits[i] = 1 => commits'[i] = 1
  /\ state[i] \notin {"not_started", "skipped"} => state'[i] \notin {"not_started", "skipped"}
  /\ state'[i] = "not_started" => state[i] = "not_started"
  /\ state[i] = "skipped" => state'[i] = "skipped" \/ commits'[i] = 1

LEMMA Untouched ==
  ASSUME NEW i \in Items, ItemInv(i), commits'[i] = commits[i], result'[i] = result[i],
         policy'[i] = policy[i], state'[i] = state[i], token'[i] = token[i]
  PROVE  ItemInv(i)' /\ Progress(i)
  BY DEF ItemInv, Progress

LEMMA ItemStep ==
  ASSUME TypeInv, CommitInv, [Next]_vars, NEW i \in Items
  PROVE  ItemInv(i)' /\ Progress(i)
<1> USE DEF TypeInv, item_rows, data
<1>a. ItemInv(i)
  BY DEF CommitInv
<1>b. \A r \in Requests : StepInv(r) /\ at[r] \in Items
  BY DEF CommitInv, ThreadsTyped
<1>1. CASE Reviewing
  BY <1>1, <1>a, Untouched DEF Reviewing, Prepare, ExpireCandidate, Reject
<1>2. ASSUME NEW r \in Requests, NEW k \in Keys, Approve(r, k)
      PROVE  ItemInv(i)' /\ Progress(i)
  BY <1>2, <1>a, Untouched DEF Approve
<1>3. ASSUME NEW r \in Requests, ClaimItem(r) PROVE ItemInv(i)' /\ Progress(i)
  <2>1. CASE at[r] = i
    <3>1. state[i] = "not_started" \/ (state[i] = "claimed" /\ expired[i])
      BY <1>3, <1>a, <2>1 DEF ClaimItem, Claimable, ItemInv
    <3>2. /\ state'[i] = "claimed" /\ token'[i] = claims[i] + 1
          /\ policy'[i] = "not_applicable" /\ UNCHANGED <<commits, result>>
      BY <1>3, <2>1 DEF ClaimItem, ItemsTyped
    <3>3. claims[i] \in Nat /\ commits[i] \in Nat
      BY DEF ItemsTyped
    <3> QED BY <1>a, <3>1, <3>2, <3>3 DEF ItemInv, Progress
  <2>2. CASE at[r] # i
    BY <1>3, <1>a, <2>2, Untouched DEF ClaimItem, ItemsTyped
  <2> QED BY <2>1, <2>2
<1>4. ASSUME NEW r \in Requests, ExecuteItem(r) PROVE ItemInv(i)' /\ Progress(i)
  <2>1. CASE at[r] = i
    <3>1. /\ state'[i] = "applied" /\ token'[i] = 0 /\ result'[i] = "pending"
          /\ commits'[i] = commits[i] + 1 /\ UNCHANGED policy /\ result[i] = "none"
      BY <1>4, <2>1 DEF ExecuteItem, ItemsTyped
    <3>2. commits[i] = 0
      BY <1>a, <3>1 DEF ItemInv
    <3>3. state[i] \notin {"not_started", "skipped"}
      BY <1>4, <1>b, <2>1 DEF ExecuteItem, StepInv, Working
    <3> QED BY <1>a, <3>1, <3>2, <3>3 DEF ItemInv, Progress
  <2>2. CASE at[r] # i
    BY <1>4, <1>a, <2>2, Untouched DEF ExecuteItem, ItemsTyped
  <2> QED BY <2>1, <2>2
<1>5. ASSUME NEW r \in Requests, MarkItemFailed(r) PROVE ItemInv(i)' /\ Progress(i)
  <2>1. CASE at[r] = i
    <3>1. /\ state'[i] = "failed" /\ token'[i] = 0 /\ policy'[i] = "new_batch_required"
          /\ UNCHANGED <<commits, result>>
      BY <1>5, <2>1 DEF MarkItemFailed, ItemsTyped
    <3>2. state[i] \notin {"not_started", "skipped"}
      BY <1>5, <1>b, <2>1 DEF MarkItemFailed, StepInv, Working
    <3> QED BY <1>a, <3>1, <3>2 DEF ItemInv, Progress
  <2>2. CASE at[r] # i
    BY <1>5, <1>a, <2>2, Untouched DEF MarkItemFailed, ItemsTyped
  <2> QED BY <2>1, <2>2
<1>6. ASSUME NEW r \in Requests, MarkItemUnverified(r) PROVE ItemInv(i)' /\ Progress(i)
  <2>1. CASE at[r] = i
    <3>1. /\ state'[i] = "unverified" /\ token'[i] = 0 /\ policy'[i] = "verify_only"
          /\ UNCHANGED <<commits, result>>
      BY <1>6, <2>1 DEF MarkItemUnverified, ItemsTyped
    <3>2. commits[i] = 1
      BY <1>6, <1>b, <2>1 DEF MarkItemUnverified, StepInv, Verifying
    <3> QED BY <1>a, <3>1, <3>2 DEF ItemInv, Progress
  <2>2. CASE at[r] # i
    BY <1>6, <1>a, <2>2, Untouched DEF MarkItemUnverified, ItemsTyped
  <2> QED BY <2>1, <2>2
<1>7. ASSUME NEW r \in Requests, StoreVerdict(r) PROVE ItemInv(i)' /\ Progress(i)
  <2>1. CASE at[r] = i
    <3>1. commits[i] = 1 /\ seen[r].result # "none"
      BY <1>7, <1>b, <2>1 DEF StoreVerdict, StepInv, Verifying
    <3>2. /\ state'[i] = state[i] \/ state'[i] \in {"applied", "unverified"}
          /\ policy'[i] = policy[i] \/ policy'[i] \in {"not_applicable", "verify_only"}
          /\ result'[i] = result[i] \/ result'[i] \in {"verified", "failed"}
          /\ UNCHANGED <<token, commits>>
      BY <1>7, <2>1, <3>1 DEF StoreVerdict, Write, ItemsTyped
    <3> QED BY <1>a, <3>1, <3>2 DEF ItemInv, Progress
  <2>2. CASE at[r] # i
    BY <1>7, <1>a, <2>2, Untouched DEF StoreVerdict, Write, ItemsTyped
  <2> QED BY <2>1, <2>2
<1>8. ASSUME NEW r \in Requests, Executing(r), ~ ClaimItem(r), ~ ExecuteItem(r),
             ~ MarkItemFailed(r), ~ MarkItemUnverified(r), ~ StoreVerdict(r)
      PROVE  ItemInv(i)' /\ Progress(i)
  BY <1>8, <1>a, Untouched DEF Executing, StartAttempt, StartRefused, Inspect, ClaimLost,
     CheckClaim, ExecuteRaises, ReadBack, ReadBackRaises, CountItems, CountRefused,
     FinishAttempt
<1>9. ASSUME NEW r \in Requests, Stop(r) PROVE ItemInv(i)' /\ Progress(i)
  BY <1>9, <1>a, Untouched DEF Stop
<1>10. ASSUME NEW j \in Items, LeaseExpires(j) \/ RecordGone(j)
       PROVE  ItemInv(i)' /\ Progress(i)
  BY <1>10, <1>a, Untouched DEF LeaseExpires, RecordGone
<1>11. CASE UNCHANGED vars
  BY <1>11, <1>a, Untouched DEF vars
<1> QED BY <1>1, <1>2, <1>3, <1>4, <1>5, <1>6, <1>7, <1>8, <1>9, <1>10, <1>11 DEF Next, Rest
(* A step moves one request at most *)

Same(s) == /\ pc'[s] = pc[s] /\ at'[s] = at[s] /\ claim'[s] = claim[s] /\ seen'[s] = seen[s]

Acts(s) == (\E k \in Keys : Approve(s, k)) \/ Executing(s) \/ Stop(s)

LEMMA OnlyOneMoves ==
  ASSUME TypeInv, NEW r \in Requests, Acts(r), NEW s \in Requests, s # r
  PROVE  Same(s)
<1> USE DEF TypeInv, Same
<1>a. /\ pc \in [Requests -> Steps] /\ at \in [Requests -> Items]
      /\ claim \in [Requests -> Nat] /\ DOMAIN seen = Requests
  BY DEF ThreadsTyped
<1>1. ASSUME NEW step, Go(r, step) PROVE pc'[s] = pc[s]
  BY <1>1, <1>a DEF Go
<1>2. NextItem(r) => pc'[s] = pc[s] /\ at'[s] = at[s]
  BY NextItemEffect
<1>3. Answer(r) => Same(s)
  BY AnswerEffect
<1>4. CASE \E k \in Keys : Approve(r, k)
  BY <1>4, <1>1 DEF Approve
<1>5. CASE Stop(r)
  BY <1>5, <1>3 DEF Stop
<1>6. CASE StartRefused(r) \/ CountRefused(r) \/ FinishAttempt(r)
  BY <1>6, <1>3 DEF StartRefused, CountRefused, FinishAttempt
<1>7. CASE Inspect(r)
  BY <1>7, <1>1, <1>2 DEF Inspect
<1>8. CASE ClaimLost(r) \/ MarkItemFailed(r) \/ MarkItemUnverified(r) \/ StoreVerdict(r)
  <2>1. NextItem(r) /\ UNCHANGED claim /\ seen'[s] = seen[s]
    BY <1>8, <1>a DEF ClaimLost, MarkItemFailed, MarkItemUnverified, StoreVerdict
  <2> QED BY <2>1, <1>2
<1>9. CASE StartAttempt(r) \/ CheckClaim(r) \/ ExecuteItem(r) \/ ExecuteRaises(r)
  BY <1>9, <1>1 DEF StartAttempt, CheckClaim, ExecuteItem, ExecuteRaises
<1>10. CASE ClaimItem(r)
  BY <1>10, <1>1, <1>a DEF ClaimItem
<1>11. CASE ReadBack(r) \/ ReadBackRaises(r) \/ CountItems(r)
  BY <1>11, <1>1, <1>a DEF ReadBack, ReadBackRaises, CountItems
<1> QED BY <1>4, <1>5, <1>6, <1>7, <1>8, <1>9, <1>10, <1>11 DEF Acts, Executing

LEMMA MovesOrSame ==
  ASSUME TypeInv, [Next]_vars, NEW s \in Requests
  PROVE  Acts(s) \/ Same(s)
<1>1. ASSUME NEW r \in Requests, Acts(r) PROVE Acts(s) \/ Same(s)
  BY <1>1, OnlyOneMoves
<1>2. CASE UNCHANGED threads
  BY <1>2 DEF threads, Same
<1>3. CASE Reviewing \/ UNCHANGED vars
  BY <1>2, <1>3 DEF Reviewing, Prepare, ExpireCandidate, Reject, vars
<1>4. ASSUME NEW i \in Items, LeaseExpires(i) \/ RecordGone(i) PROVE UNCHANGED threads
  BY <1>4 DEF LeaseExpires, RecordGone, threads
<1> QED BY <1>1, <1>2, <1>3, <1>4 DEF Next, Rest, Acts

LEMMA StepStep ==
  ASSUME TypeInv, CommitInv, [Next]_vars, NEW s \in Requests
  PROVE  StepInv(s)'
<1>a. /\ StepInv(s) /\ ItemInv(at[s])
      /\ at[s] \in Items /\ pc \in [Requests -> Steps] /\ DOMAIN seen = Requests
  BY DEF CommitInv, TypeInv, ThreadsTyped
<1>b. \A i \in Items : Progress(i) /\ ItemInv(i)'
  BY ItemStep
<1> USE DEF TypeInv, StepInv, Working, Verifying
<1>c. \A step \in Steps : Go(s, step) => pc'[s] = step
  BY GoEffect
<1>d. "failed" \in Steps /\ "execute" \in Steps /\ "readback" \in Steps /\ "verdict" \in Steps
      /\ "check" \in Steps /\ "claim" \in Steps /\ "unverify" \in Steps
      /\ "start" \in Steps /\ "inspect" \in Steps /\ "finish" \in Steps
  BY DEF Steps
<1>1. CASE Same(s)
  BY <1>1, <1>a, <1>b DEF Same, Progress
<1>2. CASE pc'[s] \in {"idle", "start", "inspect", "claim", "count", "finish"}
  BY <1>2
<1>3. CASE Answer(s) \/ NextItem(s)
  BY <1>2, <1>3, AnswerEffect, NextItemEffect
<1>4. CASE \E k \in Keys : Approve(s, k)
  BY <1>2, <1>4, <1>c, <1>d DEF Approve
<1>5. CASE Stop(s) \/ StartRefused(s) \/ CountRefused(s) \/ FinishAttempt(s)
  BY <1>3, <1>5 DEF Stop, StartRefused, CountRefused, FinishAttempt
<1>6. CASE ClaimLost(s) \/ MarkItemFailed(s) \/ MarkItemUnverified(s) \/ StoreVerdict(s)
  BY <1>3, <1>6 DEF ClaimLost, MarkItemFailed, MarkItemUnverified, StoreVerdict
<1>7. CASE StartAttempt(s) \/ CountItems(s)
  BY <1>2, <1>7, <1>c, <1>d DEF StartAttempt, CountItems
<1>8. CASE Inspect(s)
  <2>1. CASE Settled(at[s])
    BY <1>3, <1>8, <2>1 DEF Inspect
  <2>2. CASE ~ Settled(at[s]) /\ ~ ToReadBack(at[s])
    BY <1>2, <1>8, <1>c, <1>d, <2>2 DEF Inspect
  <2>3. CASE ~ Settled(at[s]) /\ ToReadBack(at[s])
    <3>1. pc'[s] = "readback" /\ UNCHANGED at
      BY <1>8, <1>c, <1>d, <2>3 DEF Inspect
    <3>2. commits[at[s]] = 1
      BY <1>a, <2>3 DEF ToReadBack, ItemInv
    <3> QED BY <1>a, <1>b, <3>1, <3>2 DEF Progress
  <2> QED BY <2>1, <2>2, <2>3
<1>9. CASE ClaimItem(s)
  <2>1. pc'[s] = "check" /\ UNCHANGED at /\ state'[at[s]] = "claimed"
    BY <1>9, <1>a, <1>c, <1>d DEF ClaimItem, ItemsTyped
  <2> QED BY <2>1
<1>10. CASE CheckClaim(s) \/ ExecuteRaises(s)
  <2>1. Working(s) /\ pc'[s] \in {"execute", "failed"} /\ UNCHANGED at
    BY <1>10, <1>c, <1>d DEF CheckClaim, ExecuteRaises
  <2> QED BY <1>a, <1>b, <2>1 DEF Progress
<1>11. CASE ExecuteItem(s)
  <2>1. pc'[s] = "readback" /\ UNCHANGED at /\ result'[at[s]] = "pending"
    BY <1>11, <1>a, <1>c, <1>d DEF ExecuteItem, ItemsTyped
  <2> QED BY <1>a, <1>b, <2>1 DEF ItemInv
<1>12. CASE ReadBack(s)
  <2>1. /\ pc'[s] = "verdict" /\ UNCHANGED <<at, commits>> /\ Verifying(s)
        /\ seen'[s].result = result[at[s]]
    BY <1>12, <1>a, <1>c, <1>d DEF ReadBack, data
  <2> QED BY <1>a, <2>1 DEF ItemInv
<1>13. CASE ReadBackRaises(s)
  <2>1. pc'[s] = "unverify" /\ UNCHANGED <<at, commits>> /\ Verifying(s)
    BY <1>13, <1>c, <1>d DEF ReadBackRaises, data
  <2> QED BY <1>a, <2>1
<1> QED BY <1>1, <1>4, <1>5, <1>6, <1>7, <1>8, <1>9, <1>10, <1>11, <1>12, <1>13, MovesOrSame
        DEF Acts, Executing

LEMMA CommitInit == Init => CommitInv
<1> SUFFICES ASSUME Init PROVE CommitInv
  OBVIOUS
<1>1. ASSUME NEW i \in Items PROVE ItemInv(i)
  <2>1. /\ state[i] \in {"not_started", "skipped"} /\ policy[i] = "not_applicable"
        /\ token[i] = 0 /\ result[i] = "none" /\ commits[i] = 0
    BY DEF Init
  <2> QED BY <2>1 DEF ItemInv
<1>2. ASSUME NEW r \in Requests PROVE StepInv(r)
  BY DEF Init, StepInv, Working, Verifying
<1> QED BY <1>1, <1>2 DEF CommitInv

LEMMA CommitStep == TypeInv /\ CommitInv /\ [Next]_vars => CommitInv'
  BY ItemStep, StepStep DEF CommitInv

LEMMA TypeStep == TypeInv /\ [Next]_vars => TypeInv'
  BY RowsStep, ItemsStep, ThreadsStep DEF TypeInv

LEMMA CommitsHold == Spec => [](TypeInv /\ CommitInv)
<1>1. TypeInv /\ CommitInv /\ [Next]_vars => (TypeInv /\ CommitInv)'
  BY TypeStep, CommitStep
<1> QED BY TypeInit, CommitInit, <1>1, PTL DEF Spec

(* The rows have their types, and exactly the claimed items have a claim    *)
(* token, whatever the number of requests, items and faults.                *)
THEOREM TypeCorrect == Spec => []TypeOK
<1>1. TypeInv /\ CommitInv => TypeOK
  BY DEF TypeInv, CommitInv, ItemInv, RowsTyped, ItemsTyped, ThreadsTyped, TypeOK, Results
<1> QED BY CommitsHold, <1>1, PTL

(* The operations of an item are committed once at most: two requests that  *)
(* overlap on an expired claim meet in the unique results (batch_apply.py,  *)
(* _execute_claimed_item), and no other request starts an item that has     *)
(* them.                                                                    *)
THEOREM AppliedOnceAlways == Spec => []AppliedOnce
<1>1. CommitInv => AppliedOnce
  BY DEF CommitInv, ItemInv, AppliedOnce
<1> QED BY CommitsHold, <1>1, PTL
-----------------------------------------------------------------------------
(* The aggregate *)

LEMMA DoneStays ==
  ASSUME TypeInv, CommitInv, [Next]_vars, NEW i \in Items, Handled(i)
  PROVE  Handled(i)'
  BY ItemStep DEF Handled, Progress

LEMMA OnlyFinishApplies ==
  ASSUME [Next]_vars, status' = "applied", status # "applied"
  PROVE  \E r \in Requests : FinishAttempt(r) /\ seen[r].whole
<1> USE DEF review_row
<1>1. ~ Reviewing
  BY DEF Reviewing, Prepare, ExpireCandidate, Reject
<1>2. ASSUME NEW r \in Requests, NEW k \in Keys PROVE ~ Approve(r, k)
  BY DEF Approve
<1>3. ASSUME NEW r \in Requests, Executing(r) \/ Stop(r)
      PROVE  FinishAttempt(r) /\ seen[r].whole
  <2>1. CASE FinishAttempt(r)
    BY <2>1 DEF FinishAttempt
  <2>2. CASE ~ FinishAttempt(r)
    BY <1>3, <2>2 DEF Executing, Stop, StartAttempt, StartRefused, Inspect, ClaimItem, ClaimLost,
       CheckClaim, ExecuteItem, ExecuteRaises, MarkItemFailed, ReadBack, StoreVerdict,
       ReadBackRaises, MarkItemUnverified, CountItems, CountRefused
  <2> QED BY <2>1, <2>2
<1>4. ASSUME NEW i \in Items PROVE ~ LeaseExpires(i) /\ ~ RecordGone(i)
  BY DEF LeaseExpires, RecordGone
<1>5. ~ UNCHANGED vars
  BY DEF vars
<1> QED BY <1>1, <1>2, <1>3, <1>4, <1>5 DEF Next, Rest

LEMMA OnlyCountFinishes ==
  ASSUME TypeInv, NEW s \in Requests, Acts(s), pc'[s] = "finish"
  PROVE  CountItems(s)
<1>a. \A step \in Steps : Go(s, step) => pc'[s] = step
  BY GoEffect DEF TypeInv
<1>b. ~ Answer(s) /\ ~ NextItem(s)
  BY AnswerEffect, NextItemEffect DEF TypeInv
<1>c. \A step \in {"start", "inspect", "claim", "check", "execute", "failed", "readback",
                   "verdict", "unverify"} : ~ Go(s, step)
  BY <1>a DEF Steps
<1> QED BY <1>b, <1>c DEF Acts, Approve, Executing, Stop, StartAttempt, StartRefused, Inspect,
           ClaimItem, ClaimLost, CheckClaim, ExecuteItem, ExecuteRaises, MarkItemFailed, ReadBack,
           StoreVerdict, ReadBackRaises, MarkItemUnverified, CountRefused, FinishAttempt

LEMMA WholeStep == TypeInv /\ CommitInv /\ WholeInv /\ [Next]_vars => WholeInv'
<1> SUFFICES ASSUME TypeInv, CommitInv, WholeInv, [Next]_vars PROVE WholeInv'
  OBVIOUS
<1>1. ASSUME status' = "applied", NEW i \in Items PROVE Handled(i)'
  <2>1. CASE status = "applied"
    BY <2>1, DoneStays DEF WholeInv
  <2>2. CASE status # "applied"
    <3>1. PICK r \in Requests : FinishAttempt(r) /\ seen[r].whole
      BY <1>1, <2>2, OnlyFinishApplies
    <3>2. pc[r] = "finish"
      BY <3>1 DEF FinishAttempt
    <3> QED BY <3>1, <3>2, DoneStays DEF WholeInv
  <2> QED BY <2>1, <2>2
<1>2. ASSUME NEW s \in Requests, pc'[s] = "finish", seen'[s].whole, NEW i \in Items
      PROVE  Handled(i)'
  <2>1. CASE Same(s)
    BY <1>2, <2>1, DoneStays DEF WholeInv, Same
  <2>2. CASE Acts(s)
    <3>1. CountItems(s)
      BY <1>2, <2>2, OnlyCountFinishes
    <3>2. seen'[s].whole = (\A j \in Items : state[j] \in {"applied", "skipped"})
      BY <3>1, Zenon DEF CountItems, TypeInv, ThreadsTyped
    <3>3. state[i] \in {"applied", "skipped"}
      BY <1>2, <3>2
    <3>4. Handled(i)
      BY <3>3 DEF Handled, CommitInv, ItemInv
    <3> QED BY <3>4, DoneStays
  <2> QED BY <2>1, <2>2, MovesOrSame
<1> QED BY <1>1, <1>2 DEF WholeInv

(* A candidate shown as applied was applied as a whole: what an attempt     *)
(* counted as applied or skipped stays committed or skipped until it is     *)
(* stored (batch_apply.py, _finish_attempt).                                *)
THEOREM AppliedCandidateIsWholeAlways == Spec => []AppliedCandidateIsWhole
<1>1. Init => WholeInv
  BY DEF Init, WholeInv
<1>2. WholeInv => AppliedCandidateIsWhole
  BY DEF WholeInv, Handled, AppliedCandidateIsWhole
<1> QED BY <1>1, <1>2, CommitsHold, WholeStep, PTL DEF Spec
-----------------------------------------------------------------------------
(* The claim as a lock *)

LEMMA StallsGrow ==
  ASSUME TypeInv, [Next]_vars, stalls' = 0
  PROVE  stalls = 0 /\ \A i \in Items : LeaseExpires(i) => ~ AtWork(i)
<1> USE DEF counts
<1>a. stalls \in Nat
  BY DEF TypeInv, ThreadsTyped
<1>1. ASSUME NEW i \in Items, LeaseExpires(i) PROVE ~ AtWork(i) /\ stalls = 0
  BY <1>1, <1>a DEF LeaseExpires
<1>2. ASSUME NEW i \in Items, RecordGone(i) PROVE stalls = 0
  BY <1>2 DEF RecordGone
<1>3. ASSUME Reviewing \/ UNCHANGED vars PROVE stalls = 0
  BY <1>3 DEF Reviewing, Prepare, ExpireCandidate, Reject, vars
<1>4. ASSUME NEW r \in Requests, NEW k \in Keys, Approve(r, k) PROVE stalls = 0
  BY <1>4 DEF Approve
<1>5. ASSUME NEW r \in Requests, Executing(r) \/ Stop(r) PROVE stalls = 0
  BY <1>5 DEF Executing, Stop, StartAttempt, StartRefused, Inspect, ClaimItem, ClaimLost,
     CheckClaim, ExecuteItem, ExecuteRaises, MarkItemFailed, ReadBack, StoreVerdict,
     ReadBackRaises, MarkItemUnverified, CountItems, CountRefused, FinishAttempt
<1> QED BY <1>1, <1>2, <1>3, <1>4, <1>5 DEF Next, Rest

(* How an item leaves its state, and who does it *)
ItemUnchanged(i) ==
  /\ state'[i] = state[i] /\ token'[i] = token[i] /\ commits'[i] = commits[i]

Touches(r, i) ==
  /\ at[r] = i
  /\ ClaimItem(r) \/ ExecuteItem(r) \/ MarkItemFailed(r) \/ MarkItemUnverified(r)
       \/ StoreVerdict(r)

LEMMA WhoTouches ==
  ASSUME TypeInv, [Next]_vars, NEW i \in Items
  PROVE  \/ \E r \in Requests : Touches(r, i)
         \/ ItemUnchanged(i) /\ (expired'[i] = expired[i] \/ LeaseExpires(i))
<1> DEFINE Kept == ItemUnchanged(i) /\ (expired'[i] = expired[i] \/ LeaseExpires(i))
<1> USE DEF item_rows, data, ItemUnchanged
<1>1. CASE Reviewing \/ UNCHANGED vars
  BY <1>1 DEF Reviewing, Prepare, ExpireCandidate, Reject, vars
<1>2. ASSUME NEW r \in Requests, NEW k \in Keys, Approve(r, k) PROVE Kept
  BY <1>2 DEF Approve
<1>3. ASSUME NEW r \in Requests, Executing(r) \/ Stop(r), ~ Touches(r, i) PROVE Kept
  <2>1. CASE at[r] # i
    <3>1. CASE ClaimItem(r)
      BY <2>1, <3>1 DEF ClaimItem, TypeInv, ItemsTyped
    <3>2. CASE ExecuteItem(r)
      BY <2>1, <3>2 DEF ExecuteItem, TypeInv, ItemsTyped
    <3>3. CASE MarkItemFailed(r)
      BY <2>1, <3>3 DEF MarkItemFailed, TypeInv, ItemsTyped
    <3>4. CASE MarkItemUnverified(r)
      BY <2>1, <3>4 DEF MarkItemUnverified, TypeInv, ItemsTyped
    <3>5. CASE StoreVerdict(r)
      BY <2>1, <3>5 DEF StoreVerdict, Write, TypeInv, ItemsTyped
    <3>6. CASE ~ ClaimItem(r) /\ ~ ExecuteItem(r) /\ ~ MarkItemFailed(r)
               /\ ~ MarkItemUnverified(r) /\ ~ StoreVerdict(r)
      BY <1>3, <3>6 DEF Executing, Stop, StartAttempt, StartRefused, Inspect, ClaimLost,
         CheckClaim, ExecuteRaises, ReadBack, ReadBackRaises, CountItems, CountRefused,
         FinishAttempt
    <3> QED BY <3>1, <3>2, <3>3, <3>4, <3>5, <3>6
  <2>2. CASE at[r] = i
    <3>1. ~ ClaimItem(r) /\ ~ ExecuteItem(r) /\ ~ MarkItemFailed(r)
          /\ ~ MarkItemUnverified(r) /\ ~ StoreVerdict(r)
      BY <1>3, <2>2 DEF Touches
    <3> QED BY <1>3, <3>1 DEF Executing, Stop, StartAttempt, StartRefused, Inspect, ClaimLost,
         CheckClaim, ExecuteRaises, ReadBack, ReadBackRaises, CountItems, CountRefused,
         FinishAttempt
  <2> QED BY <2>1, <2>2
<1>4. ASSUME NEW j \in Items, LeaseExpires(j) PROVE Kept
  BY <1>4 DEF LeaseExpires, TypeInv, ItemsTyped
<1>5. ASSUME NEW j \in Items, RecordGone(j) PROVE Kept
  BY <1>5 DEF RecordGone
<1> QED BY <1>1, <1>2, <1>3, <1>4, <1>5 DEF Next, Rest

LEMMA TouchNeedsClaim ==
  ASSUME TypeInv, CommitInv, LeaseInv, stalls = 0, NEW r \in Requests, NEW s \in Requests,
         Working(s), Touches(r, at[s])
  PROVE  r = s
<1>1. /\ at[s] \in Items /\ ItemInv(at[s]) /\ StepInv(r)
      /\ state[at[s]] = "claimed" /\ ~ expired[at[s]]
  BY DEF TypeInv, ThreadsTyped, CommitInv, LeaseInv
<1>2. CASE ClaimItem(r)
  BY <1>1, <1>2 DEF ClaimItem, Claimable, Touches
<1>3. CASE ExecuteItem(r) \/ MarkItemFailed(r)
  BY <1>3 DEF ExecuteItem, MarkItemFailed, Touches, Working, LeaseInv
<1>4. CASE MarkItemUnverified(r) \/ StoreVerdict(r)
  <2>1. commits[at[s]] = 1
    BY <1>1, <1>4 DEF MarkItemUnverified, StoreVerdict, Touches, StepInv, Verifying
  <2> QED BY <1>1, <2>1 DEF ItemInv
<1> QED BY <1>2, <1>3, <1>4 DEF Touches

LEMMA WorkingMoves ==
  ASSUME TypeInv, NEW s \in Requests, Acts(s), Working(s)'
  PROVE  ClaimItem(s) \/ CheckClaim(s) \/ ExecuteRaises(s)
<1>a. \A step \in Steps : Go(s, step) => pc'[s] = step
  BY GoEffect DEF TypeInv
<1>b. ~ Answer(s) /\ ~ NextItem(s)
  BY AnswerEffect, NextItemEffect DEF TypeInv, Working
<1>c. \A step \in {"start", "inspect", "claim", "readback", "verdict", "unverify", "count",
                   "finish"} : ~ Go(s, step)
  BY <1>a DEF Steps, Working
<1> QED BY <1>b, <1>c DEF Acts, Approve, Executing, Stop, StartAttempt, StartRefused, Inspect,
           ClaimLost, ExecuteItem, MarkItemFailed, ReadBack, StoreVerdict,
           ReadBackRaises, MarkItemUnverified, CountItems, CountRefused, FinishAttempt
(* A request keeps its claim while it is at work ... *)
LEMMA HeldStays ==
  ASSUME TypeInv, CommitInv, LeaseInv, stalls' = 0, [Next]_vars,
         NEW s \in Requests, Working(s), \A r \in Requests : ~ Touches(r, at[s])
  PROVE  state'[at[s]] = "claimed" /\ token'[at[s]] = claim[s] /\ ~ expired'[at[s]]
<1>1. at[s] \in Items /\ stalls = 0 /\ (LeaseExpires(at[s]) => ~ AtWork(at[s]))
  BY StallsGrow DEF TypeInv, ThreadsTyped
<1>2. state[at[s]] = "claimed" /\ token[at[s]] = claim[s] /\ ~ expired[at[s]]
  BY <1>1 DEF LeaseInv
<1>3. AtWork(at[s])
  BY <1>2 DEF AtWork, Working
<1> QED BY <1>1, <1>2, <1>3, WhoTouches DEF ItemUnchanged

(* ... whether it moves or not. *)
LEMMA WorkingHolds ==
  ASSUME TypeInv, CommitInv, LeaseInv, stalls' = 0, [Next]_vars,
         NEW s \in Requests, Working(s)'
  PROVE  /\ state'[at'[s]] = "claimed" /\ token'[at'[s]] = claim'[s] /\ ~ expired'[at'[s]]
         /\ (Working(s) /\ at'[s] = at[s]) \/ ClaimItem(s)
<1>1. stalls = 0
  BY StallsGrow
<1>2. CASE Same(s)
  <2>1. Working(s) /\ at'[s] = at[s] /\ claim'[s] = claim[s] /\ pc'[s] = pc[s]
    BY <1>2 DEF Same, Working
  <2>2. ASSUME NEW r \in Requests, Touches(r, at[s]) PROVE FALSE
    <3>1. Touches(s, at[s])
      BY <1>1, <2>1, <2>2, TouchNeedsClaim
    <3>2. pc'[s] \notin {"check", "execute", "failed"} \/ pc[s] = "claim"
      <4>1. /\ Go(s, "readback") => pc'[s] = "readback"
            /\ NextItem(s) => pc'[s] \in {"count", "inspect"}
        BY GoEffect, NextItemEffect DEF TypeInv, Steps
      <4> QED BY <3>1, <4>1 DEF Touches, ClaimItem, ExecuteItem, MarkItemFailed,
                                MarkItemUnverified, StoreVerdict
    <3> QED BY <2>1, <3>2 DEF Working
  <2> QED BY <2>1, <2>2, HeldStays
<1>3. CASE ClaimItem(s)
  BY <1>3 DEF ClaimItem, TypeInv, ItemsTyped, ThreadsTyped
<1>4. CASE CheckClaim(s) \/ ExecuteRaises(s)
  <2>1. /\ Working(s) /\ UNCHANGED <<at, claim, state, token, expired>>
    BY <1>4 DEF CheckClaim, ExecuteRaises, Working, item_rows
  <2> QED BY <1>1, <2>1 DEF LeaseInv
<1> QED BY <1>2, <1>3, <1>4, MovesOrSame, WorkingMoves

LEMMA LeaseStep == TypeInv /\ CommitInv /\ LeaseInv /\ [Next]_vars => LeaseInv'
<1> SUFFICES ASSUME TypeInv, CommitInv, LeaseInv, [Next]_vars, stalls' = 0 PROVE LeaseInv'
  BY DEF LeaseInv
<1>1. stalls = 0
  BY StallsGrow
<1>2. ASSUME NEW i \in Items, state'[i] = "failed" PROVE commits'[i] = 0
  <2>1. CASE ItemUnchanged(i)
    BY <1>1, <1>2, <2>1 DEF ItemUnchanged, LeaseInv
  <2>2. ASSUME NEW r \in Requests, Touches(r, i) PROVE commits'[i] = 0
    <3>1. CASE MarkItemFailed(r)
      <4>1. Working(r) /\ UNCHANGED commits
        BY <3>1 DEF MarkItemFailed, Working, data
      <4>2. state[i] = "claimed" /\ ItemInv(i)
        BY <1>1, <2>2, <4>1 DEF LeaseInv, CommitInv, Touches
      <4> QED BY <4>1, <4>2 DEF ItemInv
    <3>2. CASE StoreVerdict(r)
      <4>1. commits[i] = 1 /\ (state'[i] = state[i] \/ state'[i] \in {"applied", "unverified"})
        BY <2>2, <3>2 DEF StoreVerdict, Write, Touches, CommitInv, StepInv, Verifying, TypeInv,
           ItemsTyped
      <4> QED BY <1>1, <1>2, <4>1 DEF LeaseInv
    <3>3. CASE ClaimItem(r)
      BY <1>2, <2>2, <3>3 DEF ClaimItem, Touches, TypeInv, ItemsTyped
    <3>4. CASE ExecuteItem(r)
      BY <1>2, <2>2, <3>4 DEF ExecuteItem, Touches, TypeInv, ItemsTyped
    <3>5. CASE MarkItemUnverified(r)
      BY <1>2, <2>2, <3>5 DEF MarkItemUnverified, Touches, TypeInv, ItemsTyped
    <3> QED BY <2>2, <3>1, <3>2, <3>3, <3>4, <3>5 DEF Touches
  <2> QED BY <2>1, <2>2, WhoTouches
<1>3. ASSUME NEW r \in Requests, Working(r)'
      PROVE  state'[at'[r]] = "claimed" /\ token'[at'[r]] = claim'[r] /\ ~ expired'[at'[r]]
  BY <1>3, WorkingHolds
<1>4. ASSUME NEW r \in Requests, NEW s \in Requests, Working(r)', Working(s)', r # s,
             at'[r] = at'[s]
      PROVE  FALSE
  <2>1. ASSUME NEW p \in Requests, NEW q \in Requests, Working(p)', Working(q)', p # q,
               at'[p] = at'[q], ClaimItem(p)
        PROVE  FALSE
    <3>1. Same(q)
      BY <2>1, OnlyOneMoves DEF Acts, Executing
    <3>2. Working(q) /\ at[q] = at'[q] /\ at[p] = at'[p]
      BY <2>1, <3>1 DEF Same, Working, ClaimItem
    <3>3. Touches(p, at[q])
      BY <2>1, <3>2 DEF Touches
    <3> QED BY <1>1, <2>1, <3>2, <3>3, TouchNeedsClaim
  <2>2. CASE ~ ClaimItem(r) /\ ~ ClaimItem(s)
    BY <1>1, <1>4, <2>2, WorkingHolds DEF LeaseInv
  <2> QED BY <1>4, <2>1, <2>2
<1> QED BY <1>2, <1>3, <1>4 DEF LeaseInv

(* As long as no lease expires under its holder, the state of an item tells *)
(* whether it was committed: an exception of the read-back, a request that  *)
(* stopped and a second request never make a committed item look failed.    *)
THEOREM StateTellsTheOutcomeAlways == Spec => []StateTellsTheOutcome
<1>1. Init => LeaseInv
  BY DEF Init, LeaseInv, Working
<1>2. CommitInv /\ LeaseInv => StateTellsTheOutcome
  BY DEF CommitInv, ItemInv, LeaseInv, StateTellsTheOutcome
<1> QED BY <1>1, <1>2, CommitsHold, LeaseStep, PTL DEF Spec
-----------------------------------------------------------------------------
(* Outcomes *)

LEMMA BegunStays ==
  ASSUME TypeInv, CommitInv, [Next]_vars, NEW i \in Items, Begun(i)
  PROVE  Begun(i)'
  BY ItemStep DEF Begun, Progress

LEMMA NextLeavesBegun ==
  ASSUME TypeInv, CommitInv, NEW r \in Requests, Acts(r)
  PROVE  \/ at'[r] = at[r] /\ pc'[r] # "count"
         \/ at'[r] = 1 /\ pc'[r] = "idle"
         \/ NextItem(r) /\ Begun(at[r])
<1>a. at[r] \in Items /\ StepInv(r) /\ ItemInv(at[r])
  BY DEF CommitInv, TypeInv, ThreadsTyped
<1>b. Answer(r) => at'[r] = 1 /\ pc'[r] = "idle"
  BY AnswerEffect DEF TypeInv
<1>c. \A step \in {"start", "inspect", "claim", "check", "execute", "failed", "readback",
                   "verdict", "unverify", "finish"} : Go(r, step) => pc'[r] # "count"
  <2>1. \A step \in Steps : Go(r, step) => pc'[r] = step
    BY GoEffect DEF TypeInv
  <2> QED BY <2>1 DEF Steps
<1>1. CASE Inspect(r)
  BY <1>1, <1>c DEF Inspect, Settled, Begun
<1>2. CASE ClaimLost(r)
  BY <1>2 DEF ClaimLost, Claimable, Begun
<1>3. CASE MarkItemFailed(r)
  BY <1>3, <1>a DEF MarkItemFailed, StepInv, Working, Begun
<1>4. CASE MarkItemUnverified(r) \/ StoreVerdict(r)
  <2>1. NextItem(r) /\ commits[at[r]] = 1
    BY <1>4, <1>a DEF MarkItemUnverified, StoreVerdict, StepInv, Verifying
  <2> QED BY <1>a, <2>1 DEF ItemInv, Begun
<1>5. CASE Stop(r) \/ StartRefused(r) \/ CountRefused(r) \/ FinishAttempt(r)
  BY <1>5, <1>b DEF Stop, StartRefused, CountRefused, FinishAttempt
<1>6. CASE \E k \in Keys : Approve(r, k)
  BY <1>6, <1>c DEF Approve
<1>7. CASE StartAttempt(r) \/ ClaimItem(r) \/ CheckClaim(r) \/ ExecuteItem(r) \/ ExecuteRaises(r)
           \/ ReadBack(r) \/ ReadBackRaises(r) \/ CountItems(r)
  BY <1>7, <1>c DEF StartAttempt, ClaimItem, CheckClaim, ExecuteItem, ExecuteRaises, ReadBack,
     ReadBackRaises, CountItems
<1> QED BY <1>1, <1>2, <1>3, <1>4, <1>5, <1>6, <1>7 DEF Acts, Executing

LEMMA OnlyFinishFinishes ==
  ASSUME [Next]_vars, finished', ~ finished
  PROVE  \E r \in Requests : pc[r] = "finish"
<1> USE DEF threads
<1>1. ~ Reviewing /\ ~ UNCHANGED vars
  BY DEF Reviewing, Prepare, ExpireCandidate, Reject, vars
<1>2. ASSUME NEW r \in Requests, NEW k \in Keys PROVE ~ Approve(r, k)
  BY DEF Approve
<1>3. ASSUME NEW r \in Requests, Executing(r) \/ Stop(r) PROVE pc[r] = "finish"
  BY <1>3 DEF Executing, Stop, StartAttempt, StartRefused, Inspect, ClaimItem, ClaimLost,
     CheckClaim, ExecuteItem, ExecuteRaises, MarkItemFailed, ReadBack, StoreVerdict,
     ReadBackRaises, MarkItemUnverified, CountItems, CountRefused, FinishAttempt
<1>4. ASSUME NEW i \in Items PROVE ~ LeaseExpires(i) /\ ~ RecordGone(i)
  BY DEF LeaseExpires, RecordGone
<1> QED BY <1>1, <1>2, <1>3, <1>4 DEF Next, Rest

LEMMA StopsGrow ==
  ASSUME TypeInv, [Next]_vars, stops' = 0
  PROVE  stops = 0 /\ \A r \in Requests : ~ Stop(r)
<1> USE DEF counts
<1>a. stops \in Nat
  BY DEF TypeInv, ThreadsTyped
<1>1. ASSUME NEW r \in Requests PROVE ~ Stop(r)
  BY <1>a DEF Stop
<1>2. ASSUME NEW i \in Items, LeaseExpires(i) \/ RecordGone(i) PROVE stops = 0
  BY <1>2 DEF LeaseExpires, RecordGone
<1>3. ASSUME Reviewing \/ UNCHANGED vars PROVE stops = 0
  BY <1>3 DEF Reviewing, Prepare, ExpireCandidate, Reject, vars
<1>4. ASSUME NEW r \in Requests, NEW k \in Keys, Approve(r, k) PROVE stops = 0
  BY <1>4 DEF Approve
<1>5. ASSUME NEW r \in Requests, Executing(r) PROVE stops = 0
  BY <1>5 DEF Executing, StartAttempt, StartRefused, Inspect, ClaimItem, ClaimLost,
     CheckClaim, ExecuteItem, ExecuteRaises, MarkItemFailed, ReadBack, StoreVerdict,
     ReadBackRaises, MarkItemUnverified, CountItems, CountRefused, FinishAttempt
<1> QED BY <1>1, <1>2, <1>3, <1>4, <1>5 DEF Next, Rest

(* Who is at work on an item leaves it only by giving it an outcome. *)
LEMMA WorkingLeaves ==
  ASSUME TypeInv, NEW r \in Requests, Working(r), ~ Stop(r), Acts(r) \/ Same(r)
  PROVE  \/ Working(r)' /\ at'[r] = at[r]
         \/ ExecuteItem(r) \/ MarkItemFailed(r)
<1>1. CASE Same(r)
  BY <1>1 DEF Same, Working
<1>2. CASE Acts(r)
  <2>1. CheckClaim(r) \/ ExecuteItem(r) \/ ExecuteRaises(r) \/ MarkItemFailed(r)
    BY <1>2 DEF Acts, Working, Approve, Executing, StartAttempt, StartRefused, Inspect,
       ClaimItem, ClaimLost, ReadBack, StoreVerdict, ReadBackRaises, MarkItemUnverified,
       CountItems, CountRefused, FinishAttempt
  <2>2. \A step \in Steps : Go(r, step) => pc'[r] = step
    BY GoEffect DEF TypeInv
  <2>3. CASE CheckClaim(r) \/ ExecuteRaises(r)
    BY <2>2, <2>3 DEF CheckClaim, ExecuteRaises, Working, Steps
  <2> QED BY <2>1, <2>3
<1> QED BY <1>1, <1>2

LEMMA OutcomeStep == TypeInv /\ CommitInv /\ OutcomeInv /\ [Next]_vars => OutcomeInv'
<1> SUFFICES ASSUME TypeInv, CommitInv, OutcomeInv, [Next]_vars PROVE OutcomeInv'
  OBVIOUS
<1>1. ASSUME NEW r \in Requests, NEW i \in Items, i < at'[r] PROVE Begun(i)'
  <2>a. at[r] \in 1..N /\ i \in 1..N
    BY DEF TypeInv, ThreadsTyped, Items
  <2>1. i < at[r] \/ (i = at[r] /\ Begun(at[r]))
    <3>1. NextItem(r) => at'[r] = IF at[r] = N THEN N ELSE at[r] + 1
      BY NextItemEffect DEF TypeInv
    <3> QED BY <1>1, <2>a, <3>1, MovesOrSame, NextLeavesBegun, CountsAreNaturals DEF Same
  <2> QED BY <2>1, BegunStays DEF OutcomeInv
<1>2. ASSUME NEW r \in Requests, pc'[r] \in {"count", "finish"}, NEW i \in Items PROVE Begun(i)'
  <2>1. Begun(i)
    <3>1. CASE Same(r)
      BY <1>2, <3>1 DEF Same, OutcomeInv
    <3>2. CASE Acts(r) /\ pc'[r] = "finish"
      <4>1. pc[r] = "count"
        BY <3>2, OnlyCountFinishes DEF CountItems
      <4> QED BY <4>1 DEF OutcomeInv
    <3>3. CASE Acts(r) /\ pc'[r] = "count"
      <4>1. NextItem(r) /\ Begun(at[r])
        BY <3>3, NextLeavesBegun
      <4>2. at[r] = N
        BY <3>3, <4>1, NextItemEffect DEF TypeInv
      <4>3. i = N \/ i < N
        BY CountsAreNaturals DEF Items
      <4> QED BY <4>1, <4>2, <4>3 DEF OutcomeInv
    <3> QED BY <1>2, <3>1, <3>2, <3>3, MovesOrSame
  <2> QED BY <2>1, BegunStays
<1>3. ASSUME finished', NEW i \in Items PROVE Begun(i)'
  <2>1. Begun(i)
    BY <1>3, OnlyFinishFinishes DEF OutcomeInv
  <2> QED BY <2>1, BegunStays
<1>4. ASSUME stops' = 0, NEW i \in Items, state'[i] = "claimed"
      PROVE  \E r \in Requests : Working(r)' /\ at'[r] = i
  <2>1. stops = 0 /\ \A r \in Requests : ~ Stop(r)
    BY <1>4, StopsGrow
  <2>2. CASE \E r \in Requests : Touches(r, i)
    <3>1. PICK r \in Requests : Touches(r, i)
      BY <2>2
    <3>2. ~ ExecuteItem(r) /\ ~ MarkItemFailed(r) /\ ~ MarkItemUnverified(r)
      BY <1>4, <3>1 DEF Touches, ExecuteItem, MarkItemFailed, MarkItemUnverified, TypeInv,
         ItemsTyped
    <3>3. ~ StoreVerdict(r)
      <4>1. commits[i] = 1 => ~ (state'[i] = "claimed")
        BY ItemStep DEF Progress, ItemInv
      <4> QED BY <1>4, <3>1, <4>1 DEF Touches, StoreVerdict, CommitInv, StepInv, Verifying
    <3>4. ClaimItem(r)
      BY <3>1, <3>2, <3>3 DEF Touches
    <3>5. Working(r)' /\ at'[r] = i
      BY <3>1, <3>4, GoEffect DEF Touches, ClaimItem, Working, TypeInv, Steps
    <3> QED BY <3>5
  <2>3. CASE ~ \E r \in Requests : Touches(r, i)
    <3>1. state[i] = "claimed"
      BY <1>4, <2>3, WhoTouches DEF ItemUnchanged
    <3>2. PICK r \in Requests : Working(r) /\ at[r] = i
      BY <2>1, <3>1 DEF OutcomeInv
    <3>3. Working(r)' /\ at'[r] = i
      BY <2>1, <2>3, <3>2, MovesOrSame, WorkingLeaves DEF Touches
    <3> QED BY <3>3
  <2> QED BY <2>2, <2>3
<1> QED BY <1>1, <1>2, <1>3, <1>4 DEF OutcomeInv

(* When all requests were answered, none stopped half-way and one attempt   *)
(* ended, every item has an outcome: a request passes an item only when it  *)
(* was started, and a claimed item has somebody at work on it.              *)
THEOREM EveryItemReachesAnOutcomeAlways == Spec => []EveryItemReachesAnOutcome
<1>1. Init => OutcomeInv
  <2> SUFFICES ASSUME Init PROVE OutcomeInv
    OBVIOUS
  <2>1. \A r \in Requests : at[r] = 1 /\ pc[r] = "idle"
    BY DEF Init
  <2>2. \A i \in Items : ~ (i < 1) /\ state[i] \in {"not_started", "skipped"}
    BY CountsAreNaturals DEF Init, Items
  <2>3. ~ finished
    BY DEF Init
  <2> QED BY <2>1, <2>2, <2>3 DEF OutcomeInv
<1>2. OutcomeInv => EveryItemReachesAnOutcome
  BY DEF OutcomeInv, EveryItemReachesAnOutcome, Quiet, Working, Begun
<1> QED BY <1>1, <1>2, CommitsHold, OutcomeStep, PTL DEF Spec

(* Both for a candidate that is finished: shown as applied, or left by all.  *)
THEOREM FinishedIsWholeAlways == Spec => []FinishedIsWhole
<1>1. AppliedCandidateIsWhole /\ EveryItemReachesAnOutcome => FinishedIsWhole
  BY DEF FinishedIsWhole
<1> QED
  BY <1>1, AppliedCandidateIsWholeAlways, EveryItemReachesAnOutcomeAlways, PTL

-----------------------------------------------------------------------------
(* DirectRequests                                                          *)

(* The key of a request, and whether it is at work on a message in hand    *)
Sender == {"appSend", "send", "steer"}
Action == {"compact", "review"}
Joins == "joins" \in DOMAIN op
Asked(k) ==
  op.at \in {"record", "check", "append", "native", "control", "launch"} /\ <<op.tool, op.id>> = k
InHand(m) == (op.at \in {"steer", "prepare"} \/ (op.at = "note" /\ Joins)) /\ op.id = m

(* Which calls can be where, and what the record of a call says of itself  *)
CallOK ==
  /\ "at" \in DOMAIN op
  /\ op.at \in {"free", "record", "check", "append", "steer", "prepare", "note", "cancel", "settle",
                "native", "control", "launch", "complete", "catch"}
  /\ op.at = "free" => op = Free
  /\ op.at # "free" => "tool" \in DOMAIN op
  /\ op.at \in {"cancel", "settle"} => op.tool \in {"appCancel", "cancel"}
  /\ op.at # "free" /\ op.tool # "appCancel" =>
       /\ "id" \in DOMAIN op
       /\ <<op.tool, op.id>> \in RequestKeys \/ (op.tool = "appSend" /\ op.id \in AppSends)
  /\ op.at \in {"record", "check", "complete", "catch"} => op.tool \notin {"appSend", "appCancel"}
  /\ op.at \in {"append", "steer", "prepare"} => op.tool \in Sender
  /\ op.at \in {"native", "control", "launch"} => op.tool \in Action /\ ~Joins
  /\ op.at \in {"append", "prepare"} => Joins
  /\ op.at = "steer" => ~Joins
  /\ op.at = "note" => op.tool \in Sender \/ (op.tool \in Action /\ ~Joins)

(* What waits for the lock is a call of a tool or a line of the App Server *)
Lines == [kind : {"started", "completed"}, turn : Nat]
Callers == RequestKeys \cup {<<"appSend", m>> : m \in AppSends} \cup {<<"appCancel", 0>>}
CallItems ==
  {w \in [kind : {"call"}, tool : {c[1] : c \in Callers}, id : {c[2] : c \in Callers}, begun : Nat] :
     <<w.tool, w.id>> \in Callers}
WaitOK == begun \in Nat /\ running \subseteq Nat /\ wire \in Seq(Lines) /\ queue \in Seq(Lines \cup CallItems)

RecordOK(r) ==
  /\ {"status", "turn", "prior", "receipts"} \subseteq DOMAIN r
  /\ r.receipts \in [RequestKeys -> {"none", "pending", "completed", "unknown"}]
DirectTypes ==
  /\ RecordOK(job) /\ RecordOK(disk)
  /\ sent \in [Messages \cup Controls -> {0, 1}]
  /\ resuming \in [Messages -> {"none", "start", "failed"}]
  /\ "fault" \in DOMAIN count /\ count["fault"] \in Nat
  /\ CallOK /\ WaitOK

(* A message is appended once, and is then in the hands of one call, or of *)
(* the flow that resumes the thread for it, until it is sent.              *)
MessagesOK ==
  /\ log = ids
  /\ \A m \in Messages :
       /\ sent[m] = 1 \/ resuming[m] # "none" => m \in ids
       /\ resuming[m] = "start" => sent[m] = 0
       /\ InHand(m) => m \in ids /\ sent[m] = 0 /\ resuming[m] = "none"

(* A receipt never goes away; the disk has none the memory has not; a call *)
(* that goes on has one, and what it works on was not delivered before.    *)
Truth(k) ==
  \/ sent[What(k)] > 0
  \/ k \in DirectMessages /\ (resuming[k[2]] # "none" \/ k[2] \in told)
ReceiptsOK ==
  /\ \A k \in RequestKeys : disk.receipts[k] # "none" => job.receipts[k] # "none"
  /\ op.at \notin {"free", "record"} /\ Direct => disk.receipts[Key] # "none"
  /\ \A k \in Controls :
       /\ sent[k] = 1 => disk.receipts[k] # "none"
       /\ Asked(k) => sent[k] = 0
  /\ \A k \in DirectMessages : Own(k) =>
       /\ (k[2] \in ids => disk.receipts[k] # "none")
       /\ (Asked(k) => k[2] \notin ids)
TruthOK ==
  /\ op.at = "note" /\ ~Joins => sent[IF op.tool \in Action THEN Key ELSE op.id] = 1
  /\ \A k \in DirectMessages \cup Controls : Own(k) /\
       (\/ job.receipts[k] = "completed" \/ disk.receipts[k] = "completed"
        \/ op.at = "complete" /\ Key = k)
       => Truth(k)
DirectInv == DirectTypes /\ MessagesOK /\ ReceiptsOK /\ TruthOK
(* How a step may treat what the invariant speaks of                       *)
CountOK == "fault" \in DOMAIN count /\ count["fault"] \in Nat
ReceiptsStay ==
  /\ RecordOK(job') /\ RecordOK(disk')
  /\ job'.receipts = job.receipts /\ disk'.receipts \in {disk.receipts, job.receipts}
Under == op.at \notin {"free", "record"} /\ Direct
Noted == op.at = "note" /\ ~Joins
SentAs == IF op.tool \in Action THEN Key ELSE op.id
AtEnd(k) == op.at = "complete" /\ Key = k
SaysDone(k) == job.receipts[k] = "completed" \/ disk.receipts[k] = "completed" \/ AtEnd(k)

(* A key tells the tool and the id, and the tool what is delivered         *)
LEMMA KeyFacts ==
  ASSUME NEW k \in RequestKeys
  PROVE  /\ k = <<k[1], k[2]>>
         /\ k[1] \in {"send", "steer", "cancel", "compact", "review"}
         /\ k \in DirectMessages <=> k[1] \in {"send", "steer"}
         /\ k \in Controls <=> k[1] \in Action
         /\ k \in DirectMessages => k[2] \in Messages /\ What(k) = k[2]
         /\ k \in Controls => What(k) = k
BY DEF RequestKeys, DirectMessages, Controls, Action, Messages, What

(* A call on a message is of that message's own request, if it has one     *)
LEMMA OwnKey ==
  ASSUME CallOK, op.at # "free", op.tool \in Sender, NEW k \in DirectMessages, Own(k), op.id = k[2]
  PROVE  op.tool # "appSend" /\ Key = k
<1>1. op.tool # "appCancel" /\ k \in RequestKeys
  BY DEF Sender, RequestKeys
<1>2. k = <<k[1], k[2]>> /\ k[1] \in {"send", "steer"}
  BY <1>1, KeyFacts
<1>3. CASE <<op.tool, op.id>> \in RequestKeys
  <2>1. <<op.tool, op.id>>[2] = k[2]
    OBVIOUS
  <2>2. <<op.tool, op.id>> = k
    BY <1>3, <2>1 DEF Own
  <2> QED  BY <1>2, <2>2 DEF Key
<1>4. CASE op.tool = "appSend" /\ op.id \in AppSends
  <2>1. <<"app", op.id>>[2] = k[2]
    OBVIOUS
  <2>2. <<"app", op.id>> = k
    BY <1>4, <2>1 DEF Own
  <2> QED  BY <1>2, <2>2
<1> QED  BY <1>1, <1>3, <1>4 DEF CallOK

(* An operation goes on to another place: what it is does not change       *)
LEMMA GoesOn ==
  ASSUME CallOK, op.at # "free", NEW p, op' = [op EXCEPT !.at = p]
  PROVE  /\ op'.at = p /\ op'.tool = op.tool /\ DOMAIN op' = DOMAIN op
         /\ op.tool # "appCancel" => op'.id = op.id
BY DEF CallOK

(* The records of the job that an operation writes                         *)
LEMMA Writes ==
  ASSUME RecordOK(job)
  PROVE  /\ \A s : RecordOK([job EXCEPT !.status = s]) /\ [job EXCEPT !.status = s].receipts = job.receipts
         /\ \A p : RecordOK(Preparing(p)) /\ Preparing(p).receipts = job.receipts
         /\ \A t : RecordOK(InThat(t)) /\ InThat(t).receipts = job.receipts
BY DEF RecordOK, Preparing, InThat
LEMMA Receipt ==
  ASSUME RecordOK(job), Key \in RequestKeys, NEW r \in {"pending", "completed", "unknown"}
  PROVE  RecordOK(With(r)) /\ With(r).receipts = [job.receipts EXCEPT ![Key] = r]
BY DEF RecordOK, With
LEMMA Counting ==
  ASSUME "fault" \in DOMAIN count, count["fault"] \in Nat, NEW what, NEW max, Counts(what, max)
  PROVE  "fault" \in DOMAIN count' /\ count'["fault"] \in Nat /\ (what = "fault" => count' # count)
<1>1. count' = [count EXCEPT ![what] = count[what] + 1]
  BY DEF Counts
<1>2. CASE what = "fault"
  <2>1. count'["fault"] = count["fault"] + 1 /\ DOMAIN count' = DOMAIN count
    BY <1>1, <1>2
  <2>2. count["fault"] + 1 \in Nat /\ count["fault"] + 1 # count["fault"]
    OBVIOUS
  <2> QED  BY <2>1, <2>2
<1>3. CASE what # "fault"
  BY <1>1, <1>3
<1> QED  BY <1>2, <1>3

-----------------------------------------------------------------------------
(* The parts of the invariant, kept by steps that do not touch them        *)

LEMMA MessagesKept ==
  ASSUME MessagesOK, UNCHANGED <<log, ids, resuming, sent>>, \A m : InHand(m)' => InHand(m)
  PROVE  MessagesOK'
BY DEF MessagesOK

LEMMA ReceiptsKept ==
  ASSUME ReceiptsOK, UNCHANGED <<ids, sent>>,
         \A k \in RequestKeys : /\ (disk.receipts[k] # "none" => disk'.receipts[k] # "none")
                                /\ (disk'.receipts[k] # "none" => job'.receipts[k] # "none"),
         \A k \in RequestKeys : Asked(k)' => Asked(k),
         Under' => disk'.receipts[Key'] # "none"
  PROVE  ReceiptsOK'
<1>1. Controls \subseteq RequestKeys /\ DirectMessages \subseteq RequestKeys
  BY DEF RequestKeys
<1>2. (op.at \notin {"free", "record"} /\ Direct => disk.receipts[Key] # "none")'
  BY DEF Under
<1>3. \A k \in Controls : (sent[k] = 1 => disk.receipts[k] # "none")' /\ (Asked(k) => sent[k] = 0)'
  BY <1>1 DEF ReceiptsOK
<1>4. \A k \in DirectMessages : Own(k) =>
        /\ (k[2] \in ids => disk.receipts[k] # "none")'
        /\ (Asked(k) => k[2] \notin ids)'
  BY <1>1 DEF ReceiptsOK
<1> QED  BY <1>2, <1>3, <1>4 DEF ReceiptsOK

LEMMA TruthGrows ==
  ASSUME DirectTypes, DirectTypes', \A x \in Messages \cup Controls : sent[x] = 1 => sent'[x] = 1,
         \A m \in Messages : resuming[m] # "none" => resuming'[m] # "none" \/ m \in told' \/ sent'[m] = 1,
         told \subseteq told',
         NEW k \in DirectMessages \cup Controls, Truth(k)
  PROVE  Truth(k)'
<1>1. k \in RequestKeys
  BY DEF RequestKeys
<1>2. What(k) \in Messages \cup Controls /\ (k \in DirectMessages => What(k) = k[2])
  BY <1>1, KeyFacts
<1>3. CASE sent[What(k)] > 0
  BY <1>2, <1>3 DEF DirectTypes, Truth
<1>4. CASE k \in DirectMessages /\ resuming[k[2]] # "none"
  <2>1. k[2] \in Messages
    BY <1>1, <1>4, KeyFacts
  <2>2. resuming'[k[2]] # "none" \/ k[2] \in told' \/ sent'[k[2]] = 1
    BY <2>1, <1>4
  <2>3. sent'[k[2]] = 1 => sent'[What(k)] > 0
    BY <1>2, <1>4
  <2> QED  BY <1>4, <2>2, <2>3 DEF Truth
<1>5. CASE k \in DirectMessages /\ k[2] \in told
  BY <1>5 DEF Truth
<1> QED  BY <1>3, <1>4, <1>5 DEF Truth

LEMMA TruthKept ==
  ASSUME TruthOK, \A k \in DirectMessages \cup Controls : Truth(k) => Truth(k)',
         Noted' => sent'[SentAs'] = 1,
         \A k \in DirectMessages \cup Controls : Own(k) /\ SaysDone(k)' => SaysDone(k) \/ Truth(k)'
  PROVE  TruthOK'
BY DEF TruthOK, Noted, SentAs, SaysDone, AtEnd

(* An operation goes on without any effect on what is delivered            *)
LEMMA Passes ==
  ASSUME DirectInv, UNCHANGED <<log, ids, resuming, sent, told>>, ReceiptsStay, CountOK', CallOK', WaitOK',
         \A m : InHand(m)' => InHand(m),
         \A k \in RequestKeys : Asked(k)' => Asked(k),
         Under' => Under /\ Key' = Key /\ Key \in RequestKeys,
         Noted' => sent[SentAs'] = 1,
         \A k \in DirectMessages \cup Controls : Own(k) /\ AtEnd(k)' => Truth(k)
  PROVE  DirectInv'
<1>1. DirectTypes'
  BY DEF DirectInv, DirectTypes, ReceiptsStay, CountOK
<1>2. MessagesOK'
  BY MessagesKept DEF DirectInv
<1>3. \A k \in RequestKeys : /\ (disk.receipts[k] # "none" => disk'.receipts[k] # "none")
                             /\ (disk'.receipts[k] # "none" => job'.receipts[k] # "none")
  BY DEF DirectInv, ReceiptsOK, ReceiptsStay
<1>4. Under' => disk'.receipts[Key'] # "none"
  BY <1>3 DEF DirectInv, ReceiptsOK, Under
<1>5. ReceiptsOK'
  BY <1>3, <1>4, ReceiptsKept DEF DirectInv
<1>6. \A k \in DirectMessages \cup Controls : Truth(k) => Truth(k)'
  BY <1>1, TruthGrows DEF DirectInv
<1>7. \A k \in DirectMessages \cup Controls : Own(k) /\ SaysDone(k)' => SaysDone(k) \/ Truth(k)'
  BY <1>6 DEF SaysDone, ReceiptsStay
<1>8. TruthOK'
  BY <1>6, <1>7, TruthKept DEF DirectInv
<1> QED  BY <1>1, <1>2, <1>5, <1>8 DEF DirectInv

LEMMA UnderKey ==
  ASSUME CallOK, Under \/ (op.at # "free" /\ Direct)
  PROVE  Key \in RequestKeys
BY DEF CallOK, Under, Direct, Key

(* The call that holds the lock stays where it is                          *)
LEMMA Stays ==
  ASSUME DirectInv, UNCHANGED <<op, log, ids, resuming, sent, told>>, ReceiptsStay, CountOK', WaitOK'
  PROVE  DirectInv'
<1>1. CallOK' /\ CallOK
  BY DEF DirectInv, DirectTypes, CallOK, Joins, RequestKeys
<1>2. (\A m : InHand(m)' => InHand(m)) /\ (\A k : Asked(k)' => Asked(k))
  BY DEF InHand, Asked, Joins
<1>3. Under' => Under /\ Key' = Key /\ Key \in RequestKeys
  BY <1>1, UnderKey DEF Under, Key, Direct
<1>4. Noted' => sent[SentAs'] = 1
  BY DEF Noted, SentAs, Joins, Key, DirectInv, TruthOK
<1>5. \A k \in DirectMessages \cup Controls : Own(k) /\ AtEnd(k)' => Truth(k)
  BY DEF AtEnd, Key, DirectInv, TruthOK
<1> QED  BY <1>1, <1>2, <1>3, <1>4, <1>5, Passes

(* Nothing is written, or what is written has the receipts there are       *)
LEMMA Written ==
  ASSUME DirectTypes
  PROVE  /\ UNCHANGED record => ReceiptsStay
         /\ UNCHANGED count => CountOK'
         /\ UNCHANGED <<begun, wire, queue, running>> => WaitOK'
         /\ \A new, next, failed :
              Save(new, next, failed) /\ RecordOK(new) /\ new.receipts = job.receipts => ReceiptsStay /\ CountOK'
<1>1. RecordOK(job) /\ RecordOK(disk) /\ CountOK /\ WaitOK
  BY DEF DirectTypes, CountOK
<1>2. UNCHANGED count => CountOK'
  BY <1>1 DEF CountOK
<1>3. UNCHANGED <<begun, wire, queue, running>> => WaitOK'
  BY <1>1 DEF WaitOK, Lines, CallItems, Callers, RequestKeys
<1>4. UNCHANGED record => ReceiptsStay
  BY <1>1 DEF ReceiptsStay, record
<1>5. ASSUME NEW new, NEW next, NEW failed, Save(new, next, failed), RecordOK(new), new.receipts = job.receipts
      PROVE  ReceiptsStay /\ CountOK'
  <2>1. CountOK'
    BY <1>1, <1>2, <1>5, Counting DEF Save, CountOK
  <2>2. ReceiptsStay
    BY <1>1, <1>5 DEF Save, ReceiptsStay
  <2> QED  BY <2>1, <2>2
<1> QED  BY <1>2, <1>3, <1>4, <1>5

-----------------------------------------------------------------------------
(* Steps that leave the call where it is                                   *)

LEMMA KeepsCounting ==
  ASSUME DirectTypes, NEW what, NEW max, Counts(what, max)
  PROVE  CountOK'
BY Counting DEF DirectTypes, CountOK

LEMMA ReadsKeeps == ASSUME DirectInv, Reads PROVE DirectInv'
<1> USE DEF DirectInv
<1>1. wire \in Seq(Lines) /\ queue \in Seq(Lines \cup CallItems) /\ begun \in Nat /\ running \subseteq Nat
    /\ wire # <<>>
  BY DEF DirectTypes, WaitOK, Reads
<1>2. Tail(wire) \in Seq(Lines) /\ Head(wire) \in Lines
  BY <1>1, HeadTailProperties
<1>3. Append(queue, Head(wire)) \in Seq(Lines \cup CallItems)
  BY <1>1, <1>2, AppendProperties
<1>4. WaitOK'
  <2>1. begun' = begun /\ running' = running /\ wire' \in Seq(Lines) /\ queue' \in Seq(Lines \cup CallItems)
    BY <1>1, <1>2, <1>3 DEF Reads, codex
  <2> QED  BY <1>1, <2>1 DEF WaitOK, Lines, CallItems, Callers, RequestKeys
<1>5. UNCHANGED <<op, log, ids, resuming, sent, told>> /\ UNCHANGED record /\ UNCHANGED count
  BY DEF Reads, ghosts
<1> QED  BY <1>4, <1>5, Written, Stays

LEMMA TurnEndsKeeps == ASSUME DirectInv, NEW t \in running, TurnEnds(t) PROVE DirectInv'
<1> USE DEF DirectInv
<1>1. wire \in Seq(Lines) /\ queue \in Seq(Lines \cup CallItems) /\ begun \in Nat
    /\ running \subseteq Nat
  BY DEF DirectTypes, WaitOK
<1>2. Append(wire, [kind |-> "completed", turn |-> t]) \in Seq(Lines)
  BY <1>1, AppendProperties DEF Lines
<1>3. WaitOK'
  BY <1>1, <1>2 DEF TurnEnds, Ends, WaitOK, Lines, CallItems, Callers, RequestKeys
<1>4. UNCHANGED <<op, log, ids, resuming, sent, told>> /\ UNCHANGED record /\ UNCHANGED count
  BY DEF TurnEnds, ghosts
<1> QED  BY <1>3, <1>4, Written, Stays

LEMMA CallsKeeps == ASSUME DirectInv, Calls PROVE DirectInv'
<1> USE DEF DirectInv
<1>1. wire \in Seq(Lines) /\ queue \in Seq(Lines \cup CallItems) /\ begun \in Nat
    /\ running \subseteq Nat
  BY DEF DirectTypes, WaitOK
<1>2. ASSUME NEW tool, NEW id, <<tool, id>> \in Callers, Asks(tool, id)
      PROVE  WaitOK' /\ UNCHANGED <<op, log, ids, resuming, sent, told>> /\ UNCHANGED record
  <2>1. tool \in {c[1] : c \in Callers} /\ id \in {c[2] : c \in Callers}
    BY <1>2
  <2>2. [kind |-> "call", tool |-> tool, id |-> id, begun |-> begun] \in CallItems
    BY <1>1, <1>2, <2>1 DEF CallItems
  <2>3. Append(queue, [kind |-> "call", tool |-> tool, id |-> id, begun |-> begun]) \in Seq(Lines \cup CallItems)
    BY <1>1, <2>2, AppendProperties
  <2>4. WaitOK'
    BY <1>1, <1>2, <2>3 DEF Asks, codex, WaitOK, Lines, CallItems, Callers, RequestKeys
  <2> QED  BY <1>2, <2>4 DEF Asks, ghosts, codex
<1>3. CASE \E k \in RequestKeys : Asks(k[1], k[2]) /\ UNCHANGED count
  <2>1. PICK k \in RequestKeys : Asks(k[1], k[2]) /\ UNCHANGED count
    BY <1>3
  <2>2. <<k[1], k[2]>> \in Callers
    BY KeyFacts DEF Callers
  <2> QED  BY <1>2, <2>1, <2>2, Written, Stays
<1>4. CASE \E m \in AppSends : Asks("appSend", m) /\ UNCHANGED count
  <2>1. PICK m \in AppSends : Asks("appSend", m) /\ UNCHANGED count
    BY <1>4
  <2>2. <<"appSend", m>> \in Callers
    BY DEF Callers
  <2> QED  BY <1>2, <2>1, <2>2, Written, Stays
<1>5. CASE Asks("appCancel", 0) /\ Counts("cancel", AppCancels)
  <2>1. <<"appCancel", 0>> \in Callers
    BY DEF Callers
  <2>2. CountOK'
    BY <1>5, KeepsCounting
  <2> QED  BY <1>2, <1>5, <2>1, <2>2, Written, Stays
<1> QED  BY <1>3, <1>4, <1>5 DEF Calls

LEMMA HandleKeeps == ASSUME DirectInv, Handle PROVE DirectInv'
<1> USE DEF DirectInv
<1>1. queue \in Seq(Lines \cup CallItems) /\ begun \in Nat /\ running \subseteq Nat /\ wire \in Seq(Lines)
      /\ queue # <<>>
  BY DEF DirectTypes, WaitOK, Handle
<1>2. Tail(queue) \in Seq(Lines \cup CallItems)
  BY <1>1, HeadTailProperties
<1>3. WaitOK'
  <2>1. begun' = begun /\ running' = running /\ wire' = wire /\ queue' = Tail(queue)
    BY DEF Handle, codex
  <2> QED  BY <1>1, <1>2, <2>1 DEF WaitOK, Lines, CallItems, Callers, RequestKeys
<1>4. UNCHANGED <<log, ids, resuming, sent, told>>
  BY DEF Handle, codex, ghosts
<1>5. op' = op /\ ReceiptsStay /\ CountOK'
  <2> DEFINE n == Head(queue)
             ends == [job EXCEPT !.status = "completed"]
  <2>1. RecordOK(job) /\ op = op
    BY DEF DirectTypes
  <2>2. RecordOK(InThat(n.turn)) /\ InThat(n.turn).receipts = job.receipts
        /\ RecordOK(ends) /\ ends.receipts = job.receipts
    BY <2>1, Writes
  <2>3. \/ UNCHANGED <<record, count, op>>
        \/ Save(InThat(n.turn), Free, Free)
        \/ Save(ends, Free, Free)
    BY DEF Handle
  <2>4. op = Free
    BY DEF Handle, At, DirectTypes, CallOK
  <2>5. CASE UNCHANGED <<record, count, op>>
    BY <2>5, Written
  <2>6. CASE Save(InThat(n.turn), Free, Free)
    <3>1. op' = op
      BY <2>4, <2>6 DEF Save
    <3> QED  BY <2>2, <2>6, <3>1, Written
  <2>7. CASE Save(ends, Free, Free)
    <3>1. op' = op
      BY <2>4, <2>7 DEF Save
    <3> QED  BY <2>2, <2>7, <3>1, Written
  <2> QED  BY <2>3, <2>5, <2>6, <2>7
<1> QED  BY <1>3, <1>4, <1>5, Stays

LEMMA ExitKeeps == ASSUME DirectInv, Exit PROVE DirectInv'
<1> USE DEF DirectInv
<1>1. RecordOK(job) /\ RecordOK(disk) /\ WaitOK
  BY DEF DirectTypes
<1>2. RecordOK(Interrupted(job)) /\ Interrupted(job).receipts = job.receipts
  BY <1>1, Writes DEF Interrupted
<1>3. ReceiptsStay
  BY <1>1, <1>2 DEF Exit, ReceiptsStay
<1>4. CountOK'
  BY KeepsCounting DEF Exit
<1>5. WaitOK'
  <2>1. wire' = <<>> /\ running' = {} /\ begun' = begun /\ queue' = queue /\ <<>> \in Seq(Lines)
    BY EmptySeq DEF Exit
  <2> QED  BY <1>1, <2>1 DEF WaitOK, Lines, CallItems, Callers, RequestKeys
<1>6. UNCHANGED <<op, log, ids, resuming, sent, told>>
  BY DEF Exit, ghosts
<1> QED  BY <1>3, <1>4, <1>5, <1>6, Stays

-----------------------------------------------------------------------------
(* Steps of the call that deliver nothing                                  *)

LEMMA Released ==
  ASSUME DirectInv, op' = Free, UNCHANGED <<log, ids, resuming, sent, told>>, ReceiptsStay, CountOK', WaitOK'
  PROVE  DirectInv'
<1>1. op' = [at |-> "free"] /\ op'.at = "free" /\ DOMAIN op' = {"at"}
  BY DEF Free
<1>2. CallOK'
  BY <1>1 DEF CallOK, Free
<1>3. (\A m : ~InHand(m)') /\ (\A k : ~Asked(k)') /\ ~Under' /\ ~Noted' /\ (\A k : ~AtEnd(k)')
  BY <1>1 DEF InHand, Asked, Under, Noted, AtEnd
<1> QED  BY <1>2, <1>3, Passes

LEMMA GoesTo ==
  ASSUME DirectInv, NEW p, p \notin {"free", "record"}, op' = [op EXCEPT !.at = p], op.at # "free",
         op.at # "record" \/ ~Direct, CallOK',
         UNCHANGED <<log, ids, resuming, sent, told>>, ReceiptsStay, CountOK', WaitOK',
         p \in {"check", "append", "native", "control", "launch"} =>
           op.at \in {"check", "append", "native", "control", "launch"},
         p \in {"steer", "prepare"} \/ (p = "note" /\ Joins) =>
           op.at \in {"steer", "prepare"} \/ (op.at = "note" /\ Joins),
         p = "note" /\ ~Joins => sent[SentAs] = 1,
         p = "complete" => \A k \in DirectMessages \cup Controls : Own(k) /\ Key = k => Truth(k)
  PROVE  DirectInv'
<1>1. CallOK
  BY DEF DirectInv, DirectTypes
<1>2. op'.at = p /\ op'.tool = op.tool /\ DOMAIN op' = DOMAIN op /\ (op.tool # "appCancel" => op'.id = op.id)
  BY <1>1, GoesOn
<1>3. (Joins' <=> Joins) /\ (Direct' <=> Direct)
  BY <1>2 DEF Joins, Direct
<1>4. op.tool = "appCancel" => op.at \in {"cancel", "settle"} /\ p \in {"cancel", "settle"}
  BY <1>1, <1>2 DEF CallOK, Sender, Action
<1>5. \A m : InHand(m)' => InHand(m)
  BY <1>2, <1>3, <1>4 DEF InHand
<1>6. \A k : Asked(k)' => Asked(k)
  BY <1>2, <1>4 DEF Asked
<1>7. Under' => Under /\ Key' = Key /\ Key \in RequestKeys
  BY <1>1, <1>2, <1>3, UnderKey DEF Under, Key, Direct
<1>8. Noted' => sent[SentAs'] = 1
  BY <1>2, <1>3, <1>4 DEF Noted, SentAs, Key
<1>9. \A k \in DirectMessages \cup Controls : Own(k) /\ AtEnd(k)' => Truth(k)
  BY <1>2, <1>4 DEF AtEnd, Key
<1> QED  BY <1>5, <1>6, <1>7, <1>8, <1>9, Passes

LEMMA Throws ==
  ASSUME DirectInv, op' = Thrown, op.at \notin {"free", "record"},
         UNCHANGED <<log, ids, resuming, sent, told>>, ReceiptsStay, CountOK', WaitOK'
  PROVE  DirectInv'
<1>1. CASE ~Direct
  BY <1>1, Released DEF Thrown
<1>2. CASE Direct
  <2>1. op' = [op EXCEPT !.at = "catch"]
    BY <1>2 DEF Thrown, Goes
  <2>2. CallOK
    BY DEF DirectInv, DirectTypes
  <2>3. op'.at = "catch" /\ op'.tool = op.tool /\ DOMAIN op' = DOMAIN op /\ op'.id = op.id
    BY <1>2, <2>1, <2>2, GoesOn DEF Direct
  <2>4. CallOK'
    BY <1>2, <2>2, <2>3 DEF CallOK, Direct, RequestKeys
  <2> QED  BY <2>1, <2>4, GoesTo
<1> QED  BY <1>1, <1>2

LEMMA CheckKeeps == ASSUME DirectInv, Check PROVE DirectInv'
<1>1. CallOK /\ WaitOK /\ DirectTypes
  BY DEF DirectInv, DirectTypes
<1>2. /\ op.at = "check" /\ Direct /\ Key \in RequestKeys
      /\ UNCHANGED <<log, ids, resuming, sent, told>> /\ ReceiptsStay /\ CountOK' /\ WaitOK'
  <2>1. op.at = "check" /\ Direct
    BY <1>1 DEF Check, At, CallOK, Direct
  <2>2. UNCHANGED record /\ UNCHANGED count /\ UNCHANGED <<log, ids, resuming, sent, told>>
        /\ UNCHANGED <<begun, wire, queue, running>>
    BY DEF Check, codex, ghosts
  <2> QED  BY <1>1, <2>1, <2>2, Written, UnderKey
<1>3. CASE TurnChanged
  BY <1>2, <1>3, Throws DEF Check, Thrown
<1>4. CASE ~TurnChanged /\ op.tool \in {"send", "steer"} /\ ~(InTurn(job.status) \/ Terminal(job.status))
  <2>1. op' = [op EXCEPT !.at = "catch"]
    BY <1>2, <1>4 DEF Check, SendLocked
  <2> QED  BY <1>2, <2>1, Throws DEF Thrown, Goes
<1>5. CASE ~TurnChanged /\ op.tool \in {"send", "steer"} /\ (InTurn(job.status) \/ Terminal(job.status))
  <2>1. op' = [at |-> "append", tool |-> op.tool, id |-> op.id, names |-> op.names, joins |-> InTurn(job.status)]
    BY <1>5 DEF Check, SendLocked
  <2>2. op'.at = "append" /\ op'.tool = op.tool /\ op'.id = op.id /\ "joins" \in DOMAIN op'
        /\ {"at", "tool", "id"} \subseteq DOMAIN op'
    BY <2>1
  <2>3. CallOK'
    BY <1>2, <1>5, <2>2 DEF CallOK, Sender, Joins, Key, RequestKeys
  <2>4. (\A m : ~InHand(m)') /\ ~Noted' /\ (\A k : ~AtEnd(k)')
    BY <2>2 DEF InHand, Noted, AtEnd
  <2>5. \A k : Asked(k)' => Asked(k)
    BY <1>2, <2>2 DEF Asked
  <2>6. Under' => Under /\ Key' = Key /\ Key \in RequestKeys
    BY <1>2, <2>2 DEF Under, Key, Direct
  <2> QED  BY <1>2, <2>3, <2>4, <2>5, <2>6, Passes
<1>6. CASE ~TurnChanged /\ op.tool \notin {"send", "steer"}
  <2> DEFINE p == IF op.tool = "cancel" THEN "cancel" ELSE "native"
  <2>1. op' = [at |-> p, tool |-> op.tool, id |-> op.id, names |-> op.names]
    BY <1>6 DEF Check
  <2>2. op'.at = p /\ op'.tool = op.tool /\ op'.id = op.id /\ DOMAIN op' = {"at", "tool", "id", "names"}
    BY <2>1
  <2>3. op.tool \in {"cancel"} \cup Action
    <3>1. <<op.tool, op.id>>[1] = op.tool /\ <<op.tool, op.id>> \in RequestKeys
      BY <1>2 DEF Key
    <3> QED  BY <1>6, <3>1, KeyFacts DEF Action
  <2>4. CallOK'
    BY <1>2, <2>2, <2>3 DEF CallOK, Sender, Action, Joins, Key, RequestKeys
  <2>5. (\A m : ~InHand(m)') /\ ~Noted' /\ (\A k : ~AtEnd(k)')
    BY <2>2 DEF InHand, Noted, AtEnd
  <2>6. \A k : Asked(k)' => Asked(k)
    BY <1>2, <2>2 DEF Asked
  <2>7. Under' => Under /\ Key' = Key /\ Key \in RequestKeys
    BY <1>2, <2>2 DEF Under, Key, Direct
  <2> QED  BY <1>2, <2>4, <2>5, <2>6, <2>7, Passes
<1> QED  BY <1>3, <1>4, <1>5, <1>6

LEMMA PrepareTurnKeeps == ASSUME DirectInv, PrepareTurn PROVE DirectInv'
<1>1. CallOK /\ WaitOK /\ DirectTypes /\ op.at = "prepare" /\ Joins
  BY DEF DirectInv, DirectTypes, PrepareTurn, At, CallOK, Joins
<1>2. RecordOK(Preparing(0)) /\ Preparing(0).receipts = job.receipts
  BY <1>1, Writes DEF DirectTypes
<1>3. /\ UNCHANGED <<log, ids, resuming, sent, told>> /\ ReceiptsStay /\ CountOK' /\ WaitOK'
  <2>1. UNCHANGED <<log, ids, resuming, sent, told>> /\ UNCHANGED <<begun, wire, queue, running>>
        /\ Save(Preparing(0), Goes("note"), Thrown)
    BY DEF PrepareTurn, codex, ghosts
  <2> QED  BY <1>1, <1>2, <2>1, Written
<1>4. CASE op' = Thrown
  BY <1>1, <1>3, <1>4, Throws
<1>5. CASE op' = Goes("note")
  <2>1. op' = [op EXCEPT !.at = "note"]
    BY <1>5 DEF Goes
  <2>2. op'.at = "note" /\ op'.tool = op.tool /\ DOMAIN op' = DOMAIN op /\ (op.tool # "appCancel" => op'.id = op.id)
    BY <1>1, <2>1, GoesOn
  <2>3. CallOK'
    BY <1>1, <2>2 DEF CallOK, Sender, Action, Joins, RequestKeys
  <2> QED  BY <1>1, <1>3, <2>1, <2>3, GoesTo
<1> QED  BY <1>4, <1>5 DEF PrepareTurn, Save

LEMMA TurnsLines ==
  ASSUME WaitOK, NEW t \in Nat, Ends(t), begun' = begun, queue' = queue
  PROVE  WaitOK'
<1>1. Append(wire, [kind |-> "completed", turn |-> t]) \in Seq(Lines)
  BY AppendProperties DEF Lines, WaitOK
<1> QED  BY <1>1 DEF Ends, WaitOK, Lines, CallItems, Callers, RequestKeys

LEMMA CancelEnds ==
  ASSUME DirectInv, op' = Done, op.at \in {"cancel", "settle"},
         UNCHANGED <<log, ids, resuming, sent, told>>, ReceiptsStay, CountOK', WaitOK'
  PROVE  DirectInv'
<1>1. CASE ~Direct
  BY <1>1, Released DEF Done
<1>2. CASE Direct
  <2>1. CallOK /\ op.tool = "cancel"
    BY <1>2 DEF DirectInv, DirectTypes, CallOK, Direct
  <2>2. op' = [op EXCEPT !.at = "complete"]
    BY <1>2 DEF Done, Goes
  <2>3. op'.at = "complete" /\ op'.tool = op.tool /\ DOMAIN op' = DOMAIN op /\ op'.id = op.id
    BY <2>1, <2>2, GoesOn
  <2>4. CallOK'
    BY <2>1, <2>3 DEF CallOK, RequestKeys
  <2>5. ASSUME NEW k \in DirectMessages \cup Controls, Key = k
        PROVE  FALSE
    <3>1. k[1] = "cancel"
      BY <2>1, <2>5 DEF Key
    <3> QED  BY <3>1, KeyFacts DEF RequestKeys, Action
  <2> QED  BY <2>2, <2>4, <2>5, GoesTo
<1> QED  BY <1>1, <1>2

LEMMA CancelLockedKeeps == ASSUME DirectInv, CancelLocked PROVE DirectInv'
<1>1. CallOK /\ WaitOK /\ DirectTypes /\ op.at = "cancel"
  BY DEF DirectInv, DirectTypes, CancelLocked, At
<1>2. UNCHANGED <<log, ids, resuming, sent, told>> /\ UNCHANGED record /\ UNCHANGED <<queue, begun>> /\ ReceiptsStay
  <2>1. UNCHANGED <<log, ids, resuming, sent, told>> /\ UNCHANGED record /\ UNCHANGED <<queue, begun>>
    BY DEF CancelLocked, ghosts
  <2> QED  BY <1>1, <2>1, Written
<1>3. WaitOK'
  <2>1. \/ UNCHANGED <<running, wire>>
        \/ job.turn \in running /\ Ends(job.turn)
    BY DEF CancelLocked
  <2>2. CASE UNCHANGED <<running, wire>>
    BY <1>1, <1>2, <2>2, Written
  <2>3. CASE job.turn \in running /\ Ends(job.turn)
    <3>1. job.turn \in Nat
      BY <1>1, <2>3 DEF WaitOK
    <3> QED  BY <1>1, <1>2, <2>3, <3>1, TurnsLines
  <2> QED  BY <2>1, <2>2, <2>3
<1>4. CountOK'
  BY <1>1, Written, KeepsCounting DEF CancelLocked
<1>5. CASE op' = Done
  BY <1>1, <1>2, <1>3, <1>4, <1>5, CancelEnds
<1>6. CASE op' = Thrown
  BY <1>1, <1>2, <1>3, <1>4, <1>6, Throws
<1>7. CASE op' = Goes("settle")
  <2>1. op' = [op EXCEPT !.at = "settle"]
    BY <1>7 DEF Goes
  <2>2. op'.at = "settle" /\ op'.tool = op.tool /\ DOMAIN op' = DOMAIN op /\ (op.tool # "appCancel" => op'.id = op.id)
    BY <1>1, <2>1, GoesOn
  <2>3. CallOK'
    BY <1>1, <2>2 DEF CallOK, RequestKeys
  <2> QED  BY <1>1, <1>2, <1>3, <1>4, <2>1, <2>3, GoesTo
<1> QED  BY <1>5, <1>6, <1>7 DEF CancelLocked

LEMMA CancelSettlesKeeps == ASSUME DirectInv, CancelSettles PROVE DirectInv'
<1> DEFINE new == [job EXCEPT !.status = "cancelled"]
<1>1. CallOK /\ WaitOK /\ DirectTypes /\ op.at = "settle"
  BY DEF DirectInv, DirectTypes, CancelSettles, At
<1>2. RecordOK(new) /\ new.receipts = job.receipts
  BY <1>1, Writes DEF DirectTypes
<1>3. /\ UNCHANGED <<log, ids, resuming, sent, told>> /\ ReceiptsStay /\ CountOK' /\ WaitOK'
  <2>1. UNCHANGED <<log, ids, resuming, sent, told>> /\ UNCHANGED <<begun, wire, queue, running>>
        /\ Save(new, Done, Thrown)
    BY DEF CancelSettles, codex
  <2> QED  BY <1>1, <1>2, <2>1, Written
<1>4. CASE op' = Thrown
  BY <1>1, <1>3, <1>4, Throws
<1>5. CASE op' = Done
  BY <1>1, <1>3, <1>5, CancelEnds
<1> QED  BY <1>4, <1>5 DEF CancelSettles, Save

LEMMA NativeCheckKeeps == ASSUME DirectInv, NativeCheck PROVE DirectInv'
<1>1. CallOK /\ WaitOK /\ DirectTypes /\ op.at = "native" /\ ~Joins
  BY DEF DirectInv, DirectTypes, NativeCheck, At, CallOK, Joins
<1>2. UNCHANGED <<log, ids, resuming, sent, told>> /\ ReceiptsStay /\ CountOK' /\ WaitOK'
  <2>1. UNCHANGED <<log, ids, resuming, sent, told>> /\ UNCHANGED record /\ UNCHANGED <<queue, begun, wire, running>>
    BY DEF NativeCheck, ghosts
  <2>2. CountOK'
    BY <1>1, Written, KeepsCounting DEF NativeCheck
  <2> QED  BY <1>1, <2>1, <2>2, Written
<1>3. CASE op' = Thrown
  BY <1>1, <1>2, <1>3, Throws
<1>4. CASE op' = Goes("control")
  <2>1. op' = [op EXCEPT !.at = "control"]
    BY <1>4 DEF Goes
  <2>2. op'.at = "control" /\ op'.tool = op.tool /\ DOMAIN op' = DOMAIN op /\ (op.tool # "appCancel" => op'.id = op.id)
    BY <1>1, <2>1, GoesOn
  <2>3. CallOK'
    BY <1>1, <2>2 DEF CallOK, Action, Joins, RequestKeys
  <2> QED  BY <1>1, <1>2, <2>1, <2>3, GoesTo
<1> QED  BY <1>3, <1>4 DEF NativeCheck

LEMMA PrepareControlKeeps == ASSUME DirectInv, PrepareControl PROVE DirectInv'
<1>1. CallOK /\ WaitOK /\ DirectTypes /\ op.at = "control" /\ ~Joins
  BY DEF DirectInv, DirectTypes, PrepareControl, At, CallOK, Joins
<1>2. RecordOK(Preparing(op.names)) /\ Preparing(op.names).receipts = job.receipts
  BY <1>1, Writes DEF DirectTypes
<1>3. /\ UNCHANGED <<log, ids, resuming, sent, told>> /\ ReceiptsStay /\ CountOK' /\ WaitOK'
  <2>1. UNCHANGED <<log, ids, resuming, sent, told>> /\ UNCHANGED <<begun, wire, queue, running>>
        /\ Save(Preparing(op.names), Goes("launch"), Thrown)
    BY DEF PrepareControl, codex, ghosts
  <2> QED  BY <1>1, <1>2, <2>1, Written
<1>4. CASE op' = Thrown
  BY <1>1, <1>3, <1>4, Throws
<1>5. CASE op' = Goes("launch")
  <2>1. op' = [op EXCEPT !.at = "launch"]
    BY <1>5 DEF Goes
  <2>2. op'.at = "launch" /\ op'.tool = op.tool /\ DOMAIN op' = DOMAIN op /\ (op.tool # "appCancel" => op'.id = op.id)
    BY <1>1, <2>1, GoesOn
  <2>3. CallOK'
    BY <1>1, <2>2 DEF CallOK, Action, Joins, RequestKeys
  <2> QED  BY <1>1, <1>3, <2>1, <2>3, GoesTo
<1> QED  BY <1>4, <1>5 DEF PrepareControl, Save

(* The call whose turn it is takes the lock.  A direct one without a       *)
(* receipt has delivered nothing.                                          *)
LEMMA TakesLockKeeps == ASSUME DirectInv, TakesLock PROVE DirectInv'
<1> DEFINE call == Head(queue)
<1>1. CallOK /\ WaitOK /\ DirectTypes /\ op.at = "free" /\ op = Free /\ queue # <<>> /\ call.kind = "call"
  BY DEF DirectInv, DirectTypes, TakesLock, At, CallOK
<1>2. queue \in Seq(Lines \cup CallItems) /\ Tail(queue) \in Seq(Lines \cup CallItems) /\ call \in CallItems
  <2>1. queue \in Seq(Lines \cup CallItems) /\ call \in Lines \cup CallItems /\ Tail(queue) \in Seq(Lines \cup CallItems)
    BY <1>1, HeadTailProperties DEF WaitOK
  <2>2. call \notin Lines
    BY <1>1 DEF Lines
  <2> QED  BY <2>1, <2>2
<1>3. WaitOK' /\ UNCHANGED <<log, ids, resuming, sent, told>> /\ CountOK'
  <2>1. UNCHANGED <<log, ids, resuming, sent, told>> /\ UNCHANGED count
        /\ queue' = Tail(queue) /\ UNCHANGED <<begun, wire, running>>
    BY DEF TakesLock, codex, ghosts
  <2>2. WaitOK'
    BY <1>1, <1>2, <2>1 DEF WaitOK, Lines, CallItems, Callers, RequestKeys
  <2> QED  BY <1>1, <2>1, <2>2, Written
<1>4. <<call.tool, call.id>> \in Callers
  BY <1>2 DEF CallItems
<1>5. CASE call.tool = "appSend"
  <2>1. AppSend(call)
    BY <1>5 DEF TakesLock
  <2>2. ReceiptsStay
    BY <1>1, <2>1, Written DEF AppSend
  <2>3. CASE ~(InTurn(job.status) \/ Terminal(job.status))
    <3>1. op' = Free
      BY <2>1, <2>3 DEF AppSend, SendLocked
    <3> QED  BY <1>3, <2>2, <3>1, Released
  <2>4. CASE InTurn(job.status) \/ Terminal(job.status)
    <3>1. op' = [at |-> "append", tool |-> "appSend", id |-> call.id, names |-> 0, joins |-> InTurn(job.status)]
      BY <2>1, <2>4 DEF AppSend, SendLocked
    <3>2. op'.at = "append" /\ op'.tool = "appSend" /\ op'.id = call.id /\ "joins" \in DOMAIN op'
          /\ {"at", "tool", "id"} \subseteq DOMAIN op'
      BY <3>1
    <3>3. call.id \in AppSends
      <4>1. <<call.tool, call.id>>[1] = "appSend" /\ <<call.tool, call.id>>[2] = call.id
        BY <1>5
      <4>2. <<call.tool, call.id>> \notin RequestKeys
        BY <4>1, KeyFacts
      <4> QED  BY <1>4, <4>1, <4>2 DEF Callers
    <3>4. CallOK'
      BY <3>2, <3>3 DEF CallOK, Sender, Joins
    <3>5. (\A m : ~InHand(m)') /\ ~Noted' /\ (\A k : ~AtEnd(k)') /\ ~Under'
      BY <3>2 DEF InHand, Noted, AtEnd, Under, Direct
    <3>6. \A k \in RequestKeys : ~Asked(k)'
      <4>1. ASSUME NEW k \in RequestKeys, Asked(k)' PROVE FALSE
        <5>1. k[1] = "appSend"
          BY <3>2, <4>1 DEF Asked
        <5> QED  BY <5>1, KeyFacts
      <4> QED  BY <4>1
    <3> QED  BY <1>3, <2>2, <3>4, <3>5, <3>6, Passes
  <2> QED  BY <2>3, <2>4
<1>6. CASE call.tool = "appCancel"
  <2>1. AppCancel
    BY <1>6 DEF TakesLock
  <2>2. op' = [at |-> "cancel", tool |-> "appCancel"]
    BY <2>1 DEF AppCancel
  <2>3. op'.at = "cancel" /\ op'.tool = "appCancel" /\ {"at", "tool"} \subseteq DOMAIN op'
    BY <2>2
  <2>4. CallOK'
    BY <2>3 DEF CallOK
  <2>5. ReceiptsStay
    BY <1>1, <2>1 DEF AppCancel, ReceiptsStay, DirectTypes
  <2>6. (\A m : ~InHand(m)') /\ (\A k \in RequestKeys : ~Asked(k)') /\ ~Noted' /\ (\A k : ~AtEnd(k)') /\ ~Under'
    BY <2>3 DEF InHand, Asked, Noted, AtEnd, Under, Direct
  <2> QED  BY <1>3, <2>4, <2>5, <2>6, Passes
<1>7. CASE call.tool \notin {"appSend", "appCancel"}
  <2>1. DirectCall(call)
    BY <1>7 DEF TakesLock
  <2> DEFINE asked == <<call.tool, call.id>>
  <2>2. asked \in RequestKeys
    <3>1. asked[1] = call.tool
      OBVIOUS
    <3> QED  BY <1>4, <1>7, <3>1 DEF Callers
  <2>3. ReceiptsStay
    BY <1>1, <2>1, Written DEF DirectCall
  <2>4. CASE op' = Free
    BY <1>3, <2>3, <2>4, Released
  <2>5. ASSUME NEW t, ~HasReceipt(asked),
               op' = [at |-> "record", tool |-> call.tool, id |-> call.id, names |-> t,
                      seen |-> [status |-> job.status, turn |-> job.turn]]
        PROVE  DirectInv'
    <3>1. op'.at = "record" /\ op'.tool = call.tool /\ op'.id = call.id /\ {"at", "tool", "id"} \subseteq DOMAIN op'
      BY <2>5
    <3>2. CallOK'
      BY <1>7, <2>2, <3>1 DEF CallOK, RequestKeys
    <3>3. DirectTypes'
      BY <1>1, <1>3, <2>3, <3>2 DEF DirectTypes, ReceiptsStay, CountOK
    <3>4. MessagesOK'
      <4>1. \A m : ~InHand(m)'
        BY <3>1 DEF InHand
      <4> QED  BY <1>3, <4>1, MessagesKept DEF DirectInv
    <3>5. disk.receipts[asked] = "none"
      BY <2>2, <2>5 DEF HasReceipt, DirectInv, ReceiptsOK
    <3>6. \A k : Asked(k)' => k = asked
      BY <3>1 DEF Asked
    <3>7. \A k \in RequestKeys : /\ (disk.receipts[k] # "none" => disk'.receipts[k] # "none")
                                  /\ (disk'.receipts[k] # "none" => job'.receipts[k] # "none")
      BY <2>3 DEF DirectInv, ReceiptsOK, ReceiptsStay
    <3>8. Controls \subseteq RequestKeys /\ DirectMessages \subseteq RequestKeys
      BY DEF RequestKeys
    <3>9. ReceiptsOK'
      <4>1. ~Under'
        BY <3>1 DEF Under
      <4>2. \A k \in Controls : (sent[k] = 1 => disk.receipts[k] # "none")' /\ (Asked(k) => sent[k] = 0)'
        <5>1. asked \in Controls => sent[asked] = 0
          BY <1>1, <3>5 DEF DirectInv, ReceiptsOK, DirectTypes
        <5> QED  BY <1>3, <3>6, <3>7, <3>8, <5>1 DEF DirectInv, ReceiptsOK
      <4>3. \A k \in DirectMessages : Own(k) =>
              /\ (k[2] \in ids => disk.receipts[k] # "none")'
              /\ (Asked(k) => k[2] \notin ids)'
        BY <1>3, <3>5, <3>6, <3>7, <3>8 DEF DirectInv, ReceiptsOK
      <4> QED  BY <3>7, <4>1, <4>2, <4>3 DEF ReceiptsOK, Under
    <3>10. \A k \in DirectMessages \cup Controls : Truth(k) => Truth(k)'
      BY <1>1, <1>3, <3>3, TruthGrows
    <3>11. TruthOK'
      <4>1. ~Noted' /\ \A k : ~AtEnd(k)'
        BY <3>1 DEF Noted, AtEnd
      <4>2. \A k \in DirectMessages \cup Controls : Own(k) /\ SaysDone(k)' => SaysDone(k) \/ Truth(k)'
        BY <2>3, <4>1 DEF SaysDone, ReceiptsStay
      <4> QED  BY <3>10, <4>1, <4>2, TruthKept DEF DirectInv
    <3> QED  BY <3>3, <3>4, <3>9, <3>11 DEF DirectInv
  <2> QED  BY <2>1, <2>4, <2>5 DEF DirectCall
<1> QED  BY <1>5, <1>6, <1>7

-----------------------------------------------------------------------------
(* Steps that write a receipt                                              *)

(* A receipt is written, in memory at least, and the call goes on or ends  *)
LEMMA ReceiptKeeps ==
  ASSUME DirectInv, NEW r \in {"pending", "completed", "unknown"}, NEW next, NEW failed,
         op.at \in {"record", "complete", "catch"}, Key \in RequestKeys, Direct,
         Save(With(r), next, failed),
         UNCHANGED <<log, ids, resuming, sent, told>>, WaitOK', CallOK',
         \A m : ~InHand(m)', ~Noted', \A k : ~AtEnd(k)',
         \A k \in RequestKeys : Asked(k)' => Asked(k),
         Under' => /\ Key' = Key /\ (op.at # "record" \/ disk' = With(r)),
         r = "completed" => op.at = "complete"
  PROVE  DirectInv'
<1>1. RecordOK(job) /\ RecordOK(disk) /\ DirectTypes
  BY DEF DirectInv, DirectTypes
<1>2. RecordOK(With(r)) /\ With(r).receipts = [job.receipts EXCEPT ![Key] = r]
  BY <1>1, Receipt
<1>3. \/ job' = With(r) /\ disk' = With(r)
      \/ job' \in {job, With(r)} /\ disk' = disk
  BY DEF Save
<1>4. CountOK'
  BY <1>1, KeepsCounting DEF Save, DirectTypes, CountOK
<1>5. RecordOK(job') /\ RecordOK(disk')
  BY <1>1, <1>2, <1>3
<1>6. DirectTypes'
  BY <1>1, <1>4, <1>5 DEF DirectTypes, CountOK
<1>7. MessagesOK'
  BY MessagesKept DEF DirectInv
<1>8. \A k \in RequestKeys :
        /\ With(r).receipts[k] = IF k = Key THEN r ELSE job.receipts[k]
        /\ (job.receipts[k] # "none" => With(r).receipts[k] # "none")
  BY <1>1, <1>2 DEF RecordOK
<1>9. \A k \in RequestKeys : /\ (disk.receipts[k] # "none" => disk'.receipts[k] # "none")
                             /\ (disk'.receipts[k] # "none" => job'.receipts[k] # "none")
  BY <1>3, <1>8 DEF DirectInv, ReceiptsOK
<1>10. Under' => disk'.receipts[Key'] # "none"
  <2>1. ASSUME op.at # "record" PROVE disk.receipts[Key] # "none"
    BY <2>1 DEF DirectInv, ReceiptsOK
  <2>2. With(r).receipts[Key] # "none"
    BY <1>8
  <2> QED  BY <1>9, <2>1, <2>2
<1>11. ReceiptsOK'
  BY <1>9, <1>10, ReceiptsKept DEF DirectInv
<1>12. \A k \in DirectMessages \cup Controls : Truth(k) => Truth(k)'
  BY <1>1, <1>6, TruthGrows
<1>13. \A k \in DirectMessages \cup Controls : Own(k) /\ SaysDone(k)' => SaysDone(k) \/ Truth(k)'
  <2>1. DirectMessages \cup Controls \subseteq RequestKeys
    BY DEF RequestKeys
  <2>2. ASSUME NEW k \in DirectMessages \cup Controls, SaysDone(k)'
        PROVE  SaysDone(k)
    <3>1. k \in RequestKeys
      BY <2>1
    <3>2. job'.receipts[k] = "completed" \/ disk'.receipts[k] = "completed"
      BY <2>2 DEF SaysDone
    <3>3. With(r).receipts[k] = "completed" => SaysDone(k)
      BY <3>1, <1>8 DEF SaysDone, AtEnd
    <3> QED  BY <1>3, <3>2, <3>3 DEF SaysDone
  <2> QED  BY <2>2
<1>14. TruthOK'
  BY <1>12, <1>13, TruthKept DEF DirectInv
<1> QED  BY <1>6, <1>7, <1>11, <1>14 DEF DirectInv

LEMMA Places ==
  ASSUME op' = Free \/ (op.at # "free" /\ CallOK /\ \E p \in {"check", "catch"} : op' = [op EXCEPT !.at = p])
  PROVE  (\A m : ~InHand(m)') /\ ~Noted' /\ (\A k : ~AtEnd(k)')
<1>1. op'.at \in {"free", "check", "catch"}
  BY DEF Free, CallOK
<1> QED  BY <1>1 DEF InHand, Noted, AtEnd

LEMMA RecordPendingKeeps == ASSUME DirectInv, RecordPending PROVE DirectInv'
<1>1. CallOK /\ WaitOK /\ DirectTypes /\ op.at = "record" /\ Direct /\ Key \in RequestKeys
  BY UnderKey DEF DirectInv, DirectTypes, RecordPending, At, CallOK, Direct
<1>2. UNCHANGED <<log, ids, resuming, sent, told>> /\ UNCHANGED <<begun, wire, queue, running>>
      /\ Save(With("pending"), Goes("check"), Free)
  BY DEF RecordPending, codex, ghosts
<1>3. WaitOK'
  BY <1>1, <1>2, Written
<1>4. CASE op' = Free
  <2>1. op'.at = "free" /\ CallOK'
    BY <1>4 DEF Free, CallOK
  <2>2. (\A k : ~Asked(k)') /\ ~Under'
    BY <2>1 DEF Asked, Under
  <2> QED  BY <1>1, <1>2, <1>3, <1>4, <2>1, <2>2, Places, ReceiptKeeps
<1>5. CASE op' = Goes("check") /\ disk' = With("pending")
  <2>1. op' = [op EXCEPT !.at = "check"]
    BY <1>5 DEF Goes
  <2>2. op'.at = "check" /\ op'.tool = op.tool /\ DOMAIN op' = DOMAIN op /\ op'.id = op.id
    BY <1>1, <2>1, GoesOn DEF Direct
  <2>3. CallOK'
    BY <1>1, <2>2 DEF CallOK, Direct, RequestKeys
  <2>4. (\A k : Asked(k)' => Asked(k)) /\ Key' = Key
    BY <1>1, <2>2 DEF Asked, Key
  <2> QED  BY <1>1, <1>2, <1>3, <1>5, <2>1, <2>3, <2>4, Places, ReceiptKeeps
<1> QED  BY <1>2, <1>4, <1>5 DEF Save

LEMMA CompleteKeeps == ASSUME DirectInv, Complete PROVE DirectInv'
<1>1. CallOK /\ WaitOK /\ DirectTypes /\ op.at = "complete" /\ Direct /\ Key \in RequestKeys
  BY UnderKey DEF DirectInv, DirectTypes, Complete, At, CallOK, Direct
<1>2. UNCHANGED <<log, ids, resuming, sent, told>> /\ UNCHANGED <<begun, wire, queue, running>>
      /\ Save(With("completed"), Free, Goes("catch"))
  BY DEF Complete, codex, ghosts
<1>3. WaitOK'
  BY <1>1, <1>2, Written
<1>4. CASE op' = Free
  <2>1. op'.at = "free" /\ CallOK'
    BY <1>4 DEF Free, CallOK
  <2>2. (\A k : ~Asked(k)') /\ ~Under'
    BY <2>1 DEF Asked, Under
  <2> QED  BY <1>1, <1>2, <1>3, <1>4, <2>1, <2>2, Places, ReceiptKeeps
<1>5. CASE op' = Goes("catch")
  <2>1. op' = [op EXCEPT !.at = "catch"]
    BY <1>5 DEF Goes
  <2>2. op'.at = "catch" /\ op'.tool = op.tool /\ DOMAIN op' = DOMAIN op /\ op'.id = op.id
    BY <1>1, <2>1, GoesOn DEF Direct
  <2>3. CallOK'
    BY <1>1, <2>2 DEF CallOK, Direct, RequestKeys
  <2>4. (\A k : ~Asked(k)') /\ Key' = Key
    BY <1>1, <2>2 DEF Asked, Key
  <2> QED  BY <1>1, <1>2, <1>3, <1>5, <2>1, <2>3, <2>4, Places, ReceiptKeeps
<1> QED  BY <1>2, <1>4, <1>5 DEF Save

LEMMA CatchUnknownKeeps == ASSUME DirectInv, CatchUnknown PROVE DirectInv'
<1>1. CallOK /\ WaitOK /\ DirectTypes /\ op.at = "catch" /\ Direct /\ Key \in RequestKeys
  BY UnderKey DEF DirectInv, DirectTypes, CatchUnknown, At, CallOK, Direct
<1>2. UNCHANGED <<log, ids, resuming, sent, told>> /\ UNCHANGED <<begun, wire, queue, running>>
      /\ Save(With("unknown"), Free, Free) /\ op' = Free
  BY DEF CatchUnknown, codex, ghosts, Save
<1>3. WaitOK'
  BY <1>1, <1>2, Written
<1>4. op'.at = "free" /\ CallOK'
  BY <1>2 DEF Free, CallOK
<1>5. (\A k : ~Asked(k)') /\ ~Under'
  BY <1>4 DEF Asked, Under
<1> QED  BY <1>1, <1>2, <1>3, <1>4, <1>5, Places, ReceiptKeeps

-----------------------------------------------------------------------------
(* Steps that append a message or deliver                                  *)

LEMMA SentTo ==
  ASSUME CallOK, op.at # "free", op.tool \in Sender
  PROVE  op.id \in Messages
<1>1. CASE op.tool = "appSend"
  BY <1>1, KeyFacts DEF CallOK, Messages
<1>2. CASE op.tool # "appSend"
  <2>1. <<op.tool, op.id>> \in RequestKeys /\ <<op.tool, op.id>>[1] = op.tool /\ <<op.tool, op.id>>[2] = op.id
    BY <1>2 DEF CallOK, Sender
  <2> QED  BY <1>2, <2>1, KeyFacts DEF Sender
<1> QED  BY <1>1, <1>2

(* How a call is known to have gone on: to this place, and what it is      *)
LEMMA Moved ==
  ASSUME DirectInv, op.at \notin {"free", "record"}, NEW p, op' = [op EXCEPT !.at = p]
  PROVE  /\ op'.at = p /\ op'.tool = op.tool /\ DOMAIN op' = DOMAIN op
         /\ op.tool # "appCancel" => op'.id = op.id
         /\ (Joins' <=> Joins) /\ (Direct' <=> Direct)
         /\ Direct' => Key' = Key /\ Key \in RequestKeys /\ disk.receipts[Key] # "none"
<1>1. CallOK
  BY DEF DirectInv, DirectTypes
<1>2. op'.at = p /\ op'.tool = op.tool /\ DOMAIN op' = DOMAIN op /\ (op.tool # "appCancel" => op'.id = op.id)
  BY <1>1, GoesOn
<1>3. (Joins' <=> Joins) /\ (Direct' <=> Direct)
  BY <1>2 DEF Joins, Direct
<1>4. Direct => Key' = Key /\ Key \in RequestKeys /\ disk.receipts[Key] # "none"
  BY <1>1, <1>2, UnderKey DEF Under, Direct, Key, DirectInv, ReceiptsOK
<1> QED  BY <1>2, <1>3, <1>4

LEMMA ThrownOK ==
  ASSUME DirectInv, op.at \notin {"free", "record"}, op' = Thrown
  PROVE  /\ CallOK' /\ op'.at \in {"free", "catch"}
         /\ Under' => Key' = Key /\ Key \in RequestKeys /\ disk.receipts[Key] # "none"
<1>1. CallOK
  BY DEF DirectInv, DirectTypes
<1>2. CASE ~Direct
  <2>1. op' = Free /\ op'.at = "free"
    BY <1>2 DEF Thrown, Free
  <2> QED  BY <2>1 DEF CallOK, Free, Under
<1>3. CASE Direct
  <2>1. op' = [op EXCEPT !.at = "catch"]
    BY <1>3 DEF Thrown, Goes
  <2>2. /\ op'.at = "catch" /\ op'.tool = op.tool /\ DOMAIN op' = DOMAIN op /\ op'.id = op.id
        /\ Key' = Key /\ Key \in RequestKeys /\ disk.receipts[Key] # "none"
    BY <1>3, <2>1, Moved DEF Direct
  <2>3. CallOK'
    BY <1>1, <1>3, <2>2 DEF CallOK, Direct, RequestKeys
  <2> QED  BY <2>2, <2>3
<1> QED  BY <1>2, <1>3

LEMMA AppendedKeeps ==
  ASSUME DirectInv, op.at = "append", op.id \notin ids, ids' = ids \cup {op.id}, log' = log \cup {op.id},
         UNCHANGED <<resuming, sent, told>>, ReceiptsStay, CountOK', WaitOK',
         CallOK', op'.at \in {"free", "catch", "steer", "prepare"},
         op'.at \in {"steer", "prepare"} => op'.id = op.id,
         Under' => Key' = Key /\ Key \in RequestKeys /\ disk.receipts[Key] # "none"
  PROVE  DirectInv'
<1>1. CallOK /\ DirectTypes /\ op.tool \in Sender /\ op.id \in Messages
  BY SentTo DEF DirectInv, DirectTypes, CallOK
<1>2. DirectTypes'
  BY <1>1 DEF DirectTypes, ReceiptsStay, CountOK
<1>3. MessagesOK'
  <2>1. sent[op.id] = 0 /\ resuming[op.id] = "none"
    BY <1>1 DEF DirectInv, MessagesOK, DirectTypes
  <2>2. \A m : InHand(m)' => m = op.id
    BY DEF InHand
  <2> QED  BY <2>1, <2>2 DEF DirectInv, MessagesOK
<1>4. Controls \subseteq RequestKeys /\ DirectMessages \subseteq RequestKeys
  BY DEF RequestKeys
<1>5. \A k \in RequestKeys : /\ (disk.receipts[k] # "none" => disk'.receipts[k] # "none")
                             /\ (disk'.receipts[k] # "none" => job'.receipts[k] # "none")
  BY DEF DirectInv, ReceiptsOK, ReceiptsStay
<1>6. \A k : ~Asked(k)'
  BY DEF Asked
<1>7. \A k \in DirectMessages : Own(k) /\ k[2] = op.id => disk.receipts[k] # "none"
  <2>1. ASSUME NEW k \in DirectMessages, Own(k), k[2] = op.id PROVE disk.receipts[k] # "none"
    <3>1. op.tool # "appSend" /\ Key = k
      BY <1>1, <2>1, OwnKey
    <3>2. Direct
      BY <1>1, <3>1 DEF Direct, Sender
    <3> QED  BY <3>1, <3>2 DEF DirectInv, ReceiptsOK
  <2> QED  BY <2>1
<1>8. ReceiptsOK'
  <2>1. \A k \in Controls : (sent[k] = 1 => disk.receipts[k] # "none")' /\ (Asked(k) => sent[k] = 0)'
    BY <1>4, <1>5, <1>6 DEF DirectInv, ReceiptsOK
  <2>2. \A k \in DirectMessages : Own(k) =>
          /\ (k[2] \in ids => disk.receipts[k] # "none")'
          /\ (Asked(k) => k[2] \notin ids)'
    BY <1>4, <1>5, <1>6, <1>7 DEF DirectInv, ReceiptsOK
  <2>3. Under' => disk'.receipts[Key'] # "none"
    BY <1>5
  <2> QED  BY <1>5, <2>1, <2>2, <2>3 DEF ReceiptsOK, Under
<1>9. \A k \in DirectMessages \cup Controls : Truth(k) => Truth(k)'
  BY <1>1, <1>2, TruthGrows
<1>10. TruthOK'
  <2>1. ~Noted' /\ \A k : ~AtEnd(k)'
    BY DEF Noted, AtEnd
  <2>2. \A k \in DirectMessages \cup Controls : Own(k) /\ SaysDone(k)' => SaysDone(k) \/ Truth(k)'
    BY <2>1 DEF SaysDone, ReceiptsStay
  <2> QED  BY <1>9, <2>1, <2>2, TruthKept DEF DirectInv
<1> QED  BY <1>2, <1>3, <1>8, <1>10 DEF DirectInv

LEMMA AppendKeeps == ASSUME DirectInv, AppendUserMessage PROVE DirectInv'
<1>1. CallOK /\ WaitOK /\ DirectTypes /\ op.at = "append" /\ op.tool \in Sender /\ Joins
  BY DEF DirectInv, DirectTypes, AppendUserMessage, At, CallOK, Joins
<1>2. UNCHANGED <<resuming, sent, told>> /\ UNCHANGED <<begun, wire, queue, running>>
  BY DEF AppendUserMessage, codex, ghosts
<1>3. WaitOK'
  BY <1>1, <1>2, Written
<1>4. CASE Known(op.id)
  <2>1. op' = Done /\ UNCHANGED record /\ UNCHANGED <<log, ids>> /\ UNCHANGED count
    BY <1>4 DEF AppendUserMessage, record
  <2>2. ReceiptsStay /\ CountOK'
    BY <1>1, <2>1, Written
  <2>3. CASE ~Direct
    BY <1>2, <1>3, <2>1, <2>2, <2>3, Released DEF Done
  <2>4. CASE Direct
    <3>1. op' = [op EXCEPT !.at = "complete"]
      BY <2>1, <2>4 DEF Done, Goes
    <3>2. /\ op'.at = "complete" /\ op'.tool = op.tool /\ DOMAIN op' = DOMAIN op /\ op'.id = op.id
          /\ Key' = Key /\ Key \in RequestKeys
      BY <1>1, <2>4, <3>1, Moved DEF Direct
    <3>3. CallOK'
      BY <1>1, <2>4, <3>2 DEF CallOK, Direct, RequestKeys
    <3>4. ASSUME NEW k \in DirectMessages \cup Controls, Own(k), Key = k PROVE Truth(k)
      <4>1. k[1] = op.tool /\ k[2] = op.id
        BY <3>4 DEF Key
      <4>2. k \in DirectMessages
        BY <1>1, <4>1, KeyFacts DEF RequestKeys, Sender, Action
      <4>3. Asked(k)
        BY <1>1, <3>4 DEF Asked, Key
      <4> QED  BY <1>4, <3>4, <4>1, <4>2, <4>3 DEF DirectInv, ReceiptsOK, Known
    <3> QED  BY <1>1, <1>2, <2>1, <1>3, <2>2, <3>1, <3>3, <3>4, GoesTo
  <2> QED  BY <2>3, <2>4
<1>5. CASE ~Known(op.id) /\ op' = Thrown /\ Counts("fault", MaxFault) /\ UNCHANGED <<record, log, ids>>
  <2>1. ReceiptsStay /\ CountOK'
    BY <1>1, <1>5, Written, KeepsCounting
  <2> QED  BY <1>1, <1>2, <1>3, <1>5, <2>1, Throws
<1> DEFINE steer == [at |-> "steer", tool |-> op.tool, id |-> op.id, names |-> op.names, into |-> job.turn]
           next == IF op.joins THEN steer ELSE Goes("prepare")
<1>6. CASE ~Known(op.id) /\ log' = log \cup {op.id} /\ ids' = ids \cup {op.id} /\ Save(job, next, Thrown)
  <2>1. ReceiptsStay /\ CountOK'
    BY <1>1, <1>6, Written DEF DirectTypes
  <2>2. op.id \notin ids
    BY <1>6 DEF Known
  <2>3. CASE op' = Thrown
    <3>1. CallOK' /\ op'.at \in {"free", "catch"}
          /\ (Under' => Key' = Key /\ Key \in RequestKeys /\ disk.receipts[Key] # "none")
      BY <1>1, <2>3, ThrownOK
    <3> QED  BY <1>1, <1>2, <1>3, <1>6, <2>1, <2>2, <3>1, AppendedKeeps
  <2>4. CASE op' = steer
    <3>1. op'.at = "steer" /\ op'.tool = op.tool /\ op'.id = op.id /\ {"at", "tool", "id"} \subseteq DOMAIN op'
          /\ "joins" \notin DOMAIN op'
      BY <2>4
    <3>2. CallOK'
      BY <1>1, <3>1 DEF CallOK, Sender, Joins, RequestKeys
    <3>3. Under' => Key' = Key /\ Key \in RequestKeys /\ disk.receipts[Key] # "none"
      <4>1. Under' => Direct /\ Key' = Key
        BY <3>1 DEF Under, Direct, Key
      <4> QED  BY <1>1, <4>1, UnderKey DEF DirectInv, ReceiptsOK
    <3> HIDE DEF steer
    <3> QED  BY <1>1, <1>2, <1>3, <1>6, <2>1, <2>2, <3>1, <3>2, <3>3, AppendedKeeps
  <2>5. CASE op' = Goes("prepare")
    <3>1. op' = [op EXCEPT !.at = "prepare"]
      BY <2>5 DEF Goes
    <3>2. /\ op'.at = "prepare" /\ op'.tool = op.tool /\ DOMAIN op' = DOMAIN op /\ op'.id = op.id
          /\ (Direct' <=> Direct)
          /\ (Direct' => Key' = Key /\ Key \in RequestKeys /\ disk.receipts[Key] # "none")
      BY <1>1, <3>1, Moved DEF Sender
    <3>3. CallOK'
      BY <1>1, <3>2 DEF CallOK, Sender, Joins, RequestKeys
    <3>4. Under' => Key' = Key /\ Key \in RequestKeys /\ disk.receipts[Key] # "none"
      BY <3>2 DEF Under
    <3> QED  BY <1>1, <1>2, <1>3, <1>6, <2>1, <2>2, <3>2, <3>3, <3>4, AppendedKeeps
  <2>6. op' \in {Thrown, next}
    BY <1>6 DEF Save
  <2> QED  BY <2>3, <2>4, <2>5, <2>6
<1> QED  BY <1>4, <1>5, <1>6 DEF AppendUserMessage

LEMMA Reached ==
  ASSUME DirectTypes, NEW x \in Messages \cup Controls, sent[x] = 0, Reaches(x)
  PROVE  /\ sent' \in [Messages \cup Controls -> {0, 1}]
         /\ \A y \in Messages \cup Controls : sent'[y] = IF y = x THEN 1 ELSE sent[y]
<1>1. sent' = [sent EXCEPT ![x] = sent[x] + 1] /\ sent[x] + 1 = 1
  BY DEF Reaches
<1>2. sent \in [Messages \cup Controls -> {0, 1}]
  BY DEF DirectTypes
<1> QED  BY <1>1, <1>2

(* A delivery to Codex: what was delivered was not before, and nobody else *)
(* has it in hand any more                                                 *)
LEMMA Delivers ==
  ASSUME DirectInv, NEW x \in Messages \cup Controls, sent[x] = 0, Reaches(x),
         UNCHANGED <<log, ids, told>>, ReceiptsStay, CountOK', WaitOK', CallOK',
         x \in Messages => x \in ids,
         x \in Controls => disk.receipts[x] # "none" /\ ~Asked(x)',
         \A m \in Messages : InHand(m)' => InHand(m) /\ m # x,
         \A k \in RequestKeys : Asked(k)' => Asked(k),
         Under' => Key' = Key /\ Key \in RequestKeys /\ disk.receipts[Key] # "none",
         Noted' => sent'[SentAs'] = 1,
         \A k \in DirectMessages \cup Controls : Own(k) /\ AtEnd(k)' => AtEnd(k),
         resuming' \in [Messages -> {"none", "start", "failed"}],
         \A m \in Messages : resuming'[m] = resuming[m] \/ (m = x /\ resuming'[m] # "start"),
         x \in Messages => resuming'[x] # "start"
  PROVE  DirectInv'
<1>1. DirectTypes
  BY DEF DirectInv
<1>2. sent' \in [Messages \cup Controls -> {0, 1}]
      /\ \A y \in Messages \cup Controls : sent'[y] = IF y = x THEN 1 ELSE sent[y]
  BY <1>1, Reached
<1>3. DirectTypes'
  BY <1>1, <1>2 DEF DirectTypes, ReceiptsStay, CountOK
<1>4. MessagesOK'
  <2>1. ASSUME NEW m \in Messages
        PROVE  /\ (sent[m] = 1 \/ resuming[m] # "none" => m \in ids)'
               /\ (resuming[m] = "start" => sent[m] = 0)'
               /\ (InHand(m) => m \in ids /\ sent[m] = 0 /\ resuming[m] = "none")'
    <3>1. CASE m = x
      BY <1>2, <3>1 DEF DirectInv, MessagesOK
    <3>2. CASE m # x
      <4>1. sent'[m] = sent[m] /\ resuming'[m] = resuming[m] /\ (InHand(m)' => InHand(m)) /\ ids' = ids
        BY <1>2, <3>2
      <4> QED  BY <4>1 DEF DirectInv, MessagesOK
    <3> QED  BY <3>1, <3>2
  <2> QED  BY <2>1 DEF DirectInv, MessagesOK
<1>5. Controls \subseteq RequestKeys /\ DirectMessages \subseteq RequestKeys
  BY DEF RequestKeys
<1>6. \A k \in RequestKeys : /\ (disk.receipts[k] # "none" => disk'.receipts[k] # "none")
                             /\ (disk'.receipts[k] # "none" => job'.receipts[k] # "none")
  BY DEF DirectInv, ReceiptsOK, ReceiptsStay
<1>7. ReceiptsOK'
  <2>1. ASSUME NEW k \in Controls
        PROVE (sent[k] = 1 => disk.receipts[k] # "none")' /\ (Asked(k) => sent[k] = 0)'
    <3>1. CASE k = x
      BY <1>5, <1>6, <3>1
    <3>2. CASE k # x
      BY <1>2, <1>5, <1>6, <3>2 DEF DirectInv, ReceiptsOK
    <3> QED  BY <3>1, <3>2
  <2>2. \A k \in DirectMessages : Own(k) =>
          /\ (k[2] \in ids => disk.receipts[k] # "none")'
          /\ (Asked(k) => k[2] \notin ids)'
    BY <1>5, <1>6 DEF DirectInv, ReceiptsOK
  <2>3. Under' => disk'.receipts[Key'] # "none"
    BY <1>6
  <2> QED  BY <1>6, <2>1, <2>2, <2>3 DEF ReceiptsOK, Under
<1>8. ASSUME NEW k \in DirectMessages \cup Controls, Truth(k) PROVE Truth(k)'
  <2>1. \A y \in Messages \cup Controls : sent[y] = 1 => sent'[y] = 1
    BY <1>2
  <2>2. \A m \in Messages : resuming[m] # "none" => resuming'[m] # "none" \/ m \in told' \/ sent'[m] = 1
    BY <1>2
  <2> QED  BY <1>1, <1>3, <1>8, <2>1, <2>2, TruthGrows
<1>9. TruthOK'
  <2>1. \A k \in DirectMessages \cup Controls : Own(k) /\ SaysDone(k)' => SaysDone(k) \/ Truth(k)'
    BY DEF SaysDone, ReceiptsStay
  <2> QED  BY <1>8, <2>1, TruthKept DEF DirectInv
<1> QED  BY <1>3, <1>4, <1>7, <1>9 DEF DirectInv

LEMMA SteerKeeps == ASSUME DirectInv, Steer PROVE DirectInv'
<1>1. CallOK /\ WaitOK /\ DirectTypes /\ op.at = "steer" /\ op.tool \in Sender /\ ~Joins /\ op.id \in Messages
  BY SentTo DEF DirectInv, DirectTypes, Steer, At, CallOK, Joins
<1>2. UNCHANGED <<log, ids, told, resuming>> /\ UNCHANGED <<begun, wire, queue, running>> /\ UNCHANGED record
  BY DEF Steer, ghosts
<1>3. WaitOK' /\ ReceiptsStay /\ CountOK'
  BY <1>1, <1>2, Written, KeepsCounting DEF Steer
<1>4. CASE op' = Thrown /\ UNCHANGED sent
  BY <1>1, <1>2, <1>3, <1>4, Throws
<1>5. op.id \in ids /\ sent[op.id] = 0 /\ resuming[op.id] = "none" /\ op.id \notin Controls
  <2>1. InHand(op.id)
    BY <1>1 DEF InHand
  <2>2. op.id \notin Controls
    BY <1>1, DirectAssumption
  <2> QED  BY <1>1, <2>1, <2>2 DEF DirectInv, MessagesOK
<1>6. CASE Reaches(op.id) /\ op' = Thrown
  <2>1. CallOK' /\ op'.at \in {"free", "catch"}
        /\ (Under' => Key' = Key /\ Key \in RequestKeys /\ disk.receipts[Key] # "none")
    BY <1>1, <1>6, ThrownOK
  <2>2. (\A m : ~InHand(m)') /\ (\A k : ~Asked(k)') /\ ~Noted' /\ (\A k : ~AtEnd(k)')
    BY <2>1 DEF InHand, Asked, Noted, AtEnd
  <2>3. resuming' \in [Messages -> {"none", "start", "failed"}]
    BY <1>1, <1>2 DEF DirectTypes
  <2> QED  BY <1>1, <1>2, <1>3, <1>5, <1>6, <2>1, <2>2, <2>3, Delivers
<1>7. CASE Reaches(op.id) /\ op' = Goes("note")
  <2>1. op' = [op EXCEPT !.at = "note"]
    BY <1>7 DEF Goes
  <2>2. /\ op'.at = "note" /\ op'.tool = op.tool /\ DOMAIN op' = DOMAIN op /\ op'.id = op.id
        /\ ~Joins' /\ (Direct' <=> Direct)
        /\ (Direct' => Key' = Key /\ Key \in RequestKeys /\ disk.receipts[Key] # "none")
    BY <1>1, <2>1, Moved DEF Sender
  <2>3. CallOK'
    BY <1>1, <2>2 DEF CallOK, Sender, Joins, RequestKeys
  <2>4. (\A m : ~InHand(m)') /\ (\A k : ~Asked(k)') /\ (\A k : ~AtEnd(k)')
    BY <2>2 DEF InHand, Asked, AtEnd
  <2>5. Under' => Key' = Key /\ Key \in RequestKeys /\ disk.receipts[Key] # "none"
    BY <2>2 DEF Under
  <2>6. sent'[SentAs'] = 1
    <3>1. SentAs' = op.id
      BY <1>1, <2>2 DEF SentAs, Sender, Action
    <3> QED  BY <1>1, <1>5, <1>7, <3>1, Reached
  <2>7. resuming' \in [Messages -> {"none", "start", "failed"}]
    BY <1>1, <1>2 DEF DirectTypes
  <2> QED  BY <1>1, <1>2, <1>3, <1>5, <1>7, <2>3, <2>4, <2>5, <2>6, <2>7, Delivers
<1> QED  BY <1>4, <1>6, <1>7 DEF Steer

LEMMA SameCall ==
  ASSUME DirectInv, op' = op
  PROVE  /\ CallOK' /\ (\A m : InHand(m)' => InHand(m)) /\ (\A k : Asked(k)' => Asked(k))
         /\ (Under' => Key' = Key /\ Key \in RequestKeys /\ disk.receipts[Key] # "none")
         /\ (\A k : AtEnd(k)' => AtEnd(k))
         /\ (Noted' => SentAs' = SentAs /\ sent[SentAs] = 1 /\ SentAs \in Messages \cup Controls)
<1>1. CallOK
  BY DEF DirectInv, DirectTypes
<1>2. CallOK'
  BY <1>1 DEF CallOK, Joins, RequestKeys
<1>3. (\A m : InHand(m)' => InHand(m)) /\ (\A k : Asked(k)' => Asked(k)) /\ (\A k : AtEnd(k)' => AtEnd(k))
  BY DEF InHand, Asked, Joins, AtEnd, Key
<1>4. Under' => Key' = Key /\ Key \in RequestKeys /\ disk.receipts[Key] # "none"
  BY <1>1, UnderKey DEF Under, Key, Direct, DirectInv, ReceiptsOK
<1>5. Noted' => SentAs' = SentAs /\ sent[SentAs] = 1
  BY DEF Noted, SentAs, Joins, Key, DirectInv, TruthOK
<1>6. Noted' => SentAs \in Messages \cup Controls
  <2>1. CASE op.tool \in Action /\ op.at = "note"
    <3>1. Key \in RequestKeys /\ Key[1] = op.tool
      BY <1>1, <2>1 DEF CallOK, Action, Key
    <3> QED  BY <2>1, <3>1, KeyFacts DEF SentAs
  <2>2. CASE op.tool \in Sender /\ op.at = "note"
    BY <1>1, <2>2, SentTo DEF SentAs, Sender, Action
  <2> QED  BY <1>1, <2>1, <2>2 DEF Noted, CallOK
<1> QED  BY <1>2, <1>3, <1>4, <1>5, <1>6

LEMMA BegunLines ==
  ASSUME WaitOK, Begins, queue' = queue
  PROVE  WaitOK'
<1>1. begun + 1 \in Nat /\ Append(wire, [kind |-> "started", turn |-> begun + 1]) \in Seq(Lines)
  BY AppendProperties DEF Lines, WaitOK
<1> QED  BY <1>1 DEF Begins, WaitOK, Lines, CallItems, Callers, RequestKeys

(* The flow that resumes the thread for a message                          *)
LEMMA StartTurnKeeps == ASSUME DirectInv, NEW m \in Messages, StartTurn(m) PROVE DirectInv'
<1>1. CallOK /\ WaitOK /\ DirectTypes /\ resuming[m] = "start" /\ op' = op
      /\ UNCHANGED <<log, ids, told, op>> /\ queue' = queue
  BY DEF DirectInv, DirectTypes, StartTurn, Resumes, ghosts
<1>2. m \in ids /\ sent[m] = 0 /\ m \notin Controls
  <2>1. m \in ids /\ sent[m] = 0
    BY <1>1 DEF DirectInv, MessagesOK
  <2> QED  BY <2>1, DirectAssumption
<1>3. RecordOK(InThat(begun + 1)) /\ InThat(begun + 1).receipts = job.receipts
  BY <1>1, Writes DEF DirectTypes
<1>4. ReceiptsStay
  <2>1. UNCHANGED record \/ (job' = InThat(begun + 1) /\ disk' \in {job', disk})
    BY DEF StartTurn
  <2> QED  BY <1>1, <1>3, <2>1, Written DEF ReceiptsStay, DirectTypes
<1>5. CountOK'
  BY <1>1, Written, KeepsCounting DEF StartTurn, Refused
<1>6. resuming' \in [Messages -> {"none", "start", "failed"}] /\ resuming'[m] # "start"
      /\ \A y \in Messages : resuming'[y] = resuming[y] \/ y = m
  <2>1. resuming' = [resuming EXCEPT ![m] = "none"] \/ resuming' = [resuming EXCEPT ![m] = "failed"]
    BY DEF StartTurn, Moves
  <2> QED  BY <1>1, <2>1 DEF DirectTypes
<1>7. CASE Begins /\ Reaches(m)
  <2>1. WaitOK'
    BY <1>1, <1>7, BegunLines
  <2>2. \A y \in Messages : InHand(y)' => InHand(y) /\ y # m
    BY <1>1, SameCall DEF DirectInv, MessagesOK
  <2>3. Noted' => sent'[SentAs'] = 1
    <3>1. \A y \in Messages \cup Controls : sent'[y] = IF y = m THEN 1 ELSE sent[y]
      BY <1>1, <1>2, <1>7, Reached
    <3> QED  BY <1>1, <3>1, SameCall
  <2> QED  BY <1>1, <1>2, <1>4, <1>5, <1>6, <1>7, <2>1, <2>2, <2>3, SameCall, Delivers
<1>8. CASE UNCHANGED codex /\ Moves(m, "failed") /\ UNCHANGED record
  <2>1. WaitOK' /\ sent' = sent
    BY <1>1, <1>8, Written DEF codex
  <2>2. DirectTypes'
    BY <1>1, <1>4, <1>5, <1>6, <2>1, SameCall DEF DirectTypes, ReceiptsStay, CountOK
  <2>3. resuming'[m] = "failed"
    BY <1>1, <1>8 DEF Moves, DirectTypes
  <2>4. MessagesOK'
    <3>1. \A y \in Messages : InHand(y)' => InHand(y) /\ y # m
      BY <1>1, SameCall DEF DirectInv, MessagesOK
    <3>2. ASSUME NEW y \in Messages
          PROVE  /\ (sent[y] = 1 \/ resuming[y] # "none" => y \in ids)'
                 /\ (resuming[y] = "start" => sent[y] = 0)'
                 /\ (InHand(y) => y \in ids /\ sent[y] = 0 /\ resuming[y] = "none")'
      <4>1. CASE y = m
        BY <1>1, <1>2, <1>6, <3>1, <4>1
      <4>2. CASE y # m
        <5>1. resuming'[y] = resuming[y]
          BY <1>6, <4>2
        <5> QED  BY <1>1, <2>1, <3>1, <5>1 DEF DirectInv, MessagesOK
      <4> QED  BY <4>1, <4>2
    <3> QED  BY <1>1, <3>2 DEF DirectInv, MessagesOK
  <2>5. ReceiptsOK'
    <3>1. \A k \in RequestKeys : /\ (disk.receipts[k] # "none" => disk'.receipts[k] # "none")
                                 /\ (disk'.receipts[k] # "none" => job'.receipts[k] # "none")
      BY <1>4 DEF DirectInv, ReceiptsOK, ReceiptsStay
    <3> QED  BY <1>1, <2>1, <3>1, SameCall, ReceiptsKept DEF DirectInv
  <2>6. \A k \in DirectMessages \cup Controls : Truth(k) => Truth(k)'
    <3>1. \A y \in Messages : resuming[y] # "none" => resuming'[y] # "none" \/ y \in told' \/ sent'[y] = 1
      BY <1>6, <2>3
    <3> QED  BY <1>1, <2>1, <2>2, <3>1, TruthGrows
  <2>7. TruthOK'
    <3>1. \A k \in DirectMessages \cup Controls : Own(k) /\ SaysDone(k)' => SaysDone(k) \/ Truth(k)'
      BY <1>1, <1>4, SameCall DEF SaysDone, ReceiptsStay
    <3> QED  BY <1>1, <2>1, <2>6, <3>1, SameCall, TruthKept DEF DirectInv
  <2> QED  BY <2>2, <2>4, <2>5, <2>7 DEF DirectInv
<1> QED  BY <1>7, <1>8 DEF StartTurn

LEMMA GivesUpKeeps == ASSUME DirectInv, NEW m \in Messages, GivesUp(m) PROVE DirectInv'
<1> DEFINE failed == [job EXCEPT !.status = "failed"]
<1>1. CallOK /\ WaitOK /\ DirectTypes /\ resuming[m] = "failed" /\ resuming' = [resuming EXCEPT ![m] = "none"]
      /\ UNCHANGED <<log, ids, op>> /\ told' = told \cup {m} /\ queue' = queue /\ UNCHANGED codex
  BY DEF DirectInv, DirectTypes, GivesUp, Resumes, Moves
<1>2. RecordOK(failed) /\ failed.receipts = job.receipts
  BY <1>1, Writes DEF DirectTypes
<1>3. ReceiptsStay
  <2>1. job' \in {job, failed} /\ disk' \in {disk, failed}
    BY DEF GivesUp
  <2> QED  BY <1>1, <1>2, <2>1 DEF ReceiptsStay, DirectTypes
<1>4. CountOK' /\ WaitOK' /\ sent' = sent
  BY <1>1, Written, KeepsCounting DEF GivesUp, codex
<1>5. DirectTypes'
  BY <1>1, <1>3, <1>4, SameCall DEF DirectTypes, ReceiptsStay, CountOK
<1>6. resuming'[m] = "none" /\ \A y \in Messages : resuming'[y] = IF y = m THEN "none" ELSE resuming[y]
  BY <1>1 DEF DirectTypes
<1>7. MessagesOK'
  BY <1>1, <1>4, <1>6, SameCall DEF DirectInv, MessagesOK
<1>8. ReceiptsOK'
  <2>1. \A k \in RequestKeys : /\ (disk.receipts[k] # "none" => disk'.receipts[k] # "none")
                               /\ (disk'.receipts[k] # "none" => job'.receipts[k] # "none")
    BY <1>3 DEF DirectInv, ReceiptsOK, ReceiptsStay
  <2> QED  BY <1>1, <1>4, <2>1, SameCall, ReceiptsKept DEF DirectInv
<1>9. \A k \in DirectMessages \cup Controls : Truth(k) => Truth(k)'
  <2>1. \A y \in Messages : resuming[y] # "none" => resuming'[y] # "none" \/ y \in told' \/ sent'[y] = 1
    BY <1>1, <1>6
  <2> QED  BY <1>1, <1>4, <1>5, <2>1, TruthGrows
<1>10. TruthOK'
  <2>1. \A k \in DirectMessages \cup Controls : Own(k) /\ SaysDone(k)' => SaysDone(k) \/ Truth(k)'
    BY <1>1, <1>3, SameCall DEF SaysDone, ReceiptsStay
  <2> QED  BY <1>1, <1>4, <1>9, <2>1, SameCall, TruthKept DEF DirectInv
<1> QED  BY <1>5, <1>7, <1>8, <1>10 DEF DirectInv

-----------------------------------------------------------------------------
(* The last event of an operation, and the launch of a control action      *)

LEMMA DoneOK ==
  ASSUME DirectInv, op.at \notin {"free", "record"}, op' = Done
  PROVE  /\ CallOK' /\ op'.at \in {"free", "complete"}
         /\ Under' => Key' = Key /\ Key \in RequestKeys /\ disk.receipts[Key] # "none"
         /\ \A k : AtEnd(k)' => Direct /\ Key = k /\ op' = [op EXCEPT !.at = "complete"]
<1>1. CallOK
  BY DEF DirectInv, DirectTypes
<1>2. CASE ~Direct
  <2>1. op' = Free /\ op'.at = "free"
    BY <1>2 DEF Done, Free
  <2> QED  BY <2>1 DEF CallOK, Free, Under, AtEnd
<1>3. CASE Direct
  <2>1. op' = [op EXCEPT !.at = "complete"]
    BY <1>3 DEF Done, Goes
  <2>2. /\ op'.at = "complete" /\ op'.tool = op.tool /\ DOMAIN op' = DOMAIN op /\ op'.id = op.id
        /\ Key' = Key /\ Key \in RequestKeys /\ disk.receipts[Key] # "none"
    BY <1>3, <2>1, Moved DEF Direct
  <2>3. CallOK'
    BY <1>1, <1>3, <2>2 DEF CallOK, Direct, RequestKeys
  <2>4. \A k : AtEnd(k)' => Key = k
    BY <2>2 DEF AtEnd
  <2> QED  BY <1>3, <2>1, <2>2, <2>3, <2>4
<1> QED  BY <1>2, <1>3

LEMMA NoteKeeps == ASSUME DirectInv, Note PROVE DirectInv'
<1>1. CallOK /\ WaitOK /\ DirectTypes /\ op.at = "note"
  BY DEF DirectInv, DirectTypes, Note, At
<1>2. UNCHANGED <<log, ids, sent, told>> /\ UNCHANGED <<begun, wire, queue, running>> /\ RecordOK(job)
  BY <1>1 DEF Note, codex, ghosts, DirectTypes
<1>3. Save(job, Done, Thrown)
  BY DEF Note
<1>4. ReceiptsStay /\ CountOK' /\ WaitOK'
  BY <1>1, <1>2, <1>3, Written
<1>5. CASE op' = Thrown /\ Counts("fault", MaxFault)
  <2>1. count' # count
    BY <1>1, <1>5, Counting DEF DirectTypes
  <2>2. resuming' = resuming
    BY <2>1 DEF Note
  <2> QED  BY <1>1, <1>2, <1>4, <1>5, <2>2, Throws
<1>6. CASE op' = Done /\ count' = count /\ ~Joins
  <2>1. resuming' = resuming
    BY <1>6 DEF Note, Joins
  <2>2. sent[SentAs] = 1 /\ op.tool \in Sender \cup Action
    BY <1>1, <1>6 DEF DirectInv, TruthOK, SentAs, CallOK
  <2>3. CASE ~Direct
    BY <1>2, <1>4, <1>6, <2>1, <2>3, Released DEF Done
  <2>4. CASE Direct
    <3>1. op' = [op EXCEPT !.at = "complete"] /\ CallOK'
      BY <1>1, <1>6, <2>4, DoneOK DEF Done, Goes
    <3>2. ASSUME NEW k \in DirectMessages \cup Controls, Own(k), Key = k PROVE Truth(k)
      <4>1. k[1] = op.tool /\ k[2] = op.id /\ k \in RequestKeys
        BY <3>2 DEF Key, RequestKeys
      <4>2. What(k) = SentAs
        BY <2>2, <3>2, <4>1, KeyFacts DEF SentAs
      <4> QED  BY <2>2, <4>2 DEF Truth
    <3> QED  BY <1>1, <1>2, <1>4, <1>6, <2>1, <3>1, <3>2, GoesTo
  <2> QED  BY <2>3, <2>4
<1>7. CASE op' = Done /\ count' = count /\ Joins
  <2>1. op.tool \in Sender /\ op.id \in Messages
    BY <1>1, <1>7, SentTo DEF CallOK
  <2>2. resuming' = [resuming EXCEPT ![op.id] = "start"]
    BY <1>7 DEF Note, Joins
  <2>3. resuming' \in [Messages -> {"none", "start", "failed"}]
        /\ \A m \in Messages : resuming'[m] = IF m = op.id THEN "start" ELSE resuming[m]
    BY <1>1, <2>1, <2>2 DEF DirectTypes
  <2>4. CallOK' /\ op'.at \in {"free", "complete"}
        /\ (Under' => Key' = Key /\ Key \in RequestKeys /\ disk.receipts[Key] # "none")
        /\ (\A k : AtEnd(k)' => Direct /\ Key = k)
    BY <1>1, <1>7, DoneOK
  <2>5. DirectTypes'
    BY <1>1, <1>2, <1>4, <2>3, <2>4 DEF DirectTypes, ReceiptsStay, CountOK
  <2>6. InHand(op.id) /\ \A m : ~InHand(m)'
    BY <1>1, <1>7, <2>4 DEF InHand
  <2>7. MessagesOK'
    BY <1>2, <2>1, <2>3, <2>6 DEF DirectInv, MessagesOK
  <2>8. ReceiptsOK'
    <3>1. \A k \in RequestKeys : /\ (disk.receipts[k] # "none" => disk'.receipts[k] # "none")
                                 /\ (disk'.receipts[k] # "none" => job'.receipts[k] # "none")
      BY <1>4 DEF DirectInv, ReceiptsOK, ReceiptsStay
    <3>2. \A k : ~Asked(k)'
      BY <2>4 DEF Asked
    <3> QED  BY <1>2, <2>4, <3>1, <3>2, ReceiptsKept DEF DirectInv
  <2>9. \A k \in DirectMessages \cup Controls : Truth(k) => Truth(k)'
    <3>1. \A y \in Messages : resuming[y] # "none" => resuming'[y] # "none" \/ y \in told' \/ sent'[y] = 1
      BY <2>3
    <3> QED  BY <1>1, <1>2, <2>5, <3>1, TruthGrows
  <2>10. TruthOK'
    <3>1. ASSUME NEW k \in DirectMessages \cup Controls, AtEnd(k)' PROVE Truth(k)'
      <4>1. k[1] = op.tool /\ k[2] = op.id /\ k \in RequestKeys
        BY <2>4, <3>1 DEF Key, RequestKeys
      <4>2. k \in DirectMessages
        BY <2>1, <2>4, <3>1, <4>1, KeyFacts DEF Sender, Direct
      <4>3. resuming'[k[2]] = "start"
        BY <2>1, <2>3, <4>1
      <4> QED  BY <4>2, <4>3 DEF Truth
    <3>2. \A k \in DirectMessages \cup Controls : Own(k) /\ SaysDone(k)' => SaysDone(k) \/ Truth(k)'
      BY <1>4, <3>1 DEF SaysDone, ReceiptsStay
    <3>3. ~Noted'
      BY <2>4 DEF Noted
    <3> QED  BY <2>9, <3>2, <3>3, TruthKept DEF DirectInv
  <2> QED  BY <2>5, <2>7, <2>8, <2>10 DEF DirectInv
<1> QED  BY <1>3, <1>5, <1>6, <1>7 DEF Save

LEMMA LaunchKeeps == ASSUME DirectInv, Launch PROVE DirectInv'
<1>1. CallOK /\ WaitOK /\ DirectTypes /\ op.at = "launch" /\ op.tool \in Action /\ ~Joins
  BY DEF DirectInv, DirectTypes, Launch, At, CallOK
<1>2. UNCHANGED <<log, ids, resuming, told>> /\ queue' = queue
  BY DEF Launch
<1>3. Direct /\ Key \in RequestKeys /\ Key = <<op.tool, op.id>>
  BY <1>1, UnderKey DEF Direct, Action, Key
<1>4. Key \in Controls /\ Key \notin Messages
  <2>1. Key[1] = op.tool
    BY <1>3
  <2> QED  BY <1>1, <1>3, <2>1, KeyFacts, DirectAssumption
<1>5. sent[Key] = 0 /\ disk.receipts[Key] # "none"
  <2>1. Asked(Key)
    BY <1>1, <1>3 DEF Asked
  <2> QED  BY <1>1, <1>3, <1>4, <2>1 DEF DirectInv, ReceiptsOK
<1>6. CASE op' = Thrown /\ UNCHANGED <<record, codex>> /\ (Refused \/ UNCHANGED count)
  <2>1. ReceiptsStay /\ CountOK' /\ WaitOK' /\ sent' = sent
    BY <1>1, <1>2, <1>6, Written, KeepsCounting DEF codex, Refused
  <2> QED  BY <1>1, <1>2, <1>6, <2>1, Throws
<1>7. CASE LaunchDelivered
  <2>1. Begins /\ Reaches(Key) /\ op' \in {Goes("note"), Thrown}
    BY <1>7 DEF LaunchDelivered, Save
  <2>2. WaitOK'
    BY <1>1, <1>2, <2>1, BegunLines
  <2>3. RecordOK(InThat(begun + 1)) /\ InThat(begun + 1).receipts = job.receipts
    BY <1>1, Writes DEF DirectTypes
  <2>4. ReceiptsStay /\ CountOK'
    <3>1. CASE Save(InThat(begun + 1), Goes("note"), Thrown)
      BY <1>1, <2>3, <3>1, Written
    <3>2. CASE UNCHANGED record /\ (UNCHANGED count \/ Counts("lost", MaxLost))
      BY <1>1, <3>2, Written, KeepsCounting
    <3> QED  BY <1>7, <3>1, <3>2 DEF LaunchDelivered, record
  <2>5. resuming' \in [Messages -> {"none", "start", "failed"}]
    BY <1>1, <1>2 DEF DirectTypes
  <2>6. CASE op' = Thrown
    <3>1. CallOK' /\ op'.at \in {"free", "catch"}
          /\ (Under' => Key' = Key /\ Key \in RequestKeys /\ disk.receipts[Key] # "none")
      BY <1>1, <2>6, ThrownOK
    <3>2. (\A m : ~InHand(m)') /\ (\A k : ~Asked(k)') /\ ~Noted' /\ (\A k : ~AtEnd(k)')
      BY <3>1 DEF InHand, Asked, Noted, AtEnd
    <3> QED  BY <1>2, <1>4, <1>5, <2>1, <2>2, <2>4, <2>5, <3>1, <3>2, Delivers
  <2>7. CASE op' = Goes("note")
    <3>1. op' = [op EXCEPT !.at = "note"]
      BY <2>7 DEF Goes
    <3>2. /\ op'.at = "note" /\ op'.tool = op.tool /\ DOMAIN op' = DOMAIN op /\ op'.id = op.id
          /\ ~Joins' /\ Key' = Key
      BY <1>1, <1>3, <3>1, Moved DEF Direct
    <3>3. CallOK'
      BY <1>1, <3>2 DEF CallOK, Joins, RequestKeys
    <3>4. (\A m : ~InHand(m)') /\ (\A k : ~Asked(k)') /\ (\A k : ~AtEnd(k)')
      BY <3>2 DEF InHand, Asked, AtEnd
    <3>5. sent'[SentAs'] = 1
      <4>1. SentAs' = Key
        BY <1>1, <3>2 DEF SentAs
      <4> QED  BY <1>1, <1>4, <1>5, <2>1, <4>1, Reached
    <3> QED  BY <1>2, <1>3, <1>4, <1>5, <2>1, <2>2, <2>4, <2>5, <3>2, <3>3, <3>4, <3>5, Delivers
  <2> QED  BY <2>1, <2>6, <2>7
<1> QED  BY <1>6, <1>7 DEF Launch

-----------------------------------------------------------------------------
(* Restarts, and the theorem                                               *)

LEMMA RestartKeeps == ASSUME DirectInv, Restart PROVE DirectInv'
<1>1. CallOK /\ WaitOK /\ DirectTypes /\ RecordOK(disk)
  BY DEF DirectInv, DirectTypes
<1>2. /\ job' = Interrupted(disk) /\ disk' = job' /\ ids' = log /\ op' = Free
      /\ resuming' = [m \in Messages |-> "none"]
      /\ told' = told \cup {m \in Messages : resuming[m] # "none"}
      /\ queue' = <<>> /\ running' = {} /\ wire' = <<>>
      /\ UNCHANGED <<log, begun, sent>>
  BY DEF Restart
<1>3. RecordOK(job') /\ RecordOK(disk') /\ job'.receipts = disk.receipts /\ disk'.receipts = disk.receipts
  BY <1>1, <1>2 DEF RecordOK, Interrupted
<1>4. CountOK'
  BY <1>1, KeepsCounting DEF Restart
<1>5. op'.at = "free" /\ CallOK'
  BY <1>2 DEF CallOK, Free
<1>6. DirectTypes'
  BY <1>1, <1>2, <1>3, <1>4, <1>5 DEF DirectTypes, CountOK, WaitOK
<1>7. MessagesOK'
  BY <1>2, <1>5 DEF DirectInv, MessagesOK, InHand
<1>8. ReceiptsOK'
  <2>1. ids' = ids
    BY <1>2 DEF DirectInv, MessagesOK
  <2>2. ~Under' /\ \A k : ~Asked(k)'
    BY <1>5 DEF Under, Asked
  <2> QED  BY <1>2, <1>3, <2>1, <2>2, ReceiptsKept DEF DirectInv
<1>9. \A k \in DirectMessages \cup Controls : Truth(k) => Truth(k)'
  BY <1>1, <1>2, <1>6, TruthGrows
<1>10. TruthOK'
  <2>1. ~Noted' /\ \A k : ~AtEnd(k)'
    BY <1>5 DEF Noted, AtEnd
  <2>2. \A k \in DirectMessages \cup Controls : Own(k) /\ SaysDone(k)' => SaysDone(k) \/ Truth(k)'
    BY <1>3, <2>1 DEF SaysDone
  <2> QED  BY <1>9, <2>1, <2>2, TruthKept DEF DirectInv
<1> QED  BY <1>6, <1>7, <1>8, <1>10 DEF DirectInv

LEMMA InitHolds == DirectInit => DirectInv
<1> SUFFICES ASSUME DirectInit PROVE DirectInv
  OBVIOUS
<1>1. op.at = "free" /\ CallOK
  BY DEF DirectInit, CallOK, Free
<1>2. RecordOK(job) /\ RecordOK(disk) /\ \A k \in RequestKeys : job.receipts[k] = "none" /\ disk.receipts[k] = "none"
  BY DEF DirectInit, RecordOK
<1>3. WaitOK
  BY DEF DirectInit, WaitOK
<1>4. "fault" \in DOMAIN count /\ count["fault"] = 0
  BY DEF DirectInit
<1>5. sent \in [Messages \cup Controls -> {0, 1}] /\ \A x \in Messages \cup Controls : sent[x] = 0
  BY DEF DirectInit
<1>6. DirectTypes
  BY <1>1, <1>2, <1>3, <1>4, <1>5 DEF DirectInit, DirectTypes
<1>7. MessagesOK
  BY <1>1, <1>5 DEF DirectInit, MessagesOK, InHand
<1>8. ReceiptsOK
  BY <1>1, <1>2, <1>5 DEF DirectInit, ReceiptsOK, Asked, RequestKeys
<1>9. TruthOK
  <2>1. Controls \subseteq RequestKeys /\ DirectMessages \subseteq RequestKeys
    BY DEF RequestKeys
  <2> QED  BY <1>1, <1>2, <2>1 DEF TruthOK
<1> QED  BY <1>6, <1>7, <1>8, <1>9 DEF DirectInv

LEMMA StutterKeeps == ASSUME DirectInv, UNCHANGED directVars PROVE DirectInv'
<1>1. DirectTypes
  BY DEF DirectInv
<1>2. UNCHANGED record /\ UNCHANGED count /\ UNCHANGED <<begun, wire, queue, running>>
      /\ UNCHANGED <<op, log, ids, resuming, sent, told>>
  BY DEF directVars, codex, ghosts
<1>3. ReceiptsStay /\ CountOK' /\ WaitOK'
  BY <1>1, <1>2, Written
<1> QED  BY <1>2, <1>3, Stays

(* Every step of the direct requests keeps the invariant                   *)
LEMMA DirectStep == DirectInv /\ [DirectNext]_directVars => DirectInv'
<1> SUFFICES ASSUME DirectInv, [DirectNext]_directVars PROVE DirectInv'
  OBVIOUS
<1>1. CASE UNCHANGED directVars
  BY <1>1, StutterKeeps
<1>2. CASE Calls \/ TakesLock \/ Reads \/ Handle \/ Exit \/ Restart
  BY <1>2, CallsKeeps, TakesLockKeeps, ReadsKeeps, HandleKeeps, ExitKeeps, RestartKeeps
<1>3. CASE Operation
  BY <1>3, RecordPendingKeeps, CheckKeeps, AppendKeeps, SteerKeeps, PrepareTurnKeeps, NoteKeeps,
     CancelLockedKeeps, CancelSettlesKeeps, NativeCheckKeeps, PrepareControlKeeps, LaunchKeeps,
     CompleteKeeps, CatchUnknownKeeps DEF Operation
<1>4. CASE \E m \in Messages : Background(m)
  BY <1>4, StartTurnKeeps, GivesUpKeeps DEF Background
<1>5. CASE \E t \in running : TurnEnds(t)
  BY <1>5, TurnEndsKeeps
<1> QED  BY <1>1, <1>2, <1>3, <1>4, <1>5 DEF DirectNext

LEMMA DirectInvIsEnough == DirectInv => DeliveriesAreTrue
<1> SUFFICES ASSUME DirectInv PROVE DeliveriesAreTrue
  OBVIOUS
<1>1. sent \in [Messages \cup Controls -> {0, 1}]
  BY DEF DirectInv, DirectTypes
<1>2. DeliveredOnce
  BY <1>1 DEF DeliveredOnce
<1>3. ASSUME NEW k \in DirectMessages \cup Controls, Own(k), sent[What(k)] > 0 PROVE disk.receipts[k] # "none"
  <2>1. k \in RequestKeys
    BY DEF RequestKeys
  <2>2. CASE k \in Controls
    <3>1. What(k) = k
      BY <2>1, <2>2, KeyFacts
    <3>2. sent[k] = 1
      BY <1>1, <1>3, <2>2, <3>1
    <3> QED  BY <2>2, <3>2 DEF DirectInv, ReceiptsOK
  <2>3. CASE k \in DirectMessages
    <3>1. What(k) = k[2] /\ k[2] \in Messages
      BY <2>1, <2>3, KeyFacts
    <3>2. sent[k[2]] = 1
      BY <1>1, <1>3, <3>1
    <3>3. k[2] \in ids
      BY <3>1, <3>2 DEF DirectInv, MessagesOK
    <3> QED  BY <1>3, <2>3, <3>3 DEF DirectInv, ReceiptsOK
  <2> QED  BY <2>2, <2>3
<1>4. ASSUME NEW k \in DirectMessages \cup Controls, Own(k), job.receipts[k] = "completed" PROVE Truth(k)
  BY <1>4 DEF DirectInv, TruthOK
<1> QED  BY <1>2, <1>3, <1>4 DEF DeliveriesAreTrue, ReceiptsAreTrue, Truth

(* Whatever is retried, lost, failed or restarted, and whoever has the     *)
(* lock: a message and a control action reach Codex at most once; what a   *)
(* direct tool delivered has its receipt on disk, and a receipt that says  *)
(* completed is true (controller.ts runDirectRequest, job-store.ts         *)
(* recordDirectRequest).                                                   *)
THEOREM DeliveriesAreTrueAlways == DirectSpec => []DeliveriesAreTrue
<1>1. DirectInit => DirectInv
  BY InitHolds
<1>2. DirectInv /\ [DirectNext]_directVars => DirectInv'
  BY DirectStep
<1>3. DirectInv => DeliveriesAreTrue
  BY DirectInvIsEnough
<1> QED  BY <1>1, <1>2, <1>3, PTL DEF DirectSpec

-----------------------------------------------------------------------------
(* A control action and its job                                            *)

(* Which lines tell of a turn's begin, and how late a turn they tell of    *)
Begin(line) == line.kind = "started"
From(turn) ==
  /\ \A i \in 1 .. Len(queue) : Begin(queue[i]) => queue[i].turn >= turn
  /\ \A i \in 1 .. Len(wire) : Begin(wire[i]) => wire[i].turn >= turn
Behind(turn) ==
  /\ \A i \in 1 .. Len(wire) : Begin(wire[i]) => wire[i].turn >= turn
  /\ \A i, j \in 1 .. Len(queue) :
       i < j /\ queue[i].kind = "call" /\ queue[i].begun >= turn /\ Begin(queue[j]) => queue[j].turn >= turn
Bounded ==
  /\ \A i \in 1 .. Len(queue) : IF queue[i].kind = "call" THEN queue[i].begun <= begun ELSE queue[i].turn <= begun
  /\ \A i \in 1 .. Len(wire) : wire[i].turn <= begun
BoundsOK ==
  /\ begun \in Nat /\ begun >= 1 /\ cut \in BOOLEAN
  /\ running \subseteq 1 .. begun /\ controls \subseteq 1 .. begun
  /\ job.turn \in 0 .. begun /\ job.prior \in 0 .. begun
  /\ disk.turn \in 0 .. begun /\ disk.prior \in 0 .. begun
  /\ op.at \in {"record", "check", "native", "control", "launch"} => op.names \in 0 .. begun
  /\ Bounded

(* Lines come in the order of the turns, and the last after the turn's end *)
LinesOK ==
  /\ \A i, j \in 1 .. Len(queue) : i < j /\ Begin(queue[i]) /\ Begin(queue[j]) => queue[i].turn <= queue[j].turn
  /\ \A i, j \in 1 .. Len(wire) : i < j /\ Begin(wire[i]) /\ Begin(wire[j]) => wire[i].turn <= wire[j].turn
  /\ \A i \in 1 .. Len(queue), j \in 1 .. Len(wire) :
       Begin(queue[i]) /\ Begin(wire[j]) => queue[i].turn <= wire[j].turn
  /\ \A i \in 1 .. Len(queue) : queue[i].kind = "completed" => queue[i].turn \notin running
  /\ \A i \in 1 .. Len(wire) : wire[i].kind = "completed" => wire[i].turn \notin running

(* The turn a record names is the last one Codex began; a control action   *)
(* follows the turn before by one, if it was begun                         *)
TurnsOK(r) ==
  /\ r.turn \in {0, begun}
  /\ r.prior # 0 => begun = r.prior \/ (begun = r.prior + 1 /\ begun \in controls)
  /\ r.prior # 0 /\ r.turn # 0 => r.turn = r.prior + 1
  /\ r.prior # 0 /\ r.status = "completed" => r.turn # 0 /\ r.turn \notin running
(* While a control action's turn runs the job is at work on it             *)
RunsOK ==
  \/ running \cap controls = {}
  \/ ~Terminal(job.status) /\ job.prior # 0 /\ running \cap controls \subseteq {job.prior + 1}
(* One message's turn is being started at a time                           *)
Resumed == \A m \in Messages : resuming[m] = "none"
StartsOK ==
  \A m \in Messages : resuming[m] # "none" =>
    /\ job.prior = 0 /\ disk.prior = 0 /\ ~Terminal(job.status)
    /\ resuming[m] = "start" => job.turn = 0 /\ disk.turn = 0
    /\ \A other \in Messages : resuming[other] # "none" => other = m
(* A call that knows the turn has no begin of an earlier one behind it     *)
BehindOK ==
  /\ job.turn # 0 => Behind(job.turn)
  /\ job.prior # 0 /\ job.turn = 0 => From(job.prior)
(* What the call that holds the lock knows of the job                      *)
Agreed == Terminal(job.status) /\ job.turn = op.names /\ op.names # 0 /\ From(op.names)
Asking ==
  /\ op.at \in {"record", "check"} /\ op.tool \in Action /\ Terminal(op.seen.status)
  /\ op.names # 0 /\ op.names = op.seen.turn
KnowsOK ==
  /\ Asking => Agreed
  /\ op.at \in {"native", "control"} => Agreed
  /\ op.at = "launch" =>
       /\ op.names # 0 /\ begun = op.names /\ ~Terminal(job.status)
       /\ job.prior = op.names /\ job.turn = 0 /\ disk.prior = op.names /\ disk.turn = 0
  /\ op.at = "prepare" \/ (op.at = "append" /\ ~op.joins) => Terminal(job.status)
  /\ op.at = "note" /\ Joins =>
       /\ job.prior = 0 /\ job.turn = 0 /\ disk.prior = 0 /\ disk.turn = 0
       /\ ~Terminal(job.status) /\ Resumed
  /\ op.at = "settle" /\ job.prior # 0 /\ job.turn # 0 => job.turn \notin running

KeptOK == TurnsOK(job) /\ TurnsOK(disk) /\ RunsOK /\ StartsOK /\ BehindOK /\ KnowsOK
ControlInv == BoundsOK /\ LinesOK /\ (cut \/ KeptOK)

(* What every step does with the lines                                     *)
Transfers ==
  /\ LinesOK' /\ Bounded'
  /\ \A t \in 0 .. begun : (From(t) => From(t)') /\ (Behind(t) => Behind(t)')
Alike(r, q) == r.status = q.status /\ r.turn = q.turn /\ r.prior = q.prior
SameTurns == Alike(job', job) /\ (Alike(disk', disk) \/ Alike(disk', job))

-----------------------------------------------------------------------------
(* The lines of the App Server                                             *)

LEMMA AppendAt ==
  ASSUME NEW S, NEW s \in Seq(S), NEW e \in S
  PROVE  /\ Len(Append(s, e)) = Len(s) + 1 /\ Len(s) \in Nat
         /\ Append(s, e)[Len(s) + 1] = e
         /\ \A i \in 1 .. Len(s) : Append(s, e)[i] = s[i]
BY AppendProperties, LenProperties

LEMMA TailAt ==
  ASSUME NEW S, NEW s \in Seq(S), s # <<>>
  PROVE  /\ Len(Tail(s)) = Len(s) - 1 /\ Len(s) \in Nat /\ Len(s) >= 1 /\ Head(s) = s[1]
         /\ \A i \in 1 .. Len(s) - 1 : Tail(s)[i] = s[i + 1] /\ i + 1 \in 1 .. Len(s)
BY HeadTailProperties, LenProperties, EmptySeq

(* What the lines and calls are                                            *)
LEMMA Awaited ==
  ASSUME WaitOK
  PROVE  /\ \A i \in 1 .. Len(queue) : queue[i] \in Lines \cup CallItems
         /\ \A i \in 1 .. Len(queue) : IF queue[i].kind = "call" THEN queue[i].begun \in Nat ELSE queue[i].turn \in Nat
         /\ \A i \in 1 .. Len(wire) : wire[i] \in Lines /\ wire[i].kind # "call" /\ wire[i].turn \in Nat
<1>1. /\ \A i \in 1 .. Len(queue) : queue[i] \in Lines \cup CallItems
      /\ \A i \in 1 .. Len(wire) : wire[i] \in Lines
  BY LenProperties DEF WaitOK
<1>2. \A e \in Lines : e.kind # "call" /\ e.turn \in Nat
  BY DEF Lines
<1>3. \A e \in CallItems : e.kind = "call" /\ e.begun \in Nat
  BY DEF CallItems
<1> QED  BY <1>1, <1>2, <1>3

(* No line comes or goes, or turns end                                     *)
LEMMA SameLines ==
  ASSUME BoundsOK, LinesOK, queue' = queue, wire' = wire, begun' = begun, running' \subseteq running
  PROVE  Transfers
BY DEF BoundsOK, LinesOK, Bounded, Transfers, From, Behind, Begin

LEMMA TailQueue ==
  ASSUME WaitOK, BoundsOK, LinesOK, queue # <<>>, queue' = Tail(queue), UNCHANGED <<wire, begun, running>>
  PROVE  Transfers
<1>1. /\ Len(queue') = Len(queue) - 1 /\ Len(queue) \in Nat /\ Len(wire') = Len(wire)
      /\ \A i \in 1 .. Len(queue) - 1 : queue'[i] = queue[i + 1] /\ i + 1 \in 1 .. Len(queue)
  BY TailAt DEF WaitOK
<1>2. \A i, j \in 1 .. Len(queue) - 1 : i < j => i + 1 < j + 1
  BY <1>1
<1>3. LinesOK'
  BY <1>1, <1>2 DEF LinesOK, Begin
<1>4. Bounded'
  BY <1>1 DEF BoundsOK, Bounded
<1>5. \A t \in 0 .. begun : (From(t) => From(t)') /\ (Behind(t) => Behind(t)')
  BY <1>1, <1>2 DEF From, Behind, Begin
<1> QED  BY <1>3, <1>4, <1>5 DEF Transfers

LEMMA AsksQueue ==
  ASSUME WaitOK, BoundsOK, LinesOK, NEW c \in CallItems, c.kind = "call", c.begun = begun,
         queue' = Append(queue, c), UNCHANGED <<wire, begun, running>>
  PROVE  Transfers
<1>1. /\ Len(queue') = Len(queue) + 1 /\ Len(queue) \in Nat /\ Len(wire') = Len(wire)
      /\ queue'[Len(queue) + 1] = c
      /\ \A i \in 1 .. Len(queue) : queue'[i] = queue[i]
  BY AppendAt DEF WaitOK
<1>2. \A i \in 1 .. Len(queue') : i \in 1 .. Len(queue) \/ (i = Len(queue) + 1 /\ queue'[i].kind = "call")
  BY <1>1
<1>3. LinesOK'
  BY <1>1, <1>2 DEF LinesOK, Begin
<1>4. Bounded'
  BY <1>1, <1>2 DEF BoundsOK, Bounded
<1>5. \A t \in 0 .. begun : (From(t) => From(t)') /\ (Behind(t) => Behind(t)')
  BY <1>1, <1>2 DEF From, Behind, Begin
<1> QED  BY <1>3, <1>4, <1>5 DEF Transfers

LEMMA EndsLine ==
  ASSUME WaitOK, BoundsOK, LinesOK, NEW t \in running, Ends(t), UNCHANGED <<queue, begun>>
  PROVE  Transfers
<1> DEFINE line == [kind |-> "completed", turn |-> t]
<1>1. wire' = Append(wire, line) /\ running' = running \ {t}
  BY DEF Ends
<1>2. line \in Lines /\ t <= begun /\ t \in Nat /\ begun \in Nat
  BY DEF BoundsOK, Lines
<1>3. /\ Len(wire') = Len(wire) + 1 /\ Len(wire) \in Nat /\ Len(queue') = Len(queue)
      /\ wire'[Len(wire) + 1] = line
      /\ \A i \in 1 .. Len(wire) : wire'[i] = wire[i]
  BY <1>1, <1>2, AppendAt DEF WaitOK
<1>4. \A i \in 1 .. Len(wire') : i \in 1 .. Len(wire) \/ (i = Len(wire) + 1 /\ wire'[i] = line)
  BY <1>3
<1>5. LinesOK'
  BY <1>1, <1>3, <1>4 DEF LinesOK, Begin
<1>6. Bounded'
  BY <1>2, <1>3, <1>4 DEF BoundsOK, Bounded
<1>7. \A n \in 0 .. begun : (From(n) => From(n)') /\ (Behind(n) => Behind(n)')
  BY <1>3, <1>4 DEF From, Behind, Begin
<1> QED  BY <1>5, <1>6, <1>7 DEF Transfers

LEMMA BeginsLine ==
  ASSUME WaitOK, BoundsOK, LinesOK, Begins, queue' = queue
  PROVE  Transfers
<1> DEFINE line == [kind |-> "started", turn |-> begun + 1]
<1>1. wire' = Append(wire, line) /\ running' = running \cup {begun + 1} /\ begun' = begun + 1
  BY DEF Begins
<1>2. line \in Lines /\ begun \in Nat
  BY DEF BoundsOK, Lines
<1>3. /\ Len(wire') = Len(wire) + 1 /\ Len(wire) \in Nat /\ Len(queue') = Len(queue)
      /\ wire'[Len(wire) + 1] = line
      /\ \A i \in 1 .. Len(wire) : wire'[i] = wire[i]
  BY <1>1, <1>2, AppendAt DEF WaitOK
<1>4. \A i \in 1 .. Len(wire') : i \in 1 .. Len(wire) \/ (i = Len(wire) + 1 /\ wire'[i] = line)
  BY <1>3
<1>5. /\ \A i \in 1 .. Len(queue) : queue[i].kind # "call" => queue[i].turn <= begun /\ queue[i].turn \in Nat
      /\ \A i \in 1 .. Len(wire) : wire[i].turn <= begun /\ wire[i].turn \in Nat
  BY Awaited DEF BoundsOK, Bounded
<1>6. LinesOK'
  <2>1. \A i, j \in 1 .. Len(queue') : i < j /\ Begin(queue'[i]) /\ Begin(queue'[j]) => queue'[i].turn <= queue'[j].turn
    BY DEF LinesOK, Begin
  <2>2. \A i, j \in 1 .. Len(wire') : i < j /\ Begin(wire'[i]) /\ Begin(wire'[j]) => wire'[i].turn <= wire'[j].turn
    BY <1>2, <1>3, <1>4, <1>5 DEF LinesOK, Begin
  <2>3. \A i \in 1 .. Len(queue'), j \in 1 .. Len(wire') :
          Begin(queue'[i]) /\ Begin(wire'[j]) => queue'[i].turn <= wire'[j].turn
    BY <1>2, <1>3, <1>4, <1>5 DEF LinesOK, Begin
  <2>4. \A i \in 1 .. Len(queue') : queue'[i].kind = "completed" => queue'[i].turn \notin running'
    BY <1>1, <1>2, <1>3, <1>5 DEF LinesOK
  <2>5. \A i \in 1 .. Len(wire') : wire'[i].kind = "completed" => wire'[i].turn \notin running'
    BY <1>1, <1>2, <1>3, <1>4, <1>5 DEF LinesOK
  <2> QED  BY <2>1, <2>2, <2>3, <2>4, <2>5 DEF LinesOK, Begin
<1>7. Bounded'
  <2>1. \A i \in 1 .. Len(queue) : queue[i].kind = "call" => queue[i].begun \in Nat /\ queue[i].begun <= begun
    BY Awaited DEF BoundsOK, Bounded
  <2> QED  BY <1>1, <1>2, <1>3, <1>4, <1>5, <2>1 DEF Bounded
<1>8. \A n \in 0 .. begun : (From(n) => From(n)') /\ (Behind(n) => Behind(n)')
  BY <1>2, <1>3, <1>4 DEF From, Behind, Begin
<1> QED  BY <1>6, <1>7, <1>8 DEF Transfers

LEMMA ReadsLine == ASSUME WaitOK, BoundsOK, LinesOK, Reads PROVE Transfers
<1>1. wire # <<>> /\ wire' = Tail(wire) /\ queue' \in {queue, Append(queue, wire[1])}
      /\ UNCHANGED <<running, begun>>
  BY TailAt DEF Reads, WaitOK
<1>2. /\ Len(wire') = Len(wire) - 1 /\ Len(wire) \in Nat /\ Len(wire) >= 1
      /\ \A i \in 1 .. Len(wire) - 1 : wire'[i] = wire[i + 1] /\ i + 1 \in 1 .. Len(wire)
      /\ \A i, j \in 1 .. Len(wire) - 1 : i < j => i + 1 < j + 1
  BY <1>1, TailAt DEF WaitOK
<1>3. wire[1] \in Lines \cup CallItems /\ wire[1].kind # "call" /\ 1 \in 1 .. Len(wire)
  BY <1>2, Awaited
<1>4. CASE queue' = queue
  <2>1. LinesOK'
    BY <1>1, <1>2, <1>4 DEF LinesOK, Begin
  <2>2. Bounded'
    BY <1>1, <1>2, <1>4 DEF BoundsOK, Bounded
  <2>3. \A t \in 0 .. begun : (From(t) => From(t)') /\ (Behind(t) => Behind(t)')
    BY <1>2, <1>4 DEF From, Behind, Begin
  <2> QED  BY <2>1, <2>2, <2>3 DEF Transfers
<1>5. CASE queue' = Append(queue, wire[1])
  <2>1. /\ Len(queue') = Len(queue) + 1 /\ Len(queue) \in Nat
        /\ queue'[Len(queue) + 1] = wire[1]
        /\ \A i \in 1 .. Len(queue) : queue'[i] = queue[i]
    BY <1>3, <1>5, AppendAt DEF WaitOK
  <2>2. \A i \in 1 .. Len(queue') : i \in 1 .. Len(queue) \/ (i = Len(queue) + 1 /\ queue'[i] = wire[1])
    BY <2>1
  <2>3. LinesOK'
    <3>1. \A i, j \in 1 .. Len(queue') : i < j /\ Begin(queue'[i]) /\ Begin(queue'[j]) => queue'[i].turn <= queue'[j].turn
      BY <1>3, <2>1, <2>2 DEF LinesOK, Begin
    <3>2. \A i, j \in 1 .. Len(wire') : i < j /\ Begin(wire'[i]) /\ Begin(wire'[j]) => wire'[i].turn <= wire'[j].turn
      BY <1>2 DEF LinesOK, Begin
    <3>3. \A i \in 1 .. Len(queue'), j \in 1 .. Len(wire') :
            Begin(queue'[i]) /\ Begin(wire'[j]) => queue'[i].turn <= wire'[j].turn
      <4>1. \A j \in 1 .. Len(wire') : 1 < j + 1
        BY <1>2
      <4> QED  BY <1>2, <1>3, <2>1, <2>2, <4>1 DEF LinesOK, Begin
    <3>4. \A i \in 1 .. Len(queue') : queue'[i].kind = "completed" => queue'[i].turn \notin running'
      BY <1>1, <1>3, <2>1, <2>2 DEF LinesOK
    <3>5. \A i \in 1 .. Len(wire') : wire'[i].kind = "completed" => wire'[i].turn \notin running'
      BY <1>1, <1>2 DEF LinesOK
    <3> QED  BY <3>1, <3>2, <3>3, <3>4, <3>5 DEF LinesOK, Begin
  <2>4. Bounded'
    BY <1>1, <1>2, <1>3, <2>1, <2>2 DEF BoundsOK, Bounded
  <2>5. \A t \in 0 .. begun : (From(t) => From(t)') /\ (Behind(t) => Behind(t)')
    BY <1>2, <1>3, <2>1, <2>2 DEF From, Behind, Begin
  <2> QED  BY <2>3, <2>4, <2>5 DEF Transfers
<1> QED  BY <1>1, <1>4, <1>5

LEMMA NoLines ==
  ASSUME BoundsOK, LinesOK, wire' = <<>>, running' = {}, begun' = begun, queue' \in {queue, <<>>}
  PROVE  Transfers
<1>1. \A i : i \in 1 .. Len(queue') => i \in 1 .. Len(queue) /\ queue'[i] = queue[i]
  <2>1. CASE queue' = <<>>
    BY <2>1, EmptySeq
  <2> QED  BY <2>1
<1>2. \A i : i \notin 1 .. Len(wire')
  BY EmptySeq
<1>3. LinesOK'
  BY <1>1, <1>2 DEF LinesOK, Begin
<1>4. Bounded'
  BY <1>1, <1>2 DEF BoundsOK, Bounded
<1>5. \A t \in 0 .. begun : (From(t) => From(t)') /\ (Behind(t) => Behind(t)')
  BY <1>1, <1>2 DEF From, Behind, Begin
<1> QED  BY <1>3, <1>4, <1>5 DEF Transfers

-----------------------------------------------------------------------------
(* Steps that change no turn                                               *)

LEMMA Bounds ==
  ASSUME BoundsOK, Transfers, begun' \in {begun, begun + 1},
         running' \subseteq running \cup {begun'}, controls' \subseteq controls \cup {begun'}, cut' \in BOOLEAN,
         job'.turn \in 0 .. begun', job'.prior \in 0 .. begun',
         disk'.turn \in 0 .. begun', disk'.prior \in 0 .. begun',
         op'.at \in {"record", "check", "native", "control", "launch"} => op'.names \in 0 .. begun'
  PROVE  BoundsOK'
BY DEF BoundsOK, Transfers

LEMMA SameBounds ==
  ASSUME BoundsOK, SameTurns
  PROVE  /\ job'.turn \in 0 .. begun /\ job'.prior \in 0 .. begun
         /\ disk'.turn \in 0 .. begun /\ disk'.prior \in 0 .. begun
BY DEF BoundsOK, SameTurns, Alike

LEMMA KeepsKept ==
  ASSUME BoundsOK, KeptOK, Transfers, begun' = begun, controls' = controls, running' \subseteq running,
         resuming' = resuming, SameTurns, KnowsOK'
  PROVE  KeptOK'
<1>1. TurnsOK(job)' /\ TurnsOK(disk)'
  BY DEF KeptOK, TurnsOK, SameTurns, Alike
<1>2. RunsOK'
  BY DEF KeptOK, RunsOK, SameTurns, Alike
<1>3. StartsOK'
  BY DEF KeptOK, StartsOK, SameTurns, Alike
<1>4. BehindOK'
  BY DEF KeptOK, BehindOK, SameTurns, Alike, Transfers, BoundsOK
<1> QED  BY <1>1, <1>2, <1>3, <1>4 DEF KeptOK

(* A call that goes on elsewhere, with nothing to know                     *)
Forgets ==
  \/ op.at \in {"free", "steer", "complete", "catch", "cancel"}
  \/ op.at = "note" /\ ~Joins
  \/ op.at = "append" /\ op.joins
  \/ op.at \in {"record", "check"} /\ op.tool \notin Action
LEMMA NothingKnown == ASSUME Forgets' PROVE KnowsOK'
BY DEF Forgets, KnowsOK, Asking

LEMMA SameKnowledge ==
  ASSUME BoundsOK, KnowsOK, Transfers, SameTurns, op' = op, resuming' = resuming, begun' = begun,
         running' \subseteq running
  PROVE  KnowsOK'
<1>1. Asking' => Asking
  BY DEF Asking
<1>2. op.at \in {"record", "check", "native", "control"} /\ Agreed => Agreed'
  <2>1. op.at \in {"record", "check", "native", "control"} /\ Agreed => From(op.names)' /\ op.names \in 0 .. begun
    BY DEF Agreed, BoundsOK, Transfers
  <2> QED  BY <2>1 DEF Agreed, SameTurns, Alike, From
<1>3. op.at = "launch" =>
        /\ op.names # 0 /\ begun = op.names /\ ~Terminal(job'.status)
        /\ job'.prior = op.names /\ job'.turn = 0 /\ disk'.prior = op.names /\ disk'.turn = 0
  BY DEF KnowsOK, SameTurns, Alike
<1>4. op.at = "prepare" \/ (op.at = "append" /\ ~op.joins) => Terminal(job'.status)
  BY DEF KnowsOK, SameTurns, Alike
<1>5. op.at = "note" /\ Joins =>
        /\ job'.prior = 0 /\ job'.turn = 0 /\ disk'.prior = 0 /\ disk'.turn = 0
        /\ ~Terminal(job'.status) /\ Resumed'
  BY DEF KnowsOK, SameTurns, Alike, Resumed
<1>6. op.at = "settle" /\ job'.prior # 0 /\ job'.turn # 0 => job'.turn \notin running'
  BY DEF KnowsOK, SameTurns, Alike
<1>7. Asking => op.at \in {"record", "check", "native", "control"}
  BY DEF Asking
<1>8. Asking' => Agreed'
  BY <1>1, <1>2, <1>7 DEF KnowsOK
<1>9. op.at \in {"native", "control"} => Agreed'
  BY <1>2 DEF KnowsOK
<1> QED  BY <1>3, <1>4, <1>5, <1>6, <1>8, <1>9 DEF KnowsOK, Joins

LEMMA Unmoved ==
  ASSUME ControlInv, Transfers, begun' = begun, controls' = controls, running' \subseteq running,
         UNCHANGED <<resuming, cut>>, SameTurns,
         op'.at \in {"record", "check", "native", "control", "launch"} => op'.names \in 0 .. begun,
         cut \/ KnowsOK'
  PROVE  ControlInv'
<1>1. BoundsOK'
  BY Bounds, SameBounds DEF ControlInv, BoundsOK
<1>2. cut \/ KeptOK'
  BY KeepsKept DEF ControlInv
<1> QED  BY <1>1, <1>2 DEF ControlInv, Transfers

(* As most steps end: with the lock, or on their way there                 *)
LEMMA Leaves ==
  ASSUME ControlInv, UNCHANGED <<queue, wire, running, begun, controls, resuming, cut>>, SameTurns, Forgets',
         op'.at \notin {"record", "check"}
  PROVE  ControlInv'
<1>1. Transfers
  BY SameLines DEF ControlInv
<1>2. op'.at \notin {"record", "check", "native", "control", "launch"}
  BY DEF Forgets
<1> QED  BY <1>1, <1>2, NothingKnown, Unmoved

LEMMA SameSave ==
  ASSUME NEW new, NEW next, NEW failed, Save(new, next, failed), Alike(new, job)
  PROVE  SameTurns /\ op' \in {next, failed}
BY DEF Save, SameTurns, Alike

LEMMA Waits ==
  ASSUME UNCHANGED <<job, disk>>
  PROVE  SameTurns
BY DEF SameTurns, Alike

LEMMA WithSame ==
  ASSUME RecordOK(job), NEW r
  PROVE  Alike(With(r), job)
BY DEF RecordOK, With, Alike

LEMMA ThrownForgets ==
  ASSUME DirectInv, op.at \notin {"free", "record"}, op' \in {Thrown, Done, Free}
  PROVE  Forgets' /\ op'.at \notin {"record", "check"}
<1>1. CASE op' = Free
  BY <1>1 DEF Free, Forgets
<1>2. CASE op' = Thrown
  BY <1>2, ThrownOK DEF Forgets
<1>3. CASE op' = Done
  BY <1>3, DoneOK DEF Forgets
<1> QED  BY <1>1, <1>2, <1>3

-----------------------------------------------------------------------------

LEMMA CallsKeepControl == ASSUME DirectInv, ControlInv, Calls PROVE ControlInv'
<1>1. WaitOK /\ CallOK
  BY DEF DirectInv, DirectTypes
<1>2. UNCHANGED <<job, disk, op, resuming, wire, running, begun, controls, cut>>
      /\ \E c \in CallItems : c.kind = "call" /\ c.begun = begun /\ queue' = Append(queue, c)
  <2>1. ASSUME NEW tool, NEW id, <<tool, id>> \in Callers, Asks(tool, id)
        PROVE  \E c \in CallItems : c.kind = "call" /\ c.begun = begun /\ queue' = Append(queue, c)
    <3> DEFINE c == [kind |-> "call", tool |-> tool, id |-> id, begun |-> begun]
    <3>1. <<tool, id>>[1] = tool /\ <<tool, id>>[2] = id
      OBVIOUS
    <3>2. c \in CallItems
      BY <1>1, <2>1, <3>1 DEF CallItems, WaitOK
    <3>3. queue' = Append(queue, c) /\ c.kind = "call" /\ c.begun = begun
      BY <2>1 DEF Asks
    <3> QED  BY <3>2, <3>3
  <2>2. \E tool, id : <<tool, id>> \in Callers /\ Asks(tool, id)
    <3>1. \A k \in RequestKeys : <<k[1], k[2]>> \in Callers
      BY KeyFacts DEF Callers
    <3> QED  BY <3>1 DEF Calls, Callers
  <2> QED  BY <2>1, <2>2 DEF Asks, record, codex, ghosts
<1>3. Transfers /\ SameTurns
  BY <1>1, <1>2, AsksQueue, Waits DEF ControlInv
<1>4. cut \/ KnowsOK'
  BY <1>2, <1>3, SameKnowledge DEF ControlInv, KeptOK
<1> QED  BY <1>2, <1>3, <1>4, Unmoved DEF ControlInv, BoundsOK

LEMMA ReadsKeepControl == ASSUME DirectInv, ControlInv, Reads PROVE ControlInv'
<1>1. WaitOK
  BY DEF DirectInv, DirectTypes
<1>2. UNCHANGED <<job, disk, op, resuming, running, begun, controls, cut>>
  BY DEF Reads, record, ghosts
<1>3. Transfers /\ SameTurns
  BY <1>1, <1>2, ReadsLine, Waits DEF ControlInv
<1>4. cut \/ KnowsOK'
  BY <1>2, <1>3, SameKnowledge DEF ControlInv, KeptOK
<1> QED  BY <1>2, <1>3, <1>4, Unmoved DEF ControlInv, BoundsOK

LEMMA TurnEndsKeepControl == ASSUME DirectInv, ControlInv, NEW t \in running, TurnEnds(t) PROVE ControlInv'
<1>1. WaitOK
  BY DEF DirectInv, DirectTypes
<1>2. UNCHANGED <<job, disk, op, resuming, queue, begun, controls, cut>> /\ Ends(t) /\ running' \subseteq running
  BY DEF TurnEnds, record, ghosts, Ends
<1>3. Transfers /\ SameTurns
  BY <1>1, <1>2, EndsLine, Waits DEF ControlInv
<1>4. cut \/ KnowsOK'
  BY <1>2, <1>3, SameKnowledge DEF ControlInv, KeptOK
<1> QED  BY <1>2, <1>3, <1>4, Unmoved DEF ControlInv, BoundsOK

LEMMA ReceiptKeepsControl ==
  ASSUME DirectInv, ControlInv, RecordPending \/ Complete \/ CatchUnknown
  PROVE  ControlInv'
<1>1. CallOK /\ RecordOK(job)
  BY DEF DirectInv, DirectTypes
<1>2. UNCHANGED <<queue, wire, running, begun, controls, resuming, cut>>
  BY DEF RecordPending, Complete, CatchUnknown, codex, ghosts
<1>3. SameTurns
  BY <1>1, WithSame, SameSave DEF RecordPending, Complete, CatchUnknown
<1>4. CASE Complete \/ CatchUnknown
  <2>1. op' \in {Free, Goes("catch")} /\ op.at \in {"complete", "catch"}
    BY <1>4 DEF Complete, CatchUnknown, Save, At
  <2>2. op'.at \in {"free", "catch"}
    BY <1>1, <2>1, GoesOn DEF Goes, Free
  <2> QED  BY <1>2, <1>3, <2>2, Leaves DEF Forgets
<1>5. CASE RecordPending
  <2>1. op' \in {Free, Goes("check")} /\ op.at = "record"
    BY <1>5 DEF RecordPending, Save, At
  <2>2. CASE op' = Free
    BY <1>2, <1>3, <2>2, Leaves DEF Forgets, Free
  <2>3. CASE op' = Goes("check")
    <3>1. op'.at = "check" /\ op'.tool = op.tool /\ op'.seen = op.seen /\ op'.names = op.names
      BY <1>1, <2>1, <2>3 DEF Goes, CallOK
    <3>2. Transfers
      BY <1>2, SameLines DEF ControlInv
    <3>3. cut \/ KnowsOK'
      <4>1. Asking' => Asking
        BY <2>1, <3>1 DEF Asking
      <4>2. ASSUME KeptOK, Asking PROVE Agreed'
        <5>1. PICK t \in 0 .. begun : t = op.names /\ From(t)
          BY <2>1, <4>2 DEF KeptOK, KnowsOK, Agreed, ControlInv, BoundsOK
        <5>2. From(t)'
          BY <3>2, <5>1 DEF Transfers
        <5> QED  BY <1>3, <3>1, <4>2, <5>1, <5>2 DEF KeptOK, KnowsOK, Agreed, SameTurns, Alike, From
      <4> QED  BY <3>1, <4>1, <4>2 DEF KnowsOK, ControlInv
    <3>4. op'.names \in 0 .. begun
      BY <2>1, <3>1 DEF ControlInv, BoundsOK
    <3> QED  BY <1>2, <1>3, <3>2, <3>3, <3>4, Unmoved
  <2> QED  BY <2>1, <2>2, <2>3
<1> QED  BY <1>4, <1>5

LEMMA AgreedStays ==
  ASSUME BoundsOK, Agreed, Transfers, SameTurns, op'.names = op.names, op.names \in 0 .. begun
  PROVE  Agreed'
<1>1. PICK t \in 0 .. begun : t = op.names /\ From(t)
  BY DEF Agreed, BoundsOK
<1>2. From(t)'
  BY <1>1 DEF Transfers
<1> QED  BY <1>1, <1>2 DEF Agreed, SameTurns, Alike, From

LEMMA CheckKeepsControl == ASSUME DirectInv, ControlInv, Check PROVE ControlInv'
<1>1. CallOK /\ op.at = "check"
  BY DEF DirectInv, DirectTypes, Check, At
<1>2. UNCHANGED <<job, disk, queue, wire, running, begun, controls, resuming, cut>>
  BY DEF Check, record, codex, ghosts
<1>3. Transfers /\ SameTurns
  BY <1>2, SameLines, Waits DEF ControlInv
<1>4. op.names \in 0 .. begun
  BY <1>1 DEF ControlInv, BoundsOK
<1>5. CASE op'.at = "catch"
  BY <1>2, <1>3, <1>5, Leaves DEF Forgets
<1>6. CASE op'.at = "cancel"
  BY <1>2, <1>3, <1>6, Leaves DEF Forgets
<1>7. CASE op'.at = "append" /\ op'.joins = InTurn(job.status) /\ (InTurn(job.status) \/ Terminal(job.status))
  <2>1. KnowsOK'
    BY <1>2, <1>7 DEF KnowsOK, Asking
  <2> QED  BY <1>2, <1>3, <1>7, <2>1, Unmoved
<1>8. CASE op'.at = "native" /\ op'.names = op.names /\ op.tool \in Action /\ ~TurnChanged
  <2>1. Asking
    BY <1>1, <1>8 DEF TurnChanged, Asking, Action
  <2>2. KeptOK => Agreed'
    BY <1>3, <1>4, <1>8, <2>1, AgreedStays DEF KeptOK, KnowsOK, ControlInv
  <2>3. cut \/ KnowsOK'
    BY <1>8, <2>2 DEF KnowsOK, Asking, ControlInv
  <2> QED  BY <1>2, <1>3, <1>4, <1>8, <2>3, Unmoved
<1>9. op.tool \in {"send", "steer", "cancel"} \cup Action
  BY <1>1, KeyFacts DEF CallOK, Action
<1>10. CASE TurnChanged
  <2>1. op' = Goes("catch")
    BY <1>10 DEF Check
  <2> QED  BY <1>1, <1>5, <2>1, GoesOn DEF Goes
<1>11. CASE ~TurnChanged /\ op.tool \in {"send", "steer"}
  <2>1. op' = SendLocked(op)
    BY <1>11 DEF Check
  <2>2. CASE InTurn(job.status) \/ Terminal(job.status)
    BY <1>7, <2>1, <2>2 DEF SendLocked
  <2>3. CASE ~(InTurn(job.status) \/ Terminal(job.status))
    <3>1. op' = [op EXCEPT !.at = "catch"]
      BY <1>11, <2>1, <2>3 DEF SendLocked
    <3> QED  BY <1>1, <1>5, <3>1, GoesOn
  <2> QED  BY <2>2, <2>3
<1>12. CASE ~TurnChanged /\ op.tool \notin {"send", "steer"}
  <2>1. op' = [at |-> IF op.tool = "cancel" THEN "cancel" ELSE "native",
               tool |-> op.tool, id |-> op.id, names |-> op.names]
    BY <1>12 DEF Check
  <2>2. op'.at = (IF op.tool = "cancel" THEN "cancel" ELSE "native") /\ op'.names = op.names
    BY <2>1
  <2> QED  BY <1>6, <1>8, <1>9, <1>12, <2>2
<1> QED  BY <1>10, <1>11, <1>12

LEMMA AppendKeepsControl == ASSUME DirectInv, ControlInv, AppendUserMessage PROVE ControlInv'
<1>1. CallOK /\ op.at = "append" /\ DirectTypes /\ Joins
  BY DEF DirectInv, DirectTypes, AppendUserMessage, At, CallOK
<1>2. UNCHANGED <<queue, wire, running, begun, controls, resuming, cut>>
  BY DEF AppendUserMessage, codex, ghosts
<1> DEFINE steer == [at |-> "steer", tool |-> op.tool, id |-> op.id, names |-> op.names, into |-> job.turn]
           next == IF op.joins THEN steer ELSE Goes("prepare")
<1>3. \/ UNCHANGED record /\ op' \in {Done, Thrown}
      \/ Save(job, next, Thrown)
  BY DEF AppendUserMessage, record
<1>4. SameTurns /\ op' \in {Done, Thrown, next}
  <2>1. CASE UNCHANGED record /\ op' \in {Done, Thrown}
    BY <2>1, Waits DEF record
  <2>2. CASE Save(job, next, Thrown)
    <3>1. Alike(job, job)
      BY DEF Alike
    <3> HIDE DEF next
    <3> QED  BY <2>2, <3>1, SameSave
  <2> QED  BY <1>3, <2>1, <2>2
<1>5. CASE op' \in {Done, Thrown}
  BY <1>1, <1>2, <1>4, <1>5, ThrownForgets, Leaves
<1>6. CASE op.joins /\ op' = steer
  <2>1. op'.at = "steer"
    BY <1>6
  <2> QED  BY <1>2, <1>4, <2>1, Leaves DEF Forgets
<1>7. CASE ~op.joins /\ op' = Goes("prepare")
  <2>1. op'.at = "prepare"
    BY <1>1, <1>7, GoesOn DEF Goes
  <2>2. KeptOK => Terminal(job.status)
    BY <1>1, <1>7 DEF KeptOK, KnowsOK
  <2>3. cut \/ KnowsOK'
    BY <1>4, <2>1, <2>2 DEF KnowsOK, Asking, ControlInv, SameTurns, Alike
  <2>4. Transfers
    BY <1>2, SameLines DEF ControlInv
  <2> QED  BY <1>2, <1>4, <2>1, <2>3, <2>4, Unmoved
<1> QED  BY <1>4, <1>5, <1>6, <1>7

LEMMA SteerKeepsControl == ASSUME DirectInv, ControlInv, Steer PROVE ControlInv'
<1>1. CallOK /\ op.at = "steer" /\ ~Joins
  BY DEF DirectInv, DirectTypes, Steer, At, CallOK
<1>2. UNCHANGED <<job, disk, queue, wire, running, begun, controls, resuming, cut>>
      /\ op' \in {Goes("note"), Thrown}
  BY DEF Steer, record, ghosts
<1>3. CASE op' = Thrown
  BY <1>1, <1>2, <1>3, ThrownForgets, Waits, Leaves
<1>4. CASE op' = Goes("note")
  <2>1. op'.at = "note" /\ ~Joins'
    BY <1>1, <1>4, Moved DEF Goes
  <2> QED  BY <1>2, <2>1, Waits, Leaves DEF Forgets
<1> QED  BY <1>2, <1>3, <1>4

LEMMA CancelKeepsControl == ASSUME DirectInv, ControlInv, CancelLocked PROVE ControlInv'
<1>1. CallOK /\ op.at = "cancel" /\ WaitOK
  BY DEF DirectInv, DirectTypes, CancelLocked, At
<1>2. UNCHANGED <<job, disk, queue, begun, controls, resuming, cut>> /\ op' \in {Done, Thrown, Goes("settle")}
  BY DEF CancelLocked, record, ghosts
<1>3. \/ UNCHANGED <<running, wire>> /\ (op' = Goes("settle") => job.turn \notin running)
      \/ job.turn \in running /\ Ends(job.turn)
  BY <1>1, GoesOn, ThrownForgets DEF CancelLocked, Goes, Forgets
<1>4. Transfers /\ running' \subseteq running
  BY <1>1, <1>2, <1>3, SameLines, EndsLine DEF ControlInv, Ends
<1>5. SameTurns
  BY <1>2, Waits
<1>6. KnowsOK' /\ op'.at \notin {"record", "check", "native", "control", "launch"}
  <2>1. CASE op' \in {Done, Thrown}
    BY <1>1, <2>1, ThrownForgets, NothingKnown DEF Forgets
  <2>2. CASE op' = Goes("settle")
    <3>1. op'.at = "settle"
      BY <1>1, <2>2, GoesOn DEF Goes
    <3>2. job'.turn \notin running'
      BY <1>2, <1>3, <2>2 DEF Ends
    <3> QED  BY <3>1, <3>2 DEF KnowsOK, Asking
  <2> QED  BY <1>2, <2>1, <2>2
<1> QED  BY <1>2, <1>4, <1>5, <1>6, Unmoved

LEMMA NativeKeepsControl == ASSUME DirectInv, ControlInv, NativeCheck PROVE ControlInv'
<1>1. CallOK /\ op.at = "native"
  BY DEF DirectInv, DirectTypes, NativeCheck, At
<1>2. UNCHANGED <<job, disk, queue, wire, running, begun, controls, resuming, cut>>
      /\ op' \in {Goes("control"), Thrown}
  BY DEF NativeCheck, record, ghosts
<1>3. CASE op' = Thrown
  BY <1>1, <1>2, <1>3, ThrownForgets, Waits, Leaves
<1>4. CASE op' = Goes("control")
  <2>1. op'.at = "control" /\ op'.names = op.names /\ op.names \in 0 .. begun
    BY <1>1, <1>4 DEF Goes, CallOK, ControlInv, BoundsOK
  <2>2. Transfers /\ SameTurns
    BY <1>2, SameLines, Waits DEF ControlInv
  <2>3. cut \/ KnowsOK'
    <3>1. KeptOK => Agreed'
      BY <1>1, <2>1, <2>2, AgreedStays DEF KeptOK, KnowsOK, ControlInv
    <3> QED  BY <2>1, <3>1 DEF KnowsOK, Asking, ControlInv
  <2> QED  BY <1>2, <2>1, <2>2, <2>3, Unmoved
<1> QED  BY <1>2, <1>3, <1>4

LEMMA NoteKeepsControl == ASSUME DirectInv, ControlInv, Note PROVE ControlInv'
<1>1. CallOK /\ op.at = "note" /\ DirectTypes
  BY DEF DirectInv, DirectTypes, Note, At
<1>2. UNCHANGED <<queue, wire, running, begun, controls, cut>> /\ Save(job, Done, Thrown)
  BY DEF Note, codex, ghosts
<1>3. SameTurns /\ op' \in {Done, Thrown}
  BY <1>2, SameSave DEF Alike
<1>4. Forgets' /\ op'.at \notin {"record", "check"}
  BY <1>1, <1>3, ThrownForgets
<1>5. CASE resuming' = resuming
  BY <1>2, <1>3, <1>4, <1>5, Leaves
<1>6. CASE Joins /\ count' = count /\ resuming' = [resuming EXCEPT ![op.id] = "start"]
  <2>1. op.id \in Messages /\ \A m \in Messages : resuming'[m] = IF m = op.id THEN "start" ELSE resuming[m]
    BY <1>1, <1>6, SentTo DEF CallOK, DirectTypes
  <2>2. Transfers
    BY <1>2, SameLines DEF ControlInv
  <2>3. BoundsOK'
    <3>1. op'.at \notin {"record", "check", "native", "control", "launch"}
      BY <1>4 DEF Forgets
    <3> QED  BY <1>2, <1>3, <2>2, <3>1, Bounds, SameBounds DEF ControlInv, BoundsOK
  <2>4. ASSUME KeptOK PROVE KeptOK'
    <3>1. /\ job.prior = 0 /\ job.turn = 0 /\ disk.prior = 0 /\ disk.turn = 0
          /\ ~Terminal(job.status) /\ Resumed
      BY <1>1, <1>6, <2>4 DEF KeptOK, KnowsOK
    <3>2. TurnsOK(job)' /\ TurnsOK(disk)' /\ RunsOK'
      BY <1>2, <1>3, <2>4 DEF KeptOK, TurnsOK, RunsOK, SameTurns, Alike
    <3>3. StartsOK'
      BY <1>3, <2>1, <3>1 DEF StartsOK, Resumed, SameTurns, Alike
    <3>4. BehindOK'
      BY <1>3, <3>1 DEF BehindOK, SameTurns, Alike
    <3>5. KnowsOK'
      BY <1>4, NothingKnown
    <3> QED  BY <3>2, <3>3, <3>4, <3>5 DEF KeptOK
  <2> QED  BY <1>2, <2>2, <2>3, <2>4 DEF ControlInv, Transfers
<1> QED  BY <1>5, <1>6 DEF Note, Joins

-----------------------------------------------------------------------------
(* Steps that prepare, settle or begin a turn                              *)

LEMMA AtRest ==
  ASSUME KeptOK, Terminal(job.status)
  PROVE  Resumed /\ running \cap controls = {}
BY DEF KeptOK, StartsOK, RunsOK, Resumed

LEMMA PreparingIs ==
  ASSUME RecordOK(job), NEW p
  PROVE  Preparing(p).status = "preparing" /\ Preparing(p).turn = 0 /\ Preparing(p).prior = p
BY DEF RecordOK, Preparing

LEMMA InThatIs ==
  ASSUME RecordOK(job), NEW t
  PROVE  InThat(t).status = "running" /\ InThat(t).turn = t /\ InThat(t).prior = job.prior
BY DEF RecordOK, InThat

LEMMA StatusIs ==
  ASSUME NEW r, RecordOK(r), NEW s
  PROVE  LET q == [r EXCEPT !.status = s] IN q.status = s /\ q.turn = r.turn /\ q.prior = r.prior
BY DEF RecordOK

LEMMA PrepareTurnKeepsControl == ASSUME DirectInv, ControlInv, PrepareTurn PROVE ControlInv'
<1> DEFINE new == Preparing(0)
<1>1. CallOK /\ op.at = "prepare" /\ RecordOK(job) /\ Joins
  BY DEF DirectInv, DirectTypes, PrepareTurn, At, CallOK
<1>2. UNCHANGED <<queue, wire, running, begun, controls, resuming, cut>>
  BY DEF PrepareTurn, codex, ghosts
<1>3. new.status = "preparing" /\ new.turn = 0 /\ new.prior = 0
  BY <1>1, PreparingIs
<1>4. Save(new, Goes("note"), Thrown)
  BY DEF PrepareTurn
<1> HIDE DEF new
<1>5. \/ job' = new /\ disk' = new /\ op' = Goes("note")
      \/ job' \in {job, new} /\ disk' = disk /\ op' = Thrown
  BY <1>4 DEF Save
<1>6. /\ op' = Goes("note") => op'.at = "note" /\ Joins'
      /\ op' = Thrown => Forgets' /\ op'.at \notin {"record", "check"}
  BY <1>1, GoesOn, ThrownForgets DEF Goes, Joins
<1>7. Transfers
  BY <1>2, SameLines DEF ControlInv
<1>8. op'.at \notin {"record", "check", "native", "control", "launch"}
  BY <1>5, <1>6 DEF Forgets
<1>9. BoundsOK'
  <2>1. job'.turn \in 0 .. begun /\ job'.prior \in 0 .. begun /\ disk'.turn \in 0 .. begun /\ disk'.prior \in 0 .. begun
    BY <1>3, <1>5 DEF ControlInv, BoundsOK
  <2> QED  BY <1>2, <1>7, <1>8, <2>1, Bounds DEF ControlInv, BoundsOK
<1>10. ASSUME KeptOK PROVE KeptOK'
  <2>1. Terminal(job.status) /\ Resumed /\ running \cap controls = {}
    BY <1>1, <1>10, AtRest DEF KeptOK, KnowsOK
  <2>2. TurnsOK(job)' /\ TurnsOK(disk)'
    BY <1>2, <1>3, <1>5, <1>10 DEF KeptOK, TurnsOK
  <2>3. RunsOK' /\ StartsOK'
    BY <1>2, <2>1 DEF RunsOK, StartsOK, Resumed
  <2>4. BehindOK'
    <3>1. CASE job' = new
      BY <1>3, <3>1 DEF BehindOK
    <3>2. CASE job' = job
      BY <1>2, <1>10, <3>2 DEF KeptOK, BehindOK, Behind, From
    <3> QED  BY <1>5, <3>1, <3>2
  <2>5. KnowsOK'
    <3>1. CASE op' = Thrown
      BY <1>6, <3>1, NothingKnown
    <3>2. CASE job' = new /\ disk' = new /\ op' = Goes("note")
      BY <1>2, <1>3, <1>6, <2>1, <3>2 DEF KnowsOK, Asking, Resumed, Terminal
    <3> QED  BY <1>5, <3>1, <3>2
  <2> QED  BY <2>2, <2>3, <2>4, <2>5 DEF KeptOK
<1> QED  BY <1>2, <1>7, <1>9, <1>10 DEF ControlInv, Transfers

LEMMA PrepareControlKeepsControl == ASSUME DirectInv, ControlInv, PrepareControl PROVE ControlInv'
<1> DEFINE new == Preparing(op.names)
<1>1. CallOK /\ op.at = "control" /\ RecordOK(job) /\ op.names \in 0 .. begun
  BY DEF DirectInv, DirectTypes, PrepareControl, At, ControlInv, BoundsOK
<1>2. UNCHANGED <<queue, wire, running, begun, controls, resuming, cut>>
  BY DEF PrepareControl, codex, ghosts
<1>3. new.status = "preparing" /\ new.turn = 0 /\ new.prior = op.names
  BY <1>1, PreparingIs
<1>4. Save(new, Goes("launch"), Thrown)
  BY DEF PrepareControl
<1> HIDE DEF new
<1>5. \/ job' = new /\ disk' = new /\ op' = Goes("launch")
      \/ job' \in {job, new} /\ disk' = disk /\ op' = Thrown
  BY <1>4 DEF Save
<1>6. /\ op' = Goes("launch") => op'.at = "launch"
      /\ op' = Thrown => Forgets' /\ op'.at \notin {"record", "check"}
  BY <1>1, GoesOn, ThrownForgets DEF Goes
<1>12. op' = Goes("launch") => op'.names = op.names
  BY <1>1 DEF Goes, CallOK
<1>7. Transfers
  BY <1>2, SameLines DEF ControlInv
<1>8. op'.at \in {"record", "check", "native", "control", "launch"} => op'.names \in 0 .. begun
  BY <1>1, <1>5, <1>6, <1>12 DEF Forgets
<1>9. ASSUME KeptOK
      PROVE  Terminal(job.status) /\ job.turn = op.names /\ op.names # 0 /\ From(op.names) /\ op.names = begun
  BY <1>1, <1>9 DEF KeptOK, KnowsOK, Agreed, TurnsOK
<1>10. ASSUME KeptOK PROVE KeptOK' /\ BoundsOK'
  <2>1. Resumed /\ running \cap controls = {}
    BY <1>9, <1>10, AtRest
  <2>2. TurnsOK(job)' /\ TurnsOK(disk)'
    BY <1>2, <1>3, <1>5, <1>9, <1>10 DEF KeptOK, TurnsOK
  <2>3. RunsOK' /\ StartsOK'
    BY <1>2, <2>1 DEF RunsOK, StartsOK, Resumed
  <2>4. BehindOK'
    <3>1. CASE job' = new
      BY <1>2, <1>3, <1>9, <1>10, <3>1 DEF BehindOK, From
    <3>2. CASE job' = job
      BY <1>2, <1>10, <3>2 DEF KeptOK, BehindOK, Behind, From
    <3> QED  BY <1>5, <3>1, <3>2
  <2>5. KnowsOK'
    <3>1. CASE op' = Thrown
      BY <1>6, <3>1, NothingKnown
    <3>2. CASE job' = new /\ disk' = new /\ op' = Goes("launch")
      BY <1>2, <1>3, <1>6, <1>9, <1>10, <1>12, <3>2 DEF KnowsOK, Asking, Terminal
    <3> QED  BY <1>5, <3>1, <3>2
  <2>6. job'.turn \in 0 .. begun /\ job'.prior \in 0 .. begun /\ disk'.turn \in 0 .. begun /\ disk'.prior \in 0 .. begun
    BY <1>3, <1>5, <1>9, <1>10 DEF ControlInv, BoundsOK
  <2>7. BoundsOK'
    BY <1>2, <1>7, <1>8, <2>6, Bounds DEF ControlInv, BoundsOK
  <2> QED  BY <2>2, <2>3, <2>4, <2>5, <2>7 DEF KeptOK
<1>11. ASSUME cut PROVE BoundsOK'
  <2>1. job'.turn \in 0 .. begun /\ job'.prior \in 0 .. begun /\ disk'.turn \in 0 .. begun /\ disk'.prior \in 0 .. begun
    BY <1>1, <1>3, <1>5 DEF ControlInv, BoundsOK
  <2> QED  BY <1>2, <1>7, <1>8, <2>1, Bounds DEF ControlInv, BoundsOK
<1> QED  BY <1>2, <1>7, <1>10, <1>11 DEF ControlInv, Transfers

(* The job is settled                                                      *)
LEMMA SettlesKeepControl ==
  ASSUME ControlInv, Transfers, begun' = begun, controls' = controls, running' \subseteq running,
         resuming' = resuming, CutsOff,
         NEW new, new.turn = job.turn, new.prior = job.prior, job' \in {job, new}, disk' \in {disk, new},
         op'.at \in {"record", "check", "native", "control", "launch"} => op'.names \in 0 .. begun,
         KeptOK /\ job.prior # 0 /\ job.turn # 0 => job.turn \notin running',
         KeptOK /\ job.turn # 0 => KnowsOK'
  PROVE  ControlInv'
<1>1. BoundsOK'
  <2>1. cut' \in BOOLEAN
    BY DEF CutsOff
  <2>2. /\ job'.turn \in 0 .. begun /\ job'.prior \in 0 .. begun
        /\ disk'.turn \in 0 .. begun /\ disk'.prior \in 0 .. begun
    BY DEF ControlInv, BoundsOK
  <2> QED  BY <2>1, <2>2, Bounds DEF ControlInv
<1>2. ASSUME ~cut' PROVE KeptOK'
  <2>1. KeptOK /\ job.turn # 0 /\ Resumed
    BY <1>2 DEF CutsOff, ControlInv, Resumed
  <2>2. TurnsOK(job)' /\ TurnsOK(disk)'
    BY <2>1 DEF KeptOK, TurnsOK
  <2>3. RunsOK'
    <3>1. CASE running \cap controls = {}
      BY <3>1 DEF RunsOK
    <3>2. CASE job.prior # 0 /\ running \cap controls \subseteq {job.prior + 1}
      BY <2>1, <3>2 DEF KeptOK, TurnsOK, RunsOK
    <3> QED  BY <2>1, <3>1, <3>2 DEF KeptOK, RunsOK
  <2>4. StartsOK'
    BY <2>1 DEF StartsOK, Resumed
  <2>5. BehindOK'
    <3>1. PICK t \in 0 .. begun : t = job.turn /\ Behind(t)
      BY <2>1 DEF KeptOK, BehindOK, ControlInv, BoundsOK
    <3>2. Behind(t)' /\ job'.turn = t
      BY <3>1 DEF Transfers
    <3> QED  BY <2>1, <3>1, <3>2 DEF BehindOK, Behind
  <2> QED  BY <2>1, <2>2, <2>3, <2>4, <2>5 DEF KeptOK
<1> QED  BY <1>1, <1>2 DEF ControlInv, Transfers

LEMMA CancelSettlesKeepsControl == ASSUME DirectInv, ControlInv, CancelSettles PROVE ControlInv'
<1> DEFINE new == [job EXCEPT !.status = "cancelled"]
<1>1. CallOK /\ RecordOK(job) /\ op.at = "settle"
  BY DEF DirectInv, DirectTypes, CancelSettles, At
<1>2. UNCHANGED <<queue, wire, running, begun, controls, resuming>> /\ CutsOff
  BY DEF CancelSettles, codex
<1>3. new.turn = job.turn /\ new.prior = job.prior
  BY <1>1, StatusIs
<1>4. Save(new, Done, Thrown)
  BY DEF CancelSettles
<1> HIDE DEF new
<1>5. job' \in {job, new} /\ disk' \in {disk, new} /\ op' \in {Done, Thrown}
  BY <1>4 DEF Save
<1>6. Forgets' /\ op'.at \notin {"record", "check"}
  BY <1>1, <1>5, ThrownForgets
<1>7. KnowsOK' /\ op'.at \notin {"record", "check", "native", "control", "launch"}
  BY <1>6, NothingKnown DEF Forgets
<1>8. KeptOK /\ job.prior # 0 /\ job.turn # 0 => job.turn \notin running'
  BY <1>1, <1>2 DEF KeptOK, KnowsOK
<1>9. Transfers
  BY <1>2, SameLines DEF ControlInv
<1> QED  BY <1>2, <1>3, <1>5, <1>7, <1>8, <1>9, SettlesKeepControl

(* The begin of a turn is the last line there is                           *)
LEMMA FreshBehind ==
  ASSUME WaitOK, BoundsOK, Begins, wire = <<>>, queue' = queue
  PROVE  Behind(begun)'
<1> DEFINE line == [kind |-> "started", turn |-> begun + 1]
<1>1. wire' = Append(wire, line) /\ begun' = begun + 1 /\ begun \in Nat
  BY DEF Begins, BoundsOK
<1>2. line \in Lines
  BY <1>1 DEF Lines
<1>3. /\ Len(wire') = 1 /\ wire'[1] = line
  BY <1>1, <1>2, AppendAt, EmptySeq DEF WaitOK
<1>4. \A i \in 1 .. Len(queue) : queue[i].kind = "call" => queue[i].begun \in Nat /\ queue[i].begun <= begun
  BY Awaited DEF BoundsOK, Bounded
<1>5. Len(queue) \in Nat
  BY LenProperties DEF WaitOK
<1>6. \A i \in 1 .. Len(wire') : wire'[i].turn >= begun'
  BY <1>1, <1>3
<1>7. \A i \in 1 .. Len(queue) : queue[i].kind = "call" => ~(queue[i].begun >= begun')
  BY <1>1, <1>4
<1> QED  BY <1>6, <1>7 DEF Behind

(* Codex takes the control action, and its turn is the next                *)
LEMMA LaunchKeepsControl == ASSUME DirectInv, ControlInv, Launch PROVE ControlInv'
<1>1. CallOK /\ WaitOK /\ RecordOK(job) /\ op.at = "launch" /\ ~Joins
  BY DEF DirectInv, DirectTypes, Launch, At, CallOK
<1>2. UNCHANGED <<queue, resuming, cut>>
  BY DEF Launch
<1>3. CASE op' = Thrown /\ UNCHANGED <<record, codex, controls>>
  BY <1>1, <1>2, <1>3, ThrownForgets, Waits, Leaves DEF record, codex
<1>4. CASE LaunchDelivered
  <2> DEFINE new == InThat(begun + 1)
  <2>1. Begins /\ controls' = controls \cup {begun + 1} /\ begun' = begun + 1 /\ running' = running \cup {begun + 1}
    BY <1>4 DEF LaunchDelivered, Begins
  <2>2. new.status = "running" /\ new.turn = begun + 1 /\ new.prior = job.prior
    BY <1>1, InThatIs
  <2>3. \/ UNCHANGED <<job, disk>> /\ op' \in {Goes("note"), Thrown}
        \/ Save(new, Goes("note"), Thrown) /\ wire = <<>>
    BY <1>4 DEF LaunchDelivered, record, Answered
  <2> HIDE DEF new
  <2>4. /\ op' \in {Goes("note"), Thrown}
        /\ \/ job' = job /\ disk' = disk
           \/ job' = new /\ disk' \in {disk, new} /\ wire = <<>>
    BY <2>3 DEF Save
  <2>5. Forgets' /\ op'.at \notin {"record", "check"}
    <3>1. CASE op' = Thrown
      BY <1>1, <3>1, ThrownForgets
    <3>2. CASE op' = Goes("note")
      <4>1. op'.at = "note" /\ ~Joins'
        BY <1>1, <3>2, Moved DEF Goes
      <4> QED  BY <4>1 DEF Forgets
    <3> QED  BY <2>4, <3>1, <3>2
  <2>6. Transfers
    BY <1>1, <1>2, <2>1, BeginsLine DEF ControlInv
  <2>7. BoundsOK'
    <3>1. op'.at \notin {"record", "check", "native", "control", "launch"}
      BY <2>5 DEF Forgets
    <3>2. /\ job'.turn \in 0 .. begun' /\ job'.prior \in 0 .. begun'
          /\ disk'.turn \in 0 .. begun' /\ disk'.prior \in 0 .. begun'
      BY <2>1, <2>2, <2>4 DEF ControlInv, BoundsOK
    <3> QED  BY <1>2, <2>1, <2>6, <3>1, <3>2, Bounds DEF ControlInv, BoundsOK
  <2>8. ASSUME KeptOK PROVE KeptOK'
    <3>1. /\ begun \in Nat /\ begun # 0 /\ ~Terminal(job.status) /\ job.prior = begun /\ job.turn = 0
          /\ disk.prior = begun /\ disk.turn = 0 /\ disk.status # "completed"
      BY <1>1, <2>8 DEF KeptOK, KnowsOK, TurnsOK, ControlInv, BoundsOK
    <3>2. TurnsOK(job)' /\ TurnsOK(disk)'
      <4>1. job'.prior = begun /\ disk'.prior = begun /\ job'.turn \in {0, begun + 1} /\ disk'.turn \in {0, begun + 1}
            /\ job'.status # "completed" /\ disk'.status # "completed"
        BY <2>2, <2>4, <3>1 DEF Terminal
      <4> QED  BY <2>1, <3>1, <4>1 DEF TurnsOK
    <3>3. RunsOK'
      <4>1. running \cap controls = {}
        BY <2>8, <3>1 DEF KeptOK, RunsOK, ControlInv, BoundsOK
      <4>2. ~Terminal(job'.status) /\ job'.prior = begun
        BY <2>2, <2>4, <3>1 DEF Terminal
      <4> QED  BY <2>1, <3>1, <4>1, <4>2 DEF RunsOK, ControlInv, BoundsOK
    <3>4. StartsOK'
      BY <1>2, <2>8, <3>1 DEF KeptOK, StartsOK
    <3>5. BehindOK'
      <4>1. CASE job' = job
        <5>1. PICK t \in 0 .. begun : t = job.prior /\ From(t)
          BY <2>8, <3>1 DEF KeptOK, BehindOK
        <5>2. From(t)'
          BY <5>1, <2>6 DEF Transfers
        <5> QED  BY <3>1, <4>1, <5>1, <5>2 DEF BehindOK, From
      <4>2. CASE job' = new /\ wire = <<>>
        <5>1. Behind(begun)' /\ job'.turn = begun'
          BY <1>1, <1>2, <2>1, <2>2, <4>2, FreshBehind DEF ControlInv
        <5> QED  BY <2>1, <3>1, <5>1 DEF BehindOK, Behind
      <4> QED  BY <2>4, <4>1, <4>2
    <3>6. KnowsOK'
      BY <2>5, NothingKnown
    <3> QED  BY <3>2, <3>3, <3>4, <3>5, <3>6 DEF KeptOK
  <2> QED  BY <1>2, <2>6, <2>7, <2>8 DEF ControlInv, Transfers
<1> QED  BY <1>3, <1>4 DEF Launch

-----------------------------------------------------------------------------
(* The flow that resumes the thread for a message                          *)

(* While a turn is being started, no call holds what it could spoil        *)
LEMMA StartKnows ==
  ASSUME KeptOK, NEW m \in Messages, resuming[m] # "none", op' = op, job'.prior = 0
  PROVE  KnowsOK'
<1>1. job.prior = 0 /\ ~Terminal(job.status) /\ ~Resumed
  BY DEF KeptOK, StartsOK, Resumed
<1>2. ~Asking /\ op.at \notin {"native", "control", "launch", "prepare"} /\ ~(op.at = "append" /\ ~op.joins)
      /\ ~(op.at = "note" /\ Joins)
  BY <1>1 DEF KeptOK, KnowsOK, Agreed
<1>3. ~Asking'
  BY <1>2 DEF Asking
<1> QED  BY <1>2, <1>3 DEF KnowsOK, Joins

LEMMA StartTurnKeepsControl ==
  ASSUME DirectInv, ControlInv, NEW m \in Messages, StartTurn(m)
  PROVE  ControlInv'
<1> DEFINE new == InThat(begun + 1)
<1>1. WaitOK /\ RecordOK(job) /\ resuming \in [Messages -> {"none", "start", "failed"}] /\ resuming[m] = "start"
  BY DEF DirectInv, DirectTypes, StartTurn, Resumes
<1>2. UNCHANGED <<op, queue, cut, controls>>
  BY DEF StartTurn, ghosts
<1>3. new.status = "running" /\ new.turn = begun + 1 /\ new.prior = job.prior
  BY <1>1, InThatIs
<1>4. \/ wire = <<>> /\ Begins /\ job' = new /\ disk' \in {disk, new}
      \/ Begins /\ UNCHANGED <<job, disk>>
      \/ UNCHANGED <<job, disk, wire, running, begun>>
  BY DEF StartTurn, Answered, record, codex
<1>5. \A other \in Messages : resuming'[other] = IF other = m THEN resuming'[m] ELSE resuming[other]
  BY <1>1 DEF StartTurn, Moves
<1>6. resuming'[m] \in {"none", "failed"}
  BY <1>1 DEF StartTurn, Moves
<1> HIDE DEF new
<1>7. \/ begun' = begun /\ running' = running
      \/ begun' = begun + 1 /\ running' = running \cup {begun + 1}
  BY <1>4 DEF Begins
<1>8. Transfers
  BY <1>1, <1>2, <1>4, SameLines, BeginsLine DEF ControlInv
<1>9. BoundsOK'
  <2>1. /\ job'.turn \in 0 .. begun' /\ job'.prior \in 0 .. begun'
        /\ disk'.turn \in 0 .. begun' /\ disk'.prior \in 0 .. begun'
    BY <1>3, <1>4, <1>7 DEF ControlInv, BoundsOK, Begins
  <2>2. op'.at \in {"record", "check", "native", "control", "launch"} => op'.names \in 0 .. begun'
    BY <1>2, <1>7 DEF ControlInv, BoundsOK
  <2> QED  BY <1>2, <1>7, <1>8, <2>1, <2>2, Bounds DEF ControlInv, BoundsOK
<1>10. ASSUME KeptOK PROVE KeptOK'
  <2>1. /\ job.prior = 0 /\ disk.prior = 0 /\ ~Terminal(job.status) /\ job.turn = 0 /\ disk.turn = 0
        /\ \A other \in Messages : resuming[other] # "none" => other = m
    BY <1>1, <1>10 DEF KeptOK, StartsOK
  <2>2. job'.prior = 0 /\ disk'.prior = 0 /\ ~Terminal(job'.status)
    BY <1>3, <1>4, <2>1 DEF Terminal
  <2>3. TurnsOK(job)' /\ TurnsOK(disk)'
    <3>1. job'.turn \in {0, begun'} /\ disk'.turn \in {0, begun'}
      BY <1>3, <1>4, <1>7, <2>1 DEF Begins
    <3> QED  BY <2>2, <3>1 DEF TurnsOK
  <2>4. RunsOK'
    <3>1. running \cap controls = {}
      BY <1>10, <2>1 DEF KeptOK, RunsOK
    <3>2. begun + 1 \notin controls
      BY DEF ControlInv, BoundsOK
    <3> QED  BY <1>2, <1>7, <3>1, <3>2 DEF RunsOK
  <2>5. StartsOK'
    BY <1>5, <1>6, <2>1, <2>2 DEF StartsOK
  <2>6. BehindOK'
    <3>1. CASE wire = <<>> /\ Begins /\ job' = new
      <4>1. Behind(begun)' /\ job'.turn = begun'
        BY <1>1, <1>2, <1>3, <3>1, FreshBehind DEF ControlInv, Begins
      <4> QED  BY <2>2, <4>1 DEF BehindOK, Behind
    <3>2. CASE job' = job
      BY <2>1, <3>2 DEF BehindOK
    <3> QED  BY <1>4, <3>1, <3>2
  <2>7. KnowsOK'
    BY <1>1, <1>2, <1>10, <2>2, StartKnows
  <2> QED  BY <2>3, <2>4, <2>5, <2>6, <2>7 DEF KeptOK
<1> QED  BY <1>2, <1>8, <1>9, <1>10 DEF ControlInv, Transfers

LEMMA GivesUpKeepsControl ==
  ASSUME DirectInv, ControlInv, NEW m \in Messages, GivesUp(m)
  PROVE  ControlInv'
<1> DEFINE new == [job EXCEPT !.status = "failed"]
<1>1. RecordOK(job) /\ resuming \in [Messages -> {"none", "start", "failed"}] /\ resuming[m] = "failed"
  BY DEF DirectInv, DirectTypes, GivesUp, Resumes
<1>2. UNCHANGED <<op, queue, wire, running, begun, cut, controls>>
  BY DEF GivesUp, codex
<1>3. new.turn = job.turn /\ new.prior = job.prior
  BY <1>1, StatusIs
<1>4. job' \in {job, new} /\ disk' \in {disk, new}
  BY DEF GivesUp
<1>5. \A other \in Messages : resuming'[other] = IF other = m THEN "none" ELSE resuming[other]
  BY <1>1 DEF GivesUp, Moves
<1> HIDE DEF new
<1>6. Transfers
  BY <1>2, SameLines DEF ControlInv
<1>7. BoundsOK'
  <2>1. /\ job'.turn \in 0 .. begun /\ job'.prior \in 0 .. begun
        /\ disk'.turn \in 0 .. begun /\ disk'.prior \in 0 .. begun
    BY <1>3, <1>4 DEF ControlInv, BoundsOK
  <2> QED  BY <1>2, <1>6, <2>1, Bounds DEF ControlInv, BoundsOK
<1>8. ASSUME KeptOK PROVE KeptOK'
  <2>1. job.prior = 0 /\ disk.prior = 0 /\ ~Terminal(job.status)
        /\ \A other \in Messages : resuming[other] # "none" => other = m
    BY <1>1, <1>8 DEF KeptOK, StartsOK
  <2>2. job'.prior = 0 /\ disk'.prior = 0 /\ job'.turn = job.turn
    BY <1>3, <1>4, <2>1
  <2>3. TurnsOK(job)' /\ TurnsOK(disk)'
    BY <1>2, <1>3, <1>4, <1>8, <2>2 DEF KeptOK, TurnsOK
  <2>4. RunsOK'
    BY <1>2, <1>8, <2>1 DEF KeptOK, RunsOK
  <2>5. StartsOK'
    BY <1>5, <2>1 DEF StartsOK
  <2>6. BehindOK'
    BY <1>2, <1>8, <2>2 DEF KeptOK, BehindOK, Behind
  <2>7. KnowsOK'
    BY <1>1, <1>2, <1>8, <2>2, StartKnows
  <2> QED  BY <2>3, <2>4, <2>5, <2>6, <2>7 DEF KeptOK
<1> QED  BY <1>2, <1>6, <1>7, <1>8 DEF ControlInv, Transfers

-----------------------------------------------------------------------------
(* Notifications, the exit of the App Server, and restarts                 *)

LEMMA HandleKeepsControl == ASSUME DirectInv, ControlInv, Handle PROVE ControlInv'
<1> DEFINE n == Head(queue)
           bound == InThat(n.turn)
           ended == [job EXCEPT !.status = "completed"]
<1>1. WaitOK /\ RecordOK(job) /\ op = Free
  BY DEF DirectInv, DirectTypes, Handle, At, CallOK
<1>2. UNCHANGED <<resuming, wire, running, begun, controls>> /\ queue # <<>> /\ queue' = Tail(queue) /\ n.kind # "call"
  BY DEF Handle, codex
<1>3. Transfers
  BY <1>1, <1>2, TailQueue DEF ControlInv
<1>4. Len(queue) \in Nat /\ Len(queue) >= 1 /\ n = queue[1] /\ n.turn \in Nat /\ n.turn <= begun
      /\ Len(queue') = Len(queue) - 1
      /\ \A i \in 1 .. Len(queue) - 1 : queue'[i] = queue[i + 1] /\ i + 1 \in 1 .. Len(queue)
  BY <1>1, <1>2, TailAt, Awaited DEF WaitOK, ControlInv, BoundsOK, Bounded
<1>5. bound.status = "running" /\ bound.turn = n.turn /\ bound.prior = job.prior
  BY <1>1, InThatIs
<1>6. ended.turn = job.turn /\ ended.prior = job.prior
  BY <1>1, StatusIs
<1>7. \/ UNCHANGED <<job, disk, op, cut>>
      \/ ~IsIgnored(n) /\ Binds(n) /\ Save(bound, Free, Free) /\ cut' = cut
      \/ ~IsIgnored(n) /\ n.kind = "completed" /\ Save(ended, Free, Free) /\ CutsOff
  BY DEF Handle, record
<1> HIDE DEF n, bound, ended
<1>8. op' = Free
  BY <1>1, <1>7 DEF Save
<1>9. KnowsOK' /\ op'.at = "free"
  BY <1>8, NothingKnown DEF Forgets, Free
<1>10. CASE UNCHANGED <<job, disk, op, cut>>
  BY <1>2, <1>3, <1>9, <1>10, Waits, Unmoved
<1>11. CASE ~IsIgnored(n) /\ Binds(n) /\ Save(bound, Free, Free) /\ cut' = cut
  <2>1. job' \in {job, bound} /\ disk' \in {disk, bound} /\ (job' = job => disk' \in {disk, job})
    BY <1>11 DEF Save
  <2>2. BoundsOK'
    <3>1. /\ job'.turn \in 0 .. begun /\ job'.prior \in 0 .. begun
          /\ disk'.turn \in 0 .. begun /\ disk'.prior \in 0 .. begun
      BY <1>4, <1>5, <2>1 DEF ControlInv, BoundsOK
    <3> QED  BY <1>2, <1>3, <1>9, <1>11, <3>1, Bounds DEF ControlInv, BoundsOK
  <2>3. ASSUME KeptOK PROVE KeptOK'
    <3>1. job.prior # 0 /\ job.turn = 0 /\ n.kind = "started" /\ n.turn # job.prior /\ ~Terminal(job.status)
      BY <1>11 DEF IsIgnored, Binds
    <3>2. n.turn >= job.prior
      BY <1>4, <2>3, <3>1 DEF KeptOK, BehindOK, From, Begin
    <3>3. n.turn = begun /\ begun = job.prior + 1 /\ begun \in controls
      BY <1>4, <2>3, <3>1, <3>2 DEF KeptOK, TurnsOK, ControlInv, BoundsOK
    <3>4. TurnsOK(job)' /\ TurnsOK(disk)'
      BY <1>2, <1>5, <2>1, <2>3, <3>1, <3>3 DEF KeptOK, TurnsOK
    <3>5. RunsOK'
      BY <1>2, <1>5, <2>1, <2>3, <3>1 DEF KeptOK, RunsOK, Terminal
    <3>6. StartsOK'
      BY <1>2, <2>3, <3>1 DEF KeptOK, StartsOK
    <3>7. BehindOK'
      <4>1. CASE job' = job
        <5>1. PICK t \in 0 .. begun : t = job.prior /\ From(t)
          BY <2>3, <3>1 DEF KeptOK, BehindOK, ControlInv, BoundsOK
        <5>2. From(t)'
          BY <1>3, <5>1 DEF Transfers
        <5> QED  BY <3>1, <4>1, <5>1, <5>2 DEF BehindOK, From
      <4>2. CASE job' = bound
        <5>1. \A i \in 1 .. Len(wire) : Begin(wire[i]) => wire[i].turn >= n.turn
          BY <1>4, <3>1 DEF ControlInv, LinesOK, Begin
        <5>2. \A i \in 1 .. Len(queue) : i > 1 /\ Begin(queue[i]) => queue[i].turn >= n.turn
          BY <1>4, <3>1 DEF ControlInv, LinesOK, Begin
        <5>3. \A j \in 1 .. Len(queue') : Begin(queue'[j]) => queue'[j].turn >= n.turn
          <6>1. \A j \in 1 .. Len(queue') : j + 1 > 1 /\ j + 1 \in 1 .. Len(queue) /\ queue'[j] = queue[j + 1]
            BY <1>4
          <6> QED  BY <5>2, <6>1 DEF Begin
        <5>4. Behind(job.turn)'
          BY <1>2, <1>5, <4>2, <5>1, <5>3 DEF Behind, Begin
        <5>5. job'.turn # 0
          BY <1>4, <1>5, <3>3, <4>2 DEF ControlInv, BoundsOK
        <5> QED  BY <5>4, <5>5 DEF BehindOK
      <4> QED  BY <2>1, <4>1, <4>2
    <3> QED  BY <1>9, <3>4, <3>5, <3>6, <3>7 DEF KeptOK
  <2> QED  BY <1>3, <1>11, <2>2, <2>3 DEF ControlInv, Transfers
<1>12. CASE ~IsIgnored(n) /\ n.kind = "completed" /\ Save(ended, Free, Free) /\ CutsOff
  <2>1. job' \in {job, ended} /\ disk' \in {disk, ended}
    BY <1>12 DEF Save
  <2>2. KeptOK /\ job.prior # 0 /\ job.turn # 0 => job.turn \notin running'
    <3>1. job.prior # 0 => n.turn = job.turn
      BY <1>12 DEF IsIgnored
    <3>2. n.turn \notin running
      BY <1>4, <1>12 DEF ControlInv, LinesOK
    <3> QED  BY <1>2, <3>1, <3>2
  <2> QED  BY <1>2, <1>3, <1>6, <1>9, <1>12, <2>1, <2>2, SettlesKeepControl
<1> QED  BY <1>7, <1>10, <1>11, <1>12

LEMMA ExitKeepsControl == ASSUME DirectInv, ControlInv, Exit PROVE ControlInv'
<1>1. RecordOK(job)
  BY DEF DirectInv, DirectTypes
<1>2. UNCHANGED <<op, resuming, queue, begun, controls>> /\ wire' = <<>> /\ running' = {}
  BY DEF Exit
<1>3. Transfers /\ running' \subseteq running
  BY <1>2, NoLines DEF ControlInv
<1>4. op'.at \in {"record", "check", "native", "control", "launch"} => op'.names \in 0 .. begun
  BY <1>2 DEF ControlInv, BoundsOK
<1>5. CASE job' = job
  <2>1. disk' = disk /\ cut' = cut
    BY <1>5 DEF Exit
  <2>2. SameTurns
    BY <1>5, <2>1, Waits
  <2>3. cut \/ KnowsOK'
    BY <1>2, <1>3, <2>2, SameKnowledge DEF ControlInv, KeptOK
  <2> QED  BY <1>2, <1>3, <1>4, <2>1, <2>2, <2>3, Unmoved
<1>6. CASE job' # job
  <2> DEFINE new == [job EXCEPT !.status = "interrupted"]
  <2>1. job' = new /\ disk' = new /\ CutsOff /\ ~Terminal(job.status)
    BY <1>6 DEF Exit, Interrupted
  <2>2. new.turn = job.turn /\ new.prior = job.prior
    BY <1>1, StatusIs
  <2> HIDE DEF new
  <2>3. ASSUME KeptOK, job.turn # 0 PROVE KnowsOK'
    <3>1. ~Asking /\ op.at \notin {"native", "control", "launch", "prepare"} /\ ~(op.at = "append" /\ ~op.joins)
          /\ ~(op.at = "note" /\ Joins)
      BY <2>1, <2>3 DEF KeptOK, KnowsOK, Agreed
    <3>2. ~Asking'
      BY <1>2, <3>1 DEF Asking
    <3> QED  BY <1>2, <3>1, <3>2 DEF KnowsOK, Joins
  <2> QED  BY <1>2, <1>3, <1>4, <2>1, <2>2, <2>3, SettlesKeepControl
<1> QED  BY <1>5, <1>6

LEMMA RestartKeepsControl == ASSUME DirectInv, ControlInv, Restart PROVE ControlInv'
<1>1. RecordOK(disk)
  BY DEF DirectInv, DirectTypes
<1>2. UNCHANGED <<begun, controls, cut>> /\ wire' = <<>> /\ queue' = <<>> /\ running' = {} /\ op'.at = "free"
      /\ \A m \in Messages : resuming'[m] = "none"
  BY DEF Restart, Free
<1>3. Transfers
  BY <1>2, NoLines DEF ControlInv
<1>4. /\ job'.turn = disk.turn /\ job'.prior = disk.prior /\ disk' = job'
      /\ job'.status = "completed" => disk.status = "completed"
  <2>1. CASE job' = disk /\ disk' = job'
    BY <2>1
  <2>2. CASE job' = [disk EXCEPT !.status = "interrupted"] /\ disk' = job'
    BY <1>1, <2>2, StatusIs
  <2> QED  BY <2>1, <2>2 DEF Restart, Interrupted
<1>5. BoundsOK'
  BY <1>2, <1>3, <1>4, Bounds DEF ControlInv, BoundsOK
<1>6. ASSUME KeptOK PROVE KeptOK'
  <2>1. TurnsOK(job)' /\ TurnsOK(disk)'
    BY <1>2, <1>4, <1>6 DEF KeptOK, TurnsOK
  <2>2. RunsOK' /\ StartsOK'
    BY <1>2 DEF RunsOK, StartsOK
  <2>3. BehindOK'
    BY <1>2, EmptySeq DEF BehindOK, Behind, From
  <2>4. KnowsOK'
    BY <1>2, NothingKnown DEF Forgets
  <2> QED  BY <2>1, <2>2, <2>3, <2>4 DEF KeptOK
<1> QED  BY <1>2, <1>3, <1>5, <1>6 DEF ControlInv, Transfers

(* A call gets the lock                                                    *)
LEMMA TakesLockKeepsControl == ASSUME DirectInv, ControlInv, TakesLock PROVE ControlInv'
<1> DEFINE call == Head(queue)
<1>1. WaitOK /\ op = Free /\ op.at = "free"
  BY DEF DirectInv, DirectTypes, TakesLock, At, CallOK
<1>2. UNCHANGED <<resuming, wire, running, begun, controls, cut>> /\ queue # <<>> /\ queue' = Tail(queue)
      /\ call.kind = "call"
  BY DEF TakesLock, codex, ghosts
<1>3. Transfers
  BY <1>1, <1>2, TailQueue DEF ControlInv
<1>4. Len(queue) \in Nat /\ Len(queue) >= 1 /\ call = queue[1] /\ call.begun \in Nat /\ call.begun <= begun
      /\ Len(queue') = Len(queue) - 1
      /\ \A i \in 1 .. Len(queue) - 1 : queue'[i] = queue[i + 1] /\ i + 1 \in 1 .. Len(queue)
  BY <1>1, <1>2, TailAt, Awaited DEF WaitOK, ControlInv, BoundsOK, Bounded
<1>5. \/ AppSend(call)
      \/ AppCancel
      \/ DirectCall(call)
  BY DEF TakesLock
<1> HIDE DEF call
<1>6. CASE AppSend(call)
  <2>1. SameTurns
    BY <1>6, Waits DEF AppSend, record
  <2>2. KnowsOK' /\ op'.at \in {"free", "append"}
    <3> DEFINE asks == [tool |-> "appSend", id |-> call.id, names |-> 0]
    <3>1. op' = SendLocked(asks) /\ job' = job
      BY <1>6 DEF AppSend, record
    <3>2. CASE InTurn(job.status) \/ Terminal(job.status)
      <4>1. op'.at = "append" /\ op'.joins = InTurn(job.status)
        BY <3>1, <3>2 DEF SendLocked
      <4> QED  BY <3>1, <3>2, <4>1 DEF KnowsOK, Asking
    <3>3. CASE ~(InTurn(job.status) \/ Terminal(job.status))
      <4>1. op' = Free
        BY <3>1, <3>3 DEF SendLocked
      <4>2. op'.at = "free"
        BY <4>1 DEF Free
      <4> QED  BY <4>2, NothingKnown DEF Forgets
    <3> QED  BY <3>2, <3>3
  <2> QED  BY <1>2, <1>3, <2>1, <2>2, Unmoved
<1>7. CASE AppCancel
  <2>1. op'.at = "cancel" /\ SameTurns
    BY <1>7 DEF AppCancel, SameTurns, Alike
  <2>2. KnowsOK'
    BY <2>1, NothingKnown DEF Forgets
  <2> QED  BY <1>2, <1>3, <2>1, <2>2, Unmoved
<1>8. CASE DirectCall(call)
  <2>1. SameTurns /\ job' = job
    BY <1>8, Waits DEF DirectCall, record
  <2>2. CASE op' = Free
    <3>1. op'.at = "free"
      BY <2>2 DEF Free
    <3>2. KnowsOK'
      BY <3>1, NothingKnown DEF Forgets
    <3> QED  BY <1>2, <1>3, <2>1, <3>1, <3>2, Unmoved
  <2>3. ASSUME NEW t \in 0 .. call.begun,
               op' = [at |-> "record", tool |-> call.tool, id |-> call.id, names |-> t,
                      seen |-> [status |-> job.status, turn |-> job.turn]]
        PROVE  ControlInv'
    <3>1. op'.at = "record" /\ op'.names = t /\ op'.seen.status = job.status /\ op'.seen.turn = job.turn
      BY <2>3
    <3>2. t \in 0 .. begun
      BY <1>4, <2>3 DEF ControlInv, BoundsOK
    <3>3. ASSUME KeptOK, Asking' PROVE Agreed'
      <4>1. Terminal(job.status) /\ t = job.turn /\ t # 0
        BY <3>1, <3>3 DEF Asking
      <4>2. Behind(t)
        BY <3>3, <4>1 DEF KeptOK, BehindOK
      <4>3. \A j \in 1 .. Len(queue) : j > 1 /\ Begin(queue[j]) => queue[j].turn >= t
        BY <1>2, <1>4, <4>2 DEF Behind
      <4>4. \A j \in 1 .. Len(queue') : Begin(queue'[j]) => queue'[j].turn >= t
        <5>1. \A j \in 1 .. Len(queue') : j + 1 > 1 /\ j + 1 \in 1 .. Len(queue) /\ queue'[j] = queue[j + 1]
          BY <1>4
        <5> QED  BY <4>3, <5>1 DEF Begin
      <4>5. \A j \in 1 .. Len(wire') : Begin(wire'[j]) => wire'[j].turn >= t
        BY <1>2, <4>2 DEF Behind
      <4> QED  BY <2>1, <3>1, <4>1, <4>4, <4>5 DEF Agreed, From, Begin
    <3>4. cut \/ KnowsOK'
      BY <3>1, <3>3 DEF KnowsOK, ControlInv
    <3> QED  BY <1>2, <1>3, <2>1, <3>1, <3>2, <3>4, Unmoved
  <2> QED  BY <1>8, <2>2, <2>3 DEF DirectCall
<1> QED  BY <1>5, <1>6, <1>7, <1>8

-----------------------------------------------------------------------------

LEMMA ControlInitHolds == DirectInit => ControlInv
<1> SUFFICES ASSUME DirectInit PROVE ControlInv
  OBVIOUS
<1>1. /\ job.status = "running" /\ job.turn = 1 /\ job.prior = 0 /\ disk = job /\ op.at = "free"
      /\ queue = <<>> /\ wire = <<>> /\ running = {1} /\ begun = 1 /\ controls = {} /\ cut = FALSE
      /\ \A m \in Messages : resuming[m] = "none"
  BY DEF DirectInit, Free
<1>2. BoundsOK /\ LinesOK
  <2>1. Len(queue) = 0 /\ Len(wire) = 0
    BY <1>1, EmptySeq
  <2>2. Bounded
    BY <2>1 DEF Bounded
  <2>3. LinesOK
    BY <2>1 DEF LinesOK, Begin
  <2>4. cut \in BOOLEAN
    BY <1>1
  <2>5. /\ begun \in Nat /\ begun >= 1 /\ running \subseteq 1 .. begun /\ controls \subseteq 1 .. begun
        /\ job.turn \in 0 .. begun /\ job.prior \in 0 .. begun
        /\ disk.turn \in 0 .. begun /\ disk.prior \in 0 .. begun
    BY <1>1
  <2>6. op.at \in {"record", "check", "native", "control", "launch"} => op.names \in 0 .. begun
    BY <1>1
  <2> QED  BY <2>2, <2>3, <2>4, <2>5, <2>6 DEF BoundsOK
<1>3. KeptOK
  <2>1. TurnsOK(job) /\ TurnsOK(disk) /\ RunsOK /\ StartsOK
    BY <1>1 DEF TurnsOK, RunsOK, StartsOK
  <2>2. BehindOK
    BY <1>1, EmptySeq DEF BehindOK, Behind
  <2>3. KnowsOK
    BY <1>1 DEF KnowsOK, Asking
  <2> QED  BY <2>1, <2>2, <2>3 DEF KeptOK
<1> QED  BY <1>2, <1>3 DEF ControlInv

LEMMA ControlStutterKeeps == ASSUME ControlInv, UNCHANGED directVars PROVE ControlInv'
<1>1. UNCHANGED <<job, disk, op, resuming, queue, wire, running, begun, controls, cut>>
  BY DEF directVars, record, codex, ghosts
<1>2. Transfers /\ SameTurns
  BY <1>1, SameLines, Waits DEF ControlInv
<1>3. cut \/ KnowsOK'
  BY <1>1, <1>2, SameKnowledge DEF ControlInv, KeptOK
<1>4. op'.at \in {"record", "check", "native", "control", "launch"} => op'.names \in 0 .. begun
  BY <1>1 DEF ControlInv, BoundsOK
<1> QED  BY <1>1, <1>2, <1>3, <1>4, Unmoved

LEMMA ControlStep == DirectInv /\ ControlInv /\ [DirectNext]_directVars => ControlInv'
<1> SUFFICES ASSUME DirectInv, ControlInv, [DirectNext]_directVars PROVE ControlInv'
  OBVIOUS
<1>1. CASE UNCHANGED directVars
  BY <1>1, ControlStutterKeeps
<1>2. CASE Calls \/ TakesLock \/ Reads \/ Handle
  BY <1>2, CallsKeepControl, TakesLockKeepsControl, ReadsKeepControl, HandleKeepsControl
<1>3. CASE Exit \/ Restart
  BY <1>3, ExitKeepsControl, RestartKeepsControl
<1>4. CASE Operation
  BY <1>4, ReceiptKeepsControl, CheckKeepsControl, AppendKeepsControl, SteerKeepsControl,
     PrepareTurnKeepsControl, NoteKeepsControl, CancelKeepsControl, CancelSettlesKeepsControl,
     NativeKeepsControl, PrepareControlKeepsControl, LaunchKeepsControl DEF Operation
<1>5. CASE \E m \in Messages : Background(m)
  BY <1>5, StartTurnKeepsControl, GivesUpKeepsControl DEF Background
<1>6. CASE \E t \in running : TurnEnds(t)
  BY <1>6, TurnEndsKeepControl
<1> QED  BY <1>1, <1>2, <1>3, <1>4, <1>5, <1>6 DEF DirectNext

(* Codex begins a turn for a control action or for a message, and then     *)
(* runs no control action                                                  *)
LEMMA BeginsAlone ==
  ASSUME DirectInv, ControlInv, [DirectNext]_directVars, begun' # begun
  PROVE  cut \/ running \cap controls = {}
<1>1. Launch \/ \E m \in Messages : StartTurn(m)
  <2>1. ~(UNCHANGED directVars)
    BY DEF directVars, codex
  <2>2. ~(Calls \/ TakesLock \/ Reads \/ Handle \/ Exit \/ Restart)
    BY DEF Calls, Asks, TakesLock, Reads, Handle, Exit, Restart, codex
  <2>3. Operation => Launch
    BY DEF Operation, RecordPending, Check, AppendUserMessage, Steer, PrepareTurn, Note, CancelLocked,
           CancelSettles, NativeCheck, PrepareControl, Complete, CatchUnknown, codex
  <2>4. \A m \in Messages : Background(m) => StartTurn(m)
    BY DEF Background, GivesUp, codex
  <2>5. ~(\E t \in running : TurnEnds(t))
    BY DEF TurnEnds
  <2> QED  BY <2>1, <2>2, <2>3, <2>4, <2>5 DEF DirectNext
<1>2. CASE Launch
  <2>1. KeptOK => job.prior # 0 /\ job.prior = begun
    BY <1>2 DEF Launch, At, KeptOK, KnowsOK
  <2>2. KeptOK => running \cap controls = {}
    BY <2>1 DEF KeptOK, RunsOK, ControlInv, BoundsOK
  <2> QED  BY <2>2 DEF ControlInv
<1>3. CASE \E m \in Messages : StartTurn(m)
  <2>1. PICK m \in Messages : resuming[m] = "start"
    BY <1>3 DEF StartTurn, Resumes
  <2>2. KeptOK => running \cap controls = {}
    BY <2>1 DEF KeptOK, StartsOK, RunsOK
  <2> QED  BY <2>2 DEF ControlInv
<1> QED  BY <1>1, <1>2, <1>3

(* A control action's job is completed by the end of its own turn          *)
LEMMA CompletedByItsOwn ==
  ASSUME DirectInv, ControlInv, ControlInv', [DirectNext]_directVars,
         job'.prior # 0, job'.status = "completed"
  PROVE  cut' \/ job'.turn \in controls \ running'
<1> SUFFICES ASSUME ~cut' PROVE job'.turn \in controls \ running'
  OBVIOUS
<1>1. TurnsOK(job)' /\ BoundsOK'
  BY DEF ControlInv, KeptOK
<1>2. job'.turn # 0 /\ job'.turn \notin running' /\ job'.turn = begun' /\ job'.turn = job'.prior + 1
  BY <1>1 DEF TurnsOK
<1>3. job'.turn \in controls'
  BY <1>1, <1>2 DEF TurnsOK, BoundsOK
<1>4. Launch \/ controls' = controls
  <2>1. Operation => Launch \/ controls' = controls
    BY DEF Operation, RecordPending, Check, AppendUserMessage, Steer, PrepareTurn, Note, CancelLocked,
           CancelSettles, NativeCheck, PrepareControl, Complete, CatchUnknown, ghosts
  <2>2. Calls \/ TakesLock \/ Reads \/ Handle \/ Exit \/ Restart => controls' = controls
    BY DEF Calls, Asks, TakesLock, Reads, Handle, Exit, Restart, ghosts
  <2>3. (\E m \in Messages : Background(m)) \/ (\E t \in running : TurnEnds(t)) => controls' = controls
    BY DEF Background, StartTurn, GivesUp, TurnEnds, ghosts
  <2>4. UNCHANGED directVars => controls' = controls
    BY DEF directVars, ghosts
  <2> QED  BY <2>1, <2>2, <2>3, <2>4 DEF DirectNext
<1>5. ~Launch
  <2> SUFFICES ASSUME Launch PROVE FALSE
    OBVIOUS
  <2>1. ~Terminal(job.status) /\ RecordOK(job)
    BY DEF Launch, At, DirectInv, DirectTypes, ControlInv, KeptOK, KnowsOK
  <2>2. job' \in {job, InThat(begun + 1)}
    BY DEF Launch, LaunchDelivered, Save, record
  <2> QED  BY <2>1, <2>2, InThatIs DEF Terminal
<1> QED  BY <1>2, <1>3, <1>4, <1>5

(* A compaction or review keeps its job until its own turn has ended       *)
(* (controller.ts:671, 1157): while it runs Codex is given no other turn,   *)
(* and no end but its own completes it.                                    *)
THEOREM ControlKeepsItsJobAlways == DirectSpec => ControlKeepsItsJob
<1>1. DirectInit => DirectInv /\ ControlInv
  BY InitHolds, ControlInitHolds
<1>2. DirectInv /\ ControlInv /\ [DirectNext]_directVars => (DirectInv /\ ControlInv)'
  BY DirectStep, ControlStep
<1>3. DirectInv /\ ControlInv /\ ControlInv' /\ [DirectNext]_directVars
      => [/\ begun' # begun => cut \/ running \cap controls = {}
          /\ job'.prior # 0 /\ job'.status = "completed" => cut' \/ job'.turn \in controls \ running']_directVars
  <2> SUFFICES ASSUME DirectInv, ControlInv, ControlInv', [DirectNext]_directVars
               PROVE  /\ begun' # begun => cut \/ running \cap controls = {}
                      /\ job'.prior # 0 /\ job'.status = "completed" =>
                           cut' \/ job'.turn \in controls \ running'
    OBVIOUS
  <2>1. begun' # begun => cut \/ running \cap controls = {}
    BY BeginsAlone
  <2>2. job'.prior # 0 /\ job'.status = "completed" => cut' \/ job'.turn \in controls \ running'
    BY CompletedByItsOwn
  <2> QED  BY <2>1, <2>2
<1> QED  BY <1>1, <1>2, <1>3, PTL DEF DirectSpec, ControlKeepsItsJob

=============================================================================
