----------------------------- MODULE MobileSync -----------------------------
(***************************************************************************)
(* How daily records captured on the phone reach the ledger of the desktop *)
(* (personal-asset-os: mobile/src, the outbox and its synchronisation, and *)
(* services/mobile_sync.py with the routes in front of it).                *)
(*                                                                         *)
(* The phone keeps a row for every record and posts the rows in the order  *)
(* of their local sequence, one synchronisation at a time.  A request may  *)
(* be given up by the phone while the desktop still works on it; either    *)
(* side may stop at any point.  Pairing replaces the token of the device,  *)
(* and runs beside the synchronisation and beside the screens that look    *)
(* at the connection.                                                      *)
(*                                                                         *)
(* Records are their local sequence numbers: their content does not change *)
(* after they were captured, so a retry always matches what it retries,    *)
(* and the refusals for other content (409, 422) have no use here.  The    *)
(* desktop's accounts are only created, never closed: they are counted.    *)
(***************************************************************************)
EXTENDS Naturals, Sequences, SequencesExt, FiniteSets

CONSTANTS
  MaxRecord,   \* records captured (bounds the model)
  MaxToken,    \* pairings (bounds the model)
  MaxManual,   \* synchronisations the user asks for (bounds the model)
  MaxStop,     \* restarts of either side (bounds the model)
  MaxAccount,  \* accounts that may be the activity fund (bounds the model)
  MaxLost      \* answers the phone does not get in time (bounds the model)

ASSUME MobileSyncAssumption ==
  /\ MaxRecord \in Nat /\ MaxToken \in Nat /\ MaxManual \in Nat
  /\ MaxStop \in Nat /\ MaxAccount \in Nat /\ MaxLost \in Nat

VARIABLES
  row,    \* the status of each captured record on the phone
  token,  \* the token in the phone's secure store, 0 when there is none
  sync,   \* activeSync: the synchronisation under way
  look,   \* getConnectionState, likewise
  pairing,\* pairWithDesktop, likewise
  posts,  \* the requests to record an event that are under way
  valid,  \* the token the desktop accepts, 0 when it was revoked
  issued, \* how many tokens it has made
  ledger, \* how many transactions each record has
  account,\* how many accounts may be the activity fund
  unsaved,\* history: records that were synced when their transaction was lost
  manual, stops, lost \* how often each of the bounded things happened

phone == <<row, token>>
flows == <<sync, look, pairing>>
desktop == <<valid, issued, ledger, account, unsaved>>
counts == <<manual, stops, lost>>
vars == <<phone, flows, posts, desktop, counts>>

-----------------------------------------------------------------------------

Records == 1 .. MaxRecord
Tokens == 1 .. MaxToken
Statuses == {"none", "pending", "syncing", "synced", "failed"}
FundIsReady == account = 1

(* A flow of the phone: where it is, and the token it read *)
Idle == [at |-> "idle", token |-> 0]
SyncIdle == [at |-> "idle", token |-> 0, todo |-> <<>>]

(* A request to record an event; "gone" when nobody waits for it *)
Post(e, t) == [event |-> e, token |-> t, at |-> "sent", awaited |-> TRUE]
Current == Head(sync.todo)
Moves(p, at) == posts' = (posts \ {p}) \cup {[p EXCEPT !.at = at]}
Abandoned == {[p EXCEPT !.awaited = FALSE] : p \in posts}

-----------------------------------------------------------------------------
(* The phone                                                               *)

(* createOutboxEvent: one transaction takes the sequence and adds the row *)
Capture(e) ==
  /\ row[e] = "none" /\ \A d \in Records : d < e => row[d] # "none"
  /\ row' = [row EXCEPT ![e] = "pending"]
  /\ UNCHANGED <<token, flows, posts, desktop, counts>>

(* Mutant: a record waits for all those before it *)
CandidatesInOrder(statuses) == SetToSortSeq({e \in Records :
  row[e] \in statuses /\ \A d \in Records : d < e => row[d] = "synced"}, <)

(* listSyncCandidates: the timer leaves records that failed to the user *)
Candidates(statuses) == SetToSortSeq({e \in Records : row[e] \in statuses}, <)

Starts(statuses) ==
  /\ sync.at = "idle"
  /\ Candidates(statuses) # <<>>
  /\ sync' = [at |-> "listed", token |-> 0, todo |-> Candidates(statuses)]
  /\ UNCHANGED <<phone, look, pairing, posts, desktop>>
AutoSync == Starts({"pending", "syncing"}) /\ UNCHANGED counts
ManualSync ==
  /\ manual < MaxManual /\ manual' = manual + 1
  /\ Starts({"pending", "syncing", "failed"})
  /\ UNCHANGED <<stops, lost>>

ReadToken ==
  /\ sync.at = "listed"
  /\ sync' = IF token = 0 THEN SyncIdle ELSE [sync EXCEPT !.at = "probe", !.token = token]
  /\ UNCHANGED <<phone, look, pairing, posts, desktop, counts>>

(* The session route's answer: the token is refused, or the fund is told *)
SyncProbed ==
  /\ sync.at = "probe"
  /\ sync' = IF sync.token # valid THEN [sync EXCEPT !.at = "refused"]
             ELSE IF FundIsReady THEN [sync EXCEPT !.at = "ready"] ELSE SyncIdle
  /\ UNCHANGED <<phone, look, pairing, posts, desktop, counts>>

(* beginSyncAttempt, and the request *)
BeginAttempt ==
  /\ sync.at = "ready" /\ sync.todo # <<>>
  /\ row' = [row EXCEPT ![Current] = "syncing"]
  /\ posts' = posts \cup {Post(Current, sync.token)}
  /\ sync' = [sync EXCEPT !.at = "posted"]
  /\ UNCHANGED <<token, look, pairing, desktop, counts>>

(* The answer: markSyncSucceeded or markSyncFailed, and what follows *)
Outcome(status, next) ==
  /\ row' = [row EXCEPT ![Current] = status]
  /\ sync' = next
NextRecord == [sync EXCEPT !.at = "ready", !.todo = Tail(@)]

(* The session commits in the exit of a dependency, which the framework    *)
(* runs after it sent the answer: the answer may be there before           *)
IsAnswered(p) == p.at \in {"written", "recorded"}
Leaves(p) == posts' = (posts \ {p}) \cup
  IF p.at = "written" THEN {[p EXCEPT !.awaited = FALSE]} ELSE {}

Answered(p) ==
  /\ sync.at = "posted" /\ p.awaited
  /\ \/ IsAnswered(p) /\ Outcome("synced", NextRecord)
     \/ p.at = "failed" /\ Outcome("failed", NextRecord)
     \/ p.at = "unauthorized" /\ Outcome("failed", [sync EXCEPT !.at = "refused"])
  /\ Leaves(p)
  /\ UNCHANGED <<token, look, pairing, desktop, counts>>

(* A lost channel or 12 s: the desktop may still record the event *)
Loses == lost < MaxLost /\ lost' = lost + 1 /\ UNCHANGED <<manual, stops>>

TimesOut ==
  /\ sync.at = "posted"
  /\ IF \E p \in posts : p.awaited THEN Loses ELSE UNCHANGED counts
  /\ Outcome("failed", SyncIdle)
  /\ posts' = Abandoned
  /\ UNCHANGED <<token, look, pairing, desktop>>
(* An answer cut short has no body that could be read: the next record *)
CutShort(p) ==
  /\ sync.at = "posted" /\ p.awaited /\ IsAnswered(p)
  /\ Loses
  /\ Outcome("failed", NextRecord)
  /\ Leaves(p)
  /\ UNCHANGED <<token, look, pairing, desktop>>
ProbeTimesOut ==
  /\ sync.at = "probe"
  /\ Loses
  /\ sync' = SyncIdle
  /\ UNCHANGED <<phone, look, pairing, posts, desktop>>

AllDone ==
  /\ sync.at = "ready" /\ sync.todo = <<>>
  /\ sync' = SyncIdle
  /\ UNCHANGED <<phone, look, pairing, posts, desktop, counts>>

(* A refusal of the token that was read deletes the token that is stored *)
SyncForgetsToken ==
  /\ sync.at = "refused"
  /\ sync' = SyncIdle /\ token' = 0
  /\ UNCHANGED <<row, look, pairing, posts, desktop, counts>>

(* getConnectionState, from the screens *)
LookStarts ==
  /\ look.at = "idle" /\ token # 0
  /\ look' = [at |-> "probe", token |-> token]
  /\ UNCHANGED <<phone, sync, pairing, posts, desktop, counts>>
LookProbed ==
  /\ look.at = "probe"
  /\ look' = IF look.token # valid THEN [look EXCEPT !.at = "refused"] ELSE Idle
  /\ UNCHANGED <<phone, sync, pairing, posts, desktop, counts>>
LookForgetsToken ==
  /\ look.at = "refused"
  /\ look' = Idle /\ token' = 0
  /\ UNCHANGED <<row, sync, pairing, posts, desktop, counts>>
(* An unreachable desktop, 4 s *)
LookTimesOut ==
  /\ look.at = "probe"
  /\ look' = Idle
  /\ UNCHANGED <<phone, sync, pairing, posts, desktop, counts>>

(* pairWithDesktop, with a code that was just made *)
PairStarts ==
  /\ pairing.at = "idle" /\ issued < MaxToken
  /\ pairing' = [at |-> "asked", token |-> 0]
  /\ UNCHANGED <<phone, sync, look, posts, desktop, counts>>
PairStores ==
  /\ pairing.at = "paired"
  /\ token' = pairing.token
  /\ pairing' = Idle
  /\ UNCHANGED <<row, sync, look, posts, desktop, counts>>
PairFails ==
  /\ pairing.at \in {"asked", "paired"}
  /\ pairing' = Idle
  /\ UNCHANGED <<phone, sync, look, posts, desktop, counts>>

(* The app is stopped and started: the rows and the token are kept *)
PhoneRestarts ==
  /\ stops < MaxStop /\ stops' = stops + 1
  /\ sync' = SyncIdle /\ look' = Idle /\ pairing' = Idle
  /\ posts' = Abandoned
  /\ UNCHANGED <<phone, desktop, manual, lost>>

-----------------------------------------------------------------------------
(* The desktop                                                             *)

(* pair_device: a new token, the old one is no longer accepted *)
PairDevice ==
  /\ pairing.at = "asked" /\ issued < MaxToken
  /\ issued' = issued + 1 /\ valid' = issued + 1
  /\ pairing' = [at |-> "paired", token |-> issued + 1]
  /\ UNCHANGED <<phone, sync, look, posts, ledger, account, unsaved, counts>>
RevokeDevice ==
  /\ valid # 0
  /\ valid' = 0
  /\ UNCHANGED <<phone, flows, posts, issued, ledger, account, unsaved, counts>>
CreateAccount ==
  /\ account < MaxAccount
  /\ account' = account + 1
  /\ UNCHANGED <<phone, flows, posts, valid, issued, ledger, unsaved, counts>>

(* ingest_mobile_event: the device, then the event it may retry; the fund  *)
(* is required of a retry as well.  The event is looked up before the      *)
(* transaction that writes it begins.                                      *)
Reads(p) ==
  /\ p.at = "sent"
  /\ Moves(p, IF p.token # valid THEN "unauthorized"
              ELSE IF ledger[p.event] = 0 THEN "new"
              ELSE IF FundIsReady THEN "recorded" ELSE "failed")
  /\ UNCHANGED <<phone, flows, desktop, counts>>

(* Mutant: the event has no unique key *)
WritesAnyway(p) ==
  /\ p.at = "new"
  /\ \A q \in posts : q.at # "written"
  /\ Moves(p, IF FundIsReady THEN "written" ELSE "failed")
  /\ UNCHANGED <<phone, flows, desktop, counts>>

(* The first write takes the database's write lock, and meets the unique  *)
(* keys of an event that was recorded meanwhile (which no handler answers) *)
Writes(p) ==
  /\ p.at = "new"
  /\ \A q \in posts : q.at # "written"
  /\ Moves(p, IF ledger[p.event] > 0 \/ ~FundIsReady THEN "failed" ELSE "written")
  /\ UNCHANGED <<phone, flows, desktop, counts>>

(* The session's commit, after the answer or before it was read *)
Enters(p) == ledger' = [ledger EXCEPT ![p.event] = @ + 1]
Commits(p) ==
  /\ p.at = "written"
  /\ Enters(p)
  /\ Moves(p, "recorded")
  /\ UNCHANGED <<phone, flows, valid, issued, account, unsaved, counts>>

(* An answer nobody waits for *)
Dropped(p) ==
  /\ p.at \in {"recorded", "failed", "unauthorized"} /\ ~p.awaited
  /\ posts' = posts \ {p}
  /\ UNCHANGED <<phone, flows, desktop, counts>>

(* What was not committed is lost, and so are the requests *)
DesktopRestarts ==
  /\ stops < MaxStop /\ stops' = stops + 1
  /\ posts # {} /\ posts' = {}
  /\ unsaved' = unsaved \cup {p.event : p \in {q \in posts : q.at = "written" /\ row[q.event] = "synced"}}
  /\ UNCHANGED <<phone, flows, valid, issued, ledger, account, manual, lost>>

-----------------------------------------------------------------------------

Init ==
  /\ row = [e \in Records |-> "none"] /\ token = 0
  /\ sync = SyncIdle /\ look = Idle /\ pairing = Idle
  /\ posts = {}
  /\ valid = 0 /\ issued = 0 /\ ledger = [e \in Records |-> 0] /\ account = 0
  /\ unsaved = {}
  /\ manual = 0 /\ stops = 0 /\ lost = 0

(* Nothing is left to do, for behaviours in which other parts move *)
MobileIdle ==
  /\ row = [e \in Records |-> "synced"] /\ token = 0
  /\ sync = SyncIdle /\ look = Idle /\ pairing = Idle
  /\ posts = {}
  /\ valid = 0 /\ issued = MaxToken /\ ledger = [e \in Records |-> 1] /\ account = MaxAccount
  /\ unsaved = {}
  /\ manual = MaxManual /\ stops = MaxStop /\ lost = MaxLost

SyncSteps ==
  \/ ReadToken \/ SyncProbed \/ BeginAttempt \/ AllDone \/ SyncForgetsToken
  \/ \E p \in posts : Answered(p)
LookSteps == LookStarts \/ LookProbed \/ LookForgetsToken \/ LookTimesOut
PairSteps == PairStarts \/ PairDevice \/ PairStores \/ PairFails
DesktopSteps(p) ==
  Reads(p) \/ Writes(p) \/ Commits(p) \/ Dropped(p)

Next ==
  \/ \E e \in Records : Capture(e)
  \/ AutoSync \/ ManualSync \/ SyncSteps \/ TimesOut \/ ProbeTimesOut
  \/ \E p \in posts : CutShort(p)
  \/ LookSteps \/ PairSteps \/ RevokeDevice \/ CreateAccount
  \/ \E p \in posts : DesktopSteps(p)
  \/ PhoneRestarts \/ DesktopRestarts

(* The foreground timer starts a synchronisation, which goes on; a request *)
(* of the phone has a timeout, and one that reached the desktop is served. *)
Fairness ==
  /\ WF_vars(AutoSync)
  /\ WF_vars(SyncSteps)
  /\ WF_vars(TimesOut)
  /\ WF_vars(\E p \in posts : DesktopSteps(p))

Spec == Init /\ [][Next]_vars /\ Fairness

-----------------------------------------------------------------------------

(* Every variable stays in its range.                                      *)
TypeOK ==
  /\ row \in [Records -> Statuses] /\ token \in Tokens \cup {0}
  /\ sync.at \in {"idle", "listed", "probe", "refused", "ready", "posted"}
  /\ sync.token \in Tokens \cup {0} /\ sync.todo \in Seq(Records)
  /\ look.at \in {"idle", "probe", "refused"} /\ pairing.at \in {"idle", "asked", "paired"}
  /\ \A p \in posts :
       /\ p.event \in Records /\ p.token \in Tokens /\ p.awaited \in BOOLEAN
       /\ p.at \in {"sent", "new", "written", "recorded", "failed", "unauthorized"}
  /\ valid \in Tokens \cup {0} /\ issued \in 0 .. MaxToken
  /\ ledger \in [Records -> Nat] /\ account \in 0 .. MaxAccount /\ unsaved \subseteq Records

(* The phone and the ledger agree: no record is entered twice, however many *)
(* of its requests are under way at once, and one the phone shows as synced *)
(* is entered or about to be, in spite of lost answers, retries, restarts   *)
(* and requests the desktop finishes after the phone gave them up           *)
(* (mobile-connection.ts, runSyncOutbox; the session of api/routes.py).     *)
(* The answer leaves before the commit, so a stop of the desktop between    *)
(* the two leaves a synced record without a transaction: `unsaved` is those *)
(* records, and there are no others.                                        *)
IsRecorded(e) == ledger[e] > 0 \/ \E p \in posts : p.event = e /\ p.at = "written"
RecordedOnce ==
  \A e \in Records :
    ledger[e] <= 1 /\ (row[e] = "synced" => IsRecorded(e) \/ e \in unsaved)

(* docs/MobileSync.md: the events route "atomically captures the Financial *)
(* Event and finalizes it", and an outbox row is not marked synced without *)
(* its formal transaction.  It does not hold: see IsAnswered and Commits.  *)
SyncedHasTransaction == \A e \in Records : row[e] = "synced" => IsRecorded(e)

(* A record that waits is tried: the timer gets to it while the phone is   *)
(* paired and the desktop is ready, whatever became of those before it     *)
(* (AutoSyncAgent.tsx; runSyncOutbox stops at the first lost answer).      *)
PendingIsTried ==
  \A e \in Records :
    row[e] = "pending" ~> row[e] # "pending" \/ token # valid \/ token = 0 \/ ~FundIsReady

(* A token the desktop still accepts is not taken from the phone.          *)
PairingIsDurable == [][token # 0 /\ token = valid => token' # 0]_vars
=============================================================================
