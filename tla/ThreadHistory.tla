---------------------------- MODULE ThreadHistory ----------------------------
(***************************************************************************)
(* How the Bridge reads the history of a native thread that Codex goes on  *)
(* changing (codex_bridge/src: thread-history-reader.ts, controller.ts     *)
(* hydrateConversation and readLocalThreadFresh, and                       *)
(* unified-conversation-registry.ts get).                                  *)
(*                                                                         *)
(* A job of the thread is over.  Its conversation is asked for in two      *)
(* ways.  The registry reads the native history, unless its fingerprint is *)
(* that of the snapshot it keeps, and answers with what it has verified    *)
(* last when it cannot.  codex_job_get hydrates the job's stored           *)
(* projection under the job's lock and answers with that.  Every request   *)
(* to the App Server is a step, and between any two of them Codex may add  *)
(* to the thread or take turns back.                                       *)
(*                                                                         *)
(* A turn is its identity and a version, a thread the sequence of its      *)
(* turns, its status and the second it last changed in.  Nothing is said   *)
(* of titles, projects and automations, nor of threads that are deleted.   *)
(***************************************************************************)
EXTENDS Naturals, Sequences

CONSTANTS
  RegistryCalls, \* calls that ask the registry
  JobCalls,     \* calls that read the job
  Crowds,       \* which of them are made in one behaviour (bounds the model)
  MaxPages,     \* limits.maxPages
  MaxTurns,     \* limits.maxTurns
  PageSize,     \* limits.pageSize
  FirstTurns,   \* the turns of the thread at the start
  MaxClock,     \* seconds that pass (bounds the model)
  MaxChanges,   \* changes of the thread (bounds the model)
  MaxFailures,  \* requests that fail (bounds the model)
  MaxRestart,   \* restarts of the Bridge (bounds the model)
  None          \* no snapshot, no fingerprint, no answer

Readers == RegistryCalls \cup JobCalls

ASSUME HistoryAssumption ==
  /\ RegistryCalls \cap JobCalls = {} /\ None \notin Readers
  /\ Crowds \subseteq SUBSET Readers
  /\ PageSize \in Nat \ {0} /\ MaxTurns \in Nat \ {0} /\ MaxPages \in Nat \ {0}
  /\ FirstTurns \in 1 .. MaxTurns
  /\ MaxTurns <= PageSize * MaxPages
  /\ MaxClock \in Nat /\ MaxChanges \in Nat /\ MaxFailures \in Nat /\ MaxRestart \in Nat

VARIABLES
  mode,     \* historyMode of the thread: "legacy" or "paginated"
  past,     \* the turns of the thread at each moment; the last are those it has
  thread,   \* its status, the second it changed in, the one its turn began in
  clock,    \* the second it is
  cache,    \* nativeSnapshots: the snapshot of the thread and its fingerprint
  stored,   \* the job's projection: its turns, freshness.synchronized
  sync,     \* threadSyncStates: the fingerprint at the last hydration
  due,      \* 60 s have passed since (periodicFullReadDue)
  held,     \* hydrationRetryAfter lies ahead
  lock,     \* who has the job's lock
  calls,    \* what each reader is at
  reply,    \* what a reader was answered in the last step
  crowd, failures, restarts

codex == <<mode, past, thread, clock>>
bridge == <<cache, stored, sync, due, held, lock>>
bounds == <<crowd, failures, restarts>>
historyVars == <<codex, bridge, calls, reply, bounds>>

Silent == reply' = None

-----------------------------------------------------------------------------
(* What the App Server answers                                             *)

Now == Len(past)
Turns == past[Now]
(* thread/read without turns *)
Metadata == [at |-> thread.at, active |-> thread.active]
(* thread/turns/list, the newest first and one of them *)
NewestTurn == IF Turns = <<>> THEN None ELSE Turns[Len(Turns)]

(* freshnessFingerprint: of a legacy thread the head is never read *)
Fingerprint(metadata, head) ==
  [at |-> metadata.at, active |-> metadata.active, head |-> head]

-----------------------------------------------------------------------------
(* What Codex does with the thread                                         *)

Changes(turns, active, begun) ==
  /\ Now <= MaxChanges
  /\ past' = Append(past, turns)
  /\ thread' = [at |-> clock, active |-> active, begun |-> begun]
  /\ Silent /\ UNCHANGED <<mode, clock, bridge, calls, bounds>>

(* Identities are not used twice: a turn is told by the moment it began at *)
Starts ==
  /\ ~thread.active /\ Len(Turns) < MaxTurns /\ clock < MaxClock
  /\ Changes(Append(Turns, [id |-> Now, version |-> 0]), TRUE, clock)

Writes ==
  /\ thread.active
  /\ Changes([Turns EXCEPT ![Len(Turns)].version = @ + 1], TRUE, thread.begun)

(* A turn takes a second at least, so that no two states of an idle thread *)
(* have their status and the second of their last change in common         *)
Ends ==
  /\ thread.active /\ clock > thread.begun
  /\ past' = past /\ thread' = [thread EXCEPT !.active = FALSE, !.at = clock]
  /\ Silent /\ UNCHANGED <<mode, clock, bridge, calls, bounds>>

(* The user goes back to an earlier turn, not within a second of the last  *)
TakesBack ==
  \E n \in 1 .. Len(Turns) - 1 :
    /\ ~thread.active /\ clock > thread.at
    /\ Changes(SubSeq(Turns, 1, n), FALSE, thread.begun)

Ticks ==
  /\ clock < MaxClock /\ clock' = clock + 1
  /\ Silent /\ UNCHANGED <<mode, past, thread, bridge, calls, bounds>>

-----------------------------------------------------------------------------
(* A call and its end                                                      *)

NoCall == [pc |-> "idle"]

(* What the registry knows when the first request is made is `cached`.     *)
(* A public call reads the metadata once before, to check the allowlist;   *)
(* it is this call, begun later.                                           *)
Call(known) ==
  [pc |-> "metadata", since |-> Now, known |-> known, metadata |-> None, first |-> None,
   before |-> None, attempt |-> 1, got |-> <<>>, pages |-> 0]

(* A step within a call, and its answer *)
Goes(r, call) == calls' = [calls EXCEPT ![r] = call] /\ Silent /\ UNCHANGED <<crowd, restarts>>
Answered(r, turns, degraded) ==
  /\ calls' = [calls EXCEPT ![r] = NoCall]
  /\ reply' = [by |-> r, turns |-> turns, degraded |-> degraded]
  /\ UNCHANGED <<crowd, restarts>>

(* The call of the registry cannot read: the snapshot it found when it     *)
(* began, or what the job's store has                                      *)
RegistryFails(r, c) ==
  /\ Answered(r, IF c.known # None THEN c.known.turns ELSE stored.turns, TRUE)
  /\ UNCHANGED bridge

(* hydrateConversation's catch; codex_job_get goes on with the snapshot *)
HydrationFails(r) ==
  /\ held' = TRUE /\ lock' = None
  /\ stored' = [stored EXCEPT !.synchronized = FALSE]
  /\ Answered(r, stored.turns, TRUE)
  /\ UNCHANGED <<cache, sync, due>>

Falls(r) == IF r \in JobCalls THEN HydrationFails(r) ELSE RegistryFails(r, calls[r])

(* What was read in full is verified: it becomes the snapshot the registry *)
(* keeps, under the fingerprint that was read first, or goes to the store  *)
Reads(r, c, turns) ==
  IF r \in JobCalls
  THEN /\ Goes(r, [c EXCEPT !.pc = "store", !.got = turns])
       /\ UNCHANGED bridge
  ELSE /\ cache' = [fingerprint |-> c.first, turns |-> turns]
       /\ Answered(r, turns, FALSE)
       /\ UNCHANGED <<stored, sync, due, held, lock>>

(* The fingerprint is known.  Nothing is read when it is that of the       *)
(* snapshot, or of the last hydration when no full read is due             *)
Compares(r, c, fingerprint) ==
  LET known == IF r \in JobCalls THEN sync # None /\ sync = fingerprint /\ ~due
               ELSE c.known # None /\ c.known.fingerprint = fingerprint
  IN CASE known /\ r \in JobCalls ->
            /\ lock' = None
            /\ Answered(r, stored.turns, ~stored.synchronized)
            /\ UNCHANGED <<cache, stored, sync, due, held>>
       [] known /\ r \notin JobCalls ->
            Answered(r, c.known.turns, FALSE) /\ UNCHANGED bridge
       [] OTHER ->
            /\ Goes(r, [c EXCEPT !.pc = IF mode = "legacy" THEN "legacy" ELSE "page",
                                 !.first = fingerprint, !.before = fingerprint,
                                 !.metadata = None])
            /\ UNCHANGED bridge

-----------------------------------------------------------------------------
(* The steps of a call                                                     *)

AsksRegistry(r) ==
  /\ r \in RegistryCalls \cap crowd /\ calls[r].pc = "idle"
  /\ Goes(r, Call(cache))
  /\ UNCHANGED <<codex, bridge, failures>>

AsksJob(r) ==
  /\ r \in JobCalls \cap crowd /\ calls[r].pc = "idle"
  /\ Goes(r, [pc |-> "lock"])
  /\ UNCHANGED <<codex, bridge, failures>>

(* Mutant: hydrations of one job are not kept apart *)
NobodyWaits == TRUE

(* withJobLock: one hydration of the job at a time *)
LockIsFree == lock = None

Locks(r) ==
  /\ calls[r].pc = "lock" /\ LockIsFree
  /\ IF held
     THEN /\ Answered(r, stored.turns, ~stored.synchronized)
          /\ UNCHANGED bridge
     ELSE /\ lock' = r
          /\ Goes(r, Call(None))
          /\ UNCHANGED <<cache, stored, sync, due, held>>
  /\ UNCHANGED <<codex, failures>>

(* readMetadata, and for a legacy thread the fingerprint as well *)
ReadMetadata(r) ==
  /\ calls[r].pc = "metadata"
  /\ LET c == [calls[r] EXCEPT !.metadata = Metadata] IN
       IF mode = "legacy" THEN Compares(r, c, Fingerprint(Metadata, None))
       ELSE Goes(r, [c EXCEPT !.pc = "probe"]) /\ UNCHANGED bridge
  /\ UNCHANGED <<codex, failures>>

Probe(r) ==
  /\ calls[r].pc = "probe"
  /\ Compares(r, calls[r], Fingerprint(calls[r].metadata, NewestTurn))
  /\ UNCHANGED <<codex, failures>>

ReadLegacy(r) ==
  /\ calls[r].pc = "legacy"
  /\ IF Len(Turns) > MaxTurns THEN Falls(r) ELSE Reads(r, calls[r], Turns)
  /\ UNCHANGED <<codex, failures>>

(* Mutant: a thread that fills the limit is taken for one that exceeds it *)
OverTheLimit(turns, pages, more) == turns >= MaxTurns \/ (more /\ pages >= MaxPages)

(* HistoryLimitExceeded: there is more, and no turn or no page left for it *)
Exceeds(turns, pages, more) == more /\ (turns >= MaxTurns \/ pages >= MaxPages)

(* readPaginatedAttempt: the next page, oldest first; its cursor is the    *)
(* number of turns that were read                                          *)
ReadPage(r) ==
  /\ calls[r].pc = "page"
  /\ LET c == calls[r]
         from == Len(c.got)
         left == MaxTurns - from
         limit == IF PageSize < left THEN PageSize ELSE left
         to == IF from + limit < Len(Turns) THEN from + limit ELSE Len(Turns)
         got == c.got \o SubSeq(Turns, from + 1, to)
         more == to < Len(Turns)
         next == [c EXCEPT !.got = got, !.pages = @ + 1]
     IN CASE Exceeds(Len(got), c.pages + 1, more) -> Falls(r)
          [] ~Exceeds(Len(got), c.pages + 1, more) /\ more ->
               Goes(r, next) /\ UNCHANGED bridge
          [] OTHER -> Goes(r, [next EXCEPT !.pc = "remeta"]) /\ UNCHANGED bridge
  /\ UNCHANGED <<codex, failures>>

ReadMetadataAgain(r) ==
  /\ calls[r].pc = "remeta"
  /\ Goes(r, [calls[r] EXCEPT !.pc = "reprobe", !.metadata = Metadata])
  /\ UNCHANGED <<codex, bridge, failures>>

Unchanged(c, after) == c.before = after

(* The thread is what it was before the pages were read, or the pages are  *)
(* read once more; HistoryChangedDuringRead after that                     *)
ProbeAgain(r) ==
  /\ calls[r].pc = "reprobe"
  /\ LET c == calls[r]
         after == Fingerprint(c.metadata, NewestTurn)
     IN CASE Unchanged(c, after) -> Reads(r, c, c.got)
          [] ~Unchanged(c, after) /\ c.attempt = 1 ->
               /\ Goes(r, [c EXCEPT !.pc = "page", !.before = after, !.attempt = 2,
                                    !.metadata = None, !.got = <<>>, !.pages = 0])
               /\ UNCHANGED bridge
          [] OTHER -> Falls(r)
  /\ UNCHANGED <<codex, failures>>

(* JobStore.hydrateConversation: the projection is replaced *)
Hydrates(r) ==
  /\ calls[r].pc = "store"
  /\ stored' = [turns |-> calls[r].got, synchronized |-> TRUE]
  /\ sync' = calls[r].first /\ due' = FALSE /\ held' = FALSE /\ lock' = None
  /\ Answered(r, calls[r].got, FALSE)
  /\ UNCHANGED <<codex, cache, failures>>

(* A request to the App Server, or the write of the store, fails *)
Fails(r) ==
  /\ calls[r].pc \notin {"idle", "lock"}
  /\ failures < MaxFailures /\ failures' = failures + 1
  /\ Falls(r)
  /\ UNCHANGED codex

RetryIsAllowed ==
  /\ held /\ held' = FALSE
  /\ Silent /\ UNCHANGED <<codex, cache, stored, sync, due, lock, calls, bounds>>

FullReadIsDue ==
  /\ sync # None /\ ~due /\ due' = TRUE
  /\ Silent /\ UNCHANGED <<codex, cache, stored, sync, held, lock, calls, bounds>>

(* The process ends: the projection is on disk, the rest was in memory *)
Restarts ==
  /\ restarts < MaxRestart /\ restarts' = restarts + 1
  /\ cache' = None /\ sync' = None /\ due' = FALSE /\ held' = FALSE /\ lock' = None
  /\ calls' = [r \in Readers |-> NoCall] /\ Silent
  /\ UNCHANGED <<codex, stored, crowd, failures>>

-----------------------------------------------------------------------------
(* The job is over; what notifications told of its turn is stored          *)
HistoryInit ==
  /\ mode \in {"legacy", "paginated"}
  /\ past = << [n \in 1 .. FirstTurns |-> [id |-> 0, version |-> n]] >>
  /\ thread = [at |-> 0, active |-> FALSE, begun |-> 0] /\ clock = 0
  /\ cache = None /\ stored = [turns |-> past[1], synchronized |-> FALSE]
  /\ sync = None /\ due = FALSE /\ held = FALSE /\ lock = None
  /\ calls = [r \in Readers |-> NoCall] /\ reply = None
  /\ crowd \in Crowds /\ failures = 0 /\ restarts = 0

Codex == Starts \/ Writes \/ Ends \/ TakesBack \/ Ticks

(* What a call that is made does until it is answered *)
Proceeds(r) ==
  \/ Locks(r) \/ ReadMetadata(r) \/ Probe(r) \/ ReadLegacy(r)
  \/ ReadPage(r) \/ ReadMetadataAgain(r) \/ ProbeAgain(r) \/ Hydrates(r)

HistoryNext ==
  \/ Codex
  \/ \E r \in Readers : AsksRegistry(r) \/ AsksJob(r) \/ Proceeds(r) \/ Fails(r)
  \/ RetryIsAllowed \/ FullReadIsDue \/ Restarts

(* Time passes and a turn ends; every request is answered or fails; the    *)
(* console asks again and again: it polls, and it refreshes on focus.      *)
(* Calls that wait for the job's lock are served in turn, hence SF         *)
Fairness ==
  /\ WF_historyVars(Ticks) /\ WF_historyVars(Ends)
  /\ WF_historyVars(RetryIsAllowed) /\ WF_historyVars(FullReadIsDue)
  /\ \A r \in Readers : WF_historyVars(AsksRegistry(r) \/ AsksJob(r) \/ Proceeds(r))
  /\ \A r \in JobCalls : SF_historyVars(Locks(r))

HistorySpec == HistoryInit /\ [][HistoryNext]_historyVars /\ Fairness

-----------------------------------------------------------------------------
Contents == {past[m] : m \in 1 .. Now}

(* The thread had a turn running when the call read its metadata *)
SeenActive(c) == IF c.pc = "metadata" THEN thread.active ELSE c.first.active

(* Turns were taken back since that moment *)
TakenBack(since) == \E m \in since .. Now - 1 : Len(past[m + 1]) < Len(past[m])

(* An answer shows the turns the thread had at one moment: pages of two     *)
(* moments are never put together (docs/ConversationModel.md: a paginated   *)
(* read is bracketed by two fingerprints and fails closed).  If it is not   *)
(* said to be degraded it is a moment of the call: an unchanged fingerprint *)
(* is enough to answer with what was read before.  This is so unless a turn *)
(* was running when the metadata was read and                               *)
(*   - the thread is a legacy one: its fingerprint is then only a second; or *)
(*   - turns were taken back before the newest one was read.  A second       *)
(*     attempt goes under the fingerprint of the first: its metadata and     *)
(*     newest turn are those of a moment before what is kept under it.       *)
CurrentAnswer ==
  reply' # None =>
    LET c == calls[reply'.by] IN
      /\ reply'.turns \in Contents
      /\ \/ reply'.degraded \/ c.pc = "lock"
         \/ mode = "legacy" /\ SeenActive(c)
         \/ c.pc = "probe" /\ c.metadata.active /\ TakenBack(c.since)
         \/ \E m \in c.since .. Now : reply'.turns = past[m]

(* The job's projection is replaced by that of the same moment or a later  *)
(* one, however many calls hydrate it at once                              *)
LaterStore ==
  \E m, n \in 1 .. Now : m <= n /\ stored.turns = past[m] /\ stored'.turns = past[n]

(* Readers that hydrate one thread at once neither show a mixture of moments *)
(* nor take the stored projection back.                                     *)
HistoryIsOfOneMoment == [][CurrentAnswer]_historyVars /\ [][LaterStore]_stored

(* Once Codex is done with the thread and the App Server answers, whoever  *)
(* asks is shown all of it, a thread that fills the limit included, and    *)
(* nobody is told for ever that it could not be read                       *)
HistoryIsShown ==
  /\ <>[](reply # None => reply.turns = Turns /\ ~reply.degraded)
  /\ \A r \in Readers : []<>(calls[r].pc = "idle")
=============================================================================
