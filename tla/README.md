# Specifications of the GPT_MCPtool services

TLA+ modules for the parts of this repository whose correctness depends on the
order of things: crashes between two file operations, handlers that interleave
at an `await`, database sessions that overlap, answers that are lost or late,
files that change while they are read, retries of what was already done.
Twelve TLC runs check 40 properties on small instances; the theorems of the
`*Proofs` modules are checked by TLAPS for every value of the constants.

    tlc -workers 2 -config JobLedger.cfg JobLedger      # one run
    tlapm HostApprovalProofs.tla                        # the proofs of a module

`PROJECT.json` lists the components, the runs with their properties, for each
property a mutation of the code it catches, the source lines each definition
stands for, the hazards, and the theorems.  Paths below are relative to the
repository.

## The system

The repository is a monorepo of MCP servers that run on one Windows machine
for one user, a supervisor that starts and stops them, and a few applications
behind them.

| Part | State it keeps | Operations | What is hard | Modules |
|---|---|---|---|---|
| Codex Bridge, job store (`codex_bridge/src/job-store.ts`) | per job a directory: `manifest.json`, `events.jsonl`, `messages.jsonl`, `conversation.json` with a `.bak`, `conversation-events.jsonl`; in memory the same, two indexes, pending streamed content, timers, a drain lease | create, import, append message, prepare/start/settle a turn, approvals, conversation updates, snapshot, start-up | crashes and failed writes between files, coalescing, start-up after any of them | ConversationLog, JobLedger |
| Codex Bridge, controller (`controller.ts`) | maps from native threads and turns to jobs, live approvals, one lock per job | start, message/steer, cancel, decide, recover history, direct requests; notifications, server requests, exit of the App Server | everything interleaves at awaits; two of the flows hold no lock | TurnControl, DirectRequests |
| Codex Bridge, projection, delivery, console (`conversation-projection.ts`, `conversation-delivery.ts`, `web/codex-console.html`) | hot cache of patches; what the console shows | reduce notifications, serve patches after a cursor, merge | eviction, gaps, answers out of order, restart | ConversationDelivery |
| Codex Bridge, App Server client and history (`app-server-client.ts`, `thread-history-reader.ts`, `unified-conversation-registry.ts`) | the child process, pending requests, fingerprints and snapshots | start, request, close; read a native thread page by page | exit events that come late; a thread that changes while it is read | AppServerClient, ThreadHistory |
| Codex Bridge, PowerShell approval (`powershell-approval/*`) with the installed host (`mcp_control_center/src/NormalOperator.*.cs`) | a hash-chained receipt journal with a lock file; a session; the host's process | review, admit, approve, claim, execute, report; start-up expiry | at most one execution over crashes, a broken channel, limits of the journal | HostApproval, OneExecution |
| Codex Bridge, reload and shutdown (`self-reload/*`, `cooperative-shutdown.ts`, `http-server.ts`) with the owner in the Control Center (`*.SelfReload*.psm1`) | the fence of the job store; the owner's receipts | drain, close, approve and resolve a reload, tick, postcheck | two programs that lose each other's messages and die | SelfReload, BridgeLifecycle |
| Codex Bridge, intake (`server.ts`, `text-bundle-store.ts`, `controller.ts` dispatch) | staged texts with manifests; a job's classification | tools of the model and of the app | who may send what; failed manifest writes, restart | TaskIntake |
| Memory Core, review and batch execution (`Memory Core/src/memory_core/services/candidates.py`, `batch_*.py`) | SQLite rows of candidates, batches, items, attempts, results | prepare, approve, reject, expire, apply item by item, read back | sessions that read outside their write transaction, leases, retries | BatchApply |
| Personal Asset OS (`personal-asset-os`) | SQLite ledger; on the phone an outbox | capture, confirm; synchronisation of the outbox, pairing | lost replies, restarts, a user who retries | MobileSync |
| OMI search dashboard (`OMI_search/ui/tw-market-dashboard`) | the chosen group, cached groups, what is shown | poll, load, pushed results, hide and show | answers that are no longer wanted | MarketDashboard |
| Project Reading, writes (`project_reading/src/write-tools.ts`, `write-journal.ts`) | workspace files, `writer.lock`, receipts, audit tail | journalled writes | a stop with the lock held, a failing call, outside changes | WorkspaceWrite, OneWrite |
| Project Reading, reading tools (`workspace.ts`, `text-reader.ts`, `search-tools.ts`, `git-tools.ts`, `openxml.ts`, `assets.ts`, `pdf*.ts`, ...) | a PDF worker thread | list, walk, search, read windows, diff, extract | what is read changes; limits; what an answer says of its completeness | TreeWalk, ReadWindows, TextSearch, GitReading, OfficeText, AssetReading, PdfJobs |
| Study and listening adapters (`english_study`, `japanese_study`, `listening_trainer`) | none | preview, write, retry against a hub | lost, late and unreadable answers | StudyAdapters |

How the parts meet.  A tool call reaches the Bridge's server, which calls the
controller; the controller calls the store (every change of a record goes
through it) and the App Server client; the App Server's lines come back as
notifications and requests and again end in the store.  Consoles poll the
store's snapshots with an event cursor and a conversation cursor.  The owner
in the Control Center observes the health endpoint, and holds the receipts of
a reload whose fence the Bridge's store holds.  The host executes what the
approval store has claimed.  Memory Core, the Personal Asset OS and the hubs
are reached through their own HTTP APIs; nothing is shared with the Bridge.

What each part must get right, in one line each: the store never takes back
what it answered or showed, and dispatches a retried request once; the
controller answers each approval request once, as recorded, forgets none, and
never leaves a job waiting for a turn that is over; the console ends up with
what was committed; a history shown is of one moment; an approved command and
an approved reload are executed at most once; an approved batch is applied
once per item and its states tell what happened; an outbox row takes effect
once; a write happens once and its receipt says the truth; an answer that does
not say it was cut short is complete; a study write is done once and as shown.

## The modules

### ConversationLog — a job's conversation on disk

`job-store.ts` L95-130, L377-420, L615-690, L864-1254, L1461-1546, L1634-1697.

The conversation projection (`conv`: a revision and its set of items) lives in
memory, in an append-only journal of patches (`journal`), and in two checkpoint
files (`files`).  `tail` tells how the journal ends: with a whole line
("complete"), a piece of a record ("torn"), a record without its newline
("bare"), or with a line that later bytes joined, two records ("glued") or a
piece and a record ("broken").  An update
(`UpdateConversation`, `FlushConversation`, `TimerFires`) takes the
conversation lock and then runs through `pc`: `ApplyUpdate` computes the next
projection, `CommitRevision` appends the patch (`CommitFails` leaves nothing,
a part, all but the newline, or all of it), `WriteConversation` stages the temporary file, then
`WriteConversationBackup`, `PromoteConversation` or, when Windows refuses the
rename, `MoveAside` / `RenameAfterMove` / `RestoreAfterMove`, then
`EnsureBackup`.  `Coalesce` is the streaming path, which changes only
`pending` and arms the timer.  `Crash` may happen between any two of these;
`Restart`, `ReplayPatch` and `ReplayDone` are `readConversation`.
`RestartThrows` is the other way start-up can end: an error that is no
`ConversationPersistenceError`, which the `catch` of `initialize` drops; the job
is then served without a conversation (`~loaded`) and not `failed` either.

`hist` is a ghost: the content each revision was committed with.  So is
`spoiled`: an append was cut short on a line without newline and took the record
before it along, or was made for a job without a conversation, which begins
again at revision 1.  The properties hold until then; that the code gets there
is what `CutKeepsRevisions` and `EmptyOnlyWithoutEvidence` are about, which TLC
finds violated (see what modelling found).

### JobLedger — records, events, messages

`job-store.ts` L131-346, L418-610, L692-723, L813-862, L1316-1339.

All jobs of a store behind its one lock (`exclusive`).  An operation (`Create`,
`PrepareTurn`, `Transition`, `SetTurn`, `AddApproval`, `ResolveApproval`,
`RecordEvent`, `AppendUserMessage`, `Complete`) changes the record in memory
and then runs its file operations one by one (`AppendLine`, `AppendEvent`,
`WriteManifest`, `WriteArtifacts`), each of which may fail (`OperationFails`)
or be the last before a `Crash`.  `Load`, `Settle…`, `Open`, `StartFails` are
start-up.  `ReadEvents` and `Reply` are a client's poll, which does not take
the lock.  The ghosts `dispatched`, `accepted` and `answered` count what
callers were told.

### TurnControl — one job on the App Server

`controller.ts` L194-259, L533-602, L807-966, L969-1026, L1054-1068,
L1133-1323.

`queue` is the job's lock: a sequence of tasks, the first of which holds it.
A task stops at every `await` and its next step is an action of its own
(`CancelRead`, `CancelInterrupts`, `CancelSettles`, …).  Outside the lock run
the flows that start a turn (`OpenThread`, `StartTurn`, `TurnResponse`,
`ProjectStart`, `Catch`), the reading of the history between its two locked
halves (`TakeBaseline`, `ReadHistory`, `AnswerHistory`, `HistoryApplied`,
`HistorySettles`), and `Exit`.  The App Server is external: it starts turns,
says text, asks for approvals, ends turns, and its lines and answers arrive in
the order it wrote them (`wire`).

What is abstracted: operations of the store are atomic here and a failed one
leaves the record as it was; the notification epoch and the conversation
revision, which the code compares with a baseline, are kept as "changed since
the baseline" (`changed`); output is a count of pieces per turn; a history
snapshot is exact when it is taken and answered later; a flow starts one turn
at most; a job is not cancelled while it is still queued.  The receipts of
direct requests, compaction and review are in DirectRequests.

### BatchApply — review and execution of a batch candidate

`services/candidates.py` L381-601, L1014-1070; `services/batch_apply.py`;
`services/batch_candidates.py` L188-241, L400-443.

A request of the reviewer is a thread of the API server with a program counter
`pc`.  Every helper of the executor opens a session of its own.  In the
sqlite driver's default transaction control the SELECTs of a session are not
part of its write transaction, which begins at the first INSERT or UPDATE; so a
helper that reads, decides and writes is two actions (`CheckClaim` and
`ExecuteItem`, `ReadBack` and `StoreVerdict`, `CountItems` and
`FinishAttempt`), and an `UPDATE … WHERE` is one (`ClaimItem`).  The marks of a
failure (`MarkItemFailed`, `MarkItemUnverified`) read the row and write it
unconditionally, so one action has the same effect.  An item's operations are
one transaction: `commits` counts it.  The uniqueness of a result by operation
is the condition `result[i] = "none"` of `ExecuteItem`.

What is abstracted: digests, scopes, audit rows, the challenge's expiry and the
revision of a draft; the claim's number (`attempt_count`) stands for its random
token; the wall clock, so that a lease may expire at any time — under a live
holder at most `MaxStall` times.  The only retry policy a failing operation
can get today is `new_batch_required`, since no error it raises carries one of
the codes of `batch_errors.py`; `Claimable` keeps the `retry_same_plan` branch
of the WHERE.

`BatchApplyMC` adds the symmetry of requests and of keys for TLC.  The
properties name no request and no key, and none of them is temporal.

### DirectRequests — the direct tools and the operator's app on one job

`controller.ts` (`sendMessage`, `directMessage`, `directCancel`,
`directThreadAction`, `runDirectRequest`), `job-store.ts`
(`recordDirectRequest`).

`job` is the record in memory with its receipts, `disk` the manifest, `log` the
message file; a write changes the first and may then fail to reach the second.
`op` is the call that holds the job's lock and where it is (`RecordPending`,
`Check`, `Launch`, `Complete`, `CatchUnknown`, …), `resuming` the flow that
resumes the thread outside the lock, `queue` the calls and notifications that
wait for it: `withJobLock` chains promises, so they have it in turn
(`TakesLock`, `Handle`).  The App Server (`Begins`, `Ends`, `Exit`) is external;
an answer of it is a line like a notification and is read after those that were
written before it (`Answered`).  `Restart` is a new process over `disk` and
`log`.  `cut`, `controls` and `told` are history.

### ConversationDelivery — from the App Server's history to the console

`conversation-delivery.ts`, `conversation-projection.ts`, `job-store.ts`
(`snapshot`, `updateConversation`), `web/codex-console.html`.

`items`, `pending`, `revision` and `hot` are the store's committed projection,
what is streamed and not committed, the number of commits and the patches kept
in memory; `view` is the console's `selectedJob`, `calls` its poll and its
user's call, which may be out together and come back in either order.
`Merge`, `Follows` and `Older` are the console's merging.  `told` and `final`
are history: what each revision committed, and the one at which the job ended.
The order of items and the bridge's own agent messages are not modelled.  The
registry's view of a thread without a job has revision 1, unrelated to the
store's, and is merged only as a whole.

### ThreadHistory — a thread that changes while it is read

`thread-history-reader.ts`, `controller.ts` (`hydrateConversation`,
`readLocalThreadFresh`), `unified-conversation-registry.ts` (`get`).

`past` is every moment of the native thread; Codex adds a turn, writes into
one, ends one or takes turns back between any two requests of a reader
(`ReadPage`, `ReadMetadataAgain`, `ProbeAgain`, …).  Abstracted: a turn is its
identity and a version.  Assumed of Codex: a turn takes a second at least, and
a rollback does not fall in the second of the change before it: the
fingerprint of a thread in the older storage format has no finer mark.
`CurrentAnswer` and `LaterStore` are the two halves of the property; the two
cases the first leaves out are described under what modelling found.

### AppServerClient, SelfReload, BridgeLifecycle — one Bridge after another

`app-server-client.ts`; `self-reload/client.ts` with
`McpControlCenter.SelfReload.psm1` and `.SelfReload.Owner.psm1`;
`cooperative-shutdown.ts`, `http-server.ts`, `runtime.ts`, `http-main.ts`, the
fence in `job-store.ts`, `codex-bridge-runtime.psm1`.

AppServerClient keeps what the child process does (`proc`) and what the client
has heard (`unheard`, `status`, `start`, `closer`) apart: `Dies` is the process,
`ExitHandled` the event handler, which does not ask which child has ended.
SelfReload has the owner's receipts on disk, its one thread (`job`, `stage`) and
the Bridge's side of a reload: the fence, the poll, the approval that asks,
fences, sends and resolves.  A message is answered, lost, or served late.  A
save of a receipt that fails ends the owner and may have reached the disk.
BridgeLifecycle composes both with the work of the Bridge and adds the
cooperative shutdown (`DrainBegins` … `CloseEnds`), the end of a process and
the start of the next, and the owner's stop/start/postcheck of a reload
(`ReloadFails` … `ReloadCompletes`).

`strays` are calls whose HTTP request is over and that asked for an App Server
after the HTTP server closed: the end of a response is not the end of a tool
call.  `ClosedIsQuiet` excludes them.  Left out: signals, the tunnel's role,
failing probes, a clock that goes back, the limit of 256 receipts, digests and
signatures; an approval under way does not count in `IsIdle`, as in the code;
an action of the Control Center dies with the owner; the saves of a restarting
owner succeed.  A killed child may be heard to have ended at any time: when the
next one is ready by then, its exit event clears `#child` and leaves the next one
running.  The ghost `forgotten` holds those, and `OneAppServer` and
`ClosedIsQuiet` are about the others (`Running`); that the code forgets one is
what TLC's counterexample to `OneIsShared` shows.

### HostApproval and OneExecution — an approved command, at most once

`powershell-approval/store.ts`, `host-admission.ts`, `host-receiver.ts`,
`host-transport.ts`, `normal-tools.ts`, `NormalOperator.Host.cs`,
`NormalOperator.Execution.cs`.

`saved`, `entries`, `torn` and `lock` are the disk; `store`, `known`, `queue`
and `writing` the store in memory: an operation of the queue computes the lines
it appends (`…Lines`) from `known`, each append may fail, and a failed one
makes the store `faulted` for good.  `session`, `wire`, `host` and `offer` are
the receiver of each session, the call of its host, what the host does and
until when its request stands.  The host makes its calls one after the other
(`HostCalls`), executes after the claim was answered, and reports.  Any session
end (`EndSession`) lowers a claim that stands to OUTCOME_UNKNOWN; start-up
(`Open`, `Recovers`) does the same to those a crash left.  The lines are
abstracted to the receipts they leave, commands and identities are left out.

OneExecution is the promise: one receipt per request, executed once at most and
only after a durable intent, never after a refusal; outcomes are final and say
"succeeded" or "failed" only of what was executed.  HostApproval and
BridgeLifecycle both implement it (`ExecutedOnce`, `INSTANCE … WITH`).

### TaskIntake — what comes into a job

`server.ts`, `text-bundle-store.ts`, `controller.ts` (dispatch, sending, direct
requests).

Tools by who may call them; the chunks of a staged text in memory and on disk,
with manifests whose write may fail, and a restart; the checks of class and
confirmation before a message enters the log.

### MobileSync — the phone's outbox

`mobile/src` (`mobile-connection.ts`, `mobile-sync.ts`, `outbox.ts`,
`AutoSyncAgent.tsx`), `services/mobile_sync.py`, `financial_events.py`,
`api/routes.py`.

`row` and `token` are the phone's storage, `sync`, `look` and `pairing` its
three asynchronous flows, `posts` the requests under way with the place each
session has reached on the desktop, `ledger` what was entered.  A request the
phone has given up goes on (`Abandoned`); either side may restart.
The session commits in the exit of a dependency, which the pinned FastAPI runs
after it sent the answer (`IsAnswered`, `Commits`): a desktop that stops between
the two leaves a record synced without a transaction.  The history variable
`unsaved` is those records, so that `RecordedOnce` can say that there are no
others; `SyncedHasTransaction` would say that there are none, and does not hold.

### MarketDashboard — the widget's poll and its choice

`App.tsx`, `bridge.ts`, `state.ts`.

The effect that polls (`effect`), the poll and the loads in flight, the chosen
group and the dashboard adopted last.  A call ends once: answer, time-out or
abort (`Abort`).  The host pushes results of its own; the page may be hidden
and unmounted.  `ClientsMC` joins it with MobileSync for one TLC run: `Init`
picks which of the two moves.

### WorkspaceWrite and OneWrite — guarded writes

`write-tools.ts`, `write-journal.ts`, `write-policy.ts`.

`task[s]` is `WorkspaceWriter.perform` of each server process, one action per
file operation; `lock`, `receipt`, `torn` (the audit log) and `file`/`made` are
on disk.  An I/O call fails, a process stops, an editor that knows nothing of
the lock writes, the operator replaces the policy or removes a leftover lock.
`told` is what clients were told.  OneWrite is the promise of a journal of
receipts; `WrittenOnce` is the refinement.  Not here: byte limits (the limit on
operations stands for them), link counts, temporary files a stopped process
left.

### The reading tools, the PDF worker and the study adapters

* **TreeWalk** — `list_projects`, `list_dir`, `find_files`, the server's own
  search and the scan of sources: a walk awaits at each directory and entry
  while entries come and go (`steady` are those that were there throughout).
* **ReadWindows** — windows over lines, pages, blocks, slides, rows and the
  shares of one budget, with the client that goes on from where an answer says.
* **TextSearch** — ripgrep as a bounded process, its fall-back, and the second
  look at each hit.
* **GitReading** — the git processes of one call over a tree that changes, and
  the bounds of lines and bytes on a patch.  `git_diff_file` is not modelled.
* **OfficeText** — the handlers of the streaming parser of documents and slides.
* **AssetReading** — `fetch_asset` in pieces, images, and the limits of archives.
* **PdfJobs** — the client of the worker thread, whose messages and events
  arrive late.
* **StudyAdapters** — every tool of the three adapters: annotations, ids,
  fingerprints, and what a lost or unreadable answer is reported as, against
  hubs that do what is asked under an id once.

`ToolCallsMC` joins these with TaskIntake for one TLC run: they share nothing,
`Init` picks which one moves and the others are idle.

## The runs

| Run | Question | Bounds, and why they reach the case |
|---|---|---|
| `conversation_log` | Do crashes, refused renames, failed writes, records without newline and a damaged checkpoint lose or take back a revision?  Is streamed content written? | 3 notifications, 2 crashes, 2 faults, 1 damaged file: a crash in a recovery from a crash, a failed promotion followed by a repair, two checkpoints of different age, a record without newline and an append after it |
| `job_ledger` | Are retries, restarts and polls sound? | 2 jobs, 1 key, 1 message, 1 turn, 4 events, 1 crash, 1 fault, a page of 1 event, so that a page ends before the log does |
| `turn_control` | Answers, lost requests, lost ends, stale recovery, deadlock | 1 approval request, 1 piece of text, and any 2 of: a second message, a cancellation, two decisions, a recovery, an exit, a fault |
| `direct_requests` | Is anything delivered twice, are receipts true, does a control action keep its job? | ids of the tools in six mixtures of two or three, and as many of these as make four with them: a cancellation by the app, a lost answer, a failed write, an exit, a restart; 1 call that waits for the lock |
| `conversation_delivery` | Does the console show what was committed, and all of it in the end? | 1 user item, 1 agent item, 1 live item, a cache of 2 patches of 4, 1 patch of 3 and 1 page per catch-up, 4 revisions, one each of a lost call, a failing commit, a restart, a call of the user |
| `thread_history` | Is a history that is shown of one moment? | a registry reader, or two hydrations of one job; 4 turns in pages of 2, 2 changes, 1 tick, 1 fault, 1 restart |
| `bridge_lifecycle` | Does the fence hold as long as a reload may come, and no longer?  Is a closed Bridge quiet, a reload executed once? | 2 calls (one starts a turn), 2 requests, an operator, in three mixtures; 2 children, 2 Bridges, 1 fault |
| `host_approval` | Is a command executed once at most, is every claim settled? | 1 review, 2 sessions, a journal of 5 lines, 1 tick, one crash, one failing append, 1 waiting operation |
| `batch_apply` | Is each item committed once, and do its state and the batch say so? | 2 requests, 2 items, 2 keys, 3 apply calls, 2 preparations, one each of a stop, an expired lease of a live holder, an exception, a record removed by someone else |
| `clients` | Is a record entered once?  Does the poll go on, and is only the choice adopted? | 2 records, 1 token, 1 lost answer, 1 restart, 1 retry of the user, 2 accounts; 2 groups, 2 versions, 1 hiding |
| `workspace_write` | Does each write happen once, and are the answers true for good? | 2 processes, 3 operations (append, create, two directories), 3 attempts, one failing call, one stop, one edit, 2 policies, room for 2 receipts |
| `tool_calls` | Is what an answer does not mark as cut short complete?  Is a study write done once, as shown?  Is company data confirmed? | trees of 3 entries; sources of 2 units of 3 pieces; 2 files of 3 lines with 2 hits; 2 changes of a work tree with patches of 2; documents of 8 tags; files of 2 bytes, archives of 2 entries; 3 PDF jobs, 2 threads; 3 asks of a chat; one text of one chunk and 3 messages |

The passing runs are exhaustive within these bounds.  Distinct states: about
1.6 million for `conversation_log`, 155,000 for `turn_control`, 1.3 million for
`direct_requests`, 419,000 for `conversation_delivery`, 148,000 for
`thread_history`, 324,000 for `bridge_lifecycle`, 240,000 for `host_approval`,
220,000 for `clients`, 1.6 million for `workspace_write`, 1.2 million for
`tool_calls`, more for `job_ledger` and `batch_apply`; each ends within about
three minutes with two workers.  Most hazards need two overlapping operations
and one failure, which every run has; where three are needed (a crash in a
recovery, a retry after a lost answer after a restart) the bound is named above.
`MaxTotal` bounds the number of bounded things that happen in one behaviour: in
TurnControl any two may, in DirectRequests two beside two calls or one beside
three, a bound that the two theorems on it do not need.  Symmetry is used in
`BatchApplyMC` and `WorkspaceWriteMC`, whose properties name no request, key,
process or operation of a symmetric set and are not temporal beyond `[][A]_v`.

`CHECK_DEADLOCK FALSE` is set for ConversationLog, HostApproval, ClientsMC,
WorkspaceWriteMC, ToolCallsMC, DirectRequests and BridgeLifecycle: their
environment runs out of notifications, attempts, calls or processes and the
program may then be idle for good.  In JobLedger, ConversationDelivery and
ThreadHistory a poll or a tick is always possible; TurnControl and BatchApply
have a `Rest` step that is enabled only when nothing is under way.  There a
request that cannot go on, or a lock that is never released, is a deadlock TLC
reports.

### Fairness

* ConversationLog: a file operation of the holder of the lock ends, well or
  badly; an armed Node timer runs.  Not: notifications, restarts, successful
  writes.  Enough for `PendingIsFlushed`.
* HostApproval: time passes, the store's queue goes on, a session that is due
  is ended.  Not: the host, the channel, the operator.  `ConsumedIsSettled`.
* DirectRequests: an operation that holds the lock goes on, lines are read,
  background flows go on, a turn of Codex ends; who is first in the queue gets
  the lock when it is free.  All weak.  `JobSettles`.
* ConversationDelivery: the timer fires, the console polls, a call that is out
  is begun, answered and received.  `ConsoleCatchesUp`.
* ThreadHistory: time passes, a turn ends, the retry and the full read become
  due, a reader goes on; the lock is had (strong).  `HistoryIsShown`.
* BridgeLifecycle: the owner is restarted and works on, messages in flight end
  in one way or another, the poll finds a moment without an approval (strong).
  `FenceIsReleased`.
* ClientsMC: the phone's automatic synchronisation starts and goes on, requests
  end or time out, the desktop works; React renders, the bridge becomes ready, a
  poll is sent and answered, timers fire (strong where a re-render clears
  them).  `EveryClientIsServed`.

### What modelling found

These places do not do what a comment, a document or a reader would expect.
The property is stated in the module where one is named; it is not in a run,
since it does not hold, and the constants in brackets reproduce it.

Codex Bridge, store and conversations:

* `CutKeepsRevisions` [`MaxInput = 3`, `MaxCrash = 2`, no faults and damages]: a journal record that lost only
  its newline is accepted, served and never repaired, and the next append joins
  its line.  Cut short too, it takes the record that was served along when the
  tail is cut off, which the warning calls "after preserving all prior revisions"
  (`job-store.ts:1178`).  Complete, it makes the journal unreadable, which is the
  case `EvidenceRecovers` excepts (`tail # "glued"`).
* `EmptyOnlyWithoutEvidence` [`MaxInput = 2`, 1 crash, 1 fault]: an unclassified error of
  start-up leaves a job without a conversation and without a failure
  (`job-store.ts:188`), and its next update begins an empty one beside the
  checkpoints and the journal, against `docs/ConversationModel.md:78`.
* `CaughtUpHasAll`: after a crash between an event and its manifest a sequence
  number is used twice, and a client misses the second event
  (`job-store.ts:837`) [JobLedger, 1 job, 1 crash].  `MessageAcceptedOnce`: a
  restarted store remembers the last 200 messages only (`job-store.ts:175`)
  [2 messages, `Window = 1`].
* `SettledUntilNextMessage`: a job cancelled while its turn is being started
  becomes running again (`controller.ts:955`).  `DecisionsArePending`: a
  decision on an approval that was settled with its job is sent to the App
  Server before it is rejected (`controller.ts:885`) [TurnControl].
* `SteerNamesItsTurn`: the turn a direct message names is compared with the
  record as it was read when the call took the job's lock (`controller.ts:697`).
  Turns are started in the background without that lock, and the step that sends
  the message reads the record again: a message that named no turn joins the one
  begun meanwhile, where `docs/ApprovalModel.md:55` promises more
  [DirectRequests].  A turn that is over is not joined: the App Server compares
  the turn it is told to expect.  An exit of the App Server after a compaction
  was accepted and before its turn started leaves the job "preparing".  A
  job that is settled while a turn for it is being started — cancelled, by an
  exit, or by the late end of the turn before, which is not told from its own
  (`controller.ts:1167`) — lets a later message or action be started beside that
  turn, against the comment at `controller.ts:671`; `ControlKeepsItsJob` is
  conditional on that (`cut`).  TLC's shortest case of the third needs two
  messages and a compaction: the app cancels a turn and sends a message, the end
  of the cancelled turn completes the job, so that the second message's turn and
  the first one's are both started (`resumeAndExecute` does not look at the job
  again), the first ends, a compaction is launched, and the second message's
  turn begins over it.  A refused direct request
  gets the receipt "unknown".  Ids are shared between the direct tools, so
  `ReceiptsAreTrue` speaks of ids used by one tool.
* ThreadHistory: a fingerprint is two requests, metadata and newest turn, and
  what a second attempt has read is kept under the fingerprint of the first
  (`thread-history-reader.ts:151`, `controller.ts:149`).  When a thread whose turn
  runs is rolled back between the two requests of a later check, the old
  fingerprint comes out again and the conversation kept under it is answered as
  current.  `CurrentAnswer` excludes just that [1 registry call, `FirstTurns = 1`,
  `MaxTurns = 3`, `MaxClock = 3`, `MaxChanges = 5`].  Changes of a legacy thread
  within the second of its last one are not noticed while a turn runs.  After a
  failed hydration a later check with an unchanged fingerprint leaves the
  projection unsynchronized until the full read of every 60 s.
* `OneIsShared` [2 calls, `MaxChildren = 3`, 1 fault]: the exit handler of a child clears
  `#child` whichever child it is (`app-server-client.ts:165`).  When the process of
  a failed handshake is heard to have ended only after the next one is ready, the
  next one runs on, the call after it starts another beside it, and `close` ends
  one at most, against "the one App Server shared by every Bridge thread and turn"
  and "an uncertain child must remain owned" (`app-server-client.ts:79`, `:88`).
* `UnknownHasACause` (BridgeLifecycle): the owner dispatches only under the
  request's own fence, then stops the Bridge through `Stop-CbOwnedRole`
  (`codex-bridge-runtime.psm1:605`), and `cooperative-shutdown.ts:16` refuses
  while a fence is set: the receipt becomes "unknown" and the fence stays,
  without any fault.  After a close that timed out `ensureStarted` throws
  APP_SERVER_CLOSING for good.
* TaskIntake: a retried append or finalize whose manifest write failed answers
  success without writing the manifest; after a restart an acknowledged chunk
  may be gone.  `codex_job_get` is annotated read-only and hydrates the stored
  conversation.

Memory Core: `RejectionWroteNothing` — an approved batch can be prepared again
and rejected while its items are executed (`batch_candidates.py:442`).

Personal Asset OS: `SyncedHasTransaction` — the answer leaves before the session
commits (`routes.py:98`, against `docs/MobileSync.md:106`) [1 record, 1 token, 1
account, 1 stop]; `PairingIsDurable` — the refusal of an old token deletes the token that
is stored when it arrives (`mobile-connection.ts:245`, against the comment at
215).

Project Reading:

* The comment at `write-tools.ts:108` ("durable pending receipt blocks
  retries") does not hold when `begin` failed without leaving a receipt and the
  final audit fails too: the refusal is then of this attempt alone.
* A sheet with an empty row above others loses its last rows without
  `truncated` (`assets.ts:282`, `parseRange` at 526); the model excludes such
  sheets (`HasGap`).
* Text boxes drop the text around them (`openxml.ts`) [`TextBoxes = TRUE`
  violates `TextSurvives`].
* `list_dir`, `list_projects`, `scanCode` and the context lines of a search
  fail as a whole when an entry vanishes at the wrong moment; matched text and
  its context may be of different moments; a same-size overwrite in place is
  not noticed by `readBoundedFile`; git's exit code is ignored by
  `readTrackedDiff`; the top-level `truncated` of a diff can be false though
  one of its files is cut.
* An `error` event of a PDF worker that was given up fails the job its
  successor has.

Adapters and dashboard: the Japanese label call carries no id, so a late one
re-applies an older label; a 2xx answer that is not JSON counts as success
there; the English client reports an answer cut off while its body is read as
not retryable; the listening adapter reports a write that may have been applied
as not retryable.  In the dashboard an older load of a group overwrites newer
cached rows, and a poll asked before any group was chosen may be adopted over a
pushed choice.

Three properties are conditional, and the condition is a limit of the code
rather than of the model.  `CursorMissesNothing` supposes that no crash fell
between an event and its manifest.  `StateTellsTheOutcome` supposes that no
lease expired under its holder: `_mark_item_failed` does not compare the claim,
so a slow holder can mark an item failed that another request has committed.
`EvidenceRecovers` and `ClientsViewSurvives` suppose clean faults.

## The proofs

Every theorem holds for all values of the constants within the named
assumptions of the modules (`ConversationLogAssumption`, `CountsAreNaturals`, …),
which say no more than that bounds are naturals and identifiers are distinct.
The shape is the same throughout: an inductive invariant whose parts are named,
checked by TLC first; `Init => Inv`; a lemma per action, or per group of
actions, that concludes `Inv'`; frame lemmas for the parts an action leaves
alone; and a last step by temporal logic.

### ConversationProofs

ThreadHistory, for every value of the constants (threads and pages of any
size, any number of readers, changes, failures and restarts), from
`HistoryAssumption`: `HistoryIsOfOneMomentAlways`, the action property of the
run `thread_history`.

What an answer is made of was asked for earlier, so the invariant `HistoryInv`
says of everything that was read what it is still worth, as long as the thread
is in the second it was read in.  `Taken` and `Tells` are of a fingerprint that
is kept with turns: the newest turn can only have become newer, so that one
that is the same vouches for all; and a turn that began after an idle thread
was seen ends in a later second.  `Probes` is of the moment between the
metadata and the newest turn, `PageHolds` of the pages that were read (the first
turns and not all of them: a turn that changes is never among them),
`RemetaHolds` and `ReprobeHolds` of the check that follows; `BridgeHolds` ties
the store to the call that has the lock, which is why it is not taken back.
`CodexMoves` sums up what a change of the thread can be; one lemma for each of
the predicates says that it survives that (`TellsKept`, `ProbesKept`,
`PageKept`, …), and one for each step of a call what the step makes of them.

ConversationLog, for every value of the constants:

* `TypeCorrect` — `Spec => []TypeOK`.
* `ServesCommittedAlways`, `ClientsViewSurvivesAlways`,
  `CheckpointsCommittedAlways`, `OneCheckpointSurvivesAlways`,
  `PendingIsCoveredAlways` — `Spec => []…`; `ClientsViewSurvives` is checked by
  the run `conversation_log`, the others are what it rests on — and
  `EvidenceRecoversAlways` for the run's action property.  Nothing is assumed:
  appends may lose their newline and start-up may meet any error.  The first
  three and `EvidenceRecovers` are about states that are not `spoiled`, the case
  in which the code does lose a conversation (above); `OneCheckpointSurvives`
  and `PendingIsCovered` hold regardless.

None of the properties is inductive.  The invariant `IInv` has parts that hold
always: the types; `HolderInv`, what a job has in memory at each place of the
lock's holder; `CopyInv`, a readable checkpoint beside the one that is being
replaced as long as nobody damages a file; and `PendingInv`.  While the journal
is not `spoiled` there is `CleanInv`: what the journal means (`JournalInv`: its
records are `hist`, one per revision after an offset that is 1 for an imported
thread and 0 otherwise; a torn tail is only there while nobody serves from it; no
record follows a cut piece); what the disk is good for at every step of a write
(`DiskInv`: each readable checkpoint is `Replayable` — the journal continues from
it); where the writer is (`WriteInv`: while one checkpoint is being replaced, the
other one or the file moved aside is a replayable one); and what memory holds
(`MemoryInv`).  An append is where `CleanInv` may be lost, and then it says so
(`AppendSpoils`, `SpoiledStays`).  `Init => IInv` and
`IInv /\ [Next]_vars => IInv'` are proved part by part; frame lemmas
(`JournalFrame`, `FilesFrame`, `StatusFrame`) dispose of the actions that leave
a part alone, and `StaysReplayable` carries `Replayable` over every step.

### RetryProofs

BatchApply, for every value of the constants, from `CountsAreNaturals` alone: `TypeCorrect`,
`AppliedOnceAlways`, `AppliedCandidateIsWholeAlways`,
`StateTellsTheOutcomeAlways`, `EveryItemReachesAnOutcomeAlways` and
`FinishedIsWholeAlways`, which joins the second and the fourth: the three
invariants of the run `batch_apply` and what they are made of.

The invariant has four parts over the types.  `CommitInv`: an item was
committed exactly when it has results, a committed item is applied, unverified
or failed — so nothing starts it again, since no failure gets the policy
`retry_same_plan` — and a request that reads an item back reads a committed
one.  `WholeInv`: what a request counted as done (`Handled`: committed or skipped)
is still done when it stores the count.  `LeaseInv`: while no lease ran out
under its holder, a request at work holds the token, alone.  `OutcomeInv`:
nobody is past an item that was not started, and a claimed item has somebody at
work on it.  The frame facts are `OnlyOneMoves` (a step moves one request),
`Progress` (what a step never takes back from an item) and `WhoTouches` (which
actions change an item).

DirectRequests, from `DirectAssumption` alone (ids of messages are not pairs of a
tool and an id): `DeliveriesAreTrueAlways` and `ControlKeepsItsJobAlways`, for any
ids, calls waiting for the lock, lost answers, failed writes, exits and restarts.

`DirectInv` carries the first.  `MessagesOK`: a message is in the log before it
is in anyone's hands, and then in those of one call or one background flow until
it is sent.  `ReceiptsOK`: the disk has no receipt the memory has not, a call
past `RecordPending` has one on disk, and one that has not come to its delivery
has delivered nothing: that is why a second call with the id cannot.  `TruthOK`:
what says completed, or is about to, was delivered, is being started or was
given up.  `Stays`, `Passes`, `Throws` and `Delivers` are the four ways a step
treats these parts, and each action is one of them.

`ControlInv` carries the second, from `DirectInv`.  The hard part is that a
notification names a turn the record may not know yet, so that it has to be
excluded that an old `turn/started` is taken for the begin of the control
action's turn.  `LinesOK`: in the queue and on the wire the begins come in the
order of the turns, and an end after its turn has ended.  `BehindOK`: when the
record has a turn, no earlier begin is on the wire, nor in the queue behind a
call that was made after it began; a call that names the record's turn was, so
when it has the lock none is left at all (`KnowsOK`), and the first begin that
is not of the turn before is the action's own.  `TurnsOK` and `RunsOK`: a record
of a control action names the turn after the one before, which is the last that
was begun, and while it runs the job is at work on it.  `StartsOK`: one turn is
being started at a time, for a job that is no control action's.  All but the
first hold only as long as the job was not settled while a turn was being
started (`cut`); that a late end of another turn does that too came out of the
proof, which did not go through with an excuse for cancellations and exits only.
`Transfers` is what each step does with the lines, `Unmoved` and
`SettlesKeepControl` what most steps do with the rest.

### WorkspaceWriteProofs

`JournalIsSound` (the inductive invariant), `TypeIsCorrect`, `AnswersAreTrue`
(`AnswersHold`) and `PromiseIsKept` (`WrittenOnce`: WorkspaceWrite implements
OneWrite), for any processes, operations, depths, faults, stops and edits.

`TaskInv`: the owner of the lock is alone, and its receipt, its effect and its
snapshot of the target fit the step it is at; a path of directories is made in
order.  `ReceiptInv`: what is stored and what was told agree with the effects,
and a told refusal means nobody works on the operation any more.  `QuotaInv`:
whoever may write an operation's first receipt has room for it.

### ToolsAndClientsProofs

The phone's synchronisation: `SyncIsSound`, `EnteredOnceAlways` (no record
twice in the ledger), `RecordedOnceAlways` (`RecordedOnce`).  One request at most
is waited for, the one whose session has written is alone and the first for its
event, what is shown as synced is entered, at its commit, or `unsaved`.

The dashboard: `DashIsSound`, `PollGoesOnAlways`, `AdoptedIsTheChoiceAlways` (an
action property).  A timer is set, or a poll is under way whose end sets it, and
such a poll is for the group that is chosen, or for none.

The intake: `IntakeIsSound`, `CompanyIsConfirmedAlways`: what is staged, in
memory and on disk, carries the confirmation its class needs, every logged
message was allowed when it came, and the model adds nothing after a company
message.

The PDF worker: `PdfIsSound`, `AnswerIsItsOwnAlways`: jobs are handed out in
order, one at a time, and a thread replies to the job whose input it holds.

Those on the dashboard, the intake and the worker are about the specification of
the one module (`Init /\ [][Next]_vars`), which is what moves in the joined runs.

### HostApprovalProofs

`HostIsSound`, `NoClaimIsLeftAlways` and `PromiseIsKept` (`ExecutedOnce`:
HostApproval implements OneExecution), from `HostApprovalAssumption` alone: for
any reviews, sessions, times to live, journal lengths, crashes and failing
appends.

The invariant has seven parts.  `JournalInv`: a review has one attempt at most,
of a review that was made, and only what was executed ended SUCCEEDED or
FAILED.  `WritingInv`: the line being appended is one its receipt allows and is
that of the operation at the head of the queue; an open store's memory is what
the journal holds.  `CallInv` and `QueueInv`: the one call a session has under
way is the one its host waits for, and a claim is lowered after it, not before.
`HostInv`: a host has executed only after its claim, once.  `ClaimInv`: a claim
that stands is that of the session under way, or is about to be lowered.
For the refinement a review line asks, refuses or stutters; a production line
allows, intends, reports, gives up, refuses or stutters; `HostExecutes`
executes; everything else leaves what OneExecution sees alone.

### BridgeLifecycleProofs

`BridgeIsSound` (the inductive invariant), `TypeIsCorrect`,
`ApprovedIsFencedAlways`, `ReloadIsExecutedOnce` (`ExecutedOnce`: the Bridges,
the messages and the owner implement OneExecution), `UnknownStaysClosedAlways`
and `AppServerIsKnownAlways`: for any calls, requests, processes, faults and
users, and whenever a message arrives or an exit is heard.

`ApprovedIsFenced` is not inductive: the fence is set before the approval is
sent, and the approval may arrive after everything else changed.  `FenceInv`
adds that an approval which was sent, or is late, finds its fence as long as
its receipt is not over.  `OwnerInv`: one receipt stands at a time; what the
owner executes is `dispatching` or `running` and was invoked exactly from the
stage `stop` on; an early receipt was never executed; no target lies ahead of
the pid — so a new Bridge is no receipt's target.  `DownInv`: a Bridge that is
gone has no fence, shutdown or messages.  `ShutInv`: from the drain on the fence
is the shutdown's own, and `closed` is told of a Bridge that no longer accepts.
From `OwnerInv` and `ShutInv` it also follows that the owner's own reload is
never told `closed` (the fence would have to be both its request's and the
shutdown's), which is the disagreement `UnknownHasACause` is about.  `SpawnInv`:
processes are numbered as they are spawned.

For the refinement, a step moves one receipt at most (`OneMoves`, `MayBecome`),
completes only what was executed (`Progresses`), or is `TickInvokes`.

For the App Server, `ServerInv`: of the processes that run untold and are not
`forgotten` there is only the last, and while none is being started it is the
child and ready — an exit of another at that time makes it forgotten, an exit
during its handshake kills it; once the HTTP server is closed, without stray
calls, nothing starts, no job is active and close waits for the process that is
there.

### JobLedgerProofs

`StoreIsSound` (the inductive invariant of the store), `TypeIsCorrect`,
`AnsweredSurvivesAlways`, `RetriesAreHarmlessAlways`,
`CursorMissesNothingAlways`; and of the properties no run checks
`KeyDispatchedOnceAlways`, `MessagesKeptAlways`, `LogReachesManifestAlways`,
`RestartSettlesAlways` and `DrainSeesAdmissionsAlways`: for any keys, threads,
messages, results, page and bounds.

`StoreInv` is what the lock's holder may rely on.  `OpInv`: whoever is past
create works on a job that is in the map, and create on a directory of its own
whose key is in no index.  `RecordInv`: the records in memory are those of the
readable manifests, with the same keys and a number that is not lower (a failed
write leaves memory ahead of the disk), and every key on disk is indexed except
while the process is down.  From it: a second create of a key is refused, since
`KeyInv` puts the key of every dispatched job on disk.  `LogInv`: what is about
to be written to a manifest is already in the log, so `LogReachesManifest`
survives the crash between the two.  `SettleInv`: during start-up memory and
disk differ in the job being settled only.

`MessageInv` says that the client ids in memory are those of the lines of
`messages.jsonl`, and that a message being stored was not accepted before.  It
is kept by `initialize` only if all lines are read back, which is the
hypothesis `[]FitsWindow` of `RetriesAreHarmlessAlways` and
`MessagesKeptAlways`: `initialize` reads the last 200 messages of a job, and an
id older than that is accepted again after a restart.  The run satisfies the
hypothesis; `KeyDispatchedOnceAlways` does not need it.

`ClientInv` is about the reader, who holds no lock: what it was given are the
lines up to its cursor, and a page that was read and not yet answered is the
next lines, with no gap, whatever was appended since (`LogGrows`).  That the
page has no gap is `FirstAreFirst`; that its last line exists is `HasLast`.
`InOrder` stays a condition of the property itself, as in the run: a crash
between an event and its manifest makes start-up use the number again.


### TurnControlProofs

`TurnIsSound` (the inductive invariant), `DecisionsHoldAlways`,
`NothingIsForgottenAlways` and `RecoveryNeverRegressesAlways` (an action
property): for any number of requests, pieces of output, messages,
cancellations, decisions, recoveries, exits and faults, from
`TurnControlAssumption` alone.  TLC checked the invariant on the instance of
the run before it was proved.

None of the three properties is inductive, because each is about something that
waits in a queue while the record changes under it.  `PlaceInv` says where a
request may be: on the wire, in one task of the lock's queue — in
`liveApprovals` too once the task is past its check, unless the process has
exited — or in `liveApprovals` alone, and in none of them once it was answered.
So neither the decline of a failed handler nor the second decision of one
approval finds anything to answer.  `KeptInv` is the other half: until it is
answered it is in one of them.  `DecisionInv` carries the answer from the step
that sends it (`DecisionSent`) to the step that stores it, past a turn's end, a
cancellation or an exit in between.

`StatusInv` says that a queued or preparing job has a flow that will start its
turn or settle it; that `execute` runs on a fresh job only; that approvals are
pending only in a turn, and in none that a message is about to replace.
`EndInv` follows the end of the record's turn: it is still to be said, on the
wire, or in the queue; while a response of `turn/start` is on the wire its turn
runs or its end is behind it (`EndsFollow`), which is why an end is never
handled before the turn is known.  Both hold while nothing failed and the App Server stayed.

For the recovery, `ReadInv` says there is one, and in which of its stages its
task, line and task are.  `OutputInv` counts the pieces of output of a turn that
are shown, queued and on the wire against what was said, and the same for the
text a history brings with the pieces behind it on the wire.  `SnapshotInv` says
that while the baseline is unchanged the history has everything that is shown or
queued, and no piece is queued behind its second half.  A piece that is handled
between the two halves moves the epoch, which is what ends the claim; one that
was queued before it is in the history.  The first needs the second: a history
that is applied is shown, and must not exceed what was said.

### Left to TLC

* Liveness: `PendingIsFlushed`, `ConsumedIsSettled`, `EveryClientIsServed`,
  `ConsoleCatchesUp`, `HistoryIsShown`, `JobSettles`, `FenceIsReleased`.  The
  provers installed have no ENABLED and no fairness rules to work with.
* What recursion over data computes: the windows, budgets, patches, parsers and
  walks (`SearchesAreComplete`, `WindowsAreWhole`, `DiffIsComplete`,
  `TextSurvives`, `AssetsAreWhole`) over bounded inputs.  Induction over
  sequences needs the library theorems with an operator parameter, which no
  installed prover can instantiate.  `DoneOnceAsShown` ranges over tables of
  some eighty tools: a case split rather than an argument.
* Not proved: `ConsoleIsRight` (ConversationDelivery), `DoneOnceAsShown`
  (StudyAdapters).  They stay with TLC.

Stated in a module, true of it, and in no run of their own:
`MessagesKept`, `LogReachesManifest`, `RestartSettles` and `DrainSeesAdmissions`
(JobLedger, proved), `ServesCommitted`, `CheckpointsCommitted`, `OneCheckpointSurvives`,
`PendingIsCovered` (ConversationLog, proved), `AppliedCandidateIsWhole` and
`EveryItemReachesAnOutcome` (BatchApply, proved), `EnteredOnce`
(ToolsAndClientsProofs, proved), `UnknownStaysClosed` (BridgeLifecycle, proved).

## Not modelled, and why

* Memory Core's change sets, records, collections, search, API and viewer, and
  the Personal Asset OS's reporting: single transactions whose atomicity is
  SQLite's, and arithmetic; nothing interleaves within them that the database
  does not order.
* The Bridge's privileged broker: a synthetic fixture in this commit, whose
  production entry answers that it is not configured.
* The supervisor of the other components, deployments, tray, tunnel runtime,
  scripts: Windows processes and files seen through PowerShell, with no state
  machine of their own beyond start and stop.
* Text: redaction, formatting, schemas, size limits of results, contents of
  artifacts, drawing.
* Two hazards have no property: the turn a direct message names, compared with
  the record as it was read when the call took the lock (`controller.ts:697`,
  described above), and the pairing a late refusal deletes
  (`mobile-connection.ts:245`).
* A torn last line of the job's logs.  In `events.jsonl` it is not read at
  start-up; every later reading of the job's events fails (`job-store.ts:847`),
  and the next append joins it.  In `messages.jsonl` it makes the job's start-up
  give up, which is swallowed (`job-store.ts:188`): what such a job then does is in
  ConversationLog (`RestartThrows`), the messages themselves are not.
* Telemetry, usage, ranking and listing of conversations.

## Plan

1. A proof of `ConsoleIsRight`, which is about windows of sequences.
2. A property for the torn line of `events.jsonl`, with the readings that fail.
