------------------------ MODULE ConversationDelivery ------------------------
(***************************************************************************)
(* How the conversation of a job reaches the console (codex_bridge/src:    *)
(* conversation-delivery.ts, conversation-projection.ts, job-store.ts      *)
(* snapshot and updateConversation, controller.ts, server.ts,              *)
(* unified-conversation-registry.ts and web/codex-console.html).           *)
(*                                                                         *)
(* The App Server keeps the native history of a thread and tells the       *)
(* Bridge of each change.  The Bridge reduces what it is told to a         *)
(* projection: streamed changes are collected and committed by a timer,    *)
(* others at once, and each commit is a revision with a patch.  The last   *)
(* patches stay in memory.  The console polls with the revision it shows   *)
(* and is answered with patches or with the whole projection; calls of     *)
(* its user are answered in between.                                       *)
(*                                                                         *)
(* A projection is abstracted to what each item holds: how much of it was  *)
(* streamed and whether it still is.  The order of items, their turns,     *)
(* times, token usage and limits on text are left out.  A patch weighs as  *)
(* much as it has items.  The durability of a commit is the subject of     *)
(* ConversationLog and the races of native reads that of TurnControl: here *)
(* both are single steps.                                                  *)
(***************************************************************************)
EXTENDS Naturals, Sequences, FiniteSets, SequencesExt

CONSTANTS
  UserItem,     \* the item of the message the job was created with
  AgentItems,   \* items the native history keeps and streams
  LiveItems,    \* items that only notifications tell of: turn/diff/updated
  MaxText,      \* how much is streamed of an item (bounds the model)
  HotEntries,   \* CONVERSATION_DELIVERY.hotEntries
  HotSize,      \* hotBytes
  MaxDeltas,    \* maxDeltaRevisions
  MaxDeltaSize, \* maxDeltaBytes
  MaxReplayLag, \* maxReplayLag
  MaxPages,     \* maxCatchUpPages
  MaxRevision,  \* revisions (bounds the model)
  MaxLost,      \* notifications that do not reach the job (bounds the model)
  MaxFault,     \* lost calls and evictions by other jobs (bounds the model)
  MaxRestart,   \* restarts of the Bridge (bounds the model)
  MaxActs       \* calls the user makes once the job is shown (bounds the model)

Items == {UserItem} \cup AgentItems \cup LiveItems
NativeItems == Items \ LiveItems

ASSUME DeliveryAssumption ==
  /\ UserItem \notin AgentItems \cup LiveItems /\ AgentItems \cap LiveItems = {}
  /\ IsFiniteSet(Items)
  /\ MaxText \in Nat \ {0} /\ HotEntries \in Nat /\ HotSize \in Nat
  /\ MaxDeltas \in Nat \ {0} /\ MaxDeltaSize \in Nat /\ MaxReplayLag \in Nat /\ MaxPages \in Nat
  /\ MaxRevision \in Nat /\ MaxLost \in Nat /\ MaxFault \in Nat /\ MaxRestart \in Nat /\ MaxActs \in Nat

VARIABLES
  native,    \* the items of the App Server's history
  ended,     \* the turn is over there
  status,    \* the job's: "active" or "terminal"
  items,     \* #conversations: the committed items
  synced,    \* freshness.synchronized
  revision,
  pending,   \* #pendingConversations: the items that are not committed yet
  streaming, \* there are such items
  timer,     \* #conversationTimers: "none", or the handle of one that is "armed" (or "cleared")
  hot,       \* RecentConversationChanges of the job
  told,      \* the items every revision committed (history)
  final,     \* the revision at which the job became terminal (history)
  view,      \* the console's state.selectedJob
  recover,   \* state.recoverSnapshot
  pages,     \* state.catchUpPages
  calls,     \* the poll and the call of the user, which may be out at the same time
  lost, faults, restarts, acts

store == <<status, items, synced, revision, pending, streaming, timer, hot, told, final>>
console == <<view, recover, pages>>
bounds == <<lost, faults, restarts, acts>>
vars == <<native, ended, store, console, calls, bounds>>

-----------------------------------------------------------------------------
(* Items and patches                                                       *)

Contents == [text : 0 .. MaxText, open : BOOLEAN]
Absent == [text |-> 0, open |-> FALSE]
Nothing == [i \in Items |-> Absent]
Present(c) == {i \in Items : c[i] # Absent}

(* appendDelta: more of an item is there, and it is open *)
Streamed(c, i) ==
  [c EXCEPT ![i] = [text |-> IF c[i].text = MaxText THEN MaxText ELSE c[i].text + 1, open |-> TRUE]]
(* item/completed: the whole of it is there *)
Whole == [text |-> MaxText, open |-> FALSE]
Completed(c, i) == [c EXCEPT ![i] = Whole]
(* turn/completed: nothing is open any more *)
Settled(c) == [i \in Items |-> [c[i] EXCEPT !.open = FALSE]]
(* hydrateConversationProjection: what the native history has and nothing else *)
Hydrated == [i \in Items |-> IF i \in NativeItems THEN [native[i] EXCEPT !.open = FALSE] ELSE Absent]

(* Mutant: what was removed is not noticed *)
PatchWithoutRemovals(old, new, at) ==
  [revision |-> at, replaceAll |-> FALSE,
   items |-> [i \in {j \in Present(new) : old[j] # new[j]} |-> new[i]]]

(* conversationPatch: the items that changed, or all when one is gone *)
Patch(old, new, at) ==
  LET removed == Present(old) \ Present(new) # {} IN
  [revision |-> at, replaceAll |-> removed,
   items |-> [i \in {j \in Present(new) : removed \/ old[j] # new[j]} |-> new[i]]]

Size(patch) == 1 + Cardinality(DOMAIN patch.items)
SizeOf(patches) == FoldSeq(LAMBDA patch, n : n + Size(patch), 0, patches)

(* RecentConversationChanges.add *)
Added(patch) ==
  LET all == Append(hot, patch)
      fits == {k \in 1 .. Len(all) + 1 :
                 /\ Len(all) + 1 - k <= HotEntries
                 /\ SizeOf(SubSeq(all, k, Len(all))) <= HotSize}
  IN SubSeq(all, Min(fits), Len(all))

Miss == [hit |-> FALSE, page |-> <<>>]
Hit(page) == [hit |-> TRUE, page |-> page]

(* The patches a page has room for *)
Page(entries) ==
  SubSeq(entries, 1, Max({k \in 0 .. Len(entries) :
    k <= MaxDeltas /\ SizeOf(SubSeq(entries, 1, k)) <= MaxDeltaSize}))

(* RecentConversationChanges.read *)
Read(after) ==
  LET page == Page(SelectSeq(hot, LAMBDA patch : patch.revision > after)) IN
  IF after = revision THEN Hit(<<>>)
  ELSE IF after > revision \/ revision - after > MaxReplayLag \/ page = <<>> THEN Miss
  ELSE IF \E k \in DOMAIN page : page[k].revision # after + k THEN Miss
  ELSE Hit(page)

-----------------------------------------------------------------------------
(* Commits                                                                 *)

(* What the next change starts from *)
Current == IF streaming THEN pending ELSE items

(* Publishes the next revision *)
Publish(new, fresh) ==
  /\ revision < MaxRevision
  /\ items' = new /\ synced' = fresh
  /\ revision' = revision + 1
  /\ hot' = Added(Patch(items, new, revision + 1))
  /\ told' = Append(told, new)
  /\ streaming' = FALSE /\ pending' = Nothing

(* Mutant: the timer is cleared and its handle kept *)
CommitKeepsHandle(new, fresh) == Publish(new, fresh) /\ timer' = IF timer = "armed" THEN "cleared" ELSE timer

(* updateConversation *)
Commit(new, fresh) == Publish(new, fresh) /\ timer' = "none"

(* The bound on revisions is not to cut off the job's end *)
Room == revision + 2 < MaxRevision

(* applyConversationNotification, coalesced *)
Collect(new) ==
  /\ pending' = new /\ streaming' = TRUE
  /\ timer' = IF timer = "none" THEN "armed" ELSE timer
  /\ UNCHANGED <<items, synced, revision, hot, told>>

(* An item grows or is finished, and the Bridge is told *)
ItemStreams(i) ==
  /\ status = "active" /\ ~ended /\ i \in AgentItems \cup LiveItems
  /\ Room
  /\ Current[i].text < MaxText /\ native[i].text < MaxText
  /\ native' = IF i \in NativeItems THEN Streamed(native, i) ELSE native
  /\ Collect(Streamed(Current, i))
  /\ UNCHANGED <<ended, status, final, console, calls, bounds>>

ItemCompletes(i) ==
  /\ status = "active" /\ ~ended /\ i \in NativeItems
  /\ Room
  /\ native[i] # Whole
  /\ native' = Completed(native, i)
  /\ Commit(Completed(Current, i), synced)
  /\ UNCHANGED <<ended, status, final, console, calls, bounds>>

(* The native history goes on and the job's notifications do not tell it:  *)
(* a notification is not matched to the job, or the thread is continued in *)
(* the desktop application after the job is over                           *)
ItemIsMissed(i) ==
  /\ lost < MaxLost /\ lost' = lost + 1
  /\ i \in NativeItems /\ native[i] # Whole
  /\ native' = Completed(native, i)
  /\ UNCHANGED <<ended, store, console, calls, faults, restarts, acts>>

(* flushConversation, by the timer *)
TimerFires ==
  /\ timer = "armed"
  /\ Commit(pending, synced)
  /\ UNCHANGED <<native, ended, status, final, console, calls, bounds>>

(* turn/completed *)
TurnEnds ==
  /\ status = "active" /\ ~ended
  /\ ended' = TRUE
  /\ Commit(Settled(Current), synced)
  /\ UNCHANGED <<native, status, final, console, calls, bounds>>

(* The job becomes terminal after what is pending was flushed: complete *)
JobCompletes ==
  /\ status = "active" /\ ended /\ ~streaming
  /\ status' = "terminal" /\ final' = revision
  /\ UNCHANGED <<native, ended, items, synced, revision, pending, streaming, timer, hot, told, console, calls, bounds>>

(* hydrateConversation *)
Hydrates ==
  /\ Room
  /\ Commit(Hydrated, TRUE)
  /\ UNCHANGED <<native, ended, status, final, console, calls, bounds>>

(* The native history cannot be read: markConversationFreshness *)
HydrationFails ==
  /\ Room /\ synced /\ status = "terminal"
  /\ Commit(Current, FALSE)
  /\ UNCHANGED <<native, ended, status, final, console, calls, bounds>>

(* Patches of other jobs take the room *)
OtherJobsEvict ==
  /\ faults < MaxFault /\ faults' = faults + 1
  /\ hot # <<>> /\ hot' = <<>>
  /\ UNCHANGED <<native, ended, status, items, synced, revision, pending, streaming, timer, told, final>>
  /\ UNCHANGED <<console, calls, lost, restarts, acts>>

-----------------------------------------------------------------------------
(* Answers                                                                 *)

NoView == [shown |-> FALSE]
NoCall == [state |-> "none"]

(* mergeConversationMessages: before the history was read, a message whose *)
(* item is not there is shown as an item of a turn of its own              *)
Stands == ~synced /\ items[UserItem] = Absent

(* snapshot, with the whole projection *)
Snapshot ==
  [full |-> TRUE, base |-> "bridge", items |-> items, message |-> Stands, changes |-> <<>>,
   next |-> revision, more |-> FALSE, status |-> status]

(* snapshot, with patches *)
Delta(after, page) ==
  LET next == after + Len(page) IN
  [full |-> FALSE, base |-> "bridge", items |-> Nothing, message |-> FALSE, changes |-> page,
   next |-> next, more |-> next < revision, status |-> status]

(* nativeBackedJobView: a projection made of the native history has        *)
(* revision 1, whatever the job's is                                       *)
NativeView ==
  [full |-> TRUE, base |-> "native", items |-> Hydrated, message |-> FALSE, changes |-> <<>>,
   next |-> 1, more |-> FALSE, status |-> status]

(* JobStore.snapshot *)
Answer(call) ==
  IF call.kind = "unified" THEN NativeView
  ELSE IF call.forced THEN Snapshot
  ELSE LET read == Read(call.after) IN IF read.hit THEN Delta(call.after, read.page) ELSE Snapshot

Callers == {"poll", "user"}

Asks(c, kind, after, forced) ==
  /\ calls[c] = NoCall
  /\ calls' = [calls EXCEPT ![c] =
       [state |-> "asked", kind |-> kind, after |-> after, forced |-> forced, revision |-> 0]]

(* pollSelectedJob: a job that is over is read through the registry unless *)
(* patches are missing; patches that do not come fast enough are given up  *)
Polls ==
  /\ view.shown
  /\ IF view.status = "terminal" /\ ~view.more
       THEN Asks("poll", "unified", 0, FALSE)
       ELSE \E slow \in BOOLEAN :
              /\ slow => pages > 0
              /\ IF recover \/ pages >= MaxPages \/ slow
                   THEN Asks("poll", "job", 0, TRUE) ELSE Asks("poll", "job", view.revision, FALSE)
  /\ UNCHANGED <<native, ended, store, console, bounds>>

(* The user opens the job, sends, steers, decides or cancels, and the      *)
(* answer holds a snapshot of the job; or selects it in the list           *)
Acts(kind) ==
  /\ acts < MaxActs \/ ~view.shown
  /\ acts' = Min({acts + 1, MaxActs})
  /\ Asks("user", kind, 0, TRUE)
  /\ UNCHANGED <<native, ended, store, console, lost, faults, restarts>>

(* The Bridge begins to answer: events and messages are read from disk *)
Begins(c) ==
  /\ calls[c].state = "asked"
  /\ calls' = [calls EXCEPT ![c].state = "reading",
                                 ![c].revision = IF calls[c].kind = "job" THEN revision ELSE 0]
  /\ UNCHANGED <<native, ended, store, console, bounds>>

Answers(c) ==
  /\ calls[c].state = "reading"
  /\ calls' = [calls EXCEPT ![c] = [state |-> "answered", after |-> calls[c].after, answer |-> Answer(calls[c])]]
  /\ UNCHANGED <<native, ended, store, console, bounds>>

-----------------------------------------------------------------------------
(* The console                                                             *)

Shows(answer) ==
  [shown |-> TRUE, base |-> answer.base, items |-> answer.items, message |-> answer.message,
   revision |-> answer.next, more |-> answer.more, status |-> answer.status]

(* applyConversationChanges, one patch.  The message's own item is dropped *)
(* with all others, or when a patch has its native item in the same turn:  *)
(* it is in a turn of its own.                                             *)
Applied(old, patch) ==
  [old EXCEPT
     !.items = [i \in Items |-> IF i \in DOMAIN patch.items THEN patch.items[i]
                                ELSE IF patch.replaceAll THEN Absent ELSE old.items[i]],
     !.message = old.message /\ ~patch.replaceAll,
     !.revision = patch.revision]

Follows(changes, from) == \A k \in DOMAIN changes : changes[k].revision = from + k

(* mergeJob's guard: the answer is older than what is shown *)
Older(answer) == answer.next < view.revision \/ (answer.status = "active" /\ view.status = "terminal")

(* mergeJob: what the console shows, and whether it asks for a snapshot *)
Merge(answer, again) ==
  IF ~view.shown THEN
    /\ view' = IF answer.full THEN Shows(answer) ELSE view
    /\ recover' = FALSE
  ELSE IF Older(answer) THEN
    /\ view' = view /\ recover' = again
  ELSE IF answer.full THEN
    /\ view' = Shows(answer) /\ recover' = again
  ELSE IF ~Follows(answer.changes, view.revision) THEN
    /\ view' = view /\ recover' = TRUE
  ELSE
    /\ view' = [FoldSeq(LAMBDA patch, shown : Applied(shown, patch), view, answer.changes)
                  EXCEPT !.more = answer.more, !.status = answer.status]
    /\ recover' = again

Receives(c) ==
  /\ calls[c].state = "answered"
  /\ Merge(calls[c].answer, IF c = "poll" THEN FALSE ELSE recover)
  /\ pages' = IF c = "poll" THEN IF view'.more THEN Min({pages + 1, MaxPages}) ELSE 0
              ELSE IF view.shown THEN pages ELSE 0
  /\ calls' = [calls EXCEPT ![c] = NoCall]
  /\ UNCHANGED <<native, ended, store, bounds>>

Fails(c) ==
  /\ calls' = [calls EXCEPT ![c] = NoCall]
  /\ recover' = (c = "poll" \/ recover)
  /\ UNCHANGED <<view, pages>>

(* A call or its answer is lost: a poll is followed by one that recovers *)
CallIsLost(c) ==
  /\ faults < MaxFault /\ faults' = faults + 1
  /\ calls[c] # NoCall
  /\ Fails(c)
  /\ UNCHANGED <<native, ended, store, lost, restarts, acts>>

(* The Bridge ends and starts: what was not committed is gone, the patches *)
(* are not kept, and a job that was active is interrupted                  *)
Restart ==
  /\ restarts < MaxRestart /\ restarts' = restarts + 1
  /\ pending' = Nothing /\ streaming' = FALSE /\ timer' = "none" /\ hot' = <<>>
  /\ status' = "terminal"
  /\ final' = IF status = "active" THEN revision ELSE final
  /\ calls' = [c \in Callers |-> NoCall]
  /\ recover' = (recover \/ calls["poll"] # NoCall)
  /\ UNCHANGED <<native, ended, items, synced, revision, told, view, pages, lost, faults, acts>>

-----------------------------------------------------------------------------

Init ==
  /\ native = Nothing /\ ended = FALSE
  /\ status = "active" /\ items = Nothing /\ synced = FALSE /\ revision = 0
  /\ pending = Nothing /\ streaming = FALSE /\ timer = "none" /\ hot = <<>>
  /\ told = <<Nothing>> /\ final = 0
  /\ view = NoView /\ recover = FALSE /\ pages = 0
  /\ calls = [c \in Callers |-> NoCall]
  /\ lost = 0 /\ faults = 0 /\ restarts = 0 /\ acts = 0

BridgeNext ==
  \/ \E i \in Items : ItemStreams(i) \/ ItemCompletes(i) \/ ItemIsMissed(i)
  \/ TimerFires \/ TurnEnds \/ JobCompletes \/ Hydrates \/ HydrationFails
  \/ OtherJobsEvict \/ Restart

CallNext(c) == Begins(c) \/ Answers(c) \/ Receives(c) \/ CallIsLost(c)

Next ==
  \/ BridgeNext
  \/ Polls
  \/ \E kind \in {"job", "unified"} : Acts(kind)
  \/ \E c \in Callers : CallNext(c)

(* Timers fire and calls are answered; the console is visible and polls.   *)
(* The thread, the native reads and the user owe nothing.                  *)
Fairness ==
  /\ WF_vars(TimerFires)
  /\ WF_vars(Polls)
  /\ \A c \in Callers : WF_vars(Begins(c)) /\ WF_vars(Answers(c)) /\ WF_vars(Receives(c))

Spec == Init /\ [][Next]_vars /\ Fairness

-----------------------------------------------------------------------------

(* Every variable stays in its range, and the patches kept are within      *)
(* their limits.                                                           *)
TypeOK ==
  /\ native \in [Items -> Contents] /\ items \in [Items -> Contents] /\ pending \in [Items -> Contents]
  /\ {ended, synced, streaming, recover} \subseteq BOOLEAN
  /\ status \in {"active", "terminal"} /\ timer \in {"none", "armed", "cleared"}
  /\ revision \in 0 .. MaxRevision /\ final \in 0 .. revision /\ pages \in 0 .. MaxPages
  /\ Len(told) = revision + 1
  /\ Len(hot) <= HotEntries /\ SizeOf(hot) <= HotSize
  /\ view.shown => view.items \in [Items -> Contents] /\ view.revision \in Nat

(* A console that shows a revision of the Bridge shows what the Bridge     *)
(* committed under that number and nothing that was pending, whichever     *)
(* patches, pages, snapshots and restarts led it there (conversationPatch, *)
(* applyConversationChanges; job-store.ts:638, "Pending state is never     *)
(* exposed with a durable cursor").                                        *)
ShowsRevision ==
  view.shown /\ view.base = "bridge" => view.items = told[view.revision + 1]

(* An answer with patches begins at the cursor that was asked for, has no  *)
(* gap and turns each revision into the next one, whatever the memory of   *)
(* patches has evicted (RecentConversationChanges.read).                   *)
AnswersAreGapless ==
  \A c \in Callers :
    calls[c].state = "answered" /\ ~calls[c].answer.full =>
      LET changes == calls[c].answer.changes IN
      /\ Follows(changes, calls[c].after)
      /\ \A k \in DOMAIN changes :
           changes[k] = Patch(told[changes[k].revision], told[changes[k].revision + 1], changes[k].revision)

(* A console that learns that the job is over and that nothing is missing  *)
(* shows the revision at which it ended: the status is never ahead of the  *)
(* conversation, although the answer is put together over several reads    *)
(* (JobStore.snapshot; complete).                                          *)
FinalIsShown ==
  view.shown /\ view.base = "bridge" /\ view.status = "terminal" /\ ~view.more => view.revision >= final

(* The console shows the conversation as it was committed, and the last of  *)
(* it once it is told that the job is over, by answers without gaps.        *)
ConsoleIsRight == ShowsRevision /\ AnswersAreGapless /\ FinalIsShown

(* While the job is active, a console shows all there is again and again:  *)
(* what was streamed is committed and every commit arrives, after lost     *)
(* calls, evicted patches and restarts (pollSelectedJob, the flush timer). *)
ConsoleCatchesUp ==
  []<>(view.shown => view.status = "terminal" \/ (~streaming /\ view.revision >= revision))

(* The console is refreshed after the job is over, as                      *)
(* docs/ConversationModel.md says ("the terminal thread is checked every 20 seconds"): it comes *)
(* to show what the native history has.                                    *)
TerminalIsRefreshed ==
  []<>(view.shown /\ status = "terminal" => \A i \in NativeItems : view.items[i].text = native[i].text)

(* The message of the user is not shown twice, as an item of its own and   *)
(* as the native item that was made of it.                                 *)
MessageShownOnce == view.shown => ~(view.message /\ view.items[UserItem] # Absent)
=============================================================================
