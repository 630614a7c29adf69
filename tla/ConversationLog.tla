--------------------------- MODULE ConversationLog ---------------------------
(***************************************************************************)
(* Durability of one job's conversation projection in the Codex Bridge     *)
(* (codex_bridge/src/job-store.ts).                                        *)
(*                                                                         *)
(* JobStore keeps the projection in memory, an append-only revision        *)
(* journal (conversation-events.jsonl), an active checkpoint               *)
(* (conversation.json) and one backup (conversation.json.bak).  A revision *)
(* is appended to the journal and synced, published in memory, and only    *)
(* then promoted into the checkpoint by writing a temporary file, saving   *)
(* the old checkpoint as the backup and renaming.  On Windows a rename     *)
(* onto an existing file may be refused (EPERM), and the file is moved     *)
(* aside first.  Start-up rebuilds the projection from whatever survived.  *)
(*                                                                         *)
(* All updates of a job hold its conversation lock, so one program counter *)
(* serves the job.  A crash may fall between any two file operations.      *)
(***************************************************************************)
EXTENDS Naturals, Sequences

CONSTANTS
  MaxInput,   \* notifications received over all lives (bounds the model)
  MaxCrash,   \* crashes (bounds the model)
  MaxFault,   \* failed file operations (bounds the model)
  MaxDamage   \* checkpoint files damaged while the process is down (bounds the model)

ASSUME ConversationLogAssumption ==
  /\ MaxInput \in Nat
  /\ MaxCrash \in Nat
  /\ MaxFault \in Nat
  /\ MaxDamage \in Nat

VARIABLES
  files,      \* the two checkpoint files, as readProjectionCandidate sees them
  journal,    \* the records of the journal, in file order
  tail,       \* how the journal file ends
  pc,         \* where the holder of the conversation lock is
  conv,       \* conversations.get(jobId)
  loaded,     \* conversations.has(jobId)
  failed,     \* conversationFailures.has(jobId)
  needCk,     \* pendingConversationCheckpoints.has(jobId)
  pending,    \* items of pendingConversations.get(jobId)
  hasPending, \* pendingConversations.has(jobId)
  timer,      \* conversationTimers.has(jobId)
  flushFailed,\* conversationFlushFailures.has(jobId)
  op,         \* the update in progress and whether the timer started it
  next,       \* the projection being committed
  target,     \* the argument of writeConversation
  cont,       \* what follows writeConversation
  bak,        \* the argument of writeConversationBackup
  afterBak,   \* what follows writeConversationBackup
  swap,       \* the file moved aside by promoteConversationFile
  input,      \* notifications received so far
  hist,       \* hist[r] is the content of revision r once the journal holds it
  published,  \* the projection of the highest revision shown to a client
  spoiled,    \* history: an append took a record with it, or had no conversation
  crashes, faults, damages

disk == <<files, journal, tail>>
pend == <<pending, hasPending, timer, flushFailed>>
mem == <<conv, loaded, failed, needCk>>
call == <<op, next, target, cont, bak, afterBak, swap>>
ghost == <<input, hist, published, spoiled, crashes, faults, damages>>
vars == <<disk, pend, mem, call, ghost, pc>>

-----------------------------------------------------------------------------
(* Projections, patches and the journal *)

Items == SUBSET (1..MaxInput)
Projection == [rev : Nat, items : Items]
EmptyProjection == [rev |-> 0, items |-> {}]

Valid(p) == [state |-> "valid", proj |-> p]
MissingFile == [state |-> "missing", proj |-> EmptyProjection]
CorruptFile == [state |-> "corrupt", proj |-> EmptyProjection]
Candidate == [state : {"valid", "missing", "corrupt"}, proj : Projection]

Patch == [rev : Nat \ {0}, replaceAll : BOOLEAN, items : Items]

(* A patch carries the changed items, or every item when one was removed. *)
conversationPatch(previous, new) ==
  LET removed == ~ (previous.items \subseteq new.items)
  IN [rev |-> new.rev, replaceAll |-> removed,
      items |-> IF removed THEN new.items ELSE new.items \ previous.items]

applyConversationPatch(current, patch) ==
  [rev |-> patch.rev,
   items |-> IF patch.replaceAll THEN patch.items
             ELSE current.items \cup patch.items]

(* readConversationJournal accepts the next revision or an identical        *)
(* duplicate of the last one.                                               *)
Contiguous(records) ==
  \A i \in 1..(Len(records) - 1) :
    records[i + 1].rev = records[i].rev + 1 \/ records[i + 1] = records[i]

(* What an append leaves in the file: nothing, a part of the record, all of *)
(* it but the newline, or the whole line.  After a record without newline   *)
(* the bytes continue that record's line: the joined line can be read as    *)
(* neither record, and one that was cut is cut off as a whole.  A line with *)
(* a newline that joins two records ("glued"), or a piece and a record      *)
(* ("broken"), stays.                                                       *)
AppendOutcomes == {"none", "torn", "bare", "full"}

TailAfter(outcome) ==
  CASE outcome = "none" \/ tail \in {"glued", "broken"} -> tail
    [] outcome # "none" /\ tail = "complete" ->
         IF outcome = "full" THEN "complete" ELSE outcome
    [] outcome = "full" /\ tail \in {"bare", "torn"} ->
         IF tail = "bare" THEN "glued" ELSE "broken"
    [] OTHER -> "torn"

AppendConversationJournal(patch, outcome) ==
  LET whole == outcome = "full" \/ (outcome = "bare" /\ tail = "complete")
      takesRecord == tail = "bare" /\ outcome \in {"torn", "bare"}
  IN
  /\ journal' = IF whole THEN Append(journal, patch)
                ELSE IF takesRecord THEN SubSeq(journal, 1, Len(journal) - 1)
                ELSE journal
  /\ tail' = TailAfter(outcome)
  /\ hist' = IF ~ whole THEN hist
             ELSE IF patch.rev <= Len(hist) THEN [hist EXCEPT ![patch.rev] = next.items]
             ELSE Append(hist, next.items)
  /\ spoiled' = (spoiled \/ takesRecord \/ (outcome # "none" /\ ~ loaded))

(* The projection a reader is given: conversations.get(jobId) ?? empty. *)
Current == IF loaded THEN conv ELSE EmptyProjection

Idle == pc = "idle"
Running == pc # "down"
FileFault == faults < MaxFault /\ faults' = faults + 1

-----------------------------------------------------------------------------
(* writeConversation and writeConversationBackup, one file operation a step *)

Callers == {"repair", "commit", "recover", "recoverBackup"}

(* The caller goes on once its checkpoint is written. *)
CheckpointWritten(caller) ==
  /\ needCk' = IF caller \in {"repair", "commit"} THEN FALSE ELSE needCk
  /\ flushFailed' = IF caller = "commit" THEN FALSE ELSE flushFailed
  /\ pc' = IF caller = "repair" THEN "update" ELSE "idle"
  /\ UNCHANGED <<conv, loaded, failed, pending, hasPending, timer>>

(* Its exception leaves writeConversation.  A running update rejects; the   *)
(* flush timer records that.  During start-up the job stays registered but  *)
(* no conversation is set for it and no failure is recorded.                *)
CheckpointFailed(caller) ==
  /\ pc' = "idle"
  /\ UNCHANGED <<failed, needCk, pending, hasPending, timer>>
  /\ IF caller \in {"repair", "commit"}
     THEN /\ flushFailed' = (flushFailed \/ op = "timer")
          /\ UNCHANGED <<conv, loaded>>
     ELSE /\ conv' = EmptyProjection
          /\ loaded' = FALSE
          /\ UNCHANGED flushFailed

(* Any file operation of a checkpoint write may throw. *)
WriteFails ==
  /\ pc \in {"stage", "backup", "promote", "ensureBackup"}
  /\ FileFault
  /\ CheckpointFailed(cont)
  /\ UNCHANGED <<disk, call, input, hist, spoiled, published, crashes, damages>>

(* The temporary file is written and validated; a valid active checkpoint   *)
(* is to be saved first.                                                    *)
WriteConversation ==
  /\ pc = "stage"
  /\ IF files["primary"].state = "valid"
     THEN /\ bak' = files["primary"].proj
          /\ afterBak' = "promote"
          /\ pc' = "backup"
     ELSE /\ pc' = "promote"
          /\ UNCHANGED <<bak, afterBak>>
  /\ UNCHANGED <<disk, pend, mem, op, next, target, cont, swap, ghost>>

AfterBackup ==
  IF afterBak = "promote"
  THEN /\ pc' = "promote"
       /\ UNCHANGED <<mem, pend>>
  ELSE CheckpointWritten(cont)

(* promoteConversationFile: rename the temporary file over its destination. *)
WriteConversationBackup ==
  /\ pc = "backup"
  /\ files' = [files EXCEPT !["backup"] = Valid(bak)]
  /\ AfterBackup
  /\ UNCHANGED <<journal, tail, call, ghost>>

PromoteConversation ==
  /\ pc = "promote"
  /\ files' = [files EXCEPT !["primary"] = Valid(target)]
  /\ pc' = "ensureBackup"
  /\ UNCHANGED <<journal, tail, pend, mem, call, ghost>>

(* The rename was refused (EPERM, EEXIST): the destination is moved aside.  *)
MoveAside ==
  LET f == IF pc = "backup" THEN "backup" ELSE "primary" IN
  /\ pc \in {"backup", "promote"}
  /\ files[f].state # "missing"
  /\ swap' = files[f]
  /\ files' = [files EXCEPT ![f] = MissingFile]
  /\ pc' = IF f = "backup" THEN "backupSwap" ELSE "promoteSwap"
  /\ UNCHANGED <<journal, tail, pend, mem, op, next, target, cont, bak, afterBak, ghost>>

RenameAfterMove ==
  \/ /\ pc = "backupSwap"
     /\ files' = [files EXCEPT !["backup"] = Valid(bak)]
     /\ AfterBackup
     /\ UNCHANGED <<journal, tail, call, ghost>>
  \/ /\ pc = "promoteSwap"
     /\ files' = [files EXCEPT !["primary"] = Valid(target)]
     /\ pc' = "ensureBackup"
     /\ UNCHANGED <<journal, tail, pend, mem, call, ghost>>

(* The second rename fails too; moving the file back may itself fail.       *)
RestoreAfterMove ==
  LET f == IF pc = "backupSwap" THEN "backup" ELSE "primary" IN
  /\ pc \in {"backupSwap", "promoteSwap"}
  /\ FileFault
  /\ \/ files' = [files EXCEPT ![f] = swap]
     \/ UNCHANGED files
  /\ CheckpointFailed(cont)
  /\ UNCHANGED <<journal, tail, call, input, hist, spoiled, published, crashes, damages>>

EnsureBackup ==
  /\ pc = "ensureBackup"
  /\ IF files["backup"].state = "valid"
     THEN /\ CheckpointWritten(cont)
          /\ UNCHANGED <<bak, afterBak>>
     ELSE /\ bak' = target
          /\ afterBak' = "done"
          /\ pc' = "backup"
          /\ UNCHANGED <<mem, pend>>
  /\ UNCHANGED <<disk, op, next, target, cont, swap, ghost>>

-----------------------------------------------------------------------------
(* applyConversationNotification, updateConversation and the flush timer *)

(* Mutant: the pending projection is shown with a cursor of its own. *)
CoalesceExposed ==
  /\ Idle /\ loaded /\ ~ failed
  /\ input < MaxInput
  /\ input' = input + 1
  /\ conv' = [rev |-> conv.rev + 1, items |-> conv.items \cup {input + 1}]
  /\ UNCHANGED <<disk, pend, call, pc, loaded, failed, needCk, hist, spoiled, published,
                 crashes, faults, damages>>

(* Mutant: a notification joining no pending projection arms no timer. *)
CoalesceUnarmed ==
  /\ Idle /\ loaded /\ ~ failed
  /\ input < MaxInput
  /\ input' = input + 1
  /\ pending' = (IF hasPending THEN pending ELSE conv.items) \cup {input + 1}
  /\ hasPending' = TRUE
  /\ timer' = hasPending
  /\ UNCHANGED <<disk, mem, call, pc, flushFailed, hist, spoiled, published, crashes, faults, damages>>

(* A streaming notification is merged into the pending projection, and the  *)
(* flush timer is armed unless it already is.                               *)
Coalesce ==
  /\ Idle /\ loaded /\ ~ failed
  /\ input < MaxInput
  /\ input' = input + 1
  /\ pending' = (IF hasPending THEN pending ELSE conv.items) \cup {input + 1}
  /\ hasPending' = TRUE
  /\ timer' = TRUE
  /\ UNCHANGED <<disk, mem, call, pc, flushFailed, hist, spoiled, published, crashes, faults, damages>>

(* updateConversation takes the lock.  A revision whose promotion failed is *)
(* first written to the checkpoint.                                         *)
StartUpdate(kind) ==
  /\ Idle /\ ~ failed
  /\ op' = kind
  /\ IF needCk
     THEN /\ target' = Current
          /\ cont' = "repair"
          /\ pc' = "stage"
     ELSE /\ pc' = "update"
          /\ UNCHANGED <<target, cont>>
  /\ UNCHANGED <<disk, mem, next, bak, afterBak, swap>>

(* A notification that is not coalesced, or a native history read.          *)
UpdateConversation(kind) ==
  /\ input < MaxInput
  /\ StartUpdate(kind)
  /\ input' = input + 1
  /\ UNCHANGED <<pend, hist, spoiled, published, crashes, faults, damages>>

FlushConversation ==
  /\ hasPending \/ needCk \/ flushFailed
  /\ StartUpdate("flush")
  /\ UNCHANGED <<pend, ghost>>

(* The timer forgets itself, then flushes; a rejection is recorded.         *)
TimerFires ==
  /\ timer
  /\ timer' = FALSE
  /\ UNCHANGED <<pending, hasPending>>
  /\ \/ /\ StartUpdate("timer")
        /\ UNCHANGED flushFailed
     \/ /\ Idle /\ failed
        /\ flushFailed' = TRUE
        /\ UNCHANGED <<disk, mem, call, pc>>
  /\ UNCHANGED ghost

Base == IF hasPending THEN pending ELSE Current.items

(* The update function: the reducer adds to the base, a native read         *)
(* replaces it by what the source still has, a flush keeps it.              *)
UpdatedItems ==
  CASE op = "reduce" -> {Base \cup {input}}
    [] op = "hydrate" -> {kept \cup {input} : kept \in SUBSET Base}
    [] OTHER -> {Base}

ApplyUpdate ==
  /\ pc = "update"
  /\ \E items \in UpdatedItems :
       IF items = Current.items /\ ~ hasPending
       THEN /\ flushFailed' = FALSE
            /\ pc' = "idle"
            /\ UNCHANGED next
       ELSE /\ next' = [rev |-> Current.rev + 1, items |-> items]
            /\ pc' = "append"
            /\ UNCHANGED flushFailed
  /\ UNCHANGED <<disk, mem, pending, hasPending, timer, ghost,
                 op, target, cont, bak, afterBak, swap>>

(* The pending diff artifact cannot be written: the update rejects.         *)
DiffFails ==
  /\ pc = "update" /\ hasPending
  /\ FileFault
  /\ pc' = "idle"
  /\ flushFailed' = (flushFailed \/ op = "timer")
  /\ UNCHANGED <<disk, mem, pending, hasPending, timer, call,
                 input, hist, spoiled, published, crashes, damages>>

(* The append and its sync succeed: the revision is committed and becomes   *)
(* visible, the pending projection and the timer are gone, the checkpoint   *)
(* is due.                                                                  *)
CommitRevision ==
  /\ pc = "append"
  /\ AppendConversationJournal(conversationPatch(Current, next), "full")
  /\ conv' = next
  /\ loaded' = TRUE
  /\ needCk' = TRUE
  /\ pending' = {}
  /\ hasPending' = FALSE
  /\ timer' = FALSE
  /\ target' = next
  /\ cont' = "commit"
  /\ pc' = "stage"
  /\ UNCHANGED <<files, failed, flushFailed, op, next, bak, afterBak, swap,
                 input, published, crashes, faults, damages>>

(* The append or its sync fails: the job refuses updates until a restart.   *)
CommitFails ==
  /\ pc = "append"
  /\ FileFault
  /\ \E outcome \in AppendOutcomes :
       AppendConversationJournal(conversationPatch(Current, next), outcome)
  /\ failed' = TRUE
  /\ flushFailed' = (flushFailed \/ op = "timer")
  /\ pc' = "idle"
  /\ UNCHANGED <<files, conv, loaded, needCk, pending, hasPending, timer, call,
                 input, published, crashes, damages>>

-----------------------------------------------------------------------------
(* Crash, restart and recovery *)

WriteSteps == {"stage", "backup", "backupSwap", "promote", "promoteSwap", "ensureBackup"}
Starting == pc = "replay" \/ (pc \in WriteSteps /\ cont \in {"recover", "recoverBackup"})

(* A client polls: snapshot() hands out the revision as its cursor.         *)
Snapshot ==
  /\ Running /\ ~ Starting /\ ~ failed
  /\ Current.rev > published.rev
  /\ published' = Current
  /\ UNCHANGED <<disk, pend, mem, call, pc, input, hist, spoiled, crashes, faults, damages>>

ForgetMemory ==
  /\ conv' = EmptyProjection
  /\ loaded' = FALSE
  /\ failed' = FALSE
  /\ needCk' = FALSE
  /\ pending' = {}
  /\ hasPending' = FALSE
  /\ timer' = FALSE
  /\ flushFailed' = FALSE
  /\ op' = "none"
  /\ next' = EmptyProjection
  /\ target' = EmptyProjection
  /\ cont' = "recover"
  /\ bak' = EmptyProjection
  /\ afterBak' = "done"
  /\ swap' = MissingFile

Crash ==
  /\ Running
  /\ crashes < MaxCrash
  /\ crashes' = crashes + 1
  /\ IF pc = "append"
     THEN \E outcome \in AppendOutcomes :
            AppendConversationJournal(conversationPatch(Current, next), outcome)
     ELSE UNCHANGED <<journal, tail, hist, spoiled>>
  /\ pc' = "down"
  /\ ForgetMemory
  /\ UNCHANGED <<files, input, published, faults, damages>>

DamageCheckpoint(f) ==
  /\ pc = "down"
  /\ damages < MaxDamage
  /\ damages' = damages + 1
  /\ files[f].state = "valid"
  /\ files' = [files EXCEPT ![f] = CorruptFile]
  /\ UNCHANGED <<journal, tail, pend, mem, call, pc, input, hist, spoiled, published, crashes, faults>>

Readable == tail \notin {"glued", "broken"} /\ Contiguous(journal)
NoRecord == journal = <<>>
Latest == journal[Len(journal)].rev

(* The checkpoint recovery starts from, or none: the active one, else the   *)
(* backup, else the empty projection when the journal begins at revision 1  *)
(* or there is no evidence of anything.                                     *)
ValidFiles == {f \in {"primary", "backup"} : files[f].state = "valid"}
CorruptFiles == {f \in {"primary", "backup"} : files[f].state = "corrupt"}
JournalFromOne == ~ NoRecord /\ journal[1].rev = 1

Baseline ==
  IF ValidFiles # {}
  THEN {files[IF "primary" \in ValidFiles THEN "primary" ELSE "backup"].proj}
  ELSE IF JournalFromOne \/ (NoRecord /\ CorruptFiles = {})
  THEN {EmptyProjection}
  ELSE {}

(* The journal can continue from a checkpoint p.                            *)
Continues(p) ==
  /\ NoRecord \/ p.rev <= Latest
  /\ LET missing == {i \in 1..Len(journal) : journal[i].rev > p.rev}
     IN missing = {} \/ \E i \in missing : journal[i].rev = p.rev + 1

(* Mutant: the torn tail is ignored but left in the file. *)
RestartKeepsTail ==
  /\ pc = "down"
  /\ IF Readable /\ \E p \in Baseline : Continues(p)
     THEN /\ \E p \in Baseline : conv' = p
          /\ loaded' = TRUE
          /\ pc' = "replay"
          /\ UNCHANGED failed
     ELSE /\ failed' = TRUE
          /\ pc' = "idle"
          /\ UNCHANGED <<conv, loaded>>
  /\ UNCHANGED <<disk, needCk, pend, call, ghost>>

(* readConversation: an unterminated, unparsable tail is cut off.           *)
Restart ==
  /\ pc = "down"
  /\ tail' = IF tail = "torn" THEN "complete" ELSE tail
  /\ IF Readable /\ \E p \in Baseline : Continues(p)
     THEN /\ \E p \in Baseline : conv' = p
          /\ loaded' = TRUE
          /\ pc' = "replay"
          /\ UNCHANGED failed
     ELSE /\ failed' = TRUE
          /\ pc' = "idle"
          /\ UNCHANGED <<conv, loaded>>
  /\ UNCHANGED <<files, journal, needCk, pend, call, ghost>>

(* Something else in initialize throws for this job, its messages file      *)
(* cannot be parsed for instance: the job stays registered, without a       *)
(* conversation and without a recorded failure.                             *)
RestartThrows ==
  /\ pc = "down"
  /\ FileFault
  /\ pc' = "idle"
  /\ UNCHANGED <<disk, pend, mem, call, input, hist, spoiled, published, crashes, damages>>

ReplayPatch ==
  /\ pc = "replay"
  /\ \E i \in 1..Len(journal) :
       /\ journal[i].rev = conv.rev + 1
       /\ conv' = applyConversationPatch(conv, journal[i])
  /\ UNCHANGED <<disk, pend, loaded, failed, needCk, call, ghost, pc>>

(* Every missing revision is replayed; checkpoints that do not match are    *)
(* written again.                                                           *)
ReplayDone ==
  /\ pc = "replay"
  /\ \A i \in 1..Len(journal) : journal[i].rev # conv.rev + 1
  /\ IF files["primary"].state # "valid" \/ files["primary"].proj.rev # conv.rev
     THEN /\ target' = conv
          /\ cont' = "recover"
          /\ pc' = "stage"
          /\ UNCHANGED <<bak, afterBak>>
     ELSE IF files["backup"].state # "valid"
     THEN /\ bak' = conv
          /\ afterBak' = "done"
          /\ cont' = "recoverBackup"
          /\ pc' = "backup"
          /\ UNCHANGED target
     ELSE /\ pc' = "idle"
          /\ UNCHANGED <<target, cont, bak, afterBak>>
  /\ UNCHANGED <<disk, pend, mem, ghost, op, next, swap>>

-----------------------------------------------------------------------------
(* The specification *)

(* create writes the empty projection, importLocalThread one hydrated from  *)
(* the thread; neither appends to the journal.                              *)
Created == EmptyProjection
Imported == [rev |-> 1, items |-> {1}]

Init ==
  /\ conv \in {Created, Imported} /\ conv.items \in Items
  /\ files = [f \in {"primary", "backup"} |-> Valid(conv)]
  /\ hist = [r \in 1..conv.rev |-> conv.items]
  /\ input = conv.rev
  /\ journal = <<>> /\ tail = "complete" /\ pc = "idle"
  /\ loaded = TRUE /\ failed = FALSE /\ needCk = FALSE
  /\ pending = {} /\ hasPending = FALSE /\ timer = FALSE /\ flushFailed = FALSE
  /\ op = "none" /\ next = EmptyProjection /\ target = EmptyProjection
  /\ cont = "recover" /\ bak = EmptyProjection /\ afterBak = "done"
  /\ swap = MissingFile
  /\ published = EmptyProjection /\ spoiled = FALSE /\ crashes = 0 /\ faults = 0 /\ damages = 0

(* A step of the holder of the lock that does not wait for anything.        *)
Proceed ==
  \/ WriteConversation \/ WriteConversationBackup \/ PromoteConversation
  \/ RenameAfterMove \/ EnsureBackup \/ ApplyUpdate \/ CommitRevision
  \/ ReplayPatch \/ ReplayDone

Fail ==
  WriteFails \/ RestoreAfterMove \/ DiffFails \/ CommitFails

Next ==
  \/ Proceed \/ Fail \/ MoveAside
  \/ Coalesce \/ TimerFires \/ FlushConversation
  \/ \E kind \in {"reduce", "hydrate"} : UpdateConversation(kind)
  \/ Snapshot \/ Crash \/ Restart \/ RestartThrows
  \/ \E f \in {"primary", "backup"} : DamageCheckpoint(f)

Spec == Init /\ [][Next]_vars

(* File operations end, one way or another, and an armed timer runs; nobody *)
(* promises notifications, readers, crashes, failures or restarts.          *)
FairSpec == Spec /\ WF_vars(Proceed) /\ WF_vars(TimerFires)

-----------------------------------------------------------------------------
(* Properties *)

TypeOK ==
  /\ files \in [{"primary", "backup"} -> Candidate]
  /\ journal \in Seq(Patch)
  /\ tail \in {"complete", "torn", "bare", "glued", "broken"}
  /\ pc \in {"down", "replay", "idle", "update", "append"} \cup WriteSteps
  /\ conv \in Projection /\ next \in Projection
  /\ target \in Projection /\ bak \in Projection
  /\ loaded \in BOOLEAN /\ failed \in BOOLEAN /\ needCk \in BOOLEAN
  /\ pending \in Items /\ hasPending \in BOOLEAN
  /\ timer \in BOOLEAN /\ flushFailed \in BOOLEAN
  /\ op \in {"none", "reduce", "hydrate", "flush", "timer"}
  /\ cont \in Callers
  /\ afterBak \in {"promote", "done"}
  /\ swap \in Candidate
  /\ input \in 0..MaxInput
  /\ hist \in Seq(Items)
  /\ published \in Projection /\ spoiled \in BOOLEAN
  /\ crashes \in 0..MaxCrash /\ faults \in 0..MaxFault /\ damages \in 0..MaxDamage

Serving == Running /\ ~ Starting /\ ~ failed

Content(r) == IF r = 0 THEN {} ELSE hist[r]
Committed(p) == p.rev <= Len(hist) /\ p.items = Content(p.rev)

(* The code keeps its promises up to an append that it makes onto a record *)
(* without newline and that fails half way, which takes that record along, *)
(* or that it makes for a job whose start-up gave up and which therefore   *)
(* begins again at revision 1 (`spoiled`).                                 *)

(* Readers and updates only ever see the last committed revision with the   *)
(* content it was committed with, whatever crashes, refused renames, failed *)
(* writes and records without newline came before (readConversation,        *)
(* updateConversation); a job whose start-up gave up (~ loaded) is shown    *)
(* without a conversation.                                                  *)
ServesCommitted ==
  Serving /\ loaded /\ ~ spoiled => conv.rev = Len(hist) /\ Committed(conv)

(* What a client was shown is never taken back: after any restart the same  *)
(* cursor means the same content and no cursor is ahead of the server.      *)
ClientsViewSurvives ==
  Serving /\ loaded /\ ~ spoiled =>
    /\ published.rev <= conv.rev
    /\ published.rev = conv.rev => published = conv

(* A readable checkpoint file holds a committed revision, so that no crash  *)
(* leaves a checkpoint ahead of the journal or with other content.          *)
CheckpointsCommitted == ~ spoiled => \A f \in ValidFiles : Committed(files[f].proj)

(* While nobody damages files, one of the two checkpoints can be read at    *)
(* every instant: the file moved aside is never the only one.               *)
OneCheckpointSurvives == damages = 0 => ValidFiles # {}

(* As long as one checkpoint can be read, or the journal begins with the    *)
(* first revision, a restart does not refuse the conversation, and it       *)
(* recovers it unless a file operation fails; a journal in which a whole    *)
(* record follows one without newline is refused.                           *)
Evidence == ValidFiles # {} \/ JournalFromOne
EvidenceRecovers ==
  [][pc = "down" /\ pc' # "down" /\ Evidence /\ tail # "glued" /\ ~ spoiled =>
       ~ failed' /\ (loaded' \/ faults' # faults)]_vars

(* job-store.ts says of a tail it cuts off: "An incomplete final            *)
(* conversation journal record was removed after preserving all prior      *)
(* revisions."  A revision a client was shown is then still in the journal. *)
(* It does not hold: the record before the one that was cut may lack its    *)
(* newline, and is cut off with it.                                         *)
CutKeepsRevisions ==
  [][pc = "down" /\ tail = "torn" /\ tail' = "complete" => NoRecord \/ published.rev <= Latest]_vars

(* docs/ConversationModel.md: only when there is no evidence of anything is *)
(* a new empty projection created.  No update starts from one, then, where  *)
(* revisions were committed and can be recovered.  It does not hold: see    *)
(* RestartThrows.                                                           *)
EmptyOnlyWithoutEvidence == pc = "append" /\ ~ loaded => hist = <<>> \/ ~ Evidence

(* Streamed content that is not committed yet has a timer that will commit  *)
(* it, or its delay is reported to the client.                              *)
PendingIsCovered ==
  hasPending /\ ~ failed => timer \/ flushFailed \/ (op = "timer" /\ ~ Idle)

(* Streamed content does not stay uncommitted silently.                     *)
PendingIsFlushed ==
  hasPending ~> (~ hasPending \/ flushFailed \/ failed)
=============================================================================
