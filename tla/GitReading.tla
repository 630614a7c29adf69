----------------------------- MODULE GitReading -----------------------------
(***************************************************************************)
(* git_status_summary, git_diff and git_diff_file of Project Reading       *)
(* (git-tools.ts).  Each call runs several git processes, one after the    *)
(* other, and puts their outputs together, while the work tree changes.    *)
(*                                                                         *)
(* A path is "in" the project and allowed, "secret" when the policy denies *)
(* it, or "out" of the project.  The text of a patch alternates one byte   *)
(* and one newline, so its length says how many lines it has; the header   *)
(* of an untracked file's patch is one line, and the bytes kept free for   *)
(* it (128 in the code) are two.                                           *)
(***************************************************************************)
EXTENDS Naturals, Sequences, SequencesExt, FiniteSets, FiniteSetsExt

CONSTANTS
  MaxPatch,    \* lines of a patch
  MaxFiles,    \* largest maxFiles
  LineLimits, ByteLimits, \* values of maxLines and of maxGitDiffBytes
  OutputLimit, \* bytes of output a git process may always write
  MaxMoves     \* changes of the work tree during a call (bounds the model)

ASSUME GitReadingAssumption ==
  /\ {MaxPatch, MaxFiles, OutputLimit} \cup LineLimits \cup ByteLimits \subseteq Nat \ {0}
  /\ MaxMoves \in Nat

VARIABLES
  worktree, \* the changes git would report
  moved,    \* the paths that changed during the call
  moves,
  git       \* the call: its arguments, where it is, its answer

gitVars == <<worktree, moved, moves, git>>

-----------------------------------------------------------------------------
(* The work tree, and what git prints of it *)

Smaller(a, b) == IF a < b THEN a ELSE b

(* A path is known by where it is and by a number.  What is denied or out  *)
(* of the project has no patch that matters.                               *)
NoPath == <<"none", 0>>
Places == {"in", "secret", "out"}
Renames(n) == {r \in [code : {"R"}, path : Places \X {n}, old : Places \X {n}, size : {1}] :
                 r.path[1] # "out" \/ r.old[1] # "out"}
Changes(n) ==
  [code : {"M", "U", "?"}, path : {<<"in", n>>}, old : {NoPath}, size : 1 .. MaxPatch]
  \cup [code : {"M", "?"}, path : {<<"secret", n>>, <<"out", n>>}, old : {NoPath}, size : {1}]
  \cup Renames(n)
Worktrees == {<<>>} \cup {<<c>> : c \in Changes(1)}
             \cup {<<c, d>> : c \in Changes(1), d \in Changes(2)}

(* git diff --name-status -z --relative: the code, the old path, the path; *)
(* a rename across the project's edge is the half that is inside it        *)
NameStatus ==
  LET tracked == SelectSeq(worktree, LAMBDA c : c.code # "?" /\ (c.code = "R" \/ c.path[1] # "out"))
      Half(c) == CASE c.code = "R" /\ c.old[1] = "out" -> [c EXCEPT !.code = "M", !.old = NoPath]
                   [] c.code = "R" /\ c.path[1] = "out" -> [c EXCEPT !.code = "M", !.path = c.old]
                   [] OTHER -> c
  IN FlattenSeq([i \in DOMAIN tracked |->
    LET c == Half(tracked[i])
    IN IF c.code = "R" THEN <<[code |-> "R"], [path |-> c.old], [path |-> c.path]>>
       ELSE <<[code |-> c.code], [path |-> c.path]>>])

(* git status --porcelain=v1 -z: the code with the path, then the old path *)
Porcelain ==
  FlattenSeq([i \in DOMAIN worktree |->
    LET c == worktree[i]
    IN IF c.code = "R" THEN <<[code |-> "R", path |-> c.path], [path |-> c.old]>>
       ELSE <<[code |-> c.code, path |-> c.path]>>])

-----------------------------------------------------------------------------
(* Reading what git printed *)

Change(code, path, old) == [code |-> code, path |-> path, old |-> old]

parseNameStatus(tokens) ==
  LET parse[i \in 1 .. Len(tokens) + 1] ==
        IF i > Len(tokens) THEN <<>>
        ELSE IF tokens[i].code = "R"
             THEN <<Change("R", tokens[i + 2].path, tokens[i + 1].path)>> \o parse[i + 3]
             ELSE <<Change(tokens[i].code, tokens[i + 1].path, NoPath)>> \o parse[i + 2]
  IN parse[1]

parsePorcelainStatus(tokens) ==
  LET parse[i \in 1 .. Len(tokens) + 1] ==
        IF i > Len(tokens) THEN <<>>
        ELSE IF tokens[i].code = "R"
             THEN <<Change("R", tokens[i].path, tokens[i + 1].path)>> \o parse[i + 2]
             ELSE <<Change(tokens[i].code, tokens[i].path, NoPath)>> \o parse[i + 1]
  IN parse[1]

(* toProjectRelativeChange, isAllowedGitChange *)
InProject(c) == "out" \notin {c.path[1], c.old[1]}
Allowed(c) == InProject(c) /\ "secret" \notin {c.path[1], c.old[1]}

(* boundPatch: whole lines while there are few enough, then whole bytes *)
LinesOf(length) == length \div 2 + 1
BoundPatch(length, maxLines, maxBytes) ==
  LET lineBounded == IF LinesOf(length) <= maxLines THEN length ELSE 2 * maxLines - 1
      byteBounded == Smaller(lineBounded, maxBytes)
  IN [bytes |-> byteBounded, lines |-> IF byteBounded = 0 THEN 0 ELSE LinesOf(byteBounded),
      truncated |-> LinesOf(length) > maxLines \/ byteBounded < lineBounded]

-----------------------------------------------------------------------------
(* The calls *)

NoCall == [tool |-> "none", at |-> "answered", files |-> 1, lines |-> 1, bytes |-> 1,
           untracked |-> FALSE, changes |-> <<>>, selected |-> <<>>, answer |-> <<>>,
           lost |-> {}, partial |-> FALSE, truncated |-> FALSE]

Calls(g) == git' = g /\ UNCHANGED <<worktree, moved, moves>>
CallFails == Calls([git EXCEPT !.at = "failed"])
Asks(tool, at) == git.tool = tool /\ git.at = at

(* discoverGitContext: git rev-parse says whether there is a repository *)
Discover ==
  /\ git.at = "discover"
  /\ \/ Calls([git EXCEPT !.at = "summary"])
     \/ IF git.tool = "diff" THEN CallFails ELSE Calls([git EXCEPT !.at = "no repository"])

(* gitStatusSummary: a change with a path outside the project, or denied,  *)
(* is only counted                                                         *)
SummarizeStatus ==
  LET parsed == parsePorcelainStatus(Porcelain)
      allowed == SelectSeq(parsed, Allowed)
  IN /\ Asks("status", "summary")
     /\ \/ Calls([git EXCEPT !.at = "answered", !.changes = parsed, !.answer = allowed,
                             !.partial = Len(allowed) < Len(parsed)])
        \/ CallFails

(* gitDiff: the changes of the index or the work tree *)
SummarizeDiff ==
  /\ Asks("diff", "summary")
  /\ \/ Calls([git EXCEPT !.changes = parseNameStatus(NameStatus),
                          !.at = IF git.untracked THEN "untracked" ELSE "select"])
     \/ CallFails

(* The untracked files that the first summary did not have *)
AddUntracked ==
  LET known == {git.changes[i].path : i \in DOMAIN git.changes}
      New(c) == InProject(c) /\ c.code = "?" /\ c.path \notin known
  IN /\ Asks("diff", "untracked")
     /\ \/ Calls([git EXCEPT !.changes = @ \o SelectSeq(parsePorcelainStatus(Porcelain), New),
                             !.at = "select"])
        \/ CallFails

SelectChanges ==
  LET safe == SelectSeq(git.changes, Allowed)
      selected == SubSeq(safe, 1, Smaller(Len(safe), git.files))
  IN /\ Asks("diff", "select")
     /\ Calls([git EXCEPT !.at = "patches", !.selected = selected,
                          !.partial = Len(safe) < Len(git.changes),
                          !.truncated = Len(safe) > Len(selected)])

RemainingLines == git.lines - FoldLeft(LAMBDA n, f : n + f.lines, 0, git.answer)
RemainingBytes == git.bytes - FoldLeft(LAMBDA n, f : n + f.bytes, 0, git.answer)
Exhausted == RemainingLines <= 0 \/ RemainingBytes <= 0
IsNext(change) == Len(git.answer) < Len(git.selected) /\ change = git.selected[Len(git.answer) + 1]

(* What git diff prints for a change: nothing when it is gone *)
PatchOf(change) ==
  LET same == {i \in DOMAIN worktree : change.path \in {worktree[i].path, worktree[i].old} /\ worktree[i].code # "?"}
  IN IF same = {} THEN [code |-> "M", length |-> 0]
     ELSE LET c == worktree[CHOOSE i \in same : TRUE] IN [code |-> c.code, length |-> 2 * c.size]

File(change, bounded, cut) ==
  [path |-> change.path, old |-> change.old, bytes |-> bounded.bytes, lines |-> bounded.lines,
   truncated |-> bounded.truncated \/ cut, omitted |-> FALSE]

Add(file) == Calls([git EXCEPT !.answer = Append(@, file)])

(* readTrackedDiff: a patch longer than the process may write arrives in   *)
(* part; binaries, links and submodules are named without a patch.  A git  *)
(* that fails has printed nothing, which is not told from an empty patch.  *)
ReadTrackedDiff(change) ==
  LET patch == PatchOf(change)
      limit == IF RemainingBytes > OutputLimit THEN RemainingBytes ELSE OutputLimit
      Read(length, cut) == Add(File(change, BoundPatch(length, RemainingLines, RemainingBytes), cut))
  IN /\ Asks("diff", "patches") /\ ~Exhausted /\ IsNext(change) /\ change.code # "?"
     /\ \/ CallFails
        \/ patch.length > 0
           /\ Calls([git EXCEPT !.lost = @ \cup {change.path},
                       !.answer = Append(@, File(change, BoundPatch(0, RemainingLines, RemainingBytes), FALSE))])
        \/ patch.code = "U" /\ Add([File(change, BoundPatch(0, 1, 1), FALSE) EXCEPT !.omitted = TRUE])
        \/ patch.code # "U" /\ patch.length <= limit /\ Read(patch.length, FALSE)
        \/ patch.code # "U" /\ patch.length > limit /\ \E length \in 0 .. limit : Read(length, TRUE)

(* readUntrackedDiff: the first lines of the file, behind a header *)
ReadUntrackedDiff(change) ==
  LET same == {i \in DOMAIN worktree : worktree[i].path = change.path}
      size == worktree[CHOOSE i \in same : TRUE].size
      budget == IF RemainingBytes > 2 THEN RemainingBytes - 2 ELSE 1
      read == Smaller(size, Smaller(RemainingLines, budget + 1))
  IN /\ Asks("diff", "patches") /\ ~Exhausted /\ IsNext(change) /\ change.code = "?"
     /\ IF same = {} THEN CallFails
        ELSE Add(File(change, BoundPatch(2 * read + 1, RemainingLines, RemainingBytes), read < size))

(* Mutant of AnswerDiff: what the limits left no room for is not mentioned *)
AnswerDiffSilently ==
  /\ Asks("diff", "patches")
  /\ Exhausted \/ Len(git.answer) = Len(git.selected)
  /\ Calls([git EXCEPT !.at = "answered"])

AnswerDiff ==
  /\ Asks("diff", "patches")
  /\ Exhausted \/ Len(git.answer) = Len(git.selected)
  /\ Calls([git EXCEPT !.at = "answered",
              !.truncated = @ \/ Len(git.answer) < Len(git.selected) \/ Exhausted])

-----------------------------------------------------------------------------

(* Somebody edits a file, reverts it or stops tracking it *)
Move(i) ==
  /\ git.at \notin {"answered", "failed", "no repository"} /\ moves < MaxMoves
  /\ \/ \E size \in 1 .. MaxPatch \ {worktree[i].size} : worktree' = [worktree EXCEPT ![i].size = size]
     \/ worktree' = RemoveAt(worktree, i)
     \/ worktree[i].code = "M" /\ worktree' = [worktree EXCEPT ![i].code = "?"]
  /\ moved' = moved \cup {worktree[i].path} /\ moves' = moves + 1
  /\ UNCHANGED git

(* The calls the server takes *)
GitStatusSummary == {[NoCall EXCEPT !.tool = "status", !.at = "discover"]}
GitDiff == {[NoCall EXCEPT !.tool = "diff", !.at = "discover", !.files = files, !.lines = lines,
                           !.bytes = bytes, !.untracked = untracked] :
              files \in 1 .. MaxFiles, lines \in LineLimits, bytes \in ByteLimits, untracked \in BOOLEAN}

GitInit ==
  /\ worktree \in Worktrees /\ moved = {} /\ moves = 0
  /\ git \in GitStatusSummary \cup GitDiff

GitIdle == worktree = <<>> /\ moved = {} /\ moves = 0 /\ git = NoCall

GitNext ==
  \/ Discover \/ SummarizeStatus \/ SummarizeDiff \/ AddUntracked \/ SelectChanges
  \/ \E i \in DOMAIN git.selected : ReadTrackedDiff(git.selected[i]) \/ ReadUntrackedDiff(git.selected[i])
  \/ AnswerDiff
  \/ \E i \in DOMAIN worktree : Move(i)

-----------------------------------------------------------------------------

(* A change that the call must tell of *)
Reported(c) == git.tool = "status" \/ c.code # "?" \/ git.untracked

(* A finished answer stays within the limits and names no path of the      *)
(* project that is denied; unless it says that something is left out, it   *)
(* has an entry for every change that was there all along, and an entry    *)
(* that is not marked has its whole patch, save one whose git process      *)
(* failed (gitStatusSummary, gitDiff, readTrackedDiff, readUntrackedDiff). *)
DiffIsComplete ==
  git.at = "answered" =>
    /\ \A i \in DOMAIN git.answer : Allowed(git.answer[i])
    /\ git.tool = "diff" =>
         RemainingLines >= 0 /\ RemainingBytes >= 0 /\ Len(git.answer) <= git.files
    /\ ~git.partial /\ ~git.truncated =>
         \A c \in Range(worktree) : c.path \notin moved /\ InProject(c) /\ Reported(c) =>
           \E i \in DOMAIN git.answer :
             LET f == git.answer[i]
             IN /\ f.path = c.path /\ f.old = c.old
                /\ git.tool = "diff" => \/ f.omitted \/ f.truncated \/ f.path \in git.lost
                                        \/ f.bytes = 2 * c.size + (IF c.code = "?" THEN 1 ELSE 0)
=============================================================================
