----------------------------- MODULE TextSearch -----------------------------
(***************************************************************************)
(* search_text of Project Reading (search-tools.ts): ripgrep runs as a     *)
(* bounded process (process-runner.ts) whose output is read as it comes;   *)
(* it is stopped when there are enough hits, killed when it takes too long *)
(* or writes too much, and replaced by a search of the server's own when   *)
(* it fails.  The hits are then resolved again, one by one, and the lines  *)
(* around them collected, file by file, while an editor changes files.     *)
(*                                                                         *)
(* A file is a sequence of lines, TRUE where the query is found.  The      *)
(* search of the server's own is the walk of TreeWalk; here it takes the   *)
(* files in order.  Bytes are counted in hits, contexts and lines.         *)
(***************************************************************************)
EXTENDS Naturals, Sequences, SequencesExt, FiniteSets, FiniteSetsExt

CONSTANTS
  Files,      \* the files in scope: 1 .. Files
  MaxLines,   \* lines of all files
  MaxHits,    \* largest maxResults
  MaxAround,  \* largest beforeLines and afterLines
  Returned,   \* values of maxSearchReturnedBytes
  MaxRewrites \* changes of files during a call (bounds the model)

ASSUME TextSearchAssumption ==
  {Files, MaxLines, MaxHits, MaxAround, MaxRewrites} \cup Returned \subseteq Nat \ {0}

VARIABLES
  disk,     \* the lines of each file, or Gone
  settled,  \* the files nobody changed during the call
  rewrites,
  ask,      \* the arguments of the call
  ripgrep,  \* the process: files it has read, output not yet received, how it stands
  search    \* the call: where it is, its hits, its contexts, its answer

searchVars == <<disk, settled, rewrites, ask, ripgrep, search>>

-----------------------------------------------------------------------------

Gone == <<>>
Hit(f, l) == [file |-> f, line |-> l]
Lines(f) == IF disk[f] = Gone THEN <<>> ELSE disk[f]
HitsOf(f) ==
  LET found == {l \in DOMAIN Lines(f) : Lines(f)[l]}
  IN [i \in 1 .. Cardinality(found) |->
        Hit(f, CHOOSE l \in found : Cardinality({m \in found : m <= l}) = i)]

NoProcess == [read |-> {}, pipe |-> <<>>, killed |-> FALSE, reason |-> "none", full |-> FALSE]
NoSearch == [at |-> "answered", hits |-> <<>>, kept |-> <<>>, next |-> 1, windows |-> <<>>,
             of |-> <<>>, truncated |-> FALSE, timedOut |-> FALSE, results |-> <<>>,
             contexts |-> <<>>]

Searches(s) == search' = s /\ UNCHANGED <<disk, settled, rewrites, ask>>
Runs(p) == ripgrep' = p
At(where) == search.at = where

-----------------------------------------------------------------------------

(* ripgrep reads a file and writes its hits *)
RipgrepReads(f) ==
  /\ At("running") /\ ~ripgrep.killed /\ f \notin ripgrep.read
  /\ Runs([ripgrep EXCEPT !.read = @ \cup {f}, !.pipe = @ \o HitsOf(f)])
  /\ UNCHANGED <<disk, settled, rewrites, ask, search>>

(* Mutant of TakesHits: the hit that makes enough is dropped as well *)
TakesTooFew(hits, chunk) ==
  hits \o SubSeq(chunk, 1, Min({Len(chunk), Max({0, ask.max - 1 - Len(hits)})}))

(* A chunk of output: a hit that makes enough stops the process, and the   *)
(* rest of the chunk is dropped; another chunk may have been on its way    *)
TakesHits(hits, chunk) ==
  hits \o SubSeq(chunk, 1, Min({Len(chunk), Max({1, ask.max - Len(hits)})}))

ChunkArrives(n) ==
  /\ At("running") /\ n <= Len(ripgrep.pipe)
  /\ LET rest == SubSeq(ripgrep.pipe, n + 1, Len(ripgrep.pipe))
         hits == TakesHits(search.hits, SubSeq(ripgrep.pipe, 1, n))
         full == Len(hits) >= ask.max
     IN IF ripgrep.reason = "output_limit"
        THEN Runs([ripgrep EXCEPT !.pipe = rest]) /\ UNCHANGED search
        ELSE /\ Runs([ripgrep EXCEPT !.pipe = rest, !.full = full,
                        !.killed = @ \/ full,
                        !.reason = IF full /\ @ = "none" THEN "caller_stop" ELSE @])
             /\ search' = [search EXCEPT !.hits = hits]
  /\ UNCHANGED <<disk, settled, rewrites, ask>>

(* terminate: the timer, or more output than allowed; the first reason stays *)
Terminate(reason) ==
  /\ At("running") /\ reason \in {"timeout", "output_limit"} /\ ripgrep.reason = "none"
  /\ Runs([ripgrep EXCEPT !.reason = reason, !.killed = TRUE])
  /\ UNCHANGED <<disk, settled, rewrites, ask, search>>

FallsBack(s) == [s EXCEPT !.at = "walking", !.hits = <<>>, !.next = 1]
Validates(s) == [s EXCEPT !.at = "validating", !.next = 1]

(* The process has ended and all its output was received; an exit code     *)
(* other than 0 and 1 means that it could not read everything              *)
ProcessCloses ==
  /\ At("running") /\ ripgrep.pipe = <<>>
  /\ ripgrep.killed \/ ripgrep.read = 1 .. Files
  /\ \E wrong \in BOOLEAN :
       Searches(CASE ripgrep.reason = "timeout" ->
                       Validates([search EXCEPT !.truncated = TRUE])
                  [] ripgrep.reason = "output_limit" -> FallsBack(search)
                  [] ripgrep.reason = "none" /\ wrong -> FallsBack(search)
                  [] OTHER -> Validates([search EXCEPT !.truncated = ripgrep.full]))
  /\ Runs(NoProcess)

SpawnFails ==
  /\ At("running") /\ ripgrep = NoProcess /\ search.hits = <<>>
  /\ Searches(FallsBack(search)) /\ UNCHANGED ripgrep

(* validateMatches: a file that is gone by now drops its hit *)
ValidateHit ==
  /\ At("validating") /\ search.next <= Len(search.hits)
  /\ LET hit == search.hits[search.next]
     IN Searches([search EXCEPT !.next = @ + 1,
                    !.kept = IF disk[hit.file] = Gone THEN @ ELSE Append(@, hit)])
  /\ UNCHANGED ripgrep

Validated ==
  /\ At("validating") /\ search.next > Len(search.hits)
  /\ Searches([search EXCEPT !.at = "context", !.next = 1])
  /\ UNCHANGED ripgrep

(* searchWithJavaScript: the next file, unless time is up or there is enough *)
WalkFile ==
  /\ At("walking") /\ search.next <= Files
  /\ \/ Searches([search EXCEPT !.truncated = TRUE, !.kept = @, !.at = "context", !.next = 1])
     \/ LET hits == TakesHits(search.kept, HitsOf(search.next))
        IN Searches(IF Len(hits) >= ask.max
                    THEN [search EXCEPT !.kept = hits, !.truncated = TRUE, !.at = "context", !.next = 1]
                    ELSE [search EXCEPT !.kept = hits, !.next = @ + 1])
  /\ UNCHANGED ripgrep

Walked ==
  /\ At("walking") /\ search.next > Files
  /\ Searches([search EXCEPT !.at = "context", !.next = 1])
  /\ UNCHANGED ripgrep

-----------------------------------------------------------------------------

(* The files with hits, in the order in which they come up *)
Groups == FoldLeft(LAMBDA files, hit : IF Contains(files, hit.file) THEN files
                                       ELSE Append(files, hit.file), <<>>, search.kept)
IndexesOf(f) == {i \in DOMAIN search.kept : search.kept[i].file = f}

(* The windows around the hits of a file: merged ones that overlap or touch *)
Windows(f) ==
  LET Before(i, j) == IF ask.mode = "merged" THEN search.kept[i].line < search.kept[j].line ELSE i < j
      Add(acc, i) ==
        LET line == search.kept[i].line
            start == IF line > ask.before THEN line - ask.before ELSE 1
            end == line + ask.after
            last == Len(acc.windows)
        IN IF /\ ask.mode = "merged" /\ last > Len(search.windows)
              /\ start <= acc.windows[last].end + 1
           THEN [windows |-> [acc.windows EXCEPT ![last].end = Max({@, end})],
                 of |-> [acc.of EXCEPT ![i] = last]]
           ELSE [windows |-> Append(acc.windows, [file |-> f, start |-> start, end |-> end]),
                 of |-> [acc.of EXCEPT ![i] = last + 1]]
  IN FoldLeft(Add, [windows |-> search.windows, of |-> search.of],
              SetToSortSeq(IndexesOf(f), Before))

(* collectLineWindows: the lines there are of each window *)
Collected(w) == [w EXCEPT !.end = Min({@, Len(Lines(w.file))})]

StartContext ==
  /\ At("context") /\ search.of = <<>> /\ search.kept # <<>>
  /\ Searches([search EXCEPT !.of = [i \in DOMAIN search.kept |-> 0]])
  /\ UNCHANGED ripgrep

(* One file of addContext; a file that is gone by now fails the whole call *)
CollectContext ==
  /\ At("context") /\ search.of # <<>> /\ search.next <= Len(Groups)
  /\ LET f == Groups[search.next]
         made == Windows(f)
         collected == [i \in DOMAIN made.windows |->
                         IF i <= Len(search.windows) THEN made.windows[i]
                         ELSE Collected(made.windows[i])]
         done == [search EXCEPT !.windows = collected, !.of = made.of, !.next = @ + 1]
     IN \/ Searches(IF disk[f] = Gone THEN [search EXCEPT !.at = "failed"] ELSE done)
        \/ Searches([search EXCEPT !.timedOut = TRUE, !.at = "compose"])
        \/ disk[f] # Gone /\ Searches([done EXCEPT !.timedOut = TRUE, !.at = "compose"])
  /\ UNCHANGED ripgrep

ContextCollected ==
  /\ At("context") /\ (search.kept = <<>> \/ search.of # <<>>) /\ search.next > Len(Groups)
  /\ Searches([search EXCEPT !.at = "compose"])
  /\ UNCHANGED ripgrep

WindowSize(w) == IF w.end < w.start THEN 0 ELSE w.end - w.start + 1
Shown(w, n) == [file |-> w.file, start |-> w.start, end |-> w.start + n - 1, cut |-> n < WindowSize(w)]

(* The merged answer: every hit that fits first, then the contexts *)
MergedAnswer ==
  LET fitting == Min({Len(search.kept), ask.budget})
      Context(acc, id) ==
        LET w == search.windows[id]
            rest == ask.budget - acc.used - 1
            n == Min({WindowSize(w), rest})
        IN IF {i \in 1 .. fitting : search.of[i] = id} = {} THEN acc
           ELSE IF ask.budget < acc.used + 1 THEN [acc EXCEPT !.truncated = TRUE]
           ELSE [used |-> acc.used + 1 + n, shown |-> acc.shown \cup {id},
                 contexts |-> Append(acc.contexts, Shown(w, n) @@ [id |-> id]),
                 truncated |-> acc.truncated \/ n < WindowSize(w)]
      made == FoldLeft(Context, [used |-> fitting, shown |-> {}, contexts |-> <<>>,
                                 truncated |-> search.timedOut \/ fitting < Len(search.kept)],
                       [i \in DOMAIN search.windows |-> i])
      Context0(i) == IF search.of[i] \in made.shown THEN search.of[i] ELSE 0
  IN [results |-> [i \in 1 .. fitting |-> search.kept[i] @@ [context |-> Context0(i)]],
      contexts |-> made.contexts,
      truncated |-> made.truncated \/ \E i \in 1 .. fitting : Context0(i) = 0]

(* The other answer: each hit with its own lines, until one does not fit *)
PerMatchAnswer ==
  LET Match(acc, i) ==
        LET id == search.of[i]
            rest == ask.budget - acc.used - 1
        IN IF acc.truncated THEN acc
           ELSE IF id = 0 \/ ask.budget <= acc.used + 1 THEN [acc EXCEPT !.truncated = TRUE]
           ELSE LET w == search.windows[id]
                    n == Min({WindowSize(w), rest})
                IN [used |-> acc.used + 1 + n,
                    results |-> Append(acc.results, search.kept[i] @@ [context |-> Len(acc.results) + 1]),
                    contexts |-> Append(acc.contexts, Shown(w, n) @@ [id |-> Len(acc.results) + 1]),
                    truncated |-> n < WindowSize(w)]
  IN FoldLeft(Match, [used |-> 0, results |-> <<>>, contexts |-> <<>>, truncated |-> FALSE],
              [i \in DOMAIN search.kept |-> i])

ComposeAnswer ==
  /\ At("compose")
  /\ LET answer == IF ask.mode = "merged" THEN MergedAnswer ELSE PerMatchAnswer
     IN Searches([search EXCEPT !.at = "answered", !.results = answer.results,
                    !.contexts = answer.contexts,
                    !.truncated = @ \/ answer.truncated \/ search.timedOut])
  /\ UNCHANGED ripgrep

-----------------------------------------------------------------------------

Contents == UNION {[1 .. n -> BOOLEAN] : n \in 1 .. MaxLines}
Disks == {d \in [1 .. Files -> Contents] : FoldFunction(LAMBDA lines, n : Len(lines) + n, 0, d) <= MaxLines}

Rewrite(f) ==
  /\ ~At("answered") /\ ~At("failed") /\ rewrites < MaxRewrites
  /\ \E new \in {Gone, <<TRUE>>} : disk[f] # new /\ disk' = [disk EXCEPT ![f] = new]
  /\ settled' = settled \ {f} /\ rewrites' = rewrites + 1
  /\ UNCHANGED <<ask, ripgrep, search>>

SearchInit ==
  /\ disk \in Disks /\ settled = 1 .. Files /\ rewrites = 0
  /\ ask \in [mode : {"merged", "per_match"}, max : 1 .. MaxHits, budget : Returned,
              before : 0 .. MaxAround, after : 0 .. MaxAround]
  /\ ripgrep = NoProcess
  /\ \E runtime \in {"running", "walking"} : search = [NoSearch EXCEPT !.at = runtime]

SearchIdle ==
  /\ disk = [f \in 1 .. Files |-> Gone] /\ settled = {} /\ rewrites = 0
  /\ ask = [mode |-> "none", max |-> 1, budget |-> 1, before |-> 0, after |-> 0]
  /\ ripgrep = NoProcess /\ search = NoSearch

SearchNext ==
  \/ \E f \in 1 .. Files : RipgrepReads(f) \/ Rewrite(f)
  \/ \E n \in 1 .. MaxLines : ChunkArrives(n)
  \/ \E reason \in {"timeout", "output_limit"} : Terminate(reason)
  \/ ProcessCloses \/ SpawnFails \/ ValidateHit \/ Validated \/ WalkFile \/ Walked
  \/ StartContext \/ CollectContext \/ ContextCollected \/ ComposeAnswer

-----------------------------------------------------------------------------

(* The lines that belong to a hit, and those that an answer shows for it   *)
Around(hit) ==
  {l \in DOMAIN Lines(hit.file) : l + ask.before >= hit.line /\ l <= hit.line + ask.after}
ShownFor(result) ==
  UNION {c.start .. c.end : c \in {x \in Range(search.contexts) : x.id = result.context}}

(* An answer that does not say it was cut short has every hit of every     *)
(* file that nobody touched during the call, with all the lines around it, *)
(* whichever engine found it and however the process ended; merged         *)
(* contexts of a file never overlap (searchWorkspaceText).                 *)
SearchIsComplete ==
  At("answered") =>
    /\ ~search.truncated =>
         \A f \in settled :
           /\ Range(HitsOf(f)) \subseteq {Hit(r.file, r.line) : r \in Range(search.results)}
           /\ \A r \in Range(search.results) : r.file = f =>
                Lines(f)[r.line] /\ Around(r) \subseteq ShownFor(r)
    /\ ask.mode = "merged" =>
         \A c, d \in Range(search.contexts) :
           c.file = d.file /\ c.id # d.id => (c.start .. c.end) \cap (d.start .. d.end) = {}
=============================================================================
