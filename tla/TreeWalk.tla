------------------------------ MODULE TreeWalk ------------------------------
(***************************************************************************)
(* The walks of Project Reading through a workspace: list_projects,        *)
(* list_dir and find_files (workspace.ts), the search of the server's own  *)
(* that stands in for ripgrep (search-tools.ts, searchWithJavaScript) and  *)
(* the scan of source files (code-intelligence.ts, scanCode).  Each awaits *)
(* at every directory and many entries it looks at, while other programs   *)
(* add and remove entries.                                                 *)
(*                                                                         *)
(* Entries are numbered in the order of their names.  An entry whose name  *)
(* the policy refuses is "denied"; a "link" leads to something in the      *)
(* root, "out" to something outside it.  Patterns, extensions and the      *)
(* content of files are left out: every file matches, once; so are the     *)
(* count of what was skipped and the metadata of what is listed.           *)
(***************************************************************************)
EXTENDS Naturals, Sequences, SequencesExt, FiniteSets, FiniteSetsExt

CONSTANTS
  Size,       \* entries there can be
  MaxEntries, \* limits a caller may ask for: maxEntries, maxResults
  Visits,     \* values of maxSearchVisitedEntries
  MaxOdd,     \* entries that are links or denied (bounds the model)
  MaxChanges  \* entries that come or go during a call (bounds the model)

ASSUME TreeWalkAssumption ==
  {Size, MaxEntries, MaxOdd, MaxChanges} \cup Visits \subseteq Nat \ {0}

VARIABLES
  tree,    \* where each entry is, and what it is
  present, \* the entries there are
  steady,  \* those that have been there all along
  changes, \* how often an entry came or went
  walk     \* the call: its arguments, its stack of directories, its answer

walkVars == <<tree, present, steady, changes, walk>>

-----------------------------------------------------------------------------

Entries == 1 .. Size
Top == 0
Kinds == {"dir", "file", "link", "out", "denied"}

Children(d) == {e \in present : tree.parent[e] = d}

(* An entry and the directories it is in *)
Path(e) ==
  LET path[x \in {Top} \cup Entries] ==
        IF x = Top THEN {} ELSE {x} \cup path[tree.parent[x]]
  IN path[e]
Below(e) == {x \in Entries : e \in Path(x)}

NoWalk == [tool |-> "none", at |-> "answered", depth |-> 0, max |-> 1, visits |-> 1, stack |-> <<>>,
           current |-> Top, listed |-> <<>>, visited |-> 0, limit |-> "none"]

(* The walk that a call of a tool begins with *)
Begins(tool, depth, max, visits) ==
  [NoWalk EXCEPT !.tool = tool, !.at = "read", !.depth = depth, !.max = max, !.visits = visits,
                 !.stack = <<[dir |-> Top, left |-> {}]>>]

(* The tools that go into every directory, and count and time what they do *)
Limited == {"find", "search", "code"}

WalkIs(tools, at) == walk.tool \in tools /\ walk.at = at
Walks(w) == walk' = w /\ UNCHANGED <<tree, present, steady, changes>>
SkipEntry(w) == [w EXCEPT !.at = "loop"]
Failed(w) == [w EXCEPT !.at = "failed"]

(* The function that walks one directory returns *)
Leaves(w) ==
  IF Len(w.stack) = 1 THEN [w EXCEPT !.at = "answered"]
  ELSE [w EXCEPT !.stack = Tail(@), !.at = "loop"]

(* It returns early, and the answer says why *)
Stops(w, why) == Leaves([w EXCEPT !.limit = why])

Descends(w, e) == [w EXCEPT !.stack = <<[dir |-> e, left |-> {}]>> \o @, !.at = "read"]

(* An entry joins the answer; a search that has enough stops *)
Lists(w, e) ==
  LET found == [w EXCEPT !.listed = Append(@, e), !.at = "loop"]
  IN IF w.tool \in {"find", "search"} /\ Len(found.listed) >= w.max
     THEN Stops(found, "results") ELSE found

(* A listing has all the entries it may have *)
ListIsFull == walk.tool = "list" /\ Len(walk.listed) >= walk.max

-----------------------------------------------------------------------------

(* fs.readdir of the directory on top of the stack *)
ReadDirectory ==
  LET dir == Head(walk.stack).dir
  IN /\ walk.at = "read"
     /\ \/ ListIsFull /\ Walks(Stops(walk, "entries"))
        \/ walk.tool \in Limited /\ Walks(Stops(walk, "timeout"))
        \/ /\ ~ListIsFull
           /\ Walks(IF dir \in present \cup {Top}
                    THEN [walk EXCEPT !.at = "loop", !.stack[1].left = Children(dir)]
                    ELSE IF walk.tool \in Limited THEN Leaves(walk) ELSE Failed(walk))

(* The end of the loop over a directory's entries, or its early end *)
LeaveDirectory ==
  LET left == Head(walk.stack).left
  IN /\ walk.at = "loop"
     /\ \/ left = {} /\ Walks(Leaves(walk))
        \/ left # {} /\ ListIsFull /\ Walks(Stops(walk, "entries"))
        \/ left # {} /\ walk.limit # "none" /\ walk.tool \in Limited /\ Walks(Leaves(walk))

(* What the loop does with an entry before it awaits *)
FirstLook(w, e) ==
  LET kind == tree.kind[e]
  IN CASE kind = "denied" -> SkipEntry(w)
       [] kind # "denied" /\ w.tool = "list" -> [w EXCEPT !.at = "stat"]
       [] kind \in {"link", "out"} /\ w.tool # "list" -> SkipEntry(w)
       [] kind = "dir" /\ w.tool # "list" -> [w EXCEPT !.at = "resolve"]
       [] kind = "file" /\ w.tool = "projects" -> SkipEntry(w)
       [] kind = "file" /\ w.tool = "find" -> Lists(w, e)
       [] kind = "file" /\ w.tool = "search" -> [w EXCEPT !.at = "stat"]
       [] kind = "file" /\ w.tool = "code" ->
            IF Len(w.listed) >= w.max THEN Stops(w, "files") ELSE [w EXCEPT !.at = "stat"]

LookAtEntry ==
  LET e == Min(Head(walk.stack).left)
      w == [walk EXCEPT !.stack[1].left = @ \ {e}, !.current = e,
                        !.visited = @ + (IF walk.tool \in Limited THEN 1 ELSE 0)]
  IN /\ walk.at = "loop" /\ Head(walk.stack).left # {}
     /\ ~ListIsFull /\ (walk.tool \in Limited => walk.limit = "none")
     /\ \/ w.visited > w.visits /\ Walks(Stops(w, "visited_entries"))
        \/ w.visited <= w.visits /\ w.tool = "search" /\ Walks(Stops(w, "timeout"))
        \/ w.visited <= w.visits /\ Walks(FirstLook(w, e))

(* fs.lstat of an entry of a listing; one that is gone by now fails the call *)
StatEntry ==
  LET e == walk.current
  IN /\ WalkIs({"list"}, "stat")
     /\ Walks(CASE e \notin present -> Failed(walk)
                [] e \in present /\ tree.kind[e] \in {"link", "out"} -> [walk EXCEPT !.at = "resolve"]
                [] e \in present /\ tree.kind[e] = "dir" /\ Len(walk.stack) <= walk.depth ->
                     [Lists(walk, e) EXCEPT !.at = "resolve"]
                [] OTHER -> Lists(walk, e))

(* fs.realpath of a link or of a directory; list_dir and the deep walks go *)
(* into the directory, list_projects looks at it once more                 *)
ResolveEntry ==
  LET e == walk.current
      isDir == tree.kind[e] = "dir"
  IN /\ walk.at = "resolve"
     /\ Walks(CASE e \in present /\ isDir /\ walk.tool = "projects" -> [walk EXCEPT !.at = "again"]
                [] e \in present /\ isDir /\ walk.tool # "projects" -> Descends(walk, e)
                [] e \in present /\ tree.kind[e] = "link" -> Lists(walk, e)
                [] e \notin present /\ isDir /\ walk.tool = "list" -> Failed(walk)
                [] OTHER -> SkipEntry(walk))

(* list_projects resolves the name again; one that is gone fails the call  *)
DescribeProject ==
  /\ walk.at = "again"
  /\ Walks(IF walk.current \in present THEN Lists(walk, walk.current) ELSE Failed(walk))

(* A search, or a scan, looks at a file before it reads it; the scan fails *)
(* when the file is gone, and stops when the sources are too large         *)
StatFile ==
  /\ WalkIs({"search", "code"}, "stat")
  /\ \/ Walks(CASE walk.current \in present -> [walk EXCEPT !.at = "content"]
               [] walk.current \notin present /\ walk.tool = "search" -> SkipEntry(walk)
               [] OTHER -> Failed(walk))
     \/ walk.tool = "code" /\ walk.current \in present /\ Walks(Stops(walk, "source_bytes"))

(* A scan checks that a file is text; a file that is gone is passed over *)
CheckText ==
  /\ WalkIs({"code"}, "content")
  /\ Walks(IF walk.current \in present THEN [walk EXCEPT !.at = "load"] ELSE SkipEntry(walk))

LoadSource ==
  /\ WalkIs({"code"}, "load")
  /\ Walks(IF walk.current \in present THEN Lists(walk, walk.current) ELSE Failed(walk))

(* The stream of a file that is gone by now breaks a search *)
StreamFile ==
  /\ WalkIs({"search"}, "content")
  /\ \/ Walks(IF walk.current \in present THEN Lists(walk, walk.current) ELSE Failed(walk))
     \/ walk.current \in present /\ Walks([walk EXCEPT !.limit = "timeout", !.at = "loop"])

-----------------------------------------------------------------------------

(* Another program removes an entry with what is in it, or makes one *)
Vanish(e) ==
  /\ walk.at \notin {"answered", "failed"} /\ changes < MaxChanges /\ e \in present
  /\ present' = present \ Below(e) /\ steady' = steady \ Below(e)
  /\ changes' = changes + 1
  /\ UNCHANGED <<tree, walk>>

Appear(e) ==
  /\ walk.at \notin {"answered", "failed"} /\ changes < MaxChanges /\ e \notin present
  /\ tree.parent[e] \in present \cup {Top}
  /\ present' = present \cup {e}
  /\ changes' = changes + 1
  /\ UNCHANGED <<tree, steady, walk>>

(* Only a directory, denied or not, holds entries *)
Trees ==
  {t \in [parent : [Entries -> {Top} \cup Entries], kind : [Entries -> Kinds]] :
     /\ Cardinality({e \in Entries : t.kind[e] \notin {"dir", "file"}}) <= MaxOdd
     /\ \A e \in Entries :
          /\ t.parent[e] < e
          /\ t.parent[e] # Top => t.kind[t.parent[e]] \in {"dir", "denied"}}

(* The calls the server takes, each as the walk it begins *)
ListProjects == {Begins("projects", 0, MaxEntries, Max(Visits))}
ListDir == {Begins("list", depth, max, Max(Visits)) : depth \in 0 .. 1, max \in 1 .. MaxEntries}
FindFiles == {Begins("find", 0, max, visits) : max \in 1 .. MaxEntries, visits \in Visits}
SearchText == {Begins("search", 0, max, visits) : max \in 1 .. MaxEntries, visits \in Visits}
CodeTools == {Begins("code", 0, max, visits) : max \in 1 .. MaxEntries, visits \in Visits}

TreeWalkInit ==
  /\ tree \in Trees
  /\ present \in {Entries \ Below(e) : e \in Entries} \cup {Entries}
  /\ steady = present /\ changes = 0
  /\ walk \in ListProjects \cup ListDir \cup FindFiles \cup SearchText \cup CodeTools

TreeWalkIdle ==
  /\ tree = [parent |-> [e \in Entries |-> Top], kind |-> [e \in Entries |-> "file"]]
  /\ present = {} /\ steady = {} /\ changes = 0 /\ walk = NoWalk

TreeWalkNext ==
  \/ ReadDirectory \/ LeaveDirectory \/ LookAtEntry
  \/ StatEntry \/ ResolveEntry \/ DescribeProject
  \/ StatFile \/ CheckText \/ LoadSource \/ StreamFile
  \/ \E e \in Entries : Vanish(e) \/ Appear(e)

-----------------------------------------------------------------------------

(* What the answer must name: it was there all along, in directories that  *)
(* the policy allows, no deeper than was asked.                            *)
Within(e) ==
  /\ e \in steady
  /\ \A a \in Path(e) \ {e} : tree.kind[a] = "dir"
  /\ CASE walk.tool = "list" -> /\ tree.kind[e] \in {"dir", "file", "link"}
                                /\ Cardinality(Path(e)) <= walk.depth + 1
       [] walk.tool = "projects" -> tree.kind[e] = "dir" /\ tree.parent[e] = Top
       [] OTHER -> tree.kind[e] = "file"

(* An answer that does not say it was cut short names everything that was  *)
(* there during the whole call, whatever else came and went; and no answer *)
(* names what the policy denies or what only a denied directory or a link  *)
(* leads to (listProjects, visitDirectory, findFiles,                      *)
(* searchWithJavaScript, scanCode).                                        *)
WalkIsComplete ==
  walk.at = "answered" =>
    /\ walk.limit = "none" => \A e \in Entries : Within(e) => e \in Range(walk.listed)
    /\ walk.tool # "projects" => Len(walk.listed) <= walk.max
    /\ \A e \in Range(walk.listed) :
         /\ \A a \in Path(e) \ {e} : tree.kind[a] = "dir"
         /\ tree.kind[e] \in {"dir", "file", "link"}
=============================================================================
