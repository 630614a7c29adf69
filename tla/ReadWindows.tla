---------------------------- MODULE ReadWindows ----------------------------
(***************************************************************************)
(* The reading tools of Project Reading that return a bounded part of a    *)
(* source, and the client that goes on from where an answer says: a text   *)
(* file by lines (text-reader.ts), a PDF by pages (pdf-worker.ts), a Word  *)
(* document by blocks and a presentation by slides (openxml.ts), a sheet   *)
(* (assets.ts), the map of a project (code-intelligence.ts), and           *)
(* read_files, which shares one budget among several files (workspace.ts). *)
(*                                                                         *)
(* A source is a sequence of units (lines of one file are pieces of unit   *)
(* one; otherwise files, pages, blocks, slides or rows), a unit a sequence *)
(* of pieces (lines, cells, texts, symbols), a piece its number of         *)
(* characters.  What an editor writes between and during the calls of a    *)
(* client that asks for the digest of the text is here; extraction is not. *)
(***************************************************************************)
EXTENDS Integers, Sequences, SequencesExt, FiniteSets, FiniteSetsExt

CONSTANTS
  MaxUnits, MaxPieces, \* units of a source, pieces in all
  Sizes,               \* characters of a piece
  Widths,              \* bytes of a character
  MaxCount,            \* largest limit on lines, pages, blocks, slides, rows
  MaxBudget,           \* largest limit on bytes, characters, cells, symbols
  MaxEdits             \* changes of the text while it is read (bounds the model)

ASSUME ReadWindowsAssumption ==
  /\ {MaxUnits, MaxPieces, MaxCount, MaxBudget} \cup Widths \subseteq Nat \ {0}
  /\ Sizes \subseteq Nat /\ MaxEdits \in Nat

VARIABLES
  source, width, \* what is read, and how many bytes a character takes
  query,         \* the tool and its limits
  pager,         \* the client: where it is, and what it has
  shares,        \* read_files: the answer for each file
  edits

readVars == <<source, width, query, pager, shares, edits>>

-----------------------------------------------------------------------------

Least(a, b) == IF a < b THEN a ELSE b
Largest(a, b) == IF a < b THEN b ELSE a
Upto(n) == [i \in 1 .. n |-> i]
Piece(u, p, n) == [unit |-> u, piece |-> p, size |-> n]
Whole(u) == {Piece(u, p, source[u][p]) : p \in DOMAIN source[u]}
Sum(s) == FoldLeft(LAMBDA a, b : a + b, 0, s)

(* The units there are, and the sources *)
Units == UNION {[1 .. n -> Sizes] : n \in 0 .. MaxPieces}
Sources == {s \in UNION {[1 .. n -> Units] : n \in 1 .. MaxUnits} :
              FoldLeft(LAMBDA n, u : n + Len(u), 0, s) <= MaxPieces}

(* What an answer holds: pieces, the units it marks as cut short, where to *)
(* go on (0: nowhere), and whether it says that something is missing.      *)
Answer(pieces, cut, next, truncated) ==
  [pieces |-> pieces, cut |-> cut, next |-> next, truncated |-> truncated]

-----------------------------------------------------------------------------

(* Mutant of Completed: a partial line counts as read *)
CompletedOrPartial(read) == Len(read.got)

(* The lines that were read to their end *)
Completed(read) == Len(read.got) - (IF read.partial THEN 1 ELSE 0)

(* readTextWindow: whole lines while they fit; only a first line is partial *)
TextWindow(lines, start, maxLines, budget) ==
  LET Line(acc, i) ==
        LET sep == IF acc.got = <<>> THEN 0 ELSE 1
            rest == budget - acc.bytes - sep
            bytes == lines[i] * width
            part == rest \div width
        IN IF i < start \/ Len(acc.got) >= maxLines \/ acc.cut THEN acc
           ELSE IF rest >= bytes
                THEN [acc EXCEPT !.got = Append(@, lines[i]), !.bytes = @ + sep + bytes]
           ELSE IF acc.got = <<>> /\ rest > 0
                THEN [got |-> <<part>>, bytes |-> part * width, cut |-> TRUE, partial |-> TRUE]
           ELSE [acc EXCEPT !.cut = TRUE]
      read == FoldLeft(Line, [got |-> <<>>, bytes |-> 0, cut |-> FALSE, partial |-> FALSE],
                       Upto(Len(lines)))
      completed == Completed(read)
      next == start + completed
  IN [got |-> SubSeq(read.got, 1, completed), bytes |-> read.bytes,
      next |-> IF next > Len(lines) THEN 0 ELSE next,
      stuck |-> read.cut /\ completed = 0]

(* readText: pages while there is budget; a page cut short ends the answer *)
PdfPages(start) ==
  LET end == Least(Len(source), start + query.count - 1)
      Page(acc, u) ==
        LET size == Sum(source[u])
            part == Least(size, query.budget - acc.used)
        IN IF acc.truncated \/ u < start \/ u > end THEN acc
           ELSE IF acc.used >= query.budget THEN [acc EXCEPT !.truncated = TRUE]
           ELSE [used |-> acc.used + part, next |-> u + 1,
                 pieces |-> acc.pieces \cup (IF part = size THEN Whole(u) ELSE {}),
                 cut |-> acc.cut \cup (IF part < size THEN {u} ELSE {}),
                 truncated |-> part < size]
      read == FoldLeft(Page, [used |-> 0, next |-> start, pieces |-> {}, cut |-> {},
                              truncated |-> FALSE], Upto(Len(source)))
  IN Answer(read.pieces, read.cut,
            IF read.next > Len(source) THEN 0 ELSE read.next, read.truncated)

(* limitDocumentBlock, limitSlideText: the pieces of a unit that fit, with *)
(* a separator between them; a piece of which nothing fits ends it         *)
Fitting(u, budget) ==
  LET Take(acc, p) ==
        LET sep == IF acc.used > 0 THEN 1 ELSE 0
            rest == budget - acc.used - sep
            part == Least(source[u][p], rest)
        IN IF acc.cut THEN acc
           ELSE IF rest <= 0 THEN [acc EXCEPT !.cut = TRUE]
           ELSE [pieces |-> acc.pieces \cup {Piece(u, p, part)}, used |-> acc.used + sep + part,
                 cut |-> part < source[u][p]]
  IN FoldLeft(Take, [pieces |-> {}, used |-> 0, cut |-> FALSE], Upto(Len(source[u])))

(* selectDocumentBlocks; a block cut short is marked, and is not come back to *)
DocumentBlocks(start) ==
  LET Block(acc, u) ==
        LET fit == Fitting(u, query.budget - acc.used)
        IN IF u < start \/ acc.stop \/ acc.n >= query.count \/ acc.used >= query.budget THEN acc
           ELSE [n |-> acc.n + 1, used |-> acc.used + fit.used, next |-> u + 1,
                 pieces |-> acc.pieces \cup fit.pieces, stop |-> fit.cut,
                 cut |-> acc.cut \cup (IF fit.cut THEN {u} ELSE {})]
      read == FoldLeft(Block, [n |-> 0, used |-> 0, next |-> start, pieces |-> {},
                               cut |-> {}, stop |-> FALSE], Upto(Len(source)))
  IN Answer(read.pieces, read.cut, IF read.next > Len(source) THEN 0 ELSE read.next,
            read.stop \/ read.next <= Len(source))

(* readPowerPointPresentation: the loop over the slides *)
PresentationSlides(start) ==
  LET Slide(acc, u) ==
        LET rest == query.budget - acc.used
            fit == Fitting(u, rest)
        IN IF u < start \/ acc.stop \/ acc.n >= query.count THEN acc
           ELSE IF fit.pieces = {} /\ rest <= 0 THEN [acc EXCEPT !.stop = TRUE]
           ELSE [n |-> acc.n + 1, used |-> acc.used + fit.used, last |-> u,
                 pieces |-> acc.pieces \cup fit.pieces, stop |-> fit.cut,
                 cut |-> acc.cut \cup (IF fit.cut THEN {u} ELSE {})]
      read == FoldLeft(Slide, [n |-> 0, used |-> 0, last |-> start - 1, pieces |-> {},
                               cut |-> {}, stop |-> FALSE], Upto(Len(source)))
      more == read.last < Len(source)
  IN Answer(read.pieces, read.cut, IF more THEN read.last + 1 ELSE 0, more \/ read.stop)

(* readSpreadsheetAsset, parseRange: a rectangle from the first cell, as    *)
(* many rows as have values (an empty row above others is not counted);     *)
(* one column is returned in any case                                       *)
SheetRange ==
  LET rows == Largest(1, Cardinality({u \in DOMAIN source : source[u] # <<>>}))
      columns == Largest(1, FoldLeft(LAMBDA m, row : Largest(m, Len(row)), 0, source))
      endRow == Least(rows, query.count)
      endColumn == Least(Least(columns, query.count), Largest(1, query.budget \div endRow))
  IN Answer(UNION {{x \in Whole(u) : x.piece <= endColumn} : u \in 1 .. endRow}, {}, 0,
            endRow < rows \/ endColumn < columns)

(* projectMap: the limits on files, on symbols of a file, on all symbols *)
ProjectMap ==
  LET File(acc, u) ==
        LET listed == Least(Least(Len(source[u]), query.count), query.budget - acc.used)
        IN IF u > query.count THEN acc
           ELSE [used |-> acc.used + listed,
                 pieces |-> acc.pieces \cup {x \in Whole(u) : x.piece <= listed},
                 cut |-> acc.cut \cup (IF listed < Len(source[u]) THEN {u} ELSE {})]
      read == FoldLeft(File, [used |-> 0, pieces |-> {}, cut |-> {}], Upto(Len(source)))
  IN Answer(read.pieces, read.cut, 0, read.cut # {} \/ Len(source) > query.count)

-----------------------------------------------------------------------------

EqualShare(demand, rest, n) == Least(demand, rest \div n)

(* distributeBudget: the smallest demand first, each at most its equal share *)
Distribute(demands, budget) ==
  LET Before(i, j) == demands[i] < demands[j] \/ (demands[i] = demands[j] /\ i < j)
      order == SetToSortSeq(DOMAIN demands, Before)
      Allot(acc, k) ==
        LET share == EqualShare(demands[order[k]], acc.rest, Len(order) - k + 1)
        IN [rest |-> acc.rest - share, of |-> [acc.of EXCEPT ![order[k]] = share]]
  IN FoldLeft(Allot, [rest |-> budget, of |-> [i \in DOMAIN demands |-> 0]],
              Upto(Len(order))).of

(* stat.size of a file: its lines and their ends *)
FileBytes(lines) == Sum(lines) * width + Len(lines)
Unset == SelectSeq(Upto(Len(source)), LAMBDA f : query.asked[f] = 0)
Asked == Sum([f \in DOMAIN source |-> query.asked[f]])

(* The lines each file may have: what was asked, or its share of the rest *)
LineBudgets ==
  LET share == Distribute([i \in 1 .. Len(Unset) |-> MaxCount], query.count - Asked)
  IN [f \in DOMAIN source |->
        IF query.asked[f] > 0 THEN query.asked[f]
        ELSE share[CHOOSE i \in DOMAIN Unset : Unset[i] = f]]

Demands == [f \in DOMAIN source |->
              IF LineBudgets[f] = 0 THEN 0 ELSE Least(MaxBudget, FileBytes(source[f]))]

(* readWorkspaceFiles: each file in turn, with the first share of what is left *)
ReadFiles ==
  LET Read(acc, f) ==
        LET allowed == Distribute(SubSeq(Demands, f, Len(source)), acc.rest)[1]
            window == TextWindow(source[f], 1, LineBudgets[f], allowed)
        IN [rest |-> acc.rest - window.bytes,
            files |-> Append(acc.files, [allowed |-> allowed, window |-> window])]
  IN FoldLeft(Read, [rest |-> query.budget, files |-> <<>>], Upto(Len(source))).files

-----------------------------------------------------------------------------

NewPager == [at |-> "ask", start |-> 1, have |-> {}, cut |-> {}, told |-> FALSE,
             opened |-> 0, digest |-> <<>>]

(* The client takes an answer, and goes on where it says *)
TakesAnswer(a) ==
  pager' = [pager EXCEPT !.have = @ \cup a.pieces, !.cut = @ \cup a.cut,
                         !.start = a.next, !.told = @ \/ (a.next = 0 /\ a.truncated),
                         !.at = IF a.next = 0 THEN "done" ELSE "ask"]

ReadPage ==
  /\ pager.at = "ask" /\ query.tool \in {"pdf", "docx", "pptx", "sheet", "map"}
  /\ TakesAnswer(CASE query.tool = "pdf" -> PdfPages(pager.start)
             [] query.tool = "docx" -> DocumentBlocks(pager.start)
             [] query.tool = "pptx" -> PresentationSlides(pager.start)
             [] query.tool = "sheet" -> SheetRange
             [] query.tool = "map" -> ProjectMap)
  /\ UNCHANGED <<source, width, query, shares, edits>>

ReadBatch ==
  /\ pager.at = "ask" /\ query.tool = "batch"
  /\ shares' = ReadFiles
  /\ pager' = [pager EXCEPT !.at = "done"]
  /\ UNCHANGED <<source, width, query, edits>>

(* readUtf8Snapshot: the file's times are compared before and after *)
OpenText ==
  /\ pager.at = "ask" /\ query.tool = "text"
  /\ pager' = [pager EXCEPT !.at = "read", !.opened = edits]
  /\ UNCHANGED <<source, width, query, shares, edits>>

ReadText ==
  LET window == TextWindow(source[1], pager.start, query.count, query.budget)
      lines == {Piece(1, pager.start + i - 1, window.got[i]) : i \in DOMAIN window.got}
  IN /\ pager.at = "read"
     /\ pager' =
          IF pager.opened # edits THEN [pager EXCEPT !.at = "ask"]
          ELSE IF pager.start > 1 /\ pager.digest # source THEN NewPager
          ELSE [pager EXCEPT !.digest = source, !.have = @ \cup lines, !.start = window.next,
                             !.at = IF window.next = 0 THEN "done"
                                    ELSE IF window.stuck THEN "stuck" ELSE "ask"]
     /\ UNCHANGED <<source, width, query, shares, edits>>

EditText ==
  /\ query.tool = "text" /\ pager.at \in {"ask", "read"} /\ edits < MaxEdits
  /\ \E lines \in Units : source' = <<lines>> /\ lines # source[1]
  /\ edits' = edits + 1
  /\ UNCHANGED <<width, query, pager, shares>>

-----------------------------------------------------------------------------

(* The calls the server takes, by tool, with their two limits; a batch may *)
(* ask for a number of lines of some of its files                          *)
Asking(tool, asked) ==
  [tool : {tool}, count : 1 .. MaxCount, budget : 1 .. MaxBudget, asked : asked]
ReadFileCalls == Asking("text", {<<>>})
ReadFilesCalls == Asking("batch", [DOMAIN source -> 0 .. MaxCount])
ReadPdfTextCalls == Asking("pdf", {<<>>})
ReadDocumentCalls == Asking("docx", {<<>>})
ReadPresentationCalls == Asking("pptx", {<<>>})
ReadSpreadsheetCalls == Asking("sheet", {<<>>})
ProjectMapCalls == Asking("map", {<<>>})

ReadInit ==
  /\ width \in Widths
  /\ \/ /\ source \in {<<lines>> : lines \in Units}
        /\ query \in ReadFileCalls
     \/ /\ source \in Sources
        /\ query \in ReadFilesCalls /\ Asked <= query.count
     \/ /\ source \in Sources /\ width = 1
        /\ query \in ReadPdfTextCalls \cup ReadDocumentCalls \cup ReadPresentationCalls
                       \cup ReadSpreadsheetCalls \cup ProjectMapCalls
  /\ pager = NewPager /\ shares = <<>> /\ edits = 0

ReadIdle ==
  /\ source = <<>> /\ width = 1 /\ shares = <<>> /\ edits = 0
  /\ query = [tool |-> "none", count |-> 1, budget |-> 1, asked |-> <<>>]
  /\ pager = [NewPager EXCEPT !.at = "done"]

ReadNext == ReadPage \/ ReadBatch \/ OpenText \/ ReadText \/ EditText

-----------------------------------------------------------------------------

(* A sheet with an empty row above another one *)
HasGap == query.tool = "sheet" /\ \E u, v \in DOMAIN source : u < v /\ source[u] = <<>> /\ source[v] # <<>>

(* A client that follows an answer's next place until there is none, and   *)
(* was not told that something is missing, has every piece of the source   *)
(* it read, save of units that were marked as cut short; a text it has as  *)
(* it was at one moment, and it is held up only by a line that is longer   *)
(* than the budget.  A sheet with an empty row above others is left out:   *)
(* it loses its last rows (readTextWindow, readText, selectDocumentBlocks, *)
(* readPowerPointPresentation, readSpreadsheetAsset, projectMap).          *)
PagesAreTheSource ==
  /\ pager.at = "done" /\ query.tool \notin {"batch", "text", "none"} /\ ~pager.told /\ ~HasGap =>
       \A u \in DOMAIN source : Whole(u) \subseteq pager.have \/ u \in pager.cut
  /\ pager.at = "done" /\ query.tool = "text" =>
       pager.have = {Piece(1, p, pager.digest[1][p]) : p \in DOMAIN pager.digest[1]}
  /\ pager.at = "stuck" => pager.digest[1][pager.start] * width > query.budget

(* However the demands lie, no file of a batch takes what another was      *)
(* entitled to: everyone may have its demand or an equal share of bytes    *)
(* and of unrequested lines, the totals hold, and a file with nowhere to   *)
(* go on is whole (readWorkspaceFiles, distributeBudget).                  *)
SharesAreFair ==
  shares # <<>> =>
    /\ Sum([f \in DOMAIN shares |-> shares[f].window.bytes]) <= query.budget
    /\ Sum(LineBudgets) <= query.count
    /\ \A f \in DOMAIN shares :
         /\ shares[f].allowed >= Least(Demands[f], query.budget \div Len(source))
         /\ query.asked[f] = 0 =>
              LineBudgets[f] >= Least(MaxCount, (query.count - Asked) \div Len(Unset))
         /\ shares[f].window.next = 0 => shares[f].window.got = source[f]

(* No text is lost between the pages of a file nor between the files of a  *)
(* batch.                                                                  *)
WindowsAreWhole == PagesAreTheSource /\ SharesAreFair
=============================================================================
