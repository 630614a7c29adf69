----------------------------- MODULE OfficeText -----------------------------
(***************************************************************************)
(* How Project Reading takes the text out of a Word document and of a      *)
(* slide or its notes (openxml.ts, parseWordDocument and                   *)
(* parsePresentationText): handlers that a streaming parser calls at every *)
(* tag and text, and that keep what they need in a handful of variables.   *)
(*                                                                         *)
(* The document is written tag by tag, as its schema allows.  A text is a  *)
(* number, so that none is like another; styles, breaks, tabs and the      *)
(* counts of changes and links are left out.                               *)
(***************************************************************************)
EXTENDS Naturals, Sequences, SequencesExt

CONSTANTS
  MaxTags,   \* tags of a document (bounds the model)
  MaxNested, \* tags open at once (bounds the model)
  CellLimits, \* values of maxDocumentTableCells
  TextBoxes  \* whether paragraphs hold text boxes, which hold paragraphs

ASSUME OfficeTextAssumption ==
  {MaxTags, MaxNested} \cup CellLimits \subseteq Nat /\ TextBoxes \in BOOLEAN

VARIABLES
  part,    \* what is parsed, and the limit on table cells
  open,    \* the tags that are open, the innermost first
  tags,    \* tags opened so far
  written, \* the texts of the document so far that are not deleted
  parser   \* the variables of the handlers

officeVars == <<part, open, tags, written, parser>>

-----------------------------------------------------------------------------

(* What may be inside what *)
Inside ==
  IF part.kind = "word"
  THEN [body |-> {"p", "tbl"}, tbl |-> {"tr"}, tr |-> {"tc"}, tc |-> {"p", "tbl"},
        p |-> {"t", "del"} \cup (IF TextBoxes THEN {"p"} ELSE {}), del |-> {"t"}, t |-> {}]
  ELSE [body |-> {"title", "bodyText", "picture"}, title |-> {"p"}, bodyText |-> {"p"},
        picture |-> {"p"}, p |-> {"t"}, t |-> {}]
Here == IF open = <<>> THEN "body" ELSE Head(open)
Shapes == {"title", "bodyText", "picture"}

None == <<0>>
NoParagraph == [text |-> None, inTable |-> FALSE, placeholder |-> "none"]
NewParser == [blocks |-> <<>>, paragraph |-> NoParagraph, table |-> None, row |-> None,
              cell |-> None, nested |-> 0, textDepth |-> 0, deletedDepth |-> 0, cells |-> 0,
              placeholder |-> "none", title |-> None, failed |-> FALSE]
InOuterTable(p) == p.table # None /\ p.nested = 0

(* parseWordDocument: open, text and close *)
WordOpen(p, tag) ==
  CASE tag = "del" -> [p EXCEPT !.deletedDepth = @ + 1]
    [] tag = "t" -> [p EXCEPT !.textDepth = @ + 1]
    [] tag = "p" -> [p EXCEPT !.paragraph = [text |-> <<>>, inTable |-> p.table # None,
                                             placeholder |-> "none"]]
    [] tag = "tbl" -> IF p.table # None THEN [p EXCEPT !.nested = @ + 1] ELSE [p EXCEPT !.table = <<>>]
    [] tag = "tr" /\ InOuterTable(p) -> [p EXCEPT !.row = <<>>]
    [] tag = "tc" /\ InOuterTable(p) -> [p EXCEPT !.cell = <<>>]
    [] OTHER -> p

(* Mutant: the text of a deletion is kept *)
WordTextDeleted(p, value) ==
  IF p.textDepth > 0 /\ p.paragraph # NoParagraph
  THEN [p EXCEPT !.paragraph.text = Append(@, value)] ELSE p

WordText(p, value) ==
  IF p.textDepth > 0 /\ p.paragraph # NoParagraph /\ p.deletedDepth = 0
  THEN [p EXCEPT !.paragraph.text = Append(@, value)] ELSE p

WordClose(p, tag) ==
  LET text == p.paragraph.text
  IN CASE tag = "t" -> [p EXCEPT !.textDepth = @ - 1]
       [] tag = "del" -> [p EXCEPT !.deletedDepth = @ - 1]
       [] tag = "p" /\ p.paragraph # NoParagraph ->
            [p EXCEPT !.paragraph = NoParagraph,
               !.cell = IF p.paragraph.inTable /\ @ # None THEN @ \o text ELSE @,
               !.blocks = IF (p.paragraph.inTable /\ p.cell # None) \/ text = <<>> THEN @ ELSE Append(@, text)]
       [] tag = "tc" /\ InOuterTable(p) /\ p.row # None /\ p.cell # None ->
            [p EXCEPT !.row = @ \o p.cell, !.cell = None, !.cells = @ + 1,
                      !.failed = p.cells + 1 > part.limit]
       [] tag = "tr" /\ InOuterTable(p) /\ p.row # None -> [p EXCEPT !.table = @ \o p.row, !.row = None]
       [] tag = "tbl" /\ p.nested > 0 -> [p EXCEPT !.nested = @ - 1]
       [] tag = "tbl" /\ InOuterTable(p) -> [p EXCEPT !.blocks = Append(@, p.table), !.table = None]
       [] OTHER -> p

(* parsePresentationText: a shape of a given placeholder is one tag here *)
SlideOpen(p, tag) ==
  CASE tag \in Shapes -> [p EXCEPT !.placeholder = IF tag = "picture" THEN "none" ELSE tag]
    [] tag = "p" -> [p EXCEPT !.paragraph = [text |-> <<>>, inTable |-> FALSE,
                                             placeholder |-> p.placeholder]]
    [] tag = "t" -> [p EXCEPT !.textDepth = @ + 1]

SlideText(p, value) ==
  IF p.textDepth > 0 /\ p.paragraph # NoParagraph
  THEN [p EXCEPT !.paragraph.text = Append(@, value)] ELSE p

SlideClose(p, tag) ==
  LET text == p.paragraph.text
      include == text # <<>> /\ (part.kind = "notes" => p.paragraph.placeholder = "bodyText")
  IN CASE tag = "t" -> [p EXCEPT !.textDepth = @ - 1]
       [] tag = "p" ->
            [p EXCEPT !.paragraph = NoParagraph,
               !.blocks = IF include THEN Append(@, text) ELSE @,
               !.title = IF include /\ @ = None /\ p.paragraph.placeholder = "title" THEN text ELSE @]
       [] tag \in Shapes -> [p EXCEPT !.placeholder = "none"]

-----------------------------------------------------------------------------

Handles(p) == parser' = p /\ UNCHANGED part

OpenTag(tag) ==
  /\ ~parser.failed /\ tag \in Inside[Here] /\ tags < MaxTags /\ Len(open) < MaxNested
  /\ open' = <<tag>> \o open /\ tags' = tags + 1
  /\ Handles(IF part.kind = "word" THEN WordOpen(parser, tag) ELSE SlideOpen(parser, tag))
  /\ UNCHANGED written

(* The text of a text tag, and the end of the tag *)
ReadRun ==
  LET value == tags
      p == IF part.kind = "word" THEN WordText(parser, value) ELSE SlideText(parser, value)
      kept == IF part.kind = "word" THEN ~Contains(open, "del")
              ELSE part.kind = "slide" \/ Contains(open, "bodyText")
  IN /\ ~parser.failed /\ Here = "t"
     /\ open' = Tail(open)
     /\ written' = IF kept THEN Append(written, value) ELSE written
     /\ Handles(IF part.kind = "word" THEN WordClose(p, "t") ELSE SlideClose(p, "t"))
     /\ UNCHANGED tags

CloseTag ==
  /\ ~parser.failed /\ open # <<>> /\ Here # "t"
  /\ open' = Tail(open)
  /\ Handles(IF part.kind = "word" THEN WordClose(parser, Here) ELSE SlideClose(parser, Here))
  /\ UNCHANGED <<tags, written>>

OfficeInit ==
  /\ \/ \E limit \in CellLimits : part = [kind |-> "word", limit |-> limit]
     \/ \E kind \in {"slide", "notes"} : part = [kind |-> kind, limit |-> 0]
  /\ open = <<>> /\ tags = 0 /\ written = <<>> /\ parser = NewParser

OfficeIdle ==
  /\ part = [kind |-> "none", limit |-> 0]
  /\ open = <<>> /\ tags = 0 /\ written = <<>> /\ parser = [NewParser EXCEPT !.failed = TRUE]

OfficeNext == (\E tag \in {"p", "tbl", "tr", "tc", "t", "del"} \cup Shapes : OpenTag(tag)) \/ ReadRun \/ CloseTag

-----------------------------------------------------------------------------

(* At the end of a document every text that is not deleted is in a block,  *)
(* once and in the order of the document, whatever tables are in whatever  *)
(* cells, and the notes of a slide are the texts of its body; a document   *)
(* with more cells than allowed fails (parseWordDocument,                  *)
(* parsePresentationText).                                                 *)
TextSurvives ==
  open = <<>> /\ ~parser.failed =>
    /\ FlattenSeq(parser.blocks) = written
    /\ part.kind = "word" => parser.cells <= part.limit
    /\ parser.title # None => Contains(parser.blocks, parser.title)
=============================================================================
