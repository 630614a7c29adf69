---------------------------- MODULE AssetReading ----------------------------
(***************************************************************************)
(* The asset tools of Project Reading that hand out a whole file or look   *)
(* into it: fetch_asset and the resource link it returns (file-transfer.ts)*)
(* read_image (assets.ts, readImageAsset), and the archives behind         *)
(* spreadsheets, documents and presentations (assets.ts,                   *)
(* inspectSpreadsheetZip; openxml.ts, readOfficePackage).                  *)
(*                                                                         *)
(* A file is a number of contents, one for each time its name was given to *)
(* a new file; a writer appends, cuts, overwrites or renames a new file    *)
(* over it while it is read.  Its digest is its content.  An archive is a  *)
(* sequence of entries with the size each declares and has; the order of   *)
(* the pixels of an image and the text in an archive are left out.         *)
(***************************************************************************)
EXTENDS Naturals, Sequences, SequencesExt, FiniteSets

CONSTANTS
  Bytes,       \* the bytes files are made of
  MaxFetch,    \* maxFetchFileBytes
  MaxWrites,   \* what writers do during a call (bounds the model)
  Dimensions,  \* values of maxDimension and of the size of an image
  Floor,       \* the dimension that a next attempt does not go below (256)
  ImageBytes,  \* maxImageOutputBytes
  EntryLimit, ExpandedLimit, PartLimit, CaptureLimit, \* the limits on an archive
  EntrySizes   \* sizes of an archive's entry

ASSUME AssetReadingAssumption ==
  /\ {MaxFetch, Floor, ImageBytes, EntryLimit, ExpandedLimit, PartLimit, CaptureLimit} \subseteq Nat
  /\ Dimensions \subseteq Nat \ {0} /\ EntrySizes \subseteq Nat /\ MaxWrites \in Nat

VARIABLES
  files,     \* the contents; the last one has the name, unless it was removed
  named,     \* whether there is a file of that name
  history,   \* contents that a file of that name had during the call
  rewritten, \* a byte that had been there was replaced by another
  writes,
  fetch,     \* the call: where it is, its handle, what it has read
  archive    \* the archive: the entries read so far, the running counts

assetVars == <<files, named, history, rewritten, writes, fetch, archive>>

-----------------------------------------------------------------------------
(* fetch_asset, and reading the link that it returned *)

Lesser(a, b) == IF a < b THEN a ELSE b
Greater(a, b) == IF a < b THEN b ELSE a

Content == files[Len(files)]
NoFetch == [tool |-> "none", at |-> "answered", link |-> <<>>, handle |-> 0, size |-> 0, got |-> <<>>]
Fetches(f) == fetch' = f /\ UNCHANGED <<files, named, history, rewritten, writes, archive>>
FetchFails == Fetches([fetch EXCEPT !.at = "failed"])

(* resolveAsset: the path is in the scope and there; assertFetchSize *)
ResolveAsset ==
  /\ fetch.at = "resolve"
  /\ IF named /\ Len(Content) <= MaxFetch THEN Fetches([fetch EXCEPT !.at = "open"]) ELSE FetchFails

OpenAsset ==
  /\ fetch.at = "open"
  /\ IF named THEN Fetches([fetch EXCEPT !.at = "stat", !.handle = Len(files)]) ELSE FetchFails

(* readBoundedFile: the size, that many bytes in pieces, and no byte more *)
StatHandle ==
  LET size == Len(files[fetch.handle])
  IN /\ fetch.at = "stat"
     /\ IF size <= MaxFetch THEN Fetches([fetch EXCEPT !.at = "read", !.size = size]) ELSE FetchFails

(* Mutant of ReadPiece: an early end of the file is taken for its end *)
ReadPieceOrEnd ==
  LET offset == Len(fetch.got)
      there == SubSeq(files[fetch.handle], offset + 1, Lesser(fetch.size, Len(files[fetch.handle])))
  IN /\ fetch.at = "read" /\ offset < fetch.size
     /\ IF there = <<>> THEN Fetches([fetch EXCEPT !.size = offset])
        ELSE \E n \in 1 .. Len(there) : Fetches([fetch EXCEPT !.got = @ \o SubSeq(there, 1, n)])

ReadPiece ==
  LET offset == Len(fetch.got)
      there == SubSeq(files[fetch.handle], offset + 1, Lesser(fetch.size, Len(files[fetch.handle])))
  IN /\ fetch.at = "read" /\ offset < fetch.size
     /\ IF there = <<>> THEN FetchFails
        ELSE \E n \in 1 .. Len(there) : Fetches([fetch EXCEPT !.got = @ \o SubSeq(there, 1, n)])

ReadTail ==
  /\ fetch.at = "read" /\ Len(fetch.got) = fetch.size
  /\ IF Len(files[fetch.handle]) > fetch.size THEN FetchFails
     ELSE Fetches([fetch EXCEPT !.at = "digest"])

(* fetchAsset returns a link with the digest; readAssetResource compares it *)
ReturnAsset ==
  /\ fetch.at = "digest"
  /\ IF fetch.tool = "resource" /\ fetch.got # fetch.link THEN FetchFails
     ELSE Fetches([fetch EXCEPT !.at = "answered", !.link = fetch.got])

Writes(content) == /\ files' = [files EXCEPT ![Len(files)] = content]
                   /\ history' = history \cup {content} /\ UNCHANGED named

Write ==
  /\ fetch.tool \in {"fetch", "resource"} /\ fetch.at \notin {"answered", "failed"} /\ named
  /\ writes < MaxWrites /\ writes' = writes + 1
  /\ \/ /\ \E b \in Bytes : Writes(Append(Content, b))
        /\ rewritten' = (rewritten \/ \E c \in history : Len(c) > Len(Content))
     \/ /\ \E n \in 0 .. Len(Content) - 1 : Writes(SubSeq(Content, 1, n))
        /\ UNCHANGED rewritten
     \/ /\ \E i \in DOMAIN Content, b \in Bytes : b # Content[i] /\ Writes([Content EXCEPT ![i] = b])
        /\ rewritten' = TRUE
     \/ /\ \E c \in BoundedSeq(Bytes, 1) : files' = Append(files, c) /\ history' = history \cup {c}
        /\ UNCHANGED <<named, rewritten>>
     \/ named' = FALSE /\ UNCHANGED <<files, history, rewritten>>
  /\ UNCHANGED <<fetch, archive>>

-----------------------------------------------------------------------------
(* read_image: up to seven attempts, each smaller than the one before *)

(* The attempts; weight is how many bytes a unit of the dimension takes     *)
EncodeImage(asked, size, weight) ==
  LET attempt[n \in 1 .. 7] ==
        LET dimension == IF n = 1 THEN Lesser(asked, size)
                         ELSE Greater(Floor, (attempt[n - 1].dimension * 3) \div 4)
        IN IF n > 1 /\ attempt[n - 1].bytes <= ImageBytes THEN attempt[n - 1]
           ELSE [dimension |-> dimension, bytes |-> Lesser(dimension, size) * weight]
  IN attempt[7]

EncodeAsset ==
  LET i == fetch.link
      made == EncodeImage(i.asked, i.size, i.weight)
  IN /\ fetch.at = "encode"
     /\ IF made.bytes <= ImageBytes THEN Fetches([fetch EXCEPT !.at = "answered", !.got = made])
        ELSE FetchFails

-----------------------------------------------------------------------------
(* The archives: one entry after the other is looked at, and read if wanted *)

Entry == {e \in [role : {"types", "main", "other"}, bad : BOOLEAN, wanted : BOOLEAN,
                  declared : EntrySizes, actual : EntrySizes] :
            (e.wanted /\ ~e.bad) \/ e.actual = e.declared}
NoArchive == [kind |-> "none", at |-> "accepted", entries |-> <<>>, expanded |-> 0,
              captured |-> 0, held |-> 0]
Reads(a) == archive' = a /\ UNCHANGED <<files, named, history, rewritten, writes, fetch>>

(* An entry of a spreadsheet is only counted.  One of a document is read   *)
(* when it is wanted; the archive library breaks off a stream that is not  *)
(* as long as the entry declares.                                          *)
Refused(a, e) ==
  \/ e.bad
  \/ Len(a.entries) > EntryLimit
  \/ a.expanded > ExpandedLimit
  \/ e.wanted /\ a.kind = "office" /\ (e.declared > PartLimit \/ a.captured > CaptureLimit)

Counted(e) ==
  [archive EXCEPT !.entries = Append(@, e), !.expanded = @ + e.declared,
     !.captured = IF e.wanted /\ archive.kind = "office" THEN @ + e.declared ELSE @]

ReadEntry(e) ==
  LET a == Counted(e)
      streamed == e.wanted /\ a.kind = "office"
      held == a.held + Lesser(e.declared, e.actual)
  IN /\ archive.at = "entries"
     /\ Reads(CASE Refused(a, e) -> [a EXCEPT !.at = "failed"]
               [] ~Refused(a, e) /\ streamed /\ e.declared # e.actual ->
                    [a EXCEPT !.at = "failed", !.held = held]
               [] ~Refused(a, e) /\ streamed /\ e.declared = e.actual -> [a EXCEPT !.held = held]
               [] OTHER -> a)

EndArchive ==
  /\ archive.at = "entries"
  /\ LET roles == {e.role : e \in Range(archive.entries)}
     IN Reads([archive EXCEPT !.at = IF {"types", "main"} \subseteq roles THEN "accepted" ELSE "failed"])

-----------------------------------------------------------------------------

(* The calls the server takes: a file, which read_audio hands out too, the *)
(* link to one as it was then, an image, and a look into an archive        *)
FetchAsset == {[NoFetch EXCEPT !.tool = "fetch", !.at = "resolve"]}
AssetResources ==
  {[NoFetch EXCEPT !.tool = "resource", !.at = "resolve", !.link = c] : c \in BoundedSeq(Bytes, MaxFetch)}
ReadImage ==
  {[NoFetch EXCEPT !.tool = "image", !.at = "encode", !.link = image] :
     image \in [asked : Dimensions, size : Dimensions, weight : 1 .. 3]}
InspectAsset == {[NoArchive EXCEPT !.kind = kind, !.at = "entries"] : kind \in {"xlsx", "office"}}

AssetInit ==
  /\ rewritten = FALSE /\ writes = 0
  /\ \/ /\ named = TRUE /\ archive = NoArchive
        /\ \E c \in BoundedSeq(Bytes, MaxFetch) : files = <<c>> /\ history = {c}
        /\ fetch \in FetchAsset \cup AssetResources
     \/ /\ named = FALSE /\ archive = NoArchive /\ files = <<>> /\ history = {}
        /\ fetch \in ReadImage
     \/ /\ named = FALSE /\ fetch = NoFetch /\ files = <<>> /\ history = {}
        /\ archive \in InspectAsset

AssetIdle ==
  /\ files = <<>> /\ named = FALSE /\ history = {} /\ rewritten = FALSE /\ writes = 0
  /\ fetch = NoFetch /\ archive = NoArchive

AssetNext ==
  \/ ResolveAsset \/ OpenAsset \/ StatHandle \/ ReadPiece \/ ReadTail \/ ReturnAsset
  \/ Write \/ EncodeAsset \/ (\E e \in Entry : ReadEntry(e)) \/ EndArchive

-----------------------------------------------------------------------------

(* What is handed out as a file is a content that the file had during the  *)
(* call, within the limit, and for a link the very content it was made     *)
(* for, however often the file is appended to, cut or replaced while it is *)
(* read, if no writer changes a byte in place; an image fits its limit and *)
(* is no larger than was asked, above the floor (fetchAsset,               *)
(* readBoundedFile, readAssetResource, readImageAsset).                    *)
FetchIsWhole ==
  fetch.at = "answered" =>
    CASE fetch.tool \in {"fetch", "resource"} ->
           Len(fetch.got) <= MaxFetch /\ (~rewritten => fetch.got \in history)
      [] fetch.tool = "image" ->
           /\ fetch.got.bytes <= ImageBytes
           /\ fetch.link.asked >= Floor => fetch.got.dimension <= fetch.link.asked
      [] OTHER -> TRUE

(* What an archive makes the server hold never exceeds the limit, whatever *)
(* sizes its entries declare, and no archive is accepted that has an entry *)
(* which is refused, more bytes than allowed, or not the parts it must     *)
(* have (inspectSpreadsheetZip, readOfficePackage, readZipEntry).          *)
ArchiveIsBounded ==
  /\ archive.held <= CaptureLimit
  /\ archive.kind # "none" /\ archive.at = "accepted" =>
       /\ \A e \in Range(archive.entries) : ~e.bad
       /\ Len(archive.entries) <= EntryLimit
       /\ FoldLeft(LAMBDA n, e : n + e.declared, 0, archive.entries) <= ExpandedLimit
       /\ {"types", "main"} \subseteq {e.role : e \in Range(archive.entries)}

(* Both of the above: a file and an image as asked for, archives in bounds *)
(* (fetchAsset, readImageAsset, readOfficePackage).                        *)
AssetsAreWhole == FetchIsWhole /\ ArchiveIsBounded
=============================================================================
