----------------------------- MODULE ToolCallsMC -----------------------------
(***************************************************************************)
(* The calls of tools for model checking: the reading tools of Project     *)
(* Reading, its PDF worker, the adapters of the study hubs, and what the   *)
(* Codex Bridge takes in.  They share nothing, so a behaviour is that of   *)
(* one module: Init picks which of them moves, and the others are idle, in *)
(* a state in which none of their actions is enabled.                      *)
(***************************************************************************)
EXTENDS TreeWalk, ReadWindows, TextSearch, GitReading, OfficeText, AssetReading, PdfJobs,
        StudyAdapters, TaskIntake

callVars ==
  <<walkVars, readVars, searchVars, gitVars, officeVars, assetVars, pdfVars, studyVars, intakeVars>>

(* The initial states of one module are joined with the idle one of each other *)
CallsInit ==
  \E mover \in {"walk", "windows", "search", "git", "office", "assets", "pdf", "study", "intake"} :
    /\ IF mover = "walk" THEN TreeWalkInit ELSE TreeWalkIdle
    /\ IF mover = "windows" THEN ReadInit ELSE ReadIdle
    /\ IF mover = "search" THEN SearchInit ELSE SearchIdle
    /\ IF mover = "git" THEN GitInit ELSE GitIdle
    /\ IF mover = "office" THEN OfficeInit ELSE OfficeIdle
    /\ IF mover = "assets" THEN AssetInit ELSE AssetIdle
    /\ IF mover = "pdf" THEN PdfInit ELSE PdfIdle
    /\ IF mover = "study" THEN StudyInit ELSE StudyIdle
    /\ IF mover = "intake" THEN IntakeInit ELSE IntakeIdle

(* No action of an idle module is enabled, so one module's step at a time *)
OthersKeep(moving) ==
  /\ moving # "walk" => UNCHANGED walkVars
  /\ moving # "windows" => UNCHANGED readVars
  /\ moving # "search" => UNCHANGED searchVars
  /\ moving # "git" => UNCHANGED gitVars
  /\ moving # "office" => UNCHANGED officeVars
  /\ moving # "assets" => UNCHANGED assetVars
  /\ moving # "pdf" => UNCHANGED pdfVars
  /\ moving # "study" => UNCHANGED studyVars
  /\ moving # "intake" => UNCHANGED intakeVars

CallsNext ==
  \/ TreeWalkNext /\ OthersKeep("walk")
  \/ ReadNext /\ OthersKeep("windows")
  \/ SearchNext /\ OthersKeep("search")
  \/ GitNext /\ OthersKeep("git")
  \/ OfficeNext /\ OthersKeep("office")
  \/ AssetNext /\ OthersKeep("assets")
  \/ PdfNext /\ OthersKeep("pdf")
  \/ StudyNext /\ OthersKeep("study")
  \/ IntakeNext /\ OthersKeep("intake")

CallsSpec == CallsInit /\ [][CallsNext]_callVars

(* A walk through the tree and a search of its files, with ripgrep or      *)
(* without, find all there was to find, or say that they were cut short    *)
(* (searchWorkspaceText, findFiles, scanCode).                             *)
SearchesAreComplete == WalkIsComplete /\ SearchIsComplete
=============================================================================
