-------------------------- MODULE MCLibraryImports --------------------------
(***************************************************************************)
(* Two parts of the server that share no state, one of them in each        *)
(* behaviour: the recordings of a profile's library, and the videos        *)
(* dropped into its imports folder.  The other one rests where it begins.  *)
(* A part's fairness is asked where that part runs.                        *)
(***************************************************************************)
EXTENDS RecordingLibrary

CONSTANTS
  Video, VideoKinds, MaxVersions, MaxCalls  \* File, Kinds, MaxVersions and MaxOps of MediaImports

VARIABLES
  part, kind, src, drops, clear, imported, copy, temporary, out, actor, task, removal,
  calls, disturbed

\* In the run: one video, which may be replaced once, and one other call, error or restart.
Imports == INSTANCE MediaImports
           WITH File <- Video, Kinds <- VideoKinds, MaxOps <- MaxCalls,
                row <- imported, temp <- temporary, deletion <- removal, ops <- calls

ASSUME LibraryAssumption

imports == <<kind, src, drops, clear, imported, copy, temporary, out, actor, task, removal,
             calls, disturbed>>

OnlyLibrary == UNCHANGED <<part, imports>>
OnlyImports == UNCHANGED <<part, vars>>

\* The part that rests begins with nothing.
MCInit == /\ part \in {"library", "imports"}
          /\ Init /\ Imports!Init
          /\ part = "library" => kind = [f \in Video |-> "direct"]
          /\ part = "imports" => short = {} /\ ts = {}

MCNext == \/ part = "library" /\ Next /\ OnlyLibrary
          \/ part = "imports" /\ Imports!Next /\ OnlyImports

allVars == <<part, vars, imports>>

MCSpec ==
  /\ MCInit /\ [][MCNext]_allVars
  /\ WF_allVars(part = "library" /\ ConvStep /\ OnlyLibrary)
  /\ WF_allVars(part = "library" /\ CacheStep /\ OnlyLibrary)
  /\ WF_allVars(part = "library" /\ SweepStep /\ OnlyLibrary)
  /\ WF_allVars(part = "library" /\ Underway /\ OnlyLibrary)
  /\ \A w \in {"scan", "list"} :
       WF_allVars(part = "imports" /\ Imports!Works(w) /\ OnlyImports)
  /\ WF_allVars(part = "imports" /\ Imports!Scans /\ OnlyImports)
  /\ WF_allVars(part = "imports" /\ Imports!ListEnd /\ OnlyImports)
  /\ WF_allVars(part = "imports" /\ Imports!DeleteVideo /\ OnlyImports)

\* The copy a row offers is the video of its version, and whole (MediaImports).
PlaysUnlessDisturbed == Imports!PlaysUnlessDisturbed
\* A video in the folder gets a row of its version while the task lives (MediaImports).
DroppedIsIndexed == Imports!DroppedIsIndexed
\* The row of a video that is gone goes too (MediaImports).
GhostImportsGo == Imports!GhostImportsGo
=============================================================================
