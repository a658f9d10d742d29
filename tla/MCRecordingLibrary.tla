------------------------- MODULE MCRecordingLibrary -------------------------
(* Instances of RecordingLibrary for TLC. *)
EXTENDS RecordingLibrary
CONSTANTS a
=============================================================================
