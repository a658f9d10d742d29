------------------------ MODULE MCRecordingSession ------------------------
(* One channel with two sessions: it is recorded again while the session    *)
(* before has not ended, with a rotation of segments in each.               *)
EXTENDS RecordingSession

CONSTANT k1
=============================================================================
