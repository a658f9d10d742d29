----------------------------- MODULE VideoCustody -----------------------------
(***************************************************************************)
(* What the way of a video to the Mac promises: a video is on the server,  *)
(* on the Mac, or on both; it is copied from the server, the server gives  *)
(* its own up only to a Mac that has one of the same size (or had it until *)
(* the user deleted it there), and nothing but the user takes a video off  *)
(* the Mac.  Where no two videos have the same size that is the video      *)
(* itself.  There is no queue, no message, no process and no file here.    *)
(***************************************************************************)
EXTENDS FiniteSets

CONSTANTS Video,
          SizeOf   \* bytes of each video

VARIABLES onServer,  \* the videos the server keeps
          copying,   \* those whose copy has been started
          onMac,     \* the videos whole on the Mac
          removed,   \* those the user deleted on the server
          discarded  \* those the user has ever deleted on the Mac

vars == <<onServer, copying, onMac, removed, discarded>>

Init == /\ onServer = Video
        /\ copying = {} /\ onMac = {} /\ removed = {} /\ discarded = {}

StartCopy(v) ==
  /\ v \in onServer
  /\ copying' = copying \cup {v}
  /\ UNCHANGED <<onServer, onMac, removed, discarded>>

\* A copy goes on without the server's file.
EndCopy(v) ==
  /\ v \in copying
  /\ copying' = copying \ {v}
  /\ onMac' \in {onMac, onMac \cup {v}}
  /\ UNCHANGED <<onServer, removed, discarded>>

Purge(v) ==
  /\ v \in onServer /\ \E w \in onMac \cup discarded : SizeOf[w] = SizeOf[v]
  /\ onServer' = onServer \ {v}
  /\ UNCHANGED <<copying, onMac, removed, discarded>>

\* The user deletes it on the server; or on the Mac, where a second copy may be left.
Remove(v) ==
  /\ v \in onServer
  /\ onServer' = onServer \ {v} /\ removed' = removed \cup {v}
  /\ UNCHANGED <<copying, onMac, discarded>>

Discard(v) ==
  /\ v \in onMac
  /\ onMac' \in {onMac, onMac \ {v}}
  /\ discarded' = discarded \cup {v}
  /\ UNCHANGED <<onServer, copying, removed>>

Next == \E v \in Video : StartCopy(v) \/ EndCopy(v) \/ Purge(v) \/ Remove(v) \/ Discard(v)

Spec == Init /\ [][Next]_vars
=============================================================================
