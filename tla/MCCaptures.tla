----------------------------- MODULE MCCaptures -----------------------------
(***************************************************************************)
(* Three parts of the server that share no state, one of them in each      *)
(* behaviour: the sessions of the recorder, the broadcasts of a channel,   *)
(* and the timeline of a profile's media.  The other ones rest where they  *)
(* begin, and Parts says which ones a run is about.  A part's fairness is  *)
(* asked where that part runs.                                             *)
(***************************************************************************)
EXTENDS RecordingSession

CONSTANTS k1, r1, Parts, None, MaxTime,
          Gap, Aliased,                               \* LiveSessions
          Recording, Fresh, Stub, MaxSpan, MaxQueries \* MediaTimeline

VARIABLES part, clock, onAir, cached, broadcasts, watch, raced,
          now, rows, tombs, erasing, aired, query, answer, asked

Live == INSTANCE LiveSessions WITH rows <- broadcasts
Timeline == INSTANCE MediaTimeline WITH live <- aired

ASSUME TimelineHolds == Timeline!TimelineAssumption
ASSUME LiveHolds == Live!LiveAssumption

live == <<clock, onAir, cached, broadcasts, watch, raced>>
timeline == <<now, rows, tombs, erasing, aired, query, answer, asked>>

OnlySessions == UNCHANGED <<part, live, timeline>>
OnlyLive == UNCHANGED <<part, vars, timeline>>
OnlyTimeline == UNCHANGED <<part, vars, live>>

MCInit == part \in Parts /\ Init /\ Live!Init /\ Timeline!Init

MCNext == \/ part = "sessions" /\ Next /\ OnlySessions
          \/ part = "live" /\ Live!Next /\ OnlyLive
          \/ part = "timeline" /\ Timeline!Next /\ OnlyTimeline

allVars == <<part, vars, live, timeline>>

SafeSpec == MCInit /\ [][MCNext]_allVars

MCSpec ==
  /\ SafeSpec
  /\ WF_allVars(part = "sessions" /\ Manager /\ OnlySessions)
  /\ WF_allVars(part = "sessions" /\ Watchdog /\ OnlySessions)
  /\ \A s \in 1 .. MaxSessions :
       /\ WF_allVars(/\ part = "sessions" /\ s \in Number /\ sessions[s].proc = "killed"
                     /\ ProcessExits(s) /\ OnlySessions)
       /\ WF_allVars(/\ part = "sessions" /\ s \in Number /\ ~ IsRunning(s)
                     /\ (CloseFile(s) \/ WriterEnds(s)) /\ OnlySessions)
  /\ WF_allVars(part = "live" /\ (Live!MonitorPoll \/ Live!Observe("monitor")) /\ OnlyLive)
  /\ WF_allVars(part = "live" /\ Live!Observe("auto") /\ OnlyLive)

\* Broadcasts lie further apart than the gap, unless two observations raced (LiveSessions).
BroadcastsAreApart == Live!BroadcastsAreApart
\* A channel that stays off the air has no open row in the end (LiveSessions).
EndedBroadcastsClose == Live!EndedBroadcastsClose
\* What was captured is on the chart, whatever is deleted meanwhile (MediaTimeline).
CapturesStayCharted == Timeline!CapturesStayCharted
=============================================================================
