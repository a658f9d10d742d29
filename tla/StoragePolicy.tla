--------------------------- MODULE StoragePolicy ---------------------------
(***************************************************************************)
(* The dual-disk storage policy: storage_gate_decision of src/app/tasks/   *)
(* disk_pressure.py, the two tasks of src/app/main.py that apply it (the   *)
(* policy pass and the ffmpeg watchdog), and everything that looks at the  *)
(* gates: the start of a capture and the Auto Record switch.               *)
(*                                                                         *)
(* All but the promotion and the start itself runs in one event loop: the  *)
(* code between two awaits is one step, and other coroutines run at each   *)
(* await.  The gates are kept in memory, the switch in the database.  The  *)
(* free space of a disk is whether it is below its configured threshold.   *)
(*                                                                         *)
(* A capture is a session of RecordingSession seen from here: it runs, or  *)
(* it does not, and has files on the staging disk, or none.                *)
(***************************************************************************)
EXTENDS Naturals, FiniteSets

CONSTANTS Capture,  \* the channels that may be recorded
          Restarts  \* bound on the restarts of the server

StorageAssumption == Restarts \in Nat

VARIABLES libraryLow, stagingLow, \* free space below library_stop_gb, staging_stop_gb
          libraryBlocked,         \* _library_space_blocked
          stagingBlocked,         \* _staging_blocked
          convertPaused,          \* _disk_convert_paused
          enabled,                \* the recording_enabled setting
          running,                \* captures whose ffmpeg runs
          staged,                 \* captures with recording files on the staging disk
          starting,               \* how far the start of each capture has come
          switching,              \* a call that turns Auto Record on or off
          policy,                 \* where _storage_policy_pass_once is
          watchdog,               \* where ffmpeg_watchdog_task is
          late,                   \* history: captures that started behind an engaged gate
          restarts

disks == <<libraryLow, stagingLow>>
gates == <<libraryBlocked, stagingBlocked, convertPaused>>
captures == <<running, staged, late>>
vars == <<disks, gates, enabled, captures, starting, switching, policy, watchdog, restarts>>

\* A task waits for its next turn, or is at an await: the policy pass in its promotion, the
\* write of the switch or its second promotion, the watchdog in that write or its promotion.
\* "staging" is what a task that writes the switch still has to do about staging.
Waiting == [at |-> "waiting", staging |-> FALSE]
Task == [at : {"waiting", "promoting", "disabling", "clearing"}, staging : BOOLEAN]

Init ==
  /\ libraryLow = FALSE /\ stagingLow = FALSE
  /\ libraryBlocked = FALSE /\ stagingBlocked = FALSE /\ convertPaused = FALSE
  /\ enabled = TRUE
  /\ running = {} /\ staged = {} /\ late = {}
  /\ starting = [c \in Capture |-> "idle"]
  /\ switching = "idle"
  /\ policy = Waiting
  /\ watchdog = Waiting
  /\ restarts = 0

Blocked == libraryBlocked \/ stagingBlocked

StopAll == running' = {} /\ late' = {}

----------------------------------------------------------------------------
\* api_start and auto_record_task: the switch is read, then the gates are looked at, then
\* quota and stream are looked up, and then the session is started in a thread.

ReadSwitch(c) ==
  /\ starting[c] = "idle" /\ c \notin running
  /\ enabled
  /\ starting' = [starting EXCEPT ![c] = "enabled"]
  /\ UNCHANGED <<disks, gates, enabled, captures, switching, policy, watchdog, restarts>>

LookAtGates(c) ==
  /\ starting[c] = "enabled"
  /\ starting' = [starting EXCEPT ![c] = IF Blocked THEN "idle" ELSE "admitted"]
  /\ UNCHANGED <<disks, gates, enabled, captures, switching, policy, watchdog, restarts>>

StartCapture(c) ==
  /\ starting[c] = "admitted"
  /\ starting' = [starting EXCEPT ![c] = "idle"]
  /\ running' = running \cup {c}
  /\ staged' = staged \cup {c}
  /\ late' = IF Blocked THEN late \cup {c} ELSE late
  /\ UNCHANGED <<disks, gates, enabled, switching, policy, watchdog, restarts>>

\* The quota, the channel being offline or a failure ends the attempt.
StartRefused(c) ==
  /\ starting[c] = "admitted"
  /\ starting' = [starting EXCEPT ![c] = "idle"]
  /\ UNCHANGED <<disks, gates, enabled, captures, switching, policy, watchdog, restarts>>

\* The stream ends, or the capture is stopped by the user, the quota or the stall watchdog.
EndCapture(c) ==
  /\ c \in running
  /\ running' = running \ {c}
  /\ late' = late \ {c}
  /\ UNCHANGED <<disks, gates, enabled, staged, starting, switching, policy, watchdog, restarts>>

----------------------------------------------------------------------------
\* PUT /api/settings/recording: recording_enabled

AskEnable ==
  /\ switching = "idle"
  /\ ~ libraryBlocked
  /\ switching' = "enabling"
  /\ UNCHANGED <<disks, gates, enabled, captures, starting, policy, watchdog, restarts>>

WriteEnable ==
  /\ switching = "enabling"
  /\ switching' = "idle"
  /\ enabled' = TRUE
  /\ UNCHANGED <<disks, gates, captures, starting, policy, watchdog, restarts>>

WriteDisable ==
  /\ switching = "idle"
  /\ switching' = "stopping"
  /\ enabled' = FALSE
  /\ UNCHANGED <<disks, gates, captures, starting, policy, watchdog, restarts>>

StopAfterDisable ==
  /\ switching = "stopping"
  /\ switching' = "idle"
  /\ StopAll
  /\ UNCHANGED <<disks, gates, enabled, staged, starting, policy, watchdog, restarts>>

----------------------------------------------------------------------------
\* _promote_staging_once moves the files of the captures that do not run.
Promote ==
  \E left \in SUBSET (staged \ running) :
    /\ staged' = (staged \cap running) \cup left

\* _storage_policy_pass_once

PolicyPromote ==
  /\ policy = Waiting
  /\ Promote
  /\ policy' = [Waiting EXCEPT !.at = "promoting"]
  /\ UNCHANGED <<disks, gates, enabled, running, late, starting, switching, watchdog, restarts>>

\* storage_gate_decision: the library gate follows the free space; the staging gate, once
\* engaged, is released when no recording file is left on the staging disk.
StagingReleasedBySpace == stagingLow \* mutant: the staging gate follows the free space too
StagingLatched == stagingLow \/ stagingBlocked \* mutant: nothing releases the staging gate
StagingDecision == stagingLow \/ (stagingBlocked /\ staged # {})

\* Mutant: captures are stopped at the library gate only.
EngagedLibrary == FALSE
EngagedStaging == StagingDecision /\ ~ stagingBlocked

PolicyDecide ==
  /\ policy.at = "promoting"
  /\ libraryBlocked' = libraryLow
  /\ stagingBlocked' = StagingDecision
  /\ convertPaused' = libraryLow
  /\ IF libraryLow /\ ~ libraryBlocked
     THEN /\ policy' = [at |-> "disabling", staging |-> EngagedStaging]
          /\ UNCHANGED captures
     ELSE IF EngagedStaging
          THEN policy' = [Waiting EXCEPT !.at = "clearing"] /\ StopAll /\ UNCHANGED staged
          ELSE policy' = Waiting /\ UNCHANGED captures
  /\ UNCHANGED <<disks, enabled, starting, switching, watchdog, restarts>>

PolicyDisable ==
  /\ policy.at = "disabling"
  /\ enabled' = FALSE
  /\ StopAll
  /\ policy' = IF policy.staging THEN [Waiting EXCEPT !.at = "clearing"] ELSE Waiting
  /\ UNCHANGED <<disks, gates, staged, starting, switching, watchdog, restarts>>

\* "Staging cleared immediately after stop": files were moved and none is left.
PolicyClear ==
  /\ policy.at = "clearing"
  /\ Promote
  /\ stagingBlocked' = IF staged' # staged /\ staged' = {} THEN FALSE ELSE stagingBlocked
  /\ policy' = Waiting
  /\ UNCHANGED <<disks, libraryBlocked, convertPaused, enabled, running, late, starting,
                 switching, watchdog, restarts>>

----------------------------------------------------------------------------
\* ffmpeg_watchdog_task: both disks are sampled at once, the library is dealt with first.

WatchdogStaging(low) ==
  IF low /\ ~ stagingBlocked
  THEN /\ stagingBlocked' = TRUE
       /\ watchdog' = [Waiting EXCEPT !.at = "clearing"]
  ELSE UNCHANGED stagingBlocked /\ watchdog' = Waiting

WatchdogSample ==
  /\ watchdog = Waiting
  /\ UNCHANGED <<disks, enabled, staged, starting, switching, policy, restarts>>
  /\ IF libraryLow /\ ~ libraryBlocked
     THEN /\ libraryBlocked' = TRUE /\ convertPaused' = TRUE
          /\ watchdog' = [at |-> "disabling", staging |-> stagingLow]
          /\ UNCHANGED <<stagingBlocked, running, late>>
     ELSE /\ WatchdogStaging(stagingLow)
          /\ UNCHANGED <<libraryBlocked, convertPaused>>
          /\ IF stagingLow /\ ~ stagingBlocked THEN StopAll ELSE UNCHANGED <<running, late>>

WatchdogDisable ==
  /\ watchdog.at = "disabling"
  /\ enabled' = FALSE
  /\ StopAll
  /\ WatchdogStaging(watchdog.staging)
  /\ UNCHANGED <<disks, libraryBlocked, convertPaused, staged, starting, switching, policy,
                 restarts>>

WatchdogPromote ==
  /\ watchdog.at = "clearing"
  /\ Promote
  /\ watchdog' = Waiting
  /\ UNCHANGED <<disks, gates, enabled, running, late, starting, switching, policy, restarts>>

----------------------------------------------------------------------------
\* Recordings fill the disks; promotion, conversion and the user free them, or set the
\* thresholds anew.
SpaceChanges ==
  /\ \/ libraryLow' = ~ libraryLow /\ UNCHANGED stagingLow
     \/ stagingLow' = ~ stagingLow /\ UNCHANGED libraryLow
  /\ UNCHANGED <<gates, enabled, captures, starting, switching, policy, watchdog, restarts>>

\* Captures and gates are lost; the switch and the staging files are kept.
Restart ==
  /\ restarts < Restarts /\ restarts' = restarts + 1
  /\ libraryBlocked' = FALSE /\ stagingBlocked' = FALSE /\ convertPaused' = FALSE
  /\ StopAll
  /\ starting' = [c \in Capture |-> "idle"]
  /\ switching' = "idle"
  /\ policy' = Waiting
  /\ watchdog' = Waiting
  /\ UNCHANGED <<disks, enabled, staged>>

Start(c) == ReadSwitch(c) \/ LookAtGates(c) \/ StartCapture(c) \/ StartRefused(c)
Switch == AskEnable \/ WriteEnable \/ WriteDisable \/ StopAfterDisable
Policy == PolicyPromote \/ PolicyDecide \/ PolicyDisable \/ PolicyClear
Watchdog == WatchdogSample \/ WatchdogDisable \/ WatchdogPromote

Next ==
  \/ \E c \in Capture : Start(c) \/ EndCapture(c)
  \/ Switch
  \/ Policy
  \/ Watchdog
  \/ SpaceChanges
  \/ Restart

Spec == Init /\ [][Next]_vars

\* Both tasks loop for as long as the server runs, and a promotion of the policy's that is
\* tried again and again moves every file in the end.
FairSpec ==
  /\ Spec
  /\ WF_vars(Policy) /\ WF_vars(Watchdog)
  /\ SF_vars(Policy /\ staged' = staged \cap running)

----------------------------------------------------------------------------
(* Properties *)

\* Every variable has the type its code gives it.
TypeOK ==
  /\ libraryLow \in BOOLEAN /\ stagingLow \in BOOLEAN /\ enabled \in BOOLEAN
  /\ libraryBlocked \in BOOLEAN /\ stagingBlocked \in BOOLEAN /\ convertPaused \in BOOLEAN
  /\ running \subseteq Capture /\ staged \subseteq Capture /\ late \subseteq running
  /\ starting \in [Capture -> {"idle", "enabled", "admitted"}]
  /\ switching \in {"idle", "enabling", "stopping"}
  /\ policy \in Task /\ watchdog \in Task
  /\ restarts \in 0 .. Restarts

\* Whoever engages a gate stops what runs, although two tasks share the gates and each
\* acts only on the edge it sees: once neither is about to, the captures that run behind
\* an engaged gate are only those whose start had passed the gates before.
GateStopsCaptures ==
  Blocked /\ "disabling" \notin {policy.at, watchdog.at} => running \subseteq late

\* "resumes automatically only after staging recording files are fully cleared": the
\* staging gate is released only when there are none, except by a restart.
StagingReleasedWhenClear ==
  [][stagingBlocked /\ ~ stagingBlocked' => staged' = {} \/ restarts' # restarts]_vars

\* The staging gate does not stay engaged, or is engaged anew, when the space is back and
\* nothing is recorded.
StagingGateReleases ==
  <>[](~ stagingLow /\ running = {}) => <>[](~ stagingBlocked)
=============================================================================
