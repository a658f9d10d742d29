---------------------------- MODULE RecordingAudit ----------------------------
(***************************************************************************)
(* The durable audit of recordings (services/recording_audit.py): an       *)
(* append-only log of events, and the busy file media-busy.json that names *)
(* the captures and conversions underway, so that the next boot can tell   *)
(* what the last process left unfinished.                                  *)
(*                                                                         *)
(* Captures start and stop in threads that hold the manager's lock; the    *)
(* storage pass, the conversion, the boot and the shutdown run on the      *)
(* event loop.  A refresh on the loop reads the captures and writes the    *)
(* file afterwards: a thread may start or stop a capture, and write the    *)
(* file itself, in between (`held' is what was read).  Each capture writes *)
(* one file, so the keys by which the page joins events to a row (session, *)
(* path, stem) are the capture's name.                                     *)
(***************************************************************************)
EXTENDS Naturals, FiniteSets

CONSTANTS Session,    \* the captures, each with its own file
          MaxDeaths,  \* bound: how often the process may die or shut down
          None

VARIABLES running,    \* captures whose ffmpeg runs, in the manager
          starting,   \* the capture whose start has not written the busy file
          stopping,   \* the capture whose stop has not written the busy file
          converting, \* _CONVERTING: the conversions underway
          held,       \* what the loop's refresh read and has not written yet
          ended,      \* the conversion whose outcome is not logged yet
          file,       \* each capture's video: "none" "ts" "mp4" "gone"
          events,     \* each capture's row of events in the log
          busy,       \* media-busy.json, or None when absent or unreadable
          process,    \* "booting" "told" "up" "closing" "sweeping" "down"
          deaths

vars == <<running, starting, stopping, converting, held, ended, file, events,
          busy, process, deaths>>

Busy == [recording : SUBSET Session, converting : SUBSET Session]
Happening == {"start", "stop", "error", "empty", "discarded", "convert_start",
              "convert_ok", "convert_fail", "orphan", "deleted"}

TypeOK ==
  /\ running \in SUBSET Session /\ converting \in SUBSET Session
  /\ starting \in Session \cup {None} /\ stopping \in Session \cup {None}
  /\ held \in (SUBSET Session) \cup {None} /\ ended \in Session \cup {None}
  /\ file \in [Session -> {"none", "ts", "mp4", "gone"}]
  /\ events \in [Session -> SUBSET Happening]
  /\ busy \in Busy \cup {None}
  /\ process \in {"booting", "told", "up", "closing", "sweeping", "down"}
  /\ deaths \in 0..MaxDeaths

Init ==
  /\ running = {} /\ converting = {} /\ starting = None /\ stopping = None
  /\ held = None /\ ended = None /\ busy = None /\ process = "booting" /\ deaths = 0
  /\ file = [s \in Session |-> "none"]
  /\ events = [s \in Session |-> {}]

(* The event loop is free, the server serves. *)
Loop == process = "up" /\ held = None /\ ended = None
(* Threads hold the manager's lock one at a time. *)
Unlocked == process \in {"up", "sweeping"} /\ starting = None /\ stopping = None

(* The keys of an event: session, recording, path and stem all name the    *)
(* capture.  The page puts an event in the row it shares a key with.       *)
Keys(s) == {s}
Joined(s, what) ==
  [t \in Session |-> IF Keys(s) \cap Keys(t) # {} THEN events[t] \cup what ELSE events[t]]
Emit(s, what) == events' = Joined(s, what)

(* refresh_busy_snapshot: the captures given, the conversions of now. *)
Refresh(captures) ==
  busy' = [recording |-> captures, converting |-> converting]

(***************************************************************************)
(* Captures: start_session, the writer's end, stop_session.                *)
(***************************************************************************)
StartCapture(s) ==
  /\ process = "up" /\ Unlocked /\ file[s] = "none"
  /\ running' = running \cup {s} /\ starting' = s
  /\ file' = [file EXCEPT ![s] = "ts"]
  /\ Emit(s, {"start"})
  /\ UNCHANGED <<stopping, converting, held, ended, busy, process, deaths>>

StartListed ==
  /\ starting # None
  /\ Refresh(running) /\ starting' = None
  /\ UNCHANGED <<running, stopping, converting, held, ended, file, events, process, deaths>>

(* What the writer thread logs when it closes the file: an empty file is   *)
(* removed and said discarded.                                             *)
Closes(s, how) ==
  /\ running' = running \ {s}
  /\ Emit(s, CASE how = "empty" -> {"stop", "empty", "discarded"}
               [] how = "error" -> {"stop", "error"}
               [] OTHER -> {"stop"})
  /\ file' = [file EXCEPT ![s] = IF how = "empty" THEN "gone" ELSE @]

CaptureEnds(s) ==
  /\ process \in {"up", "closing", "sweeping"} /\ s \in running /\ stopping # s
  /\ \E how \in {"ended", "error", "empty"} : Closes(s, how)
  /\ UNCHANGED <<starting, stopping, converting, held, ended, busy, process, deaths>>

StopCapture(s) ==
  /\ Unlocked /\ s \in running
  /\ \E how \in {"ended", "empty"} : Closes(s, how)
  /\ stopping' = s
  /\ UNCHANGED <<starting, converting, held, ended, busy, process, deaths>>

StopListed ==
  /\ stopping # None
  /\ Refresh(running) /\ stopping' = None
  /\ UNCHANGED <<running, starting, converting, held, ended, file, events, process, deaths>>

(***************************************************************************)
(* The event loop: the storage pass's refresh, the conversion, a deletion. *)
(***************************************************************************)
PassReadsBusy ==
  /\ Loop /\ Unlocked /\ running # {}
  /\ held' = running
  /\ UNCHANGED <<running, starting, stopping, converting, ended, file, events,
                 busy, process, deaths>>

PassReads ==
  /\ Loop /\ Unlocked
  /\ held' = running
  /\ UNCHANGED <<running, starting, stopping, converting, ended, file, events, busy,
                 process, deaths>>

LoopWrites ==
  /\ process = "up" /\ held # None
  /\ Refresh(held) /\ held' = None
  /\ UNCHANGED <<running, starting, stopping, converting, ended, file, events, process, deaths>>

ConvertStarts(s) ==
  /\ Loop /\ Unlocked /\ file[s] = "ts" /\ s \notin running /\ converting = {}
  /\ converting' = converting \cup {s}
  /\ Emit(s, {"convert_start"})
  /\ held' = running
  /\ UNCHANGED <<running, starting, stopping, ended, file, busy, process, deaths>>

ConvertEnds(s) ==
  /\ Loop /\ Unlocked /\ s \in converting
  /\ converting' = converting \ {s}
  /\ held' = running /\ ended' = s
  /\ \E left \in {"mp4", "ts"} : file' = [file EXCEPT ![s] = left]
  /\ UNCHANGED <<running, starting, stopping, events, busy, process, deaths>>

ConvertSaid ==
  /\ process = "up" /\ held = None /\ ended # None
  /\ Emit(ended, {IF file[ended] = "mp4" THEN "convert_ok" ELSE "convert_fail"})
  /\ ended' = None
  /\ UNCHANGED <<running, starting, stopping, converting, held, file, busy,
                 process, deaths>>

Delete(s) ==
  /\ Loop /\ file[s] = "mp4"
  /\ file' = [file EXCEPT ![s] = "gone"]
  /\ Emit(s, {"deleted"})
  /\ UNCHANGED <<running, starting, stopping, converting, held, ended, busy, process, deaths>>

(***************************************************************************)
(* Shutdown: the snapshot, then its flag written in place, then the sweep  *)
(* that stops each capture.  A kill may come at any point.                 *)
(***************************************************************************)
Shutdown ==
  /\ Loop /\ Unlocked /\ deaths < MaxDeaths
  /\ Refresh(running) /\ process' = "closing"
  /\ UNCHANGED <<running, starting, stopping, converting, held, ended, file, events, deaths>>

ShutdownFlagged ==
  /\ process = "closing"
  /\ process' = "sweeping"
  /\ UNCHANGED <<running, starting, stopping, converting, held, ended, file, events, busy, deaths>>

(* The process dies: by a kill, or at the end of the sweep.  Killed while  *)
(* the flag is written, it leaves a torn file.                             *)
Dies ==
  /\ process # "down" /\ deaths < MaxDeaths
  /\ process' = "down" /\ deaths' = deaths + 1
  /\ running' = {} /\ converting' = {} /\ starting' = None /\ stopping' = None
  /\ held' = None /\ ended' = None
  /\ \/ UNCHANGED busy
     \/ process = "closing" /\ busy' = None
  /\ UNCHANGED <<file, events>>

BootsRefreshed ==
  /\ process = "down" /\ process' = "booting"
  /\ Refresh(running)
  /\ UNCHANGED <<running, starting, stopping, converting, held, ended, file, events,
                 deaths>>

Boots ==
  /\ process = "down" /\ process' = "booting"
  /\ UNCHANGED <<running, starting, stopping, converting, held, ended, file, events, busy, deaths>>

(* reconcile_orphans_after_restart: what the busy file lists and the new   *)
(* process does not run is told an orphan.                                 *)
Orphans == IF busy = None THEN {} ELSE (busy.recording \ running) \cup busy.converting

Reconcile ==
  /\ process = "booting"
  /\ events' = [s \in Session |-> events[s] \cup IF s \in Orphans THEN {"orphan"} ELSE {}]
  /\ converting' = {}
  /\ process' = "told"
  /\ UNCHANGED <<running, starting, stopping, held, ended, file, busy, deaths>>

BootListed ==
  /\ process = "told" /\ process' = "up"
  /\ Refresh(running)
  /\ UNCHANGED <<running, starting, stopping, converting, held, ended, file, events, deaths>>

SomeCapture == \E s \in Session : StartCapture(s) \/ CaptureEnds(s) \/ StopCapture(s)
SomeVideo == \E s \in Session : ConvertStarts(s) \/ ConvertEnds(s) \/ Delete(s)

Next == \/ SomeCapture \/ StartListed \/ StopListed
        \/ PassReads \/ LoopWrites \/ SomeVideo \/ ConvertSaid
        \/ Shutdown \/ ShutdownFlagged \/ Dies \/ Boots \/ Reconcile \/ BootListed

(* Threads and the loop finish what they began, a shutdown ends in an exit *)
(* or a kill, a dead server is booted again, the storage pass comes round. *)
LoopGoes == \/ LoopWrites \/ ConvertSaid \/ ShutdownFlagged
            \/ process = "sweeping" /\ Dies
            \/ Boots \/ Reconcile \/ BootListed

Spec == Init /\ [][Next]_vars
FairSpec == /\ Spec
            /\ WF_vars(StartListed \/ StopListed) /\ WF_vars(LoopGoes)
            /\ SF_vars(PassReads)

(* _derive_outcome: the first that applies.  Said failed once, a recording *)
(* stays failed when a later attempt converts it.                          *)
Outcome(s) ==
  LET E == events[s]
  IN IF "discarded" \in E THEN "discarded"
     ELSE IF "convert_fail" \in E THEN "failed"
     ELSE IF "orphan" \in E THEN "interrupted"
     ELSE IF "error" \in E THEN "failed"
     ELSE IF "convert_ok" \in E THEN "ok"
     ELSE IF "start" \in E /\ "stop" \notin E THEN "recording"
     ELSE IF "stop" \in E THEN "stopped"
     ELSE "info"

(* A capture the busy file names when the process dies is not shown as     *)
(* still recording for good: the next boot, or a kill and the boot after   *)
(* it, tells what became of it (the hazard of services/recording_audit.py: *)
(* 205).  What a torn file or a file written from older statuses does not  *)
(* name is left as it was.                                                 *)
Left(s) == process = "down" /\ busy # None /\ s \in busy.recording

InterruptedIsTold ==
  \A s \in Session : Left(s) ~> Outcome(s) # "recording"

(* The busy file catches up with the captures, whatever older statuses a   *)
(* refresh wrote over it: one that runs comes to be named, one that ended  *)
(* comes to be named no more.                                              *)
Named(s) == busy # None /\ s \in busy.recording

BusyFileCatchesUp ==
  \A s \in Session :
    []<>(s \in running => Named(s)) /\ []<>(Named(s) => s \in running)
=============================================================================
