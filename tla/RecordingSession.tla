------------------------- MODULE RecordingSession -------------------------
(***************************************************************************)
(* A recording: FFmpegManager and FFmpegSession of src/app/ffmpeg_runner.py *)
(* with the promotion of closed files from the staging disk to the library *)
(* (src/app/tasks/disk_pressure.py, called in a thread by src/app/main.py). *)
(*                                                                         *)
(* Four kinds of threads meet here: callers of the manager, whose methods  *)
(* hold one lock that is not re-entrant; the writer thread of each session;*)
(* the ffmpeg processes; and the thread that promotes files.  start_session*)
(* and stop_session keep the lock while they sleep or wait for a process,  *)
(* so each is several steps; the other methods are one step that needs the *)
(* lock free.  A wait with a timeout may end before what it waits for.     *)
(*                                                                         *)
(* A file is a pair of a session and a segment number.  Bytes, headers,    *)
(* names, the audit events and the command line are left out.              *)
(***************************************************************************)
EXTENDS Integers, Sequences, FiniteSets

CONSTANTS Key,         \* session keys: one for each recorded channel of a profile
          MaxSessions, \* bound on the number of sessions ever started
          MaxSegments  \* bound on the segments of a session; 1 when not segmented

ASSUME SessionAssumption == MaxSessions \in Nat /\ MaxSegments \in Nat \ {0}

VARIABLES sessions,  \* every session ever started, numbered in order
          registry,  \* manager._sessions: the numbers of the sessions in it
          lock,      \* manager._lock: which method holds it, and where that method is
          stalled,   \* session ids stop_stalled_sessions has still to stop
          hls,       \* sessions whose HLS directory exists
          staged,    \* recording files on the staging disk
          promotion  \* the promoting thread: the active files it saw, the files to move

manager == <<registry, lock, stalled, hls>>
vars == <<sessions, manager, staged, promotion>>

Session == [key : Key,
            proc : {"running", "terminated", "killed", "exited"}, \* as signalled, or gone
            writer : {"writing", "closed", "ended"},
            data : BOOLEAN,   \* bytes_written > 0
            idle : BOOLEAN,   \* no progress for the stall timeout
            rested : BOOLEAN, \* ended for longer than _FINISHED_SESSION_GRACE_SECONDS
            segment : 1 .. MaxSegments]

Free == [by |-> "none", session |-> 0, at |-> "free"]
Held(by, s, at) == [by |-> by, session |-> s, at |-> at]
At(by, s, at) == lock = Held(by, s, at)

Idling == [at |-> "idle", active |-> {}, todo |-> {}]

Number == DOMAIN sessions
IsRunning(s) == sessions[s].proc # "exited"
WriterAlive(s) == sessions[s].writer # "ended"
CurrentFile(s) == <<s, sessions[s].segment>>
FilesOf(s) == {f \in staged : f[1] = s}

Init ==
  /\ sessions = << >>
  /\ registry = {}
  /\ lock = Free
  /\ stalled = {}
  /\ hls = {}
  /\ staged = {}
  /\ promotion = Idling

----------------------------------------------------------------------------
\* _prune_finished_locked and _cleanup_session_dir

\* Mutant: sessions are dropped while their writer still runs.
EndedProcesses == {s \in registry : ~ IsRunning(s)}

\* A session whose process and writer ended is dropped, at once when it recorded nothing.
Finished ==
  {s \in registry : /\ ~ IsRunning(s)
                    /\ ~ WriterAlive(s)
                    /\ sessions[s].data => sessions[s].rested}

\* The HLS directories removed with the sessions of S: of those that recorded something
\* and still find a file of theirs on the staging disk.
RemovableDirs(S) == {s \in S : sessions[s].data /\ FilesOf(s) # {}}

Pruned == registry \ Finished
PrunedDirs == hls \ RemovableDirs(Finished)

\* list_status; a start that is refused or whose process cannot be launched does no more.
ListStatus ==
  /\ lock = Free
  /\ registry' = Pruned
  /\ hls' = PrunedDirs
  /\ UNCHANGED <<sessions, lock, stalled, staged, promotion>>

----------------------------------------------------------------------------
\* start_session

\* Mutant: the new key is looked up among the sessions whose writer is alive.
KeyWritten(k) == \E s \in Pruned : sessions[s].key = k /\ sessions[s].writer = "writing"
KeyRunning(k) == \E s \in Pruned : sessions[s].key = k /\ IsRunning(s)

NewSession(k) ==
  [key |-> k, proc |-> "running", writer |-> "writing", data |-> FALSE,
   idle |-> FALSE, rested |-> FALSE, segment |-> 1]

\* ffmpeg and the writer thread are started; the lock is kept for one more second.
StartSession(k) ==
  LET s == Len(sessions) + 1
  IN /\ lock = Free
     /\ s <= MaxSessions
     /\ ~ KeyRunning(k)
     /\ sessions' = Append(sessions, NewSession(k))
     /\ registry' = Pruned \cup {s}
     /\ hls' = PrunedDirs \cup {s}
     /\ staged' = staged \cup {<<s, 1>>}
     /\ lock' = Held("start", s, "settle")
     /\ UNCHANGED <<stalled, promotion>>

\* "FFmpeg stopped immediately": the session leaves the registry, its writer joined or not.
Settle(s) ==
  /\ At("start", s, "settle")
  /\ lock' = Free
  /\ registry' = IF IsRunning(s) THEN registry ELSE registry \ {s}
  /\ UNCHANGED <<sessions, stalled, hls, staged, promotion>>

----------------------------------------------------------------------------
\* stop_session: terminate, wait, kill, wait, join the writer, drop the session.

BeginStop(s) ==
  /\ lock = Free
  /\ s \in registry
  /\ sessions' = [sessions EXCEPT ![s].proc = IF @ = "running" THEN "terminated" ELSE @]
  /\ lock' = Held("stop", s, IF IsRunning(s) THEN "wait" ELSE "join")

StopSession(s) ==
  /\ BeginStop(s)
  /\ UNCHANGED <<registry, stalled, hls, staged, promotion>>

KillNotSent(s) == \* mutant: SIGTERM is sent a second time
  /\ At("stop", s, "wait")
  /\ IsRunning(s)
  /\ lock' = Held("stop", s, "killed")
  /\ UNCHANGED <<sessions, registry, stalled, hls, staged, promotion>>

NoTimeout(s) == FALSE \* mutant: the process is waited for without a timeout

KillSession(s) ==
  /\ At("stop", s, "wait")
  /\ IsRunning(s)
  /\ sessions' = [sessions EXCEPT ![s].proc = "killed"]
  /\ lock' = Held("stop", s, "killed")
  /\ UNCHANGED <<registry, stalled, hls, staged, promotion>>

\* The process exited, or has not five seconds after SIGKILL.
Waited(s) ==
  /\ \/ At("stop", s, "wait") /\ ~ IsRunning(s)
     \/ At("stop", s, "killed")
  /\ lock' = Held("stop", s, "join")
  /\ UNCHANGED <<sessions, registry, stalled, hls, staged, promotion>>

\* The writer ended, or has not after two seconds: then the session is kept.
EndStop(s) ==
  /\ At("stop", s, "join")
  /\ lock' = Free
  /\ IF WriterAlive(s)
     THEN UNCHANGED <<registry, hls>>
     ELSE /\ registry' = registry \ {s}
          /\ hls' = hls \ RemovableDirs({s})
  /\ UNCHANGED <<sessions, stalled, staged, promotion>>

----------------------------------------------------------------------------
\* stop_stalled_sessions: the lock is released between the scan and each stop.

StallScan ==
  /\ lock = Free
  /\ stalled = {}
  /\ registry' = Pruned
  /\ hls' = PrunedDirs
  /\ stalled' = {s \in Pruned : IsRunning(s) /\ sessions[s].idle}
  /\ UNCHANGED <<sessions, lock, staged, promotion>>

StopStalled(s) ==
  /\ stalled' = stalled \ {s}
  /\ \/ BeginStop(s)
     \/ lock = Free /\ s \notin registry /\ UNCHANGED <<sessions, lock>>
  /\ UNCHANGED <<registry, hls, staged, promotion>>

----------------------------------------------------------------------------
\* The writer thread, _writer_loop, and the ffmpeg process.

Write(s) ==
  /\ sessions[s].writer = "writing"
  /\ sessions' = [sessions EXCEPT ![s].data = TRUE, ![s].idle = FALSE]
  /\ UNCHANGED <<manager, staged, promotion>>

\* rotate_segment: the segment is closed and the next one becomes record_path.
Rotate(s) ==
  /\ sessions[s].writer = "writing"
  /\ sessions[s].data
  /\ sessions[s].segment < MaxSegments
  /\ sessions' = [sessions EXCEPT ![s].segment = @ + 1]
  /\ staged' = staged \cup {<<s, sessions[s].segment + 1>>}
  /\ UNCHANGED <<manager, promotion>>

\* The end of ffmpeg's output, or an error while writing, as when the disk is full.
CloseFile(s) ==
  /\ sessions[s].writer = "writing"
  /\ sessions' = [sessions EXCEPT ![s].writer = "closed"]
  /\ UNCHANGED <<manager, staged, promotion>>

\* _cleanup_short_recording removes the files of a session without a byte.
WriterEnds(s) ==
  /\ sessions[s].writer = "closed"
  /\ sessions' = [sessions EXCEPT ![s].writer = "ended"]
  /\ staged' = IF sessions[s].data THEN staged ELSE staged \ FilesOf(s)
  /\ UNCHANGED <<manager, promotion>>

\* The stream ends, ffmpeg fails, obeys a signal or is killed through /api/processes.
ProcessExits(s) ==
  /\ IsRunning(s)
  /\ sessions' = [sessions EXCEPT ![s].proc = "exited"]
  /\ UNCHANGED <<manager, staged, promotion>>

\* Time passes: without progress, or after the end.
Stall(s) ==
  /\ IsRunning(s) /\ ~ sessions[s].idle
  /\ sessions' = [sessions EXCEPT ![s].idle = TRUE]
  /\ UNCHANGED <<manager, staged, promotion>>

GraceEnds(s) ==
  /\ s \in registry /\ ~ IsRunning(s) /\ ~ WriterAlive(s) /\ ~ sessions[s].rested
  /\ lock.session # s \* a stop of the session is over within the grace
  /\ sessions' = [sessions EXCEPT ![s].rested = TRUE]
  /\ UNCHANGED <<manager, staged, promotion>>

----------------------------------------------------------------------------
\* promote_closed_staging_files, in a thread of its own: the files in use are looked up
\* (_active_media_path_keys), then the staging directory is listed, then files are moved.

SeeActiveFiles ==
  /\ promotion = Idling
  /\ lock = Free
  /\ registry' = Pruned
  /\ hls' = PrunedDirs
  /\ promotion' = [at |-> "seen", todo |-> {},
                   active |-> {CurrentFile(s) : s \in {u \in Pruned : IsRunning(u)}}]
  /\ UNCHANGED <<sessions, lock, stalled, staged>>

ListStaging ==
  /\ promotion.at = "seen"
  /\ promotion' = [promotion EXCEPT !.at = "listed", !.todo = staged \ promotion.active]
  /\ UNCHANGED <<sessions, manager, staged>>

IsOpen(f) == sessions[f[1]].writer = "writing" /\ sessions[f[1]].segment = f[2]

\* Copied to the library disk and removed here; it stays when the copy fails.
MoveFile(f) ==
  /\ f \in promotion.todo
  /\ promotion' = [promotion EXCEPT !.todo = @ \ {f}]
  /\ staged' \in {staged, staged \ {f}}
  /\ UNCHANGED <<sessions, manager>>

EndPromotion ==
  /\ promotion.at = "listed" /\ promotion.todo = {}
  /\ promotion' = Idling
  /\ UNCHANGED <<sessions, manager, staged>>

----------------------------------------------------------------------------
Callers ==
  \/ ListStatus
  \/ \E k \in Key : StartSession(k)
  \/ \E s \in Number : StopSession(s)

Manager ==
  \E s \in Number : Settle(s) \/ KillSession(s) \/ Waited(s) \/ EndStop(s)

Watchdog == StallScan \/ \E s \in stalled : StopStalled(s)

Writer(s) == Write(s) \/ Rotate(s) \/ CloseFile(s) \/ WriterEnds(s)

Promotion == SeeActiveFiles \/ ListStaging \/ (\E f \in promotion.todo : MoveFile(f)) \/ EndPromotion

Next ==
  \/ Callers
  \/ Manager
  \/ Watchdog
  \/ \E s \in Number : Writer(s) \/ ProcessExits(s) \/ Stall(s) \/ GraceEnds(s)
  \/ Promotion

Spec == Init /\ [][Next]_vars

\* A method that holds the lock goes on, the watchdog loops, a killed process dies, and a
\* writer whose process is gone reaches the end of its input.
Fairness ==
  /\ WF_vars(Manager)
  /\ WF_vars(Watchdog)
  /\ \A s \in 1 .. MaxSessions :
       /\ WF_vars(s \in Number /\ sessions[s].proc = "killed" /\ ProcessExits(s))
       /\ WF_vars(s \in Number /\ ~ IsRunning(s) /\ (CloseFile(s) \/ WriterEnds(s)))

FairSpec == Spec /\ Fairness

----------------------------------------------------------------------------
(* Properties *)

File == (1 .. MaxSessions) \X (1 .. MaxSegments)

\* Every variable has the type its code gives it.
TypeOK ==
  /\ sessions \in Seq(Session) /\ Len(sessions) <= MaxSessions
  /\ registry \subseteq Number /\ stalled \subseteq Number /\ hls \subseteq Number
  /\ lock \in {Free}
       \cup [by : {"start"}, session : Number, at : {"settle"}]
       \cup [by : {"stop"}, session : Number, at : {"wait", "killed", "join"}]
  /\ staged \subseteq File
  /\ promotion \in [at : {"idle", "seen", "listed"}, active : SUBSET File, todo : SUBSET File]

\* A process nobody sent SIGKILL to is always found in the registry, where list_status,
\* the stop calls and the watchdog can reach it.
RunningIsListed ==
  \A s \in Number : sessions[s].proc \in {"running", "terminated"} => s \in registry

\* "Prevent concurrent session for the same logical target": no key has two processes,
\* whatever start, stop, prune and the watchdog interleave.  A process that survives
\* SIGKILL is the exception.
OneProcessPerKey ==
  \A s, u \in Number :
    /\ s # u
    /\ {sessions[s].proc, sessions[u].proc} \subseteq {"running", "terminated"}
    => sessions[s].key # sessions[u].key

\* The HLS directory is not removed under a session that is still being recorded.
HlsKeptWhileRecording ==
  \A s \in Number : WriterAlive(s) => s \in hls

\* An ffmpeg that makes no progress is stopped by the watchdog in the end.
StalledIsStopped ==
  \A s \in 1 .. MaxSessions :
    []<>(s \in Number => ~ (IsRunning(s) /\ sessions[s].idle))

\* The lock is always released: nobody waits for the manager forever.
LockIsReleased == []<>(lock = Free)

\* "Promote every staging recording file that is not an active writer target": no file is
\* moved while its writer has it open.
OnlyClosedArePromoted ==
  [][\A f \in staged \ staged' : ~ IsOpen(f)]_vars
=============================================================================
