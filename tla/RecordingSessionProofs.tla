----------------------- MODULE RecordingSessionProofs -----------------------
(* What the manager's lock, its registry and the order of the steps of a stop *)
(* guarantee for every number of keys, sessions and segments: every process   *)
(* that was not sent SIGKILL is in the registry, and no key has two of them.  *)
(* Then, of the timeline of a profile, that captures stay on it; and of the   *)
(* broadcasts of a channel, that they lie apart.                              *)
EXTENDS MCCaptures, TLAPS

Signalled == {"running", "terminated"}

\* A stop that is past its wait has killed the process, or found it gone.
StopHasKilled ==
  lock.by = "stop" /\ lock.at \in {"killed", "join"} =>
    sessions[lock.session].proc \in {"killed", "exited"}

\* The inductive invariant: the types that the argument needs, and the three facts.
Types ==
  /\ sessions \in Seq(Session)
  /\ registry \subseteq Number
  /\ lock \in [by : {"none", "start", "stop"}, session : Nat,
               at : {"free", "settle", "wait", "killed", "join"}]
  /\ lock # Free => lock.session \in Number
  /\ lock.at \in {"wait", "killed", "join"} => lock.by = "stop"
  /\ stalled \subseteq Number

IInv == Types /\ RunningIsListed /\ OneProcessPerKey /\ StopHasKilled

----------------------------------------------------------------------------
\* A session that changes keeps its place in the list, and the other sessions.
LEMMA UpdateSession ==
  ASSUME sessions \in Seq(Session), NEW s \in Number, NEW e \in Session,
         sessions' = [sessions EXCEPT ![s] = e]
  PROVE  /\ sessions' \in Seq(Session)
         /\ Number' = Number
         /\ \A u \in Number : sessions'[u] = IF u = s THEN e ELSE sessions[u]
  BY DEF Number

\* Pruning drops no session whose process runs.
LEMMA PruneKeepsRunning ==
  Pruned \subseteq registry /\ \A s \in registry : IsRunning(s) => s \in Pruned
  BY DEF Pruned, Finished

\* A step that leaves the processes, their keys and the lock alone, and drops only sessions
\* whose process is gone, preserves the invariant.
LEMMA QuietStep ==
  ASSUME IInv,
         sessions' \in Seq(Session), Number' = Number,
         \A u \in Number : /\ sessions'[u].key = sessions[u].key
                           /\ sessions'[u].proc = sessions[u].proc,
         registry' \subseteq registry,
         \A u \in registry : IsRunning(u) => u \in registry',
         UNCHANGED lock, stalled' \subseteq Number
  PROVE  IInv'
<1>1. Types'
  BY DEF IInv, Types
<1>2. RunningIsListed'
  BY DEF IInv, RunningIsListed, IsRunning
<1>3. OneProcessPerKey'
  BY DEF IInv, OneProcessPerKey
<1>4. StopHasKilled'
  BY DEF IInv, Types, StopHasKilled, Free
<1> QED BY <1>1, <1>2, <1>3, <1>4 DEF IInv

\* So does a step that only ends, or signals, one process, or leaves it as it is.
LEMMA SignalStep ==
  ASSUME IInv, NEW s \in Number, NEW proc \in {"terminated", "killed", "exited"},
         sessions[s].proc \in {"killed", "exited"} => proc \in {"killed", "exited"},
         proc = "terminated" => sessions[s].proc \in Signalled,
         sessions' = [sessions EXCEPT ![s] = [sessions[s] EXCEPT !.proc = proc]],
         UNCHANGED <<registry, lock, stalled>>
  PROVE  IInv'
<1>1. [sessions[s] EXCEPT !.proc = proc] \in Session
  <2>1. sessions[s] \in Session
    BY DEF IInv, Types, Number
  <2> QED BY <2>1 DEF Session
<1>2. /\ sessions' \in Seq(Session)
      /\ Number' = Number
      /\ \A u \in Number :
           sessions'[u] = IF u = s THEN [sessions[s] EXCEPT !.proc = proc] ELSE sessions[u]
  BY <1>1, UpdateSession DEF IInv, Types
<1>3. \A u \in Number : /\ sessions[u] \in Session
                        /\ sessions'[u].key = sessions[u].key
                        /\ sessions'[u].proc = IF u = s THEN proc ELSE sessions[u].proc
  <2>1. \A u \in Number : sessions[u] \in Session
    BY DEF IInv, Types, Number
  <2> QED BY <1>2, <2>1 DEF Session
<1>4. \A u \in Number : sessions'[u].proc \in Signalled => sessions[u].proc \in Signalled
  BY <1>3 DEF Signalled
<1>5. Types'
  BY <1>2 DEF IInv, Types
<1>6. RunningIsListed'
  BY <1>2, <1>4 DEF IInv, RunningIsListed, Signalled
<1>7. OneProcessPerKey'
  BY <1>2, <1>3, <1>4 DEF IInv, OneProcessPerKey, Signalled
<1>8. StopHasKilled'
  BY <1>2, <1>3 DEF IInv, Types, StopHasKilled, Free
<1> QED BY <1>5, <1>6, <1>7, <1>8 DEF IInv

----------------------------------------------------------------------------
\* A session that starts: pruning keeps every running one, so none has the key.
LEMMA StartStep ==
  ASSUME IInv, NEW k \in Key, StartSession(k)
  PROVE  IInv'
<1> DEFINE n == Len(sessions) + 1
<1>1. /\ lock = Free /\ ~ KeyRunning(k)
      /\ sessions' = Append(sessions, NewSession(k))
      /\ registry' = Pruned \cup {n}
      /\ lock' = Held("start", n, "settle")
      /\ stalled' = stalled
  BY DEF StartSession
<1>2. NewSession(k) \in Session
  BY SessionAssumption DEF NewSession, Session
<1>3. /\ sessions' \in Seq(Session)
      /\ Number' = Number \cup {n} /\ n \notin Number /\ n \in Nat
      /\ sessions'[n] = NewSession(k)
      /\ \A u \in Number : sessions'[u] = sessions[u]
  BY <1>1, <1>2 DEF IInv, Types, Number
<1>4. Types'
  BY <1>1, <1>3, PruneKeepsRunning DEF IInv, Types, Held, Free
<1>5. RunningIsListed'
  BY <1>1, <1>3, PruneKeepsRunning DEF IInv, RunningIsListed, IsRunning
<1>6. \A u \in Number : sessions[u].proc \in Signalled => sessions[u].key # k
  BY <1>1, PruneKeepsRunning DEF IInv, RunningIsListed, KeyRunning, IsRunning, Signalled
<1>7. OneProcessPerKey'
  <2>1. sessions'[n].key = k
    BY <1>3 DEF NewSession
  <2> SUFFICES ASSUME NEW u \in Number', NEW v \in Number', u # v,
                      sessions'[u].proc \in Signalled, sessions'[v].proc \in Signalled
               PROVE  sessions'[u].key # sessions'[v].key
    BY DEF OneProcessPerKey, Signalled
  <2>2. CASE u \in Number /\ v \in Number
    BY <2>2, <1>3 DEF IInv, OneProcessPerKey, Signalled
  <2>3. CASE u = n /\ v \in Number
    BY <2>1, <2>3, <1>3, <1>6
  <2>4. CASE v = n /\ u \in Number
    BY <2>1, <2>4, <1>3, <1>6
  <2> QED BY <2>2, <2>3, <2>4, <1>3
<1>8. StopHasKilled'
  BY <1>1 DEF StopHasKilled, Held
<1> QED BY <1>4, <1>5, <1>7, <1>8 DEF IInv

\* The lock moves on, and a session whose process is gone may leave the registry.
LEMMA LockStep ==
  ASSUME IInv, UNCHANGED <<sessions, stalled>>,
         registry' \subseteq registry,
         \A u \in registry : sessions[u].proc \in Signalled => u \in registry',
         \/ lock' = Free
         \/ \E s \in Number, at \in {"wait", "killed", "join"} :
              /\ lock' = Held("stop", s, at)
              /\ at # "wait" => sessions[s].proc \in {"killed", "exited"}
  PROVE  IInv'
<1>1. Types'
  <2>1. CASE lock' = Free BY <2>1 DEF IInv, Types, Free, Number
  <2>2. ASSUME NEW s \in Number, NEW at \in {"wait", "killed", "join"}, lock' = Held("stop", s, at)
        PROVE  Types'
    BY <2>2 DEF IInv, Types, Held, Number
  <2> QED BY <2>1, <2>2
<1>2. RunningIsListed'
  BY DEF IInv, RunningIsListed, Signalled, Number
<1>3. OneProcessPerKey'
  BY DEF IInv, OneProcessPerKey, Number
<1>4. StopHasKilled'
  BY DEF StopHasKilled, Held, Free
<1> QED BY <1>1, <1>2, <1>3, <1>4 DEF IInv

\* A stop that begins sends SIGTERM to a process nobody signalled, and takes the lock.
LEMMA BeginStep ==
  ASSUME IInv, NEW s \in Number, BeginStop(s), UNCHANGED registry, stalled' \subseteq stalled
  PROVE  IInv'
<1> DEFINE proc == IF sessions[s].proc = "running" THEN "terminated" ELSE sessions[s].proc
           e == [sessions[s] EXCEPT !.proc = proc]
<1>1. sessions[s] \in Session
  BY DEF IInv, Types, Number
<1>2. e \in Session /\ e.key = sessions[s].key /\ e.proc = proc
  BY <1>1 DEF Session
<1>3. sessions' = [sessions EXCEPT ![s] = e]
  BY DEF BeginStop
<1>4. /\ sessions' \in Seq(Session)
      /\ Number' = Number
      /\ \A u \in Number : sessions'[u] = IF u = s THEN e ELSE sessions[u]
  BY <1>2, <1>3, UpdateSession DEF IInv, Types
<1>5. \A u \in Number : /\ sessions'[u].key = sessions[u].key
                        /\ sessions'[u].proc \in Signalled => sessions[u].proc \in Signalled
  BY <1>2, <1>4 DEF Signalled
<1>6. lock' = Held("stop", s, IF sessions[s].proc # "exited" THEN "wait" ELSE "join")
  BY DEF BeginStop, IsRunning
<1>7. Types'
  BY <1>4, <1>6 DEF IInv, Types, Held, Number
<1>8. RunningIsListed'
  BY <1>4, <1>5 DEF IInv, RunningIsListed, Signalled
<1>9. OneProcessPerKey'
  BY <1>4, <1>5 DEF IInv, OneProcessPerKey, Signalled
<1>10. StopHasKilled'
  BY <1>2, <1>4, <1>6 DEF StopHasKilled, Held
<1> QED BY <1>7, <1>8, <1>9, <1>10 DEF IInv

\* The writer thread and the passing of time change neither process, key nor lock.
LEMMA WriterStep ==
  ASSUME IInv, NEW s \in Number, Writer(s) \/ Stall(s) \/ GraceEnds(s)
  PROVE  IInv'
<1>1. sessions[s] \in Session /\ sessions[s].segment \in Nat
  <2>1. sessions[s] \in Session
    BY DEF IInv, Types, Number
  <2> QED BY <2>1, SessionAssumption DEF Session
<1>2. UNCHANGED manager
  BY DEF Writer, Write, Rotate, CloseFile, WriterEnds, Stall, GraceEnds
<1>3. ASSUME NEW e \in Session, e.key = sessions[s].key, e.proc = sessions[s].proc,
             sessions' = [sessions EXCEPT ![s] = e]
      PROVE  IInv'
  <2>1. /\ sessions' \in Seq(Session)
        /\ Number' = Number
        /\ \A u \in Number : sessions'[u] = IF u = s THEN e ELSE sessions[u]
    BY <1>3, UpdateSession DEF IInv, Types
  <2>2. \A u \in Number : /\ sessions'[u].key = sessions[u].key
                          /\ sessions'[u].proc = sessions[u].proc
    BY <2>1, <1>3
  <2>3. stalled' \subseteq Number
    BY <1>2 DEF manager, IInv, Types
  <2> QED BY <2>1, <2>2, <2>3, <1>2, QuietStep DEF manager
<1>4. CASE Write(s)
  <2> DEFINE e == [sessions[s] EXCEPT !.data = TRUE, !.idle = FALSE]
  <2>1. e \in Session /\ e.key = sessions[s].key /\ e.proc = sessions[s].proc
    BY <1>1 DEF Session
  <2>2. sessions' = [sessions EXCEPT ![s] = e]
    BY <1>4 DEF Write
  <2> QED BY <2>1, <2>2, <1>3
<1>5. CASE Rotate(s)
  <2> DEFINE e == [sessions[s] EXCEPT !.segment = sessions[s].segment + 1]
  <2>1. sessions[s].segment + 1 \in 1 .. MaxSegments
    BY <1>1, <1>5, SessionAssumption DEF Rotate, Session
  <2>2. e \in Session /\ e.key = sessions[s].key /\ e.proc = sessions[s].proc
    BY <1>1, <2>1 DEF Session
  <2>3. sessions' = [sessions EXCEPT ![s] = e]
    BY <1>5 DEF Rotate
  <2> QED BY <2>2, <2>3, <1>3
<1>6. ASSUME NEW w \in {"closed", "ended"},
             sessions' = [sessions EXCEPT ![s] = [sessions[s] EXCEPT !.writer = w]]
      PROVE  IInv'
  <2> DEFINE e == [sessions[s] EXCEPT !.writer = w]
  <2>1. e \in Session /\ e.key = sessions[s].key /\ e.proc = sessions[s].proc
    BY <1>1 DEF Session
  <2> QED BY <2>1, <1>6, <1>3
<1>7. CASE CloseFile(s) BY <1>6, <1>7 DEF CloseFile
<1>8. CASE WriterEnds(s) BY <1>6, <1>8 DEF WriterEnds
<1>9. CASE Stall(s)
  <2> DEFINE e == [sessions[s] EXCEPT !.idle = TRUE]
  <2>1. e \in Session /\ e.key = sessions[s].key /\ e.proc = sessions[s].proc
    BY <1>1 DEF Session
  <2>2. sessions' = [sessions EXCEPT ![s] = e]
    BY <1>9 DEF Stall
  <2> QED BY <2>1, <2>2, <1>3
<1>10. CASE GraceEnds(s)
  <2> DEFINE e == [sessions[s] EXCEPT !.rested = TRUE]
  <2>1. e \in Session /\ e.key = sessions[s].key /\ e.proc = sessions[s].proc
    BY <1>1 DEF Session
  <2>2. sessions' = [sessions EXCEPT ![s] = e]
    BY <1>10 DEF GraceEnds
  <2> QED BY <2>1, <2>2, <1>3
<1> QED BY <1>4, <1>5, <1>7, <1>8, <1>9, <1>10 DEF Writer

\* A call that only prunes, whatever it does to the disks and the promotion.
LEMMA PruneStep ==
  ASSUME IInv, UNCHANGED <<sessions, lock>>, registry' = Pruned, stalled' \subseteq Number
  PROVE  IInv'
  BY PruneKeepsRunning, QuietStep DEF IInv, Types, Number

----------------------------------------------------------------------------
\* The steps of the manager's methods, of the watchdog, of a process and of the promotion.
LEMMA ManagerStep == IInv /\ Manager => IInv'
<1> SUFFICES ASSUME IInv, NEW s \in Number,
                    Settle(s) \/ KillSession(s) \/ Waited(s) \/ EndStop(s)
             PROVE  IInv'
  BY DEF Manager
<1>1. CASE Settle(s)
  <2>1. \A u \in registry : sessions[u].proc \in Signalled => u \in registry'
    BY <1>1 DEF Settle, IsRunning, Signalled
  <2>2. registry' \subseteq registry /\ lock' = Free /\ UNCHANGED <<sessions, stalled>>
    BY <1>1 DEF Settle
  <2> QED BY <2>1, <2>2, LockStep
<1>2. CASE KillSession(s)
  <2> DEFINE e == [sessions[s] EXCEPT !.proc = "killed"]
  <2>1. sessions[s] \in Session
    BY DEF IInv, Types, Number
  <2>2. e \in Session /\ e.key = sessions[s].key /\ e.proc = "killed"
    BY <2>1 DEF Session
  <2>3. /\ sessions' = [sessions EXCEPT ![s] = e]
        /\ lock' = Held("stop", s, "killed")
        /\ UNCHANGED <<registry, stalled>>
    BY <1>2 DEF KillSession
  <2>4. /\ sessions' \in Seq(Session)
        /\ Number' = Number
        /\ \A u \in Number : sessions'[u] = IF u = s THEN e ELSE sessions[u]
    BY <2>2, <2>3, UpdateSession DEF IInv, Types
  <2>5. \A u \in Number : /\ sessions'[u].key = sessions[u].key
                          /\ sessions'[u].proc \in Signalled => sessions[u].proc \in Signalled
    BY <2>2, <2>4 DEF Signalled
  <2>6. Types'
    BY <2>3, <2>4 DEF IInv, Types, Held, Number
  <2>7. RunningIsListed'
    BY <2>3, <2>4, <2>5 DEF IInv, RunningIsListed, Signalled
  <2>8. OneProcessPerKey'
    BY <2>4, <2>5 DEF IInv, OneProcessPerKey, Signalled
  <2>9. StopHasKilled'
    BY <2>2, <2>3, <2>4 DEF StopHasKilled, Held
  <2> QED BY <2>6, <2>7, <2>8, <2>9 DEF IInv
<1>3. CASE Waited(s)
  <2>1. sessions[s].proc \in {"killed", "exited"}
    BY <1>3 DEF Waited, At, Held, IsRunning, IInv, StopHasKilled
  <2>2. lock' = Held("stop", s, "join") /\ UNCHANGED <<sessions, registry, stalled>>
    BY <1>3 DEF Waited
  <2> QED BY <2>1, <2>2, LockStep
<1>4. CASE EndStop(s)
  <2>1. sessions[s].proc \in {"killed", "exited"}
    BY <1>4 DEF EndStop, At, Held, IInv, StopHasKilled
  <2>2. /\ lock' = Free /\ UNCHANGED <<sessions, stalled>>
        /\ registry' \in {registry, registry \ {s}}
    BY <1>4 DEF EndStop
  <2> QED BY <2>1, <2>2, LockStep DEF Signalled
<1> QED BY <1>1, <1>2, <1>3, <1>4

LEMMA WatchdogStep == IInv /\ Watchdog => IInv'
<1> SUFFICES ASSUME IInv, Watchdog PROVE IInv'
  OBVIOUS
<1>1. CASE StallScan
  <2>1. Pruned \subseteq Number
    BY PruneKeepsRunning DEF IInv, Types
  <2> QED BY <1>1, <2>1, PruneStep DEF StallScan
<1>2. ASSUME NEW s \in stalled, StopStalled(s) PROVE IInv'
  <2>1. s \in Number
    BY DEF IInv, Types
  <2>2. stalled' \subseteq stalled /\ UNCHANGED registry
    BY <1>2 DEF StopStalled
  <2>3. CASE BeginStop(s)
    BY <2>1, <2>2, <2>3, BeginStep
  <2>4. CASE lock = Free /\ UNCHANGED <<sessions, lock>>
    BY <2>2, <2>4, QuietStep DEF IInv, Types, Number
  <2> QED BY <1>2, <2>3, <2>4 DEF StopStalled
<1> QED BY <1>1, <1>2 DEF Watchdog

LEMMA ExitStep == ASSUME IInv, NEW s \in Number, ProcessExits(s) PROVE IInv'
  BY SignalStep DEF ProcessExits, manager

LEMMA PromotionStep == IInv /\ Promotion => IInv'
<1> SUFFICES ASSUME IInv, Promotion PROVE IInv'
  OBVIOUS
<1>1. CASE SeeActiveFiles
  BY <1>1, PruneStep DEF SeeActiveFiles, IInv, Types
<1>2. CASE UNCHANGED <<sessions, manager>>
  BY <1>2, QuietStep DEF manager, IInv, Types, Number
<1> QED BY <1>1, <1>2 DEF Promotion, ListStaging, MoveFile, EndPromotion

----------------------------------------------------------------------------
LEMMA SessionsHold == Spec => []IInv
<1>1. Init => IInv
  BY DEF Init, IInv, Types, RunningIsListed, OneProcessPerKey, StopHasKilled, Free, Number
<1>2. IInv /\ [Next]_vars => IInv'
  <2> SUFFICES ASSUME IInv, [Next]_vars PROVE IInv'
    OBVIOUS
  <2>1. CASE ListStatus
    BY <2>1, PruneStep DEF ListStatus, IInv, Types
  <2>2. ASSUME NEW k \in Key, StartSession(k) PROVE IInv'
    BY <2>2, StartStep
  <2>3. ASSUME NEW s \in Number, StopSession(s) PROVE IInv'
    BY <2>3, BeginStep DEF StopSession
  <2>4. CASE Manager
    BY <2>4, ManagerStep
  <2>5. CASE Watchdog
    BY <2>5, WatchdogStep
  <2>6. ASSUME NEW s \in Number, Writer(s) \/ ProcessExits(s) \/ Stall(s) \/ GraceEnds(s)
        PROVE  IInv'
    BY <2>6, WriterStep, ExitStep
  <2>7. CASE Promotion
    BY <2>7, PromotionStep
  <2>8. CASE UNCHANGED vars
    BY <2>8, QuietStep DEF vars, manager, IInv, Types, Number
  <2> QED BY <2>1, <2>2, <2>3, <2>4, <2>5, <2>6, <2>7, <2>8 DEF Next, Callers
<1> QED BY <1>1, <1>2, PTL DEF Spec

----------------------------------------------------------------------------
(* The HLS directories *)

\* Writers only end, and the directories that go are those of sessions whose writer ended.
LEMMA HlsQuiet ==
  ASSUME HlsKeptWhileRecording,
         Number' = Number,
         \A u \in Number : sessions'[u].writer # "ended" => sessions[u].writer # "ended",
         \A u \in hls : sessions[u].writer # "ended" => u \in hls'
  PROVE  HlsKeptWhileRecording'
  BY DEF HlsKeptWhileRecording, WriterAlive

\* Pruning removes directories of sessions whose writer ended.
LEMMA PruneKeepsHls ==
  \A u \in hls : sessions[u].writer # "ended" => u \in PrunedDirs
  BY DEF PrunedDirs, RemovableDirs, Finished, WriterAlive

\* No step removes the directory of a session whose writer thread has not ended: the file
\* it looks for on the staging disk is not asked of one that is still recorded.
LEMMA HlsStep ==
  ASSUME IInv, HlsKeptWhileRecording, [Next]_vars
  PROVE  HlsKeptWhileRecording'
<1>1. \A s \in Number : sessions[s] \in Session
  BY DEF IInv, Types, Number
<1>2. ASSUME UNCHANGED sessions, \A u \in hls : sessions[u].writer # "ended" => u \in hls'
      PROVE  HlsKeptWhileRecording'
  BY <1>2, HlsQuiet DEF Number
<1>3. ASSUME NEW s \in Number, NEW e \in Session, sessions' = [sessions EXCEPT ![s] = e],
             e.writer # "ended" => sessions[s].writer # "ended", UNCHANGED hls
      PROVE  HlsKeptWhileRecording'
  <2>1. /\ Number' = Number
        /\ \A u \in Number : sessions'[u] = IF u = s THEN e ELSE sessions[u]
    BY <1>3, UpdateSession DEF IInv, Types
  <2> QED BY <1>3, <2>1, HlsQuiet
<1>4. CASE ListStatus \/ StallScan \/ SeeActiveFiles
  BY <1>2, <1>4, PruneKeepsHls DEF ListStatus, StallScan, SeeActiveFiles
<1>5. ASSUME NEW k \in Key, StartSession(k) PROVE HlsKeptWhileRecording'
  <2> DEFINE n == Len(sessions) + 1
  <2>1. NewSession(k) \in Session
    BY SessionAssumption DEF NewSession, Session
  <2>2. /\ sessions' = Append(sessions, NewSession(k))
        /\ hls' = PrunedDirs \cup {n}
    BY <1>5 DEF StartSession
  <2>3. /\ Number' = Number \cup {n}
        /\ \A u \in Number : sessions'[u] = sessions[u]
    BY <2>1, <2>2 DEF IInv, Types, Number
  <2> QED BY <2>2, <2>3, PruneKeepsHls DEF HlsKeptWhileRecording, WriterAlive
<1>6. ASSUME NEW s \in Number, Settle(s) \/ Waited(s) PROVE HlsKeptWhileRecording'
  BY <1>2, <1>6 DEF Settle, Waited
<1>7. ASSUME NEW s \in Number, EndStop(s) PROVE HlsKeptWhileRecording'
  <2>1. UNCHANGED sessions
    BY <1>7 DEF EndStop
  <2>2. \A u \in hls : sessions[u].writer # "ended" => u \in hls'
    BY <1>7 DEF EndStop, RemovableDirs, WriterAlive
  <2> QED BY <1>2, <2>1, <2>2
<1>8. ASSUME NEW s \in Number, NEW proc \in {"running", "terminated", "killed", "exited"},
             sessions' = [sessions EXCEPT ![s] = [sessions[s] EXCEPT !.proc = proc]],
             UNCHANGED hls
      PROVE  HlsKeptWhileRecording'
  <2> DEFINE e == [sessions[s] EXCEPT !.proc = proc]
  <2>1. e \in Session /\ e.writer = sessions[s].writer
    BY <1>1 DEF Session
  <2> HIDE DEF e
  <2>2. sessions' = [sessions EXCEPT ![s] = e]
    BY <1>8 DEF e
  <2> QED BY <1>3, <1>8, <2>1, <2>2
<1>9. ASSUME NEW s \in Number, BeginStop(s), UNCHANGED hls
      PROVE  HlsKeptWhileRecording'
  <2> DEFINE proc == IF sessions[s].proc = "running" THEN "terminated" ELSE sessions[s].proc
  <2>1. proc \in {"running", "terminated", "killed", "exited"}
    BY <1>1 DEF Session
  <2>2. sessions' = [sessions EXCEPT ![s] = [sessions[s] EXCEPT !.proc = proc]]
    BY <1>9 DEF BeginStop
  <2> HIDE DEF proc
  <2> QED BY <1>8, <1>9, <2>1, <2>2
<1>10. ASSUME NEW s \in Number, KillSession(s) \/ ProcessExits(s)
       PROVE  HlsKeptWhileRecording'
  <2>1. UNCHANGED hls
    BY <1>10 DEF KillSession, ProcessExits, manager
  <2>2. \/ sessions' = [sessions EXCEPT ![s] = [sessions[s] EXCEPT !.proc = "killed"]]
        \/ sessions' = [sessions EXCEPT ![s] = [sessions[s] EXCEPT !.proc = "exited"]]
    BY <1>10 DEF KillSession, ProcessExits
  <2> QED BY <1>8, <2>1, <2>2
<1>11. ASSUME NEW s \in stalled, StopStalled(s) PROVE HlsKeptWhileRecording'
  <2>1. s \in Number /\ UNCHANGED hls
    BY <1>11 DEF StopStalled, IInv, Types
  <2> QED BY <1>2, <1>9, <1>11, <2>1 DEF StopStalled
<1>12. ASSUME NEW s \in Number, Writer(s) \/ Stall(s) \/ GraceEnds(s)
       PROVE  HlsKeptWhileRecording'
  <2>1. UNCHANGED hls
    BY <1>12 DEF Writer, Write, Rotate, CloseFile, WriterEnds, Stall, GraceEnds, manager
  <2>2. sessions[s] \in Session /\ sessions[s].segment \in Nat
    BY <1>1, SessionAssumption DEF Session
  <2>3. CASE Write(s)
    <3> DEFINE e == [sessions[s] EXCEPT !.data = TRUE, !.idle = FALSE]
    <3>1. e \in Session /\ e.writer = sessions[s].writer
      BY <2>2 DEF Session
    <3>2. sessions' = [sessions EXCEPT ![s] = e]
      BY <2>3 DEF Write
    <3> QED BY <1>3, <2>1, <3>1, <3>2
  <2>4. CASE Rotate(s)
    <3> DEFINE e == [sessions[s] EXCEPT !.segment = sessions[s].segment + 1]
    <3>1. sessions[s].segment + 1 \in 1 .. MaxSegments
      BY <2>2, <2>4, SessionAssumption DEF Rotate, Session
    <3>2. e \in Session /\ e.writer = sessions[s].writer
      BY <2>2, <3>1 DEF Session
    <3>3. sessions' = [sessions EXCEPT ![s] = e]
      BY <2>4 DEF Rotate
    <3> QED BY <1>3, <2>1, <3>2, <3>3
  <2>5. ASSUME NEW w \in {"closed", "ended"}, sessions[s].writer # "ended",
               sessions' = [sessions EXCEPT ![s] = [sessions[s] EXCEPT !.writer = w]]
        PROVE  HlsKeptWhileRecording'
    <3> DEFINE e == [sessions[s] EXCEPT !.writer = w]
    <3>1. e \in Session
      BY <2>2 DEF Session
    <3> QED BY <1>3, <2>1, <2>5, <3>1
  <2>6. CASE CloseFile(s) BY <2>5, <2>6 DEF CloseFile
  <2>7. CASE WriterEnds(s) BY <2>5, <2>7 DEF WriterEnds
  <2>8. CASE Stall(s)
    <3> DEFINE e == [sessions[s] EXCEPT !.idle = TRUE]
    <3>1. e \in Session /\ e.writer = sessions[s].writer
      BY <2>2 DEF Session
    <3>2. sessions' = [sessions EXCEPT ![s] = e]
      BY <2>8 DEF Stall
    <3> QED BY <1>3, <2>1, <3>1, <3>2
  <2>9. CASE GraceEnds(s)
    <3> DEFINE e == [sessions[s] EXCEPT !.rested = TRUE]
    <3>1. e \in Session /\ e.writer = sessions[s].writer
      BY <2>2 DEF Session
    <3>2. sessions' = [sessions EXCEPT ![s] = e]
      BY <2>9 DEF GraceEnds
    <3> QED BY <1>3, <2>1, <3>1, <3>2
  <2> QED BY <1>12, <2>3, <2>4, <2>6, <2>7, <2>8, <2>9 DEF Writer
<1>13. CASE ListStaging \/ (\E f \in promotion.todo : MoveFile(f)) \/ EndPromotion
  BY <1>2, <1>13 DEF ListStaging, MoveFile, EndPromotion, manager
<1>14. CASE UNCHANGED vars
  BY <1>2, <1>14 DEF vars, manager
<1>15. ASSUME NEW s \in Number, StopSession(s) PROVE HlsKeptWhileRecording'
  BY <1>9, <1>15 DEF StopSession
<1> QED
  BY <1>4, <1>5, <1>6, <1>7, <1>10, <1>11, <1>12, <1>13, <1>14, <1>15
  DEF Next, Callers, Manager, Watchdog, Promotion

----------------------------------------------------------------------------
\* Whatever start, stop, prune, the watchdog, the writers and the promotion interleave,
\* every process that was not sent SIGKILL is in the registry, where it can be stopped,
\* and no key has two of them: a start that finds no running session of its key in the
\* registry does not race one outside of it.
THEOREM SessionsAreListed == Spec => [](RunningIsListed /\ OneProcessPerKey)
  BY SessionsHold, PTL DEF IInv

\* The playlist of a capture stays for as long as its writer thread lives, also when the
\* process is gone, the session left the registry, or the promotion moved its files.
THEOREM HlsIsKept == Spec => []HlsKeptWhileRecording
<1>1. Init => HlsKeptWhileRecording
  BY DEF Init, HlsKeptWhileRecording, Number
<1>2. IInv /\ HlsKeptWhileRecording /\ [Next]_vars => HlsKeptWhileRecording'
  BY HlsStep
<1> QED BY <1>1, <1>2, SessionsHold, PTL DEF Spec

----------------------------------------------------------------------------
(* The timeline: no capture falls between the two tables it is read from, for  *)
(* any number of recordings and requests, and any clock.                       *)

\* A row's times are numbers; the bounds of the clock have no part in the proof.
Timed == [created : Nat, duration : Nat]

ChartTypes ==
  /\ now \in Nat
  /\ rows \in [Recording -> Timed \cup {None}]
  /\ tombs \in [Recording -> SUBSET Timed]
  /\ DOMAIN erasing = Recording
  /\ \A r \in Recording : erasing[r] # None =>
       /\ erasing[r] = [row |-> erasing[r].row, archived |-> erasing[r].archived]
       /\ erasing[r].row \in Timed

\* The request underway has its fields.
Asking ==
  query # None =>
    /\ query = [at |-> query.at, range |-> query.range, live |-> query.live,
                bars |-> query.bars, due |-> query.due]
    /\ query.due \subseteq Recording
    /\ query.range.from \in Nat /\ query.range.to \in Nat

\* What a deletion archived is in the tombstones.
ArchivedIsThere ==
  \A r \in Recording :
    erasing[r] # None => (erasing[r].archived => erasing[r].row \in tombs[r])

\* A measured capture that meets the range, whose row a deletion cannot take before it is
\* a tombstone.
Captured(w, range) ==
  w.created > 0 /\ w.duration > 0 /\ Timeline!Meets(w.created, w.created + w.duration, range)
Archived(r, range) == \E w \in tombs[r] : Captured(w, range)
InItsRow(r, range) ==
  /\ rows[r] # None /\ Captured(rows[r], range)
  /\ erasing[r] # None => erasing[r].row = rows[r]

\* Before the rows are read, a capture that is due has a tombstone or its row; after that
\* a tombstone or its bar.
DueIsFound ==
  query # None =>
    \A r \in query.due :
      \/ Archived(r, query.range)
      \/ query.at = "rows" /\ InItsRow(r, query.range)
      \/ query.at = "tombs" /\ \E b \in query.bars : b.recording = r

ChartInv == ChartTypes /\ Asking /\ ArchivedIsThere /\ DueIsFound /\ Timeline!CapturesStayCharted

\* A measured capture that meets the range is selected, and its bar is not cut away.
LEMMA CapturedHasBar ==
  ASSUME NEW range, range.from \in Nat, range.to \in Nat, NEW taken \in SUBSET Timed,
         NEW w \in taken, Captured(w, range), NEW r, NEW location
  PROVE  \E b \in Timeline!Bars(r, taken, location, range) : b.recording = r
<1>1. w.created \in Nat /\ w.duration \in Nat /\ w.created > 0 /\ w.duration > 0
  BY DEF Captured, Timed
<1>2. w.created <= range.to /\ w.created + w.duration >= range.from
  BY <1>1 DEF Captured, Timeline!Meets
<1>3. Timeline!Selected(w, range)
  BY <1>1, <1>2 DEF Timeline!Selected
<1>4. Timeline!EndOf(w, location) = w.created + w.duration
  BY <1>1 DEF Timeline!EndOf
<1>5. [recording |-> r, start |-> w.created, end |-> Timeline!EndOf(w, location), location |-> location]
        \in Timeline!Bars(r, taken, location, range)
  BY <1>1, <1>2, <1>3, <1>4 DEF Timeline!Bars
<1> QED
  BY <1>5

\* Nothing is due and nothing deleted at first.
LEMMA InitChart == Timeline!Init => ChartInv
BY DEF Timeline!Init, ChartInv, ChartTypes, Asking, ArchivedIsThere, DueIsFound,
   Timeline!CapturesStayCharted

\* A step of the tables keeps the types and what was archived.
LEMMA TablesTyped ==
  ASSUME ChartInv, NEW r \in Recording, Timeline!Index(r) \/ Timeline!Measure(r) \/ Timeline!Drop(r) \/ Timeline!EraseReads(r)
                                    \/ Timeline!EraseArchives(r) \/ Timeline!EraseDeletes(r)
  PROVE  ChartTypes' /\ ArchivedIsThere'
<1>1. CASE Timeline!Index(r)
  BY <1>1 DEF Timeline!Index, ChartInv, ChartTypes, Timed, ArchivedIsThere
<1>2. CASE Timeline!Measure(r)
  <2>1. rows[r] \in Timed /\ now - rows[r].created \in Nat
    BY <1>2 DEF Timeline!Measure, ChartInv, ChartTypes, Timed
  <2>2. rows' \in [Recording -> Timed \cup {None}]
    BY <1>2, <2>1 DEF Timeline!Measure, ChartInv, ChartTypes, Timed
  <2> QED
    BY <1>2, <2>2 DEF Timeline!Measure, ChartInv, ChartTypes, ArchivedIsThere
<1>3. CASE Timeline!Drop(r)
  BY <1>3 DEF Timeline!Drop, ChartInv, ChartTypes, ArchivedIsThere
<1>4. CASE Timeline!EraseReads(r)
  <2>1. rows[r] \in Timed
    BY <1>4 DEF Timeline!EraseReads, ChartInv, ChartTypes
  <2> QED
    BY <1>4, <2>1 DEF Timeline!EraseReads, ChartInv, ChartTypes, ArchivedIsThere
<1>5. CASE Timeline!EraseArchives(r)
  <2>1. /\ erasing[r] = [row |-> erasing[r].row, archived |-> erasing[r].archived]
        /\ erasing[r].row \in Timed
    BY <1>5 DEF Timeline!EraseArchives, ChartInv, ChartTypes
  <2>2. /\ DOMAIN erasing' = Recording
        /\ erasing'[r] = [row |-> erasing[r].row, archived |-> TRUE]
        /\ \A s \in Recording \ {r} : erasing'[s] = erasing[s]
    BY <1>5, <2>1 DEF Timeline!EraseArchives, ChartInv, ChartTypes
  <2>3. /\ tombs' \in [Recording -> SUBSET Timed]
        /\ tombs'[r] = tombs[r] \cup {erasing[r].row}
        /\ \A s \in Recording \ {r} : tombs'[s] = tombs[s]
    BY <1>5, <2>1 DEF Timeline!EraseArchives, ChartInv, ChartTypes
  <2>4. UNCHANGED <<now, rows>>
    BY <1>5 DEF Timeline!EraseArchives
  <2> QED
    BY <2>1, <2>2, <2>3, <2>4 DEF ChartInv, ChartTypes, ArchivedIsThere
<1>6. CASE Timeline!EraseDeletes(r)
  BY <1>6 DEF Timeline!EraseDeletes, ChartInv, ChartTypes, ArchivedIsThere
<1> QED
  BY <1>1, <1>2, <1>3, <1>4, <1>5, <1>6

\* A step of the tables loses no capture that is due: a row that goes has been archived,
\* or is due no longer.
LEMMA TablesKeep ==
  ASSUME ChartInv, NEW r \in Recording, Timeline!Index(r) \/ Timeline!Measure(r) \/ Timeline!Drop(r) \/ Timeline!EraseReads(r)
                                    \/ Timeline!EraseArchives(r) \/ Timeline!EraseDeletes(r)
  PROVE  ChartInv'
<1>1. ChartTypes' /\ ArchivedIsThere'
  BY TablesTyped
<1>2. Timeline!CapturesStayCharted'
  BY DEF ChartInv, Timeline!CapturesStayCharted, Timeline!Index, Timeline!Measure,
     Timeline!Drop, Timeline!EraseReads, Timeline!EraseArchives,
         Timeline!EraseDeletes
<1>3. \A s \in Recording : tombs[s] \subseteq tombs'[s]
  BY DEF ChartInv, ChartTypes, Timeline!Index, Timeline!Measure, Timeline!Drop,
     Timeline!EraseReads, Timeline!EraseArchives, Timeline!EraseDeletes
<1>4. \A s \in Recording : \A range : Archived(s, range) => Archived(s, range)'
  BY <1>3 DEF Archived, Captured, Timeline!Meets
<1>5. ASSUME UNCHANGED query,
             \A range : InItsRow(r, range) => Archived(r, range)' \/ InItsRow(r, range)',
             \A s \in Recording \ {r} : rows'[s] = rows[s] /\ erasing'[s] = erasing[s]
      PROVE  Asking' /\ DueIsFound'
  <2>1. Asking'
    BY <1>5 DEF ChartInv, Asking
  <2>2. \A s \in Recording \ {r} : \A range : InItsRow(s, range) => InItsRow(s, range)'
    BY <1>5 DEF InItsRow, Captured, Timeline!Meets
  <2> QED
    BY <1>4, <1>5, <2>1, <2>2 DEF ChartInv, Asking, DueIsFound
<1>6. CASE Timeline!Index(r)
  <2>1. \A range : ~ InItsRow(r, range)
    BY <1>6 DEF Timeline!Index, Timeline!Present, InItsRow
  <2>2. UNCHANGED query /\ \A s \in Recording \ {r} : rows'[s] = rows[s] /\ erasing'[s] = erasing[s]
    BY <1>6 DEF Timeline!Index, ChartInv, ChartTypes
  <2> QED
    BY <1>1, <1>2, <1>5, <2>1, <2>2 DEF ChartInv
<1>7. CASE Timeline!Measure(r)
  <2>1. \A range : ~ InItsRow(r, range)
    BY <1>7 DEF Timeline!Measure, InItsRow, Captured, ChartInv, ChartTypes, Timed
  <2>2. UNCHANGED query /\ \A s \in Recording \ {r} : rows'[s] = rows[s] /\ erasing'[s] = erasing[s]
    BY <1>7 DEF Timeline!Measure, ChartInv, ChartTypes
  <2> QED
    BY <1>1, <1>2, <1>5, <2>1, <2>2 DEF ChartInv
<1>8. CASE Timeline!EraseReads(r)
  <2>1. erasing'[r].row = rows[r] /\ UNCHANGED <<query, rows>>
    BY <1>8 DEF Timeline!EraseReads, ChartInv, ChartTypes
  <2>2. \A s \in Recording \ {r} : erasing'[s] = erasing[s]
    BY <1>8 DEF Timeline!EraseReads, ChartInv, ChartTypes
  <2>3. \A range : InItsRow(r, range) => InItsRow(r, range)'
    BY <2>1 DEF InItsRow, Captured, Timeline!Meets
  <2> QED
    BY <1>1, <1>2, <1>5, <2>1, <2>2, <2>3 DEF ChartInv
<1>9. CASE Timeline!EraseArchives(r)
  <2>1. erasing'[r].row = erasing[r].row /\ erasing[r] # None /\ UNCHANGED <<query, rows>>
    BY <1>9 DEF Timeline!EraseArchives, ChartInv, ChartTypes
  <2>2. \A s \in Recording \ {r} : erasing'[s] = erasing[s]
    BY <1>9 DEF Timeline!EraseArchives, ChartInv, ChartTypes
  <2>3. \A range : InItsRow(r, range) => InItsRow(r, range)'
    BY <2>1 DEF InItsRow, Captured, Timeline!Meets
  <2> QED
    BY <1>1, <1>2, <1>5, <2>1, <2>2, <2>3 DEF ChartInv
<1>10. CASE Timeline!EraseDeletes(r)
  <2>1. erasing[r] # None /\ erasing[r].row \in tombs[r] /\ UNCHANGED <<query, tombs>>
    BY <1>10 DEF Timeline!EraseDeletes, ChartInv, ArchivedIsThere
  <2>2. \A s \in Recording \ {r} : rows'[s] = rows[s] /\ erasing'[s] = erasing[s]
    BY <1>10 DEF Timeline!EraseDeletes, ChartInv, ChartTypes
  <2>3. \A range : InItsRow(r, range) => Archived(r, range)'
    BY <2>1 DEF InItsRow, Archived, Captured, Timeline!Meets
  <2> QED
    BY <1>1, <1>2, <1>5, <2>1, <2>2, <2>3 DEF ChartInv
<1>11. CASE Timeline!Drop(r)
  <2>1. UNCHANGED <<tombs, erasing>> /\ \A s \in Recording \ {r} : rows'[s] = rows[s]
    BY <1>11 DEF Timeline!Drop, ChartInv, ChartTypes
  <2>2. CASE UNCHANGED query /\ (query = None \/ rows[r] \in tombs[r])
    <3>1. CASE query = None
      BY <2>2, <3>1, <1>1, <1>2 DEF ChartInv, Asking, DueIsFound
    <3>2. CASE rows[r] \in tombs[r]
      <4>1. \A range : InItsRow(r, range) => Archived(r, range)'
        BY <2>1, <3>2 DEF InItsRow, Archived, Captured, Timeline!Meets
      <4> QED
        BY <1>1, <1>2, <1>5, <2>1, <2>2, <4>1 DEF ChartInv
    <3> QED
      BY <2>2, <3>1, <3>2
  <2>3. CASE query # None /\ query' = [query EXCEPT !.due = @ \ {r}]
    <3>1. /\ query' = [at |-> query.at, range |-> query.range, live |-> query.live,
                       bars |-> query.bars, due |-> query.due \ {r}]
          /\ query.due \subseteq Recording
      BY <2>3 DEF ChartInv, Asking
    <3>2. Asking'
      BY <2>3, <3>1 DEF ChartInv, Asking
    <3>3. \A s \in Recording \ {r} : \A range : InItsRow(s, range) => InItsRow(s, range)'
      BY <2>1 DEF InItsRow, Captured, Timeline!Meets
    <3>4. DueIsFound'
      BY <1>4, <2>3, <3>1, <3>3 DEF ChartInv, DueIsFound
    <3> QED
      BY <1>1, <1>2, <3>2, <3>4 DEF ChartInv
  <2> QED
    BY <1>11, <2>2, <2>3 DEF Timeline!Drop
<1> QED
  BY <1>6, <1>7, <1>8, <1>9, <1>10, <1>11

\* The clock and the broadcasts have no part in it.
LEMMA WorldKeeps ==
  ASSUME ChartInv, Timeline!Tick \/ Timeline!GoesLive \/ Timeline!EndsLive \/ UNCHANGED Timeline!vars
  PROVE  ChartInv'
<1>1. UNCHANGED <<rows, tombs, erasing, query, answer>> /\ now' \in Nat
  BY DEF Timeline!Tick, Timeline!GoesLive, Timeline!EndsLive, Timeline!vars, ChartInv,
     ChartTypes
<1>2. ChartTypes' /\ Asking' /\ ArchivedIsThere' /\ Timeline!CapturesStayCharted'
  BY <1>1 DEF ChartInv, ChartTypes, Asking, ArchivedIsThere, Timeline!CapturesStayCharted
<1>3. DueIsFound'
  BY <1>1 DEF ChartInv, DueIsFound, Archived, InItsRow, Captured, Timeline!Meets
<1> QED
  BY <1>2, <1>3 DEF ChartInv

\* The range of a request is one of times.
LEMMA RangeTyped ==
  ASSUME Timeline!TimelineAssumption, now \in Nat, NEW from \in Nat, NEW to \in Nat
  PROVE  Timeline!RangeOf(from, to).from \in Nat /\ Timeline!RangeOf(from, to).to \in Nat
<1>1. Timeline!AsGiven(from, to).from \in Nat /\ Timeline!AsGiven(from, to).to \in Nat
  BY DEF Timeline!TimelineAssumption, Timeline!AsGiven
<1> QED
  BY <1>1 DEF Timeline!RangeOf, Timeline!Lesser, Timeline!Greater, Timeline!TimelineAssumption

\* A request begins with the captures that are due then, and reads the two tables.
LEMMA QueryKeeps ==
  ASSUME Timeline!TimelineAssumption, ChartInv, Timeline!QueryLive \/ Timeline!QueryReads
  PROVE  ChartInv'
<1>1. CASE Timeline!QueryLive
  <2>1. PICK range :
          /\ range.from \in Nat /\ range.to \in Nat
          /\ query' = [at |-> "rows", range |-> range, live |-> Timeline!LiveBars(range),
                       bars |-> {}, due |-> Timeline!Due(range)]
    <3>1. PICK from \in 0 .. MaxTime, to \in 0 .. MaxTime :
            query' = [at |-> "rows", range |-> Timeline!RangeOf(from, to),
                      live |-> Timeline!LiveBars(Timeline!RangeOf(from, to)),
                      bars |-> {}, due |-> Timeline!Due(Timeline!RangeOf(from, to))]
      BY <1>1 DEF Timeline!QueryLive
    <3>2. Timeline!RangeOf(from, to).from \in Nat /\ Timeline!RangeOf(from, to).to \in Nat
      BY RangeTyped DEF ChartInv, ChartTypes, Timeline!TimelineAssumption
    <3> QED
      BY <3>1, <3>2
  <2>2. UNCHANGED <<now, rows, tombs, erasing, answer>>
    BY <1>1 DEF Timeline!QueryLive
  <2>4. Timeline!Due(range) \subseteq Recording
    BY DEF Timeline!Due
  <2>5. ChartTypes' /\ ArchivedIsThere' /\ Timeline!CapturesStayCharted'
    BY <2>2 DEF ChartInv, ChartTypes, ArchivedIsThere, Timeline!CapturesStayCharted
  <2>6. Asking'
    BY <2>1, <2>4 DEF Asking
  <2>7. ASSUME NEW r \in Timeline!Due(range)
        PROVE  Archived(r, range)' \/ InItsRow(r, range)'
    <3>1. PICK w \in tombs[r] \cup ({rows[r]} \ {None}) :
            Captured(w, range) /\ (erasing[r] # None => erasing[r].row = w)
      BY <2>7 DEF Timeline!Due, Captured
    <3>2. CASE w \in tombs[r]
      BY <2>2, <3>1, <3>2 DEF Archived, Captured, Timeline!Meets
    <3>3. CASE w = rows[r] /\ rows[r] # None
      BY <2>2, <3>1, <3>3 DEF InItsRow, Captured, Timeline!Meets
    <3> QED
      BY <3>1, <3>2, <3>3
  <2>8. DueIsFound'
    BY <2>1, <2>7 DEF DueIsFound
  <2> QED
    BY <2>5, <2>6, <2>8 DEF ChartInv
<1>2. CASE Timeline!QueryReads
  <2>0. PICK range : range = query.range
    OBVIOUS
  <2>1. query # None /\ UNCHANGED <<now, rows, tombs, erasing>>
    BY <1>2 DEF Timeline!QueryReads, Timeline!QueryTables
  <2>2. /\ query = [at |-> query.at, range |-> range, live |-> query.live,
                    bars |-> query.bars, due |-> query.due]
        /\ query.due \subseteq Recording /\ range.from \in Nat /\ range.to \in Nat
    BY <2>0, <2>1 DEF ChartInv, Asking
  <2>3. ChartTypes' /\ ArchivedIsThere'
    BY <2>1 DEF ChartInv, ChartTypes, ArchivedIsThere
  <2>4. ASSUME NEW r \in Recording, NEW taken \in SUBSET Timed, NEW location,
               \E w \in taken : Captured(w, range)
        PROVE  \E b \in Timeline!Bars(r, taken, location, range) : b.recording = r
    BY <2>2, <2>4, CapturedHasBar
  <2>5. ASSUME NEW r \in query.due, Archived(r, range)
        PROVE  \E b \in Timeline!TombBars(range) : b.recording = r
    <3>1. r \in Recording /\ tombs[r] \in SUBSET Timed /\ \E w \in tombs[r] : Captured(w, range)
      BY <2>2, <2>5 DEF ChartInv, ChartTypes, Archived
    <3>2. \E b \in Timeline!Bars(r, tombs[r], "history", range) : b.recording = r
      BY <2>4, <3>1
    <3> QED
      BY <3>1, <3>2 DEF Timeline!TombBars
  <2>6. ASSUME NEW r \in query.due, InItsRow(r, range)
        PROVE  \E b \in Timeline!RowBars(range) : b.recording = r
    <3>1. /\ r \in Recording /\ {rows[r]} \ {None} \in SUBSET Timed
          /\ \E w \in {rows[r]} \ {None} : Captured(w, range)
      BY <2>2, <2>6 DEF ChartInv, ChartTypes, InItsRow
    <3>2. \E b \in Timeline!Bars(r, {rows[r]} \ {None}, "vps", range) : b.recording = r
      BY <2>4, <3>1
    <3> QED
      BY <3>1, <3>2 DEF Timeline!RowBars
  <2>7. CASE /\ query.at = "rows"
             /\ query' = [query EXCEPT !.at = "tombs", !.bars = Timeline!RowBars(query.range)]
             /\ UNCHANGED answer
    <3>1. query' = [at |-> "tombs", range |-> range, live |-> query.live,
                    bars |-> Timeline!RowBars(range), due |-> query.due]
      BY <2>0, <2>2, <2>7
    <3>6. Asking'
      BY <2>2, <3>1 DEF Asking
    <3>2. Timeline!CapturesStayCharted'
      BY <2>7 DEF ChartInv, Timeline!CapturesStayCharted
    <3>3. \A r \in query.due : Archived(r, range) => Archived(r, range)'
      BY <2>1 DEF Archived, Captured, Timeline!Meets
    <3>4. \A r \in query.due : Archived(r, range)' \/ \E b \in Timeline!RowBars(range) : b.recording = r
      BY <2>0, <2>1, <2>6, <2>7, <3>3 DEF ChartInv, DueIsFound
    <3>5. DueIsFound'
      BY <3>1, <3>4 DEF DueIsFound
    <3> QED
      BY <2>3, <3>2, <3>5, <3>6 DEF ChartInv
  <2>8. CASE /\ query.at = "tombs"
             /\ answer' = [range |-> query.range, live |-> query.live,
                           bars |-> query.bars \cup Timeline!TombBars(query.range), due |-> query.due]
             /\ query' = None
    <3>1. \A r \in query.due : \E b \in query.bars \cup Timeline!TombBars(range) : b.recording = r
      BY <2>0, <2>1, <2>5, <2>8 DEF ChartInv, DueIsFound
    <3>2. Timeline!CapturesStayCharted'
      BY <2>0, <2>8, <3>1 DEF Timeline!CapturesStayCharted
    <3> QED
      BY <2>3, <2>8, <3>2 DEF ChartInv, Asking, DueIsFound
  <2> QED
    BY <1>2, <2>7, <2>8 DEF Timeline!QueryReads, Timeline!QueryTables
<1> QED
  BY <1>1, <1>2

\* A measured capture that meets the range of a request is on its chart, whatever step its
\* deletion has reached and however the request's reads fall between those steps.
THEOREM CapturesCharted == Timeline!Spec => []CapturesStayCharted
<1>1. ChartInv /\ [Timeline!Next]_Timeline!vars => ChartInv'
  <2> SUFFICES ASSUME ChartInv, [Timeline!Next]_Timeline!vars PROVE ChartInv'
    OBVIOUS
  <2>1. CASE Timeline!Next
    BY <2>1, TimelineHolds, TablesKeep, WorldKeeps, QueryKeeps DEF Timeline!Next
  <2>2. CASE UNCHANGED Timeline!vars
    BY <2>2, WorldKeeps
  <2> QED
    BY <2>1, <2>2
<1>2. ChartInv => CapturesStayCharted
  BY DEF ChartInv, CapturesStayCharted
<1> QED
  BY <1>1, <1>2, InitChart, PTL DEF Timeline!Spec

----------------------------------------------------------------------------
(* The broadcasts of a channel lie apart, for every gap and any number of     *)
(* polls, unless two observations overlapped.                                 *)

Times == [started : Nat, ended : Nat \cup {None}, seen : Nat]
Watching == [pc : {"idle", "polled", "stamped", "open", "closed"}, online : BOOLEAN, at : Nat,
             row : Nat \cup {None}, read : Nat \cup {None}, again : BOOLEAN]

LiveTypes ==
  /\ clock \in Nat /\ raced \in BOOLEAN
  /\ broadcasts \in Seq(Times)
  /\ watch \in [Live!Task -> Watching]

\* A task that has stamped its observation and not yet written what follows from it.
Observing(w) == watch[w].pc \notin {"idle", "polled"}

Alone == \A v, w \in Live!Task : Observing(v) /\ Observing(w) => v = w

\* The rows of broadcasts as they are without races, none of which began after t.
Apart ==
  /\ \A i \in DOMAIN broadcasts : /\ broadcasts[i].started <= broadcasts[i].seen
                                  /\ broadcasts[i].ended # None => broadcasts[i].started <= broadcasts[i].ended
  /\ \A i, j \in DOMAIN broadcasts :
       i < j => broadcasts[i].ended # None /\ broadcasts[j].started > broadcasts[i].ended + Gap
BegunBy(t) == \A i \in DOMAIN broadcasts : broadcasts[i].started <= t

\* What a task found is still so.
Found(w) ==
  /\ watch[w].at <= clock /\ BegunBy(watch[w].at)
  /\ watch[w].pc = "open" =>
       \/ watch[w].row = None /\ Live!Open = {}
       \/ watch[w].row \in Live!Open /\ watch[w].read = broadcasts[watch[w].row].seen
  /\ watch[w].pc = "closed" =>
       /\ Live!Open = {}
       /\ \/ watch[w].row = None /\ broadcasts = <<>>
          \/ /\ broadcasts # <<>> /\ watch[w].row = Len(broadcasts)
             /\ watch[w].read = broadcasts[Len(broadcasts)].ended

LiveFacts ==
  /\ LiveTypes /\ Alone /\ Apart /\ BegunBy(clock)
  /\ \A w \in Live!Task : Observing(w) => Found(w)

LiveInv == raced \/ LiveFacts

LEMMA FindsLastClosed ==
  ASSUME LiveFacts, Live!Open = {}
  PROVE  /\ broadcasts = <<>> => Live!Last(Live!Closed, Live!Ended) = None
         /\ broadcasts # <<>> => Len(broadcasts) \in DOMAIN broadcasts /\ Live!Last(Live!Closed, Live!Ended) = Len(broadcasts)
<1> DEFINE n == Len(broadcasts)
<1>1. Live!Closed = DOMAIN broadcasts /\ DOMAIN broadcasts = 1 .. n /\ n \in Nat
  <2>1. broadcasts \in Seq(Times)
    BY DEF LiveFacts, LiveTypes
  <2>2. Live!Closed = DOMAIN broadcasts
    BY DEF Live!Closed
  <2> QED BY <2>1, <2>2
<1>2. CASE broadcasts = <<>>
  BY <1>1, <1>2 DEF Live!Last
<1>3. CASE broadcasts # <<>>
  <2>1. n \in Live!Closed
    BY <1>1, <1>3 DEF LiveFacts, LiveTypes
  <2>2. \A i \in DOMAIN broadcasts : broadcasts[i].ended \in Nat /\ broadcasts[i].started \in Nat
    <3>1. \A i \in DOMAIN broadcasts : broadcasts[i] \in Times
      BY DEF LiveFacts, LiveTypes
    <3> QED BY <1>1, <3>1 DEF Live!Closed, Live!Open, Times
  <2>3. \A j \in Live!Closed : j # n => Live!Ended[j] < Live!Ended[n]
    <3> SUFFICES ASSUME NEW j \in Live!Closed, j # n PROVE Live!Ended[j] < Live!Ended[n]
      OBVIOUS
    <3>1. j < n /\ j \in DOMAIN broadcasts /\ n \in DOMAIN broadcasts
      BY <1>1, <2>1
    <3>2. broadcasts[n].started > broadcasts[j].ended + Gap
      BY <3>1 DEF LiveFacts, Apart
    <3>3. broadcasts[n].started <= broadcasts[n].ended
      BY <3>1, <2>2, LiveHolds DEF LiveFacts, Apart, Live!LiveAssumption
    <3> QED BY <3>1, <3>2, <3>3, <2>2, LiveHolds DEF Live!Ended, Live!LiveAssumption
  <2>4. \A i \in Live!Closed : Live!Ended[i] \in Nat
    BY <1>1, <2>2 DEF Live!Ended
  <2>5. \A i \in Live!Closed :
          (\A j \in Live!Closed : Live!Ended[j] < Live!Ended[i] \/ (Live!Ended[j] = Live!Ended[i] /\ j <= i)) <=> i = n
    BY <1>1, <2>1, <2>3, <2>4
  <2>6. Live!Closed # {} /\ Live!Last(Live!Closed, Live!Ended) = n
    <3> HIDE DEF n
    <3> QED BY <2>1, <2>5 DEF Live!Last
  <2> QED BY <1>1, <1>3, <2>1, <2>6
<1> QED BY <1>2, <1>3

LEMMA FindsOpen ==
  ASSUME LiveFacts
  PROVE  IF Live!Open = {} THEN Live!OpenRow = None ELSE Live!OpenRow \in Live!Open
<1>1. \A i, j \in Live!Open : i = j
  BY DEF LiveFacts, LiveTypes, Apart, Live!Open
<1>2. CASE Live!Open # {}
  <2>1. PICK i \in Live!Open : TRUE
    BY <1>2
  <2>2. \A j \in Live!Open : j = i /\ j \in Nat /\ Live!Started[j] = Live!Started[i]
    BY <1>1 DEF Live!Open, LiveFacts, LiveTypes
  <2>3. \E k \in Live!Open : \A j \in Live!Open : Live!Started[j] < Live!Started[k] \/ (Live!Started[j] = Live!Started[k] /\ j <= k)
    BY <2>1, <2>2
  <2> QED BY <1>2, <2>3 DEF Live!OpenRow, Live!Last
<1> QED BY <1>2 DEF Live!OpenRow, Live!Last

LEMMA InitLive == Live!Init => LiveInv
<1> SUFFICES ASSUME Live!Init PROVE LiveFacts
  BY DEF LiveInv
<1>1. broadcasts = <<>> /\ clock = 0 /\ raced = FALSE /\ watch = [w \in Live!Task |-> Live!Resting]
  BY DEF Live!Init
<1>2. LiveTypes
  <2>1. Live!Resting \in Watching
    BY DEF Live!Resting, Watching
  <2>2. broadcasts \in Seq(Times)
    BY <1>1
  <2> QED BY <1>1, <2>1, <2>2 DEF LiveTypes
<1>3. \A w \in Live!Task : ~ Observing(w)
  BY <1>1 DEF Observing, Live!Resting
<1> QED BY <1>1, <1>2, <1>3 DEF LiveFacts, Alone, Apart, BegunBy

\* A step of the world, and one that only begins an observation, leave what was found.
LEMMA QuietKeeps ==
  ASSUME LiveFacts, broadcasts' = broadcasts, raced' = raced, clock' \in Nat, clock <= clock',
         watch' \in [Live!Task -> Watching],
         \A w \in Live!Task : Observing(w)' => Observing(w) /\ watch'[w] = watch[w]
  PROVE  LiveFacts'
<1>1. LiveTypes' /\ Alone' /\ Apart'
  BY DEF LiveFacts, LiveTypes, Alone, Apart
<1>2. BegunBy(clock)'
  <2> SUFFICES ASSUME NEW i \in DOMAIN broadcasts PROVE broadcasts[i].started <= clock'
    BY DEF BegunBy
  <2>1. broadcasts[i] \in Times /\ broadcasts[i].started <= clock /\ clock \in Nat
    BY DEF LiveFacts, LiveTypes, BegunBy
  <2> QED BY <2>1 DEF Times
<1>3. ASSUME NEW w \in Live!Task, Observing(w)' PROVE Found(w)'
  <2>1. watch'[w] = watch[w] /\ Found(w) /\ watch[w] \in Watching
    BY <1>3 DEF LiveFacts, LiveTypes
  <2>2. watch[w].at \in Nat
    BY <2>1 DEF Watching
  <2>3. watch[w].at <= clock'
    BY <2>1, <2>2 DEF Found, LiveFacts, LiveTypes
  <2> QED BY <2>1, <2>3 DEF Found, BegunBy, Live!Open
<1> QED BY <1>1, <1>2, <1>3 DEF LiveFacts

\* A look-up leaves all broadcasts, and moves only the task that makes it.
LEMMA LookKeeps ==
  ASSUME LiveFacts, NEW w \in Live!Task, Observing(w), broadcasts' = broadcasts, raced' = raced, clock' = clock,
         watch' \in [Live!Task -> Watching], \A v \in Live!Task \ {w} : watch'[v] = watch[v],
         Observing(w)' => Found(w)'
  PROVE  LiveFacts'
<1>1. LiveTypes' /\ Apart' /\ BegunBy(clock)'
  BY DEF LiveFacts, LiveTypes, Apart, BegunBy
<1>2. \A v \in Live!Task : Observing(v)' => v = w
  BY DEF LiveFacts, Alone, Observing
<1> QED BY <1>1, <1>2 DEF LiveFacts, Alone

\* A task that wrote observes again from the stamp it just made, or rests.
LEMMA WriteKeeps ==
  ASSUME LiveFacts, NEW w \in Live!Task, Observing(w), Live!Observed(w), broadcasts' \in Seq(Times),
         raced' = raced, clock' = clock, Apart', BegunBy(clock)'
  PROVE  LiveFacts'
<1> USE DEF LiveFacts, LiveTypes
<1>1. watch' \in [Live!Task -> Watching] /\ \A v \in Live!Task \ {w} : watch'[v] = watch[v]
  <2> DEFINE next == IF watch[w].again
                     THEN [watch[w] EXCEPT !.pc = "stamped", !.at = clock, !.again = FALSE]
                     ELSE Live!Resting
  <2>1. watch' = [watch EXCEPT ![w] = next]
    BY DEF Live!Observed, Live!Rest
  <2>2. next \in Watching
    BY DEF Live!Resting, Watching
  <2> HIDE DEF next
  <2> QED BY <2>1, <2>2
<1>2. Observing(w)' => watch'[w].pc = "stamped" /\ watch'[w].at = clock
  <2>1. watch[w] \in Watching
    OBVIOUS
  <2> QED BY <2>1 DEF Live!Observed, Live!Rest, Live!Resting, Watching, Observing
<1>3. \A v \in Live!Task : Observing(v)' => v = w
  BY <1>1 DEF Alone, Observing
<1>4. Observing(w)' => Found(w)'
  BY <1>2 DEF Found, BegunBy
<1> QED BY <1>1, <1>3, <1>4 DEF Alone

LEMMA RowsTyped ==
  ASSUME LiveFacts, NEW i \in DOMAIN broadcasts
  PROVE  /\ broadcasts[i] \in Times /\ i \in Nat
         /\ broadcasts[i].started \in Nat /\ broadcasts[i].seen \in Nat
         /\ i \notin Live!Open => broadcasts[i].ended \in Nat
         /\ i \in Live!Open => i = Len(broadcasts)
<1>1. broadcasts[i] \in Times /\ i \in Nat
  BY DEF LiveFacts, LiveTypes
<1>2. ASSUME i \in Live!Open PROVE i = Len(broadcasts)
  <2>1. i \in 1 .. Len(broadcasts) /\ Len(broadcasts) \in DOMAIN broadcasts /\ Len(broadcasts) \in Nat
    BY DEF LiveFacts, LiveTypes
  <2>2. ~ (i < Len(broadcasts))
    BY <1>2, <2>1 DEF LiveFacts, Apart, Live!Open
  <2> QED BY <2>1, <2>2
<1> QED BY <1>1, <1>2 DEF Times, Live!Open

LEMMA StampKeeps == ASSUME LiveFacts, NEW w \in Live!Task, Live!UpdateModelStatus(w) PROVE LiveInv'
<1> SUFFICES ASSUME raced' = FALSE PROVE LiveFacts'
  BY DEF LiveInv, Live!UpdateModelStatus, LiveFacts, LiveTypes
<1>1. /\ broadcasts' = broadcasts /\ clock' = clock /\ raced' = raced
      /\ \A v \in Live!Task \ {w} : ~ Observing(v)
  BY DEF Live!UpdateModelStatus, Observing, Live!World, LiveFacts, LiveTypes
<1> DEFINE next == [watch[w] EXCEPT !.pc = "stamped", !.at = clock]
<1>2. watch' = [watch EXCEPT ![w] = next] /\ next \in Watching
  BY DEF Live!UpdateModelStatus, LiveFacts, LiveTypes, Watching
<1>3. next.pc = "stamped" /\ next.at = clock
  BY DEF LiveFacts, LiveTypes, Watching
<1> HIDE DEF next
<1>4. /\ watch' \in [Live!Task -> Watching] /\ watch'[w] = next
      /\ \A v \in Live!Task \ {w} : watch'[v] = watch[v]
  BY <1>2 DEF LiveFacts, LiveTypes
<1>5. LiveTypes' /\ Apart' /\ BegunBy(clock)'
  BY <1>1, <1>4 DEF LiveFacts, LiveTypes, Apart, BegunBy
<1>6. \A v \in Live!Task : Observing(v)' => v = w
  BY <1>1, <1>4 DEF Observing
<1>7. Found(w)'
  BY <1>1, <1>3, <1>4 DEF Found, LiveFacts, LiveTypes, BegunBy
<1> QED BY <1>5, <1>6, <1>7 DEF LiveFacts, Alone

LEMMA LooksKeep ==
  ASSUME LiveFacts, NEW w \in Live!Task, Live!LookForOpen(w) \/ Live!LookForClosed(w)
  PROVE  LiveFacts'
<1> DEFINE last == Live!Last(Live!Closed, Live!Ended)
           opened == [watch[w] EXCEPT !.pc = "open", !.row = Live!OpenRow, !.read = Live!Field(Live!OpenRow, "seen")]
           found == [watch[w] EXCEPT !.pc = "closed", !.row = last, !.read = Live!Field(last, "ended")]
<1>1. /\ broadcasts' = broadcasts /\ clock' = clock /\ raced' = raced /\ Observing(w) /\ Found(w)
      /\ watch[w] \in Watching
  BY DEF Live!LookForOpen, Live!LookForClosed, Live!World, Observing, LiveFacts, LiveTypes
<1>2. CASE Live!LookForOpen(w)
  <2>1. /\ opened \in Watching
        /\ opened.pc = "open" /\ opened.at = watch[w].at /\ opened.row = Live!OpenRow
        /\ Live!OpenRow # None => opened.read = broadcasts[Live!OpenRow].seen
    <3>1. Live!OpenRow \in Nat \cup {None} /\ Live!Field(Live!OpenRow, "seen") \in Nat \cup {None}
      <4>1. CASE Live!Open = {}
        BY <4>1, FindsOpen DEF Live!Field
      <4>2. CASE Live!Open # {}
        <5>1. Live!OpenRow \in DOMAIN broadcasts
          BY <4>2, FindsOpen DEF Live!Open
        <5> QED BY <5>1, RowsTyped DEF Live!Field
      <4> QED BY <4>1, <4>2
    <3> QED BY <1>1, <3>1 DEF Watching, Live!Field
  <2>2. watch' = [watch EXCEPT ![w] = opened]
    BY <1>2 DEF Live!LookForOpen
  <2> HIDE DEF opened
  <2>3. /\ watch' \in [Live!Task -> Watching] /\ watch'[w] = opened
        /\ \A v \in Live!Task \ {w} : watch'[v] = watch[v]
    BY <2>1, <2>2 DEF LiveFacts, LiveTypes
  <2>4. Found(w)'
    <3>1. \/ Live!OpenRow = None /\ Live!Open = {}
          \/ Live!OpenRow \in Live!Open /\ Live!OpenRow # None
      BY FindsOpen, LiveHolds DEF Live!LiveAssumption, Live!Open, LiveFacts, LiveTypes
    <3> QED BY <1>1, <2>1, <2>3, <3>1 DEF Found, BegunBy, Live!Open
  <2> QED BY <1>1, <2>3, <2>4, LookKeeps
<1>3. CASE Live!LookForClosed(w)
  <2>1. Live!Open = {}
    <3>1. watch[w].pc = "open" /\ watch[w].row = None
      BY <1>3 DEF Live!LookForClosed
    <3>2. None \notin Live!Open
      BY LiveHolds DEF Live!LiveAssumption, Live!Open, LiveFacts, LiveTypes
    <3> QED BY <1>1, <3>1, <3>2 DEF Found
  <2>2. \/ broadcasts = <<>> /\ last = None
        \/ broadcasts # <<>> /\ last = Len(broadcasts) /\ Len(broadcasts) \in DOMAIN broadcasts /\ last # None
    <3>1. broadcasts # <<>> => Len(broadcasts) # None
      BY LiveHolds DEF Live!LiveAssumption, LiveFacts, LiveTypes
    <3> QED BY <2>1, <3>1, FindsLastClosed
  <2> HIDE DEF last
  <2>3. /\ found \in Watching
        /\ found.pc = "closed" /\ found.at = watch[w].at /\ found.row = last
        /\ last # None => found.read = broadcasts[last].ended
    <3>1. last \in Nat \cup {None} /\ Live!Field(last, "ended") \in Nat \cup {None}
      BY <2>1, <2>2, RowsTyped DEF Live!Field
    <3> QED BY <1>1, <3>1 DEF Watching, Live!Field
  <2>4. watch' = [watch EXCEPT ![w] = found]
    BY <1>3 DEF Live!LookForClosed, last
  <2> HIDE DEF found
  <2>5. /\ watch' \in [Live!Task -> Watching] /\ watch'[w] = found
        /\ \A v \in Live!Task \ {w} : watch'[v] = watch[v]
    BY <2>3, <2>4 DEF LiveFacts, LiveTypes
  <2>6. Found(w)'
    BY <1>1, <2>1, <2>2, <2>3, <2>5 DEF Found, BegunBy, Live!Open
  <2> QED BY <1>1, <2>5, <2>6, LookKeeps
<1> QED BY <1>2, <1>3

\* Only the last row is open, and it began before the stamp: its end can be set and taken away.
LEMMA LastRowKeeps ==
  ASSUME LiveFacts, NEW k \in DOMAIN broadcasts, k = Len(broadcasts), broadcasts' \in Seq(Times), clock' = clock,
         Len(broadcasts') = Len(broadcasts), \A i \in DOMAIN broadcasts : i # k => broadcasts'[i] = broadcasts[i],
         broadcasts'[k].started = broadcasts[k].started, broadcasts'[k].started <= broadcasts'[k].seen,
         broadcasts'[k].ended # None => broadcasts'[k].started <= broadcasts'[k].ended
  PROVE  Apart' /\ BegunBy(clock)'
<1>1. DOMAIN broadcasts' = DOMAIN broadcasts /\ DOMAIN broadcasts = 1 .. Len(broadcasts)
  BY DEF LiveFacts, LiveTypes
<1>2. BegunBy(clock)'
  BY <1>1 DEF LiveFacts, BegunBy
<1>3. \A i \in DOMAIN broadcasts' : /\ broadcasts'[i].started <= broadcasts'[i].seen
                                    /\ broadcasts'[i].ended # None => broadcasts'[i].started <= broadcasts'[i].ended
  BY <1>1 DEF LiveFacts, Apart
<1>4. ASSUME NEW i \in DOMAIN broadcasts', NEW j \in DOMAIN broadcasts', i < j
      PROVE  broadcasts'[i].ended # None /\ broadcasts'[j].started > broadcasts'[i].ended + Gap
  <2>1. i \in DOMAIN broadcasts /\ j \in DOMAIN broadcasts /\ i # k
    BY <1>1, <1>4
  <2>2. broadcasts'[i] = broadcasts[i] /\ broadcasts'[j].started = broadcasts[j].started
    BY <2>1
  <2> QED BY <1>4, <2>1, <2>2 DEF LiveFacts, Apart
<1> QED BY <1>2, <1>3, <1>4 DEF Apart

LEMMA WritesKeep ==
  ASSUME LiveFacts, NEW w \in Live!Task, Live!SeeOpen(w) \/ Live!Reopen(w) \/ Live!Insert(w) \/ Live!Close(w)
  PROVE  LiveFacts'
<1> DEFINE at == watch[w].at
           k == watch[w].row
<1>1. /\ clock' = clock /\ raced' = raced /\ Observing(w) /\ Live!Observed(w) /\ Found(w)
      /\ watch[w] \in Watching /\ broadcasts \in Seq(Times) /\ clock \in Nat
  BY DEF Live!SeeOpen, Live!Reopen, Live!Insert, Live!Close, Live!World, Observing,
     LiveFacts, LiveTypes
<1>2. at \in Nat /\ at <= clock /\ BegunBy(at)
  BY <1>1 DEF Found, Watching
<1>3. ASSUME broadcasts' = broadcasts PROVE LiveFacts'
  <2>1. Apart' /\ BegunBy(clock)' /\ broadcasts' \in Seq(Times)
    BY <1>1, <1>3 DEF LiveFacts, Apart, BegunBy
  <2> QED BY <1>1, <2>1, WriteKeeps
<1>4. ASSUME NEW new \in Times, k \in DOMAIN broadcasts, k = Len(broadcasts), broadcasts' = [broadcasts EXCEPT ![k] = new],
             new.started = broadcasts[k].started, new.started <= new.seen,
             new.ended # None => new.started <= new.ended
      PROVE  LiveFacts'
  <2>1. /\ broadcasts' \in Seq(Times) /\ Len(broadcasts') = Len(broadcasts) /\ broadcasts'[k] = new
        /\ \A i \in DOMAIN broadcasts : i # k => broadcasts'[i] = broadcasts[i]
    BY <1>1, <1>4
  <2>2. Apart' /\ BegunBy(clock)'
    BY <1>1, <1>4, <2>1, LastRowKeeps
  <2> QED BY <1>1, <2>1, <2>2, WriteKeeps
<1>5. CASE Live!SeeOpen(w)
  <2>1. k \in Live!Open /\ k \in DOMAIN broadcasts /\ k = Len(broadcasts)
    <3>1. k \in Live!Open
      BY <1>1, <1>5 DEF Live!SeeOpen, Found
    <3> QED BY <3>1, RowsTyped DEF Live!Open
  <2> DEFINE new == [broadcasts[k] EXCEPT !.seen = Live!LaterOf(@, at)]
  <2>2. broadcasts' = [broadcasts EXCEPT ![k] = new]
    BY <1>5 DEF Live!SeeOpen
  <2>3. /\ broadcasts[k] \in Times /\ broadcasts[k].started <= broadcasts[k].seen /\ broadcasts[k].ended = None
        /\ broadcasts[k].started \in Nat /\ broadcasts[k].seen \in Nat
    BY <2>1, RowsTyped DEF LiveFacts, Apart, Live!Open
  <2>4. /\ new \in Times /\ new.started = broadcasts[k].started /\ new.ended = None
        /\ new.started <= new.seen
    BY <1>2, <2>3 DEF Times, Live!LaterOf
  <2> HIDE DEF new
  <2> QED BY <1>4, <2>1, <2>2, <2>4
<1>6. CASE Live!Reopen(w)
  <2>1. k \in DOMAIN broadcasts /\ k = Len(broadcasts)
    <3>1. watch[w].pc = "closed" /\ k # None
      BY <1>6 DEF Live!Reopen, Live!Reopens
    <3> QED BY <1>1, <3>1 DEF Found
  <2> DEFINE new == [[broadcasts[k] EXCEPT !.ended = None] EXCEPT !.seen = at]
  <2>2. broadcasts' = [broadcasts EXCEPT ![k] = new]
    BY <1>6, <2>1, <1>1 DEF Live!Reopen
  <2>3. /\ broadcasts[k] \in Times /\ broadcasts[k].started \in Nat /\ broadcasts[k].started <= at
    BY <1>2, <2>1, RowsTyped DEF BegunBy
  <2>4. /\ new \in Times /\ new.started = broadcasts[k].started /\ new.ended = None
        /\ new.started <= new.seen
    BY <1>2, <2>3 DEF Times
  <2> HIDE DEF new
  <2> QED BY <1>4, <2>1, <2>2, <2>4
<1>7. CASE Live!Close(w)
  <2>1. CASE k = None
    BY <1>3, <1>7, <2>1 DEF Live!Close
  <2>2. CASE k # None
    <3>1. k \in Live!Open /\ k \in DOMAIN broadcasts /\ k = Len(broadcasts) /\ watch[w].read = broadcasts[k].seen
      <4>1. k \in Live!Open /\ watch[w].read = broadcasts[k].seen
        BY <1>1, <1>7, <2>2 DEF Live!Close, Found
      <4> QED BY <4>1, RowsTyped DEF Live!Open
    <3> DEFINE new == [broadcasts[k] EXCEPT !.ended = Live!SoonerOf(watch[w].read, at)]
    <3>2. broadcasts' = [broadcasts EXCEPT ![k] = new]
      BY <1>7, <2>2 DEF Live!Close
    <3>3. /\ broadcasts[k] \in Times /\ broadcasts[k].started <= broadcasts[k].seen /\ broadcasts[k].started <= at
          /\ broadcasts[k].started \in Nat /\ broadcasts[k].seen \in Nat
      BY <1>2, <3>1, RowsTyped DEF LiveFacts, Apart, BegunBy
    <3>4. /\ new \in Times /\ new.started = broadcasts[k].started /\ new.started <= new.ended
          /\ new.started <= new.seen
      BY <1>2, <3>1, <3>3 DEF Times, Live!SoonerOf
    <3> HIDE DEF new
    <3> QED BY <1>4, <3>1, <3>2, <3>4
  <2> QED BY <2>1, <2>2
<1>8. CASE Live!Insert(w)
  <2>1. CASE \E i \in DOMAIN broadcasts : broadcasts[i].started = at
    BY <1>3, <1>8, <2>1 DEF Live!Insert
  <2>2. CASE ~ \E i \in DOMAIN broadcasts : broadcasts[i].started = at
    <3> DEFINE n == Len(broadcasts)
               new == [started |-> at, ended |-> None, seen |-> at]
    <3>1. broadcasts' = Append(broadcasts, new) /\ new \in Times
      BY <1>2, <1>8, <2>2 DEF Live!Insert, Times
    <3>2. /\ broadcasts' \in Seq(Times) /\ DOMAIN broadcasts' = 1 .. (n + 1) /\ broadcasts'[n + 1] = new
          /\ DOMAIN broadcasts = 1 .. n /\ n \in Nat
          /\ \A i \in DOMAIN broadcasts : broadcasts'[i] = broadcasts[i]
      <4> HIDE DEF new
      <4> QED BY <1>1, <3>1
    <3>3. new.started = at /\ new.seen = at /\ new.ended = None
      OBVIOUS
    <3>4. \A i \in DOMAIN broadcasts : broadcasts[i].ended # None /\ at > broadcasts[i].ended + Gap
      <4> SUFFICES ASSUME NEW i \in DOMAIN broadcasts
                   PROVE  broadcasts[i].ended # None /\ at > broadcasts[i].ended + Gap
        OBVIOUS
      <4>1. /\ Live!Open = {} /\ broadcasts # <<>> /\ k = n /\ watch[w].read = broadcasts[n].ended /\ k # None
        <5>1. watch[w].pc = "closed" /\ broadcasts # <<>>
          BY <1>8, <3>2 DEF Live!Insert
        <5> QED BY <1>1, <3>2, <5>1, LiveHolds DEF Found, Live!LiveAssumption
      <4>2. /\ n \in DOMAIN broadcasts /\ broadcasts[n].ended \in Nat /\ broadcasts[i].ended \in Nat
            /\ broadcasts[n].started \in Nat
        BY <3>2, <4>1, RowsTyped
      <4>3. at > broadcasts[n].ended + Gap
        BY <1>2, <1>8, <4>1, <4>2, LiveHolds DEF Live!Insert, Live!Reopens, Live!WithinGap,
           Live!LiveAssumption
      <4>4. i = n \/ broadcasts[n].started > broadcasts[i].ended + Gap
        BY <3>2, <4>2 DEF LiveFacts, Apart
      <4>5. broadcasts[n].started <= broadcasts[n].ended
        BY <4>2, LiveHolds DEF LiveFacts, Apart, Live!LiveAssumption
      <4>6. broadcasts[i].ended # None
        BY <4>2, LiveHolds DEF Live!LiveAssumption
      <4> QED BY <1>2, <4>2, <4>3, <4>4, <4>5, <4>6, LiveHolds DEF Live!LiveAssumption
    <3> HIDE DEF n, new
    <3>5. BegunBy(clock)'
      BY <1>1, <1>2, <3>2, <3>3 DEF BegunBy, LiveFacts
    <3>6. \A i \in DOMAIN broadcasts' : /\ broadcasts'[i].started <= broadcasts'[i].seen
                                        /\ broadcasts'[i].ended # None => broadcasts'[i].started <= broadcasts'[i].ended
      BY <1>2, <3>2, <3>3 DEF LiveFacts, Apart
    <3>7. ASSUME NEW i \in DOMAIN broadcasts', NEW j \in DOMAIN broadcasts', i < j
          PROVE  broadcasts'[i].ended # None /\ broadcasts'[j].started > broadcasts'[i].ended + Gap
      <4>1. i \in DOMAIN broadcasts /\ broadcasts'[i] = broadcasts[i]
        BY <3>2, <3>7
      <4>2. CASE j = n + 1
        BY <3>2, <3>3, <3>4, <4>1, <4>2
      <4>3. CASE j # n + 1
        BY <3>2, <3>7, <4>1, <4>3 DEF LiveFacts, Apart
      <4> QED BY <4>2, <4>3
    <3> QED BY <1>1, <3>2, <3>5, <3>6, <3>7, WriteKeeps DEF Apart
  <2> QED BY <2>1, <2>2
<1> QED BY <1>5, <1>6, <1>7, <1>8

LEMMA LiveStep == LiveInv /\ [Live!Next]_Live!vars => LiveInv'
<1> SUFFICES ASSUME LiveInv, [Live!Next]_Live!vars PROVE LiveInv'
  OBVIOUS
<1>1. CASE raced
  <2>1. raced' = raced \/ \E w \in Live!Task : Live!UpdateModelStatus(w)
    BY DEF Live!Next, Live!vars, Live!Tick, Live!Flip, Live!MonitorPoll, Live!AutoRefresh,
       Live!Observe, Live!LookForOpen, Live!SeeOpen,
           Live!LookForClosed, Live!Reopen, Live!Insert, Live!Close
  <2> QED BY <1>1, <2>1 DEF LiveInv, Live!UpdateModelStatus
<1>2. CASE LiveFacts
  <2>1. ASSUME Live!Tick \/ Live!Flip \/ UNCHANGED Live!vars PROVE LiveFacts'
    <3>1. /\ broadcasts' = broadcasts /\ raced' = raced /\ watch' = watch
          /\ clock \in Nat /\ clock' \in Nat /\ clock <= clock' /\ watch \in [Live!Task -> Watching]
      BY <1>2, <2>1 DEF Live!Tick, Live!Flip, Live!vars, LiveFacts, LiveTypes
    <3>2. \A w \in Live!Task : Observing(w)' => Observing(w) /\ watch'[w] = watch[w]
      BY <3>1 DEF Observing
    <3> QED BY <1>2, <3>1, <3>2, QuietKeeps
  <2>2. ASSUME NEW w \in Live!Task, NEW next \in Watching, next.pc = "polled",
               watch' = [watch EXCEPT ![w] = next], UNCHANGED <<clock, broadcasts, raced>>
        PROVE  LiveFacts'
    <3>1. /\ watch' \in [Live!Task -> Watching] /\ watch'[w] = next
          /\ \A v \in Live!Task \ {w} : watch'[v] = watch[v]
      BY <1>2, <2>2 DEF LiveFacts, LiveTypes
    <3>2. \A v \in Live!Task : Observing(v)' => Observing(v) /\ watch'[v] = watch[v]
      BY <2>2, <3>1 DEF Observing
    <3>3. clock \in Nat /\ clock' = clock /\ clock <= clock' /\ broadcasts' = broadcasts /\ raced' = raced
      BY <1>2, <2>2 DEF LiveFacts, LiveTypes
    <3> QED BY <1>2, <3>1, <3>2, <3>3, QuietKeeps
  <2>3. CASE Live!MonitorPoll
    <3>1. PICK online \in BOOLEAN :
            watch' = [watch EXCEPT !["monitor"] =
                        [Live!Resting EXCEPT !.pc = "polled", !.online = online, !.again = Aliased]]
      BY <2>3 DEF Live!MonitorPoll
    <3> DEFINE next == [Live!Resting EXCEPT !.pc = "polled", !.online = online, !.again = Aliased]
    <3>2. next \in Watching /\ next.pc = "polled"
      BY LiveHolds DEF Live!Resting, Watching, Live!LiveAssumption
    <3>3. watch' = [watch EXCEPT !["monitor"] = next] /\ UNCHANGED <<clock, broadcasts, raced>>
      BY <2>3, <3>1 DEF Live!MonitorPoll, Live!World
    <3> HIDE DEF next
    <3> QED BY <2>2, <3>2, <3>3 DEF Live!Task, LiveInv
  <2>4. CASE Live!AutoRefresh
    <3> DEFINE next == [Live!Resting EXCEPT !.pc = "polled", !.online = TRUE]
    <3>1. next \in Watching /\ next.pc = "polled"
      BY DEF Live!Resting, Watching
    <3>2. watch' = [watch EXCEPT !["auto"] = next] /\ UNCHANGED <<clock, broadcasts, raced>>
      BY <2>4 DEF Live!AutoRefresh, Live!World
    <3> HIDE DEF next
    <3> QED BY <2>2, <3>1, <3>2 DEF Live!Task, LiveInv
  <2>5. ASSUME NEW w \in Live!Task, Live!Observe(w) PROVE LiveInv'
    BY <1>2, <2>5, StampKeeps, LooksKeep, WritesKeep DEF Live!Observe, LiveInv
  <2> QED BY <1>2, <2>1, <2>3, <2>4, <2>5 DEF Live!Next, LiveInv
<1> QED BY <1>1, <1>2 DEF LiveInv

\* The rows of a channel's broadcasts lie further apart than the gap, each ends no sooner
\* than it began, and only the last is open, as long as no two observations of the channel
\* overlapped: whatever was polled, however old it was, and whatever a row was reopened for.
THEOREM BroadcastsApart == Live!Spec => []BroadcastsAreApart
<1>1. LiveInv => BroadcastsAreApart
  <2> SUFFICES ASSUME LiveFacts PROVE BroadcastsAreApart
    BY DEF LiveInv, BroadcastsAreApart, Live!BroadcastsAreApart
  <2>1. \A i \in DOMAIN broadcasts : broadcasts[i].ended # None => i \in Live!Closed
    BY DEF Live!Closed, Live!Open
  <2>2. \A i \in Live!Closed : i \in DOMAIN broadcasts /\ broadcasts[i].ended # None
    BY DEF Live!Closed, Live!Open
  <2> QED BY <2>1, <2>2 DEF LiveFacts, Apart, BroadcastsAreApart, Live!BroadcastsAreApart
<1> QED BY InitLive, LiveStep, <1>1, PTL DEF Live!Spec
=============================================================================
