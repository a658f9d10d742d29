-------------------------- MODULE RecordingLibrary --------------------------
(***************************************************************************)
(* The library of one profile: for each recording a TS, its MP4, the       *)
(* hidden output of a conversion underway and a row of the database.       *)
(* Everybody works on them without a lock: the conversion task, the        *)
(* monitor's update of the rows, the hourly retention, the handlers that   *)
(* delete or retry, and the index written when a session is stopped.       *)
(*                                                                         *)
(* A step is the code between two awaits, with the transaction it waited   *)
(* for.  What an actor read earlier is in its record.  A file's name never *)
(* changes, so a recording stands for its path.  Thumbnails, sizes and     *)
(* durations are left out; short are the recordings the code measures as   *)
(* too short to keep.                                                      *)
(***************************************************************************)
EXTENDS Naturals, FiniteSets

CONSTANTS
  File,         \* recordings of the profile
  MaxAttempts,  \* MAX_CONVERSION_ATTEMPTS
  MaxOps,       \* bounds handlers' calls, changes of a setting and restarts together
  None          \* no row, no file

LibraryAssumption ==
  /\ MaxAttempts \in Nat \ {0} /\ MaxOps \in Nat

VARIABLES
  short,     \* recordings below MIN_RECORDING_SECONDS or MIN_RECORDING_BYTES; never changes
  phase,     \* where the writer of a recording is: "recording", "closed", "library"
  ts, mp4, temp,  \* the files in the library: a set, the MP4's state, the hidden output's
  calm,      \* whose TS has not been modified for a while (120 s, 180 s)
  old,       \* recordings past their retention
  row,       \* the row of each recording
  settings,  \* auto_convert and keep_ts
  conv, cache, sweep, deletion, indexing,  \* the actors
  ops,
  dropped,   \* recordings the user or the retention wanted gone
  erased,    \* recordings whose deletion from the Media page removed the files
  escaped    \* those of them that ffmpeg had open without an output to remove

disk == <<ts, mp4, temp>>
world == <<short, phase, calm, old>>
history == <<dropped, erased, escaped>>
vars == <<short, phase, ts, mp4, temp, calm, old, row, settings, conv, cache, sweep,
          deletion, indexing, ops, dropped, erased, escaped>>

Row == [converted : BOOLEAN, attempts : 0 .. MaxAttempts,
        mp4 : BOOLEAN, staged : BOOLEAN]

TypeOK ==
  /\ phase \in [File -> {"recording", "closed", "library"}]
  /\ short \subseteq File /\ ts \subseteq File /\ calm \cup old \subseteq File /\ indexing \subseteq File
  /\ mp4 \in [File -> {"none", "torn", "good"}]
  /\ temp \in [File -> {"none", "work", "left"}]
  /\ row \in [File -> Row \cup {None}]
  /\ settings \in [auto : BOOLEAN, keep : BOOLEAN]
  /\ conv.file \in File \cup {None} /\ conv.todo \subseteq File
  /\ cache.file \in File \cup {None} /\ cache.todo \subseteq File
  /\ sweep.file \in File \cup {None} /\ sweep.todo \subseteq File
  /\ deletion.file \in File \cup {None}
  /\ dropped \subseteq File /\ escaped \subseteq erased /\ erased \subseteq File

NoRows == [f \in File |-> None]
ConvIdle == [pc |-> "idle", auto |-> FALSE, keep |-> FALSE, active |-> {},
             rows |-> NoRows, todo |-> {}, file |-> None]
CacheIdle == [pc |-> "idle", rows |-> NoRows, todo |-> {}, file |-> None]
SweepIdle == [pc |-> "idle", todo |-> {}, file |-> None,
              reserved |-> {}, handled |-> {}]
DeletionIdle == [pc |-> "idle", file |-> None]

\* Recordings of an earlier version start with a TS and a truncated MP4 beside it.
Init ==
  /\ short \in SUBSET File
  /\ ts \in SUBSET (File \ short)
  /\ phase = [f \in File |-> IF f \in ts THEN "library" ELSE "recording"]
  /\ mp4 = [f \in File |-> IF f \in ts THEN "torn" ELSE "none"]
  /\ temp = [f \in File |-> "none"]
  /\ calm = {} /\ old = {}
  /\ row = NoRows
  /\ settings = [auto |-> TRUE, keep |-> FALSE]
  /\ conv = [ConvIdle EXCEPT !.pc = "boot"]
  /\ cache = CacheIdle /\ sweep = SweepIdle
  /\ deletion = DeletionIdle /\ indexing = {}
  /\ ops = 0
  /\ dropped = {} /\ erased = {} /\ escaped = {}

-----------------------------------------------------------------------------
(* The transactions on the table of recordings. *)

\* add_or_update_recording: the columns that are not given keep their value,
\* but is_converted and the path are always written.
Upsert(f, converted, withMp4, staged) ==
  row' = [row EXCEPT ![f] =
            [converted |-> converted,
             attempts |-> IF row[f] = None THEN 0 ELSE row[f].attempts,
             mp4 |-> withMp4 \/ (row[f] # None /\ row[f].mp4),
             staged |-> staged]]

DeleteRow(f) == row' = [row EXCEPT ![f] = None]

\* An UPDATE of a row that is gone changes nothing.
AttemptsForgotten(f, n) == row' = row  \* mutant
SetAttempts(f, n) ==
  row' = IF row[f] = None THEN row ELSE [row EXCEPT ![f].attempts = n]

\* The path of the row names a file that exists.
HasSource(r, f) ==
  IF r.staged THEN phase[f] \in {"recording", "closed"} ELSE f \in ts
HasPaths(r, f) == HasSource(r, f) \/ r.mp4  \* mutant
HasFiles(r, f) == HasSource(r, f) \/ (r.mp4 /\ mp4[f] # "none")

-----------------------------------------------------------------------------
(* The writer, the promotion, time and the settings. *)

\* The session ends.  One that is stopped by the user is indexed from its
\* staging path once its duration has been probed.
Close(f) ==
  /\ phase[f] = "recording"
  /\ phase' = [phase EXCEPT ![f] = "closed"]
  /\ \/ indexing' = indexing
     \/ f \notin short /\ indexing' = indexing \cup {f}
  /\ UNCHANGED <<disk, short, calm, old, row, settings, conv, cache, sweep, deletion,
                 ops, history>>

IndexStopped(f) ==
  /\ f \in indexing
  /\ indexing' = indexing \ {f}
  /\ Upsert(f, FALSE, FALSE, TRUE)
  /\ UNCHANGED <<world, disk, settings, conv, cache, sweep, deletion, ops, history>>

\* The promotion moves a closed file into the library.
Promote(f) ==
  /\ phase[f] = "closed"
  /\ phase' = [phase EXCEPT ![f] = "library"]
  /\ ts' = ts \cup {f}
  /\ UNCHANGED <<mp4, temp, short, calm, old, row, settings, conv, cache, sweep, deletion,
                 indexing, ops, history>>

Rest(f) ==
  /\ f \in ts \ calm
  /\ calm' = calm \cup {f}
  /\ UNCHANGED <<short, phase, old, disk, row, settings, conv, cache, sweep, deletion,
                 indexing, ops, history>>

Expire(f) ==
  /\ phase[f] = "library" /\ f \in calm /\ f \notin old
  /\ old' = old \cup {f}
  /\ UNCHANGED <<short, phase, calm, disk, row, settings, conv, cache, sweep, deletion,
                 indexing, ops, history>>

ChangeSetting ==
  /\ ops < MaxOps /\ ops' = ops + 1
  /\ \E s \in {"auto", "keep"} : settings' = [settings EXCEPT ![s] = ~ @]
  /\ UNCHANGED <<world, disk, row, conv, cache, sweep, deletion, indexing,
                 history>>

-----------------------------------------------------------------------------
(* The conversion task. *)

ConvOthers == <<world, settings, cache, sweep, deletion, indexing, ops>>

\* On to the next file, and the rest of a pass given up by an exception.
ConvNext == conv' = [conv EXCEPT !.pc = "scan", !.todo = @ \ {conv.file},
                                 !.file = None]
ConvAbort == conv' = ConvIdle
ConvGo(pc) == conv' = [conv EXCEPT !.pc = pc]

\* _is_valid_existing_mp4 reads the container, because a crash of an earlier version
\* may have left a truncated one.
Mp4Exists(f) == mp4[f] # "none"  \* mutant
Mp4IsValid(f) == mp4[f] = "good"

\* A recording that failed too often is not tried again until the user says so.
Exhausted(existing) == existing # None /\ existing.attempts >= MaxAttempts

\* The TS is deleted once its MP4 is there, unless keep_ts is set.
UnlinkSource(f) == ts' = IF conv.keep THEN ts ELSE ts \ {f}

\* cleanup_stale_conversion_temps, of outputs that are old enough.
RemoveStaleTemps ==
  \E stale \in SUBSET {f \in File : temp[f] = "left" /\ phase[f] # "recording"} :
    temp' = [f \in File |-> IF f \in stale THEN "none" ELSE temp[f]]

\* The scan at startup gives every TS without a row one.
ConvBoot ==
  /\ conv.pc = "boot"
  /\ RemoveStaleTemps
  /\ conv' = [conv EXCEPT !.pc = "bootscan", !.todo = ts]
  /\ UNCHANGED <<ts, mp4, row, history, ConvOthers>>

ConvBootFile(f) ==
  /\ conv.pc = "bootscan" /\ f \in conv.todo
  /\ IF f \notin ts /\ row[f] = None
     THEN ConvAbort /\ UNCHANGED row
     ELSE /\ conv' = [conv EXCEPT !.todo = @ \ {f}]
          /\ IF row[f] = None THEN Upsert(f, FALSE, FALSE, FALSE) ELSE UNCHANGED row
  /\ UNCHANGED <<disk, history, ConvOthers>>

ConvBootEnd ==
  /\ conv.pc = "bootscan" /\ conv.todo = {}
  /\ ConvAbort
  /\ UNCHANGED <<disk, row, history, ConvOthers>>

\* Every two minutes, unless the storage policy pauses conversion: the settings
\* and the recordings underway are looked up once for the whole pass.
ConvBegin ==
  /\ conv.pc = "idle"
  /\ RemoveStaleTemps
  /\ conv' = [conv EXCEPT !.pc = "rows", !.auto = settings.auto, !.keep = settings.keep,
                          !.active = {f \in File : phase[f] = "recording"}]
  /\ UNCHANGED <<ts, mp4, row, history, ConvOthers>>

ConvRows ==
  /\ conv.pc = "rows"
  /\ conv' = [conv EXCEPT !.pc = "scan", !.rows = row, !.todo = ts]
  /\ UNCHANGED <<disk, row, history, ConvOthers>>

\* A file whose MP4 is missing or invalid waits until it is stable; the stat of
\* a TS that is gone ends the pass.
WhenStable(f) ==
  IF f \notin ts THEN ConvAbort
  ELSE IF f \notin calm THEN ConvNext
  ELSE ConvGo("measure")

ConvScan(f) ==
  /\ conv.pc = "scan" /\ f \in conv.todo
  /\ IF f \in conv.active
     THEN conv' = [conv EXCEPT !.todo = @ \ {f}]
     ELSE IF mp4[f] # "none"
     THEN conv' = [conv EXCEPT !.pc = "probe", !.file = f]
     ELSE IF f \notin ts THEN ConvAbort
     ELSE IF f \notin calm THEN conv' = [conv EXCEPT !.todo = @ \ {f}]
     ELSE conv' = [conv EXCEPT !.pc = "measure", !.file = f]
  /\ UNCHANGED <<disk, row, history, ConvOthers>>

\* _is_valid_existing_mp4 answers.  A valid MP4 is adopted; the row is the one
\* read at the start of the pass.
ConvProbe ==
  /\ conv.pc = "probe"
  /\ LET f == conv.file
         existing == conv.rows[f]
     IN IF ~ Mp4IsValid(f) THEN WhenStable(f) /\ UNCHANGED ts
        ELSE IF existing = None \/ existing.converted
        THEN UnlinkSource(f) /\ ConvNext
        ELSE /\ UNCHANGED ts
             /\ IF f \in ts THEN ConvGo("adopt") ELSE ConvAbort
  /\ UNCHANGED <<mp4, temp, row, history, ConvOthers>>

\* The row of a converted recording: adopted, or after its own conversion.
ConvRecord ==
  /\ conv.pc \in {"adopt", "record"}
  /\ Upsert(conv.file, TRUE, TRUE, FALSE)
  /\ ConvGo("recorded")
  /\ UNCHANGED <<disk, history, ConvOthers>>

ConvRecorded ==
  /\ conv.pc = "recorded"
  /\ UnlinkSource(conv.file)
  /\ ConvNext
  /\ UNCHANGED <<mp4, temp, row, history, ConvOthers>>

\* The duration has been probed: fragments go, files are indexed or converted.
ConvMeasure ==
  /\ conv.pc = "measure"
  /\ LET f == conv.file
         existing == conv.rows[f]
     IN IF f \in short THEN ts' = ts \ {f} /\ ConvGo("fragment")
        ELSE /\ UNCHANGED ts
             /\ IF ~ conv.auto
                THEN IF existing # None THEN ConvNext
                     ELSE IF f \in ts THEN ConvGo("index") ELSE ConvAbort
                ELSE IF Exhausted(existing) THEN ConvNext
                ELSE ConvGo("select")
  /\ UNCHANGED <<mp4, temp, row, history, ConvOthers>>

ConvFragment ==
  /\ conv.pc = "fragment"
  /\ DeleteRow(conv.file)
  /\ ConvNext
  /\ UNCHANGED <<disk, history, ConvOthers>>

ConvIndex ==
  /\ conv.pc = "index"
  /\ Upsert(conv.file, FALSE, FALSE, FALSE)
  /\ ConvNext
  /\ UNCHANGED <<disk, history, ConvOthers>>

\* The streams have been probed: ffmpeg opens its input, or fails without it.  It creates
\* the hidden output when it has read the streams, whatever became of the TS meanwhile.
Failed == IF conv.rows[conv.file] = None THEN "unlisted" ELSE "mark"

ConvStart ==
  /\ conv.pc = "select"
  /\ IF conv.file \in ts
     THEN ConvGo("opened")
     ELSE ConvGo(Failed)
  /\ UNCHANGED <<disk, row, history, ConvOthers>>

ConvCreate ==
  /\ conv.pc = "opened"
  /\ temp' = [temp EXCEPT ![conv.file] = "work"]
  /\ ConvGo("ffmpeg")
  /\ UNCHANGED <<ts, mp4, row, history, ConvOthers>>

\* ffmpeg ends: only an output that is still there replaces the MP4, at once.
ConvPublish ==
  /\ conv.pc = "ffmpeg" /\ temp[conv.file] = "work"
  /\ mp4' = [mp4 EXCEPT ![conv.file] = "good"]
  /\ temp' = [temp EXCEPT ![conv.file] = "none"]
  /\ ConvGo("published")
  /\ UNCHANGED <<ts, row, history, ConvOthers>>

ConvFail ==
  /\ conv.pc \in {"opened", "ffmpeg"}
  /\ temp' = [temp EXCEPT ![conv.file] = "none"]
  /\ ConvGo(Failed)
  /\ UNCHANGED <<ts, mp4, row, history, ConvOthers>>

ConvReset ==
  /\ conv.pc = "published"
  /\ LET existing == conv.rows[conv.file]
     IN IF existing # None /\ existing.attempts > 0
        THEN SetAttempts(conv.file, 0) ELSE UNCHANGED row
  /\ ConvGo("record")
  /\ UNCHANGED <<disk, history, ConvOthers>>

\* A failure is counted in a row, which is written first when there was none.
ConvUnlisted ==
  /\ conv.pc = "unlisted"
  /\ IF conv.file \in ts
     THEN Upsert(conv.file, FALSE, FALSE, FALSE) /\ ConvGo("mark")
     ELSE UNCHANGED row /\ ConvAbort
  /\ UNCHANGED <<disk, history, ConvOthers>>

ConvMark ==
  /\ conv.pc = "mark"
  /\ SetAttempts(conv.file, IF row[conv.file] = None THEN 0 ELSE row[conv.file].attempts + 1)
  /\ ConvNext
  /\ UNCHANGED <<disk, history, ConvOthers>>

ConvEnd ==
  /\ conv.pc = "scan" /\ conv.todo = {}
  /\ ConvAbort
  /\ UNCHANGED <<disk, row, history, ConvOthers>>

-----------------------------------------------------------------------------
(* The monitor's update of the rows of a profile. *)

CacheOthers == <<world, settings, conv, sweep, deletion, indexing, ops>>

\* The rows are read once; those whose files are gone are deleted one by one.
CacheBegin ==
  /\ cache.pc = "idle"
  /\ cache' = [cache EXCEPT !.pc = "purge", !.rows = row,
                            !.todo = {f \in File : row[f] # None}]
  /\ UNCHANGED <<disk, row, history, CacheOthers>>

CachePurge(f) ==
  /\ cache.pc = "purge" /\ f \in cache.todo
  /\ cache' = [cache EXCEPT !.todo = @ \ {f},
                            !.pc = IF HasFiles(cache.rows[f], f) THEN "purge" ELSE "orphan",
                            !.file = IF HasFiles(cache.rows[f], f) THEN None ELSE f]
  /\ UNCHANGED <<disk, row, history, CacheOthers>>

CacheOrphan ==
  /\ cache.pc = "orphan"
  /\ DeleteRow(cache.file)
  /\ cache' = [cache EXCEPT !.pc = "purge", !.file = None]
  /\ UNCHANGED <<disk, history, CacheOthers>>

CacheList ==
  /\ cache.pc = "purge" /\ cache.todo = {}
  /\ cache' = [CacheIdle EXCEPT !.pc = "scan", !.todo = ts]
  /\ UNCHANGED <<disk, row, history, CacheOthers>>

\* Its row is read: a fragment at rest is probed and deleted with everything that
\* bears its name; a TS that has vanished ends the pass.
CacheScan(f) ==
  /\ cache.pc = "scan" /\ f \in cache.todo
  /\ cache' = IF f \in ts
              THEN [cache EXCEPT !.pc = IF f \in short \cap calm THEN "short" ELSE "write",
                                 !.todo = @ \ {f}, !.file = f]
              ELSE CacheIdle
  /\ UNCHANGED <<disk, row, history, CacheOthers>>

CacheShort ==
  /\ cache.pc = "short"
  /\ ts' = ts \ {cache.file}
  /\ mp4' = [mp4 EXCEPT ![cache.file] = "none"]
  /\ cache' = [cache EXCEPT !.pc = "fragment"]
  /\ UNCHANGED <<temp, row, history, CacheOthers>>

CacheFragment ==
  /\ cache.pc = "fragment"
  /\ DeleteRow(cache.file)
  /\ cache' = [cache EXCEPT !.pc = "scan", !.file = None]
  /\ UNCHANGED <<disk, history, CacheOthers>>

\* Duration and thumbnail have been made: the row is written whatever happened
\* to the TS meanwhile, as one that is not converted.
CacheWrite ==
  /\ cache.pc = "write"
  /\ Upsert(cache.file, FALSE, FALSE, FALSE)
  /\ cache' = [cache EXCEPT !.pc = "scan", !.file = None]
  /\ UNCHANGED <<disk, history, CacheOthers>>

CacheEnd ==
  /\ cache.pc = "scan" /\ cache.todo = {}
  /\ cache' = CacheIdle
  /\ UNCHANGED <<disk, row, history, CacheOthers>>

-----------------------------------------------------------------------------
(* The hourly retention. *)

SweepOthers == <<world, settings, conv, cache, deletion, indexing, ops>>

SweepBegin ==
  /\ sweep.pc = "idle" /\ old # {}
  /\ sweep' = [SweepIdle EXCEPT !.pc = "rows",
                                !.todo = {f \in File : row[f] # None /\ ~ row[f].staged}]
  /\ UNCHANGED <<disk, row, history, SweepOthers>>

\* The rows that stay reserve their names; the files of the others go.
SweepRow(f) ==
  /\ sweep.pc = "rows" /\ f \in sweep.todo
  /\ IF f \in old
     THEN /\ ts' = ts \ {f}
          /\ mp4' = [mp4 EXCEPT ![f] = "none"]
          /\ dropped' = dropped \cup {f}
          /\ sweep' = [sweep EXCEPT !.pc = "row", !.file = f, !.todo = @ \ {f},
                                    !.handled = @ \cup {f}]
     ELSE /\ sweep' = [sweep EXCEPT !.todo = @ \ {f}, !.reserved = @ \cup {f}]
          /\ UNCHANGED <<ts, mp4, dropped>>
  /\ UNCHANGED <<temp, row, erased, escaped, SweepOthers>>

SweepDeleteRow ==
  /\ sweep.pc = "row"
  /\ DeleteRow(sweep.file)
  /\ sweep' = [sweep EXCEPT !.pc = "rows", !.file = None]
  /\ UNCHANGED <<disk, history, SweepOthers>>

\* Then the files that no row accounts for; the name of a hidden output is one of
\* its own.
SweepFiles ==
  /\ sweep.pc = "rows" /\ sweep.todo = {}
  /\ LET loose == old \ (sweep.handled \cup sweep.reserved)
     IN /\ ts' = ts \ loose
        /\ mp4' = [f \in File |-> IF f \in loose THEN "none" ELSE mp4[f]]
        /\ temp' = [f \in File |-> IF f \in old THEN "none" ELSE temp[f]]
        /\ dropped' = dropped \cup loose
  /\ sweep' = SweepIdle
  /\ UNCHANGED <<row, erased, escaped, SweepOthers>>

-----------------------------------------------------------------------------
(* The handlers.  The Mac's purge deletes in the same way as the Media page. *)

HandlerOthers == <<world, conv, cache, sweep, indexing>>

DeleteMedia(f) ==
  /\ deletion.pc = "idle" /\ ops < MaxOps /\ ops' = ops + 1
  /\ mp4[f] # "none" /\ phase[f] # "recording"
  /\ deletion' = [pc |-> "find", file |-> f]
  /\ UNCHANGED <<disk, row, settings, history, HandlerOthers>>

\* Deleting a video takes its hidden outputs with it, one being written included; not
\* one that ffmpeg, which has the TS open, is yet to create.
OutputsLeft(f) == temp  \* mutant
OutputsGone(f) == [temp EXCEPT ![f] = "none"]

\* The row is looked for by the MP4's path; TS, MP4 and hidden outputs go together.
DeleteMediaFiles ==
  /\ deletion.pc = "find"
  /\ LET f == deletion.file
     IN /\ ts' = ts \ {f}
        /\ mp4' = [mp4 EXCEPT ![f] = "none"]
        /\ temp' = OutputsGone(f)
        /\ dropped' = dropped \cup {f}
        /\ erased' = erased \cup {f}
        /\ escaped' = IF conv.pc = "opened" /\ conv.file = f THEN escaped \cup {f} ELSE escaped \ {f}
        /\ deletion' = IF row[f] # None /\ row[f].mp4
                       THEN [deletion EXCEPT !.pc = "row"] ELSE DeletionIdle
  /\ UNCHANGED <<row, settings, ops, HandlerOthers>>

\* DELETE /api/recordings knows the TS and the MP4 only.
DeleteRecording(f) ==
  /\ deletion.pc = "idle" /\ ops < MaxOps /\ ops' = ops + 1
  /\ phase[f] # "recording"
  /\ f \in ts \/ mp4[f] # "none" \/ row[f] # None
  /\ ts' = ts \ {f}
  /\ mp4' = [mp4 EXCEPT ![f] = "none"]
  /\ dropped' = dropped \cup {f}
  /\ deletion' = [pc |-> "row", file |-> f]
  /\ UNCHANGED <<temp, row, settings, erased, escaped, HandlerOthers>>

DeleteRecordingRow ==
  /\ deletion.pc = "row"
  /\ DeleteRow(deletion.file)
  /\ deletion' = DeletionIdle
  /\ UNCHANGED <<disk, settings, ops, history, HandlerOthers>>

\* A TS or a hidden output picked among the processing files.
DeleteProcessing(f) ==
  /\ ops < MaxOps /\ ops' = ops + 1
  /\ \/ f \in ts /\ ts' = ts \ {f} /\ dropped' = dropped \cup {f} /\ UNCHANGED temp
     \/ temp[f] # "none" /\ temp' = [temp EXCEPT ![f] = "none"] /\ UNCHANGED <<ts, dropped>>
  /\ UNCHANGED <<mp4, row, settings, erased, escaped, deletion, HandlerOthers>>

RetryConversion(f) ==
  /\ ops < MaxOps /\ ops' = ops + 1
  /\ row[f] # None /\ ~ row[f].converted /\ HasSource(row[f], f)
  /\ SetAttempts(f, 0)
  /\ UNCHANGED <<disk, settings, deletion, history, HandlerOthers>>

-----------------------------------------------------------------------------
\* A restart of the server forgets what everybody was doing.
Restart ==
  /\ ops < MaxOps /\ ops' = ops + 1
  /\ temp' = [f \in File |-> IF temp[f] = "work" THEN "left" ELSE temp[f]]
  /\ conv' = [ConvIdle EXCEPT !.pc = "boot"]
  /\ cache' = CacheIdle /\ sweep' = SweepIdle /\ deletion' = DeletionIdle
  /\ indexing' = {}
  /\ phase' = [f \in File |-> IF phase[f] = "recording" THEN "closed" ELSE phase[f]]
  /\ UNCHANGED <<short, ts, mp4, calm, old, row, settings, history>>

ConvStep ==
  \/ ConvBoot \/ (\E f \in File : ConvBootFile(f)) \/ ConvBootEnd
  \/ ConvBegin \/ ConvRows \/ (\E f \in File : ConvScan(f))
  \/ ConvProbe \/ ConvRecord \/ ConvRecorded \/ ConvMeasure \/ ConvFragment
  \/ ConvIndex \/ ConvStart \/ ConvCreate \/ ConvPublish \/ ConvFail \/ ConvReset
  \/ ConvUnlisted \/ ConvMark \/ ConvEnd

CacheStep ==
  \/ CacheBegin \/ (\E f \in File : CachePurge(f)) \/ CacheOrphan \/ CacheList
  \/ (\E f \in File : CacheScan(f)) \/ CacheShort \/ CacheFragment
  \/ CacheWrite \/ CacheEnd

SweepStep ==
  SweepBegin \/ (\E f \in File : SweepRow(f)) \/ SweepDeleteRow \/ SweepFiles

HandlerStep ==
  \E f \in File : DeleteMedia(f) \/ DeleteRecording(f) \/ DeleteProcessing(f)
                  \/ RetryConversion(f)

\* What a handler that was called, the storage and time do by themselves.
Underway ==
  \/ DeleteMediaFiles \/ DeleteRecordingRow
  \/ \E f \in File : IndexStopped(f) \/ Promote(f) \/ Rest(f)

Next ==
  \/ ConvStep \/ CacheStep \/ SweepStep \/ HandlerStep \/ Underway
  \/ (\E f \in File : Close(f) \/ Expire(f))
  \/ ChangeSetting \/ Restart

Spec == Init /\ [][Next]_vars

\* The tasks loop for ever, calls that were accepted go on, closed files are promoted.
FairSpec ==
  /\ Spec
  /\ WF_vars(ConvStep) /\ WF_vars(CacheStep) /\ WF_vars(SweepStep) /\ WF_vars(Underway)

-----------------------------------------------------------------------------
\* A recording that was long enough is never lost: until the user or the
\* retention wants it gone its TS or a complete MP4 is in the library, whichever
\* of the actors deletes a TS, and a conversion may be cut short at any time.
FootageKept ==
  \A f \in File \ (short \cup dropped) :
    phase[f] = "library" => f \in ts \/ mp4[f] = "good"

\* What was deleted on the Media page, or purged after the Mac confirmed it, does not come
\* back, even when its conversion was underway.  Only the deletion that comes between
\* ffmpeg's opening of the TS and its creation of the output lets the MP4 come back, never
\* the TS, and deleting that MP4 is for good.
ErasedStaysErased == \A f \in erased : f \notin ts /\ (mp4[f] = "none" \/ f \in escaped)

\* While conversion is on, no recording waits for ever: it is converted in the end, or its
\* attempts are used up.
EveryRecordingIsConverted ==
  \A f \in File :
    []<>(f \in ts \ short => \/ mp4[f] = "good" \/ f \in dropped
                             \/ ~ settings.auto
                             \/ row[f] # None /\ row[f].attempts = MaxAttempts)

\* A row whose files are gone does not stay: it is found and deleted.
GhostRowsGo ==
  \A f \in File :
    []<>~(row[f] # None /\ phase[f] = "library" /\ f \notin ts /\ mp4[f] = "none")

\* "prefer MP4, fall back to TS": a recording of which only the MP4 is left is listed in
\* the end, which takes a row that says it is converted.  The monitor writes rows it
\* began before the conversion ended, and no task looks at a recording without a TS.
ConvertedIsListed ==
  \A f \in File :
    row[f] # None /\ f \notin ts /\ mp4[f] = "good"
      ~> row[f] = None \/ row[f].converted \/ mp4[f] # "good"
=============================================================================
