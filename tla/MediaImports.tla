----------------------------- MODULE MediaImports -----------------------------
(***************************************************************************)
(* Videos the user drops into a profile's folder.  Two actors index them   *)
(* and make playable copies: the scan (of the task, or asked for by the    *)
(* user; a lock admits one at a time) and the listing of the Media page,   *)
(* which takes no lock.  Both write the same hidden output, <id>.tmp.mp4,  *)
(* and rename it over the copy.                                            *)
(*                                                                         *)
(* A step is the code between two awaits, with the transaction it waited   *)
(* for.  The remux and the transcode tried after it are one conversion.  A *)
(* file's size and time of modification are its version; its thumbnail,    *)
(* duration and stream data are together the metadata, known or not.       *)
(* Titles and dates are left out, and the 30 s a video must rest before it *)
(* is looked at: they only delay it.                                       *)
(***************************************************************************)
EXTENDS Naturals, FiniteSets

CONSTANTS
  Kinds,        \* a subset of {"direct", "late", "container"}: what the browser plays as it
                \* is, MP4 whose metadata comes after the media, MKV, MOV or AVI
  File,         \* names of videos in the profile's folder
  MaxVersions,  \* bounds how often a video is dropped or replaced
  MaxOps,       \* bounds rescans, deletions, errors and restarts together
  None

Actor == {"scan", "list"}

VARIABLES
  kind,     \* the kind of each video; never changes
  src,      \* its version in the folder, 0 when there is none
  drops,    \* how often it was dropped
  clear,    \* videos ffprobe and ffmpeg find a duration and a picture in
  row,      \* its row of kind import
  copy,     \* the playable copy
  temp,     \* whose output <id>.tmp.mp4 names
  out,      \* the name of what each actor's ffmpeg writes
  actor,    \* what the scan and the listing are at
  task,     \* the background task
  deletion, \* the handler that deletes a video
  ops,
  disturbed \* videos two conversions overlapped on, or that failed to convert again

vars == <<kind, src, drops, clear, row, copy, temp, out, actor, task, deletion, ops, disturbed>>

Row == [version : 1 .. MaxVersions, plays : {"nothing", "source", "copy"},
        status : {"ready", "failed"}, meta : BOOLEAN]
\* A file named temp or copy: what it is a copy of, and whether all of it is written.
Output == [of : 0 .. MaxVersions, whole : BOOLEAN]
NoOutput == [of |-> 0, whole |-> FALSE]
Idle == [pc |-> "idle", rows |-> [f \in File |-> None], todo |-> {}, file |-> None,
         version |-> 0, meta |-> FALSE, reads |-> 0]

TypeOK ==
  /\ kind \in [File -> Kinds]
  /\ src \in [File -> 0 .. MaxVersions] /\ drops \in [File -> 0 .. MaxVersions]
  /\ clear \subseteq File /\ disturbed \subseteq File
  /\ row \in [File -> Row \cup {None}]
  /\ copy \in [File -> Output]
  /\ temp \in [File -> Actor \cup {"none", "left"}]
  /\ out \in [Actor -> {"none", "temp", "copy", "unnamed"}]
  /\ task \in {"boot", "loop", "dead"}
  /\ \A a \in Actor : actor[a].file \in File \cup {None} /\ actor[a].todo \subseteq File

\* Imports are enabled: without them there is no task, and only the listing.
Init ==
  /\ kind \in [File -> Kinds]
  /\ src = [f \in File |-> 0] /\ drops = src
  /\ clear = {} /\ disturbed = {}
  /\ row = [f \in File |-> None]
  /\ copy = [f \in File |-> NoOutput]
  /\ temp = [f \in File |-> "none"]
  /\ out = [a \in Actor |-> "none"]
  /\ actor = [a \in Actor |-> Idle]
  /\ task = "boot"
  /\ deletion = [file |-> None, row |-> None]
  /\ ops = 0

Op == ops < MaxOps /\ ops' = ops + 1
To(a, fields) == actor' = [actor EXCEPT ![a] = fields]
Files == <<copy, temp, out>>

-----------------------------------------------------------------------------
(* The user's folder. *)

Drop(f) ==
  /\ drops[f] < MaxVersions
  /\ drops' = [drops EXCEPT ![f] = @ + 1]
  /\ src' = [src EXCEPT ![f] = drops[f] + 1]
  /\ \/ clear' = clear \cup {f}
     \/ clear' = clear \ {f}
  /\ UNCHANGED <<kind, row, Files, actor, task, deletion, ops, disturbed>>

TakeAway(f) ==
  /\ src[f] # 0 /\ Op
  /\ src' = [src EXCEPT ![f] = 0]
  /\ UNCHANGED <<kind, drops, clear, row, Files, actor, task, deletion, disturbed>>

-----------------------------------------------------------------------------
(* What the scan and the listing have in common. *)

\* add_or_update_recording.  Paths that are not given keep their value, unless
\* the source changed and the row is replaced.
Upsert(f, version, plays, status, meta, replace) ==
  row' = [row EXCEPT ![f] =
            [version |-> version,
             plays |-> IF plays = "nothing" /\ row[f] # None /\ ~replace
                       THEN row[f].plays ELSE plays,
             status |-> status, meta |-> meta]]

RowLeft(f) == row' = row  \* mutant
DeleteRow(f) == row' = [row EXCEPT ![f] = None]

Changed(r, version) == IF r = None THEN TRUE ELSE r.version # version
PlaysOf(r) == IF r = None THEN "nothing" ELSE r.plays
NeedsCopy(f) == kind[f] # "direct"

\* The copy made of the version the row already names is used again.
CopyThere(f, r, version) == copy[f] # NoOutput  \* mutant
CachedCopy(f, r, version) == copy[f] # NoOutput /\ ~Changed(r, version)

\* The end of the work on a file: the row is written.
Wrote(a, plays, status) ==
  LET f == actor[a].file  v == actor[a].version  r == actor[a].rows[f]
  IN  /\ Upsert(f, v, plays, status, actor[a].meta,
                IF a = "scan" THEN r # None /\ Changed(r, v) ELSE Changed(r, v))
      /\ To(a, [Idle EXCEPT !.pc = "files", !.todo = actor[a].todo,
                            !.rows = [actor[a].rows EXCEPT ![f] = None]])

\* What the row will say can be played without a conversion.
Placed(a) ==
  LET f == actor[a].file  v == actor[a].version  r == actor[a].rows[f]
  IN  \/ kind[f] = "direct"
      \/ (a = "scan" \/ kind[f] = "late") /\ CachedCopy(f, r, v)
      \/ a = "list" /\ kind[f] = "container" /\ PlaysOf(r) # "nothing" /\ ~Changed(r, v)

\* The listing keeps the status and the path of a row it only completes.
PlaceImport(a) ==
  LET f == actor[a].file  v == actor[a].version  r == actor[a].rows[f]
      kept == a = "list" /\ r # None /\ ~Changed(r, v)
  IN  /\ actor[a].pc = "probe" /\ Placed(a)
      /\ Wrote(a, IF kind[f] = "direct" THEN "source" ELSE "copy",
               IF kept /\ kind[f] # "late" THEN r.status ELSE "ready")
      /\ UNCHANGED <<kind, src, drops, clear, Files, task, deletion, ops, disturbed>>

\* The hidden output is unlinked, and ffmpeg opens the source and a new output.
ConvertBegins(a) ==
  LET f == actor[a].file
  IN  /\ actor[a].pc = "probe"
      /\ NeedsCopy(f) /\ ~Placed(a)
      /\ out' = [b \in Actor |-> IF b = a THEN "temp"
                                 ELSE IF temp[f] = b THEN "unnamed" ELSE out[b]]
      /\ temp' = [temp EXCEPT ![f] = a]
      /\ To(a, [actor[a] EXCEPT !.pc = "ffmpeg", !.reads = src[f]])
      /\ disturbed' = IF \E b \in Actor \ {a} : actor[b].pc = "ffmpeg" /\ actor[b].file = f
                      THEN disturbed \cup {f} ELSE disturbed
      /\ UNCHANGED <<kind, src, drops, clear, row, copy, task, deletion, ops>>

\* Whatever <id>.tmp.mp4 names when ffmpeg has ended well becomes the copy: the
\* output of the other actor, if that one began later.
Published(a) ==
  LET f == actor[a].file
  IN  /\ copy' = [copy EXCEPT ![f] = IF temp[f] = a
                                     THEN [of |-> actor[a].reads, whole |-> TRUE]
                                     ELSE [of |-> actor[temp[f]].reads, whole |-> FALSE]]
      /\ out' = [b \in Actor |-> IF b = a THEN "none"
                                 ELSE IF temp[f] = b THEN "copy" ELSE out[b]]
      /\ temp' = [temp EXCEPT ![f] = "none"]

\* What the actor wrote under the name of the copy is whole once it has ended.
WholeIfNamed(a, ok) ==
  LET f == actor[a].file
  IN  copy' = IF out[a] = "copy" /\ ok THEN [copy EXCEPT ![f].whole = TRUE] ELSE copy

Ended(a) ==
  /\ actor[a].pc = "ffmpeg"
  /\ UNCHANGED <<kind, src, drops, clear, task, deletion, ops>>

ConvertSucceeds(a) ==
  /\ Ended(a) /\ actor[a].reads # 0
  /\ temp[actor[a].file] \in Actor
  /\ Published(a)
  /\ Wrote(a, "copy", "ready")
  /\ UNCHANGED disturbed

\* ffmpeg ended badly, or well with no file of that name left: the file of that
\* name, if there is one, is unlinked, also when the other actor writes it.
ConvertFails(a) ==
  LET f == actor[a].file
  IN  /\ Ended(a)
      /\ \E ok \in BOOLEAN :
            /\ ok => temp[f] \notin Actor
            /\ WholeIfNamed(a, ok)
      /\ temp' = [temp EXCEPT ![f] = "none"]
      /\ out' = [b \in Actor |-> IF b = a THEN "none"
                                 ELSE IF temp[f] = b THEN "unnamed" ELSE out[b]]
      /\ disturbed' = IF copy[f] = NoOutput THEN disturbed ELSE disturbed \cup {f}
      /\ Wrote(a, "nothing", "failed")

-----------------------------------------------------------------------------
(* The scan: first the rows whose source is gone, then the folder. *)

Reads(a, pc, files) ==
  To(a, [Idle EXCEPT !.pc = pc, !.rows = row, !.todo = files])
ScanOthers == UNCHANGED <<kind, src, drops, clear, disturbed, deletion>>

\* The lock is free: the task's turn, or a request.
ScanBegin ==
  /\ actor["scan"].pc = "idle"
  /\ \/ task \in {"boot", "loop"} /\ ops' = ops
        /\ Reads("scan", "gone", {f \in File : row[f] # None})
     \/ task \in {"loop", "dead"} /\ Op
        /\ Reads("scan", "gone", {f \in File : row[f] # None})
  /\ ScanOthers /\ UNCHANGED <<row, Files, task>>

\* The copy a row names is unlinked with the row; an output may have that name.
CopyGone(f, r) ==
  IF PlaysOf(r) = "copy"
  THEN /\ copy' = [copy EXCEPT ![f] = NoOutput]
       /\ out' = [b \in Actor |-> IF out[b] = "copy" /\ actor[b].file = f THEN "unnamed" ELSE out[b]]
  ELSE UNCHANGED <<copy, out>>

RemoveImport(f) ==
  LET scan == actor["scan"]
  IN  /\ scan.pc = "gone" /\ f \in scan.todo
      /\ To("scan", [scan EXCEPT !.todo = @ \ {f}, !.rows[f] = None])
      /\ IF src[f] = 0 THEN CopyGone(f, scan.rows[f]) /\ DeleteRow(f)
                       ELSE UNCHANGED <<row, copy, out>>
      /\ ScanOthers /\ UNCHANGED <<temp, task, ops>>

ScanFolder ==
  /\ actor["scan"].pc = "gone" /\ actor["scan"].todo = {}
  /\ Reads("scan", "files", File)
  /\ ScanOthers /\ UNCHANGED <<row, Files, task, ops>>

\* The scan makes a copy that failed again only of a new version; the listing, each time.
Lacks(a, f, r, version) ==
  /\ NeedsCopy(f)
  /\ a = "scan" /\ r # None => ~(r.status = "failed" /\ ~Changed(r, version))
  /\ \/ Changed(r, version) \/ PlaysOf(r) = "nothing"
     \/ kind[f] = "late" /\ PlaysOf(r) = "source"

SkipsKnown(a, f, r, version) == r # None  \* mutant
Skips(a, f, r, version) ==
  /\ r # None /\ ~Lacks(a, f, r, version)
  /\ r.meta
  /\ a = "scan" => ~Changed(r, version) /\ (r.plays # "nothing" \/ r.status = "failed")

\* A video is looked at.  The probes that follow find the metadata of a clear one.
TakeFile(a, f) ==
  LET at == actor[a]
  IN  /\ at.pc = "files" /\ at.file = None /\ f \in at.todo
      /\ IF src[f] = 0 \/ Skips(a, f, at.rows[f], src[f])
         THEN To(a, [at EXCEPT !.todo = @ \ {f}, !.rows[f] = None])
         ELSE To(a, [at EXCEPT !.pc = "probe", !.todo = @ \ {f}, !.file = f,
                               !.version = src[f], !.meta = f \in clear])
      /\ ScanOthers /\ UNCHANGED <<row, Files, task, ops>>

ScanEnd ==
  /\ actor["scan"].pc = "files" /\ actor["scan"].todo = {}
  /\ To("scan", Idle)
  /\ task' = IF task = "boot" THEN "loop" ELSE task
  /\ ScanOthers /\ UNCHANGED <<row, Files, ops>>

\* An error of the database, or a file that vanishes before it is looked at, ends
\* the scan.  The first scan of the task is outside its try.
ScanRaises ==
  /\ actor["scan"].pc \in {"gone", "files", "probe"} /\ Op
  /\ To("scan", Idle)
  /\ task' = IF task = "boot" THEN "dead" ELSE task
  /\ ScanOthers /\ UNCHANGED <<row, Files>>

-----------------------------------------------------------------------------
(* The listing of the Media page, the deletion of a video, and a restart. *)

ListBegin ==
  /\ actor["list"].pc = "idle"
  /\ Reads("list", "files", File)
  /\ ScanOthers /\ UNCHANGED <<row, Files, task, ops>>

ListEnd ==
  /\ actor["list"].pc = "files" /\ actor["list"].todo = {}
  /\ To("list", Idle)
  /\ ScanOthers /\ UNCHANGED <<row, Files, task, ops>>

DeleteFinds(f) ==
  /\ deletion.file = None /\ src[f] # 0 /\ Op
  /\ deletion' = [file |-> f, row |-> row[f]]
  /\ UNCHANGED <<kind, src, drops, clear, row, Files, actor, task, disturbed>>

\* Without a row only the video is unlinked.
DeleteVideo ==
  LET f == deletion.file
  IN  /\ f # None
      /\ deletion' = [file |-> None, row |-> None]
      /\ src' = [src EXCEPT ![f] = 0]
      /\ CopyGone(f, deletion.row)
      /\ IF deletion.row = None THEN row' = row ELSE DeleteRow(f)
      /\ UNCHANGED <<kind, drops, clear, temp, actor, task, ops, disturbed>>

Restart ==
  /\ Op
  /\ actor' = [a \in Actor |-> Idle] /\ out' = [a \in Actor |-> "none"]
  /\ temp' = [f \in File |-> IF temp[f] \in Actor THEN "left" ELSE temp[f]]
  /\ deletion' = [file |-> None, row |-> None]
  /\ task' = "boot"
  /\ UNCHANGED <<kind, src, drops, clear, row, copy, disturbed>>

-----------------------------------------------------------------------------
Works(a) == \/ \E f \in File : TakeFile(a, f)
            \/ PlaceImport(a) \/ ConvertBegins(a) \/ ConvertSucceeds(a) \/ ConvertFails(a)
Scans == ScanBegin \/ (\E f \in File : RemoveImport(f)) \/ ScanFolder \/ ScanEnd
Next ==
  \/ \E f \in File : Drop(f) \/ TakeAway(f) \/ DeleteFinds(f)
  \/ \E a \in Actor : Works(a)
  \/ Scans \/ ScanRaises \/ ListBegin \/ ListEnd \/ DeleteVideo \/ Restart

Spec == Init /\ [][Next]_vars

\* The loop of the task runs and every conversion ends: both have a timeout.
FairSpec ==
  /\ Spec
  /\ \A a \in Actor : WF_vars(Works(a))
  /\ WF_vars(Scans) /\ WF_vars(ListEnd) /\ WF_vars(DeleteVideo)

\* A video in the folder gets a row of its version, also one that replaced another,
\* one that was taken away meanwhile, or one a scan failed before, for as long as the
\* task lives (scan_media_imports).
Indexed(f) == row[f] # None /\ row[f].version = src[f]
Alive == task \in {"boot", "loop"}
DroppedIsIndexed ==
  \A f \in File : []<>(src[f] # 0 /\ Alive => Indexed(f))

\* A row of a video that is gone goes too: the listing or a conversion may write it
\* after the video was deleted (remove_import_record).
GhostImportsGo ==
  \A f \in File : []<>(src[f] = 0 /\ Alive => row[f] = None)

\* Without conversions that overlap and replacements that fail, the copy a row offers
\* to play is the video in the folder, once the row names its version, and all of it,
\* whatever was deleted, replaced or listed meanwhile (create_playable_mp4_copy).
Offered(f) == Indexed(f) /\ row[f].plays = "copy" /\ row[f].status = "ready"
PlaysFile(f) ==
  Offered(f) => (copy[f].whole /\ copy[f].of = src[f])
PlaysUnlessDisturbed == \A f \in File \ disturbed : PlaysFile(f)

\* Of a video that replaced another one, the copy of the other is never played
\* (the paths of the row are cleared: tests/test_media_imports.py:371).
ReplacedIsNotPlayed ==
  \A f \in File : Offered(f) => copy[f].of = src[f]

=============================================================================
