---------------------- MODULE RecordingLibraryProofs ----------------------
(***************************************************************************)
(* No footage is lost and nothing erased comes back: proved for any number *)
(* of recordings, of attempts and of calls; and the copy a video of the    *)
(* imports folder is played by is that video and whole: proved for any     *)
(* videos, versions and calls of Imports, the instance of MCLibraryImports.*)
(***************************************************************************)
EXTENDS MCLibraryImports, TLAPS

\* The variables that decide, and the actors that delete or replace a file.
Shapes ==
  /\ conv = [pc |-> conv.pc, auto |-> conv.auto, keep |-> conv.keep, active |-> conv.active,
             rows |-> conv.rows, todo |-> conv.todo, file |-> conv.file]
  /\ cache = [pc |-> cache.pc, rows |-> cache.rows, todo |-> cache.todo, file |-> cache.file]
  /\ deletion = [pc |-> deletion.pc, file |-> deletion.file]

Types ==
  /\ phase \in [File -> {"recording", "closed", "library"}]
  /\ mp4 \in [File -> {"none", "torn", "good"}]
  /\ temp \in [File -> {"none", "work", "left"}]

\* Once the conversion is about to delete a TS its MP4 is good, or was deleted since by
\* somebody who wanted the recording gone.
TakenOver(f) == f \in File => f \in short \cup dropped \/ mp4[f] = "good"
Unlinking == {"adopt", "published", "record", "recorded"}
ConvertedFirst == conv.pc \in Unlinking => TakenOver(conv.file)

\* The monitor deletes only what is too short.
OnlyFragments == cache.pc = "short" => cache.file \in short

\* Whatever has files in the library, or had them erased, has been promoted: nothing
\* puts its TS there again.
HasFile(f) == f \in ts \/ mp4[f] # "none" \/ temp[f] # "none"
FilesArePromoted == \A f \in File : HasFile(f) \/ f \in erased => phase[f] = "library"

FindsPromoted ==
  deletion.pc = "find" => deletion.file \in File /\ phase[deletion.file] = "library"

\* Where ffmpeg has opened a TS and not yet created its output.
Opened(f) == conv.pc = "opened" /\ conv.file = f
OpenedIsPromoted == \A f \in File : Opened(f) => phase[f] = "library"

\* No conversion of an erased recording has an output left to publish, or is about to
\* create one, unless the recording escaped.
NoOutputLeft ==
  erased \subseteq File /\ \A f \in erased \ escaped : temp[f] # "work" /\ ~ Opened(f)

IInv ==
  /\ Types /\ Shapes
  /\ FootageKept /\ ErasedStaysErased
  /\ ConvertedFirst /\ OnlyFragments /\ FilesArePromoted /\ FindsPromoted /\ NoOutputLeft
  /\ OpenedIsPromoted

\* A step after which ffmpeg has opened no other TS than before; and the recordings that
\* a step erases.
OpensNone == conv'.pc = "opened" => conv.pc = "opened" /\ conv'.file = conv.file
ErasedNow == (erased' \ erased) \cup (escaped \ escaped')

USE DEF disk, world, history

\* The initial states satisfy the invariant (recordings of an earlier version have a TS).
LEMMA InitIInv == Init => IInv
<1> SUFFICES ASSUME Init PROVE IInv
  OBVIOUS
<1>1. Types /\ Shapes
  BY DEF Init, Types, Shapes, ConvIdle, CacheIdle, DeletionIdle
<1>2. FootageKept /\ ErasedStaysErased
  BY DEF Init, FootageKept, ErasedStaysErased
<1>3. ConvertedFirst /\ OnlyFragments /\ FindsPromoted
  BY DEF Init, ConvertedFirst, OnlyFragments, FindsPromoted, Unlinking,
         ConvIdle, CacheIdle, DeletionIdle
<1>4. FilesArePromoted /\ NoOutputLeft /\ OpenedIsPromoted
  BY DEF Init, FilesArePromoted, HasFile, NoOutputLeft, OpenedIsPromoted, Opened, ConvIdle
<1> QED
  BY <1>1, <1>2, <1>3, <1>4 DEF IInv

-----------------------------------------------------------------------------
(* Steps by what they change. *)

\* A step of an actor that touches no file keeps the invariant, if the actor comes to no
\* place where it would delete one.
LEMMA FilesUntouched ==
  ASSUME IInv, UNCHANGED <<short, phase, disk, history>>, Shapes',
         ConvertedFirst', OnlyFragments', FindsPromoted', OpensNone
  PROVE  IInv'
BY DEF IInv, Types, FootageKept, ErasedStaysErased, FilesArePromoted, HasFile, NoOutputLeft,
   OpenedIsPromoted, Opened, OpensNone

\* Where the conversion goes when it neither adopts nor publishes.
LEMMA ConvElsewhere ==
  ASSUME IInv, UNCHANGED <<short, phase, disk, history, cache, deletion>>, Shapes',
         conv'.pc \notin Unlinking \cup {"opened"}
  PROVE  IInv'
<1>1. ConvertedFirst' /\ OnlyFragments' /\ FindsPromoted' /\ OpensNone
  BY DEF IInv, ConvertedFirst, OnlyFragments, FindsPromoted, OpensNone
<1> QED
  BY <1>1, FilesUntouched

\* A step that leaves the conversion, the monitor and the deletion where they are.
LEMMA ActorsRest ==
  ASSUME IInv, UNCHANGED <<short, phase, disk, history, conv, cache, deletion>>
  PROVE  IInv'
<1>1. Shapes' /\ ConvertedFirst' /\ OnlyFragments' /\ FindsPromoted' /\ OpensNone
  BY DEF IInv, Shapes, ConvertedFirst, TakenOver, OnlyFragments, FindsPromoted, OpensNone
<1> QED
  BY <1>1, FilesUntouched

\* Where the conversion goes on with a file whose MP4 is good.
LEMMA StillTakenOver ==
  ASSUME IInv, UNCHANGED <<short, phase, disk, history, cache, deletion>>, Shapes',
         conv.pc \in Unlinking, conv'.pc # "opened", conv'.file = conv.file
  PROVE  IInv'
<1>1. ConvertedFirst' /\ OnlyFragments' /\ FindsPromoted' /\ OpensNone
  BY DEF IInv, ConvertedFirst, TakenOver, OnlyFragments, FindsPromoted, OpensNone
<1> QED
  BY <1>1, FilesUntouched

\* A conversion that deletes a TS, which is too short, or not wanted, or has a good MP4.
LEMMA SourceUnlinked ==
  ASSUME IInv, UNCHANGED <<short, phase, mp4, temp, history, cache, deletion>>, Shapes',
         ts' \in SUBSET ts,
         \A g \in (ts \ ts') \cap File : g \in short \cup dropped \/ mp4[g] = "good",
         conv'.pc # "opened", conv'.pc \in Unlinking => mp4[conv'.file] = "good"
  PROVE  IInv'
<1>1. Types' /\ OnlyFragments' /\ FindsPromoted' /\ ConvertedFirst'
  BY DEF IInv, Types, ConvertedFirst, TakenOver, OnlyFragments, FindsPromoted
<1>2. FootageKept' /\ ErasedStaysErased' /\ FilesArePromoted'
  BY DEF IInv, FootageKept, ErasedStaysErased, FilesArePromoted, HasFile
<1>3. NoOutputLeft' /\ OpenedIsPromoted'
  BY DEF IInv, NoOutputLeft, OpenedIsPromoted, Opened
<1> QED
  BY <1>1, <1>2, <1>3 DEF IInv

-----------------------------------------------------------------------------
(* The conversion task. *)

\* What the conversion does keeps the invariant: it deletes a TS that is too short or whose
\* MP4 is good.
LEMMA ConvKeeps == ASSUME IInv, ConvStep PROVE IInv'
<1> USE DEF ConvOthers, ConvNext, ConvAbort, ConvGo, ConvIdle
<1>0. Shapes
  BY DEF IInv
<1>1. CASE ConvBoot
  <2>1. Types' /\ Shapes'
    BY <1>1 DEF ConvBoot, RemoveStaleTemps, IInv, Types, Shapes
  <2> QED
    BY <1>1, <2>1 DEF ConvBoot, RemoveStaleTemps, IInv, Types, FootageKept, ErasedStaysErased,
      ConvertedFirst, Unlinking, OnlyFragments, FilesArePromoted, HasFile, FindsPromoted,
      NoOutputLeft, OpenedIsPromoted, Opened
<1>2. ASSUME NEW f \in File, ConvBootFile(f) PROVE IInv'
  <2>2. UNCHANGED <<short, phase, disk, history, cache, deletion>>
    BY <1>2 DEF ConvBootFile
  <2>1. Shapes' /\ conv'.pc \notin Unlinking \cup {"opened"}
    <3>1. CASE conv' = ConvIdle
      BY <1>0, <2>2, <3>1 DEF Shapes, Unlinking
    <3>2. CASE conv' = [conv EXCEPT !.todo = @ \ {f}] /\ conv.pc = "bootscan"
      BY <1>0, <2>2, <3>2 DEF Shapes, Unlinking
    <3> QED
      BY <1>2, <3>1, <3>2 DEF ConvBootFile
  <2> QED
    BY <2>1, <2>2, ConvElsewhere
<1>3. CASE ConvBootEnd
  BY <1>3, ConvElsewhere DEF ConvBootEnd, Shapes, Unlinking, IInv
<1>4. CASE ConvBegin
  <2>1. Types' /\ Shapes'
    BY <1>4 DEF ConvBegin, RemoveStaleTemps, IInv, Types, Shapes
  <2> QED
    BY <1>4, <2>1 DEF ConvBegin, RemoveStaleTemps, IInv, Types, FootageKept, ErasedStaysErased,
      ConvertedFirst, Unlinking, OnlyFragments, FilesArePromoted, HasFile, FindsPromoted,
      NoOutputLeft, OpenedIsPromoted, Opened, Shapes
<1>5. CASE ConvRows
  BY <1>5, ConvElsewhere DEF ConvRows, Shapes, Unlinking, IInv
<1>6. ASSUME NEW f \in File, ConvScan(f) PROVE IInv'
  <2>2. UNCHANGED <<short, phase, disk, history, cache, deletion>>
    BY <1>6 DEF ConvScan
  <2>1. Shapes' /\ conv'.pc \notin Unlinking \cup {"opened"}
    <3>1. CASE conv' = ConvIdle
      BY <1>0, <2>2, <3>1 DEF Shapes, Unlinking
    <3>2. CASE conv' = [conv EXCEPT !.todo = @ \ {f}] /\ conv.pc = "scan"
      BY <1>0, <2>2, <3>2 DEF Shapes, Unlinking
    <3>3. ASSUME NEW pc \in {"probe", "measure"}, conv' = [conv EXCEPT !.pc = pc, !.file = f]
          PROVE  Shapes' /\ conv'.pc \notin Unlinking \cup {"opened"}
      BY <1>0, <2>2, <3>3 DEF Shapes, Unlinking
    <3> QED
      BY <1>6, <3>1, <3>2, <3>3 DEF ConvScan
  <2> QED
    BY <2>1, <2>2, ConvElsewhere
<1>7. CASE ConvProbe
  <2> DEFINE f == conv.file
  <2>1. UNCHANGED <<short, phase, mp4, temp, history, cache, deletion>>
    BY <1>7 DEF ConvProbe
  <2>4. \/ conv' = ConvIdle
        \/ conv' = [conv EXCEPT !.pc = "measure"]
        \/ conv' = [conv EXCEPT !.pc = "scan", !.todo = @ \ {conv.file}, !.file = None]
        \/ conv' = [conv EXCEPT !.pc = "adopt"] /\ mp4[f] = "good"
    BY <1>7 DEF ConvProbe, WhenStable, Mp4IsValid
  <2>2. /\ Shapes' /\ conv'.pc # "opened"
        /\ conv'.pc \in Unlinking => conv'.file = f /\ mp4[f] = "good"
    <3>1. CASE conv' = ConvIdle
      BY <1>0, <2>1, <3>1 DEF Shapes, Unlinking
    <3>2. CASE conv' = [conv EXCEPT !.pc = "measure"]
      BY <1>0, <2>1, <3>2 DEF Shapes, Unlinking
    <3>3. CASE conv' = [conv EXCEPT !.pc = "scan", !.todo = @ \ {conv.file}, !.file = None]
      BY <1>0, <2>1, <3>3 DEF Shapes, Unlinking
    <3>4. CASE conv' = [conv EXCEPT !.pc = "adopt"] /\ mp4[f] = "good"
      BY <1>0, <2>1, <3>4 DEF Shapes
    <3> QED
      BY <2>4, <3>1, <3>2, <3>3, <3>4
  <2>3. ts' \in SUBSET ts /\ \A g \in ts \ ts' : mp4[g] = "good"
    BY <1>7 DEF ConvProbe, UnlinkSource, Mp4IsValid
  <2> QED
    BY <2>1, <2>2, <2>3, SourceUnlinked
<1>8. CASE ConvRecord
  <2>1. Shapes' /\ UNCHANGED <<short, phase, disk, history, cache, deletion>>
    BY <1>8 DEF ConvRecord, IInv, Shapes
  <2>2. conv.pc \in Unlinking /\ conv'.file = conv.file /\ conv'.pc # "opened"
    BY <1>8 DEF ConvRecord, IInv, Shapes, Unlinking
  <2> QED
    BY <2>1, <2>2, StillTakenOver
<1>9. CASE ConvRecorded
  <2>1. Shapes' /\ UNCHANGED <<short, phase, mp4, temp, history, cache, deletion>>
    BY <1>9 DEF ConvRecorded, IInv, Shapes
  <2>2. conv'.pc \notin Unlinking \cup {"opened"}
    BY <1>9 DEF ConvRecorded, IInv, Shapes, Unlinking
  <2>3. TakenOver(conv.file)
    BY <1>9 DEF ConvRecorded, IInv, ConvertedFirst, Unlinking
  <2>4. ts' \in SUBSET ts /\ \A g \in ts \ ts' : g = conv.file
    BY <1>9 DEF ConvRecorded, UnlinkSource
  <2> QED
    BY <2>1, <2>2, <2>3, <2>4, SourceUnlinked DEF TakenOver
<1>10. CASE ConvMeasure
  <2>1. UNCHANGED <<short, phase, mp4, temp, history, cache, deletion>>
    BY <1>10 DEF ConvMeasure
  <2>4. \/ conv' = ConvIdle
        \/ \E pc \in {"fragment", "index", "select"} : conv' = [conv EXCEPT !.pc = pc]
        \/ conv' = [conv EXCEPT !.pc = "scan", !.todo = @ \ {conv.file}, !.file = None]
    BY <1>10 DEF ConvMeasure
  <2>2. Shapes' /\ conv'.pc \notin Unlinking \cup {"opened"}
    <3>1. CASE conv' = ConvIdle
      BY <1>0, <2>1, <3>1 DEF Shapes, Unlinking
    <3>2. ASSUME NEW pc \in {"fragment", "index", "select"}, conv' = [conv EXCEPT !.pc = pc]
          PROVE  Shapes' /\ conv'.pc \notin Unlinking \cup {"opened"}
      BY <1>0, <2>1, <3>2 DEF Shapes, Unlinking
    <3>3. CASE conv' = [conv EXCEPT !.pc = "scan", !.todo = @ \ {conv.file}, !.file = None]
      BY <1>0, <2>1, <3>3 DEF Shapes, Unlinking
    <3> QED
      BY <2>4, <3>1, <3>2, <3>3
  <2>3. ts' \in SUBSET ts /\ \A g \in ts \ ts' : g \in short
    BY <1>10 DEF ConvMeasure
  <2> QED
    BY <2>1, <2>2, <2>3, SourceUnlinked
<1>11. CASE ConvFragment
  BY <1>11, ConvElsewhere DEF ConvFragment, Shapes, Unlinking, IInv
<1>12. CASE ConvIndex
  BY <1>12, ConvElsewhere DEF ConvIndex, Shapes, Unlinking, IInv
<1>13. CASE ConvStart
  <2>1. Shapes' /\ UNCHANGED <<short, phase, disk, history, cache, deletion>> /\ conv'.file = conv.file
    BY <1>13 DEF ConvStart, IInv, Shapes
  <2>2. conv'.pc \notin Unlinking /\ (conv'.pc = "opened" => conv.file \in ts)
    BY <1>13 DEF ConvStart, Failed, IInv, Shapes, Unlinking
  <2>3. FootageKept' /\ ErasedStaysErased' /\ FilesArePromoted' /\ Types'
    BY <2>1 DEF IInv, Types, FootageKept, ErasedStaysErased, FilesArePromoted, HasFile
  <2>4. ConvertedFirst' /\ OnlyFragments' /\ FindsPromoted'
    BY <2>1, <2>2 DEF IInv, ConvertedFirst, OnlyFragments, FindsPromoted
  <2>5. OpenedIsPromoted' /\ NoOutputLeft'
    BY <2>1, <2>2 DEF IInv, OpenedIsPromoted, NoOutputLeft, Opened, ErasedStaysErased,
      FilesArePromoted, HasFile
  <2> QED
    BY <2>1, <2>3, <2>4, <2>5 DEF IInv
<1>c. CASE ConvCreate
  <2>1. Shapes' /\ UNCHANGED <<short, phase, ts, mp4, history, cache, deletion>>
    BY <1>c DEF ConvCreate, IInv, Shapes
  <2>2. conv'.pc = "ffmpeg"
    BY <1>c DEF ConvCreate, IInv, Shapes
  <2>3. Types'
    BY <1>c, <2>1 DEF ConvCreate, IInv, Types
  <2>4. \A g \in File : temp'[g] # temp[g] => Opened(g)
    BY <1>c DEF ConvCreate, IInv, Types, Opened
  <2>5. FilesArePromoted' /\ OpenedIsPromoted' /\ NoOutputLeft'
    BY <2>1, <2>2, <2>4 DEF IInv, FilesArePromoted, HasFile, OpenedIsPromoted, NoOutputLeft, Opened
  <2> QED
    BY <2>1, <2>2, <2>3, <2>5 DEF IInv, FootageKept, ErasedStaysErased, ConvertedFirst,
      Unlinking, OnlyFragments, FindsPromoted
<1>14. CASE ConvPublish
  <2> DEFINE f == conv.file
  <2>1. Shapes' /\ UNCHANGED <<short, phase, ts, history, cache, deletion>> /\ conv'.file = f
    BY <1>14 DEF ConvPublish, IInv, Shapes
  <2>2. Types'
    BY <1>14, <2>1 DEF ConvPublish, IInv, Types
  <2>3. \A g \in File : g # f => mp4'[g] = mp4[g] /\ temp'[g] = temp[g]
    BY <1>14 DEF ConvPublish, IInv, Types
  <2>4. f \in File => temp[f] = "work" /\ mp4'[f] = "good" /\ temp'[f] = "none"
    BY <1>14 DEF ConvPublish, IInv, Types
  <2>5. f \notin erased \ escaped \/ f \notin File
    BY <2>4 DEF IInv, NoOutputLeft
  <2>6. FootageKept' /\ ErasedStaysErased' /\ ConvertedFirst'
    BY <2>1, <2>3, <2>4, <2>5 DEF IInv, FootageKept, ErasedStaysErased, ConvertedFirst,
      TakenOver, NoOutputLeft
  <2>7. conv'.pc # "opened"
    BY <1>14 DEF ConvPublish, IInv, Shapes
  <2>8. FilesArePromoted' /\ NoOutputLeft' /\ OpenedIsPromoted'
    BY <2>1, <2>3, <2>4, <2>5, <2>7 DEF IInv, FilesArePromoted, HasFile, NoOutputLeft,
      OpenedIsPromoted, Opened
  <2> QED
    BY <2>1, <2>2, <2>6, <2>8 DEF IInv, OnlyFragments, FindsPromoted
<1>15. CASE ConvFail
  <2>1. Shapes' /\ UNCHANGED <<short, phase, ts, mp4, history, cache, deletion>>
    BY <1>15 DEF ConvFail, IInv, Shapes
  <2>2. conv'.pc \notin Unlinking \cup {"opened"}
    BY <1>15 DEF ConvFail, Failed, IInv, Shapes, Unlinking
  <2>3. Types' /\ \A g \in File : temp'[g] \in {"none", temp[g]}
    BY <1>15, <2>1 DEF ConvFail, IInv, Types
  <2> QED
    BY <2>1, <2>2, <2>3 DEF IInv, FootageKept, ErasedStaysErased, ConvertedFirst, OnlyFragments,
      FilesArePromoted, HasFile, FindsPromoted, NoOutputLeft, OpenedIsPromoted, Opened
<1>16. CASE ConvReset
  <2>1. Shapes' /\ UNCHANGED <<short, phase, disk, history, cache, deletion>>
    BY <1>16 DEF ConvReset, IInv, Shapes
  <2>2. conv.pc \in Unlinking /\ conv'.file = conv.file /\ conv'.pc # "opened"
    BY <1>16 DEF ConvReset, IInv, Shapes, Unlinking
  <2> QED
    BY <2>1, <2>2, StillTakenOver
<1>17. CASE ConvUnlisted
  <2>2. UNCHANGED <<short, phase, disk, history, cache, deletion>>
    BY <1>17 DEF ConvUnlisted
  <2>1. Shapes' /\ conv'.pc \notin Unlinking \cup {"opened"}
    <3>1. CASE conv' = ConvIdle
      BY <1>0, <2>2, <3>1 DEF Shapes, Unlinking
    <3>2. CASE conv' = [conv EXCEPT !.pc = "mark"]
      BY <1>0, <2>2, <3>2 DEF Shapes, Unlinking
    <3> QED
      BY <1>17, <3>1, <3>2 DEF ConvUnlisted
  <2> QED
    BY <2>1, <2>2, ConvElsewhere
<1>18. CASE ConvMark
  BY <1>18, ConvElsewhere DEF ConvMark, Shapes, Unlinking, IInv
<1>19. CASE ConvEnd
  BY <1>19, ConvElsewhere DEF ConvEnd, Shapes, Unlinking, IInv
<1> QED
  BY <1>1, <1>2, <1>3, <1>4, <1>5, <1>6, <1>7, <1>8, <1>9, <1>10, <1>11, <1>12, <1>13, <1>c,
     <1>14, <1>15, <1>16, <1>17, <1>18, <1>19 DEF ConvStep

-----------------------------------------------------------------------------
(* The others. *)

\* The monitor's update of the rows deletes fragments only.
LEMMA CacheKeeps == ASSUME IInv, CacheStep PROVE IInv'
<1> USE DEF CacheOthers, CacheIdle
<1>0. Shapes
  BY DEF IInv
<1>1. CASE CacheShort
  <2>1. UNCHANGED <<short, phase, temp, history, conv, deletion>> /\ cache'.pc = "fragment"
    BY <1>0, <1>1 DEF CacheShort, Shapes
  <2>2. Types' /\ Shapes'
    BY <1>0, <1>1, <2>1 DEF CacheShort, Shapes, IInv, Types
  <2>3. cache.file \in short /\ ts' = ts \ {cache.file}
    BY <1>1 DEF CacheShort, IInv, OnlyFragments
  <2>4. \A g \in File : mp4'[g] = IF g = cache.file THEN "none" ELSE mp4[g]
    BY <1>1 DEF CacheShort, IInv, Types
  <2>5. FootageKept' /\ ErasedStaysErased' /\ ConvertedFirst'
    BY <2>1, <2>3, <2>4 DEF IInv, FootageKept, ErasedStaysErased, NoOutputLeft, Opened,
      ConvertedFirst, TakenOver
  <2> QED
    BY <2>1, <2>2, <2>3, <2>4, <2>5 DEF IInv, OnlyFragments, FilesArePromoted, HasFile,
      FindsPromoted, NoOutputLeft, OpenedIsPromoted, Opened
<1>2. ASSUME UNCHANGED <<short, phase, disk, history, conv, deletion>>,
             Shapes', OnlyFragments'
      PROVE  IInv'
  BY <1>2, FilesUntouched DEF IInv, ConvertedFirst, TakenOver, FindsPromoted, OpensNone
<1>3. CASE CacheBegin
  BY <1>0, <1>2, <1>3 DEF CacheBegin, Shapes, OnlyFragments
<1>4. ASSUME NEW f \in File, CachePurge(f) PROVE IInv'
  BY <1>0, <1>2, <1>4 DEF CachePurge, Shapes, OnlyFragments
<1>5. CASE CacheOrphan
  BY <1>0, <1>2, <1>5 DEF CacheOrphan, Shapes, OnlyFragments
<1>6. CASE CacheList
  BY <1>0, <1>2, <1>6 DEF CacheList, Shapes, OnlyFragments
<1>7. ASSUME NEW f \in File, CacheScan(f) PROVE IInv'
  BY <1>0, <1>2, <1>7 DEF CacheScan, Shapes, OnlyFragments
<1>8. CASE CacheFragment
  BY <1>0, <1>2, <1>8 DEF CacheFragment, Shapes, OnlyFragments
<1>9. CASE CacheWrite
  BY <1>0, <1>2, <1>9 DEF CacheWrite, Shapes, OnlyFragments
<1>10. CASE CacheEnd
  BY <1>0, <1>2, <1>10 DEF CacheEnd, Shapes, OnlyFragments
<1> QED
  BY <1>1, <1>3, <1>4, <1>5, <1>6, <1>7, <1>8, <1>9, <1>10 DEF CacheStep

\* Files that go together with the wish to have the recording gone: the retention, and
\* the deletions of the user.
LEMMA Dropping ==
  ASSUME IInv, UNCHANGED <<short, phase, conv, cache>>, Types', Shapes', FindsPromoted',
         NEW gone, dropped' = dropped \cup gone,
         ts' \subseteq ts, ts \ ts' \subseteq gone,
         \A f \in File : mp4'[f] # mp4[f] => f \in gone /\ mp4'[f] = "none",
         \A f \in File : temp'[f] = temp[f] \/ temp'[f] = "none",
         erased' \subseteq (erased \cup gone), erased \subseteq erased',
         \A f \in ErasedNow :
           /\ f \in File /\ phase[f] = "library" /\ f \notin ts' /\ mp4'[f] = "none" /\ temp'[f] = "none"
           /\ f \in escaped' \/ ~ Opened(f)
  PROVE  IInv'
<1>1. FootageKept' /\ ConvertedFirst'
  BY DEF IInv, FootageKept, ConvertedFirst, TakenOver
<1>2. ErasedStaysErased' /\ NoOutputLeft' /\ OpenedIsPromoted'
  BY DEF IInv, ErasedStaysErased, NoOutputLeft, OpenedIsPromoted, Opened, ErasedNow
<1>3. FilesArePromoted' /\ OnlyFragments'
  BY DEF IInv, FilesArePromoted, HasFile, OnlyFragments, ErasedNow
<1> QED
  BY <1>1, <1>2, <1>3 DEF IInv

\* The retention drops what it deletes.
LEMMA SweepKeeps == ASSUME IInv, SweepStep PROVE IInv'
<1> USE DEF SweepOthers
<1>0. Shapes /\ FindsPromoted
  BY DEF IInv
<1>1. CASE SweepBegin
  BY <1>1, ActorsRest DEF SweepBegin
<1>2. ASSUME NEW f \in File, SweepRow(f) PROVE IInv'
  <2>1. CASE f \notin old
    BY <1>2, <2>1, ActorsRest DEF SweepRow
  <2>2. CASE f \in old
    <3>1. /\ UNCHANGED <<short, phase, conv, cache, temp, deletion, erased, escaped>>
          /\ ts' = ts \ {f} /\ dropped' = dropped \cup {f}
          /\ mp4' = [mp4 EXCEPT ![f] = "none"]
      BY <1>2, <2>2 DEF SweepRow
    <3>2. Types' /\ Shapes' /\ FindsPromoted'
      BY <1>0, <3>1 DEF IInv, Types, Shapes, FindsPromoted
    <3>3. \A g \in File : mp4'[g] = IF g = f THEN "none" ELSE mp4[g]
      BY <3>1 DEF IInv, Types
    <3>4. /\ ts' \subseteq ts /\ ts \ ts' \subseteq {f}
          /\ \A g \in File : mp4'[g] # mp4[g] => g \in {f} /\ mp4'[g] = "none"
      BY <3>1, <3>3
    <3>5. /\ \A g \in File : temp'[g] = temp[g] \/ temp'[g] = "none"
          /\ erased' \subseteq (erased \cup {f}) /\ erased \subseteq erased'
          /\ ErasedNow = {}
      BY <3>1 DEF ErasedNow
    <3> QED
      BY <3>1, <3>2, <3>4, <3>5, Dropping
  <2> QED
    BY <2>1, <2>2
<1>3. CASE SweepDeleteRow
  BY <1>3, ActorsRest DEF SweepDeleteRow
<1>4. CASE SweepFiles
  <2> DEFINE loose == old \ (sweep.handled \cup sweep.reserved)
  <2>1. UNCHANGED <<short, phase, conv, cache, deletion, erased, escaped>> /\ dropped' = dropped \cup loose
    BY <1>4 DEF SweepFiles
  <2>2. /\ ts' = ts \ loose
        /\ mp4' = [f \in File |-> IF f \in loose THEN "none" ELSE mp4[f]]
        /\ temp' = [f \in File |-> IF f \in old THEN "none" ELSE temp[f]]
    BY <1>4 DEF SweepFiles
  <2> HIDE DEF loose
  <2>3. Types' /\ Shapes' /\ FindsPromoted'
    BY <1>0, <2>1, <2>2 DEF IInv, Types, Shapes, FindsPromoted
  <2>4. /\ ts' \subseteq ts /\ ts \ ts' \subseteq loose
        /\ \A g \in File : mp4'[g] # mp4[g] => g \in loose /\ mp4'[g] = "none"
        /\ \A g \in File : temp'[g] = temp[g] \/ temp'[g] = "none"
    BY <2>2
  <2>5. /\ erased' \subseteq (erased \cup loose) /\ erased \subseteq erased'
        /\ ErasedNow = {}
    BY <2>1 DEF ErasedNow
  <2> QED
    BY <2>1, <2>3, <2>4, <2>5, Dropping
<1> QED
  BY <1>1, <1>2, <1>3, <1>4 DEF SweepStep

\* What the user deletes is not wanted; a deletion from the Media page takes TS, MP4 and
\* hidden outputs at once.
LEMMA HandlersKeep ==
  ASSUME IInv, HandlerStep \/ DeleteMediaFiles \/ DeleteRecordingRow
  PROVE  IInv'
<1> USE DEF HandlerOthers
<1>0. Shapes /\ FindsPromoted
  BY DEF IInv
<1>1. ASSUME NEW f \in File, DeleteMedia(f) PROVE IInv'
  <2>1. UNCHANGED <<short, phase, disk, history, conv, cache>>
    BY <1>1 DEF DeleteMedia
  <2>2. deletion' = [pc |-> "find", file |-> f] /\ phase[f] = "library"
    BY <1>1 DEF DeleteMedia, IInv, FilesArePromoted, HasFile
  <2>3. Shapes' /\ FindsPromoted'
    BY <1>0, <2>1, <2>2 DEF Shapes, FindsPromoted
  <2> QED
    BY <2>1, <2>3, FilesUntouched DEF IInv, ConvertedFirst, TakenOver, OnlyFragments, OpensNone
<1>2. ASSUME NEW f \in File, DeleteRecording(f) PROVE IInv'
  <2>1. /\ UNCHANGED <<short, phase, temp, conv, cache, erased, escaped>>
        /\ ts' = ts \ {f} /\ dropped' = dropped \cup {f} /\ mp4' = [mp4 EXCEPT ![f] = "none"]
        /\ deletion' = [pc |-> "row", file |-> f]
    BY <1>2 DEF DeleteRecording
  <2>2. Types' /\ Shapes' /\ FindsPromoted'
    BY <1>0, <2>1 DEF IInv, Types, Shapes, FindsPromoted
  <2>3. /\ ts' \subseteq ts /\ ts \ ts' \subseteq {f}
        /\ \A g \in File : mp4'[g] # mp4[g] => g \in {f} /\ mp4'[g] = "none"
        /\ \A g \in File : temp'[g] = temp[g] \/ temp'[g] = "none"
    BY <2>1 DEF IInv, Types
  <2>4. erased' \subseteq (erased \cup {f}) /\ erased \subseteq erased' /\ ErasedNow = {}
    BY <2>1 DEF ErasedNow
  <2> QED
    BY <2>1, <2>2, <2>3, <2>4, Dropping
<1>3. ASSUME NEW f \in File, DeleteProcessing(f) PROVE IInv'
  <2>1. UNCHANGED <<short, phase, mp4, conv, cache, deletion, erased, escaped>>
    BY <1>3 DEF DeleteProcessing
  <2>2. CASE ts' = ts \ {f} /\ dropped' = dropped \cup {f} /\ UNCHANGED temp
    <3>1. Types' /\ Shapes' /\ FindsPromoted'
      BY <1>0, <2>1, <2>2 DEF IInv, Types, Shapes, FindsPromoted
    <3>2. /\ ts' \subseteq ts /\ ts \ ts' \subseteq {f}
          /\ \A g \in File : mp4'[g] # mp4[g] => g \in {f} /\ mp4'[g] = "none"
          /\ \A g \in File : temp'[g] = temp[g] \/ temp'[g] = "none"
      BY <2>1, <2>2
    <3>3. erased' \subseteq (erased \cup {f}) /\ erased \subseteq erased' /\ ErasedNow = {}
      BY <2>1 DEF ErasedNow
    <3> QED
      BY <2>1, <2>2, <3>1, <3>2, <3>3, Dropping
  <2>3. CASE temp' = [temp EXCEPT ![f] = "none"] /\ UNCHANGED <<ts, dropped>>
    <3>1. Types' /\ Shapes' /\ FindsPromoted'
      BY <1>0, <2>1, <2>3 DEF IInv, Types, Shapes, FindsPromoted
    <3>2. /\ ts' \subseteq ts /\ ts \ ts' \subseteq {} /\ dropped' = dropped \cup {}
          /\ \A g \in File : mp4'[g] # mp4[g] => g \in {} /\ mp4'[g] = "none"
      BY <2>1, <2>3
    <3>3. \A g \in File : temp'[g] = temp[g] \/ temp'[g] = "none"
      BY <2>3 DEF IInv, Types
    <3>4. erased' \subseteq (erased \cup {}) /\ erased \subseteq erased' /\ ErasedNow = {}
      BY <2>1 DEF ErasedNow
    <3> QED
      BY <2>1, <3>1, <3>2, <3>3, <3>4, Dropping
  <2> QED
    BY <1>3, <2>2, <2>3 DEF DeleteProcessing
<1>4. ASSUME NEW f \in File, RetryConversion(f) PROVE IInv'
  BY <1>4, ActorsRest DEF RetryConversion
<1>5. CASE DeleteMediaFiles
  <2> DEFINE f == deletion.file
  <2>1. /\ UNCHANGED <<short, phase, conv, cache>> /\ dropped' = dropped \cup {f}
        /\ ts' = ts \ {f} /\ mp4' = [mp4 EXCEPT ![f] = "none"]
        /\ temp' = [temp EXCEPT ![f] = "none"] /\ erased' = erased \cup {f}
        /\ escaped' = IF Opened(f) THEN escaped \cup {f} ELSE escaped \ {f}
    BY <1>5 DEF DeleteMediaFiles, OutputsGone, Opened
  <2>2. f \in File /\ phase[f] = "library"
    BY <1>0, <1>5 DEF DeleteMediaFiles, FindsPromoted
  <2>3. deletion' = [deletion EXCEPT !.pc = "row"] \/ deletion' = DeletionIdle
    BY <1>5 DEF DeleteMediaFiles
  <2>4. Types'
    BY <2>1 DEF IInv, Types
  <2>5. Shapes' /\ FindsPromoted'
    <3>1. CASE deletion' = [deletion EXCEPT !.pc = "row"]
      BY <1>0, <2>1, <3>1 DEF Shapes, FindsPromoted
    <3>2. CASE deletion' = DeletionIdle
      BY <1>0, <2>1, <3>2 DEF Shapes, FindsPromoted, DeletionIdle
    <3> QED
      BY <2>3, <3>1, <3>2
  <2>6. /\ ts' \subseteq ts /\ ts \ ts' \subseteq {f} /\ f \notin ts'
        /\ \A g \in File : mp4'[g] # mp4[g] => g \in {f} /\ mp4'[g] = "none"
        /\ \A g \in File : temp'[g] = temp[g] \/ temp'[g] = "none"
        /\ mp4'[f] = "none" /\ temp'[f] = "none"
    BY <2>1, <2>2 DEF IInv, Types
  <2>7. /\ erased' \subseteq (erased \cup {f}) /\ erased \subseteq erased'
        /\ \A g \in ErasedNow : g = f
        /\ f \in escaped' \/ ~ Opened(f)
    BY <2>1 DEF ErasedNow
  <2> HIDE DEF f
  <2> QED
    BY <2>1, <2>2, <2>4, <2>5, <2>6, <2>7, Dropping
<1>6. CASE DeleteRecordingRow
  <2>1. UNCHANGED <<short, phase, disk, history, conv, cache>> /\ deletion' = DeletionIdle
    BY <1>6 DEF DeleteRecordingRow
  <2>2. Shapes' /\ FindsPromoted'
    BY <1>0, <2>1 DEF Shapes, FindsPromoted, DeletionIdle
  <2> QED
    BY <2>1, <2>2, FilesUntouched DEF IInv, ConvertedFirst, TakenOver, OnlyFragments, OpensNone
<1> QED
  BY <1>1, <1>2, <1>3, <1>4, <1>5, <1>6 DEF HandlerStep

\* The writer, the promotion, time, the settings and a restart.
LEMMA WorldKeeps ==
  ASSUME IInv,
         \/ \E f \in File : IndexStopped(f) \/ Promote(f) \/ Rest(f) \/ Close(f) \/ Expire(f)
         \/ ChangeSetting \/ Restart
  PROVE  IInv'
<1>1. ASSUME NEW f \in File, IndexStopped(f) \/ Rest(f) \/ Expire(f) PROVE IInv'
  BY <1>1, ActorsRest DEF IndexStopped, Rest, Expire
<1>2. CASE ChangeSetting
  BY <1>2, ActorsRest DEF ChangeSetting
<1>3. ASSUME NEW f \in File, Promote(f) PROVE IInv'
  <2>1. /\ UNCHANGED <<short, mp4, temp, history, conv, cache, deletion>>
        /\ phase[f] = "closed" /\ ts' = ts \cup {f}
        /\ phase' = [phase EXCEPT ![f] = "library"]
    BY <1>3 DEF Promote
  <2>2. Types' /\ Shapes'
    BY <2>1 DEF IInv, Types, Shapes
  <2>3. \A g \in File : phase'[g] = IF g = f THEN "library" ELSE phase[g]
    BY <2>1 DEF IInv, Types
  <2>4. f \notin erased
    BY <2>1 DEF IInv, FilesArePromoted
  <2>5. FootageKept' /\ ErasedStaysErased' /\ FilesArePromoted' /\ NoOutputLeft'
    BY <2>1, <2>3, <2>4 DEF IInv, FootageKept, ErasedStaysErased, FilesArePromoted, HasFile,
      NoOutputLeft, Opened
  <2>6. OpenedIsPromoted'
    BY <2>1, <2>3 DEF IInv, OpenedIsPromoted, Opened
  <2> QED
    BY <2>1, <2>2, <2>3, <2>5, <2>6 DEF IInv, ConvertedFirst, TakenOver, OnlyFragments, FindsPromoted
<1>4. ASSUME NEW f \in File, Close(f) PROVE IInv'
  <2>1. /\ UNCHANGED <<short, disk, history, conv, cache, deletion>>
        /\ phase[f] = "recording" /\ phase' = [phase EXCEPT ![f] = "closed"]
    BY <1>4 DEF Close
  <2>2. Types' /\ Shapes'
    BY <2>1 DEF IInv, Types, Shapes
  <2>3. \A g \in File : (phase'[g] = "library") = (phase[g] = "library")
    BY <2>1 DEF IInv, Types
  <2> QED
    BY <2>1, <2>2, <2>3 DEF IInv, FootageKept, ErasedStaysErased, ConvertedFirst, TakenOver,
      OnlyFragments, FilesArePromoted, HasFile, FindsPromoted, NoOutputLeft, OpenedIsPromoted, Opened
<1>5. CASE Restart
  <2>1. /\ UNCHANGED <<short, ts, mp4, history>>
        /\ conv' = [ConvIdle EXCEPT !.pc = "boot"]
        /\ cache' = CacheIdle /\ deletion' = DeletionIdle
    BY <1>5 DEF Restart
  <2>2. Shapes' /\ ConvertedFirst' /\ OnlyFragments' /\ FindsPromoted'
    BY <2>1 DEF Shapes, ConvertedFirst, Unlinking, OnlyFragments, FindsPromoted, ConvIdle,
      CacheIdle, DeletionIdle
  <2>4. Types'
    BY <1>5 DEF Restart, IInv, Types
  <2>3. \A g \in File : /\ (phase'[g] = "library") = (phase[g] = "library")
                        /\ temp'[g] # "work" /\ (temp'[g] # "none" => temp[g] # "none")
    BY <1>5 DEF Restart, IInv, Types
  <2> QED
    BY <2>1, <2>2, <2>3, <2>4 DEF IInv, FootageKept, ErasedStaysErased, FilesArePromoted,
       HasFile,
      NoOutputLeft, OpenedIsPromoted, Opened, ConvIdle
<1> QED
  BY <1>1, <1>2, <1>3, <1>4, <1>5

-----------------------------------------------------------------------------
\* Every step keeps the invariant.
LEMMA NextIInv == IInv /\ [Next]_vars => IInv'
<1> SUFFICES ASSUME IInv, [Next]_vars PROVE IInv'
  OBVIOUS
<1>1. CASE Next
  BY <1>1, ConvKeeps, CacheKeeps, SweepKeeps, HandlersKeep, WorldKeeps DEF Next, Underway
<1>2. CASE UNCHANGED vars
  BY <1>2, ActorsRest DEF vars
<1> QED
  BY <1>1, <1>2

\* A recording that was long enough is never lost: until somebody wants it gone its TS or
\* a complete MP4 is in the library, whatever the conversion, the monitor, the retention,
\* the handlers and restarts interleave.
THEOREM FootageIsKept == Spec => []FootageKept
<1>1. IInv => FootageKept
  BY DEF IInv
<1> QED
  BY <1>1, InitIInv, NextIInv, PTL DEF Spec

\* What was deleted on the Media page does not come back, neither from a conversion that
\* was underway nor from the staging disk; only where ffmpeg had opened the TS and was yet
\* to create its output the MP4 may, and not the TS.
THEOREM ErasedIsErased == Spec => []ErasedStaysErased
<1>1. IInv => ErasedStaysErased
  BY DEF IInv
<1> QED
  BY <1>1, InitIInv, NextIInv, PTL DEF Spec

----------------------------------------------------------------------------
(* The videos of the imports folder.  While nothing disturbed a video, one *)
(* actor at a time converts it, under the name <id>.tmp.mp4, and a row     *)
(* that names the version in the folder was written by a conversion that   *)
(* read this version: versions only grow, and a conversion reads the       *)
(* folder after its version was taken.                                     *)

\* The shapes of the state.
RowType == [version : Nat, plays : {"nothing", "source", "copy"}, status : {"ready", "failed"},
            meta : BOOLEAN] \cup {None}
OutputType == [of : Nat, whole : BOOLEAN]
ActorType ==
  [pc : {"idle", "gone", "files", "probe", "ffmpeg"}, rows : [Video -> RowType],
   todo : SUBSET Video, file : Video \cup {None}, version : Nat, meta : BOOLEAN, reads : Nat]

ImportTypes ==
  /\ src \in [Video -> Nat] /\ drops \in [Video -> Nat]
  /\ imported \in [Video -> RowType] /\ copy \in [Video -> OutputType]
  /\ actor \in [Imports!Actor -> ActorType]
  /\ out \in [Imports!Actor -> {"none", "temp", "copy", "unnamed"}]
  /\ temporary \in [Video -> Imports!Actor \cup {"none", "left"}]

\* What an actor is at: the version it looks at, and the one its ffmpeg reads.
Converts(x, f) == x.pc = "ffmpeg" /\ x.file = f
Working(x) ==
  x.pc \in {"probe", "ffmpeg"} =>
    /\ x.file \in Video
    /\ x.version # 0 /\ x.version <= drops[x.file]
    /\ x.pc = "ffmpeg" /\ x.reads # 0 => x.version <= x.reads /\ x.reads <= drops[x.file]
    /\ x.pc = "ffmpeg" => Imports!NeedsCopy(x.file)

\* A row, as it is or as an actor read it before.
Known(r, f) ==
  r # None =>
    /\ r.version # 0 /\ r.version <= drops[f]
    /\ Imports!NeedsCopy(f) <=> r.plays # "source"
    /\ f \notin disturbed /\ r.version = src[f] /\ Imports!NeedsCopy(f) =>
         /\ copy[f] # Imports!NoOutput => copy[f].of = src[f]
         /\ r.plays = "copy" /\ r.status = "ready" => copy[f] # Imports!NoOutput
         /\ \A b \in Imports!Actor : Converts(actor[b], f) /\ actor[b].reads # 0
              => actor[b].reads = src[f]

\* One video: what names its output, what its rows say, and who makes its copy.
AtFile(f) ==
  /\ src[f] \in {0, drops[f]}
  /\ \A b \in Imports!Actor : temporary[f] = b => Converts(actor[b], f)
  /\ Known(imported[f], f)
  /\ \A b \in Imports!Actor : Known(actor[b].rows[f], f)
  /\ f \notin disturbed =>
       /\ copy[f] # Imports!NoOutput => copy[f].whole
       /\ \A b \in Imports!Actor : Converts(actor[b], f) => out[b] = "temp" /\ temporary[f] = b

\* The inductive invariant of the imports.
ImportInv ==
  /\ ImportTypes
  /\ \A b \in Imports!Actor : Working(actor[b])
  /\ \A f \in Video : AtFile(f)

\* What an actor at rest and a missing copy are.
LEMMA IdleType ==
  /\ Imports!Idle \in ActorType /\ Imports!Idle.pc = "idle"
  /\ \A f \in Video : Imports!Idle.rows[f] = None
  /\ Imports!NoOutput \in OutputType
BY DEF Imports!Idle, ActorType, RowType, Imports!NoOutput, OutputType

\* It holds at the beginning.
LEMMA InitImports == Imports!Init => ImportInv
<1> SUFFICES ASSUME Imports!Init PROVE ImportInv
  OBVIOUS
<1>1. ImportTypes
  BY IdleType DEF Imports!Init, ImportTypes, RowType
<1>2. ASSUME NEW f \in Video PROVE AtFile(f)
  BY IdleType DEF Imports!Init, AtFile, Known, Converts, Imports!Actor
<1>3. \A b \in Imports!Actor : Working(actor[b])
  BY IdleType DEF Imports!Init, Working
<1> QED BY <1>1, <1>2, <1>3 DEF ImportInv

\* Nothing changes for a file.
LEMMA FileKeeps ==
  ASSUME NEW f \in Video, AtFile(f), kind' = kind,
         src'[f] = src[f], drops'[f] = drops[f], copy'[f] = copy[f], temporary'[f] = temporary[f],
         f \in disturbed => f \in disturbed',
         imported'[f] \in {imported[f], None},
         \A b \in Imports!Actor :
           /\ actor'[b].rows[f] \in {imported[f], actor[b].rows[f], None}
           /\ Converts(actor'[b], f) <=> Converts(actor[b], f)
           /\ Converts(actor[b], f) => actor'[b].reads = actor[b].reads /\ out'[b] = out[b]
  PROVE  AtFile(f)'
<1>1. Imports!NeedsCopy(f)' <=> Imports!NeedsCopy(f)
  BY DEF Imports!NeedsCopy
<1>2. ASSUME NEW r, Known(r, f) PROVE Known(r, f)'
  BY <1>1, <1>2 DEF Known, Converts
<1>3. Known(None, f)
  BY DEF Known
<1>4. PICK r : r = imported'[f]
  OBVIOUS
<1>5. Known(r, f)'
  BY <1>2, <1>3, <1>4 DEF AtFile
<1>6. ASSUME NEW b \in Imports!Actor PROVE Known(actor[b].rows[f], f)'
  <2>1. PICK q : q = actor'[b].rows[f]
    OBVIOUS
  <2>2. Known(q, f)'
    BY <1>2, <1>3, <2>1 DEF AtFile
  <2> QED BY <2>1, <2>2
<1>7. Known(imported[f], f)'
  BY <1>4, <1>5
<1> QED BY <1>6, <1>7 DEF AtFile, Converts

\* An actor that converts nothing goes on, and no file, row or video changes.
LEMMA MoveKeeps ==
  ASSUME ImportInv, NEW a \in Imports!Actor, actor[a].pc # "ffmpeg",
         NEW x \in ActorType, actor' = [actor EXCEPT ![a] = x], x.pc # "ffmpeg",
         Working(x), \A f \in Video : x.rows[f] \in {imported[f], actor[a].rows[f], None},
         UNCHANGED <<kind, src, drops, imported, copy, temporary, out, disturbed>>
  PROVE  ImportInv'
<1>1. /\ actor \in [Imports!Actor -> ActorType] /\ actor'[a] = x
      /\ \A b \in Imports!Actor \ {a} : actor'[b] = actor[b]
  BY DEF ImportInv, ImportTypes
<1>2. ImportTypes'
  BY <1>1 DEF ImportInv, ImportTypes
<1>3. ASSUME NEW b \in Imports!Actor PROVE Working(actor[b])'
  BY <1>1 DEF ImportInv, Working, Imports!NeedsCopy
<1>4. ASSUME NEW f \in Video PROVE AtFile(f)'
  BY <1>1, FileKeeps DEF ImportInv, Converts
<1> QED BY <1>2, <1>3, <1>4 DEF ImportInv

\* A video appears, changes or goes: no row names it.
LEMMA NewFileKeeps ==
  ASSUME ImportInv, NEW f \in Video, kind' = kind,
         src'[f] \in {0, drops'[f]}, drops'[f] \in Nat, drops[f] <= drops'[f],
         src'[f] = 0 \/ drops[f] < src'[f],
         copy'[f] \in {copy[f], Imports!NoOutput}, temporary'[f] = temporary[f],
         f \in disturbed => f \in disturbed',
         imported'[f] \in {imported[f], None},
         \A b \in Imports!Actor :
           /\ actor'[b].rows[f] \in {imported[f], actor[b].rows[f], None}
           /\ Converts(actor'[b], f) <=> Converts(actor[b], f)
           /\ Converts(actor[b], f) /\ out[b] = "temp" => out'[b] = "temp"
  PROVE  AtFile(f)'
<1>0. AtFile(f) /\ drops[f] \in Nat
  BY DEF ImportInv, ImportTypes
<1>1. Imports!NeedsCopy(f)' <=> Imports!NeedsCopy(f)
  BY DEF Imports!NeedsCopy
<1>2. ASSUME NEW r \in RowType, Known(r, f) PROVE Known(r, f)'
  <2>1. r # None => r.version \in Nat /\ r.version <= drops[f]
    BY <1>2 DEF RowType, Known
  <2>2. r # None => r.version # src'[f] /\ r.version <= drops'[f]
    BY <1>0, <1>2, <2>1 DEF Known
  <2> QED BY <1>1, <1>2, <2>2 DEF Known
<1>3. Known(None, f) /\ None \in RowType
  BY DEF Known, RowType
<1>4. imported[f] \in RowType /\ \A b \in Imports!Actor : actor[b].rows[f] \in RowType
  BY DEF ImportInv, ImportTypes, ActorType
<1>5. PICK r : r = imported'[f]
  OBVIOUS
<1>6. Known(r, f)'
  BY <1>0, <1>2, <1>3, <1>4, <1>5 DEF AtFile
<1>7. ASSUME NEW b \in Imports!Actor PROVE Known(actor[b].rows[f], f)'
  <2>1. PICK q : q = actor'[b].rows[f]
    OBVIOUS
  <2>2. Known(q, f)'
    BY <1>0, <1>2, <1>3, <1>4, <2>1 DEF AtFile
  <2> QED BY <2>1, <2>2
<1>8. Known(imported[f], f)'
  BY <1>5, <1>6
<1> QED BY <1>0, <1>7, <1>8 DEF AtFile, Converts

\* The user's steps.
LEMMA DropKeeps ==
  ASSUME ImportInv, NEW f \in Video, Imports!Drop(f) \/ Imports!TakeAway(f)
  PROVE  ImportInv'
<1>1. /\ src \in [Video -> Nat] /\ drops \in [Video -> Nat]
      /\ UNCHANGED <<kind, imported, copy, temporary, out, actor, disturbed>>
  BY DEF Imports!Drop, Imports!TakeAway, Imports!Files, ImportInv, ImportTypes
<1>2. /\ src' \in [Video -> Nat] /\ drops' \in [Video -> Nat]
      /\ \A g \in Video \ {f} : src'[g] = src[g] /\ drops'[g] = drops[g]
      /\ drops'[f] \in Nat /\ drops[f] <= drops'[f] /\ src'[f] \in {0, drops'[f]}
      /\ src'[f] = 0 \/ drops[f] < src'[f]
  BY <1>1 DEF Imports!Drop, Imports!TakeAway
<1>3. ImportTypes'
  BY <1>1, <1>2 DEF ImportInv, ImportTypes
<1>4. ASSUME NEW b \in Imports!Actor PROVE Working(actor[b])'
  <2>1. PICK x : x = actor[b]
    OBVIOUS
  <2>2. x \in ActorType /\ Working(x) /\ x = actor'[b]
    BY <1>1, <2>1 DEF ImportInv, ImportTypes
  <2>3. \A g \in Video : drops[g] \in Nat /\ drops'[g] \in Nat /\ drops[g] <= drops'[g]
    BY <1>1, <1>2
  <2>4. x.version \in Nat /\ x.reads \in Nat
    BY <2>2 DEF ActorType
  <2>5. Working(x)'
    BY <1>1, <2>2, <2>3, <2>4 DEF Working, Imports!NeedsCopy
  <2> QED BY <2>2, <2>5
<1>5. ASSUME NEW g \in Video PROVE AtFile(g)'
  <2>1. CASE g = f
    BY <1>1, <1>2, <2>1, NewFileKeeps
  <2>2. CASE g # f
    BY <1>1, <1>2, <2>2, FileKeeps DEF ImportInv
  <2> QED BY <2>1, <2>2
<1> QED BY <1>3, <1>4, <1>5 DEF ImportInv

\* The copy of a video that is gone is unlinked, and its row.
LEMMA GoneKeeps ==
  ASSUME ImportInv, NEW f, NEW r, Imports!CopyGone(f, r), src' = [src EXCEPT ![f] = 0],
         imported' = imported \/ Imports!DeleteRow(f),
         actor' = actor \/ \E a \in Imports!Actor : \E x \in ActorType :
           /\ actor' = [actor EXCEPT ![a] = x] /\ x.pc \notin {"probe", "ffmpeg"}
           /\ actor[a].pc # "ffmpeg"
           /\ \A g \in Video : x.rows[g] \in {actor[a].rows[g], None},
         UNCHANGED <<kind, drops, temporary, disturbed>>
  PROVE  ImportInv'
<1>1. ImportTypes
  BY DEF ImportInv
<1>2. /\ copy' \in [Video -> OutputType] /\ \A g \in Video \ {f} : copy'[g] = copy[g]
      /\ f \in Video => copy'[f] \in {copy[f], Imports!NoOutput}
  BY <1>1, IdleType DEF Imports!CopyGone, ImportTypes
<1>3. /\ out' \in [Imports!Actor -> {"none", "temp", "copy", "unnamed"}]
      /\ \A b \in Imports!Actor : out'[b] # out[b] => out[b] = "copy" /\ actor[b].file = f
  <2>1. CASE Imports!PlaysOf(r) = "copy"
    BY <1>1, <2>1 DEF Imports!CopyGone, ImportTypes
  <2>2. CASE Imports!PlaysOf(r) # "copy"
    BY <1>1, <2>2 DEF Imports!CopyGone, ImportTypes
  <2> QED BY <2>1, <2>2
<1>4. /\ src' \in [Video -> Nat] /\ \A g \in Video \ {f} : src'[g] = src[g]
      /\ f \in Video => src'[f] = 0
  BY <1>1 DEF ImportTypes
<1>5. /\ imported' \in [Video -> RowType]
      /\ \A g \in Video :
           /\ imported'[g] \in {imported[g], None}
           /\ g # f => imported'[g] = imported[g]
  BY <1>1 DEF ImportTypes, Imports!DeleteRow, RowType
<1>6. /\ actor' \in [Imports!Actor -> ActorType]
      /\ \A b \in Imports!Actor :
           \/ actor'[b] = actor[b]
           \/ /\ actor'[b].pc \notin {"probe", "ffmpeg"} /\ actor[b].pc # "ffmpeg"
              /\ \A g \in Video : actor'[b].rows[g] \in {actor[b].rows[g], None}
  BY <1>1 DEF ImportTypes
<1>7. \A b \in Imports!Actor, g \in Video :
        /\ actor'[b].rows[g] \in {imported[g], actor[b].rows[g], None}
        /\ Converts(actor'[b], g) <=> Converts(actor[b], g)
        /\ Converts(actor[b], g) => actor'[b].reads = actor[b].reads
        /\ Converts(actor[b], g) /\ out[b] = "temp" => out'[b] = "temp"
        /\ Converts(actor[b], g) /\ g # f => out'[b] = out[b]
  BY <1>3, <1>6 DEF Converts
<1>8. ImportTypes'
  BY <1>1, <1>2, <1>3, <1>4, <1>5, <1>6 DEF ImportTypes
<1>9. ASSUME NEW b \in Imports!Actor PROVE Working(actor[b])'
  BY <1>6 DEF ImportInv, Working, Imports!NeedsCopy
<1>10. ASSUME NEW g \in Video PROVE AtFile(g)'
  <2>1. CASE g = f
    <3>1. drops[f] \in Nat /\ drops'[f] = drops[f]
      BY <1>1, <2>1 DEF ImportTypes
    <3> QED BY <1>2, <1>4, <1>5, <1>7, <2>1, <3>1, NewFileKeeps
  <2>2. CASE g # f
    BY <1>2, <1>4, <1>5, <1>7, <2>2, FileKeeps DEF ImportInv
  <2> QED BY <2>1, <2>2
<1> QED BY <1>8, <1>9, <1>10 DEF ImportInv

\* Every actor idle again, and the outputs left to nobody.
LEMMA RestartKeeps ==
  ASSUME ImportInv, Imports!Restart
  PROVE  ImportInv'
<1>1. ImportTypes /\ UNCHANGED <<kind, src, drops, imported, copy, disturbed>>
  BY DEF ImportInv, Imports!Restart
<1>2. /\ actor' = [b \in Imports!Actor |-> Imports!Idle]
      /\ out' = [b \in Imports!Actor |-> "none"]
      /\ temporary' = [f \in Video |-> IF temporary[f] \in Imports!Actor
           THEN "left" ELSE temporary[f]]
  BY DEF Imports!Restart
<1>3. ImportTypes'
  BY <1>1, <1>2, IdleType DEF ImportTypes
<1>4. \A b \in Imports!Actor : actor'[b] = Imports!Idle
  BY <1>2
<1>5. ASSUME NEW b \in Imports!Actor PROVE Working(actor[b])'
  BY <1>4, IdleType DEF Working
<1>6. ASSUME NEW f \in Video PROVE AtFile(f)'
  <2>1. \A b \in Imports!Actor : ~Converts(actor'[b], f) /\ actor'[b].rows[f] = None
    BY <1>4, IdleType DEF Converts
  <2>2. Imports!NeedsCopy(f)' <=> Imports!NeedsCopy(f)
    BY <1>1 DEF Imports!NeedsCopy
  <2>3. temporary'[f] \notin Imports!Actor
    BY <1>1, <1>2 DEF ImportTypes, Imports!Actor
  <2>4. AtFile(f)
    BY DEF ImportInv
  <2>5. PICK r : r = imported[f]
    OBVIOUS
  <2>6. Known(r, f)'
    BY <1>1, <2>1, <2>2, <2>4, <2>5 DEF Known, AtFile, Converts
  <2>7. \A b \in Imports!Actor : Known(actor[b].rows[f], f)'
    BY <2>1 DEF Known
  <2>8. Known(imported[f], f)'
    BY <1>1, <2>5, <2>6
  <2>9. \A b \in Imports!Actor : ~Converts(actor[b], f)'
    BY <2>1 DEF Converts
  <2> QED BY <1>1, <2>3, <2>4, <2>7, <2>8, <2>9 DEF AtFile
<1> QED BY <1>3, <1>5, <1>6 DEF ImportInv

\* The end of the work on a file: what the row says, and where the actor goes on.
LEMMA WroteEnds ==
  ASSUME ImportInv, NEW a \in Imports!Actor, actor[a].pc \in {"probe", "ffmpeg"},
         NEW plays \in {"nothing", "source", "copy"}, NEW status \in {"ready", "failed"},
         Imports!Wrote(a, plays, status), UNCHANGED <<kind, src, drops>>
  PROVE  LET f == actor[a].file
         IN  /\ f \in Video
             /\ imported' \in [Video -> RowType]
             /\ \A g \in Video \ {f} : imported'[g] = imported[g]
             /\ imported'[f].version = actor[a].version /\ imported'[f].status = status
             /\ \/ imported'[f].plays = plays
                \/ plays = "nothing" /\ imported[f] # None /\ imported'[f].plays = imported[f].plays
             /\ actor' \in [Imports!Actor -> ActorType]
             /\ \A b \in Imports!Actor \ {a} : actor'[b] = actor[b]
             /\ actor'[a].pc = "files"
             /\ \A g \in Video : actor'[a].rows[g] \in {actor[a].rows[g], None}
             /\ \A b \in Imports!Actor : Working(actor[b])'
<1> DEFINE f == actor[a].file
<1>1. /\ actor \in [Imports!Actor -> ActorType] /\ imported \in [Video -> RowType]
      /\ f \in Video /\ actor[a].version \in Nat /\ actor[a].meta \in BOOLEAN
      /\ actor[a].rows \in [Video -> RowType] /\ actor[a].todo \subseteq Video
  BY DEF ImportInv, ImportTypes, Working, ActorType
<1>2. PICK replace \in BOOLEAN :
        Imports!Upsert(f, actor[a].version, plays, status, actor[a].meta, replace)
  BY DEF Imports!Wrote, Imports!Changed
<1>3. Imports!To(a, [Imports!Idle EXCEPT !.pc = "files", !.todo = actor[a].todo,
                        !.rows = [actor[a].rows EXCEPT ![f] = None]])
  BY DEF Imports!Wrote
<1> DEFINE x == [Imports!Idle EXCEPT !.pc = "files", !.todo = actor[a].todo,
                             !.rows = [actor[a].rows EXCEPT ![f] = None]]
<1>4. x \in ActorType /\ x.pc = "files" /\ \A g \in Video : x.rows[g] \in {actor[a].rows[g], None}
  BY <1>1 DEF Imports!Idle, ActorType, RowType
<1>5. actor' = [actor EXCEPT ![a] = x]
  BY <1>3 DEF Imports!To
<1> HIDE DEF x
<1>6. /\ actor' \in [Imports!Actor -> ActorType]
      /\ \A b \in Imports!Actor \ {a} : actor'[b] = actor[b]
      /\ actor'[a] = x
  BY <1>1, <1>4, <1>5
<1>7. \A b \in Imports!Actor : Working(actor[b])'
  BY <1>4, <1>6 DEF ImportInv, Working, Imports!NeedsCopy
<1> DEFINE p == IF plays = "nothing" /\ imported[f] # None /\ ~replace
      THEN imported[f].plays ELSE plays
           y == [version |-> actor[a].version, plays |-> p, status |-> status,
             meta |-> actor[a].meta]
<1>8. imported' = [imported EXCEPT ![f] = y]
  BY <1>2 DEF Imports!Upsert
<1> HIDE DEF f
<1>9. \/ p = plays
      \/ plays = "nothing" /\ imported[f] # None /\ p = imported[f].plays
  OBVIOUS
<1>10. p \in {"nothing", "source", "copy"}
  BY <1>1, <1>9 DEF RowType
<1> HIDE DEF p
<1>11. y \in RowType
  BY <1>1, <1>10 DEF RowType
<1>12. /\ imported' \in [Video -> RowType] /\ \A g \in Video \ {f} : imported'[g] = imported[g]
       /\ imported'[f].version = actor[a].version /\ imported'[f].status = status
       /\ imported'[f].plays = p
  BY <1>1, <1>8, <1>11
<1> QED BY <1>1, <1>4, <1>6, <1>7, <1>9, <1>12 DEF f

\* A row is written without a conversion: of the copy that is there, or of the video.
LEMMA PlaceKeeps ==
  ASSUME ImportInv, NEW a \in Imports!Actor, Imports!PlaceImport(a)
  PROVE  ImportInv'
<1>a. PICK f : f = actor[a].file
  OBVIOUS
<1>b. PICK r : r = actor[a].rows[f]
  OBVIOUS
<1>c. PICK plays : plays = IF kind[f] = "direct" THEN "source" ELSE "copy"
  OBVIOUS
<1>d. PICK status :
        status = IF a = "list" /\ r # None /\ ~Imports!Changed(r, actor[a].version)
                    /\ kind[f] # "late"
                 THEN r.status ELSE "ready"
  OBVIOUS
<1>1. /\ actor[a].pc = "probe" /\ Imports!Placed(a) /\ Imports!Wrote(a, plays, status)
      /\ UNCHANGED <<kind, src, drops, copy, temporary, out, disturbed>>
  BY <1>a, <1>b, <1>c, <1>d DEF Imports!PlaceImport, Imports!Files
<1>2. /\ f \in Video /\ r \in RowType /\ Known(r, f) /\ AtFile(f) /\ ImportTypes
      /\ actor[a].version \in Nat /\ actor[a].version # 0 /\ actor[a].version <= drops[f]
  BY <1>1, <1>a, <1>b DEF ImportInv, ImportTypes, Working, ActorType, AtFile
<1>3. /\ plays \in {"nothing", "source", "copy"} /\ plays # "nothing"
      /\ status \in {"ready", "failed"}
  BY <1>2, <1>c, <1>d DEF RowType
<1>4. /\ imported' \in [Video -> RowType] /\ \A g \in Video \ {f} : imported'[g] = imported[g]
      /\ imported'[f].version = actor[a].version /\ imported'[f].status = status
      /\ imported'[f].plays = plays
      /\ actor' \in [Imports!Actor -> ActorType]
      /\ \A b \in Imports!Actor \ {a} : actor'[b] = actor[b]
      /\ actor'[a].pc = "files"
      /\ \A g \in Video : actor'[a].rows[g] \in {actor[a].rows[g], None}
      /\ \A b \in Imports!Actor : Working(actor[b])'
  BY <1>1, <1>3, <1>a, WroteEnds
<1>5. ImportTypes'
  BY <1>1, <1>2, <1>4 DEF ImportTypes
<1>6. \A b \in Imports!Actor, g \in Video :
        /\ actor'[b].rows[g] \in {actor[b].rows[g], None}
        /\ Converts(actor'[b], g) <=> Converts(actor[b], g)
        /\ Converts(actor[b], g) => actor'[b].reads = actor[b].reads /\ out'[b] = out[b]
  BY <1>1, <1>4 DEF Converts
<1>7. ASSUME NEW g \in Video, g # f PROVE AtFile(g)'
  BY <1>1, <1>4, <1>6, <1>7, FileKeeps DEF ImportInv
<1>8. Imports!NeedsCopy(f)' <=> Imports!NeedsCopy(f)
  BY <1>1 DEF Imports!NeedsCopy
<1>9. ASSUME NEW q, Known(q, f) PROVE Known(q, f)'
  BY <1>1, <1>6, <1>8, <1>9, <1>2 DEF Known, Converts
<1>10. ASSUME Imports!NeedsCopy(f)
       PROVE  /\ r # None /\ r.version = actor[a].version
              /\ status = "ready" => copy[f] # Imports!NoOutput \/ (r.plays = "copy" /\ r.status = "ready")
  <2>1. \/ (a = "scan" \/ kind[f] = "late") /\ Imports!CachedCopy(f, r, actor[a].version)
        \/ /\ a = "list" /\ kind[f] = "container"
           /\ Imports!PlaysOf(r) # "nothing" /\ ~Imports!Changed(r, actor[a].version)
    BY <1>1, <1>10, <1>a, <1>b DEF Imports!Placed, Imports!NeedsCopy
  <2>2. CASE Imports!CachedCopy(f, r, actor[a].version)
    BY <2>2 DEF Imports!CachedCopy, Imports!Changed
  <2>3. CASE /\ a = "list" /\ kind[f] = "container"
             /\ Imports!PlaysOf(r) # "nothing" /\ ~Imports!Changed(r, actor[a].version)
    <3>1. r # None /\ r.plays # "nothing"
      BY <2>3 DEF Imports!PlaysOf
    <3>2. r.plays = "copy"
      BY <1>2, <1>10, <3>1 DEF Known, RowType
    <3>3. status = r.status
      BY <1>d, <2>3, <3>1
    <3> QED BY <2>3, <3>1, <3>2, <3>3 DEF Imports!Changed
  <2> QED BY <2>1, <2>2, <2>3
<1>11. PICK y : y = imported'[f]
  OBVIOUS
<1>12. Known(y, f)'
  <2>1. /\ y.version # 0 /\ y.version <= drops'[f] /\ y.version = actor[a].version
        /\ y.status = status
    BY <1>1, <1>2, <1>4, <1>11
  <2>2. Imports!NeedsCopy(f) <=> y.plays # "source"
    BY <1>4, <1>11, <1>c DEF Imports!NeedsCopy
  <2>3. ASSUME f \notin disturbed, y.version = src[f], Imports!NeedsCopy(f)
        PROVE  /\ copy[f] # Imports!NoOutput => copy[f].of = src[f]
               /\ y.status = "ready" => copy[f] # Imports!NoOutput
               /\ \A b \in Imports!Actor : Converts(actor[b], f) /\ actor[b].reads # 0
                                     => actor[b].reads = src[f]
    <3>1. r # None /\ r.version = src[f]
      BY <1>10, <2>1, <2>3
    <3>2. /\ copy[f] # Imports!NoOutput => copy[f].of = src[f]
          /\ r.plays = "copy" /\ r.status = "ready" => copy[f] # Imports!NoOutput
          /\ \A b \in Imports!Actor : Converts(actor[b], f) /\ actor[b].reads # 0
               => actor[b].reads = src[f]
      BY <1>2, <2>3, <3>1 DEF Known
    <3>3. status = "ready" => copy[f] # Imports!NoOutput
      BY <1>10, <2>3, <3>2
    <3> QED BY <2>1, <3>2, <3>3
  <2>4. \A b \in Imports!Actor : Converts(actor'[b], f)
          => Converts(actor[b], f) /\ actor'[b].reads = actor[b].reads
    BY <1>2, <1>6
  <2>5. ASSUME f \notin disturbed', y.version = src'[f], Imports!NeedsCopy(f)'
        PROVE  /\ copy'[f] # Imports!NoOutput => copy'[f].of = src'[f]
               /\ y.plays = "copy" /\ y.status = "ready" => copy'[f] # Imports!NoOutput
               /\ \A b \in Imports!Actor : Converts(actor'[b], f) /\ actor'[b].reads # 0
                                     => actor'[b].reads = src'[f]
    BY <1>1, <1>8, <2>3, <2>4, <2>5
  <2> QED BY <1>8, <2>1, <2>2, <2>5 DEF Known, Converts
<1>13. AtFile(f)'
  <2>1. \A b \in Imports!Actor : Known(actor[b].rows[f], f)'
    <3> TAKE b \in Imports!Actor
    <3>1. PICK q : q = actor'[b].rows[f]
      OBVIOUS
    <3>2. Known(q, f)'
      BY <1>2, <1>6, <1>9, <3>1 DEF AtFile, Known
    <3> QED BY <3>1, <3>2
  <2>2. Known(imported[f], f)'
    BY <1>11, <1>12
  <2> QED BY <1>1, <1>2, <1>6, <2>1, <2>2 DEF AtFile, Converts
<1> QED BY <1>4, <1>5, <1>7, <1>13 DEF ImportInv

\* The output of one actor at a time has the name <id>.tmp.mp4.
LEMMA TempIsOfTheFile ==
  ASSUME ImportInv, NEW f \in Video, NEW g \in Video, g # f,
    NEW b \in Imports!Actor, Converts(actor[b], g)
  PROVE  temporary[f] # b
BY DEF ImportInv, AtFile, Converts

\* Of a file nobody disturbed one actor makes a copy, and of the video it has begun with.
LEMMA BeginKeeps ==
  ASSUME ImportInv, NEW a \in Imports!Actor, Imports!ConvertBegins(a)
  PROVE  ImportInv'
<1>1. PICK f : f = actor[a].file
  OBVIOUS
<1>2. PICK x : x = [actor[a] EXCEPT !.pc = "ffmpeg", !.reads = src[f]]
  OBVIOUS
<1>3. /\ actor[a].pc = "probe" /\ Imports!NeedsCopy(f) /\ actor' = [actor EXCEPT ![a] = x]
      /\ out' = [b \in Imports!Actor |-> IF b = a THEN "temp" ELSE IF temporary[f] = b
           THEN "unnamed" ELSE out[b]]
      /\ temporary' = [temporary EXCEPT ![f] = a]
      /\ disturbed' = IF \E b \in Imports!Actor \ {a} :
           actor[b].pc = "ffmpeg" /\ actor[b].file = f
                      THEN disturbed \cup {f} ELSE disturbed
      /\ UNCHANGED <<kind, src, drops, imported, copy>>
  BY <1>1, <1>2 DEF Imports!ConvertBegins, Imports!To
<1>4. /\ ImportTypes /\ f \in Video /\ actor[a] \in ActorType /\ AtFile(f) /\ src[f] \in Nat
      /\ actor[a].version # 0 /\ actor[a].version <= drops[f] /\ drops[f] \in Nat
  BY <1>1, <1>3 DEF ImportInv, ImportTypes, Working
<1>5. /\ x \in ActorType /\ x.pc = "ffmpeg" /\ x.reads = src[f] /\ x.file = f
      /\ x.version = actor[a].version /\ x.rows = actor[a].rows
  BY <1>1, <1>2, <1>4 DEF ActorType
<1>6. /\ actor' \in [Imports!Actor -> ActorType] /\ actor'[a] = x
      /\ \A b \in Imports!Actor \ {a} : actor'[b] = actor[b]
  BY <1>3, <1>4, <1>5 DEF ImportTypes
<1>7. ImportTypes'
  BY <1>3, <1>4, <1>6 DEF ImportTypes
<1>8. ASSUME NEW b \in Imports!Actor PROVE Working(actor[b])'
  <2>1. CASE b = a
    <3>1. src[f] # 0 => src[f] = drops[f]
      BY <1>4 DEF AtFile
    <3> QED BY <1>3, <1>4, <1>5, <1>6, <2>1, <3>1 DEF Working, Imports!NeedsCopy
  <2>2. CASE b # a
    BY <1>3, <1>6, <2>2 DEF ImportInv, Working, Imports!NeedsCopy
  <2> QED BY <2>1, <2>2
<1>9. ASSUME NEW g \in Video, g # f PROVE AtFile(g)'
  <2>1. \A b \in Imports!Actor :
          /\ actor'[b].rows[g] = actor[b].rows[g]
          /\ Converts(actor'[b], g) <=> Converts(actor[b], g)
          /\ Converts(actor[b], g) => b # a /\ actor'[b].reads = actor[b].reads
    BY <1>1, <1>3, <1>5, <1>6, <1>9 DEF Converts
  <2>2. \A b \in Imports!Actor : Converts(actor[b], g) => out'[b] = out[b]
    BY <1>3, <1>4, <1>9, <2>1, TempIsOfTheFile
  <2>3. g \in disturbed => g \in disturbed'
    BY <1>3
  <2>4. temporary'[g] = temporary[g]
    BY <1>3, <1>4, <1>9 DEF ImportTypes
  <2> QED BY <1>3, <1>9, <2>1, <2>2, <2>3, <2>4, FileKeeps DEF ImportInv
<1>10. Imports!NeedsCopy(f)' <=> Imports!NeedsCopy(f)
  BY <1>3 DEF Imports!NeedsCopy
<1>11. f \notin disturbed' =>
         f \notin disturbed /\ \A b \in Imports!Actor \ {a} : ~Converts(actor[b], f)
  BY <1>3 DEF Converts
<1>12. /\ \A b \in Imports!Actor : actor'[b].rows = actor[b].rows
       /\ Converts(x, f)
       /\ f \notin disturbed' => \A b \in Imports!Actor : Converts(actor'[b], f)
            => b = a /\ actor'[b].reads = src[f]
  BY <1>5, <1>6, <1>11 DEF Converts
<1>13. ASSUME NEW r, Known(r, f) PROVE Known(r, f)'
  BY <1>3, <1>10, <1>11, <1>12, <1>13 DEF Known, Converts
<1>14. ASSUME NEW b \in Imports!Actor PROVE Known(actor[b].rows[f], f)'
  <2>1. PICK q : q = actor'[b].rows[f]
    OBVIOUS
  <2>2. Known(q, f)'
    BY <1>4, <1>12, <1>13, <2>1 DEF AtFile
  <2> QED BY <2>1, <2>2
<1>15. PICK y : y = imported[f]
  OBVIOUS
<1>16. Known(y, f)'
  BY <1>4, <1>13, <1>15 DEF AtFile
<1>17. Known(imported[f], f)'
  BY <1>3, <1>15, <1>16
<1>18. \A b \in Imports!Actor : temporary'[f] = b => Converts(actor'[b], f)
  BY <1>3, <1>4, <1>6, <1>12 DEF ImportTypes
<1>19. f \notin disturbed' => \A b \in Imports!Actor : Converts(actor'[b], f)
         => out'[b] = "temp" /\ temporary'[f] = b
  BY <1>3, <1>4, <1>12 DEF ImportTypes
<1>20. AtFile(f)'
  BY <1>3, <1>4, <1>11, <1>14, <1>17, <1>18, <1>19 DEF AtFile, Converts
<1> QED BY <1>7, <1>8, <1>9, <1>20 DEF ImportInv

\* What the end of a conversion leaves, of the files it is not of and of the actors.
LEMMA EndsOfOthers ==
  ASSUME ImportInv, NEW a \in Imports!Actor, NEW f \in Video, Converts(actor[a], f),
         NEW plays \in {"nothing", "copy"}, NEW status \in {"ready", "failed"},
         Imports!Wrote(a, plays, status), UNCHANGED <<kind, src, drops>>,
         copy' \in [Video -> OutputType], \A g \in Video \ {f} : copy'[g] = copy[g],
         temporary' = [temporary EXCEPT ![f] = "none"],
         out' \in [Imports!Actor -> {"none", "temp", "copy", "unnamed"}],
         \A b \in Imports!Actor \ {a} : temporary[f] # b => out'[b] = out[b],
         \A g \in Video \ {f} : g \in disturbed => g \in disturbed'
  PROVE  /\ ImportTypes' /\ \A b \in Imports!Actor : Working(actor[b])'
         /\ \A g \in Video \ {f} : AtFile(g)'
         /\ \A b \in Imports!Actor : Converts(actor'[b], f) => b # a /\ Converts(actor[b], f)
                                                    /\ actor'[b].reads = actor[b].reads
         /\ \A b \in Imports!Actor : actor'[b].rows[f] \in {actor[b].rows[f], None}
         /\ Imports!NeedsCopy(f)
<1>1. /\ f \in Video /\ ImportTypes /\ Imports!NeedsCopy(f)
  BY DEF ImportInv, Working, Converts
<1>2. /\ imported' \in [Video -> RowType] /\ \A g \in Video \ {f} : imported'[g] = imported[g]
      /\ actor' \in [Imports!Actor -> ActorType]
      /\ \A b \in Imports!Actor \ {a} : actor'[b] = actor[b]
      /\ actor'[a].pc = "files"
      /\ \A g \in Video : actor'[a].rows[g] \in {actor[a].rows[g], None}
      /\ \A b \in Imports!Actor : Working(actor[b])'
  BY WroteEnds DEF Converts
<1>3. ImportTypes'
  BY <1>1, <1>2 DEF ImportTypes
<1>4. \A b \in Imports!Actor, g \in Video :
        /\ actor'[b].rows[g] \in {actor[b].rows[g], None}
        /\ Converts(actor'[b], g) =>
             b # a /\ Converts(actor[b], g) /\ actor'[b].reads = actor[b].reads
        /\ g # f /\ Converts(actor[b], g) => b # a /\ Converts(actor'[b], g)
  BY <1>2 DEF Converts
<1>5. ASSUME NEW g \in Video \ {f} PROVE AtFile(g)'
  <2>1. temporary'[g] = temporary[g]
    BY <1>1, <1>5 DEF ImportTypes
  <2>2. \A b \in Imports!Actor : Converts(actor[b], g) => b # a /\ out'[b] = out[b]
    BY <1>1, <1>4, <1>5, TempIsOfTheFile
  <2>3. \A b \in Imports!Actor :
          /\ actor'[b].rows[g] \in {imported[g], actor[b].rows[g], None}
          /\ Converts(actor'[b], g) <=> Converts(actor[b], g)
          /\ Converts(actor[b], g) => actor'[b].reads = actor[b].reads /\ out'[b] = out[b]
    BY <1>4, <1>5, <2>2
  <2> QED BY <1>2, <1>5, <2>1, <2>3, FileKeeps DEF ImportInv
<1> QED BY <1>1, <1>2, <1>3, <1>4, <1>5

\* The copy is of the video the conversion read, as long as nothing disturbed it.
LEMMA SuccessKeeps ==
  ASSUME ImportInv, NEW a \in Imports!Actor, Imports!ConvertSucceeds(a)
  PROVE  ImportInv'
<1>1. PICK f : f = actor[a].file
  OBVIOUS
<1>2. PICK n : n = actor[a].reads
  OBVIOUS
<1>3. /\ actor[a].pc = "ffmpeg" /\ n # 0 /\ temporary[f] \in Imports!Actor
      /\ copy' = [copy EXCEPT ![f] = IF temporary[f] = a
                                     THEN [of |-> n, whole |-> TRUE]
                                     ELSE [of |-> actor[temporary[f]].reads, whole |-> FALSE]]
      /\ out' = [b \in Imports!Actor |-> IF b = a THEN "none" ELSE IF temporary[f] = b
           THEN "copy" ELSE out[b]]
      /\ temporary' = [temporary EXCEPT ![f] = "none"]
      /\ Imports!Wrote(a, "copy", "ready") /\ UNCHANGED <<kind, src, drops, disturbed>>
  BY <1>1, <1>2 DEF Imports!ConvertSucceeds, Imports!Ended, Imports!Published
<1>4. /\ ImportTypes /\ f \in Video /\ AtFile(f) /\ Imports!NeedsCopy(f) /\ Converts(actor[a], f)
      /\ actor[a].version # 0 /\ actor[a].version <= n /\ n <= drops[f]
      /\ actor[a].version \in Nat /\ n \in Nat /\ drops[f] \in Nat /\ src[f] \in Nat
  BY <1>1, <1>2, <1>3 DEF ImportInv, ImportTypes, Working, ActorType, Converts
<1>5. /\ copy' \in [Video -> OutputType] /\ \A g \in Video \ {f} : copy'[g] = copy[g]
      /\ temporary[f] = a => copy'[f].of = n /\ copy'[f].whole
  <2>1. \A b \in Imports!Actor : actor[b].reads \in Nat
    BY <1>4 DEF ImportTypes, ActorType
  <2> QED BY <1>3, <1>4, <2>1 DEF ImportTypes, OutputType
<1>6. /\ out' \in [Imports!Actor -> {"none", "temp", "copy", "unnamed"}]
      /\ \A b \in Imports!Actor \ {a} : temporary[f] # b => out'[b] = out[b]
  BY <1>3, <1>4 DEF ImportTypes
<1>7. /\ ImportTypes' /\ \A b \in Imports!Actor : Working(actor[b])'
      /\ \A g \in Video \ {f} : AtFile(g)'
      /\ \A b \in Imports!Actor : Converts(actor'[b], f) => b # a /\ Converts(actor[b], f)
                                                 /\ actor'[b].reads = actor[b].reads
      /\ \A b \in Imports!Actor : actor'[b].rows[f] \in {actor[b].rows[f], None}
  <2>1. disturbed' = disturbed /\ UNCHANGED <<kind, src, drops>>
    BY <1>3
  <2>2. Imports!Wrote(a, "copy", "ready") /\ temporary' = [temporary EXCEPT ![f] = "none"]
    BY <1>3
  <2>3. f \in Video /\ Converts(actor[a], f)
    BY <1>4
  <2> QED BY <1>5, <1>6, <2>1, <2>2, <2>3, EndsOfOthers
<1>8. imported'[f].version = actor[a].version /\ imported'[f].plays = "copy"
  BY <1>1, <1>3, WroteEnds
<1>9. f \notin disturbed => temporary[f] = a /\ \A b \in Imports!Actor : ~Converts(actor'[b], f)
  BY <1>4, <1>7 DEF AtFile
<1>10. Imports!NeedsCopy(f)' <=> Imports!NeedsCopy(f)
  BY <1>3 DEF Imports!NeedsCopy
<1>11. ASSUME NEW r, Known(r, f) PROVE Known(r, f)'
  <2>1. ASSUME r # None, f \notin disturbed, r.version = src[f]
        PROVE  copy'[f].of = src[f]
    BY <1>2, <1>3, <1>4, <1>5, <1>9, <1>11, <2>1 DEF Known
  <2>2. f \notin disturbed => copy'[f] # Imports!NoOutput
    BY <1>3, <1>4, <1>5, <1>9 DEF Imports!NoOutput
  <2> QED BY <1>3, <1>9, <1>10, <1>11, <2>1, <2>2 DEF Known, Converts
<1>12. PICK y : y = imported'[f]
  OBVIOUS
<1>13. Known(y, f)'
  <2>1. ASSUME f \notin disturbed, y.version = src[f]
        PROVE  copy'[f].of = src[f] /\ copy'[f] # Imports!NoOutput
    <3>1. src[f] = drops[f]
      BY <1>4, <1>8, <1>12, <2>1 DEF AtFile
    <3>2. n = src[f]
      BY <1>4, <1>8, <1>12, <2>1, <3>1
    <3> QED BY <1>3, <1>4, <1>5, <1>9, <2>1, <3>2 DEF Imports!NoOutput
  <2>2. y.version # 0 /\ y.version <= drops[f]
    BY <1>4, <1>8, <1>12
  <2> QED BY <1>3, <1>4, <1>8, <1>9, <1>10, <1>12, <2>1, <2>2 DEF Known, Converts
<1>14. Known(imported[f], f)'
  BY <1>12, <1>13
<1>15. ASSUME NEW b \in Imports!Actor PROVE Known(actor[b].rows[f], f)'
  <2>1. PICK q : q = actor'[b].rows[f]
    OBVIOUS
  <2>2. Known(None, f)
    BY DEF Known
  <2>3. Known(q, f)'
    BY <1>4, <1>7, <1>11, <2>1, <2>2 DEF AtFile
  <2> QED BY <2>1, <2>3
<1>16. temporary'[f] \notin Imports!Actor
  BY <1>3, <1>4 DEF ImportTypes, Imports!Actor
<1>17. AtFile(f)'
  BY <1>3, <1>4, <1>5, <1>9, <1>14, <1>15, <1>16 DEF AtFile, Converts
<1> QED BY <1>7, <1>17 DEF ImportInv

\* A first conversion that fails leaves no copy, and the row says so.
LEMMA FailureKeeps ==
  ASSUME ImportInv, NEW a \in Imports!Actor, Imports!ConvertFails(a)
  PROVE  ImportInv'
<1>1. PICK f : f = actor[a].file
  OBVIOUS
<1>2. PICK ok \in BOOLEAN : Imports!WholeIfNamed(a, ok)
  BY DEF Imports!ConvertFails
<1>3. /\ actor[a].pc = "ffmpeg"
      /\ copy' = IF out[a] = "copy" /\ ok THEN [copy EXCEPT ![f].whole = TRUE] ELSE copy
      /\ out' = [b \in Imports!Actor |-> IF b = a THEN "none" ELSE IF temporary[f] = b
           THEN "unnamed" ELSE out[b]]
      /\ temporary' = [temporary EXCEPT ![f] = "none"]
      /\ disturbed' = IF copy[f] = Imports!NoOutput THEN disturbed ELSE disturbed \cup {f}
      /\ Imports!Wrote(a, "nothing", "failed") /\ UNCHANGED <<kind, src, drops>>
  BY <1>1, <1>2 DEF Imports!ConvertFails, Imports!Ended, Imports!WholeIfNamed
<1>4. /\ ImportTypes /\ f \in Video /\ AtFile(f) /\ Imports!NeedsCopy(f) /\ Converts(actor[a], f)
      /\ actor[a].version # 0 /\ actor[a].version <= drops[f]
  BY <1>1, <1>3 DEF ImportInv, ImportTypes, Working, Converts
<1>5. copy' \in [Video -> OutputType] /\ \A g \in Video \ {f} : copy'[g] = copy[g]
  BY <1>3, <1>4 DEF ImportTypes, OutputType
<1>6. /\ out' \in [Imports!Actor -> {"none", "temp", "copy", "unnamed"}]
      /\ \A b \in Imports!Actor \ {a} : temporary[f] # b => out'[b] = out[b]
  BY <1>3, <1>4 DEF ImportTypes
<1>7. \A g \in Video : g \in disturbed => g \in disturbed'
  BY <1>3
<1>8. /\ ImportTypes' /\ \A b \in Imports!Actor : Working(actor[b])'
      /\ \A g \in Video \ {f} : AtFile(g)'
      /\ \A b \in Imports!Actor : Converts(actor'[b], f) => b # a /\ Converts(actor[b], f)
                                                 /\ actor'[b].reads = actor[b].reads
      /\ \A b \in Imports!Actor : actor'[b].rows[f] \in {actor[b].rows[f], None}
  BY <1>3, <1>4, <1>5, <1>6, <1>7, EndsOfOthers
<1>9. /\ imported'[f].version = actor[a].version /\ imported'[f].status = "failed"
      /\ \/ imported'[f].plays = "nothing"
         \/ imported[f] # None /\ imported'[f].plays = imported[f].plays
  BY <1>1, <1>3, WroteEnds
<1>10. f \notin disturbed' =>
         /\ f \notin disturbed /\ copy'[f] = Imports!NoOutput
         /\ \A b \in Imports!Actor : ~Converts(actor'[b], f)
  <2>1. ASSUME f \notin disturbed' PROVE f \notin disturbed /\ copy[f] = Imports!NoOutput
    BY <1>3, <2>1
  <2>2. ASSUME f \notin disturbed'
        PROVE  copy' = copy /\ \A b \in Imports!Actor : ~Converts(actor'[b], f)
    BY <1>3, <1>4, <1>8, <2>1, <2>2 DEF AtFile
  <2> QED BY <2>1, <2>2
<1>11. Imports!NeedsCopy(f)' <=> Imports!NeedsCopy(f)
  BY <1>3 DEF Imports!NeedsCopy
<1>12. ASSUME NEW r, Known(r, f) PROVE Known(r, f)'
  <2>1. f \notin disturbed' => copy[f] = Imports!NoOutput
    BY <1>3
  <2> QED BY <1>3, <1>10, <1>11, <1>12, <2>1 DEF Known, Converts
<1>13. PICK y : y = imported'[f]
  OBVIOUS
<1>14. Known(y, f)'
  <2>1. y.version # 0 /\ y.version <= drops[f] /\ y.status = "failed"
    BY <1>4, <1>9, <1>13
  <2>2. y.plays # "source"
    BY <1>4, <1>9, <1>13 DEF AtFile, Known
  <2> QED BY <1>3, <1>4, <1>10, <1>11, <2>1, <2>2 DEF Known, Converts
<1>15. Known(imported[f], f)'
  BY <1>13, <1>14
<1>16. ASSUME NEW b \in Imports!Actor PROVE Known(actor[b].rows[f], f)'
  <2>1. PICK q : q = actor'[b].rows[f]
    OBVIOUS
  <2>2. Known(None, f)
    BY DEF Known
  <2>3. Known(q, f)'
    BY <1>4, <1>8, <1>12, <2>1, <2>2 DEF AtFile
  <2> QED BY <2>1, <2>3
<1>17. temporary'[f] \notin Imports!Actor
  BY <1>3, <1>4 DEF ImportTypes, Imports!Actor
<1>18. AtFile(f)'
  BY <1>3, <1>4, <1>10, <1>15, <1>16, <1>17 DEF AtFile, Converts
<1> QED BY <1>8, <1>18 DEF ImportInv

\* A video is deleted, found or not; its row is removed by the scan.
LEMMA DeletionKeeps ==
  ASSUME ImportInv, Imports!DeleteVideo \/ \E f \in Video : Imports!DeleteFinds(f)
  PROVE  ImportInv'
<1>1. ASSUME NEW f \in Video, Imports!DeleteFinds(f) PROVE ImportInv'
  <2>1. UNCHANGED <<kind, src, drops, imported, copy, temporary, out, actor, disturbed>>
    BY <1>1 DEF Imports!DeleteFinds, Imports!Files
  <2>2. ImportTypes'
    BY <2>1 DEF ImportInv, ImportTypes
  <2>3. \A b \in Imports!Actor : Working(actor[b])'
    BY <2>1 DEF ImportInv, Working, Imports!NeedsCopy
  <2>4. ASSUME NEW g \in Video PROVE AtFile(g)'
    BY <2>1, FileKeeps DEF ImportInv
  <2> QED BY <2>2, <2>3, <2>4 DEF ImportInv
<1>2. ASSUME Imports!DeleteVideo PROVE ImportInv'
  <2>1. PICK f : f = removal.file
    OBVIOUS
  <2>2. PICK r : r = removal.row
    OBVIOUS
  <2>3. /\ src' = [src EXCEPT ![f] = 0] /\ Imports!CopyGone(f, r)
        /\ imported' = imported \/ Imports!DeleteRow(f)
        /\ UNCHANGED <<kind, drops, temporary, actor, disturbed>>
    BY <1>2, <2>1, <2>2 DEF Imports!DeleteVideo
  <2> QED BY <2>3, GoneKeeps
<1> QED BY <1>1, <1>2

\* The rows are read anew, or an actor is done.
LEMMA ReadKeeps ==
  ASSUME ImportInv, NEW a \in Imports!Actor, actor[a].pc # "ffmpeg",
         \/ \E pc \in {"gone", "files"}, files \in SUBSET Video : Imports!Reads(a, pc, files)
         \/ Imports!To(a, Imports!Idle),
         UNCHANGED <<kind, src, drops, imported, copy, temporary, out, disturbed>>
  PROVE  ImportInv'
<1>1. imported \in [Video -> RowType]
  BY DEF ImportInv, ImportTypes
<1>2. ASSUME NEW pc \in {"gone", "files"}, NEW files \in SUBSET Video, Imports!Reads(a, pc, files)
      PROVE  ImportInv'
  <2>1. PICK x : x = [Imports!Idle EXCEPT !.pc = pc, !.rows = imported, !.todo = files]
    OBVIOUS
  <2>2. x \in ActorType /\ x.pc = pc /\ x.rows = imported
    BY <1>1, <2>1 DEF Imports!Idle, ActorType
  <2>3. actor' = [actor EXCEPT ![a] = x] /\ Working(x)
    BY <1>2, <2>1, <2>2 DEF Imports!Reads, Imports!To, Working
  <2> QED BY <2>2, <2>3, MoveKeeps
<1>3. ASSUME Imports!To(a, Imports!Idle) PROVE ImportInv'
  <2>1. PICK x : x = Imports!Idle
    OBVIOUS
  <2>2. x \in ActorType /\ x.pc = "idle" /\ \A f \in Video : x.rows[f] = None
    BY <2>1, IdleType
  <2>3. actor' = [actor EXCEPT ![a] = x] /\ Working(x)
    BY <1>3, <2>1, <2>2 DEF Imports!To, Working
  <2> QED BY <2>2, <2>3, MoveKeeps
<1> QED BY <1>2, <1>3

\* A video is looked at.
LEMMA TakeKeeps ==
  ASSUME ImportInv, NEW a \in Imports!Actor, NEW f \in Video, Imports!TakeFile(a, f)
  PROVE  ImportInv'
<1>1. PICK at : at = actor[a]
  OBVIOUS
<1>2. /\ UNCHANGED <<kind, src, drops, imported, copy, temporary, out, disturbed>>
      /\ at.pc = "files"
      /\ IF src[f] = 0 \/ Imports!Skips(a, f, at.rows[f], src[f])
         THEN Imports!To(a, [at EXCEPT !.todo = @ \ {f}, !.rows[f] = None])
         ELSE Imports!To(a, [at EXCEPT !.pc = "probe", !.todo = @ \ {f}, !.file = f,
                               !.version = src[f], !.meta = f \in clear])
  BY <1>1 DEF Imports!TakeFile, Imports!ScanOthers, Imports!Files
<1>3. at \in ActorType /\ AtFile(f) /\ src[f] \in Nat
  BY <1>1 DEF ImportInv, ImportTypes
<1>4. CASE src[f] = 0 \/ Imports!Skips(a, f, at.rows[f], src[f])
  <2>1. PICK x : x = [at EXCEPT !.todo = @ \ {f}, !.rows[f] = None]
    OBVIOUS
  <2>2. /\ x \in ActorType /\ x.pc = "files"
        /\ \A g \in Video : x.rows[g] \in {at.rows[g], None}
    BY <1>2, <1>3, <2>1 DEF ActorType, RowType
  <2>3. actor' = [actor EXCEPT ![a] = x] /\ Working(x)
    BY <1>2, <1>4, <2>1, <2>2 DEF Imports!To, Working
  <2> QED BY <1>1, <1>2, <2>2, <2>3, MoveKeeps
<1>5. CASE ~(src[f] = 0 \/ Imports!Skips(a, f, at.rows[f], src[f]))
  <2> DEFINE meta == f \in clear
  <2>0. meta \in BOOLEAN
    OBVIOUS
  <2> HIDE DEF meta
  <2>1. PICK x : x = [at EXCEPT !.pc = "probe", !.todo = @ \ {f}, !.file = f,
                                !.version = src[f], !.meta = meta]
    OBVIOUS
  <2>2. /\ x \in ActorType /\ x.pc = "probe" /\ x.rows = at.rows /\ x.file = f
        /\ x.version = src[f]
    BY <1>3, <2>0, <2>1 DEF ActorType
  <2>3. actor' = [actor EXCEPT ![a] = x]
    BY <1>2, <1>5, <2>1 DEF Imports!To, meta
  <2>4. src[f] = drops[f]
    BY <1>3, <1>5 DEF AtFile
  <2>5. Working(x)
    BY <1>3, <1>5, <2>2, <2>4 DEF Working
  <2> QED BY <1>1, <1>2, <2>2, <2>3, <2>5, MoveKeeps
<1> QED BY <1>4, <1>5

\* The scan removes the row of a video that is gone.
LEMMA RemovalKeeps ==
  ASSUME ImportInv, NEW f \in Video, Imports!RemoveImport(f)
  PROVE  ImportInv'
<1>1. PICK scan : scan = actor["scan"]
  OBVIOUS
<1>2. PICK x : x = [scan EXCEPT !.todo = @ \ {f}, !.rows[f] = None]
  OBVIOUS
<1>3. /\ scan.pc = "gone" /\ actor' = [actor EXCEPT !["scan"] = x]
      /\ UNCHANGED <<kind, src, drops, temporary, disturbed>>
      /\ IF src[f] = 0 THEN Imports!CopyGone(f, scan.rows[f]) /\ Imports!DeleteRow(f)
           ELSE UNCHANGED <<imported, copy, out>>
  BY <1>1, <1>2 DEF Imports!RemoveImport, Imports!To, Imports!ScanOthers
<1>4. scan \in ActorType /\ "scan" \in Imports!Actor /\ src \in [Video -> Nat]
  BY <1>1 DEF ImportInv, ImportTypes, Imports!Actor
<1>5. /\ x \in ActorType /\ x.pc = "gone"
      /\ \A g \in Video : x.rows[g] \in {scan.rows[g], None}
  BY <1>2, <1>3, <1>4 DEF ActorType, RowType
<1>6. CASE src[f] = 0
  <2>1. src' = [src EXCEPT ![f] = 0]
    BY <1>3, <1>4, <1>6
  <2>2. PICK r : r = scan.rows[f]
    OBVIOUS
  <2>3. Imports!CopyGone(f, r) /\ Imports!DeleteRow(f)
    BY <1>3, <1>6, <2>2
  <2>4. \E a \in Imports!Actor : \E z \in ActorType :
           /\ actor' = [actor EXCEPT ![a] = z] /\ z.pc \notin {"probe", "ffmpeg"}
           /\ actor[a].pc # "ffmpeg"
           /\ \A g \in Video : z.rows[g] \in {actor[a].rows[g], None}
    BY <1>1, <1>3, <1>4, <1>5
  <2> QED BY <1>3, <2>1, <2>3, <2>4, GoneKeeps
<1>7. CASE src[f] # 0
  <2>1. Working(x)
    BY <1>5 DEF Working
  <2>2. UNCHANGED <<kind, src, drops, imported, copy, temporary, out, disturbed>>
    BY <1>3, <1>7
  <2> QED BY <1>1, <1>3, <1>4, <1>5, <2>1, <2>2, MoveKeeps
<1> QED BY <1>6, <1>7

\* Every step of the import keeps it.
LEMMA ImportStep == ImportInv /\ [Imports!Next]_Imports!vars => ImportInv'
<1> SUFFICES ASSUME ImportInv, [Imports!Next]_Imports!vars PROVE ImportInv'
  OBVIOUS
<1>1. ASSUME NEW f \in Video, Imports!Drop(f) \/ Imports!TakeAway(f) PROVE ImportInv'
  BY <1>1, DropKeeps
<1>2. ASSUME NEW a \in Imports!Actor, Imports!Works(a) PROVE ImportInv'
  BY <1>2, TakeKeeps, PlaceKeeps, BeginKeeps, SuccessKeeps, FailureKeeps DEF Imports!Works
<1>3. CASE Imports!ScanBegin \/ Imports!ScanFolder \/ Imports!ScanEnd \/ Imports!ScanRaises
  <2>1. /\ UNCHANGED <<kind, src, drops, imported, copy, temporary, out, disturbed>>
        /\ "scan" \in Imports!Actor
    BY <1>3 DEF Imports!ScanBegin, Imports!ScanFolder, Imports!ScanEnd, Imports!ScanRaises,
       Imports!ScanOthers, Imports!Files, Imports!Actor
  <2>2. CASE Imports!ScanBegin
    BY <2>1, <2>2, ReadKeeps DEF Imports!ScanBegin
  <2>3. CASE Imports!ScanFolder
    BY <2>1, <2>3, ReadKeeps DEF Imports!ScanFolder
  <2>4. CASE Imports!ScanEnd \/ Imports!ScanRaises
    BY <2>1, <2>4, ReadKeeps DEF Imports!ScanEnd, Imports!ScanRaises
  <2> QED BY <1>3, <2>2, <2>3, <2>4
<1>4. CASE Imports!ListBegin \/ Imports!ListEnd
  <2>1. /\ UNCHANGED <<kind, src, drops, imported, copy, temporary, out, disturbed>>
        /\ "list" \in Imports!Actor
    BY <1>4 DEF Imports!ListBegin, Imports!ListEnd, Imports!ScanOthers, Imports!Files,
       Imports!Actor
  <2>2. CASE Imports!ListBegin
    BY <2>1, <2>2, ReadKeeps DEF Imports!ListBegin
  <2>3. CASE Imports!ListEnd
    BY <2>1, <2>3, ReadKeeps DEF Imports!ListEnd
  <2> QED BY <1>4, <2>2, <2>3
<1>5. CASE UNCHANGED Imports!vars
  <2>1. UNCHANGED <<kind, src, drops, imported, copy, temporary, out, actor, disturbed>>
    BY <1>5 DEF Imports!vars
  <2>2. ImportTypes'
    BY <2>1 DEF ImportInv, ImportTypes
  <2>3. \A b \in Imports!Actor : Working(actor[b])'
    BY <2>1 DEF ImportInv, Working, Imports!NeedsCopy
  <2>4. ASSUME NEW g \in Video PROVE AtFile(g)'
    BY <2>1, FileKeeps DEF ImportInv
  <2> QED BY <2>2, <2>3, <2>4 DEF ImportInv
<1> QED
  BY <1>1, <1>2, <1>3, <1>4, <1>5, RemovalKeeps, DeletionKeeps, RestartKeeps
     DEF Imports!Next, Imports!Scans

\* It holds always.
LEMMA ImportHolds == Imports!Spec => []ImportInv
<1>1. Imports!Init => ImportInv
  BY InitImports
<1>2. ImportInv /\ [Imports!Next]_Imports!vars => ImportInv'
  BY ImportStep
<1> QED BY <1>1, <1>2, PTL DEF Imports!Spec

\* Without conversions that overlap and replacements that fail, the copy a row offers to
\* play is the video in the folder and all of it, for any videos, kinds, versions and calls
\* (create_playable_mp4_copy, scan_media_imports, list_import_recordings).
THEOREM ImportsPlay == Imports!Spec => []PlaysUnlessDisturbed
<1>1. ImportInv => PlaysUnlessDisturbed
  <2> SUFFICES ASSUME ImportInv, NEW f \in Video, f \notin disturbed, Imports!Offered(f)
               PROVE  copy[f].whole /\ copy[f].of = src[f]
    BY DEF PlaysUnlessDisturbed, Imports!PlaysUnlessDisturbed, Imports!PlaysFile
  <2>1. AtFile(f)
    BY DEF ImportInv
  <2> QED BY <2>1 DEF AtFile, Known, Imports!Offered, Imports!Indexed
<1> QED BY <1>1, ImportHolds, PTL
===========================================================================
