-------------------------- MODULE MacDownloadProofs --------------------------
(***************************************************************************)
(* What the server purges is on the Mac, the custody of the videos that    *)
(* VideoCustody promises, and whom a downloading task waits for: proved    *)
(* for any number of videos, whatever their sizes and names, of heartbeat  *)
(* handlers underway, of jobs and of events.                               *)
(***************************************************************************)
EXTENDS MacDownload, FiniteSetTheorems, TLAPS

\* What a scan takes for granted of a file it lists, and the purge of a video it deletes.
OnMac(i) == mac[i] = "complete" \/ staging[i] = "complete" \/ i \in discarded
MacHas(i) == \E j \in Item : SizeOf[j] = SizeOf[i] /\ OnMac(j)

File == {"none", "partial", "complete"}
Jobs == UNION {[D -> SUBSET Item] : D \in SUBSET Nat}
Handlers == [at : {"idle", "compare", "purge", "append", "create", "answer"},
             files : SUBSET Item, todo : SUBSET Item, purged : SUBSET Item,
             jobs : Jobs, deaf : BOOLEAN]

Types ==
  /\ vps \in [Item -> {"recording", "closed", "purged", "deleted"}]
  /\ nextJob \in Nat
  /\ slot \in [Slot -> Handlers]
  /\ staging \in [Item -> File] /\ mac \in [Item -> File]
  /\ moving \in Item \cup {None}
  /\ cache \subseteq Item /\ discarded \subseteq Item

\* _move_file removes the staging file last.
MovingIsStaged == moving \in Item => staging[moving] = "complete"

\* Whatever on its way to a purge names a file of the Mac, the file is there: the cached
\* scan and the files of a request; and one of the same size as each video that a handler
\* found synced and is yet to purge.
NamesOnMac(h) ==
  /\ \A i \in h.files : OnMac(i)
  /\ h.at = "purge" => \A i \in h.todo : MacHas(i)

NamedIsOnMac == (\A i \in cache : OnMac(i)) /\ \A b \in Beat : NamesOnMac(slot[b])

PurgedIsHad == \A i \in Item : vps[i] = "purged" => MacHas(i)

IInv == Types /\ MovingIsStaged /\ NamedIsOnMac /\ PurgedIsHad

----------------------------------------------------------------------------
(* The actions by what they change. *)

DiskStep ==
  \/ \E i \in Item : DeleteLocal(i) \/ StartMove(i)
                     \/ \E status \in {"complete", "error"} : EndTransfer(i, status)
  \/ \E x \in DOMAIN threads, i \in Item : AddTask(x, i)
  \/ EndMove \/ FailMove \/ RestartHelper

SlotStep ==
  \/ \E S \in SUBSET Item : SelectItems(S)
  \/ \E b \in Beat : SendHeartbeat(b) \/ Compare(b) \/ AnswerHeartbeat(b) \/ LoseAnswer(b)
  \/ \E b \in Beat, i \in Item : PurgeFile(b, i) \/ MarkDone(b, i)
  \/ \E b \in Slot : ClaimNext(b) \/ CreateJob(b) \/ FailJob(b)
  \/ AppendItems \/ AnswerPage \/ RestartServer

copies == <<staging, mac, moving, discarded>>

\* Every step is one that changes the copies on the Mac, one of a handler, or one that
\* changes neither: the calls and faults besides, and a thread's bookkeeping.
LEMMA StepSplit ==
  ASSUME [Next]_vars
  PROVE  \/ DiskStep
         \/ SlotStep /\ UNCHANGED copies
         \/ /\ UNCHANGED <<copies, slot, nextJob>>
            /\ cache' \in {cache, {}}
            /\ \/ UNCHANGED vps
               \/ \E i \in Item : RecordingEnds(i) \/ DeleteMedia(i)
<1> USE DEF server, motrix, disk, bounds, copies, Call, Fault
<1>1. CASE UNCHANGED vars  BY <1>1 DEF vars
<1>2. ASSUME NEW S \in SUBSET Item, SelectItems(S) PROVE SlotStep /\ UNCHANGED copies
  BY <1>2 DEF SlotStep, SelectItems
<1>3. ASSUME NEW i \in Item, PauseResumeDelete(i) PROVE UNCHANGED <<copies, slot, nextJob, cache, vps>>
  BY <1>3 DEF PauseResumeDelete
<1>4. ASSUME NEW i \in Item, DeleteMedia(i) \/ RecordingEnds(i)
      PROVE UNCHANGED <<copies, slot, nextJob, cache>>
  BY <1>4 DEF DeleteMedia, RecordingEnds
<1>5. ASSUME NEW b \in Beat, SendHeartbeat(b) \/ Handler(b) PROVE SlotStep /\ UNCHANGED copies
  BY <1>5 DEF SlotStep, Slot, Handler, SendHeartbeat, Compare, PurgeFile, MarkDone, ClaimNext,
              CreateJob, FailJob, AnswerHeartbeat
<1>6. ASSUME PageHandler PROVE SlotStep /\ UNCHANGED copies
  BY <1>6 DEF SlotStep, Slot, PageHandler, AppendItems, ClaimNext, CreateJob, FailJob, AnswerPage
<1>7. ASSUME NEW x \in DOMAIN threads, NEW i \in Item, TakeItem(x, i)
      PROVE UNCHANGED <<copies, slot, nextJob, cache, vps>>
  BY <1>7 DEF TakeItem
<1>8. ASSUME NEW x \in DOMAIN threads, EnqueueRelocate(x)
      PROVE UNCHANGED <<copies, slot, nextJob, cache, vps>>
  BY <1>8 DEF EnqueueRelocate
<1>9. ASSUME NEW i \in Item, DropPending(i)
      PROVE UNCHANGED <<copies, slot, nextJob, vps>> /\ cache' \in {cache, {}}
  BY <1>9 DEF DropPending
<1>10. ASSUME NEW b \in Beat, LoseAnswer(b) PROVE SlotStep /\ UNCHANGED copies
  BY <1>10 DEF SlotStep, LoseAnswer
<1>11. ASSUME NEW n \in DOMAIN jobs, ExpireJob(n)
       PROVE UNCHANGED <<copies, slot, nextJob, cache, vps>>
  BY <1>11 DEF ExpireJob
<1>12. ASSUME RestartServer PROVE SlotStep /\ UNCHANGED copies
  BY <1>12 DEF SlotStep, RestartServer
<1>13. QED
  BY <1>1, <1>2, <1>3, <1>4, <1>5, <1>6, <1>7, <1>8, <1>9, <1>10, <1>11, <1>12
     DEF Next, User, Motrix, Thread, Relocation, Faults, DiskStep

----------------------------------------------------------------------------
(* The copies on the Mac. *)

\* No step takes a video off the Mac without the user's doing: a move overwrites what is in
\* the library only while the whole file is in staging, and Motrix does not overwrite it.
LEMMA OnMacStays ==
  ASSUME Types, MovingIsStaged, [Next]_vars
  PROVE  MovingIsStaged' /\ \A i \in Item : OnMac(i) => OnMac(i)'
<1> USE DEF disk, motrix, server, MovingIsStaged, OnMac, Types
<1>1. CASE UNCHANGED copies
  BY <1>1 DEF copies
<1>2. ASSUME NEW j \in Item, DeleteLocal(j) PROVE MovingIsStaged' /\ \A i \in Item : OnMac(i) => OnMac(i)'
  BY <1>2 DEF DeleteLocal
<1>3. ASSUME NEW j \in Item, StartMove(j) PROVE MovingIsStaged' /\ \A i \in Item : OnMac(i) => OnMac(i)'
  BY <1>3 DEF StartMove, bounds
<1>4. ASSUME NEW j \in Item, NEW status \in {"complete", "error"}, EndTransfer(j, status)
      PROVE  MovingIsStaged' /\ \A i \in Item : OnMac(i) => OnMac(i)'
  BY <1>4 DEF EndTransfer, bounds
<1>5. ASSUME NEW x \in DOMAIN threads, NEW j \in Item, AddTask(x, j)
      PROVE  MovingIsStaged' /\ \A i \in Item : OnMac(i) => OnMac(i)'
  BY <1>5 DEF AddTask, bounds
<1>6. CASE EndMove
  BY <1>6, SlotAssumption DEF EndMove, bounds
<1>7. CASE FailMove
  BY <1>7, SlotAssumption DEF FailMove, bounds
<1>8. CASE RestartHelper
  BY <1>8, SlotAssumption DEF RestartHelper, Fault
<1>9. QED
  BY <1>1, <1>2, <1>3, <1>4, <1>5, <1>6, <1>7, <1>8, StepSplit DEF DiskStep, copies

----------------------------------------------------------------------------
(* What a handler names. *)

\* A scan lists nothing that is not there, or that the user has not deleted.
LEMMA ScanIsOnMac ==
  ASSUME Types, NamedIsOnMac, NEW F \in Scans
  PROVE  F \subseteq Item /\ \A i \in F : OnMac(i)
BY SlotAssumption DEF Types, NamedIsOnMac, Scans, OnDisk, Ledger, OnMac

\* The compare finds a video synced only if the request listed a file of its size, whether
\* by the recording id, by name and size, or by the size alone.
LEMMA SyncedIsListed ==
  ASSUME NEW F \in SUBSET Item, NEW i \in Synced(F)
  PROVE  i \in Item /\ \E j \in F : SizeOf[j] = SizeOf[i]
<1>1. i \in Item /\ (i \in F \/ SameName(i, F) \/ UniqueSize(i, F))
  BY DEF Synced, Library
<1>2. CASE UniqueSize(i, F)
  <2>1. {j \in F : SameSize(i, j)} # {}
    BY <1>2, FS_EmptySet DEF UniqueSize
  <2> QED BY <1>1, <2>1 DEF SameSize
<1>3. CASE SameName(i, F)
  BY <1>1, <1>3 DEF SameName, SameSize
<1> QED BY <1>1, <1>2, <1>3

\* A handler that names only what is on the Mac preserves the invariant, when the Mac has
\* the file it deletes.
LEMMA HandlerStep ==
  ASSUME IInv, UNCHANGED copies,
         NEW c \in Slot, NEW h \in Handlers, slot' = [slot EXCEPT ![c] = h],
         c \in Beat => NamesOnMac(h),
         vps' = vps \/ \E i \in Item : MacHas(i) /\ vps' = [vps EXCEPT ![i] = IF @ = "closed" THEN "purged" ELSE @],
         nextJob' \in Nat,
         cache' \in SUBSET Item, \A i \in cache' : OnMac(i)
  PROVE  IInv'
<1>1. \A i : (OnMac(i)' <=> OnMac(i)) /\ (MacHas(i)' <=> MacHas(i))
  BY DEF OnMac, MacHas, copies
<1>2. Types'
  BY DEF IInv, Types, copies
<1>3. MovingIsStaged'
  BY DEF IInv, MovingIsStaged, copies
<1>4. ASSUME NEW b \in Beat PROVE NamesOnMac(slot[b])'
  <2>1. slot'[b] = h \/ slot'[b] = slot[b]
    BY DEF IInv, Types, Slot
  <2>2. CASE slot'[b] = slot[b]
    BY <1>1, <2>2 DEF IInv, NamedIsOnMac, NamesOnMac
  <2>3. CASE slot'[b] # slot[b]
    <3>1. c = b /\ slot'[b] = h
      BY <2>3, <2>1 DEF IInv, Types, Slot
    <3> QED BY <1>1, <3>1 DEF NamesOnMac
  <2> QED BY <2>2, <2>3
<1>5. NamedIsOnMac'
  BY <1>1, <1>4 DEF NamedIsOnMac
<1>6. PurgedIsHad'
  <2>1. \A i \in Item : vps'[i] = "purged" => vps[i] = "purged" \/ MacHas(i)
    BY DEF IInv, Types
  <2> QED BY <1>1, <2>1 DEF IInv, PurgedIsHad
<1> QED BY <1>2, <1>3, <1>5, <1>6 DEF IInv

\* Every action of a handler is such a step; a restart of the server leaves none underway.
LEMMA SlotStepKeeps ==
  ASSUME IInv, SlotStep, UNCHANGED copies
  PROVE  IInv'
<1> USE DEF disk, motrix, server, Slot, Handlers, NamesOnMac
<1>h. /\ \A b \in Slot : slot[b] \in Handlers
      /\ \A b \in Beat : NamesOnMac(slot[b])
      /\ cache \in SUBSET Item /\ (\A i \in cache : OnMac(i)) /\ nextJob \in Nat
      /\ Types /\ MovingIsStaged /\ NamedIsOnMac
  BY DEF IInv, Types, NamedIsOnMac
<1>n. NoJobs \in Jobs
  <2>1. NoJobs \in [{} -> SUBSET Item]  BY DEF NoJobs
  <2> QED BY <2>1 DEF Jobs
<1>i. Idle \in Handlers /\ NamesOnMac(Idle)  BY <1>n DEF Idle
<1>1. ASSUME NEW S \in SUBSET Item, SelectItems(S) PROVE IInv'
  <2> DEFINE h == [slot[Page] EXCEPT !.at = "append", !.todo = S]
  <2>1. h \in Handlers  BY <1>h
  <2>2. Page \notin Beat /\ slot' = [slot EXCEPT ![Page] = h] /\ UNCHANGED <<vps, nextJob, cache>>
    BY <1>1, SlotAssumption DEF SelectItems
  <2> QED BY <2>1, <2>2, <1>h, HandlerStep
<1>2. ASSUME NEW b \in Beat, SendHeartbeat(b) PROVE IInv'
  <2>1. PICK F \in Scans : /\ cache' = F
                           /\ slot' = [slot EXCEPT ![b] = [@ EXCEPT !.at = "compare", !.files = F]]
    BY <1>2 DEF SendHeartbeat
  <2> DEFINE h == [slot[b] EXCEPT !.at = "compare", !.files = F]
  <2>2. F \in SUBSET Item /\ \A i \in F : OnMac(i)
    BY <1>h, ScanIsOnMac
  <2>3. h \in Handlers /\ NamesOnMac(h)
    BY <1>h, <2>2
  <2>4. slot' = [slot EXCEPT ![b] = h] /\ UNCHANGED <<vps, nextJob>>
    BY <1>2, <2>1 DEF SendHeartbeat
  <2> QED BY <2>1, <2>2, <2>3, <2>4, <1>h, HandlerStep
<1>3. ASSUME NEW b \in Beat, Compare(b) PROVE IInv'
  <2> DEFINE h == [slot[b] EXCEPT !.at = "purge", !.files = {}, !.todo = Synced(slot[b].files)]
  <2>1. /\ slot[b].files \in SUBSET Item /\ Synced(slot[b].files) \in SUBSET Item
        /\ \A i \in Synced(slot[b].files) : \E j \in slot[b].files : SizeOf[j] = SizeOf[i]
    BY <1>h, SyncedIsListed
  <2>2. h \in Handlers /\ NamesOnMac(h)
    BY <1>h, <2>1 DEF MacHas
  <2>3. slot' = [slot EXCEPT ![b] = h] /\ UNCHANGED <<vps, nextJob, cache>>
    BY <1>3 DEF Compare
  <2> QED BY <2>2, <2>3, <1>h, HandlerStep
<1>4. ASSUME NEW b \in Beat, NEW i \in Item, PurgeFile(b, i) PROVE IInv'
  <2> DEFINE h == [slot[b] EXCEPT !.todo = slot[b].todo \ {i}, !.purged = slot[b].purged \cup {i}]
  <2>1. h \in Handlers /\ NamesOnMac(h) /\ MacHas(i)
    BY <1>h, <1>4 DEF PurgeFile
  <2>2. /\ slot' = [slot EXCEPT ![b] = h] /\ UNCHANGED <<nextJob, cache>>
        /\ vps' = [vps EXCEPT ![i] = IF @ = "closed" THEN "purged" ELSE @]
    BY <1>4 DEF PurgeFile
  <2> QED BY <2>1, <2>2, <1>h, HandlerStep
<1>5. ASSUME NEW b \in Beat, NEW i \in Item, MarkDone(b, i) PROVE IInv'
  <2> DEFINE h == [slot[b] EXCEPT !.purged = slot[b].purged \ {i}]
  <2>1. h \in Handlers /\ NamesOnMac(h)
    BY <1>h
  <2>2. slot' = [slot EXCEPT ![b] = h] /\ UNCHANGED <<vps, nextJob, cache>>
    BY <1>5 DEF MarkDone
  <2> QED BY <2>1, <2>2, <1>h, HandlerStep
<1>6. ASSUME NEW b \in Slot, ClaimNext(b) PROVE IInv'
  <2>1. PICK S \in SUBSET {i \in Item : task[i] = "queued"} :
          slot' = [slot EXCEPT ![b] = [@ EXCEPT !.at = IF S = {} THEN "answer" ELSE "create",
                                                !.todo = S]]
    BY <1>6 DEF ClaimNext
  <2> DEFINE h == [slot[b] EXCEPT !.at = IF S = {} THEN "answer" ELSE "create", !.todo = S]
  <2>2. h \in Handlers /\ (b \in Beat => NamesOnMac(h))
    BY <1>h
  <2>3. slot' = [slot EXCEPT ![b] = h] /\ UNCHANGED <<vps, nextJob, cache>>
    BY <1>6, <2>1 DEF ClaimNext
  <2> QED BY <2>2, <2>3, <1>h, HandlerStep
<1>7. ASSUME NEW b \in Slot, CreateJob(b) PROVE IInv'
  <2> DEFINE entries == Downloadable(slot[b].todo)
             h == [slot[b] EXCEPT !.at = "answer", !.todo = {}]
             g == [h EXCEPT !.jobs = [n \in {nextJob} |-> entries]]
  <2>1. h \in Handlers /\ (b \in Beat => NamesOnMac(h))
    BY <1>h
  <2>2. [n \in {nextJob} |-> entries] \in Jobs
    <3>1. entries \in SUBSET Item  BY <1>h DEF Downloadable
    <3>2. [n \in {nextJob} |-> entries] \in [{nextJob} -> SUBSET Item]  BY <3>1
    <3> QED BY <3>2, <1>h DEF Jobs
  <2>3. g \in Handlers /\ (b \in Beat => NamesOnMac(g))
    BY <2>1, <2>2
  <2>4. /\ slot' = [slot EXCEPT ![b] = h] \/ slot' = [slot EXCEPT ![b] = g]
        /\ nextJob' \in Nat /\ UNCHANGED <<vps, cache>>
    BY <1>7, <1>h DEF CreateJob
  <2> QED BY <2>1, <2>3, <2>4, <1>h, HandlerStep
<1>f. ASSUME NEW b \in Slot, FailJob(b) PROVE IInv'
  <2> DEFINE h == [slot[b] EXCEPT !.at = "answer", !.todo = {}]
  <2>1. h \in Handlers /\ (b \in Beat => NamesOnMac(h))
    BY <1>h
  <2>2. slot' = [slot EXCEPT ![b] = h] /\ UNCHANGED <<vps, nextJob, cache>>
    BY <1>f DEF FailJob
  <2> QED BY <2>1, <2>2, <1>h, HandlerStep
<1>8. ASSUME NEW b \in Beat, AnswerHeartbeat(b) \/ LoseAnswer(b) PROVE IInv'
  <2>1. slot' = [slot EXCEPT ![b] = Idle] /\ UNCHANGED <<vps, nextJob, cache>>
    BY <1>8 DEF AnswerHeartbeat, LoseAnswer
  <2> QED BY <2>1, <1>i, <1>h, HandlerStep
<1>9. CASE AppendItems
  <2> DEFINE h == [slot[Page] EXCEPT !.at = "purge", !.todo = {}]
  <2>1. h \in Handlers  BY <1>h
  <2>2. Page \notin Beat /\ slot' = [slot EXCEPT ![Page] = h] /\ UNCHANGED <<vps, nextJob, cache>>
    BY <1>9, SlotAssumption DEF AppendItems
  <2> QED BY <2>1, <2>2, <1>h, HandlerStep
<1>10. CASE AnswerPage
  <2>1. slot' = [slot EXCEPT ![Page] = Idle] /\ UNCHANGED <<vps, nextJob, cache>>
    BY <1>10 DEF AnswerPage
  <2> QED BY <2>1, <1>i, <1>h, HandlerStep
<1>11. CASE RestartServer
  <2>1. slot' = [b \in Slot |-> Idle] /\ UNCHANGED <<vps, nextJob, disk, discarded>>
    BY <1>11 DEF RestartServer, Fault
  <2>2. \A i : (OnMac(i)' <=> OnMac(i)) /\ (MacHas(i)' <=> MacHas(i))
    BY DEF OnMac, MacHas, copies
  <2>3. Types'
    BY <2>1, <1>i, <1>h DEF Types, copies
  <2>4. MovingIsStaged' /\ NamedIsOnMac'
    BY <2>1, <2>2, <1>i, <1>h DEF MovingIsStaged, NamedIsOnMac, copies, Idle
  <2>5. PurgedIsHad'
    BY <2>1, <2>2 DEF IInv, PurgedIsHad
  <2> QED BY <2>3, <2>4, <2>5 DEF IInv
<1>12. QED
  BY <1>1, <1>2, <1>3, <1>4, <1>5, <1>6, <1>7, <1>f, <1>8, <1>9, <1>10, <1>11 DEF SlotStep

\* A step on the Mac: it changes no handler but what it knows of its caller, and no file of
\* the server; a scan that was cached is dropped at most.
LEMMA DiskStepKeeps ==
  ASSUME IInv, [Next]_vars, DiskStep
  PROVE  IInv'
<1>1. MovingIsStaged' /\ \A i \in Item : OnMac(i) => OnMac(i)'
  BY OnMacStays DEF IInv
<1>2. UNCHANGED <<vps, nextJob>> /\ cache' \in {cache, {}}
  BY DEF DiskStep, DeleteLocal, StartMove, EndTransfer, AddTask, EndMove, FailMove,
     RestartHelper,
         server, disk, bounds, Fault
<1>3. /\ slot' \in [Slot -> Handlers]
      /\ \A b \in Beat : /\ slot'[b].files = slot[b].files
                         /\ slot'[b].at = slot[b].at /\ slot'[b].todo = slot[b].todo
  <2>1. CASE RestartHelper
    <3>1. ASSUME NEW b \in Slot PROVE [slot[b] EXCEPT !.deaf = TRUE] \in Handlers
      BY DEF IInv, Types, Handlers
    <3> QED BY <2>1, <3>1 DEF RestartHelper, IInv, Types, Handlers, Slot
  <2>2. CASE ~ RestartHelper
    <3>1. UNCHANGED slot
      BY <2>2 DEF DiskStep, DeleteLocal, StartMove, EndTransfer, AddTask, EndMove,
         FailMove, server
    <3> QED BY <3>1 DEF IInv, Types
  <2> QED BY <2>1, <2>2
<1> DEFINE CopiesTyped == /\ staging \in [Item -> File] /\ mac \in [Item -> File]
                          /\ moving \in Item \cup {None} /\ discarded \in SUBSET Item
<1>4. CopiesTyped'
  <2> USE DEF IInv, Types, File, disk, motrix, bounds
  <2>1. ASSUME NEW i \in Item, DeleteLocal(i) \/ StartMove(i)
                 \/ \E status \in {"complete", "error"} : EndTransfer(i, status)
        PROVE  CopiesTyped'
    BY <2>1 DEF DeleteLocal, StartMove, EndTransfer
  <2>2. ASSUME NEW x \in DOMAIN threads, NEW j \in Item, AddTask(x, j) PROVE CopiesTyped'
    BY <2>2 DEF AddTask
  <2>3. CASE EndMove \/ FailMove \/ RestartHelper
    BY <2>3 DEF EndMove, FailMove, RestartHelper, Fault
  <2> QED BY <2>1, <2>2, <2>3 DEF DiskStep
<1>5. Types'
  BY <1>2, <1>3, <1>4 DEF IInv, Types
<1>m. \A i \in Item : MacHas(i) => MacHas(i)'
  BY <1>1 DEF MacHas
<1>6. NamedIsOnMac'
  BY <1>1, <1>m, <1>2, <1>3 DEF IInv, Types, NamedIsOnMac, NamesOnMac, Slot, Handlers
<1>7. PurgedIsHad'
  BY <1>m, <1>2 DEF IInv, PurgedIsHad
<1> QED BY <1>1, <1>5, <1>6, <1>7 DEF IInv

LEMMA StepKeeps ==
  ASSUME IInv, [Next]_vars
  PROVE  IInv'
<1>1. CASE DiskStep
  BY <1>1, DiskStepKeeps
<1>2. CASE SlotStep /\ UNCHANGED copies
  BY <1>2, SlotStepKeeps
<1>3. ASSUME UNCHANGED <<copies, slot, nextJob>>, cache' \in {cache, {}},
             \/ UNCHANGED vps
             \/ \E i \in Item : RecordingEnds(i) \/ DeleteMedia(i)
      PROVE  IInv'
  <2>1. \A i : (OnMac(i)' <=> OnMac(i)) /\ (MacHas(i)' <=> MacHas(i))
    BY <1>3 DEF OnMac, MacHas, copies
  <2>2. /\ vps' \in [Item -> {"recording", "closed", "purged", "deleted"}]
        /\ \A i \in Item : vps'[i] = "purged" => vps[i] = "purged"
    BY <1>3 DEF IInv, Types, RecordingEnds, DeleteMedia
  <2>3. Types'
    BY <1>3, <2>2 DEF IInv, Types, copies
  <2>4. MovingIsStaged'
    BY <1>3 DEF IInv, MovingIsStaged, copies
  <2>5. NamedIsOnMac'
    BY <1>3, <2>1 DEF IInv, NamedIsOnMac, NamesOnMac
  <2>6. PurgedIsHad'
    BY <2>1, <2>2 DEF IInv, PurgedIsHad
  <2> QED BY <2>3, <2>4, <2>5, <2>6 DEF IInv
<1> QED BY <1>1, <1>2, <1>3, StepSplit

LEMMA InitIInv == Init => IInv
<1> SUFFICES ASSUME Init PROVE IInv
  OBVIOUS
<1>1. Idle \in Handlers
  <2>1. NoJobs \in [{} -> SUBSET Item]  BY DEF NoJobs
  <2>2. NoJobs \in Jobs  BY <2>1 DEF Jobs
  <2> QED BY <2>2 DEF Idle, Handlers
<1>2. Types
  BY <1>1 DEF Init, Types, File
<1>3. MovingIsStaged
  BY SlotAssumption DEF Init, MovingIsStaged
<1>4. NamedIsOnMac
  BY DEF Init, NamedIsOnMac, NamesOnMac, Slot, Idle
<1>5. PurgedIsHad
  BY DEF Init, PurgedIsHad
<1> QED BY <1>2, <1>3, <1>4, <1>5 DEF IInv

\* For a video that a heartbeat purged from the server one of exactly its size is complete
\* on the Mac, in its library or in staging, unless the user deleted it there: however many
\* heartbeats run together, whatever the sizes and names, with scans cached or answered by
\* the ledger, relocations that fail halfway, restarts of both sides, and whatever the web
\* UI calls in between.
THEOREM PurgeIsSafe == Spec => []PurgedIsOnMac
<1>1. IInv /\ [Next]_vars => IInv'
  BY StepKeeps
<1>2. IInv => PurgedIsOnMac
  BY DEF IInv, PurgedIsHad, MacHas, OnMac, PurgedIsOnMac
<1> QED BY InitIInv, <1>1, <1>2, PTL DEF Spec

----------------------------------------------------------------------------
(* The refinement: what the custody of the videos consists of, and what    *)
(* each step does to it.                                                   *)

held == <<vps, transfer, staging, mac, discarded>>

OnServer(i) == vps[i] \in {"recording", "closed"}
WholeOnMac(i) == mac[i] = "complete" \/ staging[i] = "complete"

\* Where nothing that is on the Mac, the server, in transfer or deleted changes, the
\* custody stutters.
LEMMA Stutters ==
  ASSUME \A i \in Item : OnServer(i)' <=> OnServer(i),
         \A i \in Item : (vps[i] = "deleted")' <=> vps[i] = "deleted",
         \A i \in Item : WholeOnMac(i)' <=> WholeOnMac(i),
         UNCHANGED <<transfer, discarded>>
  PROVE  UNCHANGED Custody!vars
BY DEF Custody!vars, OnServer, WholeOnMac

LEMMA InitCustody == Init => Custody!Init
BY DEF Init, Custody!Init

\* Each step that changes the copies on the Mac is a step of the custody or none.
LEMMA DiskStepIsCustody ==
  ASSUME IInv, [Next]_vars, DiskStep
  PROVE  [Custody!Next]_(Custody!vars)
<1> USE DEF disk, motrix, server, OnServer, WholeOnMac
<1>h. Types /\ MovingIsStaged
  BY DEF IInv
<1>1. ASSUME NEW i \in Item, DeleteLocal(i) PROVE Custody!Discard(i)
  BY <1>1, <1>h DEF DeleteLocal, Custody!Discard, Types
<1>2. ASSUME NEW i \in Item, StartMove(i) PROVE UNCHANGED Custody!vars
  BY <1>2, <1>h, Stutters DEF StartMove, bounds, Types
<1>3. ASSUME NEW i \in Item, NEW status \in {"complete", "error"}, EndTransfer(i, status)
      PROVE  Custody!EndCopy(i)
  BY <1>3, <1>h DEF EndTransfer, bounds, Custody!EndCopy, Types
<1>4. ASSUME NEW x \in DOMAIN threads, NEW i \in Item, AddTask(x, i)
      PROVE  Custody!StartCopy(i) \/ UNCHANGED Custody!vars
  BY <1>4, <1>h, Stutters DEF AddTask, bounds, Custody!StartCopy, Types
<1>5. ASSUME EndMove \/ FailMove PROVE UNCHANGED Custody!vars
  BY <1>5, <1>h, SlotAssumption, Stutters DEF EndMove, FailMove, bounds, Types, MovingIsStaged
<1>6. ASSUME RestartHelper PROVE UNCHANGED Custody!vars
  BY <1>6, Stutters DEF RestartHelper, Fault
<1> QED BY <1>1, <1>2, <1>3, <1>4, <1>5, <1>6 DEF DiskStep, Custody!Next

\* What a handler changes of it is the file it purges, of whose size the Mac has one.
LEMMA PurgeIsCustody ==
  ASSUME IInv, NEW b \in Beat, NEW i \in Item, PurgeFile(b, i)
  PROVE  [Custody!Next]_(Custody!vars)
<1>1. MacHas(i) /\ Types
  BY DEF IInv, NamedIsOnMac, NamesOnMac, PurgeFile
<1>2. CASE vps[i] = "closed"
  <2>1. Custody!Purge(i)
    <3>1. \E j \in {j \in Item : mac[j] = "complete" \/ staging[j] = "complete"} \cup discarded :
            SizeOf[j] = SizeOf[i]
      BY <1>1 DEF MacHas, OnMac
    <3>2. /\ i \in {j \in Item : vps[j] \in {"recording", "closed"}}
          /\ {j \in Item : vps[j] \in {"recording", "closed"}}' =
               {j \in Item : vps[j] \in {"recording", "closed"}} \ {i}
          /\ {j \in Item : vps[j] = "deleted"}' = {j \in Item : vps[j] = "deleted"}
          /\ UNCHANGED <<transfer, staging, mac, discarded>>
      BY <1>1, <1>2 DEF PurgeFile, Types, disk, motrix, bounds
    <3> QED BY <3>1, <3>2 DEF Custody!Purge
  <2> QED BY <2>1 DEF Custody!Next
<1>3. CASE vps[i] # "closed"
  <2>1. UNCHANGED <<vps, transfer, staging, mac, discarded>>
    BY <1>1, <1>3 DEF PurgeFile, Types, disk, motrix, bounds
  <2> QED BY <2>1, Stutters DEF OnServer, WholeOnMac
<1> QED BY <1>2, <1>3

\* Every step: it moves the copies, purges, is the user's deletion on the server, or leaves
\* all that the custody tells of as it is.
LEMMA StepIsCustody ==
  ASSUME IInv, [Next]_vars
  PROVE  [Custody!Next]_(Custody!vars)
<1> DEFINE Goal == [Custody!Next]_(Custody!vars)
<1>h. (UNCHANGED held) => Goal
  BY Stutters DEF held, OnServer, WholeOnMac
<1>d. DiskStep => Goal
  BY DiskStepIsCustody
<1> USE DEF server, motrix, disk, bounds, held, Call, Fault
<1>1. CASE UNCHANGED vars
  <2>1. UNCHANGED held  BY <1>1 DEF vars
  <2> QED BY <2>1, <1>h
<1>2. ASSUME NEW S \in SUBSET Item, SelectItems(S) PROVE UNCHANGED held
  BY <1>2 DEF SelectItems
<1>3. ASSUME NEW i \in Item, PauseResumeDelete(i) PROVE UNCHANGED held
  BY <1>3 DEF PauseResumeDelete
<1>4. ASSUME NEW i \in Item, DeleteMedia(i) PROVE Goal
  <2>1. Custody!Remove(i)
    BY <1>4 DEF DeleteMedia, Custody!Remove, IInv, Types
  <2> QED BY <2>1 DEF Custody!Next
<1>5. ASSUME NEW i \in Item, RecordingEnds(i) PROVE Goal
  BY <1>5, Stutters DEF RecordingEnds, IInv, Types, OnServer, WholeOnMac
<1>6. ASSUME NEW b \in Beat, NEW i \in Item, PurgeFile(b, i) PROVE Goal
  BY <1>6, PurgeIsCustody
<1>7. ASSUME NEW b \in Beat, NEW i \in Item, MarkDone(b, i) PROVE UNCHANGED held
  BY <1>7 DEF MarkDone
<1>8. ASSUME NEW b \in Slot, ClaimNext(b) \/ CreateJob(b) \/ FailJob(b) PROVE UNCHANGED held
  BY <1>8 DEF ClaimNext, CreateJob, FailJob
<1>9. ASSUME NEW b \in Beat, AnswerHeartbeat(b) \/ SendHeartbeat(b) \/ Compare(b) \/ LoseAnswer(b)
      PROVE UNCHANGED held
  BY <1>9 DEF AnswerHeartbeat, SendHeartbeat, Compare, LoseAnswer
<1>10. AppendItems \/ AnswerPage \/ RestartServer => UNCHANGED held
  BY DEF AppendItems, AnswerPage, RestartServer
<1>11. ASSUME NEW x \in DOMAIN threads, NEW i \in Item, TakeItem(x, i) PROVE UNCHANGED held
  BY <1>11 DEF TakeItem
<1>12. ASSUME NEW x \in DOMAIN threads, EnqueueRelocate(x) PROVE UNCHANGED held
  BY <1>12 DEF EnqueueRelocate
<1>13. ASSUME NEW i \in Item, DropPending(i) PROVE UNCHANGED held
  BY <1>13 DEF DropPending
<1>14. ASSUME NEW n \in DOMAIN jobs, ExpireJob(n) PROVE UNCHANGED held
  BY <1>14 DEF ExpireJob
<1>15. CASE User
  BY <1>15, <1>2, <1>3, <1>4, <1>h, <1>d DEF User, DiskStep
<1>16. CASE \E i \in Item : RecordingEnds(i) \/ Motrix(i)
  BY <1>16, <1>5, <1>d DEF Motrix, DiskStep
<1>17. CASE \E b \in Beat : SendHeartbeat(b) \/ Handler(b)
  BY <1>17, <1>6, <1>7, <1>8, <1>9, <1>h DEF Handler, Slot
<1>18. CASE PageHandler
  BY <1>18, <1>8, <1>10, <1>h DEF PageHandler, Slot
<1>19. CASE \E x \in DOMAIN threads : Thread(x)
  BY <1>19, <1>11, <1>12, <1>h, <1>d DEF Thread, DiskStep
<1>20. CASE Relocation
  BY <1>20, <1>13, <1>h, <1>d DEF Relocation, DiskStep
<1>21. CASE Faults
  BY <1>21, <1>9, <1>10, <1>14, <1>h, <1>d DEF Faults, DiskStep
<1> QED BY <1>1, <1>15, <1>16, <1>17, <1>18, <1>19, <1>20, <1>21 DEF Next

\* The way to the Mac, with its queue, heartbeats, jobs, threads, relocations and restarts,
\* keeps the custody that VideoCustody promises: step by step, nothing but the user makes a
\* video leave both the server and the Mac.
THEOREM CustodyIsKept == Spec => KeepsCustody
<1>1. IInv /\ [Next]_vars => IInv'
  BY StepKeeps
<1>2. IInv /\ [Next]_vars => [Custody!Next]_(Custody!vars)
  BY StepIsCustody
<1> QED BY InitIInv, InitCustody, <1>1, <1>2, PTL DEF Spec, KeepsCustody, Custody!Spec

----------------------------------------------------------------------------
(* Whom a downloading task waits for. *)

Coming(i) == \E b \in Slot : slot[b].at = "create" /\ i \in slot[b].todo
InJob(i) == \E n \in DOMAIN jobs : i \in jobs[n]
Served(i) == i \in stranded \/ Coming(i) \/ InJob(i) \/ HasThread(i) \/ rows[i] # {} \/ OnMac(i)

\* Also while the video is being recorded, which may end.
TasksServed == \A i \in Library : task[i] = "downloading" => Served(i)

ThreadState == [todo : SUBSET Item, item : Item \cup {None}, at : {"take", "add", "pend"}]

FlowTypes ==
  /\ task \in [Item -> Status]
  /\ rows \in [Item -> SUBSET Row]
  /\ jobs \in Jobs
  /\ threads \in [DOMAIN threads -> ThreadState]
  /\ DOMAIN threads \subseteq Nat \X {"ready", "drained"}

\* No number of a job is used twice.
Numbered ==
  /\ \A n \in DOMAIN jobs : n < nextJob
  /\ \A b \in Slot : \A n \in DOMAIN slot[b].jobs : n < nextJob
  /\ \A x \in DOMAIN threads : x[1] < nextJob

\* A thread that was started for a job is not started a second time, in the middle of its
\* items: the job is answered as ready once, and as drained by the handler that created it.
AnsweredOnce ==
  /\ \A x \in DOMAIN threads :
       /\ x[2] = "ready" => x[1] \notin DOMAIN jobs
       /\ x[2] = "drained" => \A b \in Slot : x[1] \notin DOMAIN slot[b].jobs
  /\ \A b, c \in Slot : b # c => DOMAIN slot[b].jobs \cap DOMAIN slot[c].jobs = {}

\* A thread holds an item from its addUri on, which gives the item a row.
ItemOfThread(x) ==
  /\ threads[x].at = "take" => threads[x].item = None
  /\ threads[x].at # "take" => threads[x].item \in Item
  /\ threads[x].at = "pend" => rows[threads[x].item] # {}

\* No helper restarted.
Heard == \A b \in Slot : ~ slot[b].deaf

Flow ==
  /\ FlowTypes /\ Numbered /\ AnsweredOnce /\ Heard /\ TasksServed
  /\ \A x \in DOMAIN threads : ItemOfThread(x)

\* As long as nothing was lost.
FlowInv == faults \in Nat /\ (faults = 0 => Flow)

\* What makes a task wait for nobody new: the rows stay, and a stranded task is so until a
\* handler claimed it again.
KeepsServing ==
  /\ rows' \in [Item -> SUBSET Row] /\ \A i \in Item : rows[i] # {} => rows'[i] # {}
  /\ \A i \in Item : i \in stranded => i \in stranded' \/ Coming(i)'
  /\ \A i \in Item : i \in Library' => i \in Library

\* A step that changes neither jobs nor threads and drops no handler that is to create one.
LEMMA QuietStep ==
  ASSUME IInv, Flow, [Next]_vars, KeepsServing, UNCHANGED <<jobs, nextJob, threads>>,
         task' \in [Item -> Status],
         \A b \in Slot : /\ ~ slot'[b].deaf
                         /\ DOMAIN slot'[b].jobs \subseteq DOMAIN slot[b].jobs
                         /\ slot[b].at = "create" => slot'[b].at = "create" /\ slot'[b].todo = slot[b].todo,
         \A i \in Item : task'[i] = "downloading" =>
                           task[i] = "downloading" \/ rows[i] # {} \/ Coming(i)'
  PROVE  Flow'
<1>1. \A i \in Item : OnMac(i) => OnMac(i)'
  BY OnMacStays DEF IInv
<1>2. FlowTypes'
  BY DEF Flow, FlowTypes, KeepsServing
<1>3. Numbered' /\ AnsweredOnce' /\ Heard'
  BY DEF Flow, Numbered, AnsweredOnce, Heard
<1>4. \A x \in DOMAIN threads : ItemOfThread(x)'
  BY DEF Flow, ItemOfThread, KeepsServing
<1>5. ASSUME NEW i \in Library', task'[i] = "downloading" PROVE Served(i)'
  <2>1. i \in Item /\ i \in Library
    BY DEF KeepsServing, Library
  <2>2. rows[i] # {} \/ Coming(i)' \/ Served(i)
    BY <2>1, <1>5 DEF Flow, TasksServed
  <2>3. Coming(i) => Coming(i)'
    BY DEF Coming
  <2>4. InJob(i) => InJob(i)'
    BY DEF InJob
  <2>5. HasThread(i) => HasThread(i)'
    BY DEF HasThread
  <2>6. i \in stranded => i \in stranded' \/ Coming(i)'
    BY <2>1 DEF KeepsServing
  <2>7. rows[i] # {} => rows'[i] # {}
    BY <2>1 DEF KeepsServing
  <2>8. OnMac(i) => OnMac(i)'
    BY <1>1, <2>1
  <2> QED BY <2>2, <2>3, <2>4, <2>5, <2>6, <2>7, <2>8 DEF Served
<1> QED BY <1>2, <1>3, <1>4, <1>5 DEF Flow, TasksServed

\* A step of a thread leaves the others alone, and of its own items those that are filed,
\* or have a row.
LEMMA ThreadStep ==
  ASSUME IInv, Flow, [Next]_vars, KeepsServing, UNCHANGED <<task, jobs, nextJob, slot>>,
         NEW x \in DOMAIN threads,
         threads' \in [DOMAIN threads' -> ThreadState],
         DOMAIN threads \ {x} \subseteq DOMAIN threads', DOMAIN threads' \subseteq DOMAIN threads,
         \A y \in DOMAIN threads \ {x} : threads'[y] = threads[y],
         x \in DOMAIN threads' => ItemOfThread(x)',
         \A i \in Item : i = threads[x].item \/ i \in threads[x].todo =>
                           HasThread(i)' \/ rows'[i] # {} \/ OnMac(i)
  PROVE  Flow'
<1>1. \A i \in Item : OnMac(i) => OnMac(i)'
  BY OnMacStays DEF IInv
<1>2. FlowTypes'
  BY DEF Flow, FlowTypes, KeepsServing
<1>3. Numbered' /\ AnsweredOnce' /\ Heard'
  BY DEF Flow, Numbered, AnsweredOnce, Heard
<1>4. ASSUME NEW y \in DOMAIN threads' PROVE ItemOfThread(y)'
  BY DEF Flow, ItemOfThread, KeepsServing
<1>5. ASSUME NEW i \in Library', task'[i] = "downloading" PROVE Served(i)'
  <2>1. i \in Item /\ i \in Library
    BY DEF KeepsServing, Library
  <2>2. Served(i)
    BY <2>1, <1>5 DEF Flow, TasksServed
  <2>3. HasThread(i) => HasThread(i)' \/ rows'[i] # {} \/ OnMac(i)
    BY <2>1 DEF HasThread
  <2>4. (Coming(i) => Coming(i)') /\ (InJob(i) => InJob(i)')
    BY DEF Coming, InJob
  <2>5. (i \in stranded => i \in stranded' \/ Coming(i)') /\ (rows[i] # {} => rows'[i] # {})
    BY <2>1 DEF KeepsServing
  <2>6. OnMac(i) => OnMac(i)'
    BY <1>1, <2>1
  <2> QED BY <2>2, <2>3, <2>4, <2>5, <2>6 DEF Served
<1> QED BY <1>2, <1>3, <1>4, <1>5 DEF Flow, TasksServed

\* What the helper's rows make of a task: it is not made downloading without any.
LEMMA ProgressedTask ==
  ASSUME NEW status \in Status, NEW R \in SUBSET Row, NEW t \in Progressed(status, R)
  PROVE  t \in Status /\ (t = "downloading" => status = "downloading" \/ R # {})
<1>1. CASE status = "none" \/ R = {}
  BY <1>1 DEF Progressed
<1>2. CASE status # "none" /\ "complete" \in R
  BY <1>2 DEF Progressed, Status
<1>3. CASE status # "none" /\ "complete" \notin R /\ R # {}
  <2>1. R = {"error", "active"} \/ R = {"error"} \/ R = {"active"}
    BY <1>3 DEF Row
  <2> QED BY <1>3, <2>1 DEF Progressed, Status
<1> QED BY <1>1, <1>2, <1>3

\* The steps of the user, of the relocation and of Motrix.
LEMMA OutsideFlow ==
  ASSUME IInv, Flow, [Next]_vars,
         \/ \E S \in SUBSET Item : SelectItems(S)
         \/ \E i \in Item : \/ PauseResumeDelete(i) \/ DeleteMedia(i) \/ DeleteLocal(i)
                            \/ RecordingEnds(i) \/ Motrix(i)
         \/ Relocation
  PROVE  Flow'
<1> USE DEF server, motrix, disk, bounds, Call
<1>h. /\ task \in [Item -> Status] /\ rows \in [Item -> SUBSET Row]
      /\ vps \in [Item -> {"recording", "closed", "purged", "deleted"}]
      /\ slot \in [Slot -> Handlers] /\ \A b \in Slot : ~ slot[b].deaf
  BY DEF Flow, FlowTypes, Heard, IInv, Types
<1> DEFINE SlotsKept == \A b \in Slot :
                          /\ ~ slot'[b].deaf
                          /\ DOMAIN slot'[b].jobs \subseteq DOMAIN slot[b].jobs
                          /\ slot[b].at = "create" => slot'[b].at = "create" /\ slot'[b].todo = slot[b].todo
<1>s. (UNCHANGED slot) => SlotsKept
  BY <1>h
<1> DEFINE NoneTaken == \A i \in Item : task'[i] = "downloading" => task[i] = "downloading"
<1>q. (/\ KeepsServing /\ UNCHANGED <<jobs, nextJob, threads>>
       /\ SlotsKept /\ task' \in [Item -> Status] /\ NoneTaken) => Flow'
  BY QuietStep
<1> HIDE DEF SlotsKept, NoneTaken
<1>t. (UNCHANGED task) => task' \in [Item -> Status] /\ NoneTaken
  BY <1>h DEF NoneTaken
<1>1. ASSUME NEW S \in SUBSET Item, SelectItems(S) PROVE Flow'
  <2>1. SlotsKept
    <3>1. slot[Page].at = "idle" /\ Page \in Slot /\ S \in SUBSET Item
      <4>1. slot[Page] = Idle
        BY <1>1 DEF SelectItems
      <4>2. Idle.at = "idle"
        BY DEF Idle
      <4> QED BY <4>1, <4>2 DEF Slot
    <3>2. slot' = [slot EXCEPT ![Page] = [@ EXCEPT !.at = "append", !.todo = S]]
      BY <1>1 DEF SelectItems
    <3> QED BY <1>h, <3>1, <3>2 DEF SlotsKept, Handlers
  <2>2. KeepsServing
    BY <1>h, <1>1 DEF SelectItems, KeepsServing, Library
  <2>3. UNCHANGED <<task, jobs, nextJob, threads>>
    BY <1>1 DEF SelectItems
  <2> QED BY <2>1, <2>2, <2>3, <1>q, <1>t
<1>2. ASSUME NEW i \in Item, PauseResumeDelete(i) PROVE Flow'
  <2>1. task' \in [Item -> Status] /\ NoneTaken
    BY <1>h, <1>2 DEF PauseResumeDelete, Paused, Resumed, NoneTaken, Status
  <2>2. KeepsServing /\ UNCHANGED <<jobs, nextJob, threads, slot>>
    BY <1>h, <1>2 DEF PauseResumeDelete, KeepsServing, Library
  <2> QED BY <2>1, <2>2, <1>q, <1>s
<1>3. ASSUME NEW i \in Item, DeleteMedia(i) \/ DeleteLocal(i) \/ RecordingEnds(i) \/ Motrix(i) PROVE Flow'
  <2>1. UNCHANGED <<task, jobs, nextJob, threads, slot>>
    BY <1>3 DEF DeleteMedia, DeleteLocal, RecordingEnds, Motrix, EndTransfer
  <2>2. CASE Motrix(i)
    <3>1. PICK status \in {"complete", "error"} : EndTransfer(i, status)
      BY <2>2 DEF Motrix
    <3>2. KeepsServing
      BY <1>h, <3>1 DEF EndTransfer, KeepsServing, Library, Row
    <3> QED BY <2>1, <3>2, <1>q, <1>s, <1>t
  <2>3. CASE ~ Motrix(i)
    <3>1. KeepsServing
      BY <1>h, <1>3, <2>3 DEF DeleteMedia, DeleteLocal, RecordingEnds, KeepsServing, Library
    <3> QED BY <2>1, <3>1, <1>q, <1>s, <1>t
  <2> QED BY <2>2, <2>3
<1>4. CASE Relocation
  <2>1. KeepsServing /\ UNCHANGED <<task, jobs, nextJob, threads, slot>>
    BY <1>h, <1>4 DEF Relocation, StartMove, DropPending, EndMove, FailMove, KeepsServing,
       Library
  <2> QED BY <2>1, <1>q, <1>s, <1>t
<1> QED BY <1>1, <1>2, <1>3, <1>4

\* The steps of a handler between its awaits, but the creation of a job and the answer to
\* the helper.
LEMMA HandlerFlow ==
  ASSUME IInv, Flow, [Next]_vars,
         \/ \E b \in Beat : \/ SendHeartbeat(b) \/ Compare(b)
                            \/ \E i \in Item : PurgeFile(b, i) \/ MarkDone(b, i)
         \/ \E b \in Slot : ClaimNext(b)
         \/ AppendItems \/ AnswerPage
  PROVE  Flow'
<1> USE DEF server, motrix, disk, bounds
<1>h. /\ task \in [Item -> Status] /\ rows \in [Item -> SUBSET Row]
      /\ vps \in [Item -> {"recording", "closed", "purged", "deleted"}]
      /\ slot \in [Slot -> Handlers] /\ \A b \in Slot : ~ slot[b].deaf
  BY DEF Flow, FlowTypes, Heard, IInv, Types
<1> DEFINE SlotsKept == \A b \in Slot :
                          /\ ~ slot'[b].deaf
                          /\ DOMAIN slot'[b].jobs \subseteq DOMAIN slot[b].jobs
                          /\ slot[b].at = "create" => slot'[b].at = "create" /\ slot'[b].todo = slot[b].todo
           TasksKept == /\ task' \in [Item -> Status]
                        /\ \A i \in Item : task'[i] = "downloading" =>
                             task[i] = "downloading" \/ rows[i] # {} \/ Coming(i)'
<1>q. KeepsServing /\ UNCHANGED <<jobs, nextJob, threads>> /\ SlotsKept /\ TasksKept => Flow'
  BY QuietStep
<1>c. ASSUME NEW c \in Slot, NEW h \in Handlers, slot' = [slot EXCEPT ![c] = h],
             slot[c].at # "create", ~ h.deaf, DOMAIN h.jobs \subseteq DOMAIN slot[c].jobs
      PROVE  SlotsKept
  BY <1>h, <1>c
<1> HIDE DEF SlotsKept, TasksKept
<1>t. (UNCHANGED task) => TasksKept
  BY <1>h DEF TasksKept
<1>k. (UNCHANGED <<vps, rows, stranded>>) => KeepsServing
  BY <1>h DEF KeepsServing, Library
<1>1. ASSUME NEW b \in Beat, SendHeartbeat(b) PROVE Flow'
  <2>1. PICK F \in Scans : slot' = [slot EXCEPT ![b] = [@ EXCEPT !.at = "compare", !.files = F]]
    BY <1>1 DEF SendHeartbeat
  <2>2. F \in SUBSET Item
    BY ScanIsOnMac DEF IInv
  <2>3. SlotsKept
    <3> DEFINE h == [slot[b] EXCEPT !.at = "compare", !.files = F]
    <3>1. h \in Handlers /\ ~ h.deaf /\ h.jobs = slot[b].jobs
      BY <1>h, <2>2 DEF Handlers, Slot
    <3>2. slot' = [slot EXCEPT ![b] = h] /\ b \in Slot /\ slot[b].at # "create"
      <4>1. slot[b] = Idle /\ b \in Slot
        BY <1>1 DEF SendHeartbeat, Slot
      <4>2. Idle.at = "idle"
        BY DEF Idle
      <4> QED BY <2>1, <4>1, <4>2
    <3> HIDE DEF h
    <3> QED BY <3>1, <3>2, <1>c
  <2>4. task' \in [Item -> Status \cup Row] /\ \A i \in Item : task'[i] \in Progressed(task[i], rows[i])
    BY <1>1 DEF SendHeartbeat
  <2>5. TasksKept
    <3>1. \A i \in Item : task[i] \in Status /\ rows[i] \in SUBSET Row
      BY <1>h
    <3>2. \A i \in Item : task'[i] \in Status /\ (task'[i] = "downloading" => task[i] = "downloading" \/ rows[i] # {})
      BY <2>4, <3>1, ProgressedTask
    <3> QED BY <2>4, <3>2 DEF TasksKept
  <2>6. UNCHANGED <<vps, rows, stranded, jobs, nextJob, threads>>
    BY <1>1 DEF SendHeartbeat
  <2> QED BY <2>3, <2>5, <2>6, <1>k, <1>q
<1>2. ASSUME NEW b \in Beat, Compare(b) PROVE Flow'
  <2> DEFINE h == [slot[b] EXCEPT !.at = "purge", !.files = {}, !.todo = Synced(slot[b].files)]
  <2>1. h \in Handlers /\ ~ h.deaf /\ h.jobs = slot[b].jobs
    BY <1>h DEF Handlers, Slot, Synced, Library
  <2>2. /\ slot' = [slot EXCEPT ![b] = h] /\ b \in Slot /\ slot[b].at # "create"
        /\ UNCHANGED <<task, vps, rows, stranded, jobs, nextJob, threads>>
    BY <1>2 DEF Compare, Slot
  <2> HIDE DEF h
  <2> QED BY <2>1, <2>2, <1>c, <1>t, <1>k, <1>q
<1>3. ASSUME NEW b \in Beat, NEW i \in Item, PurgeFile(b, i) PROVE Flow'
  <2> DEFINE h == [slot[b] EXCEPT !.todo = slot[b].todo \ {i}, !.purged = slot[b].purged \cup {i}]
  <2>1. h \in Handlers /\ ~ h.deaf /\ h.jobs = slot[b].jobs
    BY <1>h DEF Handlers, Slot
  <2>2. /\ slot' = [slot EXCEPT ![b] = h] /\ b \in Slot /\ slot[b].at # "create"
        /\ UNCHANGED <<task, rows, stranded, jobs, nextJob, threads>>
    BY <1>3 DEF PurgeFile, Slot
  <2>3. KeepsServing
    BY <1>h, <1>3 DEF PurgeFile, KeepsServing, Library
  <2> HIDE DEF h
  <2> QED BY <2>1, <2>2, <2>3, <1>c, <1>t, <1>q
<1>4. ASSUME NEW b \in Beat, NEW i \in Item, MarkDone(b, i) PROVE Flow'
  <2>1. KeepsServing /\ UNCHANGED <<jobs, nextJob, threads>>
    BY <1>k, <1>4 DEF MarkDone
  <2>2. SlotsKept
    BY <1>h, <1>4 DEF MarkDone, SlotsKept, Handlers, Slot
  <2>3. TasksKept
    BY <1>h, <1>4 DEF MarkDone, TasksKept, Status
  <2> QED BY <2>1, <2>2, <2>3, <1>q
<1>5. ASSUME NEW b \in Slot, ClaimNext(b) PROVE Flow'
  <2>1. PICK S \in SUBSET {i \in Item : task[i] = "queued"} :
          /\ task' = [i \in Item |-> IF i \in S THEN "downloading" ELSE task[i]]
          /\ slot' = [slot EXCEPT ![b] = [@ EXCEPT !.at = IF S = {} THEN "answer" ELSE "create",
                                                   !.todo = S]]
    BY <1>5 DEF ClaimNext
  <2> DEFINE h == [slot[b] EXCEPT !.at = IF S = {} THEN "answer" ELSE "create", !.todo = S]
  <2>2. h \in Handlers /\ ~ h.deaf /\ h.jobs = slot[b].jobs /\ h.todo = S /\ (S # {} => h.at = "create")
    BY <1>h DEF Handlers
  <2>3. /\ slot' = [slot EXCEPT ![b] = h] /\ slot[b].at # "create" /\ stranded' = stranded \ S
        /\ UNCHANGED <<vps, rows, jobs, nextJob, threads>>
    BY <1>5, <2>1 DEF ClaimNext
  <2> HIDE DEF h
  <2>4. \A i \in S : Coming(i)'
    BY <2>2, <2>3, <1>h DEF Coming
  <2>5. TasksKept
    BY <2>1, <2>4, <1>h DEF TasksKept, Status
  <2>6. KeepsServing
    BY <2>3, <2>4, <1>h DEF KeepsServing, Library
  <2> QED BY <2>2, <2>3, <2>5, <2>6, <1>c, <1>q
<1>6. CASE AppendItems
  <2>1. SlotsKept
    BY <1>h, <1>6 DEF AppendItems, SlotsKept, Handlers, Slot
  <2>2. TasksKept
    BY <1>h, <1>6 DEF AppendItems, TasksKept, Status
  <2>3. UNCHANGED <<vps, rows, stranded, jobs, nextJob, threads>>
    BY <1>6 DEF AppendItems
  <2> QED BY <2>1, <2>2, <2>3, <1>k, <1>q
<1>7. CASE AnswerPage
  <2>1. SlotsKept
    BY <1>h, <1>7 DEF AnswerPage, SlotsKept, Handlers, Slot, Idle, NoJobs
  <2>2. UNCHANGED <<task, vps, rows, stranded, jobs, nextJob, threads>>
    BY <1>7 DEF AnswerPage
  <2> QED BY <2>1, <2>2, <1>t, <1>k, <1>q
<1> QED BY <1>1, <1>2, <1>3, <1>4, <1>5, <1>6, <1>7

\* The three steps of a thread: an item that it leaves for the sweep is on the Mac or has a
\* row, and one it asks Motrix for it holds.
LEMMA ThreadFlow ==
  ASSUME IInv, Flow, [Next]_vars, NEW x \in DOMAIN threads, Thread(x)
  PROVE  Flow'
<1> USE DEF server, motrix, disk, bounds
<1>h. /\ rows \in [Item -> SUBSET Row] /\ threads \in [DOMAIN threads -> ThreadState]
      /\ threads[x] \in ThreadState /\ ItemOfThread(x)
      /\ UNCHANGED <<vps, task, jobs, nextJob, slot, stranded>>
  BY DEF Flow, FlowTypes, Thread, TakeItem, AddTask, EnqueueRelocate
<1>k. ASSUME rows' \in [Item -> SUBSET Row], \A i \in Item : rows[i] # {} => rows'[i] # {}
      PROVE  KeepsServing
  BY <1>h, <1>k DEF KeepsServing, Library
<1>c. ASSUME NEW rest \in SUBSET Item, threads' = Continue(x, rest)
      PROVE  /\ threads' \in [DOMAIN threads' -> ThreadState]
             /\ DOMAIN threads \ {x} \subseteq DOMAIN threads' /\ DOMAIN threads' \subseteq DOMAIN threads
             /\ \A y \in DOMAIN threads \ {x} : threads'[y] = threads[y]
             /\ x \in DOMAIN threads' => ItemOfThread(x)'
             /\ \A i \in rest : HasThread(i)'
  <2>1. CASE rest = {}
    BY <1>c, <1>h, <2>1 DEF Continue
  <2>2. CASE rest # {}
    <3>1. threads' = [threads EXCEPT ![x] = NewThread(rest)]
      BY <1>c, <2>2 DEF Continue
    <3>2. NewThread(rest) \in ThreadState
      BY DEF NewThread, ThreadState
    <3>3. DOMAIN threads' = DOMAIN threads /\ threads'[x] = NewThread(rest)
      BY <3>1, <1>h
    <3>4. ItemOfThread(x)'
      BY <3>3 DEF ItemOfThread, NewThread
    <3>5. \A i \in rest : HasThread(i)'
      BY <3>3 DEF HasThread, NewThread
    <3> QED BY <1>h, <3>1, <3>2, <3>3, <3>4, <3>5
  <2> QED BY <2>1, <2>2
<1>1. ASSUME NEW i \in Item, TakeItem(x, i) PROVE Flow'
  <2> DEFINE here == "complete" \in {mac[i], staging[i]}
             rest == threads[x].todo \ {i}
             added == [todo |-> rest, item |-> i, at |-> "add"]
  <2>1. /\ threads[x].at = "take" /\ i \in threads[x].todo
        /\ rows' = IF ~ here /\ i \in transfer THEN [rows EXCEPT ![i] = @ \cup {"active"}] ELSE rows
        /\ \/ (here \/ i \in transfer \/ rows[i] # {}) /\ threads' = Continue(x, rest)
           \/ threads' = [threads EXCEPT ![x] = added]
    BY <1>1 DEF TakeItem
  <2>2. KeepsServing
    <3>1. rows' \in [Item -> SUBSET Row] /\ \A j \in Item : rows[j] # {} => rows'[j] # {}
      BY <1>h, <2>1 DEF Row
    <3> QED BY <3>1, <1>k
  <2>3. threads[x].item = None /\ threads[x].todo = rest \cup {i} /\ rest \in SUBSET Item
    BY <1>h, <2>1 DEF ItemOfThread, ThreadState
  <2>4. here => OnMac(i)
    BY DEF OnMac
  <2> HIDE DEF here, rest, added
  <2>5. CASE (here \/ i \in transfer \/ rows[i] # {}) /\ threads' = Continue(x, rest)
    <3>1. OnMac(i) \/ rows'[i] # {}
      BY <2>1, <2>4, <2>5, <1>h
    <3>2. \A j \in Item : j = threads[x].item \/ j \in threads[x].todo =>
                            HasThread(j)' \/ rows'[j] # {} \/ OnMac(j)
      BY <2>3, <2>5, <3>1, <1>c, SlotAssumption
    <3> QED BY <2>2, <2>3, <2>5, <3>2, <1>c, <1>h, ThreadStep
  <2>6. CASE threads' = [threads EXCEPT ![x] = added]
    <3>1. added \in ThreadState /\ added.item = i /\ added.todo = rest /\ added.at = "add"
      BY <2>3 DEF added, ThreadState
    <3>2. DOMAIN threads' = DOMAIN threads /\ threads'[x] = added /\ threads' \in [DOMAIN threads' -> ThreadState]
      BY <1>h, <2>6, <3>1
    <3>3. ItemOfThread(x)'
      BY <3>1, <3>2, SlotAssumption DEF ItemOfThread
    <3>4. \A j \in Item : j = threads[x].item \/ j \in threads[x].todo => HasThread(j)'
      BY <2>3, <3>1, <3>2, SlotAssumption DEF HasThread
    <3> QED BY <2>2, <2>6, <3>2, <3>3, <3>4, <1>h, ThreadStep
  <2> QED BY <2>1, <2>5, <2>6
<1>2. ASSUME NEW i \in Item, AddTask(x, i) PROVE Flow'
  <2>1. /\ threads[x].at = "add" /\ threads[x].item = i
        /\ threads' = [threads EXCEPT ![x].at = "pend"]
        /\ \E r \in {"error", "active"} : rows' = [rows EXCEPT ![i] = @ \cup {r}]
    BY <1>2 DEF AddTask
  <2>2. KeepsServing /\ rows'[i] # {}
    <3>1. /\ rows' \in [Item -> SUBSET Row] /\ \A j \in Item : rows[j] # {} => rows'[j] # {}
          /\ rows'[i] # {}
      BY <1>h, <2>1 DEF Row
    <3> QED BY <3>1, <1>k
  <2>3. /\ DOMAIN threads' = DOMAIN threads /\ threads' \in [DOMAIN threads' -> ThreadState]
        /\ threads'[x].at = "pend" /\ threads'[x].item = i /\ threads'[x].todo = threads[x].todo
    BY <1>h, <2>1 DEF ThreadState
  <2>4. ItemOfThread(x)'
    BY <2>2, <2>3 DEF ItemOfThread
  <2>5. \A j \in Item : j = threads[x].item \/ j \in threads[x].todo => HasThread(j)'
    BY <2>1, <2>3 DEF HasThread
  <2> QED BY <2>1, <2>2, <2>3, <2>4, <2>5, <1>h, ThreadStep
<1>3. CASE EnqueueRelocate(x)
  <2>1. threads[x].at = "pend" /\ threads' = Continue(x, threads[x].todo) /\ UNCHANGED rows
    BY <1>3 DEF EnqueueRelocate
  <2>2. KeepsServing
    BY <1>h, <2>1, <1>k
  <2>3. rows'[threads[x].item] # {} /\ threads[x].todo \in SUBSET Item
    BY <1>h, <2>1 DEF ItemOfThread, ThreadState
  <2>4. \A j \in Item : j = threads[x].item \/ j \in threads[x].todo => HasThread(j)' \/ rows'[j] # {}
    BY <2>1, <2>3, <1>c
  <2> QED BY <2>1, <2>2, <2>3, <2>4, <1>c, <1>h, ThreadStep
<1> QED BY <1>1, <1>2, <1>3 DEF Thread

LEMMA JobsByNumber ==
  ASSUME NEW f \in Jobs
  PROVE  DOMAIN f \subseteq Nat /\ \A n \in DOMAIN f : f[n] \in SUBSET Item
<1>1. PICK D \in SUBSET Nat : f \in [D -> SUBSET Item]
  BY DEF Jobs
<1> QED BY <1>1

\* The claimed tasks get a job or are stranded, or they are queued again: a handler that
\* stops creating leaves none of its tasks behind.
LEMMA CreateFlow ==
  ASSUME IInv, Flow, [Next]_vars, NEW b \in Slot, CreateJob(b)
  PROVE  Flow'
<1> USE DEF motrix, disk
<1> DEFINE S == slot[b].todo
           entries == Downloadable(S)
           after == [slot[b] EXCEPT !.at = "answer", !.todo = {}]
<1>h. /\ task \in [Item -> Status] /\ rows \in [Item -> SUBSET Row] /\ jobs \in Jobs /\ nextJob \in Nat
      /\ slot \in [Slot -> Handlers] /\ (\A c \in Slot : ~ slot[c].deaf) /\ S \in SUBSET Item
      /\ slot[b].at = "create"
      /\ UNCHANGED <<vps, threads, rows, mac, staging, discarded>>
  BY DEF Flow, FlowTypes, Heard, IInv, Types, Handlers, CreateJob
<1>a. /\ after \in Handlers /\ after.at = "answer" /\ after.todo = {} /\ after.jobs = slot[b].jobs
      /\ ~ after.deaf
  BY <1>h DEF Handlers
<1>e. entries \in SUBSET Item /\ entries \subseteq S
  BY <1>h DEF Downloadable
<1>1. \/ task' = Requeued(S) /\ slot' = [slot EXCEPT ![b] = after] /\ UNCHANGED <<jobs, nextJob, stranded>>
      \/ /\ nextJob' = nextJob + 1 /\ UNCHANGED task
         /\ jobs' = [n \in DOMAIN jobs \cup {nextJob} |-> IF n = nextJob THEN entries ELSE jobs[n]]
         /\ slot' = [slot EXCEPT ![b] = [after EXCEPT !.jobs = [n \in {nextJob} |-> entries]]]
         /\ stranded' = stranded \cup (S \ entries)
  BY DEF CreateJob
<1>k. \A i : (rows[i] # {})' = (rows[i] # {}) /\ OnMac(i)' = OnMac(i) /\ HasThread(i)' = HasThread(i)
  BY <1>h DEF OnMac, HasThread
<1>l. Library' = Library
  BY <1>h DEF Library
<1>t. (\A x \in DOMAIN threads : ItemOfThread(x))'
  BY <1>h DEF Flow, ItemOfThread
<1> HIDE DEF S, entries, after
<1>2. CASE task' = Requeued(S) /\ slot' = [slot EXCEPT ![b] = after] /\ UNCHANGED <<jobs, nextJob, stranded>>
  <2>1. task' \in [Item -> Status] /\ \A i \in Item : task'[i] = "downloading" => task[i] = "downloading" /\ i \notin S
    BY <1>2, <1>h DEF Requeued, Resumed, Paused, Status
  <2>2. FlowTypes'
    BY <1>2, <1>h, <2>1 DEF Flow, FlowTypes
  <2>3. \A c \in Slot : ~ slot'[c].deaf /\ slot'[c].jobs = slot[c].jobs
    BY <1>2, <1>h, <1>a
  <2>4. Numbered' /\ AnsweredOnce' /\ Heard'
    BY <1>2, <1>h, <2>3 DEF Flow, Numbered, AnsweredOnce, Heard
  <2>5. ASSUME NEW i \in Library, task'[i] = "downloading" PROVE Served(i)'
    <3>1. i \in Item /\ i \notin S /\ Served(i)
      BY <2>1, <2>5 DEF Flow, TasksServed, Library
    <3>2. Coming(i) => Coming(i)'
      BY <1>2, <1>h, <3>1 DEF Coming, S
    <3>3. (InJob(i) => InJob(i)') /\ (i \in stranded => i \in stranded')
      BY <1>2 DEF InJob
    <3> QED BY <3>1, <3>2, <3>3, <1>k DEF Served
  <2> QED BY <2>2, <2>4, <2>5, <1>l, <1>t DEF Flow, TasksServed
<1>3. CASE /\ nextJob' = nextJob + 1 /\ UNCHANGED task
           /\ jobs' = [n \in DOMAIN jobs \cup {nextJob} |-> IF n = nextJob THEN entries ELSE jobs[n]]
           /\ slot' = [slot EXCEPT ![b] = [after EXCEPT !.jobs = [n \in {nextJob} |-> entries]]]
           /\ stranded' = stranded \cup (S \ entries)
  <2>1. /\ DOMAIN jobs \subseteq Nat /\ \A n \in DOMAIN jobs : jobs[n] \in SUBSET Item
        /\ \A n \in DOMAIN jobs : n < nextJob
    BY <1>h, JobsByNumber DEF Flow, Numbered
  <2>2. /\ DOMAIN jobs' = DOMAIN jobs \cup {nextJob} /\ jobs'[nextJob] = entries
        /\ \A n \in DOMAIN jobs : jobs'[n] = jobs[n]
    BY <1>3, <1>h, <2>1
  <2>3. jobs' \in Jobs
    <3>1. jobs' \in [DOMAIN jobs \cup {nextJob} -> SUBSET Item]
      BY <1>3, <1>e, <2>1
    <3> QED BY <3>1, <2>1, <1>h DEF Jobs
  <2>4. /\ \A c \in Slot : ~ slot'[c].deaf
        /\ \A c \in Slot \ {b} : slot'[c] = slot[c]
        /\ DOMAIN slot'[b].jobs = {nextJob}
    BY <1>3, <1>h, <1>a DEF Handlers
  <2>5. FlowTypes'
    BY <1>3, <1>h, <2>3 DEF Flow, FlowTypes
  <2>6. \A x \in DOMAIN threads : x[1] \in Nat /\ x[1] < nextJob
    BY DEF Flow, FlowTypes, Numbered
  <2>7. \A c \in Slot : \A n \in DOMAIN slot[c].jobs : n \in Nat /\ n < nextJob
    <3>1. \A c \in Slot : slot[c].jobs \in Jobs
      BY <1>h DEF Handlers
    <3> QED BY <3>1, JobsByNumber DEF Flow, Numbered
  <2>8. Numbered'
    BY <1>3, <1>h, <2>1, <2>2, <2>4, <2>6, <2>7 DEF Numbered
  <2>9. AnsweredOnce'
    <3>1. ASSUME NEW x \in DOMAIN threads
          PROVE  /\ x[2] = "ready" => x[1] \notin DOMAIN jobs'
                 /\ x[2] = "drained" => \A c \in Slot : x[1] \notin DOMAIN slot'[c].jobs
      <4>1. x[1] # nextJob
        BY <2>6, <1>h
      <4> QED BY <4>1, <2>2, <2>4 DEF Flow, AnsweredOnce
    <3>2. ASSUME NEW c \in Slot, NEW d \in Slot, c # d
          PROVE  DOMAIN slot'[c].jobs \cap DOMAIN slot'[d].jobs = {}
      <4>1. \A e \in Slot : nextJob \notin DOMAIN slot[e].jobs
        BY <2>7, <1>h
      <4> QED BY <3>2, <4>1, <2>4 DEF Flow, AnsweredOnce
    <3> QED BY <3>1, <3>2, <1>h DEF AnsweredOnce
  <2>10. ASSUME NEW i \in Library, task'[i] = "downloading" PROVE Served(i)'
    <3>1. Served(i)
      BY <1>3, <2>10 DEF Flow, TasksServed
    <3>2. InJob(i) => InJob(i)'
      BY <2>2 DEF InJob
    <3>3. Coming(i) => Coming(i)' \/ i \in S
      BY <2>4, <1>h DEF Coming, S
    <3>4. i \in S => InJob(i)' \/ i \in stranded'
      BY <1>3, <2>2 DEF InJob
    <3>5. i \in stranded => i \in stranded'
      BY <1>3
    <3> QED BY <3>1, <3>2, <3>3, <3>4, <3>5, <1>k DEF Served
  <2>11. Heard'
    BY <2>4 DEF Heard
  <2> QED BY <2>5, <2>8, <2>9, <2>10, <2>11, <1>l, <1>t DEF Flow, TasksServed
<1> QED BY <1>1, <1>2, <1>3

\* An error strands the tasks of the handler that met it, and no others.
LEMMA FailFlow ==
  ASSUME IInv, Flow, [Next]_vars, NEW b \in Slot, FailJob(b)
  PROVE  Flow'
<1> USE DEF motrix, disk
<1> DEFINE h == [slot[b] EXCEPT !.at = "answer", !.todo = {}]
<1>h. /\ task \in [Item -> Status] /\ slot \in [Slot -> Handlers] /\ (\A c \in Slot : ~ slot[c].deaf)
      /\ slot' = [slot EXCEPT ![b] = h] /\ stranded' = stranded \cup slot[b].todo
      /\ UNCHANGED <<vps, task, jobs, nextJob, threads, rows, mac, staging, discarded>>
  BY DEF Flow, FlowTypes, Heard, IInv, Types, FailJob
<1>1. \A c \in Slot : ~ slot'[c].deaf /\ slot'[c].jobs = slot[c].jobs
  BY <1>h DEF Handlers
<1>2. FlowTypes' /\ Numbered' /\ AnsweredOnce' /\ Heard'
  BY <1>h, <1>1 DEF Flow, FlowTypes, Numbered, AnsweredOnce, Heard
<1>3. (\A x \in DOMAIN threads : ItemOfThread(x))'
  BY <1>h DEF Flow, ItemOfThread
<1>4. ASSUME NEW i \in Library', task'[i] = "downloading" PROVE Served(i)'
  <2>1. Served(i)
    BY <1>h, <1>4 DEF Flow, TasksServed, Library
  <2>2. Coming(i) => Coming(i)' \/ i \in stranded'
    BY <1>h DEF Coming
  <2>3. (InJob(i) => InJob(i)') /\ (HasThread(i) => HasThread(i)') /\ (OnMac(i) => OnMac(i)')
    BY <1>h DEF InJob, HasThread, OnMac
  <2> QED BY <1>h, <2>1, <2>2, <2>3 DEF Served
<1> QED BY <1>2, <1>3, <1>4, <1>h DEF Flow, TasksServed

\* An answer starts a thread for each of its jobs, and replaces none that has begun.
LEMMA AnswerFlow ==
  ASSUME IInv, Flow, [Next]_vars, NEW b \in Beat, AnswerHeartbeat(b)
  PROVE  Flow'
<1> USE DEF motrix, disk, bounds
<1>h. /\ task \in [Item -> Status] /\ rows \in [Item -> SUBSET Row] /\ jobs \in Jobs /\ nextJob \in Nat
      /\ slot \in [Slot -> Handlers] /\ (\A c \in Slot : ~ slot[c].deaf) /\ b \in Slot
      /\ threads \in [DOMAIN threads -> ThreadState] /\ DOMAIN threads \subseteq Nat \X {"ready", "drained"}
      /\ UNCHANGED <<vps, task, nextJob, rows, mac, staging, discarded, stranded>>
  BY DEF Flow, FlowTypes, Heard, IInv, Types, Slot, AnswerHeartbeat
<1>1. /\ slot[b].at = "answer" /\ jobs' = NoJobs /\ slot' = [slot EXCEPT ![b] = Idle]
      /\ threads' = [x \in Started(b) \cup DOMAIN threads |->
                       IF x \in Started(b) THEN NewThread(JobItems(b, x[1])) ELSE threads[x]]
  BY <1>h DEF AnswerHeartbeat
<1>2. /\ DOMAIN jobs \subseteq Nat /\ \A n \in DOMAIN jobs : jobs[n] \in SUBSET Item
      /\ \A n \in DOMAIN jobs : n < nextJob
  BY <1>h, JobsByNumber DEF Flow, Numbered
<1>3. \A c \in Slot : /\ DOMAIN slot[c].jobs \subseteq Nat
                      /\ \A n \in DOMAIN slot[c].jobs : slot[c].jobs[n] \in SUBSET Item /\ n < nextJob
  <2>1. \A c \in Slot : slot[c].jobs \in Jobs
    BY <1>h DEF Handlers
  <2> QED BY <2>1, JobsByNumber DEF Flow, Numbered
<1>4. ASSUME NEW x \in Started(b)
      PROVE  /\ x \in Nat \X {"ready", "drained"} /\ x[1] < nextJob /\ JobItems(b, x[1]) \in SUBSET Item
             /\ x[2] = "drained" => x[1] \in DOMAIN slot[b].jobs
  BY <1>2, <1>3, <1>h DEF Started, JobItems
<1>5. /\ DOMAIN threads' = Started(b) \cup DOMAIN threads
      /\ \A x \in Started(b) : threads'[x] = NewThread(JobItems(b, x[1]))
      /\ \A x \in DOMAIN threads \ Started(b) : threads'[x] = threads[x]
  BY <1>1
<1>6. \A x \in Started(b) : x \notin DOMAIN threads
  BY <1>h DEF Flow, AnsweredOnce, Started
<1>7. /\ DOMAIN jobs' = {} /\ DOMAIN slot'[b].jobs = {} /\ ~ slot'[b].deaf /\ slot'[b].at = "idle"
      /\ \A c \in Slot \ {b} : slot'[c] = slot[c]
  BY <1>1, <1>h DEF NoJobs, Idle
<1>8. FlowTypes'
  <2>1. jobs' \in Jobs
    <3>1. NoJobs \in [{} -> SUBSET Item]  BY DEF NoJobs
    <3> QED BY <1>1, <3>1 DEF Jobs
  <2>2. \A x \in DOMAIN threads' : threads'[x] \in ThreadState
    BY <1>4, <1>5, <1>h DEF NewThread, ThreadState
  <2>3. threads' \in [DOMAIN threads' -> ThreadState]
    BY <1>1, <2>2
  <2> QED BY <1>4, <1>5, <1>h, <2>1, <2>3 DEF FlowTypes
<1>9. Numbered'
  BY <1>3, <1>4, <1>5, <1>7, <1>h DEF Flow, Numbered
<1>10. AnsweredOnce'
  <2>1. ASSUME NEW x \in DOMAIN threads', x[2] = "drained", NEW c \in Slot
        PROVE  x[1] \notin DOMAIN slot'[c].jobs
    <3>1. CASE x \in Started(b)
      BY <2>1, <3>1, <1>4, <1>7, <1>h DEF Flow, AnsweredOnce
    <3>2. CASE x \in DOMAIN threads
      BY <2>1, <3>2, <1>7 DEF Flow, AnsweredOnce
    <3> QED BY <3>1, <3>2, <1>5
  <2>2. ASSUME NEW c \in Slot, NEW d \in Slot, c # d
        PROVE  DOMAIN slot'[c].jobs \cap DOMAIN slot'[d].jobs = {}
    BY <2>2, <1>7 DEF Flow, AnsweredOnce
  <2> QED BY <2>1, <2>2, <1>7 DEF AnsweredOnce
<1>11. ASSUME NEW x \in DOMAIN threads' PROVE ItemOfThread(x)'
  <2>1. CASE x \in Started(b)
    BY <2>1, <1>5 DEF ItemOfThread, NewThread
  <2>2. CASE x \in DOMAIN threads \ Started(b)
    BY <2>2, <1>5, <1>h DEF Flow, ItemOfThread
  <2> QED BY <2>1, <2>2, <1>5
<1>12. ASSUME NEW i \in Library', task'[i] = "downloading" PROVE Served(i)'
  <2>1. Served(i)
    BY <1>12, <1>h DEF Flow, TasksServed, Library
  <2>2. InJob(i) => HasThread(i)'
    <3>1. SUFFICES ASSUME NEW n \in DOMAIN jobs, i \in jobs[n] PROVE HasThread(i)'
      BY DEF InJob
    <3>2. <<n, "ready">> \in Started(b) /\ <<n, "ready">>[1] = n
      BY DEF Started
    <3>3. threads'[<<n, "ready">>] = NewThread(jobs[n])
      BY <3>2, <1>5 DEF JobItems
    <3> QED BY <3>1, <3>2, <3>3, <1>5 DEF HasThread, NewThread
  <2>3. HasThread(i) => HasThread(i)'
    BY <1>5, <1>6 DEF HasThread
  <2>4. Coming(i) => Coming(i)'
    BY <1>1, <1>7 DEF Coming
  <2>5. (OnMac(i) => OnMac(i)') /\ (rows[i] # {} => rows'[i] # {}) /\ (i \in stranded => i \in stranded')
    BY <1>h DEF OnMac
  <2> QED BY <2>1, <2>2, <2>3, <2>4, <2>5 DEF Served
<1>13. Heard'
  BY <1>7, <1>h DEF Heard
<1> QED BY <1>8, <1>9, <1>10, <1>11, <1>12, <1>13 DEF Flow, TasksServed

\* Every fault counts.
LEMMA FlowStep ==
  ASSUME IInv, FlowInv, [Next]_vars
  PROVE  FlowInv'
<1> USE DEF bounds, Call, Fault
<1>1. CASE Faults
  <2>1. faults' = faults + 1
    BY <1>1 DEF Faults, LoseAnswer, ExpireJob, RestartHelper, RestartServer
  <2>2. faults' \in Nat /\ faults' # 0
    BY <2>1 DEF FlowInv
  <2> QED BY <2>2 DEF FlowInv
<1>2. CASE UNCHANGED vars
  <2>1. UNCHANGED <<faults, task, jobs, nextJob, slot, threads, rows, vps, mac, staging, discarded, stranded>>
    BY <1>2 DEF vars, server, motrix, disk
  <2> QED
    BY <2>1 DEF FlowInv, Flow, FlowTypes, Numbered, AnsweredOnce, Heard, TasksServed,
       ItemOfThread,
                      Served, Library, Coming, InJob, HasThread, OnMac
<1>3. CASE Next /\ ~ Faults
  <2>1. faults' = faults
    <3>1. CASE User \/ PageHandler \/ Relocation
      BY <3>1 DEF User, SelectItems, PauseResumeDelete, DeleteMedia, DeleteLocal,
         PageHandler, AppendItems,
                  ClaimNext, CreateJob, FailJob, AnswerPage, Relocation, StartMove, DropPending, EndMove, FailMove
    <3>2. CASE \E i \in Item : RecordingEnds(i) \/ Motrix(i)
      BY <3>2 DEF RecordingEnds, Motrix, EndTransfer
    <3>3. CASE \E b \in Beat : SendHeartbeat(b) \/ Handler(b)
      BY <3>3 DEF SendHeartbeat, Handler, Compare, PurgeFile, MarkDone, ClaimNext,
         CreateJob, FailJob, AnswerHeartbeat
    <3>4. CASE \E x \in DOMAIN threads : Thread(x)
      BY <3>4 DEF Thread, TakeItem, AddTask, EnqueueRelocate
    <3> QED BY <1>3, <3>1, <3>2, <3>3, <3>4 DEF Next
  <2>2. SUFFICES ASSUME Flow PROVE Flow'
    BY <2>1 DEF FlowInv
  <2>3. ASSUME NEW b \in Slot, ClaimNext(b) \/ CreateJob(b) \/ FailJob(b) PROVE Flow'
    BY <2>2, <2>3, HandlerFlow, CreateFlow, FailFlow
  <2>4. CASE User \/ Relocation \/ \E i \in Item : RecordingEnds(i) \/ Motrix(i)
    BY <2>2, <2>4, OutsideFlow DEF User
  <2>5. CASE \E b \in Beat : SendHeartbeat(b) \/ Handler(b)
    BY <2>2, <2>3, <2>5, HandlerFlow, AnswerFlow DEF Handler, Slot
  <2>6. CASE PageHandler
    BY <2>2, <2>3, <2>6, HandlerFlow DEF PageHandler, Slot
  <2>7. CASE \E x \in DOMAIN threads : Thread(x)
    BY <2>2, <2>7, ThreadFlow
  <2> QED BY <1>3, <2>4, <2>5, <2>6, <2>7 DEF Next
<1> QED BY <1>1, <1>2, <1>3

LEMMA InitFlow == Init => FlowInv
<1> SUFFICES ASSUME Init PROVE FlowInv
  OBVIOUS
<1>1. DOMAIN jobs = {} /\ jobs \in Jobs
  <2>1. NoJobs \in [{} -> SUBSET Item]  BY DEF NoJobs
  <2> QED BY <2>1 DEF Init, Jobs
<1>2. DOMAIN threads = {} /\ threads \in [DOMAIN threads -> ThreadState]
  BY DEF Init
<1>3. \A b \in Slot : ~ slot[b].deaf /\ DOMAIN slot[b].jobs = {}
  BY DEF Init, Idle, NoJobs
<1>4. task \in [Item -> Status] /\ (\A i \in Item : task[i] = "none") /\ rows \in [Item -> SUBSET Row]
  BY DEF Init, Status
<1>5. FlowTypes
  BY <1>1, <1>2, <1>4 DEF FlowTypes
<1>6. Numbered /\ AnsweredOnce /\ Heard
  BY <1>1, <1>2, <1>3 DEF Numbered, AnsweredOnce, Heard
<1>7. TasksServed
  BY <1>4 DEF TasksServed, Library
<1> QED BY <1>2, <1>5, <1>6, <1>7 DEF Init, FlowInv, Flow

\* While no answer, job or process is lost, every downloading task of a video that the
\* server still has waits for somebody: between the claim, the creation of its job, the
\* answer, the threads that a page's and a heartbeat's answer start twice for one job,
\* Motrix and the sweep, no interleaving drops it.  Only a claim that got no job, with an
\* error or with a video still recorded, strands its task, until it is claimed again.
THEOREM DownloadsAreServed == Spec => []DownloadingIsServed
<1>1. IInv /\ FlowInv /\ [Next]_vars => IInv' /\ FlowInv'
  BY StepKeeps, FlowStep
<1>2. FlowInv => DownloadingIsServed
  BY DEF FlowInv, Flow, TasksServed, DownloadingIsServed, Library, Served, Coming, InJob, OnMac
<1> QED BY InitIInv, InitFlow, <1>1, <1>2, PTL DEF Spec
=============================================================================
