----------------------------- MODULE MacDownload -----------------------------
(***************************************************************************)
(* How a video gets to the Mac and then leaves the server: the heartbeat,  *)
(* the drain of the download queue and the purge of src/app/main.py, with  *)
(* the threads of src/mac-helper/hxylive_mac_helper.py and Motrix.         *)
(*                                                                         *)
(* A request handler of the server is a slot, at one of its awaits.  One   *)
(* slot is the web page's, the others serve heartbeats: the helper's loop  *)
(* and the threads started by a filed video send them at any time.         *)
(*                                                                         *)
(* The queue is reduced to one status for each item: DownloadQueue has its *)
(* order and limits, so a claim takes any of the queued tasks here.  Only  *)
(* the Motrix method is modelled.  On the Mac an item has one path in the  *)
(* staging directory and one in the library.  A part of a file has a size  *)
(* that no video has.  The helper's ledger says which item a file of the   *)
(* Mac is; it may have lost that (its writers overwrite each other), which *)
(* Known abstracts.                                                        *)
(***************************************************************************)
EXTENDS Integers, FiniteSets

CONSTANTS Item,      \* the videos
          Recording, \* those still being recorded
          SizeOf,    \* bytes of each finished video
          Known,     \* videos whose recording id the helper's ledger keeps
          Namesakes, \* pairs of a video and one whose copy on the Mac bears its filename
          Beat,      \* heartbeat handlers that may be underway together
          Page,      \* the handler of the web page's calls
          None,      \* no item
          MaxJobs,   \* bound on the jobs ever created
          MaxEvents  \* bound on the user's calls, the recordings that end, the answers
                     \* lost, the jobs that expire and the restarts, all together

ASSUME SlotAssumption ==
  /\ Page \notin Beat /\ None \notin Item
  /\ Recording \subseteq Item /\ Known \subseteq Item /\ Namesakes \subseteq Item \X Item

VARIABLES vps,       \* each item's file on the server
          task,      \* each item's task in the download queue
          jobs,      \* _mac_download_jobs that are ready, by number: their items
          nextJob,   \* the number of the next job
          slot,      \* the handlers underway
          threads,   \* open_downloads threads of the helper, by job and delivery
          transfer,  \* items Motrix is downloading
          rows,      \* the statuses of the Motrix tasks tracked for each item
          staging,   \* each item's file in the Mac's download directory
          mac,       \* each item's file in the Mac's library
          moving,    \* the item being moved from one to the other
          pending,   \* the persisted list of relocations to do
          cache,     \* what the cached scan listed; nothing when it was dropped
          discarded, \* items whose copy the user deleted on the Mac
          stranded,  \* items whose last claim got no job and was not taken back
          calls, faults

server == <<vps, task, jobs, nextJob, slot>>
motrix == <<transfer, rows>>
disk == <<staging, mac, moving, pending, cache>>
bounds == <<discarded, stranded, calls, faults>>
vars == <<server, threads, motrix, disk, bounds>>

Slot == Beat \cup {Page}
Status == {"none", "queued", "downloading", "paused", "failed"}
Row == {"active", "complete", "error"}
\* files is the request's; todo is what is left to do; jobs is the answer.
NoJobs == [n \in {} |-> {}]
Idle == [at |-> "idle", files |-> {}, todo |-> {}, purged |-> {}, jobs |-> NoJobs,
         deaf |-> FALSE]

Init ==
  /\ vps = [i \in Item |-> IF i \in Recording THEN "recording" ELSE "closed"]
  /\ task = [i \in Item |-> "none"]
  /\ jobs = NoJobs /\ nextJob = 1
  /\ slot = [b \in Slot |-> Idle]
  /\ threads = << >>
  /\ transfer = {}
  /\ rows = [i \in Item |-> {}]
  /\ staging = [i \in Item |-> "none"]
  /\ mac = [i \in Item |-> "none"]
  /\ moving = None
  /\ pending = {}
  /\ cache = {}
  /\ discarded = {} /\ stranded = {} /\ calls = 0 /\ faults = 0

Library == {i \in Item : vps[i] \in {"recording", "closed"}}
Call == calls + faults < MaxEvents /\ calls' = calls + 1 /\ UNCHANGED <<discarded, stranded, faults>>
Fault == calls + faults < MaxEvents /\ faults' = faults + 1 /\ UNCHANGED <<discarded, stranded, calls>>

----------------------------------------------------------------------------
\* The user's calls, and what happens to the library.

RecordingEnds(i) ==
  /\ vps[i] = "recording"
  /\ vps' = [vps EXCEPT ![i] = "closed"]
  /\ Call
  /\ UNCHANGED <<task, jobs, nextJob, slot, threads, motrix, disk>>

\* _enqueue_manual_download_items: the items are looked up, and appended after awaits.
SelectItems(S) ==
  /\ slot[Page] = Idle
  /\ S # {} /\ S \subseteq Library
  /\ slot' = [slot EXCEPT ![Page] = [@ EXCEPT !.at = "append", !.todo = S]]
  /\ Call
  /\ UNCHANGED <<vps, task, jobs, nextJob, threads, motrix, disk>>

AppendItems ==
  /\ slot[Page].at = "append"
  /\ task' = [i \in Item |-> IF i \in slot[Page].todo /\ task[i] \in {"none", "failed"}
                             THEN "queued" ELSE task[i]]
  /\ slot' = [slot EXCEPT ![Page] = [@ EXCEPT !.at = "purge", !.todo = {}]]
  /\ UNCHANGED <<vps, jobs, nextJob, threads, motrix, disk, bounds>>

Paused(S, t) == [i \in Item |-> IF i \in S /\ t[i] \in {"queued", "downloading"} THEN "paused" ELSE t[i]]
Resumed(S, t) == [i \in Item |-> IF i \in S /\ t[i] = "paused" THEN "queued" ELSE t[i]]

PauseResumeDelete(i) ==
  /\ task[i] # "none"
  /\ task' \in {Paused({i}, task), Resumed({i}, task), [task EXCEPT ![i] = "none"]}
  /\ Call
  /\ UNCHANGED <<vps, jobs, nextJob, slot, threads, motrix, disk>>

DeleteMedia(i) ==
  /\ vps[i] = "closed"
  /\ vps' = [vps EXCEPT ![i] = "deleted"]
  /\ Call
  /\ UNCHANGED <<task, jobs, nextJob, slot, threads, motrix, disk>>

\* delete_local, which drops the cached scan, or the Finder, which does not.
DeleteLocal(i) ==
  /\ mac[i] = "complete" /\ moving # i
  /\ calls + faults < MaxEvents /\ calls' = calls + 1
  /\ mac' = [mac EXCEPT ![i] = "none"]
  /\ discarded' = discarded \cup {i}
  /\ cache' \in {cache, {}}
  /\ UNCHANGED <<server, threads, motrix, staging, moving, pending, stranded, faults>>

----------------------------------------------------------------------------
\* The heartbeat: _push_heartbeat_and_run_jobs and mac_helper_heartbeat.

\* scan: the complete files, as they are or as cached up to five minutes ago; a disk that
\* is not there has none, and for one that cannot be read the ledger answers.  A copy
\* underway matches nothing by its size.
OnDisk == {i \in Item : mac[i] = "complete"}
Ledger == Known \cap (OnDisk \cup discarded)
Scans == {OnDisk, cache, {}, Ledger}

\* update_progress with the rows of all of an item's transfers, in any order.
Progressed(status, R) ==
  IF status = "none" \/ R = {} THEN {status}
  ELSE CASE "complete" \in R -> {"none"}
         [] R = {"error", "active"} -> {"failed", "downloading"}
         [] R = {"error"} -> {"failed"}
         [] R = {"active"} -> {IF status = "paused" THEN "paused" ELSE "downloading"}

SendHeartbeat(b) ==
  /\ b \in Beat /\ slot[b] = Idle
  /\ \E F \in Scans :
       /\ cache' = F
       /\ slot' = [slot EXCEPT ![b] = [@ EXCEPT !.at = "compare", !.files = F]]
  /\ task' \in {t \in [Item -> Status \cup Row] : \A i \in Item : t[i] \in Progressed(task[i], rows[i])}
  /\ UNCHANGED <<vps, jobs, nextJob, threads, motrix, staging, mac, moving, pending, bounds>>

\* _compare_mac_local_files: by the recording id, by name and size, or by a size that is
\* unique on both sides.
SameMegabytes(i, j) == SizeOf[i] \div 10 = SizeOf[j] \div 10 \* mutant: sizes are rounded
SameSize(i, j) == SizeOf[i] = SizeOf[j]

UniqueSize(i, F) ==
  /\ Cardinality({j \in F : SameSize(i, j)}) = 1
  /\ {j \in Library : vps[j] = "closed" /\ SameSize(i, j)} = {i}

SameName(i, F) == \E j \in F : <<i, j>> \in Namesakes /\ SameSize(i, j)

\* A known video whose copy is underway is told from its namesakes there, not here.
Synced(F) ==
  {i \in Library : vps[i] = "closed" /\ (i \in F \cap Known \/ SameName(i, F) \/ UniqueSize(i, F))}

Compare(b) ==
  /\ slot[b].at = "compare"
  /\ slot' = [slot EXCEPT ![b] = [@ EXCEPT !.at = "purge", !.files = {},
                                           !.todo = Synced(slot[b].files)]]
  /\ UNCHANGED <<vps, task, jobs, nextJob, threads, motrix, disk, bounds>>

\* _purge_vps_videos_present_on_mac: a file is deleted, and after awaits its task.
PurgeFile(b, i) ==
  /\ slot[b].at = "purge" /\ i \in slot[b].todo
  /\ vps' = [vps EXCEPT ![i] = IF @ = "closed" THEN "purged" ELSE @]
  /\ slot' = [slot EXCEPT ![b].todo = @ \ {i}, ![b].purged = @ \cup {i}]
  /\ UNCHANGED <<task, jobs, nextJob, threads, motrix, disk, bounds>>

MarkDone(b, i) ==
  /\ i \in slot[b].purged
  /\ task' = [task EXCEPT ![i] = "none"]
  /\ slot' = [slot EXCEPT ![b].purged = @ \ {i}]
  /\ UNCHANGED <<vps, jobs, nextJob, threads, motrix, disk, bounds>>

----------------------------------------------------------------------------
\* _drain_download_queue_to_jobs and the answer

Creating == {b \in Slot : slot[b].at = "create"}

ClaimNext(b) ==
  /\ slot[b].at = "purge" /\ slot[b].todo = {} /\ slot[b].purged = {}
  /\ \E S \in SUBSET {i \in Item : task[i] = "queued"} :
       /\ S = {} \/ nextJob + Cardinality(Creating) <= MaxJobs
       /\ task' = [i \in Item |-> IF i \in S THEN "downloading" ELSE task[i]]
       /\ slot' = [slot EXCEPT ![b] = [@ EXCEPT !.at = IF S = {} THEN "answer" ELSE "create",
                                                !.todo = S]]
       /\ stranded' = stranded \ S
  /\ UNCHANGED <<vps, jobs, nextJob, threads, motrix, disk, discarded, calls, faults>>

\* Items that are missing or being recorded get no entry.
Downloadable(S) == {i \in S : vps[i] = "closed"}

\* Without any entry the claimed tasks are queued again, by a pause and a resume: those
\* the user paused meanwhile with them.
NotRequeued(S) == task \* mutant: the claimed tasks are left as they are
Requeued(S) == Resumed(S, Paused(S, task))

CreateJob(b) ==
  /\ slot[b].at = "create"
  /\ LET S == slot[b].todo
         entries == Downloadable(S)
         after == [slot[b] EXCEPT !.at = "answer", !.todo = {}]
     IN IF entries = {}
        THEN /\ task' = Requeued(S)
             /\ slot' = [slot EXCEPT ![b] = after]
             /\ UNCHANGED <<jobs, nextJob, stranded>>
        ELSE /\ nextJob' = nextJob + 1
             /\ jobs' = [n \in DOMAIN jobs \cup {nextJob} |->
                           IF n = nextJob THEN entries ELSE jobs[n]]
             /\ slot' = [slot EXCEPT ![b] = [after EXCEPT !.jobs = [n \in {nextJob} |-> entries]]]
             /\ stranded' = stranded \cup (S \ entries)
             /\ UNCHANGED task
  /\ UNCHANGED <<vps, threads, motrix, disk, discarded, calls, faults>>

\* Any other error of the database or of a disk: the claimed tasks stay downloading.
FailJob(b) ==
  /\ slot[b].at = "create"
  /\ slot' = [slot EXCEPT ![b] = [@ EXCEPT !.at = "answer", !.todo = {}]]
  /\ stranded' = stranded \cup slot[b].todo
  /\ UNCHANGED <<vps, task, jobs, nextJob, threads, motrix, disk, discarded, calls, faults>>

\* A thread for each job of the answer, in which a job just created stands twice: as
\* drained, and as ready.  The helper that gave up waiting starts none.
NewThread(S) == [todo |-> S, item |-> None, at |-> "take"]

Started(b) == {<<n, "ready">> : n \in DOMAIN jobs} \cup {<<n, "drained">> : n \in DOMAIN slot[b].jobs}
JobItems(b, n) == IF n \in DOMAIN jobs THEN jobs[n] ELSE slot[b].jobs[n]

AnswerHeartbeat(b) ==
  /\ b \in Beat /\ slot[b].at = "answer"
  /\ jobs' = NoJobs
  /\ slot' = [slot EXCEPT ![b] = Idle]
  /\ threads' = IF slot[b].deaf THEN threads
                ELSE [x \in Started(b) \cup DOMAIN threads |->
                        IF x \in Started(b) THEN NewThread(JobItems(b, x[1])) ELSE threads[x]]
  /\ UNCHANGED <<vps, task, nextJob, motrix, disk, bounds>>

AnswerPage ==
  /\ slot[Page].at = "answer"
  /\ slot' = [slot EXCEPT ![Page] = Idle]
  /\ UNCHANGED <<vps, task, jobs, nextJob, threads, motrix, disk, bounds>>

----------------------------------------------------------------------------
\* open_downloads, one thread a job

Continue(x, rest) == \* with the items left, or the thread ends
  IF rest = {} THEN [y \in DOMAIN threads \ {x} |-> threads[y]]
  ELSE [threads EXCEPT ![x] = NewThread(rest)]

\* What is in the library or in staging is only to be filed.  _send_to_motrix tracks a
\* transfer underway, and leaves a path alone that it has tracked before.
TakeItem(x, i) ==
  /\ threads[x].at = "take" /\ i \in threads[x].todo
  /\ LET here == "complete" \in {mac[i], staging[i]}
         known == i \in transfer \/ rows[i] # {}
         rest == threads[x].todo \ {i}
     IN /\ rows' = IF ~ here /\ i \in transfer THEN [rows EXCEPT ![i] = @ \cup {"active"}] ELSE rows
        /\ IF here \/ known
           THEN pending' = pending \cup {i} /\ threads' = Continue(x, rest)
           ELSE /\ threads' = [threads EXCEPT ![x] = [todo |-> rest, item |-> i, at |-> "add"]]
                /\ UNCHANGED pending
  /\ UNCHANGED <<server, transfer, staging, mac, moving, cache, bounds>>

\* aria2.addUri: a task for a file that Motrix has or is already downloading fails, and so
\* does one whose link finds nothing on the server.
AddTask(x, i) ==
  /\ threads[x].at = "add" /\ threads[x].item = i
  /\ threads' = [threads EXCEPT ![x].at = "pend"]
  /\ LET refused == i \in transfer \/ staging[i] = "complete" \/ vps[i] # "closed"
     IN /\ rows' = [rows EXCEPT ![i] = @ \cup {IF refused THEN "error" ELSE "active"}]
        /\ transfer' = IF refused THEN transfer ELSE transfer \cup {i}
        /\ staging' = IF refused THEN staging ELSE [staging EXCEPT ![i] = "partial"]
  /\ UNCHANGED <<server, mac, moving, pending, cache, bounds>>

EnqueueRelocate(x) ==
  /\ threads[x].at = "pend"
  /\ pending' = pending \cup {threads[x].item}
  /\ threads' = Continue(x, threads[x].todo)
  /\ UNCHANGED <<server, motrix, staging, mac, moving, cache, bounds>>

\* Motrix ends a transfer, with all bytes or not: one underway survives the file's deletion.
EndTransfer(i, status) ==
  /\ i \in transfer
  /\ transfer' = transfer \ {i}
  /\ rows' = [rows EXCEPT ![i] = IF "active" \in @ THEN (@ \ {"active"}) \cup {status} ELSE @]
  /\ staging' = IF status = "complete" THEN [staging EXCEPT ![i] = "complete"] ELSE staging
  /\ UNCHANGED <<server, threads, mac, moving, pending, cache, bounds>>

----------------------------------------------------------------------------
\* _sweep_pending_relocates, one at a time

\* _move_file replaces what is in the library, copies, and removes the staging file.
StartMove(i) ==
  /\ i \in pending /\ moving = None /\ staging[i] = "complete"
  /\ moving' = i
  /\ mac' = [mac EXCEPT ![i] = "partial"]
  /\ UNCHANGED <<server, threads, motrix, staging, pending, cache, bounds>>

EndMove ==
  /\ moving # None
  /\ moving' = None
  /\ mac' = [mac EXCEPT ![moving] = "complete"]
  /\ staging' = [staging EXCEPT ![moving] = "none"]
  /\ pending' = pending \ {moving}
  /\ cache' = {}
  /\ UNCHANGED <<server, threads, motrix, bounds>>

FailMoveEmptied == \* mutant: the failed move has taken the staging file
  /\ moving # None
  /\ moving' = None
  /\ mac' \in {mac, [mac EXCEPT ![moving] = "none"]}
  /\ staging' = [staging EXCEPT ![moving] = "none"]
  /\ UNCHANGED <<server, threads, motrix, pending, cache, bounds>>

FailMove ==
  /\ moving # None
  /\ moving' = None
  /\ mac' \in {mac, [mac EXCEPT ![moving] = "none"]}
  /\ UNCHANGED <<server, threads, motrix, staging, pending, cache, bounds>>

\* No staging file: the video is in the library already, or nothing came for six hours.
DropPending(i) ==
  /\ i \in pending /\ moving = None /\ staging[i] = "none"
  /\ pending' = pending \ {i}
  /\ cache' = IF mac[i] = "complete" THEN {} ELSE cache
  /\ UNCHANGED <<server, threads, motrix, staging, mac, moving, bounds>>

----------------------------------------------------------------------------
\* Faults: an answer lost, a job not fetched in time, a restart.

LoseAnswer(b) ==
  /\ b \in Beat /\ slot[b].at = "answer"
  /\ jobs' = NoJobs
  /\ slot' = [slot EXCEPT ![b] = Idle]
  /\ Fault
  /\ UNCHANGED <<vps, task, nextJob, threads, motrix, disk>>

ExpireJob(n) ==
  /\ jobs' = [m \in DOMAIN jobs \ {n} |-> jobs[m]]
  /\ Fault
  /\ UNCHANGED <<vps, task, nextJob, slot, threads, motrix, disk>>

\* Motrix goes on; pending is read from its file.
RestartHelper ==
  /\ slot' = [b \in Slot |-> IF b \in Beat /\ slot[b] # Idle
                             THEN [slot[b] EXCEPT !.deaf = TRUE] ELSE slot[b]]
  /\ threads' = << >>
  /\ rows' = [i \in Item |-> {}]
  /\ moving' = None
  /\ cache' = {}
  /\ Fault
  /\ UNCHANGED <<vps, task, jobs, nextJob, transfer, staging, mac, pending>>

RestartServer ==
  /\ task' = [i \in Item |-> "none"]
  /\ jobs' = NoJobs
  /\ slot' = [b \in Slot |-> Idle]
  /\ Fault
  /\ UNCHANGED <<vps, nextJob, threads, motrix, disk>>

----------------------------------------------------------------------------
User ==
  \/ \E S \in SUBSET Item : SelectItems(S)
  \/ \E i \in Item : PauseResumeDelete(i) \/ DeleteMedia(i) \/ DeleteLocal(i)

Handler(b) ==
  \/ Compare(b)
  \/ \E i \in Item : PurgeFile(b, i) \/ MarkDone(b, i)
  \/ ClaimNext(b) \/ CreateJob(b) \/ FailJob(b) \/ AnswerHeartbeat(b)

PageHandler == AppendItems \/ ClaimNext(Page) \/ CreateJob(Page) \/ FailJob(Page) \/ AnswerPage

Thread(x) ==
  \/ \E i \in Item : TakeItem(x, i) \/ AddTask(x, i)
  \/ EnqueueRelocate(x)

Motrix(i) == \E status \in {"complete", "error"} : EndTransfer(i, status)

Relocation == (\E i \in Item : StartMove(i) \/ DropPending(i)) \/ EndMove \/ FailMove

Faults ==
  \/ \E b \in Beat : LoseAnswer(b)
  \/ \E n \in DOMAIN jobs : ExpireJob(n)
  \/ RestartHelper \/ RestartServer

Next ==
  \/ User
  \/ \E i \in Item : RecordingEnds(i) \/ Motrix(i)
  \/ \E b \in Beat : SendHeartbeat(b) \/ Handler(b)
  \/ PageHandler
  \/ \E x \in DOMAIN threads : Thread(x)
  \/ Relocation
  \/ Faults

Spec == Init /\ [][Next]_vars

----------------------------------------------------------------------------
(* Properties *)

HasThread(i) == \E x \in DOMAIN threads : i = threads[x].item \/ i \in threads[x].todo

\* Every variable has the type its code gives it.
TypeOK ==
  /\ vps \in [Item -> {"recording", "closed", "purged", "deleted"}]
  /\ task \in [Item -> Status]
  /\ DOMAIN jobs \subseteq 1 .. MaxJobs /\ \A n \in DOMAIN jobs : jobs[n] \subseteq Item
  /\ nextJob \in 1 .. MaxJobs + 1
  /\ \A b \in Slot :
       /\ slot[b].at \in {"idle", "compare", "purge", "append", "create", "answer"}
       /\ slot[b].files \subseteq Item
       /\ slot[b].todo \subseteq Item /\ slot[b].purged \subseteq Item
       /\ slot[b].deaf \in BOOLEAN
  /\ DOMAIN threads \subseteq (1 .. MaxJobs) \X {"ready", "drained"}
  /\ \A x \in DOMAIN threads :
       threads[x] \in [todo : SUBSET Item, item : Item \cup {None}, at : {"take", "add", "pend"}]
  /\ transfer \subseteq Item
  /\ rows \in [Item -> SUBSET Row]
  /\ staging \in [Item -> {"none", "partial", "complete"}]
  /\ mac \in [Item -> {"none", "partial", "complete"}]
  /\ moving \in Item \cup {None}
  /\ pending \subseteq Item
  /\ cache \subseteq Item
  /\ discarded \subseteq Item /\ stranded \subseteq Item

\* "Mac is the final store": for a video purged from the server one of its size, to the
\* byte, is complete on the Mac, in the library or about to be moved there again, unless
\* the user deleted that one on the Mac.  The code promises no more: of a video whose
\* recording id the ledger has lost it compares the size, with or without the name.
PurgedIsOnMac ==
  \A i \in Item : vps[i] = "purged" =>
    \E j \in Item : SizeOf[j] = SizeOf[i]
                     /\ (mac[j] = "complete" \/ staging[j] = "complete" \/ j \in discarded)

\* The same as a promise step by step, without the queue, the messages and the threads: a
\* video leaves the server by the user's hand or because the Mac has one of its size, is
\* copied only while the server has it when Motrix is asked, and only the user takes it off
\* the Mac.
Custody == INSTANCE VideoCustody WITH
             Video <- Item, SizeOf <- SizeOf,
             onServer <- {i \in Item : vps[i] \in {"recording", "closed"}},
             copying <- transfer,
             onMac <- {i \in Item : mac[i] = "complete" \/ staging[i] = "complete"},
             removed <- {i \in Item : vps[i] = "deleted"},
             discarded <- discarded
KeepsCustody == Custody!Spec

\* A downloading task never waits for nobody: a handler is creating its job, the job is
\* on its way or in a thread, Motrix has a status to report, or the video is on the Mac
\* and will be found there.  Left out are faults, videos that were deleted or purged
\* meanwhile, and until they are claimed again the tasks whose claim gave them no job: the
\* drain failed with an error, or the video was being recorded and others were not.
DownloadingIsServed ==
  \A i \in Item : task[i] = "downloading" /\ vps[i] = "closed" =>
    \/ faults > 0 \/ i \in stranded \/ i \in discarded
    \/ \E b \in Slot : slot[b].at = "create" /\ i \in slot[b].todo
    \/ \E n \in DOMAIN jobs : i \in jobs[n]
    \/ HasThread(i)
    \/ rows[i] # {}
    \/ "complete" \in {mac[i], staging[i]}
=============================================================================
