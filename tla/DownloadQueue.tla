--------------------------- MODULE DownloadQueue ---------------------------
(***************************************************************************)
(* The Mac download queue of src/app/services/download_queue.py: an        *)
(* ordered, in-memory list of tasks, one per library item, grouped by      *)
(* recording project.  Every method runs under one re-entrant lock, so     *)
(* every method is one atomic action here; the interleavings are those of  *)
(* calls made by the web UI, the helper's heartbeats and the drain.        *)
(*                                                                         *)
(* The list and its two dictionaries are kept apart, as in the code: that  *)
(* they agree is a property (IndexConsistent), not an assumption.  A task  *)
(* that is "done" leaves the list in the step that finishes it, so the     *)
(* status "done" is never seen between steps.  Byte counts, percentages,   *)
(* speeds, titles and the jobId that bind_job notes on a task are left     *)
(* out: nothing is decided on them.                                        *)
(***************************************************************************)
EXTENDS ListOrder

CONSTANTS Item,          \* library items that can be selected for download
          Project,       \* recording projects
          ProjectOf,     \* the project each item is a member of
          ClipOrder,     \* an item's place in (project start, project, start, index, name) order
          ProjectLimits, \* settings the project concurrency may be set to
          FileLimits,    \* settings the file concurrency may be set to
          ProjectStatus, \* statuses a project may have when its items are queued
          MaxTaskId      \* bound on the number of tasks ever created

ASSUME ItemAssumption ==
  /\ IsFiniteSet(Item)
  /\ ProjectOf \in [Item -> Project]
  /\ ClipOrder \in [Item -> 0 .. Cardinality(Item) - 1]
  /\ IsInjective(ClipOrder)

ASSUME LimitAssumption ==
  /\ ProjectLimits \subseteq Int
  /\ FileLimits \subseteq Int
  /\ MaxTaskId \in Nat

VARIABLES tasks,         \* _tasks: the ordered list, of task ids
          byTask,        \* _by_task: task id -> the task's record
          byItem,        \* _by_item: item id -> task id
          projectPaused, \* _project_paused: project id -> flag
          nextId         \* secrets.token_urlsafe never returns an id twice

vars == <<tasks, byTask, byItem, projectPaused, nextId>>

Status == {"queued", "downloading", "paused", "failed"}
TaskId == 1 .. MaxTaskId
Task == [item : Item, status : Status]

----------------------------------------------------------------------------
\* normalize_project_concurrency and normalize_file_concurrency clamp the settings.

Clamp(n, low, high) == IF n < low THEN low ELSE IF n > high THEN high ELSE n
NormalizeProjects(n) == Clamp(n, 1, 4)
NormalizeFiles(n) == Clamp(n, 2, 12)

Live == Range(tasks)
Proj(t) == ProjectOf[byTask[t].item]
HasStatus(S) == {t \in Live : byTask[t].status \in S}

\* self._project_paused.get(pid): a project nobody paused has no entry, or a FALSE one.
IsPaused(p) == p \in DOMAIN projectPaused /\ projectPaused[p]

\* The tasks that hold a slot: downloading, in a project that is not paused.
ActiveTasks == {t \in HasStatus({"downloading"}) : ~ IsPaused(Proj(t))}
ActiveProjects == {Proj(t) : t \in ActiveTasks}

Init ==
  /\ tasks = << >>
  /\ byTask = << >>
  /\ byItem = << >>
  /\ projectPaused = << >>
  /\ nextId = 1

\* Drop the tasks of a set from the list and from both dictionaries.
ItemsKept(gone) == byItem \* mutant: the item index is not cleaned

ItemsAfterRemoval(gone) ==
  [i \in {j \in DOMAIN byItem : byItem[j] \notin gone} |-> byItem[i]]

Remove(gone) ==
  /\ tasks' = Keep(tasks, Live \ gone)
  /\ byTask' = Restrict(byTask, DOMAIN byTask \ gone)
  /\ byItem' = ItemsAfterRemoval(gone)

----------------------------------------------------------------------------
\* append_batch

\* Ready projects first, then projects awaiting their gap, then open ones.
ReadyRank(status) ==
  CASE status = "ready" -> 0 [] status = "awaiting_gap" -> 1 [] OTHER -> 2

\* The key of sort_append_batch, as one number.
BatchKey(status) ==
  [i \in Item |-> ReadyRank(status[ProjectOf[i]]) * Cardinality(Item) + ClipOrder[i]]

\* An item queued, downloading or paused is skipped; a failed one is queued anew.
IsQueued(i) ==
  /\ i \in DOMAIN byItem
  /\ byItem[i] \in DOMAIN byTask
  /\ byTask[byItem[i]].status \in {"queued", "downloading", "paused"}

AppendBatch(batch, status) ==
  LET fresh   == {i \in batch : ~ IsQueued(i)}
      sorted  == InOrder(fresh, BatchKey(status))
      n       == Cardinality(fresh)
      failed  == {byItem[i] : i \in fresh \cap DOMAIN byItem}
      id(i)   == nextId - 1 + Rank(fresh, BatchKey(status), i)
      newIds  == nextId .. (nextId + n - 1)
      opened  == {ProjectOf[i] : i \in fresh}
  IN /\ nextId + n <= MaxTaskId + 1
     /\ tasks' = Keep(tasks, Live \ failed) \o [k \in 1 .. n |-> nextId - 1 + k]
     /\ byTask' = [t \in (DOMAIN byTask \ failed) \cup newIds |->
                     IF t \in newIds
                     THEN [item |-> sorted[t - nextId + 1], status |-> "queued"]
                     ELSE byTask[t]]
     /\ byItem' = [i \in DOMAIN byItem \cup fresh |->
                     IF i \in fresh THEN id(i) ELSE byItem[i]]
     /\ projectPaused' = [p \in DOMAIN projectPaused \cup opened |-> IsPaused(p)]
     /\ nextId' = nextId + n

----------------------------------------------------------------------------
\* reorder: downloading and failed tasks come first, the movable ones follow.

Movable == HasStatus({"queued", "paused"})
Fixed == Keep(tasks, Live \ Movable)

\* By project: the projects asked for, then the others as they are met in the list.
ProjectPlace(wanted, p) ==
  IF p \in Range(wanted)
  THEN Places(wanted)[p]
  ELSE Len(wanted) + Rank(Movable, Places(tasks), CHOOSE t \in Movable :
         /\ Proj(t) = p
         /\ \A u \in Movable : Proj(u) = p => Places(tasks)[t] <= Places(tasks)[u])

ProjectKey(wanted) ==
  [t \in Movable |-> ProjectPlace(wanted, Proj(t)) * (Len(tasks) + 1) + Places(tasks)[t]]

\* By task: the tasks asked for, then the others in the order they had.
TaskKey(wanted) ==
  [t \in Movable |-> IF t \in Range(wanted)
                     THEN Places(wanted)[t]
                     ELSE Len(wanted) + Places(tasks)[t]]

ReorderProjects(wanted) ==
  /\ tasks' = Fixed \o InOrder(Movable, ProjectKey(wanted))
  /\ UNCHANGED <<byTask, byItem, projectPaused, nextId>>

ReorderTasks(wanted) ==
  /\ tasks' = Fixed \o InOrder(Movable, TaskKey(wanted))
  /\ UNCHANGED <<byTask, byItem, projectPaused, nextId>>

----------------------------------------------------------------------------
\* pause, resume, delete: of tasks T, or else of projects P, or else of everything.

Targets(T, P) ==
  IF T # {} THEN Live \cap T ELSE IF P # {} THEN {t \in Live : Proj(t) \in P} ELSE Live

\* The project flags of P are set, or of every known project when nothing was named.
FlagProjects(T, P, flag) ==
  [p \in DOMAIN projectPaused \cup P |->
     IF p \in P \/ (P = {} /\ T = {}) THEN flag ELSE projectPaused[p]]

\* The records after each task of a set is given the fields that f computes for it.
Updated(S, f) == [t \in DOMAIN byTask |-> IF t \in S THEN f[t] ELSE byTask[t]]

Pause(T, P) ==
  /\ LET S == Targets(T, P) \cap HasStatus({"queued", "downloading"})
     IN byTask' = Updated(S, [t \in S |-> [byTask[t] EXCEPT !.status = "paused"]])
  /\ projectPaused' = FlagProjects(T, P, TRUE)
  /\ UNCHANGED <<tasks, byItem, nextId>>

Resume(T, P) ==
  /\ LET S == Targets(T, P) \cap HasStatus({"paused"})
     IN byTask' = Updated(S, [t \in S |-> [byTask[t] EXCEPT !.status = "queued"]])
  /\ projectPaused' = FlagProjects(T, P, FALSE)
  /\ UNCHANGED <<tasks, byItem, nextId>>

Delete(T, P) ==
  /\ Remove(Targets(T, P))
  /\ projectPaused' = Restrict(projectPaused, DOMAIN projectPaused \ P)
  /\ UNCHANGED nextId

\* mark_done_for_items: copies of these items were confirmed on the Mac.
MarkDone(items) ==
  /\ Remove({t \in Live : byTask[t].item \in items})
  /\ UNCHANGED <<projectPaused, nextId>>

----------------------------------------------------------------------------
\* update_progress: one heartbeat's rows, at most one row an item.

Report == {"active", "complete", "error"}

\* The task an item's row is applied to, if the item has one.
Reported(rows) == {t \in DOMAIN byTask : \E i \in DOMAIN rows \cap DOMAIN byItem : byItem[i] = t}

\* The row of the task's item.
ReportOf(rows, t) == rows[CHOOSE i \in DOMAIN rows \cap DOMAIN byItem : byItem[i] = t]

\* Mutant: a late "active" row restarts a task the user paused meanwhile.
StatusRestarted(task, report) ==
  CASE report = "error" -> "failed"
    [] report = "active" -> "downloading"
    [] OTHER -> task.status

StatusAfter(task, report) ==
  CASE report = "error" -> "failed"
    [] report = "active" /\ task.status # "paused" -> "downloading"
    [] OTHER -> task.status

UpdateProgress(rows) ==
  LET done == {t \in Reported(rows) : ReportOf(rows, t) = "complete"}
  IN /\ tasks' = Keep(tasks, Live \ done)
     /\ byTask' = [t \in DOMAIN byTask \ done |->
                     IF t \in Reported(rows)
                     THEN [byTask[t] EXCEPT !.status = StatusAfter(byTask[t], ReportOf(rows, t))]
                     ELSE byTask[t]]
     /\ byItem' = ItemsAfterRemoval(done)
     /\ UNCHANGED <<projectPaused, nextId>>

----------------------------------------------------------------------------
\* claim_next

Claimable == {t \in HasStatus({"queued"}) : ~ IsPaused(Proj(t))}
\* Mutant: the downloads under way are not subtracted.
AllFiles(fileLimit) == NormalizeFiles(fileLimit)
FreeFiles(fileLimit) == NormalizeFiles(fileLimit) - Cardinality(ActiveTasks)
FreeProjects(projectLimit) == NormalizeProjects(projectLimit) - Cardinality(ActiveProjects)

\* Projects without a download yet, in the order their first claimable task stands in.
FirstPlace ==
  [p \in {Proj(t) : t \in Claimable} |->
     Places(tasks)[CHOOSE t \in Claimable :
       /\ Proj(t) = p
       /\ \A u \in Claimable : Proj(u) = p => Places(tasks)[t] <= Places(tasks)[u]]]

NewProjectsWhenIdle(projectLimit) == \* mutant: a new project starts only when none is active
  IF ActiveProjects = {}
  THEN FirstN({Proj(t) : t \in Claimable}, FirstPlace, FreeProjects(projectLimit))
  ELSE {}
NewProjects(projectLimit) ==
  FirstN({Proj(t) : t \in Claimable} \ ActiveProjects, FirstPlace, FreeProjects(projectLimit))

Eligible(projectLimit) ==
  {t \in Claimable : Proj(t) \in ActiveProjects \cup NewProjects(projectLimit)}

\* The first pass takes the tasks of active projects, the second the others, in list order.
ClaimKey ==
  [t \in Claimable |->
     IF Proj(t) \in ActiveProjects THEN Places(tasks)[t] ELSE Len(tasks) + Places(tasks)[t]]

Claimed(projectLimit, fileLimit) ==
  FirstN(Eligible(projectLimit), ClaimKey, FreeFiles(fileLimit))

ClaimNext(projectLimit, fileLimit) ==
  /\ UNCHANGED <<tasks, byItem, projectPaused, nextId>>
  /\ LET S == Claimed(projectLimit, fileLimit)
     IN byTask' = Updated(S, [t \in S |-> [byTask[t] EXCEPT !.status = "downloading"]])

\* The process is restarted: nothing of the queue is persisted.
Restart ==
  /\ tasks' = << >>
  /\ byTask' = << >>
  /\ byItem' = << >>
  /\ projectPaused' = << >>
  /\ UNCHANGED nextId

----------------------------------------------------------------------------
\* What the callers may pass: tasks, projects and rows, each list without repetition.
\* An id that is not in the queue selects nothing, so none is tried.

Lists(S) == {list \in UNION {[1 .. n -> S] : n \in 1 .. Cardinality(S)} : IsInjective(list)}

Next ==
  \/ \E batch \in SUBSET Item \ {{}}, status \in [Project -> ProjectStatus] :
       AppendBatch(batch, status)
  \/ \E wanted \in Lists(Project) : ReorderProjects(wanted)
  \/ \E wanted \in Lists(Live) : ReorderTasks(wanted)
  \/ \E T \in SUBSET Live, P \in SUBSET Project : Pause(T, P)
  \/ \E T \in SUBSET Live, P \in SUBSET Project : Resume(T, P)
  \/ \E T \in SUBSET Live, P \in SUBSET Project : Delete(T, P)
  \/ \E items \in SUBSET DOMAIN byItem : MarkDone(items)
  \/ \E items \in SUBSET DOMAIN byItem : \E rows \in [items -> Report] : UpdateProgress(rows)
  \/ \E p \in ProjectLimits, f \in FileLimits : ClaimNext(p, f)
  \/ Restart

Spec == Init /\ [][Next]_vars

----------------------------------------------------------------------------
(* Properties *)

\* Every variable has the type its code gives it.
TypeOK ==
  /\ tasks \in Seq(TaskId)
  /\ DOMAIN byTask \subseteq TaskId
  /\ \A t \in DOMAIN byTask : byTask[t] \in Task
  /\ DOMAIN byItem \subseteq Item
  /\ \A i \in DOMAIN byItem : byItem[i] \in TaskId
  /\ DOMAIN projectPaused \subseteq Project
  /\ \A p \in DOMAIN projectPaused : projectPaused[p] \in BOOLEAN
  /\ nextId \in 1 .. MaxTaskId + 1

\* The list and both dictionaries hold the same tasks, no task is listed twice and
\* no item has two tasks: what append_batch skips and what update_progress and
\* _remove_task_locked find by id or by item is what claim_next walks over.
IndexConsistent ==
  /\ IsInjective(tasks)
  /\ Live = DOMAIN byTask
  /\ \A t \in DOMAIN byTask : byTask[t].item \in DOMAIN byItem /\ byItem[byTask[t].item] = t
  /\ \A i \in DOMAIN byItem : byItem[i] \in DOMAIN byTask /\ byTask[byItem[i]].item = i
  /\ \A t \in DOMAIN byTask : t < nextId

Larger(m, n) == IF m > n THEN m ELSE n

\* claim_next never takes the downloads, or the projects being downloaded, over the
\* normalised limits.  They may stand above a limit that was lowered, or that late
\* progress rows have exceeded; then the claim adds nothing.
ClaimStaysWithinLimits ==
  [][\A p \in ProjectLimits, f \in FileLimits :
       byTask' # byTask /\ ClaimNext(p, f) =>
         /\ Cardinality(ActiveTasks') <= Larger(NormalizeFiles(f), Cardinality(ActiveTasks))
         /\ Cardinality(ActiveProjects')
              <= Larger(NormalizeProjects(p), Cardinality(ActiveProjects))]_vars

\* claim_next is work conserving, in whatever state a heartbeat calls it: afterwards no
\* file slot is free, or no claimable task is left whose project is active or could be
\* opened.
ClaimFillsSlots ==
  \A p \in ProjectLimits, f \in FileLimits :
    LET taken    == Claimed(p, f)
        active   == ActiveTasks \cup taken
        projects == {Proj(t) : t \in active}
        left     == Claimable \ taken
    IN \/ Cardinality(active) >= NormalizeFiles(f)
       \/ /\ \A t \in left : Proj(t) \notin projects
          /\ left = {} \/ Cardinality(projects) >= NormalizeProjects(p)

\* A task the user paused is not taken up again in one step, whatever the helper
\* reports of the transfer that was under way: it is resumed, fails, or leaves the list.
PausedNotRestarted ==
  [][\A t \in DOMAIN byTask \cap DOMAIN byTask' :
       byTask[t].status = "paused" => byTask'[t].status # "downloading"]_vars
=============================================================================
