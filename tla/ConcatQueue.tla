---------------------------- MODULE ConcatQueue ----------------------------
(***************************************************************************)
(* Manual concatenation of a project's clips on the Mac: the in-memory     *)
(* queue of src/app/services/concat_queue.py, the handlers of src/app/     *)
(* main.py that change it together with recording_projects.concat_status   *)
(* in the database, and the helper's _run_concat_project threads.          *)
(*                                                                         *)
(* A queue method runs under the queue's lock and is one step; a handler   *)
(* awaits each of its database writes, so a write is a step of its own and *)
(* other handlers run in between.  A thread of the helper reports by a     *)
(* POST whose failure it only logs: a report may be lost, and, when it     *)
(* timed out on the Mac only, be handled after a later one.                *)
(*                                                                         *)
(* The projects here are those whose clips are all on the Mac (the handler *)
(* skips the others).  Paths, titles and step counts are left out.         *)
(***************************************************************************)
EXTENDS ListOrder, Bags

CONSTANTS Project,
          MaxTaskId,    \* bound on the number of tasks ever created
          MaxCommands,  \* bound on the concat-project commands under way at a time
          MaxOps,       \* bound on the number of calls from the web UI
          MaxWrites,    \* bound on the database writes awaited at a time
          MaxFaults     \* bound on losses, timeouts and restarts

ConcatAssumption ==
  /\ IsFiniteSet(Project)
  /\ {MaxTaskId, MaxCommands, MaxOps, MaxWrites, MaxFaults} \subseteq Nat

VARIABLES tasks,         \* _tasks: the ordered list, of task ids
          byTask,        \* _by_task: task id -> its project and status
          byProject,     \* _by_project: project -> task id
          nextId,        \* secrets.token_urlsafe never returns an id twice
          concatStatus,  \* recording_projects.concat_status
          projectStatus, \* recording_projects.status
          enqueuing,     \* POST /api/recording-projects/concat calls under way
          writes,        \* bag of database writes that a handler still awaits
          commands,      \* the concat-project commands under way, numbered
          reports,       \* reports on their way from the helper
          members,       \* projects whose clips are on the Mac
          final,         \* projects whose concatenated file is on the Mac
          interrupted,   \* history: projects whose running task was paused, deleted or lost
          ops, faults    \* counters of the bounds

queue == <<tasks, byTask, byProject, nextId>>
mac == <<members, final>>
vars == <<queue, concatStatus, projectStatus, enqueuing, writes, commands, reports, mac,
          interrupted, ops, faults>>

Status == {"queued", "running", "paused", "failed"}
TaskId == 1 .. MaxTaskId
Outcome == {"running", "done", "failed"}
ConcatStatus == {"none", "queued", "concatenating", "concatenated", "concat_failed"}
Command == [task : TaskId, project : Project, phase : {"claimed", "sent", "running"}]
Write == [project : Project, value : ConcatStatus]

Live == Range(tasks)
HasStatus(S) == {t \in Live : byTask[t].status \in S}
Proj(t) == byTask[t].project

Init ==
  /\ tasks = << >>
  /\ byTask = << >>
  /\ byProject = << >>
  /\ nextId = 1
  /\ concatStatus = [p \in Project |-> "none"]
  /\ projectStatus = [p \in Project |-> "ready"]
  /\ enqueuing = {}
  /\ writes = EmptyBag
  /\ commands = << >>
  /\ reports = {}
  /\ members = Project
  /\ final = {}
  /\ interrupted = {}
  /\ ops = 0
  /\ faults = 0

ProjectsAfterRemoval(gone) ==
  [p \in {q \in DOMAIN byProject : byProject[q] \notin gone} |-> byProject[p]]

Remove(gone) ==
  /\ tasks' = Keep(tasks, Live \ gone)
  /\ byTask' = Restrict(byTask, DOMAIN byTask \ gone)
  /\ byProject' = ProjectsAfterRemoval(gone)

SetStatus(S, status) ==
  byTask' = [t \in DOMAIN byTask |->
               IF t \in S THEN [byTask[t] EXCEPT !.status = status] ELSE byTask[t]]

\* A handler goes on to await the write of a value for each project of a set.
Await(P, value) ==
  /\ writes' = writes (+) SetToBag([project : P, value : {value}])
  /\ BagCardinality(writes') <= MaxWrites

UserOp == ops < MaxOps /\ ops' = ops + 1
Fault == faults < MaxFaults /\ faults' = faults + 1

----------------------------------------------------------------------------
\* POST /api/recording-projects/concat: concat_status is written project by project,
\* and the rows are queued together once all are written.

RequestConcat(P) ==
  /\ UserOp
  /\ enqueuing' = enqueuing \cup {[call |-> ops, todo |-> P, rows |-> << >>]}
  /\ UNCHANGED <<queue, concatStatus, projectStatus, writes, commands, reports, mac,
                 interrupted, faults>>

WriteQueued(call, p) ==
  /\ p \in call.todo
  /\ concatStatus' = [concatStatus EXCEPT ![p] = "queued"]
  /\ enqueuing' = (enqueuing \ {call}) \cup
       {[call EXCEPT !.todo = @ \ {p}, !.rows = Append(@, p)]}
  /\ UNCHANGED <<queue, projectStatus, writes, commands, reports, mac, interrupted,
                 ops, faults>>

\* enqueue: a project queued, running or paused is skipped; a failed task is replaced.
Enqueue(call) ==
  LET busy   == {p \in DOMAIN byProject : byTask[byProject[p]].status # "failed"}
      fresh  == Range(call.rows) \ busy
      failed == {byProject[p] : p \in fresh \cap DOMAIN byProject}
      n      == Cardinality(fresh)
      added  == Keep(call.rows, fresh)
      newIds == nextId .. (nextId + n - 1)
  IN /\ call.todo = {}
     /\ nextId + n <= MaxTaskId + 1
     /\ tasks' = Keep(tasks, Live \ failed) \o [k \in 1 .. n |-> nextId - 1 + k]
     /\ byTask' = [t \in (DOMAIN byTask \ failed) \cup newIds |->
                     IF t \in newIds
                     THEN [project |-> added[t - nextId + 1], status |-> "queued"]
                     ELSE byTask[t]]
     /\ byProject' = [p \in DOMAIN byProject \cup fresh |->
                        IF p \in fresh THEN nextId - 1 + Places(added)[p] ELSE byProject[p]]
     /\ nextId' = nextId + n
     /\ enqueuing' = enqueuing \ {call}
     /\ UNCHANGED <<concatStatus, projectStatus, writes, commands, reports, mac,
                    interrupted, ops, faults>>

----------------------------------------------------------------------------
\* /api/tasks/concat/{pause,resume,delete,reorder}

Targets(T, P) ==
  IF T # {} THEN Live \cap T ELSE IF P # {} THEN {t \in Live : Proj(t) \in P} ELSE Live

\* A running task is paused too, although the helper goes on; every paused task of the
\* queue is then written as "queued".
Pause(T, P) ==
  LET S == Targets(T, P) \cap HasStatus({"queued", "running"})
  IN /\ UserOp
     /\ SetStatus(S, "paused")
     /\ Await({Proj(t) : t \in S \cup HasStatus({"paused"})}, "queued")
     /\ interrupted' = interrupted \cup {Proj(t) : t \in S \cap HasStatus({"running"})}
     /\ UNCHANGED <<tasks, byProject, nextId, concatStatus, projectStatus, enqueuing,
                    commands, reports, mac, faults>>

Resume(T, P) ==
  /\ UserOp
  /\ SetStatus(Targets(T, P) \cap HasStatus({"paused", "failed"}), "queued")
  /\ Await(P, "queued")
  /\ UNCHANGED <<tasks, byProject, nextId, concatStatus, projectStatus, enqueuing,
                 commands, reports, mac, interrupted, faults>>

Delete(T, P) ==
  /\ UserOp
  /\ Remove(Targets(T, P))
  /\ Await(P, "none")
  /\ interrupted' = interrupted \cup {Proj(t) : t \in Targets(T, P) \cap HasStatus({"running"})}
  /\ UNCHANGED <<nextId, concatStatus, projectStatus, enqueuing, commands, reports, mac,
                 faults>>

\* The running task stays in front, then the tasks asked for, then the others.
Reorder(wanted) ==
  LET movable == Live \ HasStatus({"running"})
      key     == [t \in movable |-> IF t \in Range(wanted)
                                    THEN Places(wanted)[t]
                                    ELSE Len(wanted) + Places(tasks)[t]]
  IN /\ UserOp
     /\ tasks' = Keep(tasks, HasStatus({"running"})) \o InOrder(movable, key)
     /\ UNCHANGED <<byTask, byProject, nextId, concatStatus, projectStatus, enqueuing,
                    writes, commands, reports, mac, interrupted, faults>>

----------------------------------------------------------------------------
\* The helper's heartbeat: _claim_concat_commands takes the first queued task when none
\* is running, awaits the write of "concatenating" and answers with the command.

SlotIgnored == TRUE \* mutant: the running tasks are not counted
SlotFreeOfPaused == HasStatus({"running", "paused"}) = {} \* mutant: a paused task holds it
SlotFree == HasStatus({"running"}) = {}

FreeNumbers == (1 .. MaxCommands) \ (DOMAIN commands \cup {r.command : r \in reports})

Claim(t, c) ==
  /\ c \in FreeNumbers /\ \A d \in FreeNumbers : c <= d
  /\ SlotFree
  /\ t \in HasStatus({"queued"})
  /\ \A u \in HasStatus({"queued"}) : Places(tasks)[t] <= Places(tasks)[u]
  /\ SetStatus({t}, "running")
  /\ commands' = [d \in DOMAIN commands \cup {c} |->
                    IF d = c THEN [task |-> t, project |-> Proj(t), phase |-> "claimed"]
                    ELSE commands[d]]
  /\ UNCHANGED <<tasks, byProject, nextId, concatStatus, projectStatus, enqueuing, writes,
                 reports, mac, interrupted, ops, faults>>

SendCommand(c) ==
  /\ commands[c].phase = "claimed"
  /\ commands' = [commands EXCEPT ![c].phase = "sent"]
  /\ concatStatus' = [concatStatus EXCEPT ![commands[c].project] = "concatenating"]
  /\ UNCHANGED <<queue, projectStatus, enqueuing, writes, reports, mac, interrupted,
                 ops, faults>>

----------------------------------------------------------------------------
\* The helper: one thread for each command, _run_concat_project.

\* A thread goes on when its last report was answered, lost, or timed out.
Reported(c) == \A r \in reports : r.command = c => r.late

SaySuccess(c, outcome) == \* mutant: a thread that gives up says nothing
  IF outcome = "failed"
  THEN UNCHANGED reports
  ELSE reports' = reports \cup
         {[command |-> c, task |-> commands[c].task, project |-> commands[c].project,
           status |-> outcome, late |-> FALSE]}

Say(c, outcome) ==
  reports' = reports \cup
    {[command |-> c, task |-> commands[c].task, project |-> commands[c].project,
      status |-> outcome, late |-> FALSE]}

StartConcat(c) ==
  /\ commands[c].phase = "sent"
  /\ commands' = [commands EXCEPT ![c].phase = "running"]
  /\ Say(c, "running")
  /\ UNCHANGED <<queue, concatStatus, projectStatus, enqueuing, writes, mac, interrupted,
                 ops, faults>>

\* The output replaces the final file and the project's directory is removed.  Two threads
\* of one project write the same hidden output: what one of them publishes may be torn until
\* the other ends.  Only that the file exists is modelled.
FinishConcat(c) ==
  /\ commands[c].phase = "running"
  /\ Reported(c)
  /\ commands[c].project \in members
  /\ members' = members \ {commands[c].project}
  /\ final' = final \cup {commands[c].project}
  /\ commands' = Restrict(commands, DOMAIN commands \ {c})
  /\ Say(c, "done")
  /\ UNCHANGED <<queue, concatStatus, projectStatus, enqueuing, writes, interrupted,
                 ops, faults>>

\* No ffmpeg on the Mac, a clip missing, ffmpeg failing or its output too small.
FailConcat(c) ==
  /\ commands[c].phase \in {"sent", "running"}
  /\ Reported(c)
  /\ commands' = Restrict(commands, DOMAIN commands \ {c})
  /\ Say(c, "failed")
  /\ UNCHANGED <<queue, concatStatus, projectStatus, enqueuing, writes, mac, interrupted,
                 ops, faults>>

----------------------------------------------------------------------------
\* POST /api/mac/helper/concat-status

\* The task of the report, or else the task the report's project has by now.
ReportedTasks(r) ==
  IF r.task \in DOMAIN byTask
  THEN {r.task}
  ELSE {byProject[p] : p \in {r.project} \cap DOMAIN byProject}

ValueIgnoringFailure(outcome) == \* mutant: whatever is not "running" counts as done
  IF outcome = "running" THEN "concatenating" ELSE "concatenated"
ValueOf(outcome) ==
  CASE outcome = "running" -> "concatenating"
    [] outcome = "done" -> "concatenated"
    [] outcome = "failed" -> "concat_failed"

DeliverReport(r) ==
  /\ reports' = reports \ {r}
  /\ IF r.status = "done"
     THEN Remove(ReportedTasks(r))
     ELSE SetStatus(ReportedTasks(r), r.status) /\ UNCHANGED <<tasks, byProject>>
  /\ Await({r.project}, ValueOf(r.status))
  /\ UNCHANGED <<nextId, concatStatus, projectStatus, enqueuing, commands, mac,
                 interrupted, ops, faults>>

\* update_recording_project: one awaited write of a handler is committed.
Commit(w) ==
  /\ writes' = writes (-) SetToBag({w})
  /\ concatStatus' = [concatStatus EXCEPT ![w.project] = w.value]
  /\ projectStatus' = IF w.value = "concatenated"
                      THEN [projectStatus EXCEPT ![w.project] = "concatenated"]
                      ELSE projectStatus
  /\ UNCHANGED <<queue, enqueuing, commands, reports, mac, interrupted, ops, faults>>

----------------------------------------------------------------------------
\* Losses, timeouts and restarts.

\* The helper gives up waiting for the answer, and the report is still handled later.
ReportTimesOut(r) ==
  /\ Fault
  /\ ~ r.late
  /\ reports' = (reports \ {r}) \cup {[r EXCEPT !.late = TRUE]}
  /\ UNCHANGED <<queue, concatStatus, projectStatus, enqueuing, writes, commands, mac,
                 interrupted, ops>>

LoseReport(r) ==
  /\ Fault
  /\ reports' = reports \ {r}
  /\ UNCHANGED <<queue, concatStatus, projectStatus, enqueuing, writes, commands, mac,
                 interrupted, ops>>

\* The commands that are left when those in some phases are lost.
Without(phases) ==
  Restrict(commands, {c \in DOMAIN commands : commands[c].phase \notin phases})

\* The heartbeat's answer does not arrive.
LoseCommand(c) ==
  /\ Fault
  /\ commands[c].phase = "sent"
  /\ commands' = Restrict(commands, DOMAIN commands \ {c})
  /\ UNCHANGED <<queue, concatStatus, projectStatus, enqueuing, writes, reports, mac,
                 interrupted, ops>>

\* The queue and every handler under way are lost; only the database is kept.
ServerRestart ==
  /\ Fault
  /\ tasks' = << >> /\ byTask' = << >> /\ byProject' = << >> /\ UNCHANGED nextId
  /\ enqueuing' = {} /\ writes' = EmptyBag
  /\ commands' = Without({"claimed"})
  /\ interrupted' = interrupted \cup {Proj(t) : t \in HasStatus({"running"})}
  /\ UNCHANGED <<concatStatus, projectStatus, reports, mac, ops>>

HelperRestart ==
  /\ Fault
  /\ commands' = Without({"sent", "running"})
  /\ UNCHANGED <<queue, concatStatus, projectStatus, enqueuing, writes, reports, mac,
                 interrupted, ops>>

----------------------------------------------------------------------------
Lists(S) == {list \in UNION {[1 .. n -> S] : n \in 1 .. Cardinality(S)} : IsInjective(list)}

\* The web UI names projects; the API also takes task ids, or nothing for all tasks.
Calls ==
  \/ \E P \in SUBSET Project \ {{}} : RequestConcat(P)
  \/ \E T \in SUBSET Live : Pause(T, {})
  \/ \E P \in SUBSET Project \ {{}} : Pause({}, P)
  \/ \E T \in SUBSET Live : Resume(T, {})
  \/ \E P \in SUBSET Project \ {{}} : Resume({}, P)
  \/ \E T \in SUBSET Live : Delete(T, {})
  \/ \E P \in SUBSET Project \ {{}} : Delete({}, P)
  \/ \E wanted \in Lists(Live) : Reorder(wanted)

Handlers ==
  \/ \E call \in enqueuing : Enqueue(call) \/ \E p \in call.todo : WriteQueued(call, p)
  \/ \E w \in BagToSet(writes) : Commit(w)
  \/ \E r \in reports : DeliverReport(r)
  \/ \E t \in Live, c \in 1 .. MaxCommands : Claim(t, c)
  \/ \E c \in DOMAIN commands : SendCommand(c)

Helper ==
  \E c \in DOMAIN commands : StartConcat(c) \/ FinishConcat(c) \/ FailConcat(c)

Faults ==
  \/ \E r \in reports : ReportTimesOut(r) \/ LoseReport(r)
  \/ \E c \in DOMAIN commands : LoseCommand(c)
  \/ ServerRestart
  \/ HelperRestart

Next == Calls \/ Handlers \/ Helper \/ Faults

Spec == Init /\ [][Next]_vars

\* The event loop runs every ready handler, the helper beats every few seconds and its
\* threads are scheduled.  Nothing is asked of the user, or of the faults.
FairSpec == Spec /\ WF_vars(Handlers) /\ WF_vars(Helper)

----------------------------------------------------------------------------
(* Properties *)

\* Every variable has the type its code gives it.
TypeOK ==
  /\ tasks \in Seq(TaskId)
  /\ DOMAIN byTask \subseteq TaskId
  /\ \A t \in DOMAIN byTask : byTask[t] \in [project : Project, status : Status]
  /\ DOMAIN byProject \subseteq Project
  /\ \A p \in DOMAIN byProject : byProject[p] \in TaskId
  /\ nextId \in 1 .. MaxTaskId + 1
  /\ concatStatus \in [Project -> ConcatStatus]
  /\ projectStatus \in [Project -> {"ready", "concatenated"}]
  /\ \A call \in enqueuing : call.todo \subseteq Project /\ Range(call.rows) \subseteq Project
  /\ IsABag(writes) /\ BagToSet(writes) \subseteq Write
  /\ DOMAIN commands \subseteq 1 .. MaxCommands /\ \A c \in DOMAIN commands : commands[c] \in Command
  /\ reports \subseteq [command : 1 .. MaxCommands, task : TaskId, project : Project,
                        status : Outcome, late : BOOLEAN]
  /\ members \subseteq Project /\ final \subseteq Project /\ interrupted \subseteq Project
  /\ ops \in 0 .. MaxOps /\ faults \in 0 .. MaxFaults

\* "Concurrent concat = 1", of the commands whose task was left alone: at most one is under
\* way for a project whose running task was never paused, deleted or lost in a restart,
\* however reports are lost or late.  (A pause frees the slot and stops nothing on the Mac.)
SerialUnlessInterrupted ==
  Cardinality({c \in DOMAIN commands : commands[c].project \notin interrupted}) <= 1

\* A project is recorded as concatenated only when its file is on the Mac, whatever
\* write of another handler was committed in between.
ConcatenatedHasFile ==
  \A p \in Project :
    concatStatus[p] = "concatenated" \/ projectStatus[p] = "concatenated" => p \in final

\* While nothing was lost, a running task, which holds the only slot, has a command
\* under way for its project or a report that will take it from the slot.
RunningIsServed ==
  faults = 0 =>
    \A t \in HasStatus({"running"}) :
      \/ \E c \in DOMAIN commands : commands[c].project = Proj(t)
      \/ \E r \in reports : r.project = Proj(t) /\ r.status # "running"

\* No task stays queued for ever: it is claimed, paused or deleted in the end, since no
\* task blocks the slot for ever.
QueueMoves == \A t \in TaskId : []<>(t \notin HasStatus({"queued"}))
=============================================================================
