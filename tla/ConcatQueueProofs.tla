-------------------------- MODULE ConcatQueueProofs --------------------------
(***************************************************************************)
(* Concatenations, proved for any number of projects, tasks, commands,     *)
(* calls, waiting writes and faults: one runs at a time, what is called    *)
(* concatenated has its file, and while nothing was lost each running task *)
(* has somebody to end it.                                                 *)
(***************************************************************************)
EXTENDS ConcatQueue, ListOrderProofs

Phase == {"claimed", "sent", "running"}
Report == [command : Nat, task : Nat, project : Project, status : Outcome, late : BOOLEAN]

\* The list and both dictionaries of the queue agree, and no id of a task is used twice.
ConcatIndex ==
  /\ nextId \in Nat \ {0}
  /\ tasks \in Seq(1 .. (nextId - 1)) /\ IsInjective(tasks)
  /\ DOMAIN byTask = Live
  /\ \A t \in Live : byTask[t] \in [project : Project, status : Status]
  /\ DOMAIN byProject \subseteq Project
  /\ \A p \in DOMAIN byProject : byProject[p] \in Live /\ Proj(byProject[p]) = p
  /\ \A t \in Live : Proj(t) \in DOMAIN byProject /\ byProject[Proj(t)] = t

\* A handler that enqueues has written each project once.
CallType(call) ==
  /\ call = [call |-> call.call, todo |-> call.todo, rows |-> call.rows]
  /\ call.todo \subseteq Project
  /\ call.rows \in Seq(Project) /\ IsInjective(call.rows) /\ Range(call.rows) \cap call.todo = {}

\* What names a task names its project, as long as the task lives.
Names(x) == x.task \in Nat /\ x.task < nextId /\ (x.task \in Live => Proj(x.task) = x.project)

ConcatTypes ==
  /\ \A call \in enqueuing : CallType(call)
  /\ DOMAIN commands \subseteq Nat
  /\ commands \in [DOMAIN commands -> [task : Nat, project : Project, phase : Phase]]
  /\ \A c \in DOMAIN commands : Names(commands[c])
  /\ reports \subseteq Report /\ \A r \in reports : Names(r)
  /\ IsABag(writes) /\ DOMAIN concatStatus = Project /\ DOMAIN projectStatus = Project
  /\ faults \in Nat

\* The commands and the last reports of those projects whose task was left alone: each has
\* its task running, and there is one of them altogether.
Kept == {c \in DOMAIN commands : commands[c].project \notin interrupted}
LastKept == {r \in reports : r.status # "running" /\ r.project \notin interrupted}

OneKept ==
  /\ \A c \in Kept : commands[c].task \in HasStatus({"running"})
  /\ \A r \in LastKept : r.task \in HasStatus({"running"})
  /\ \A c, d \in Kept : c = d
  /\ \A r, s \in LastKept : r = s
  /\ Kept = {} \/ LastKept = {}

\* A file stays; whoever is to write, or to report, that a project is concatenated, came
\* after it.
SaidHasFile ==
  /\ \A r \in reports : r.status = "done" => r.project \in final
  /\ \A w \in BagToSet(writes) : w.value = "concatenated" => w.project \in final

\* While nothing was lost, the report that a thread began is answered before the thread goes
\* on; and RunningIsServed.
InTime ==
  faults = 0 =>
    \A r \in reports :
      /\ ~ r.late
      /\ r.status = "running" => r.command \in DOMAIN commands /\ commands[r.command].project = r.project

ConcatInv ==
  /\ ConcatIndex /\ ConcatTypes /\ OneKept
  /\ SaidHasFile /\ ConcatenatedHasFile /\ InTime /\ RunningIsServed

----------------------------------------------------------------------------
(* The queue itself. *)

\* What became of the tasks that were there.
SameTasks(S) == \A t \in S : byTask'[t] = byTask[t]

LEMMA ConcatRemove ==
  ASSUME ConcatIndex, NEW gone, Remove(gone), nextId' = nextId
  PROVE  ConcatIndex' /\ Live' = Live \ gone /\ SameTasks(Live')
<1> USE DEF ConcatIndex
<1>1. /\ tasks' \in Seq(1 .. (nextId' - 1)) /\ IsInjective(tasks') /\ Live' = Live \ gone
  <2>1. /\ Keep(tasks, Live \ gone) \in Seq(1 .. (nextId - 1))
        /\ IsInjective(Keep(tasks, Live \ gone))
        /\ Range(Keep(tasks, Live \ gone)) = Range(tasks) \cap (Live \ gone)
    BY KeepLists
  <2> QED BY <2>1 DEF Remove, Live
<1>2. /\ DOMAIN byTask' = DOMAIN byTask \ gone
      /\ \A t \in DOMAIN byTask' : byTask'[t] = byTask[t]
  BY DEF Remove, Restrict
<1>3. /\ DOMAIN byProject' = {p \in DOMAIN byProject : byProject[p] \notin gone}
      /\ \A p \in DOMAIN byProject' : byProject'[p] = byProject[p]
  BY DEF Remove, ProjectsAfterRemoval
<1>4. DOMAIN byTask' = Live' /\ SameTasks(Live') /\ \A t \in Live' : Proj(t)' = Proj(t)
  BY <1>1, <1>2 DEF SameTasks, Proj
<1>5. \A t \in Live' : byTask'[t] \in [project : Project, status : Status]
  BY <1>1, <1>4 DEF SameTasks
<1>6. \A p \in DOMAIN byProject' : byProject'[p] \in Live' /\ byTask'[byProject'[p]].project = p
  BY <1>1, <1>3, <1>4 DEF SameTasks, Proj
<1>7. \A t \in Live' : Proj(t)' \in DOMAIN byProject' /\ byProject'[Proj(t)'] = t
  BY <1>1, <1>3, <1>4
<1> QED BY <1>1, <1>3, <1>4, <1>5, <1>6, <1>7 DEF Proj

LEMMA ConcatStatusSet ==
  ASSUME ConcatIndex, NEW S, NEW status \in Status, SetStatus(S, status),
         UNCHANGED <<tasks, byProject, nextId>>
  PROVE  /\ ConcatIndex' /\ Live' = Live
         /\ \A t \in Live : /\ byTask'[t].project = byTask[t].project
                            /\ byTask'[t].status = IF t \in S THEN status ELSE byTask[t].status
<1> USE DEF ConcatIndex
<1>1. Live' = Live
  BY DEF Live
<1>2. DOMAIN byTask' = DOMAIN byTask
  BY DEF SetStatus
<1>3. \A t \in Live : /\ byTask'[t] \in [project : Project, status : Status]
                      /\ byTask'[t].project = byTask[t].project
                      /\ byTask'[t].status = IF t \in S THEN status ELSE byTask[t].status
  BY DEF SetStatus
<1>4. \A t \in Live : Proj(t)' = Proj(t)
  BY <1>3 DEF Proj
<1> QED BY <1>1, <1>2, <1>3, <1>4

\* Reorder lists the same tasks: its key gives each movable one a place of its own.
LEMMA ConcatReorder ==
  ASSUME ConcatIndex, NEW wanted \in Lists(Live), Reorder(wanted)
  PROVE  ConcatIndex' /\ Live' = Live
<1> USE DEF ConcatIndex
<1> DEFINE running == HasStatus({"running"})
           movable == Live \ running
           key == [t \in movable |-> IF t \in Range(wanted) THEN Places(wanted)[t]
                                     ELSE Len(wanted) + Places(tasks)[t]]
<1>1. tasks' = Keep(tasks, running) \o InOrder(movable, key) /\ UNCHANGED <<byTask, byProject, nextId>>
  BY DEF Reorder
<1>2. running \subseteq Live /\ IsFiniteSet(Live) /\ Live = Range(tasks) /\ IsFiniteSet(movable)
  BY RangeFinite, FS_Subset DEF HasStatus, Live
<1>3. wanted \in Seq(Live) /\ IsInjective(wanted)
  <2>1. PICK n \in 1 .. Cardinality(Live) : wanted \in [1 .. n -> Live] /\ IsInjective(wanted)
    BY DEF Lists
  <2>2. n \in Nat
    BY <1>2, FS_CardinalityType
  <2> QED BY <2>1, <2>2
<1>4. /\ \A t \in Range(wanted) : Places(wanted)[t] \in DOMAIN wanted /\ wanted[Places(wanted)[t]] = t
      /\ \A t \in Live : Places(tasks)[t] \in DOMAIN tasks /\ tasks[Places(tasks)[t]] = t
  BY <1>2, <1>3, PlacesIsKey
<1>5. DOMAIN wanted = 1 .. Len(wanted) /\ Len(wanted) \in Nat /\ DOMAIN tasks = 1 .. Len(tasks) /\ Len(tasks) \in Nat
  BY <1>3
<1>6. IsKey(movable, key)
  <2>1. \A t \in movable : key[t] \in Int
    BY <1>4, <1>5
  <2>2. ASSUME NEW t \in movable, NEW u \in movable, key[t] = key[u] PROVE t = u
    BY <1>4, <1>5, <2>2
  <2> HIDE DEF key
  <2> QED BY <2>1, <2>2 DEF IsKey
<1> HIDE DEF key, movable
<1>7. /\ Keep(tasks, running) \in Seq(1 .. (nextId - 1)) /\ IsInjective(Keep(tasks, running))
      /\ Range(Keep(tasks, running)) = running
  <2>1. tasks \in Seq(1 .. (nextId - 1)) /\ IsInjective(tasks) /\ Range(tasks) \cap running = running
    BY <1>2
  <2> QED BY <2>1, KeepLists
<1>8. /\ InOrder(movable, key) \in Seq(movable) /\ IsInjective(InOrder(movable, key))
      /\ Range(InOrder(movable, key)) = movable
  BY <1>2, <1>6, InOrderLists DEF IsInjective
<1>9. movable \subseteq 1 .. (nextId - 1) /\ running \cap movable = {} /\ Live = running \cup movable
  BY <1>2, RangeFinite DEF movable
<1>10. InOrder(movable, key) \in Seq(1 .. (nextId - 1))
  <2> DEFINE rest == InOrder(movable, key)
             ids == 1 .. (nextId - 1)
  <2>1. rest \in Seq(movable) /\ movable \subseteq ids
    BY <1>8, <1>9
  <2> HIDE DEF rest, ids
  <2>2. rest \in Seq(ids)
    BY <2>1
  <2> QED BY <2>2 DEF rest, ids
<1> HIDE DEF running
<1>11. /\ tasks' \in Seq(1 .. (nextId - 1)) /\ IsInjective(tasks') /\ Range(tasks') = Live
  BY <1>1, <1>7, <1>8, <1>9, <1>10, ConcatLists
<1>12. Live' = Live
  BY <1>11 DEF Live
<1> QED BY <1>1, <1>11, <1>12 DEF Proj

\* Every project of a request that is queued afresh gets one new task, and loses the failed
\* one it had.
LEMMA ConcatEnqueue ==
  ASSUME ConcatIndex, NEW call, CallType(call), Enqueue(call)
  PROVE  /\ ConcatIndex' /\ nextId' >= nextId
         /\ HasStatus({"running"}) \subseteq Live'
         /\ \A t \in Live' : \/ t \in Live /\ byTask'[t] = byTask[t]
                             \/ t >= nextId /\ byTask'[t].status = "queued"
<1> USE DEF ConcatIndex
<1> DEFINE busy == {p \in DOMAIN byProject : byTask[byProject[p]].status # "failed"}
           fresh == Range(call.rows) \ busy
           failed == {byProject[p] : p \in fresh \cap DOMAIN byProject}
           n == Cardinality(fresh)
           added == Keep(call.rows, fresh)
           newIds == nextId .. (nextId + n - 1)
           front == Keep(tasks, Live \ failed)
           back == [k \in 1 .. n |-> nextId - 1 + k]
<1>1. /\ tasks' = front \o back
      /\ byTask' = [t \in (DOMAIN byTask \ failed) \cup newIds |->
                     IF t \in newIds
                     THEN [project |-> added[t - nextId + 1], status |-> "queued"]
                     ELSE byTask[t]]
      /\ byProject' = [p \in DOMAIN byProject \cup fresh |->
                        IF p \in fresh THEN nextId - 1 + Places(added)[p] ELSE byProject[p]]
      /\ nextId' = nextId + n
  BY DEF Enqueue
<1>2. /\ failed \subseteq Live
      /\ \A t \in failed : byTask[t].status = "failed" /\ Proj(t) \in fresh
      /\ \A t \in Live \ failed : Proj(t) \notin fresh
      /\ \A p \in DOMAIN byProject \ fresh : byProject[p] \notin failed
  OBVIOUS
<1>3. IsFiniteSet(fresh) /\ fresh \subseteq Project /\ n \in Nat
  <2>1. IsFiniteSet(Range(call.rows)) /\ Range(call.rows) \subseteq Project
    BY RangeFinite DEF CallType
  <2>2. fresh \in SUBSET Range(call.rows)
    OBVIOUS
  <2> HIDE DEF fresh
  <2> QED BY <2>1, <2>2, FS_Subset, FS_CardinalityType
<1>4. /\ added \in Seq(Project) /\ IsInjective(added) /\ Range(added) = fresh
      /\ Len(added) = n
  <2>1. call.rows \in Seq(Project) /\ IsInjective(call.rows) /\ Range(call.rows) \cap fresh = fresh
    BY DEF CallType
  <2> HIDE DEF fresh
  <2>2. IsKey(fresh, Places(call.rows))
    <3>1. fresh \subseteq Range(call.rows)
      BY <2>1
    <3> QED BY <2>1, <3>1, PlacesIsKey
  <2>3. added = InOrder(fresh, Places(call.rows))
    BY <2>1 DEF Keep
  <2>4. Len(InOrder(fresh, Places(call.rows))) = n
    BY <1>3, <2>2, InOrderLists
  <2> QED BY <2>1, <2>3, <2>4, KeepLists
<1> HIDE DEF fresh, failed, added
<1>5. /\ front \in Seq(1 .. (nextId - 1)) /\ IsInjective(front) /\ Range(front) = Live \ failed
  <2>1. tasks \in Seq(1 .. (nextId - 1)) /\ IsInjective(tasks) /\ Range(tasks) \cap (Live \ failed) = Live \ failed
    BY DEF Live
  <2> QED BY <2>1, KeepLists
<1>6. /\ back \in Seq(1 .. (nextId' - 1)) /\ IsInjective(back) /\ Range(back) = newIds
  <2>1. back \in Seq(1 .. (nextId' - 1)) /\ DOMAIN back = 1 .. n
    <3> DEFINE ids == 1 .. (nextId' - 1)
    <3>1. \A k \in 1 .. n : nextId - 1 + k \in ids
      BY <1>1, <1>3
    <3> HIDE DEF ids, n
    <3>2. back \in Seq(ids)
      BY <1>3, <3>1
    <3> QED BY <3>2 DEF ids
  <2>2. \A t \in newIds : t - nextId + 1 \in 1 .. n /\ back[t - nextId + 1] = t
    BY <1>3
  <2>3. \A k \in 1 .. n : back[k] \in newIds /\ back[k] = nextId - 1 + k
    BY <1>3
  <2> HIDE DEF back, newIds
  <2>4. Range(back) = newIds
    BY <2>1, <2>2, <2>3 DEF Range
  <2>5. IsInjective(back)
    BY <1>3, <2>1, <2>3 DEF IsInjective
  <2> QED BY <2>1, <2>4, <2>5
<1>7. /\ Live \subseteq 1 .. (nextId - 1)
      /\ newIds \cap Live = {}
      /\ \A t \in newIds : t - nextId + 1 \in DOMAIN added /\ added[t - nextId + 1] \in fresh
  <2>1. Live \subseteq 1 .. (nextId - 1)
    BY RangeFinite DEF Live
  <2>2. newIds \cap Live = {}
    BY <1>3, <2>1
  <2>3. \A t \in newIds : t - nextId + 1 \in DOMAIN added
    BY <1>3, <1>4
  <2> QED BY <1>4, <2>1, <2>2, <2>3 DEF Range
<1>8. /\ tasks' \in Seq(1 .. (nextId' - 1)) /\ IsInjective(tasks')
      /\ Live' = (Live \ failed) \cup newIds
  <2> DEFINE ids == 1 .. (nextId' - 1)
             old == 1 .. (nextId - 1)
  <2>1. old \subseteq ids
    BY <1>1, <1>3
  <2>2. front \in Seq(old) /\ back \in Seq(ids)
    BY <1>5, <1>6
  <2>3. Range(front) \cap Range(back) = {}
    BY <1>5, <1>6, <1>7
  <2>6. tasks' = front \o back
    BY <1>1
  <2> HIDE DEF front, back, ids, old, newIds
  <2>4. front \in Seq(ids)
    BY <2>1, <2>2, SeqWidens
  <2>5. tasks' \in Seq(ids) /\ IsInjective(tasks') /\ Range(tasks') = Range(front) \cup Range(back)
    BY <1>5, <1>6, <2>2, <2>3, <2>4, <2>6, ConcatLists
  <2> QED BY <1>5, <1>6, <2>5 DEF ids, Live
<1> HIDE DEF newIds, front, back
<1>9. /\ DOMAIN byTask' = Live'
      /\ \A t \in newIds : /\ byTask'[t].project = added[t - nextId + 1]
                           /\ byTask'[t].status = "queued"
                           /\ byTask'[t] \in [project : Project, status : Status]
      /\ \A t \in Live \ failed : byTask'[t] = byTask[t]
  <2>1. DOMAIN byTask' = Live' /\ \A t \in Live \ failed : byTask'[t] = byTask[t]
    BY <1>1, <1>7, <1>8
  <2>2. \A t \in newIds : byTask'[t] = [project |-> added[t - nextId + 1], status |-> "queued"]
    BY <1>1
  <2>3. \A t \in newIds : added[t - nextId + 1] \in Project
    BY <1>3, <1>7
  <2>4. ASSUME NEW t \in newIds
        PROVE  /\ byTask'[t].project = added[t - nextId + 1]
               /\ byTask'[t].status = "queued"
               /\ byTask'[t] \in [project : Project, status : Status]
    <3> DEFINE p == added[t - nextId + 1]
    <3>1. byTask'[t] = [project |-> p, status |-> "queued"] /\ p \in Project
      BY <2>2, <2>3
    <3> HIDE DEF p
    <3>2. byTask'[t].project = p /\ byTask'[t].status = "queued"
      BY <3>1
    <3>3. byTask'[t] \in [project : Project, status : Status]
      BY <3>1 DEF Status
    <3> QED BY <3>2, <3>3 DEF p
  <2> QED BY <2>1, <2>4
<1>10. /\ DOMAIN byProject' = DOMAIN byProject \cup fresh
       /\ \A p \in fresh : byProject'[p] = nextId - 1 + Places(added)[p]
       /\ \A p \in DOMAIN byProject \ fresh : byProject'[p] = byProject[p]
  BY <1>1
<1>11. /\ \A p \in fresh : Places(added)[p] \in 1 .. n /\ added[Places(added)[p]] = p
       /\ \A k \in 1 .. n : added[k] \in fresh /\ Places(added)[added[k]] = k
  <2>1. \A p \in fresh : Places(added)[p] \in DOMAIN added /\ added[Places(added)[p]] = p
    BY <1>4, PlacesIsKey
  <2>2. DOMAIN added = 1 .. n
    BY <1>4
  <2>3. \A k \in 1 .. n : added[k] \in fresh
    BY <1>4, <2>2 DEF Range
  <2> QED BY <1>4, <2>1, <2>2, <2>3 DEF IsInjective
<1>12. \A t \in Live' : byTask'[t] \in [project : Project, status : Status]
  BY <1>8, <1>9
<1>13. \A p \in DOMAIN byProject' : byProject'[p] \in Live' /\ byTask'[byProject'[p]].project = p
  <2>1. ASSUME NEW p \in fresh PROVE byProject'[p] \in newIds /\ byTask'[byProject'[p]].project = p
    <3>1. byProject'[p] \in newIds
      BY <1>3, <1>10, <1>11 DEF newIds
    <3>2. byProject'[p] - nextId + 1 = Places(added)[p]
      BY <1>3, <1>10, <1>11
    <3>3. byTask'[byProject'[p]].project = added[byProject'[p] - nextId + 1]
      BY <1>9, <3>1
    <3> QED BY <1>11, <3>1, <3>2, <3>3
  <2>2. ASSUME NEW p \in DOMAIN byProject \ fresh
        PROVE  byProject'[p] \in Live \ failed /\ byTask'[byProject'[p]].project = p
    BY <1>2, <1>9, <1>10 DEF Proj
  <2> QED BY <1>8, <1>10, <2>1, <2>2
<1>14. \A t \in Live' : byTask'[t].project \in DOMAIN byProject' /\ byProject'[byTask'[t].project] = t
  <2>1. ASSUME NEW t \in newIds
        PROVE  byTask'[t].project \in fresh /\ byProject'[byTask'[t].project] = t
    <3>1. t - nextId + 1 \in 1 .. n /\ t \in Int
      BY <1>3 DEF newIds
    <3>2. byTask'[t].project = added[t - nextId + 1]
      BY <1>9
    <3>3. /\ added[t - nextId + 1] \in fresh
          /\ Places(added)[added[t - nextId + 1]] = t - nextId + 1
      BY <1>11, <3>1
    <3>4. byProject'[added[t - nextId + 1]] = nextId - 1 + (t - nextId + 1)
      BY <1>10, <3>3
    <3> QED BY <3>1, <3>2, <3>3, <3>4
  <2>2. ASSUME NEW t \in Live \ failed
        PROVE  /\ byTask'[t].project \in DOMAIN byProject \ fresh
               /\ byProject'[byTask'[t].project] = t
    BY <1>2, <1>9, <1>10 DEF Proj
  <2> QED BY <1>8, <1>10, <2>1, <2>2
<1>15. nextId' \in Nat \ {0} /\ nextId' >= nextId /\ DOMAIN byProject' \subseteq Project
  BY <1>1, <1>3, <1>10
<1>16. HasStatus({"running"}) \subseteq Live'
  BY <1>2, <1>8 DEF HasStatus
<1>17. \A t \in Live' : \/ t \in Live /\ byTask'[t] = byTask[t]
                        \/ t >= nextId /\ byTask'[t].status = "queued"
  <2>1. \A t \in newIds : t >= nextId
    BY <1>3 DEF newIds
  <2>2. \A t \in newIds : byTask'[t].status = "queued"
    BY <1>9
  <2>3. \A t \in Live \ failed : byTask'[t] = byTask[t]
    BY <1>9
  <2> SUFFICES ASSUME NEW t \in Live'
               PROVE  \/ t \in Live /\ byTask'[t] = byTask[t]
                      \/ t >= nextId /\ byTask'[t].status = "queued"
    OBVIOUS
  <2>4. CASE t \in newIds
    BY <2>1, <2>2, <2>4
  <2>5. CASE t \in Live \ failed
    BY <2>3, <2>5
  <2> QED BY <1>8, <2>4, <2>5
<1> QED BY <1>8, <1>9, <1>12, <1>13, <1>14, <1>15, <1>16, <1>17 DEF Proj

----------------------------------------------------------------------------
(* What a step may do to the tasks. *)

\* A task that is there was there under the same project, or has a new id.
OldTasks ==
  /\ nextId' >= nextId
  /\ \A t \in Live' : t < nextId => t \in Live /\ byTask'[t].project = Proj(t)

LEMMA ConcatIndexStep ==
  ASSUME ConcatIndex, ConcatTypes, Next
  PROVE  ConcatIndex' /\ OldTasks
<1>1. ASSUME UNCHANGED queue PROVE ConcatIndex' /\ OldTasks
  BY <1>1 DEF ConcatIndex, OldTasks, queue, Live, Proj
<1>2. ASSUME NEW gone, Remove(gone), UNCHANGED nextId PROVE ConcatIndex' /\ OldTasks
  <2>1. ConcatIndex' /\ Live' = Live \ gone /\ SameTasks(Live')
    BY <1>2, ConcatRemove
  <2> QED BY <1>2, <2>1 DEF OldTasks, SameTasks, Proj, ConcatIndex
<1>3. ASSUME NEW S, NEW status \in Status, SetStatus(S, status), UNCHANGED <<tasks, byProject, nextId>>
      PROVE  ConcatIndex' /\ OldTasks
  <2>1. ConcatIndex' /\ Live' = Live /\ \A t \in Live : byTask'[t].project = byTask[t].project
    BY <1>3, ConcatStatusSet
  <2> QED BY <1>3, <2>1 DEF OldTasks, Proj, ConcatIndex
<1>4. ASSUME NEW call \in enqueuing, Enqueue(call) PROVE ConcatIndex' /\ OldTasks
  <2>1. CallType(call)
    BY DEF ConcatTypes
  <2>2. /\ ConcatIndex' /\ nextId' >= nextId
        /\ \A t \in Live' : (t \in Live /\ byTask'[t] = byTask[t]) \/ t >= nextId
    BY <1>4, <2>1, ConcatEnqueue
  <2>3. \A t \in Live' : t \in Int /\ nextId \in Int
    BY <2>2, RangeFinite DEF ConcatIndex, Live
  <2> QED BY <2>2, <2>3 DEF OldTasks, Proj
<1>5. ASSUME NEW wanted \in Lists(Live), Reorder(wanted) PROVE ConcatIndex' /\ OldTasks
  <2>1. ConcatIndex' /\ Live' = Live /\ UNCHANGED <<byTask, nextId>>
    BY <1>5, ConcatReorder DEF Reorder
  <2> QED BY <2>1 DEF OldTasks, Proj, ConcatIndex
<1>6. ASSUME NEW T, NEW P, Pause(T, P) \/ Resume(T, P) PROVE ConcatIndex' /\ OldTasks
  <2>1. {"paused", "queued"} \subseteq Status
    BY DEF Status
  <2> QED BY <1>3, <1>6, <2>1 DEF Pause, Resume
<1>7. ASSUME NEW T, NEW P, Delete(T, P) PROVE ConcatIndex' /\ OldTasks
  BY <1>2, <1>7 DEF Delete
<1>8. ASSUME NEW t, NEW c, Claim(t, c) PROVE ConcatIndex' /\ OldTasks
  BY <1>3, <1>8 DEF Claim, Status
<1>9. ASSUME NEW r \in reports, DeliverReport(r) PROVE ConcatIndex' /\ OldTasks
  <2>1. CASE r.status = "done"
    BY <1>2, <1>9, <2>1 DEF DeliverReport
  <2>2. CASE r.status # "done"
    <3>1. r.status \in Status
      BY <2>2 DEF ConcatTypes, Report, Outcome, Status
    <3> QED BY <1>3, <1>9, <2>2, <3>1 DEF DeliverReport
  <2> QED BY <2>1, <2>2
<1>10. ASSUME ServerRestart PROVE ConcatIndex' /\ OldTasks
  <2>1. /\ tasks' = << >> /\ byTask' = << >> /\ byProject' = << >> /\ nextId' = nextId
    BY <1>10 DEF ServerRestart
  <2>2. /\ Live' = {} /\ IsInjective(tasks') /\ DOMAIN byTask' = {} /\ DOMAIN byProject' = {}
        /\ tasks' \in Seq(1 .. (nextId - 1))
    BY <2>1 DEF Live, Range, IsInjective
  <2> QED BY <2>1, <2>2 DEF ConcatIndex, OldTasks
<1>11. ASSUME \/ \E P : RequestConcat(P)
              \/ \E call, p : WriteQueued(call, p)
              \/ \E w : Commit(w)
              \/ \E c : \/ SendCommand(c) \/ StartConcat(c) \/ FinishConcat(c)
                       \/ FailConcat(c) \/ LoseCommand(c)
              \/ \E r : ReportTimesOut(r) \/ LoseReport(r)
              \/ HelperRestart
       PROVE  ConcatIndex' /\ OldTasks
  <2>1. UNCHANGED queue
    BY <1>11 DEF RequestConcat, WriteQueued, Commit, SendCommand, StartConcat, FinishConcat,
         FailConcat, LoseCommand, ReportTimesOut, LoseReport, HelperRestart
  <2> QED BY <1>1, <2>1
<1> QED
  BY <1>4, <1>5, <1>6, <1>7, <1>8, <1>9, <1>10, <1>11 DEF Next, Calls, Handlers, Helper, Faults

\* What names a task goes on naming it.
LEMMA NamesStay ==
  ASSUME ConcatIndex, ConcatIndex', OldTasks
  PROVE  \A x : Names(x) => Names(x)'
BY DEF ConcatIndex, OldTasks, Names, Proj

----------------------------------------------------------------------------
(* The writes that handlers await. *)

LEMMA AwaitAdds ==
  ASSUME IsABag(writes), NEW P, NEW value, Await(P, value)
  PROVE  /\ IsABag(writes')
         /\ \A w \in BagToSet(writes') :
              w \in BagToSet(writes) \/ (w.project \in P /\ w.value = value)
<1> DEFINE W == [project : P, value : {value}]
<1>1. /\ DOMAIN writes' = DOMAIN writes \cup W
      /\ \A w \in DOMAIN writes' :
            writes'[w] = (IF w \in DOMAIN writes THEN writes[w] ELSE 0) + (IF w \in W THEN 1 ELSE 0)
  BY DEF Await, SetToBag, (+)
<1>2. IsABag(writes')
  <2>1. \A w \in DOMAIN writes : writes[w] \in Nat \ {0}
    BY DEF IsABag
  <2>2. \A w \in DOMAIN writes' : writes'[w] \in Nat \ {0}
    BY <1>1, <2>1
  <2>3. writes' = [w \in DOMAIN writes' |-> writes'[w]]
    BY DEF Await, (+)
  <2> QED BY <2>2, <2>3 DEF IsABag
<1>3. \A w \in W : w.project \in P /\ w.value = value
  OBVIOUS
<1> QED BY <1>1, <1>2, <1>3 DEF BagToSet

LEMMA CommitTakes ==
  ASSUME IsABag(writes), NEW w, Commit(w)
  PROVE  IsABag(writes') /\ BagToSet(writes') \subseteq BagToSet(writes)
<1> DEFINE one == SetToBag({w})
           left == [e \in DOMAIN writes |-> IF e \in DOMAIN one THEN writes[e] - one[e] ELSE writes[e]]
<1>1. writes' = [e \in {d \in DOMAIN left : left[d] > 0} |-> left[e]]
  <2>1. writes' = writes (-) one
    BY DEF Commit
  <2> HIDE DEF one
  <2>2. writes (-) one = [e \in {d \in DOMAIN left : left[d] > 0} |-> left[e]]
    BY DEF (-)
  <2> QED BY <2>1, <2>2
<1>2. \A e \in DOMAIN left : left[e] \in Int
  <2>1. \A e \in DOMAIN one : one[e] = 1
    BY DEF SetToBag
  <2> HIDE DEF one
  <2> QED BY <2>1 DEF IsABag
<1> HIDE DEF left
<1>3. IsABag(writes')
  BY <1>1, <1>2 DEF IsABag
<1>4. DOMAIN writes' \subseteq DOMAIN writes
  BY <1>1 DEF left
<1> QED BY <1>3, <1>4 DEF BagToSet

LEMMA ConcatTypesStep ==
  ASSUME ConcatIndex, ConcatTypes, Next
  PROVE  ConcatTypes'
<1> DEFINE Calling == \A call \in enqueuing : CallType(call)
           Commands == /\ DOMAIN commands \subseteq Nat
                       /\ commands \in [DOMAIN commands -> [task : Nat, project : Project, phase : Phase]]
                       /\ \A c \in DOMAIN commands : Names(commands[c])
           Reports == reports \subseteq Report /\ \A r \in reports : Names(r)
           Rows == IsABag(writes) /\ DOMAIN concatStatus = Project /\ DOMAIN projectStatus = Project
<1>1. Calling /\ Commands /\ Reports /\ Rows /\ faults \in Nat
  BY DEF ConcatTypes
<1>2. \A x : Names(x) => Names(x)'
  BY ConcatIndexStep, NamesStay
<1>3. Calling'
  <2>1. ASSUME UNCHANGED enqueuing PROVE Calling'
    BY <1>1, <2>1 DEF CallType
  <2>2. ASSUME NEW P \in SUBSET Project, RequestConcat(P) PROVE Calling'
    <3> DEFINE new == [call |-> ops, todo |-> P, rows |-> << >>]
    <3>1. CallType(new)
      BY DEF CallType, IsInjective, Range
    <3>2. enqueuing' = enqueuing \cup {new}
      BY <2>2 DEF RequestConcat
    <3> HIDE DEF new
    <3> QED BY <1>1, <3>1, <3>2 DEF CallType
  <2>3. ASSUME NEW call \in enqueuing, NEW p \in call.todo, WriteQueued(call, p) PROVE Calling'
    <3> DEFINE new == [call EXCEPT !.todo = @ \ {p}, !.rows = Append(@, p)]
    <3>1. /\ call = [call |-> call.call, todo |-> call.todo, rows |-> call.rows]
          /\ call.todo \subseteq Project /\ call.rows \in Seq(Project) /\ IsInjective(call.rows)
          /\ Range(call.rows) \cap call.todo = {}
      BY <1>1 DEF CallType
    <3>2. new = [call |-> call.call, todo |-> call.todo \ {p}, rows |-> Append(call.rows, p)]
      <4> DEFINE left == call.todo \ {p}
                 more == Append(call.rows, p)
      <4>1. new = [[call EXCEPT !.todo = left] EXCEPT !.rows = more]
        BY <3>1
      <4> HIDE DEF left, more
      <4>2. [call EXCEPT !.todo = left] = [call |-> call.call, todo |-> left, rows |-> call.rows]
        BY <3>1
      <4> DEFINE rest == [call |-> call.call, todo |-> left, rows |-> call.rows]
      <4>3. [rest EXCEPT !.rows = more] = [call |-> call.call, todo |-> left, rows |-> more]
        OBVIOUS
      <4>4. new = [rest EXCEPT !.rows = more]
        BY <4>1, <4>2
      <4> HIDE DEF rest
      <4>5. new = [call |-> call.call, todo |-> left, rows |-> more]
        BY <4>3, <4>4
      <4> QED BY <4>5 DEF left, more
    <3> HIDE DEF new
    <3>3. /\ Append(call.rows, p) \in Seq(Project) /\ IsInjective(Append(call.rows, p))
          /\ Range(Append(call.rows, p)) = Range(call.rows) \cup {p}
      BY <3>1, AppendLists
    <3>4. CallType(new)
      BY <3>1, <3>2, <3>3 DEF CallType
    <3>5. enqueuing' = (enqueuing \ {call}) \cup {new}
      BY <2>3 DEF WriteQueued, new
    <3> QED BY <1>1, <3>4, <3>5 DEF CallType
  <2>4. ASSUME enqueuing' \subseteq enqueuing PROVE Calling'
    BY <1>1, <2>4 DEF CallType
  <2>5. ASSUME NEW call, Enqueue(call) PROVE Calling'
    BY <2>4, <2>5 DEF Enqueue
  <2>6. ASSUME ServerRestart PROVE Calling'
    BY <2>4, <2>6 DEF ServerRestart
  <2> HIDE DEF Calling
  <2>7. ASSUME \/ \E T, P : Pause(T, P) \/ Resume(T, P) \/ Delete(T, P)
               \/ \E wanted : Reorder(wanted)
               \/ \E w : Commit(w)
               \/ \E t, c : Claim(t, c)
               \/ \E c : \/ SendCommand(c) \/ StartConcat(c) \/ FinishConcat(c)
                        \/ FailConcat(c) \/ LoseCommand(c)
               \/ \E r : DeliverReport(r) \/ ReportTimesOut(r) \/ LoseReport(r)
               \/ HelperRestart
        PROVE  Calling'
    <3>1. UNCHANGED enqueuing
      BY <2>7 DEF Pause, Resume, Delete, Reorder, Commit, Claim, SendCommand, StartConcat,
           FinishConcat, FailConcat, LoseCommand, DeliverReport, ReportTimesOut, LoseReport,
           HelperRestart
    <3> QED BY <2>1, <3>1
  <2> QED
    BY <2>2, <2>3, <2>5, <2>6, <2>7 DEF Next, Calls, Handlers, Helper, Faults
<1>4. Commands'
  <2>1. ASSUME DOMAIN commands' \subseteq DOMAIN commands,
               commands' = [d \in DOMAIN commands' |-> commands'[d]],
               \A d \in DOMAIN commands' : /\ commands'[d].task = commands[d].task
                                          /\ commands'[d].project = commands[d].project
                                          /\ commands'[d] \in [task : Nat, project : Project, phase : Phase]
        PROVE  Commands'
    BY <1>1, <1>2, <2>1 DEF Names, Proj
  <2>2. \A d \in DOMAIN commands :
          commands[d] = [task |-> commands[d].task, project |-> commands[d].project,
                         phase |-> commands[d].phase]
    BY <1>1
  <2>3. ASSUME UNCHANGED commands PROVE Commands'
    BY <1>1, <1>2, <2>3 DEF Names, Proj
  <2>4. ASSUME NEW S, S \subseteq DOMAIN commands, commands' = Restrict(commands, S) PROVE Commands'
    BY <1>1, <2>1, <2>4 DEF Restrict
  <2>5. ASSUME NEW c \in DOMAIN commands, NEW phase \in Phase,
               commands' = [commands EXCEPT ![c].phase = phase]
        PROVE  Commands'
    <3>1. DOMAIN commands' = DOMAIN commands /\ commands' = [d \in DOMAIN commands |-> commands'[d]]
      BY <2>5
    <3>2. commands'[c] = [task |-> commands[c].task, project |-> commands[c].project, phase |-> phase]
      BY <2>2, <2>5
    <3>3. \A d \in DOMAIN commands \ {c} : commands'[d] = commands[d]
      BY <2>5
    <3> QED BY <1>1, <2>1, <3>1, <3>2, <3>3
  <2>6. ASSUME NEW t \in Live, NEW c \in Nat, Claim(t, c) PROVE Commands'
    <3> DEFINE new == [task |-> t, project |-> Proj(t), phase |-> "claimed"]
    <3>1. new \in [task : Nat, project : Project, phase : Phase] /\ t < nextId
      BY RangeFinite DEF ConcatIndex, Phase, Proj, Live
    <3>2. Names(new)
      BY <3>1 DEF Names
    <3>3. commands' = [d \in DOMAIN commands \cup {c} |-> IF d = c THEN new ELSE commands[d]]
      BY <2>6 DEF Claim
    <3> HIDE DEF new
    <3> QED BY <1>1, <1>2, <3>1, <3>2, <3>3 DEF Names, Proj
  <2> HIDE DEF Commands
  <2>7. ASSUME NEW c \in DOMAIN commands,
               FinishConcat(c) \/ FailConcat(c) \/ LoseCommand(c)
        PROVE  Commands'
    BY <2>4, <2>7 DEF FinishConcat, FailConcat, LoseCommand
  <2>8. ASSUME NEW c \in DOMAIN commands, SendCommand(c) \/ StartConcat(c) PROVE Commands'
    BY <2>5, <2>8 DEF SendCommand, StartConcat, Phase
  <2>9. ASSUME ServerRestart \/ HelperRestart PROVE Commands'
    BY <2>4, <2>9 DEF ServerRestart, HelperRestart, Without
  <2>10. ASSUME \/ \E P : RequestConcat(P)
                \/ \E T, P : Pause(T, P) \/ Resume(T, P) \/ Delete(T, P)
                \/ \E wanted : Reorder(wanted)
                \/ \E call : Enqueue(call) \/ \E p : WriteQueued(call, p)
                \/ \E w : Commit(w)
                \/ \E r : DeliverReport(r) \/ ReportTimesOut(r) \/ LoseReport(r)
         PROVE  Commands'
    <3>1. UNCHANGED commands
      BY <2>10 DEF RequestConcat, Pause, Resume, Delete, Reorder, Enqueue, WriteQueued, Commit,
           DeliverReport, ReportTimesOut, LoseReport
    <3> QED BY <2>3, <3>1
  <2>11. 1 .. MaxCommands \subseteq Nat
    OBVIOUS
  <2> QED
    BY <2>6, <2>7, <2>8, <2>9, <2>10, <2>11 DEF Next, Calls, Handlers, Helper, Faults
<1>5. Reports'
  <2>1. ASSUME \A r \in reports' : r \in Report /\ Names(r) PROVE Reports'
    BY <1>2, <2>1 DEF Names, Proj, Report
  <2>2. ASSUME NEW c \in DOMAIN commands, NEW outcome \in Outcome, Say(c, outcome) PROVE Reports'
    <3> DEFINE new == [command |-> c, task |-> commands[c].task, project |-> commands[c].project,
                       status |-> outcome, late |-> FALSE]
    <3>1. new \in Report /\ Names(new)
      BY <1>1 DEF Report, Names
    <3>2. reports' = reports \cup {new}
      BY <2>2 DEF Say
    <3> HIDE DEF new
    <3> QED BY <1>1, <2>1, <3>1, <3>2
  <2>3. ASSUME NEW r \in reports, ReportTimesOut(r) PROVE Reports'
    <3> DEFINE new == [r EXCEPT !.late = TRUE]
    <3>1. new \in Report /\ new.task = r.task /\ new.project = r.project
      BY <1>1 DEF Report
    <3>2. reports' = (reports \ {r}) \cup {new}
      BY <2>3 DEF ReportTimesOut
    <3> HIDE DEF new
    <3>3. Names(new)
      BY <1>1, <3>1 DEF Names
    <3> QED BY <1>1, <2>1, <3>1, <3>2, <3>3
  <2>4. ASSUME reports' \subseteq reports PROVE Reports'
    BY <1>1, <2>1, <2>4
  <2> HIDE DEF Reports
  <2>5. ASSUME NEW r, DeliverReport(r) \/ LoseReport(r) PROVE Reports'
    BY <2>4, <2>5 DEF DeliverReport, LoseReport
  <2>6. ASSUME NEW c \in DOMAIN commands, StartConcat(c) \/ FinishConcat(c) \/ FailConcat(c)
        PROVE  Reports'
    BY <2>2, <2>6 DEF StartConcat, FinishConcat, FailConcat, Outcome
  <2>7. ASSUME \/ \E P : RequestConcat(P)
               \/ \E T, P : Pause(T, P) \/ Resume(T, P) \/ Delete(T, P)
               \/ \E wanted : Reorder(wanted)
               \/ \E call : Enqueue(call) \/ \E p : WriteQueued(call, p)
               \/ \E w : Commit(w)
               \/ \E t, c : Claim(t, c)
               \/ \E c : SendCommand(c) \/ LoseCommand(c)
               \/ ServerRestart \/ HelperRestart
        PROVE  Reports'
    <3>1. UNCHANGED reports
      BY <2>7 DEF RequestConcat, Pause, Resume, Delete, Reorder, Enqueue, WriteQueued, Commit,
           Claim, SendCommand, LoseCommand, ServerRestart, HelperRestart
    <3> QED BY <2>4, <3>1
  <2> QED
    BY <2>3, <2>5, <2>6, <2>7 DEF Next, Calls, Handlers, Helper, Faults
<1>6. Rows'
  <2>1. ASSUME NEW P, NEW value, Await(P, value), UNCHANGED <<concatStatus, projectStatus>> PROVE Rows'
    BY <1>1, <2>1, AwaitAdds
  <2>2. ASSUME NEW w, Commit(w) PROVE Rows'
    <3>1. IsABag(writes')
      BY <1>1, <2>2, CommitTakes
    <3>2. DOMAIN concatStatus' = Project /\ DOMAIN projectStatus' = Project
      BY <1>1, <2>2 DEF Commit
    <3> QED BY <3>1, <3>2
  <2>3. ASSUME DOMAIN concatStatus' = DOMAIN concatStatus, UNCHANGED <<projectStatus, writes>> PROVE Rows'
    BY <1>1, <2>3
  <2>4. ASSUME ServerRestart PROVE Rows'
    <3>1. IsABag(writes')
      BY <2>4 DEF ServerRestart, EmptyBag, SetToBag, IsABag
    <3> QED BY <1>1, <2>4, <3>1 DEF ServerRestart
  <2> HIDE DEF Rows
  <2>5. ASSUME NEW T, NEW P, Pause(T, P) \/ Resume(T, P) \/ Delete(T, P) PROVE Rows'
    BY <2>1, <2>5 DEF Pause, Resume, Delete
  <2>6. ASSUME NEW r, DeliverReport(r) PROVE Rows'
    BY <2>1, <2>6 DEF DeliverReport
  <2>7. ASSUME \/ \E P : RequestConcat(P)
               \/ \E wanted : Reorder(wanted)
               \/ \E call : Enqueue(call) \/ \E p : WriteQueued(call, p)
               \/ \E t, c : Claim(t, c)
               \/ \E c : \/ SendCommand(c) \/ StartConcat(c) \/ FinishConcat(c)
                        \/ FailConcat(c) \/ LoseCommand(c)
               \/ \E r : ReportTimesOut(r) \/ LoseReport(r)
               \/ HelperRestart
        PROVE  Rows'
    <3>1. DOMAIN concatStatus' = DOMAIN concatStatus /\ UNCHANGED <<projectStatus, writes>>
      BY <2>7 DEF RequestConcat, Reorder, Enqueue, WriteQueued, Claim, SendCommand, StartConcat,
           FinishConcat, FailConcat, LoseCommand, ReportTimesOut, LoseReport, HelperRestart
    <3> QED BY <2>3, <3>1
  <2> QED
    BY <2>2, <2>4, <2>5, <2>6, <2>7 DEF Next, Calls, Handlers, Helper, Faults
<1>7. faults' \in Nat
  <2>1. faults' = faults \/ faults' = faults + 1
    BY DEF Next, Calls, Handlers, Helper, Faults, Fault, RequestConcat, Pause, Resume,
       Delete, Reorder,
       Enqueue, WriteQueued, Commit, DeliverReport, Claim, SendCommand, StartConcat, FinishConcat,
       FailConcat, ReportTimesOut, LoseReport, LoseCommand, ServerRestart, HelperRestart
  <2> QED BY <1>1, <2>1
<1> QED
  BY <1>3, <1>4, <1>5, <1>6, <1>7 DEF ConcatTypes

----------------------------------------------------------------------------
(* One concatenation at a time. *)

\* What keeps OneKept: no command and no last report is added to those of the projects left
\* alone, and their task runs on.
LEMMA KeptStays ==
  ASSUME ConcatTypes, OneKept, OldTasks, interrupted \subseteq interrupted',
         \A c \in DOMAIN commands' : /\ c \in DOMAIN commands
                                     /\ commands'[c].task = commands[c].task
                                     /\ commands'[c].project = commands[c].project,
         \A r \in reports' : r \in reports \/ r.status = "running" \/ r.project \in interrupted',
         \A t \in HasStatus({"running"}) :
           t \in HasStatus({"running"})' \/ Proj(t) \in interrupted'
  PROVE  OneKept'
<1>1. \A c \in Kept' : c \in Kept /\ commands'[c].task = commands[c].task
  BY DEF Kept
<1>2. \A r \in LastKept' : r \in LastKept
  BY DEF LastKept
<1>3. \A t \in HasStatus({"running"}) : t \in Live
  BY DEF HasStatus
<1>4. \A c \in Kept' : commands'[c].task \in HasStatus({"running"})'
  <2> SUFFICES ASSUME NEW c \in Kept' PROVE commands[c].task \in HasStatus({"running"})'
    BY <1>1
  <2>1. c \in Kept /\ commands[c].task \in HasStatus({"running"}) /\ c \in DOMAIN commands
    BY <1>1 DEF OneKept, Kept
  <2>2. Proj(commands[c].task) = commands[c].project
    BY <1>3, <2>1 DEF ConcatTypes, Names
  <2>3. commands[c].project \notin interrupted'
    BY <2>1 DEF Kept
  <2> QED BY <2>1, <2>2, <2>3
<1>5. \A r \in LastKept' : r.task \in HasStatus({"running"})'
  <2> SUFFICES ASSUME NEW r \in LastKept' PROVE r.task \in HasStatus({"running"})'
    OBVIOUS
  <2>1. r \in LastKept /\ r.task \in HasStatus({"running"}) /\ r \in reports
    BY <1>2 DEF OneKept, LastKept
  <2>2. Proj(r.task) = r.project
    BY <1>3, <2>1 DEF ConcatTypes, Names
  <2>3. r.project \notin interrupted'
    BY DEF LastKept
  <2> QED BY <2>1, <2>2, <2>3
<1> QED BY <1>1, <1>2, <1>4, <1>5 DEF OneKept

\* A report is about tasks of its own project: the one it names, or the one by its project.
LEMMA ReportedIsOfProject ==
  ASSUME ConcatIndex, ConcatTypes, NEW r \in reports
  PROVE  \A t \in ReportedTasks(r) : t \in Live /\ Proj(t) = r.project
<1>1. r.task \in Live => Proj(r.task) = r.project
  BY DEF ConcatTypes, Names
<1> QED BY <1>1 DEF ReportedTasks, ConcatIndex

LEMMA OneKeptStep ==
  ASSUME ConcatIndex, ConcatTypes, OneKept, Next
  PROVE  OneKept'
<1> DEFINE Running == HasStatus({"running"})
           SameCommands == \A c \in DOMAIN commands' : /\ c \in DOMAIN commands
                                                        /\ commands'[c].task = commands[c].task
                                                        /\ commands'[c].project = commands[c].project
           RunOn == \A t \in Running : t \in Running' \/ Proj(t) \in interrupted'
<1>1. ConcatIndex' /\ OldTasks
  BY ConcatIndexStep
<1>2. ASSUME SameCommands, reports' \subseteq reports, interrupted \subseteq interrupted', RunOn
      PROVE  OneKept'
  BY <1>1, <1>2, KeptStays
<1>3. ASSUME UNCHANGED queue PROVE RunOn
  BY <1>3 DEF queue, HasStatus, Live
<1>4. ASSUME NEW call \in enqueuing, Enqueue(call) PROVE OneKept'
  <2>1. CallType(call)
    BY DEF ConcatTypes
  <2>2. /\ HasStatus({"running"}) \subseteq Live'
        /\ \A t \in Live' : (t \in Live /\ byTask'[t] = byTask[t]) \/ t >= nextId
    BY <1>4, <2>1, ConcatEnqueue
  <2>3. \A t \in Running : ~ (t >= nextId)
    BY RangeFinite DEF ConcatIndex, Live, HasStatus
  <2>4. RunOn
    BY <2>2, <2>3 DEF HasStatus
  <2> HIDE DEF RunOn
  <2> QED BY <1>2, <1>4, <2>4 DEF Enqueue
<1>5. ASSUME NEW wanted \in Lists(Live), Reorder(wanted) PROVE OneKept'
  <2>1. Live' = Live /\ UNCHANGED byTask
    BY <1>5, ConcatReorder DEF Reorder
  <2>2. RunOn
    BY <2>1 DEF HasStatus
  <2> HIDE DEF RunOn
  <2> QED BY <1>2, <1>5, <2>2 DEF Reorder
<1>6. ASSUME NEW T, NEW P, Pause(T, P) PROVE OneKept'
  <2> DEFINE S == Targets(T, P) \cap HasStatus({"queued", "running"})
  <2>1. /\ SetStatus(S, "paused") /\ UNCHANGED <<tasks, byProject, nextId>>
        /\ interrupted' = interrupted \cup {Proj(t) : t \in S \cap HasStatus({"running"})}
    BY <1>6 DEF Pause
  <2>2. Live' = Live /\ \A t \in Live : t \in S \/ byTask'[t].status = byTask[t].status
    BY <2>1, ConcatStatusSet DEF Status
  <2>3. RunOn
    BY <2>1, <2>2 DEF HasStatus
  <2> HIDE DEF RunOn
  <2> QED BY <1>2, <1>6, <2>3 DEF Pause
<1>7. ASSUME NEW T, NEW P, Resume(T, P) PROVE OneKept'
  <2> DEFINE S == Targets(T, P) \cap HasStatus({"paused", "failed"})
  <2>1. SetStatus(S, "queued") /\ UNCHANGED <<tasks, byProject, nextId, interrupted>>
    BY <1>7 DEF Resume
  <2>2. Live' = Live /\ \A t \in Live : t \in S \/ byTask'[t].status = byTask[t].status
    BY <2>1, ConcatStatusSet DEF Status
  <2>3. RunOn
    BY <2>2 DEF HasStatus
  <2> HIDE DEF RunOn
  <2> QED BY <1>2, <1>7, <2>3 DEF Resume
<1>8. ASSUME NEW T, NEW P, Delete(T, P) PROVE OneKept'
  <2>1. /\ Remove(Targets(T, P)) /\ UNCHANGED nextId
        /\ interrupted' = interrupted \cup {Proj(t) : t \in Targets(T, P) \cap HasStatus({"running"})}
    BY <1>8 DEF Delete
  <2>2. Live' = Live \ Targets(T, P) /\ \A t \in Live' : byTask'[t] = byTask[t]
    BY <2>1, ConcatRemove DEF SameTasks
  <2>3. RunOn
    BY <2>1, <2>2 DEF HasStatus
  <2> HIDE DEF RunOn
  <2> QED BY <1>2, <1>8, <2>3 DEF Delete
<1>9. ASSUME NEW t, NEW c, Claim(t, c) PROVE OneKept'
  <2>1. /\ Running = {} /\ UNCHANGED <<tasks, byProject, nextId, reports, interrupted>> /\ SetStatus({t}, "running")
        /\ t \in Live
        /\ commands' = [d \in DOMAIN commands \cup {c} |->
                          IF d = c THEN [task |-> t, project |-> Proj(t), phase |-> "claimed"]
                          ELSE commands[d]]
    BY <1>9 DEF Claim, SlotFree, HasStatus
  <2>2. Kept = {} /\ LastKept = {}
    BY <2>1 DEF OneKept
  <2>3. t \in HasStatus({"running"})'
    BY <2>1, ConcatStatusSet DEF Status, HasStatus
  <2>4. LastKept' = {}
    BY <2>1, <2>2 DEF LastKept
  <2>5. \A d \in Kept' : d = c
    BY <2>1, <2>2 DEF Kept
  <2>6. commands'[c].task = t
    BY <2>1
  <2> QED BY <2>3, <2>4, <2>5, <2>6 DEF OneKept
<1>10. ASSUME NEW c \in DOMAIN commands, FinishConcat(c) \/ FailConcat(c) PROVE OneKept'
  <2> DEFINE new(outcome) == [command |-> c, task |-> commands[c].task, project |-> commands[c].project,
                              status |-> outcome, late |-> FALSE]
  <2>1. PICK outcome \in {"done", "failed"} : reports' = reports \cup {new(outcome)}
    BY <1>10 DEF FinishConcat, FailConcat, Say
  <2>2. /\ commands' = Restrict(commands, DOMAIN commands \ {c}) /\ UNCHANGED <<queue, interrupted>>
    BY <1>10 DEF FinishConcat, FailConcat
  <2>3. SameCommands
    BY <2>2 DEF Restrict
  <2>4. RunOn
    BY <1>3, <2>2
  <2>5. new(outcome).project = commands[c].project /\ new(outcome).task = commands[c].task
    OBVIOUS
  <2> DEFINE r == new(outcome)
  <2> HIDE DEF new, SameCommands, RunOn
  <2>6. CASE commands[c].project \in interrupted
    <3>1. \A s \in reports' : s \in reports \/ s.project \in interrupted'
      BY <2>1, <2>2, <2>5, <2>6
    <3> QED BY <1>1, <2>2, <2>3, <2>4, <3>1, KeptStays DEF SameCommands, RunOn
  <2>7. CASE commands[c].project \notin interrupted
    <3>1. c \in Kept /\ Kept = {c} /\ LastKept = {}
      BY <2>7 DEF OneKept, Kept
    <3>2. Kept' = {}
      BY <2>2, <3>1 DEF Kept, Restrict
    <3>3. LastKept' \subseteq {r}
      BY <2>1, <2>2, <3>1 DEF LastKept
    <3>4. r.task \in HasStatus({"running"})'
      BY <2>2, <2>5, <3>1 DEF OneKept, HasStatus, Live, queue
    <3> HIDE DEF r
    <3> QED BY <3>2, <3>3, <3>4 DEF OneKept
  <2> QED BY <2>6, <2>7
<1>11. ASSUME NEW c \in DOMAIN commands, StartConcat(c) PROVE OneKept'
  <2>1. SameCommands
    BY <1>11 DEF StartConcat, ConcatTypes
  <2>2. UNCHANGED <<queue, interrupted>> /\ \A r \in reports' : r \in reports \/ r.status = "running"
    BY <1>11 DEF StartConcat, Say
  <2>3. RunOn
    BY <1>3, <2>2
  <2> HIDE DEF SameCommands, RunOn
  <2> QED BY <1>1, <2>1, <2>2, <2>3, KeptStays DEF SameCommands, RunOn
<1>12. ASSUME NEW c \in DOMAIN commands, SendCommand(c) PROVE OneKept'
  <2>1. SameCommands
    BY <1>12 DEF SendCommand, ConcatTypes
  <2> HIDE DEF SameCommands, RunOn
  <2> QED BY <1>2, <1>3, <1>12, <2>1 DEF SendCommand
<1>13. ASSUME NEW r \in reports, DeliverReport(r) PROVE OneKept'
  <2> DEFINE B == ReportedTasks(r)
  <2>1. UNCHANGED <<nextId, commands, interrupted>> /\ reports' = reports \ {r}
    BY <1>13 DEF DeliverReport
  <2>2. \A t \in B : t \in Live /\ Proj(t) = r.project
    BY ReportedIsOfProject
  <2>3. \A t \in Running : t \in B \/ t \in Running'
    <3>1. CASE r.status = "done"
      <4>1. Live' = Live \ B /\ \A t \in Live' : byTask'[t] = byTask[t]
        BY <1>13, <2>1, <3>1, ConcatRemove DEF DeliverReport, SameTasks
      <4> QED BY <4>1 DEF HasStatus
    <3>2. CASE r.status # "done"
      <4>1. r.status \in Status
        BY <3>2 DEF ConcatTypes, Report, Outcome, Status
      <4>2. Live' = Live /\ \A t \in Live : t \in B \/ byTask'[t].status = byTask[t].status
        BY <1>13, <2>1, <3>2, <4>1, ConcatStatusSet DEF DeliverReport
      <4> QED BY <4>2 DEF HasStatus
    <3> QED BY <3>1, <3>2
  <2>4. CASE r.status = "running"
    <3>1. Live' = Live /\ \A t \in Live : byTask'[t].status = IF t \in B THEN "running" ELSE byTask[t].status
      BY <1>13, <2>1, <2>4, ConcatStatusSet DEF DeliverReport, Status
    <3>2. RunOn
      BY <3>1 DEF HasStatus
    <3> HIDE DEF RunOn
    <3> QED BY <1>2, <2>1, <3>2
  <2>5. CASE r.project \in interrupted
    <3>1. RunOn
      BY <2>1, <2>2, <2>3, <2>5
    <3> HIDE DEF RunOn
    <3> QED BY <1>2, <2>1, <3>1
  <2>6. CASE r.status # "running" /\ r.project \notin interrupted
    <3>1. r \in LastKept
      BY <2>6 DEF LastKept
    <3>2. Kept = {} /\ LastKept = {r}
      BY <3>1 DEF OneKept
    <3>3. Kept' = {} /\ LastKept' = {}
      BY <2>1, <3>2 DEF Kept, LastKept
    <3> QED BY <3>3 DEF OneKept
  <2> QED BY <2>4, <2>5, <2>6
<1>14. ASSUME NEW r \in reports, ReportTimesOut(r) PROVE OneKept'
  <2> DEFINE new == [r EXCEPT !.late = TRUE]
  <2>1. UNCHANGED <<queue, commands, interrupted>> /\ reports' = (reports \ {r}) \cup {new}
    BY <1>14 DEF ReportTimesOut
  <2>2. new.status = r.status /\ new.project = r.project /\ new.task = r.task
    BY DEF ConcatTypes, Report
  <2> HIDE DEF new
  <2>3. CASE r.status = "running" \/ r.project \in interrupted
    <3>1. \A s \in reports' : s \in reports \/ s.status = "running" \/ s.project \in interrupted'
      BY <2>1, <2>2, <2>3
    <3>2. SameCommands /\ RunOn
      BY <1>3, <2>1
    <3> HIDE DEF SameCommands, RunOn
    <3> QED BY <1>1, <2>1, <3>1, <3>2, KeptStays DEF SameCommands, RunOn
  <2>4. CASE r.status # "running" /\ r.project \notin interrupted
    <3>1. r \in LastKept
      BY <2>4 DEF LastKept
    <3>2. Kept = {} /\ LastKept = {r} /\ r.task \in HasStatus({"running"})
      BY <3>1 DEF OneKept
    <3>3. Kept' = {} /\ LastKept' \subseteq {new}
      BY <2>1, <3>2 DEF Kept, LastKept
    <3>4. new.task \in HasStatus({"running"})'
      BY <2>1, <2>2, <3>2 DEF HasStatus, Live, queue
    <3> QED BY <3>3, <3>4 DEF OneKept
  <2> QED BY <2>3, <2>4
<1>15. ASSUME ServerRestart PROVE OneKept'
  <2>1. SameCommands
    BY <1>15 DEF ServerRestart, Without, Restrict
  <2>2. interrupted' = interrupted \cup {Proj(t) : t \in Running} /\ UNCHANGED reports
    BY <1>15 DEF ServerRestart
  <2>3. RunOn
    BY <2>2
  <2> HIDE DEF SameCommands, RunOn
  <2> QED BY <1>2, <2>1, <2>2, <2>3
<1>16. ASSUME NEW c, LoseCommand(c) \/ HelperRestart PROVE OneKept'
  <2>1. SameCommands
    BY <1>16 DEF LoseCommand, HelperRestart, Without, Restrict
  <2> HIDE DEF SameCommands, RunOn
  <2> QED BY <1>2, <1>3, <1>16, <2>1 DEF LoseCommand, HelperRestart
<1>17. ASSUME \/ \E P : RequestConcat(P)
              \/ \E call, p : WriteQueued(call, p)
              \/ \E w : Commit(w)
              \/ \E r : LoseReport(r)
       PROVE  OneKept'
  <2>1. UNCHANGED <<queue, commands, interrupted>> /\ reports' \subseteq reports
    BY <1>17 DEF RequestConcat, WriteQueued, Commit, LoseReport
  <2> QED BY <1>2, <1>3, <2>1
<1> QED
  BY <1>4, <1>5, <1>6, <1>7, <1>8, <1>9, <1>10, <1>11, <1>12, <1>13, <1>14, <1>15, <1>16, <1>17
     DEF Next, Calls, Handlers, Helper, Faults

----------------------------------------------------------------------------
(* What is said to be concatenated has its file. *)

LEMMA FilesStep ==
  ASSUME ConcatTypes, SaidHasFile, ConcatenatedHasFile, Next
  PROVE  SaidHasFile' /\ ConcatenatedHasFile'
<1> DEFINE Writes == \A w \in BagToSet(writes) : w.value = "concatenated" => w.project \in final
           Reports == \A r \in reports : r.status = "done" => r.project \in final
<1>1. Writes /\ Reports
  BY DEF SaidHasFile
<1>2. ASSUME Writes', Reports', ConcatenatedHasFile' PROVE SaidHasFile' /\ ConcatenatedHasFile'
  BY <1>2 DEF SaidHasFile
<1>3. ASSUME NEW p, concatStatus' = [concatStatus EXCEPT ![p] = "queued"]
                    \/ concatStatus' = [concatStatus EXCEPT ![p] = "concatenating"],
             UNCHANGED <<projectStatus, final>>
      PROVE  ConcatenatedHasFile'
  BY <1>3 DEF ConcatenatedHasFile, ConcatTypes
<1>4. ASSUME UNCHANGED <<concatStatus, projectStatus>>, final \subseteq final' PROVE ConcatenatedHasFile'
  BY <1>4 DEF ConcatenatedHasFile
<1>5. ASSUME NEW P, NEW value, Await(P, value), value = "concatenated" => P \subseteq final,
             UNCHANGED final
      PROVE  Writes'
  <2>1. \A w \in BagToSet(writes') : w \in BagToSet(writes) \/ (w.project \in P /\ w.value = value)
    BY <1>5, AwaitAdds DEF ConcatTypes
  <2> QED BY <1>1, <1>5, <2>1
<1>6. ASSUME UNCHANGED writes, final \subseteq final' PROVE Writes'
  BY <1>1, <1>6
<1>7. ASSUME reports' \subseteq reports, UNCHANGED final PROVE Reports'
  BY <1>1, <1>7
<1>8. ASSUME NEW T, NEW P, Pause(T, P) \/ Resume(T, P) \/ Delete(T, P) PROVE SaidHasFile' /\ ConcatenatedHasFile'
  <2>1. UNCHANGED <<concatStatus, projectStatus, reports, final>>
    BY <1>8 DEF Pause, Resume, Delete, mac
  <2>2. \E Q : Await(Q, "queued") \/ Await(Q, "none")
    BY <1>8 DEF Pause, Resume, Delete
  <2>3. Writes'
    BY <1>5, <2>1, <2>2
  <2> HIDE DEF Writes, Reports
  <2> QED BY <1>2, <1>4, <1>7, <2>1, <2>3
<1>9. ASSUME NEW r \in reports, DeliverReport(r) PROVE SaidHasFile' /\ ConcatenatedHasFile'
  <2>1. /\ Await({r.project}, ValueOf(r.status)) /\ reports' = reports \ {r}
        /\ UNCHANGED <<concatStatus, projectStatus, final>>
    BY <1>9 DEF DeliverReport, mac
  <2>2. ValueOf(r.status) = "concatenated" => r.status = "done"
    BY DEF ValueOf, ConcatTypes, Report, Outcome
  <2>3. Writes'
    BY <1>1, <1>5, <2>1, <2>2
  <2> HIDE DEF Writes, Reports
  <2> QED BY <1>2, <1>4, <1>7, <2>1, <2>3
<1>10. ASSUME NEW w \in BagToSet(writes), Commit(w) PROVE SaidHasFile' /\ ConcatenatedHasFile'
  <2>1. /\ concatStatus' = [concatStatus EXCEPT ![w.project] = w.value]
        /\ projectStatus' = IF w.value = "concatenated"
                            THEN [projectStatus EXCEPT ![w.project] = "concatenated"]
                            ELSE projectStatus
        /\ UNCHANGED <<reports, final>>
    BY <1>10 DEF Commit, mac
  <2>2. Writes'
    BY <1>1, <1>10, <2>1, CommitTakes DEF ConcatTypes
  <2>3. ConcatenatedHasFile'
    BY <1>1, <2>1 DEF ConcatenatedHasFile, ConcatTypes
  <2> HIDE DEF Writes, Reports
  <2> QED BY <1>2, <1>7, <2>1, <2>2, <2>3
<1>11. ASSUME NEW c \in DOMAIN commands, NEW outcome, Say(c, outcome), final \subseteq final',
              outcome = "done" => commands[c].project \in final',
              UNCHANGED <<concatStatus, projectStatus, writes>>
       PROVE  SaidHasFile' /\ ConcatenatedHasFile'
  <2>1. Reports'
    BY <1>1, <1>11 DEF Say
  <2> HIDE DEF Writes, Reports
  <2> QED BY <1>2, <1>4, <1>6, <1>11, <2>1
<1>12. ASSUME NEW c \in DOMAIN commands, StartConcat(c) \/ FinishConcat(c) \/ FailConcat(c)
       PROVE  SaidHasFile' /\ ConcatenatedHasFile'
  BY <1>11, <1>12 DEF StartConcat, FinishConcat, FailConcat, mac
<1>13. ASSUME NEW r \in reports, ReportTimesOut(r) PROVE SaidHasFile' /\ ConcatenatedHasFile'
  <2> DEFINE new == [r EXCEPT !.late = TRUE]
  <2>1. /\ reports' = (reports \ {r}) \cup {new}
        /\ UNCHANGED <<concatStatus, projectStatus, writes, final>>
    BY <1>13 DEF ReportTimesOut, mac
  <2>2. new.status = r.status /\ new.project = r.project
    BY DEF ConcatTypes, Report
  <2> HIDE DEF new
  <2>3. Reports'
    BY <1>1, <2>1, <2>2
  <2> HIDE DEF Writes, Reports
  <2> QED BY <1>2, <1>4, <1>6, <2>1, <2>3
<1>14. ASSUME ServerRestart PROVE SaidHasFile' /\ ConcatenatedHasFile'
  <2>1. writes' = EmptyBag /\ UNCHANGED <<concatStatus, projectStatus, reports, final>>
    BY <1>14 DEF ServerRestart, mac
  <2>2. Writes'
    BY <2>1 DEF EmptyBag, SetToBag, BagToSet
  <2> HIDE DEF Writes, Reports
  <2> QED BY <1>2, <1>4, <1>7, <2>1, <2>2
<1>15. ASSUME NEW call, NEW p, WriteQueued(call, p) PROVE SaidHasFile' /\ ConcatenatedHasFile'
  <2> HIDE DEF Writes, Reports
  <2> QED BY <1>2, <1>3, <1>6, <1>7, <1>15 DEF WriteQueued, mac
<1>16. ASSUME NEW c, SendCommand(c) PROVE SaidHasFile' /\ ConcatenatedHasFile'
  <2> HIDE DEF Writes, Reports
  <2> QED BY <1>2, <1>3, <1>6, <1>7, <1>16 DEF SendCommand, mac
<1>17. ASSUME \/ \E P : RequestConcat(P)
              \/ \E wanted : Reorder(wanted)
              \/ \E call : Enqueue(call)
              \/ \E t, c : Claim(t, c)
              \/ \E c : LoseCommand(c)
              \/ \E r : LoseReport(r)
              \/ HelperRestart
       PROVE  SaidHasFile' /\ ConcatenatedHasFile'
  <2>1. UNCHANGED <<concatStatus, projectStatus, writes, final>> /\ reports' \subseteq reports
    BY <1>17 DEF RequestConcat, Reorder, Enqueue, Claim, LoseCommand, LoseReport,
       HelperRestart, mac
  <2> HIDE DEF Writes, Reports
  <2> QED BY <1>2, <1>4, <1>6, <1>7, <2>1
<1> QED
  BY <1>8, <1>9, <1>10, <1>12, <1>13, <1>14, <1>15, <1>16, <1>17
     DEF Next, Calls, Handlers, Helper, Faults

----------------------------------------------------------------------------
(* While nothing was lost, the task that holds the slot is served. *)

\* A command is under way for a project, or a report that will end its task.
Served(p) ==
  \/ \E c \in DOMAIN commands : commands[c].project = p
  \/ \E r \in reports : r.project = p /\ r.status # "running"

\* A report is not late, and the thread that says that it began waits for the answer.
Timely(r) ==
  /\ ~ r.late
  /\ r.status = "running" => r.command \in DOMAIN commands /\ commands[r.command].project = r.project

LEMMA ServedStep ==
  ASSUME ConcatIndex, ConcatTypes, InTime, RunningIsServed, Next
  PROVE  InTime' /\ RunningIsServed'
<1> DEFINE Running == HasStatus({"running"})
           Goal == /\ \A r \in reports' : Timely(r)'
                   /\ \A t \in Running' : \A p : byTask'[t].project = p => Served(p)'
           OldRunning == \A t \in Running' : t \in Running /\ byTask'[t].project = Proj(t)
           CommandsOn == \A c \in DOMAIN commands :
                           c \in DOMAIN commands' /\ commands'[c].project = commands[c].project
           ServedOn == \A p : Served(p) => Served(p)'
<1>1. SUFFICES ASSUME faults' = 0 PROVE Goal
  BY DEF InTime, RunningIsServed, Timely, Served, Proj
<1>2. ~ Faults
  <2>1. Faults => faults' = faults + 1
    BY DEF Faults, Fault, ReportTimesOut, LoseReport, LoseCommand, ServerRestart, HelperRestart
  <2> QED BY <1>1, <2>1 DEF ConcatTypes
<1>3. faults = 0
  BY <1>1, <1>2 DEF Next, Calls, Handlers, Helper, RequestConcat, Pause, Resume, Delete,
     Reorder,
     Enqueue, WriteQueued, Commit, DeliverReport, Claim, SendCommand, StartConcat, FinishConcat,
     FailConcat
<1>4. /\ \A r \in reports : Timely(r)
      /\ \A t \in Running : Served(Proj(t))
  BY <1>3 DEF InTime, RunningIsServed, Timely, Served
<1>5. ASSUME CommandsOn, reports' = reports, OldRunning PROVE Goal
  <2>1. \A r \in reports' : Timely(r)'
    BY <1>4, <1>5 DEF Timely
  <2>2. ServedOn
    BY <1>5 DEF Served
  <2> QED BY <1>4, <1>5, <2>1, <2>2
<1>6. ASSUME UNCHANGED queue PROVE OldRunning
  BY <1>6 DEF queue, HasStatus, Live, Proj
<1>7. ASSUME NEW call \in enqueuing, Enqueue(call) PROVE Goal
  <2>1. CallType(call)
    BY DEF ConcatTypes
  <2>2. \A t \in Live' : \/ t \in Live /\ byTask'[t] = byTask[t]
                        \/ byTask'[t].status = "queued"
    BY <1>7, <2>1, ConcatEnqueue
  <2>3. OldRunning
    BY <2>2 DEF HasStatus, Proj
  <2>4. CommandsOn /\ reports' = reports
    BY <1>7 DEF Enqueue
  <2> HIDE DEF OldRunning, CommandsOn, Goal
  <2> QED BY <1>5, <2>3, <2>4
<1>8. ASSUME NEW wanted \in Lists(Live), Reorder(wanted) PROVE Goal
  <2>1. Live' = Live /\ UNCHANGED <<byTask, commands, reports>>
    BY <1>8, ConcatReorder DEF Reorder
  <2>2. OldRunning /\ CommandsOn
    BY <2>1 DEF HasStatus, Proj
  <2> HIDE DEF OldRunning, CommandsOn, Goal
  <2> QED BY <1>5, <2>1, <2>2
<1>9. ASSUME NEW T, NEW P, Pause(T, P) \/ Resume(T, P) PROVE Goal
  <2>1. /\ UNCHANGED <<tasks, byProject, nextId, commands, reports>>
        /\ \E S : SetStatus(S, "paused") \/ SetStatus(S, "queued")
    BY <1>9 DEF Pause, Resume
  <2>2. ASSUME NEW S, NEW status \in {"paused", "queued"}, SetStatus(S, status)
        PROVE  OldRunning
    <3>1. Live' = Live
      BY <2>1, <2>2, ConcatStatusSet DEF Status
    <3>2. \A t \in Live : /\ byTask'[t].project = byTask[t].project
                         /\ byTask'[t].status = IF t \in S THEN status ELSE byTask[t].status
      BY <2>1, <2>2, ConcatStatusSet DEF Status
    <3> QED BY <2>2, <3>1, <3>2 DEF HasStatus, Proj
  <2>3. CommandsOn
    BY <2>1
  <2>4. OldRunning
    BY <2>1, <2>2
  <2>5. OldRunning /\ CommandsOn
    BY <2>3, <2>4
  <2> HIDE DEF OldRunning, CommandsOn, Goal
  <2> QED BY <1>5, <2>1, <2>5
<1>10. ASSUME NEW T, NEW P, Delete(T, P) PROVE Goal
  <2>1. Remove(Targets(T, P)) /\ UNCHANGED <<nextId, commands, reports>>
    BY <1>10 DEF Delete
  <2>2. Live' \subseteq Live /\ \A t \in Live' : byTask'[t] = byTask[t]
    BY <2>1, ConcatRemove DEF SameTasks
  <2>3. OldRunning /\ CommandsOn
    BY <2>1, <2>2 DEF HasStatus, Proj
  <2> HIDE DEF OldRunning, CommandsOn, Goal
  <2> QED BY <1>5, <2>1, <2>3
<1>11. ASSUME NEW t, NEW c, Claim(t, c) PROVE Goal
  <2>1. /\ UNCHANGED <<tasks, byProject, nextId, reports>> /\ SetStatus({t}, "running")
        /\ c \notin DOMAIN commands
        /\ commands' = [d \in DOMAIN commands \cup {c} |->
                          IF d = c THEN [task |-> t, project |-> Proj(t), phase |-> "claimed"]
                          ELSE commands[d]]
    BY <1>11 DEF Claim, FreeNumbers
  <2>2. /\ Live' = Live
        /\ \A u \in Live : /\ byTask'[u].project = Proj(u)
                           /\ u # t => byTask'[u].status = byTask[u].status
    BY <2>1, ConcatStatusSet DEF Status, Proj
  <2>3. CommandsOn /\ c \in DOMAIN commands' /\ commands'[c].project = Proj(t)
    BY <2>1
  <2>4. \A r \in reports' : Timely(r)'
    BY <1>4, <2>1, <2>3 DEF Timely
  <2>5. ServedOn
    BY <2>1, <2>3 DEF Served
  <2>6. \A p : Proj(t) = p => Served(p)'
    BY <2>3 DEF Served
  <2>7. \A u \in Running' : u = t \/ u \in Running
    BY <2>2 DEF HasStatus
  <2>8. \A u \in Running' : byTask'[u].project = Proj(u)
    BY <2>2 DEF HasStatus
  <2> QED BY <1>4, <2>4, <2>5, <2>6, <2>7, <2>8
<1>12. ASSUME NEW c \in DOMAIN commands, FinishConcat(c) \/ FailConcat(c) PROVE Goal
  <2> DEFINE new(outcome) == [command |-> c, task |-> commands[c].task, project |-> commands[c].project,
                              status |-> outcome, late |-> FALSE]
  <2>1. PICK outcome \in {"done", "failed"} : reports' = reports \cup {new(outcome)}
    BY <1>12 DEF FinishConcat, FailConcat, Say
  <2>2. /\ commands' = Restrict(commands, DOMAIN commands \ {c}) /\ UNCHANGED queue /\ Reported(c)
    BY <1>12 DEF FinishConcat, FailConcat
  <2> DEFINE n == new(outcome)
  <2>3. n.project = commands[c].project /\ n.status # "running" /\ ~ n.late /\ n \in reports'
    BY <2>1
  <2> HIDE DEF n
  <2>4. \A d \in DOMAIN commands \ {c} : d \in DOMAIN commands' /\ commands'[d] = commands[d]
    BY <2>2 DEF Restrict
  <2>5. \A r \in reports : r.command # c /\ r \in reports'
    BY <1>4, <2>1, <2>2 DEF Reported, Timely
  <2>6. \A r \in reports' : r = n \/ r \in reports
    BY <2>1 DEF n
  <2>7. \A r \in reports' : Timely(r)'
    BY <1>4, <2>3, <2>4, <2>5, <2>6 DEF Timely
  <2>8. ServedOn
    BY <2>3, <2>4, <2>5 DEF Served
  <2> QED BY <1>4, <1>6, <2>2, <2>7, <2>8
<1>13. ASSUME NEW c \in DOMAIN commands, StartConcat(c) PROVE Goal
  <2> DEFINE n == [command |-> c, task |-> commands[c].task, project |-> commands[c].project,
                   status |-> "running", late |-> FALSE]
  <2>1. reports' = reports \cup {n} /\ UNCHANGED queue
    BY <1>13 DEF StartConcat, Say
  <2>2. CommandsOn
    BY <1>13 DEF StartConcat, ConcatTypes
  <2>3. n.command = c /\ n.project = commands[c].project /\ ~ n.late
    OBVIOUS
  <2> HIDE DEF n
  <2>4. \A r \in reports' : Timely(r)'
    BY <1>4, <2>1, <2>2, <2>3 DEF Timely
  <2>5. ServedOn
    BY <2>1, <2>2 DEF Served
  <2> QED BY <1>4, <1>6, <2>1, <2>4, <2>5
<1>14. ASSUME NEW r \in reports, DeliverReport(r) PROVE Goal
  <2> DEFINE B == ReportedTasks(r)
  <2>1. UNCHANGED <<nextId, commands>> /\ reports' = reports \ {r}
    BY <1>14 DEF DeliverReport
  <2>2. \A s \in reports' : Timely(s)'
    BY <1>4, <2>1 DEF Timely
  <2>3. \A t \in B : t \in Live /\ Proj(t) = r.project
    BY ReportedIsOfProject
  <2>4. CASE r.status = "running"
    <3>1. ServedOn
      BY <2>1, <2>4 DEF Served
    <3>2. \A p : r.project = p => Served(p)'
      BY <1>4, <2>1, <2>4 DEF Timely, Served
    <3>3. /\ Live' = Live
          /\ \A t \in Live : /\ byTask'[t].project = Proj(t)
                             /\ byTask'[t].status = IF t \in B THEN "running" ELSE byTask[t].status
      BY <1>14, <2>1, <2>4, ConcatStatusSet DEF DeliverReport, Status, Proj
    <3>4. \A t \in Running' : t \in B \/ t \in Running
      BY <3>3 DEF HasStatus
    <3>5. \A t \in Running' : byTask'[t].project = Proj(t)
      BY <3>3 DEF HasStatus
    <3> QED BY <1>4, <2>2, <2>3, <3>1, <3>2, <3>4, <3>5
  <2>5. CASE r.status # "running"
    <3>1. \A t \in Running' : t \in Running /\ t \notin B /\ byTask'[t].project = Proj(t)
      <4>1. CASE r.status = "done"
        <5>1. Live' = Live \ B /\ \A t \in Live' : byTask'[t] = byTask[t]
          BY <1>14, <2>1, <4>1, ConcatRemove DEF DeliverReport, SameTasks
        <5> QED BY <5>1 DEF HasStatus, Proj
      <4>2. CASE r.status = "failed"
        <5>1. /\ Live' = Live
              /\ \A t \in Live : /\ byTask'[t].project = byTask[t].project
                                 /\ byTask'[t].status = IF t \in B THEN "failed" ELSE byTask[t].status
          BY <1>14, <2>1, <4>2, ConcatStatusSet DEF DeliverReport, Status
        <5> QED BY <5>1 DEF HasStatus, Proj
      <4> QED BY <2>5, <4>1, <4>2 DEF ConcatTypes, Report, Outcome
    <3>2. \A t \in Running : Proj(t) = r.project => t \in B
      <4>1. r.task \in Live => Proj(r.task) = r.project
        BY DEF ConcatTypes, Names
      <4>2. \A t \in Running : t \in Live
        BY DEF HasStatus
      <4> QED BY <4>1, <4>2 DEF ConcatIndex, ReportedTasks
    <3>3. \A p : p # r.project /\ Served(p) => Served(p)'
      BY <2>1 DEF Served
    <3> QED BY <1>4, <2>2, <3>1, <3>2, <3>3
  <2> QED BY <2>4, <2>5
<1>15. ASSUME NEW c \in DOMAIN commands, SendCommand(c) PROVE Goal
  <2>1. CommandsOn /\ reports' = reports /\ UNCHANGED queue
    BY <1>15 DEF SendCommand, ConcatTypes
  <2> HIDE DEF OldRunning, CommandsOn, Goal
  <2> QED BY <1>5, <1>6, <2>1
<1>16. ASSUME \/ \E P : RequestConcat(P)
              \/ \E call, p : WriteQueued(call, p)
              \/ \E w : Commit(w)
       PROVE  Goal
  <2>1. UNCHANGED <<queue, commands, reports>>
    BY <1>16 DEF RequestConcat, WriteQueued, Commit
  <2>2. CommandsOn
    BY <2>1
  <2> HIDE DEF OldRunning, CommandsOn, Goal
  <2> QED BY <1>5, <1>6, <2>1, <2>2
<1> HIDE DEF Goal
<1> QED
  BY <1>2, <1>7, <1>8, <1>9, <1>10, <1>11, <1>12, <1>13, <1>14, <1>15, <1>16
     DEF Next, Calls, Handlers, Helper

----------------------------------------------------------------------------
(* The theorems. *)

LEMMA ConcatInit == Init => ConcatInv
<1> SUFFICES ASSUME Init PROVE ConcatInv
  OBVIOUS
<1>1. /\ tasks = << >> /\ byTask = << >> /\ byProject = << >> /\ nextId = 1
      /\ enqueuing = {} /\ commands = << >> /\ reports = {} /\ writes = EmptyBag /\ faults = 0
      /\ concatStatus = [p \in Project |-> "none"] /\ projectStatus = [p \in Project |-> "ready"]
  BY DEF Init
<1>2. Live = {} /\ DOMAIN byTask = {} /\ DOMAIN byProject = {} /\ DOMAIN commands = {}
  BY <1>1 DEF Live, Range
<1>3. ConcatIndex
  BY <1>1, <1>2 DEF ConcatIndex, IsInjective
<1>4. IsABag(writes) /\ BagToSet(writes) = {}
  BY <1>1 DEF IsABag, EmptyBag, SetToBag, BagToSet
<1>5. commands \in [DOMAIN commands -> [task : Nat, project : Project, phase : Phase]]
  BY <1>1
<1>6. ConcatTypes
  BY <1>1, <1>2, <1>4, <1>5 DEF ConcatTypes
<1>7. OneKept
  BY <1>1, <1>2 DEF OneKept, Kept, LastKept
<1>8. SaidHasFile /\ ConcatenatedHasFile
  BY <1>1, <1>4 DEF SaidHasFile, ConcatenatedHasFile
<1>9. InTime /\ RunningIsServed
  BY <1>1, <1>2 DEF InTime, RunningIsServed, HasStatus
<1> QED BY <1>3, <1>6, <1>7, <1>8, <1>9 DEF ConcatInv

LEMMA ConcatStep == ConcatInv /\ [Next]_vars => ConcatInv'
<1>1. ASSUME ConcatInv, Next PROVE ConcatInv'
  BY <1>1, ConcatIndexStep, ConcatTypesStep, OneKeptStep, FilesStep, ServedStep DEF ConcatInv
<1>2. ASSUME ConcatInv, UNCHANGED vars PROVE ConcatInv'
  <2> USE <1>2 DEF vars, queue, mac
  <2>1. ConcatIndex' /\ ConcatTypes'
    BY DEF ConcatInv, ConcatIndex, ConcatTypes, Live, Proj, Names, CallType
  <2>2. OneKept'
    BY DEF ConcatInv, OneKept, Kept, LastKept, HasStatus, Live
  <2>3. SaidHasFile' /\ ConcatenatedHasFile'
    BY DEF ConcatInv, SaidHasFile, ConcatenatedHasFile
  <2>4. InTime' /\ RunningIsServed'
    BY DEF ConcatInv, InTime, RunningIsServed, HasStatus, Live, Proj
  <2> QED BY <2>1, <2>2, <2>3, <2>4 DEF ConcatInv
<1> QED BY <1>1, <1>2

LEMMA OneAtATime == ConcatInv => SerialUnlessInterrupted
<1> SUFFICES ASSUME ConcatInv PROVE Cardinality(Kept) <= 1
  BY DEF SerialUnlessInterrupted, Kept
<1>1. CASE Kept = {}
  BY <1>1, FS_EmptySet
<1>2. CASE Kept # {}
  <2>1. PICK c : Kept = {c}
    BY <1>2 DEF ConcatInv, OneKept
  <2> HIDE DEF Kept
  <2>2. Cardinality({c}) = 1
    BY FS_Singleton
  <2> QED BY <2>1, <2>2
<1> QED BY <1>1, <1>2

\* The helper has one concatenation at work at a time, of those whose task nobody paused,
\* deleted or resumed under it: the one slot of claim_next holds through late reports,
\* commands on their way and tasks enqueued again.
THEOREM ConcatIsSerial == Spec => []SerialUnlessInterrupted
<1>1. Spec => []ConcatInv
  BY ConcatInit, ConcatStep, PTL DEF Spec
<1> QED BY <1>1, OneAtATime, PTL

\* A project whose row says concatenated has its file on the Mac, in whatever order the
\* writes of the handlers commit, and with reports lost, late or handled twice.
THEOREM ConcatenatedIsThere == Spec => []ConcatenatedHasFile
<1>1. Spec => []ConcatInv
  BY ConcatInit, ConcatStep, PTL DEF Spec
<1>2. ConcatInv => ConcatenatedHasFile
  BY DEF ConcatInv
<1> QED BY <1>1, <1>2, PTL

\* While no report was lost or late, a running task has a command on its way, a thread at
\* work or a last report to be handled, so that the one slot is given back.
THEOREM ConcatIsServed == Spec => []RunningIsServed
<1>1. Spec => []ConcatInv
  BY ConcatInit, ConcatStep, PTL DEF Spec
<1>2. ConcatInv => RunningIsServed
  BY DEF ConcatInv
<1> QED BY <1>1, <1>2, PTL
=============================================================================
