------------------------- MODULE RecordingProjects -------------------------
(***************************************************************************)
(* The grouping of a channel's clips into recording projects: src/app/     *)
(* services/recording_projects.py over two tables of the database, and the *)
(* handler of src/app/main.py that lists the projects and finalizes, fills *)
(* and closes them on the way.                                             *)
(*                                                                         *)
(* Every access to the database is awaited and is a transaction of its own *)
(* so each is one step, and the coroutines run between each other's steps: *)
(* the convert hook, the backfill of a listing, the download selection.    *)
(* Rows that were read before an await are used after it.  One channel is  *)
(* modelled; channels have no project in common.                           *)
(***************************************************************************)
EXTENDS Integers, FiniteSets, FiniteSetsExt, Functions

CONSTANTS Clip,        \* the converted files of one channel
          StartOf, EndOf, \* when a clip starts and ends
          SessionOf,   \* session_key_from_stem: the parts of a recording have it in common
          Gap,         \* the gap buffer of the channel
          Assigner,    \* the coroutines that may assign clips at a time
          Closing,     \* whether clips are downloaded and projects closed
          MaxTime,     \* bound on the clock
          MaxProjects  \* bound on the projects created

ClipAssumption ==
  /\ IsFiniteSet(Clip)
  /\ StartOf \in [Clip -> Nat \ {0}]
  /\ EndOf \in [Clip -> Nat]
  /\ \A c \in Clip : StartOf[c] <= EndOf[c]
  /\ SessionOf \in [Clip -> Clip]

BoundAssumption == Gap \in Nat /\ Closing \in BOOLEAN /\ {MaxTime, MaxProjects} \subseteq Nat

VARIABLES projects,  \* table recording_projects: project -> its row
          projectOf, \* table recording_project_members: clip -> project
          calls,     \* what each assigner is doing
          finalizer, \* finalize_ready_projects: the rows it has still to deal with
          viewer,    \* GET /api/recording-projects: the rows it has still to show
          onMac,     \* the clips whose copy was confirmed on the Mac
          closed,    \* history: projects that were ever local_complete or concatenated
          founder,   \* history: the clip each project was created for
          overlapped, \* history: two assigners were at work at a time
          now

tables == <<projects, projectOf>>
history == <<closed, founder, overlapped>>
vars == <<tables, calls, finalizer, viewer, onMac, history, now>>

Candidate == {"open", "awaiting_gap", "ready"}
ProjectId == 1 .. MaxProjects
Row == [start : Nat, end : Nat, status : Candidate \cup {"local_complete", "concatenated"}]

Idle == [at |-> "idle"]

\* The rows of projects with some status, as a query returns them.
RowsWith(statuses) ==
  {[id |-> p, start |-> projects[p].start, end |-> projects[p].end,
    status |-> projects[p].status] : p \in {q \in DOMAIN projects : projects[q].status \in statuses}}

\* The first row of a list in the order "started_at DESC".
IsLatest(row, rows) == row \in rows /\ \A other \in rows : other.start <= row.start

MembersOf(p) == {c \in DOMAIN projectOf : projectOf[c] = p}

Init ==
  /\ projects = << >>
  /\ projectOf = << >>
  /\ calls = [a \in Assigner |-> Idle]
  /\ finalizer = Idle
  /\ viewer = Idle
  /\ onMac = {}
  /\ closed = {}
  /\ founder = << >>
  /\ overlapped = FALSE
  /\ now = 0

----------------------------------------------------------------------------
\* assign_fragment_to_project

Goto(a, call) == calls' = [calls EXCEPT ![a] = call]

\* What is left to do once a project is chosen: a clip found to be a member already is
\* written again, but its project is not reopened.
Upserting(c, p, reopen) == [at |-> "upserting", clip |-> c, project |-> p, reopen |-> reopen]

\* get_project_member.  Files that were purged after their download are in no library.
GetMember(a, c) ==
  /\ calls[a] = Idle
  /\ EndOf[c] <= now /\ c \notin onMac
  /\ Goto(a, IF c \in DOMAIN projectOf
             THEN Upserting(c, projectOf[c], FALSE)
             ELSE [at |-> "listing", clip |-> c])
  /\ overlapped' = (overlapped \/ \E b \in Assigner \ {a} : calls[b] # Idle)
  /\ UNCHANGED <<tables, finalizer, viewer, onMac, closed, founder, now>>

\* list_open_recording_projects
ListCandidates(a) ==
  /\ calls[a].at = "listing"
  /\ Goto(a, [at |-> "scanning", clip |-> calls[a].clip,
              rows |-> RowsWith(Candidate), left |-> RowsWith(Candidate)])
  /\ UNCHANGED <<tables, finalizer, viewer, onMac, history, now>>

\* list_project_members of one candidate after the other, in search of the session key.
SessionIgnored(c, p) == FALSE \* mutant: the parts of a session are not looked for
HasSession(c, p) == \E d \in MembersOf(p) : SessionOf[d] = SessionOf[c]

ScanMembers(a) ==
  /\ calls[a].at = "scanning"
  /\ \E row \in calls[a].left :
       /\ IsLatest(row, calls[a].left)
       /\ Goto(a, IF HasSession(calls[a].clip, row.id)
                  THEN Upserting(calls[a].clip, row.id, TRUE)
                  ELSE [calls[a] EXCEPT !.left = @ \ {row}])
  /\ UNCHANGED <<tables, finalizer, viewer, onMac, history, now>>

\* "0 <= gap <= gap_seconds or gap < 0", with the row as it was listed.
AnyGap(c, row) == TRUE \* mutant: the gap is not compared
WithinGap(c, row) == StartOf[c] - row.end <= Gap

\* The latest candidate the clip is near to, or else create_recording_project.
JoinByGap(a) ==
  LET near == {row \in calls[a].rows : WithinGap(calls[a].clip, row)}
  IN /\ calls[a].at = "scanning" /\ calls[a].left = {}
     /\ \E row \in near :
          /\ IsLatest(row, near)
          /\ Goto(a, Upserting(calls[a].clip, row.id, TRUE))
     /\ UNCHANGED <<tables, finalizer, viewer, onMac, history, now>>

CreateProject(a) ==
  LET c == calls[a].clip
      p == Cardinality(DOMAIN projects) + 1
  IN /\ calls[a].at = "scanning" /\ calls[a].left = {}
     /\ \A row \in calls[a].rows : ~ WithinGap(c, row)
     /\ p <= MaxProjects
     /\ projects' = [q \in DOMAIN projects \cup {p} |->
                       IF q = p
                       THEN [start |-> StartOf[c], end |-> EndOf[c], status |-> "open"]
                       ELSE projects[q]]
     /\ founder' = [q \in DOMAIN projects' |-> IF q = p THEN c ELSE founder[q]]
     /\ Goto(a, Upserting(c, p, TRUE))
     /\ UNCHANGED <<projectOf, finalizer, viewer, onMac, closed, overlapped, now>>

\* upsert_project_member: the clip moves when it was the member of another project.
UpsertMember(a) ==
  LET call == calls[a]
  IN /\ call.at = "upserting"
     /\ projectOf' = [c \in DOMAIN projectOf \cup {call.clip} |->
                        IF c = call.clip THEN call.project ELSE projectOf[c]]
     /\ Goto(a, [at |-> "reading", project |-> call.project, reopen |-> call.reopen])
     /\ UNCHANGED <<projects, finalizer, viewer, onMac, history, now>>

\* _refresh_project_bounds: the members are read, then the bounds are written.
EarliestEnd(C) == Min({EndOf[c] : c \in C}) \* mutant: the wrong extreme is taken
LatestEnd(C) == Max({EndOf[c] : c \in C})

Reopening(call) ==
  IF call.reopen THEN [at |-> "opening", project |-> call.project] ELSE Idle

ReadMembers(a) ==
  LET call == calls[a]
      C    == MembersOf(call.project)
  IN /\ call.at = "reading"
     /\ Goto(a, IF C = {} THEN Reopening(call)
                ELSE [at |-> "bounding", project |-> call.project, reopen |-> call.reopen,
                      start |-> Min({StartOf[c] : c \in C}), end |-> LatestEnd(C)])
     /\ UNCHANGED <<tables, finalizer, viewer, onMac, history, now>>

WriteBounds(a) ==
  LET call == calls[a]
  IN /\ call.at = "bounding"
     /\ projects' = [projects EXCEPT ![call.project].start = call.start,
                                     ![call.project].end = call.end]
     /\ Goto(a, Reopening(call))
     /\ UNCHANGED <<projectOf, finalizer, viewer, onMac, history, now>>

SetStatus(p, status) == projects' = [projects EXCEPT ![p].status = status]

\* "New fragment after ready: reopen until gap elapses again."
Reopen(a) ==
  /\ calls[a].at = "opening"
  /\ SetStatus(calls[a].project, "open")
  /\ Goto(a, Idle)
  /\ UNCHANGED <<projectOf, finalizer, viewer, onMac, history, now>>

----------------------------------------------------------------------------
\* finalize_ready_projects: the rows are listed once, then written one by one.

FinalizeList ==
  /\ finalizer = Idle
  /\ finalizer' = [at |-> "writing", time |-> now, rows |-> RowsWith({"open", "awaiting_gap"})]
  /\ UNCHANGED <<tables, calls, viewer, onMac, history, now>>

FinalizeRow ==
  /\ finalizer.at = "writing"
  /\ IF finalizer.rows = {}
     THEN finalizer' = Idle /\ UNCHANGED projects
     ELSE \E row \in finalizer.rows :
            /\ IsLatest(row, finalizer.rows)
            /\ finalizer' = [finalizer EXCEPT !.rows = @ \ {row}]
            /\ SetStatus(row.id, IF finalizer.time - row.end >= Gap
                                 THEN "ready"
                                 ELSE IF row.status = "open"
                                      THEN "awaiting_gap"
                                      ELSE projects[row.id].status)
  /\ UNCHANGED <<projectOf, calls, viewer, onMac, history, now>>

----------------------------------------------------------------------------
\* GET /api/recording-projects, after its finalize and its backfill: a project whose
\* members are all on the Mac is recorded as local_complete.

ViewList ==
  /\ Closing
  /\ viewer = Idle
  /\ viewer' = [at |-> "reading",
                rows |-> RowsWith(Candidate \cup {"local_complete", "concatenated"})]
  /\ UNCHANGED <<tables, calls, finalizer, onMac, history, now>>

IsLocal(p) == MembersOf(p) # {} /\ MembersOf(p) \subseteq onMac

ViewMembers ==
  /\ viewer.at = "reading"
  /\ IF viewer.rows = {}
     THEN viewer' = Idle
     ELSE \E row \in viewer.rows :
            /\ IsLatest(row, viewer.rows)
            /\ viewer' = IF IsLocal(row.id) /\ row.status \in Candidate
                         THEN [at |-> "closing", project |-> row.id, rows |-> viewer.rows \ {row}]
                         ELSE [viewer EXCEPT !.rows = @ \ {row}]
  /\ UNCHANGED <<tables, calls, finalizer, onMac, history, now>>

ViewClose ==
  /\ viewer.at = "closing"
  /\ SetStatus(viewer.project, "local_complete")
  /\ closed' = closed \cup {viewer.project}
  /\ viewer' = [at |-> "reading", rows |-> viewer.rows]
  /\ UNCHANGED <<projectOf, calls, finalizer, onMac, founder, overlapped, now>>

----------------------------------------------------------------------------
\* The helper reports a copy of a clip, or the concatenation of a complete project.

Download(c) ==
  /\ Closing
  /\ c \in DOMAIN projectOf \ onMac
  /\ onMac' = onMac \cup {c}
  /\ UNCHANGED <<tables, calls, finalizer, viewer, history, now>>

Concatenated(p) ==
  /\ IsLocal(p) /\ projects[p].status # "concatenated"
  /\ SetStatus(p, "concatenated")
  /\ closed' = closed \cup {p}
  /\ UNCHANGED <<projectOf, calls, finalizer, viewer, onMac, founder, overlapped, now>>

Tick ==
  /\ now < MaxTime
  /\ now' = now + 1
  /\ UNCHANGED <<tables, calls, finalizer, viewer, onMac, history>>

----------------------------------------------------------------------------
Assign(a) ==
  \/ \E c \in Clip : GetMember(a, c)
  \/ ListCandidates(a)
  \/ ScanMembers(a)
  \/ JoinByGap(a)
  \/ CreateProject(a)
  \/ UpsertMember(a)
  \/ ReadMembers(a)
  \/ WriteBounds(a)
  \/ Reopen(a)

Next ==
  \/ \E a \in Assigner : Assign(a)
  \/ FinalizeList
  \/ FinalizeRow
  \/ ViewList
  \/ ViewMembers
  \/ ViewClose
  \/ \E c \in Clip : Download(c)
  \/ \E p \in DOMAIN projects : Concatenated(p)
  \/ Tick

Spec == Init /\ [][Next]_vars

----------------------------------------------------------------------------
(* Properties *)

\* Every table and every list a coroutine holds has the type its code gives it.
TypeOK ==
  /\ DOMAIN projects = 1 .. Cardinality(DOMAIN projects)
  /\ \A p \in DOMAIN projects : p \in ProjectId /\ projects[p] \in Row
  /\ DOMAIN projectOf \subseteq Clip
  /\ \A c \in DOMAIN projectOf : projectOf[c] \in DOMAIN projects
  /\ \A a \in Assigner :
       calls[a].at \in {"idle", "listing", "scanning", "upserting", "reading", "bounding", "opening"}
  /\ finalizer.at \in {"idle", "writing"} /\ viewer.at \in {"idle", "reading", "closing"}
  /\ onMac \subseteq DOMAIN projectOf /\ closed \subseteq DOMAIN projects
  /\ overlapped \in BOOLEAN /\ now \in 0 .. MaxTime

\* Between the assignments the bounds of a project are those of its members, whatever the
\* finalizer and the listing write in the meantime: the gap of the next clip, and the end
\* of the gap, are counted from them.  This, and what follows, as long as no assigner began
\* while another was at work.
BoundsAreExact ==
  ~ overlapped /\ (\A a \in Assigner : calls[a] = Idle) =>
    \A p \in DOMAIN projects :
      MembersOf(p) # {} =>
        /\ projects[p].start = Min({StartOf[c] : c \in MembersOf(p)})
        /\ projects[p].end = Max({EndOf[c] : c \in MembersOf(p)})

\* "Same session_key (_partNNN) joins even if timestamps look new": the parts of one
\* recording are members of one project, unless a project of theirs had been closed.
SessionStaysTogether ==
  overlapped \/ \A c, d \in DOMAIN projectOf :
    SessionOf[c] = SessionOf[d] /\ projectOf[c] # projectOf[d] =>
      {projectOf[c], projectOf[d]} \cap closed # {}

\* A clip joins a project only when it starts no later than the gap buffer after one of
\* the members, or is a part of a member's recording, however old the rows are that the
\* choice was made from.  The clip the project was created for may come after the others.
JoinedWithinGap ==
  overlapped \/ \A p \in DOMAIN projects : \A c \in MembersOf(p) \ {founder[p]} :
    \E d \in MembersOf(p) \ {c} :
      StartOf[c] - EndOf[d] <= Gap \/ SessionOf[c] = SessionOf[d]
=============================================================================
