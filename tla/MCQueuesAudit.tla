---------------------------- MODULE MCQueuesAudit ----------------------------
(***************************************************************************)
(* Three parts of the server that share no state, one of them in each      *)
(* behaviour: the download queue, the queue of concatenations without      *)
(* faults, and the audit log of recordings.  The others rest where they    *)
(* begin.  A part's fairness is asked where that part runs.                *)
(***************************************************************************)
EXTENDS DownloadQueue, TLC

CONSTANTS i1, i2, i3, p1, p2, q1, q2, s1, s2, Session, MaxDeaths, None

VARIABLES
  part,
  order, ofTask, ofProject, next, concatStatus, projectStatus, enqueuing, writes,
  commands, reports, members, final, interrupted, ops, faults,
  capturing, starts, stopping, converting, held, ended, file, events, busy, process, deaths

\* Three items in two projects: a project is opened while another is active, and a third
\* file has to wait for a slot.
MCProjectOf == (i1 :> p1) @@ (i2 :> p2) @@ (i3 :> p1)
MCClipOrder == (i1 :> 0) @@ (i2 :> 2) @@ (i3 :> 1)

\* Two projects, one that is concatenated while the other one waits.
Concat == INSTANCE ConcatQueue
          WITH Project <- {q1, q2}, MaxTaskId <- 2, MaxCommands <- 2, MaxOps <- 3,
               MaxWrites <- 1, MaxFaults <- 0,
               tasks <- order, byTask <- ofTask, byProject <- ofProject, nextId <- next

Audit == INSTANCE RecordingAudit WITH running <- capturing, starting <- starts

concat == <<order, ofTask, ofProject, next, concatStatus, projectStatus, enqueuing, writes,
            commands, reports, members, final, interrupted, ops, faults>>
audit == <<capturing, starts, stopping, converting, held, ended, file, events, busy,
           process, deaths>>

OnlyDownloads == part = "downloads" /\ UNCHANGED <<part, concat, audit>>
OnlyConcat == part = "concat" /\ UNCHANGED <<part, vars, audit>>
OnlyAudit == part = "audit" /\ UNCHANGED <<part, vars, concat>>

MCInit ==
  /\ part \in {"downloads", "concat", "audit"}
  /\ Init /\ Concat!Init /\ Audit!Init

MCNext == \/ OnlyDownloads /\ Next
          \/ OnlyConcat /\ Concat!Next
          \/ OnlyAudit /\ Audit!Next

allVars == <<part, vars, concat, audit>>

MCSpec ==
  /\ MCInit /\ [][MCNext]_allVars
  /\ WF_allVars(OnlyConcat /\ Concat!Handlers)
  /\ WF_allVars(OnlyConcat /\ Concat!Helper)
  /\ WF_allVars(OnlyAudit /\ (Audit!StartListed \/ Audit!StopListed))
  /\ WF_allVars(OnlyAudit /\ Audit!LoopGoes)
  /\ SF_allVars(OnlyAudit /\ Audit!PassReads)

\* No concatenation stays queued for ever (ConcatQueue).
QueueMoves == Concat!QueueMoves
\* What the busy file says was interrupted is told in the end (RecordingAudit).
InterruptedIsTold == Audit!InterruptedIsTold
\* The busy file catches up with the captures (RecordingAudit).
BusyFileCatchesUp == Audit!BusyFileCatchesUp
=============================================================================
