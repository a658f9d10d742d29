------------------------- MODULE MCProvidersProjects -------------------------
(***************************************************************************)
(* Three parts of the server that share no state, one of them in each      *)
(* behaviour: a provider's account, its cache of followed channels, and    *)
(* the assignment of clips to recording projects.  The other two rest      *)
(* where they begin.                                                       *)
(***************************************************************************)
EXTENDS ProviderAccount, TLC

CONSTANTS s1, s2, part1, part2, later,
          Channels, PageSize, Limits, MaxChanges,             \* FollowCache
          Clip, StartOf, EndOf, SessionOf, Gap, Assigner,     \* RecordingProjects
          Closing, MaxTime, MaxProjects

VARIABLES
  part,
  provider, limit, listed, online, accepted, flagged, cache, sync, act, click, changes,
  projects, projectOf, assigning, finalizer, viewer, onMac, closed, founder, overlapped,
  time

ASSUME AccountAssumption

Follow == INSTANCE FollowCache WITH kind <- provider, cmd <- click
Projects == INSTANCE RecordingProjects WITH now <- time, calls <- assigning

ASSUME FollowHolds == Follow!FollowAssumption
ASSUME ProjectsHold == Projects!ClipAssumption /\ Projects!BoundAssumption

\* Two channels on two pages: one can slip from the page to come to the one before.
TwoChannels == 1 .. 2

\* Limits that a list of two channels fits into, and limits that cut it.
Reads(pages, items, counted) == [pages |-> pages, items |-> items, counted |-> counted]
SiteLimits ==
  [k \in Kinds |->
     CASE k = "chaturbate" -> {Reads(2, 1, TRUE), Reads(2, 2, TRUE)}
       [] k = "stripchat"  -> {Reads(1, 2, TRUE), Reads(2, 2, TRUE), Reads(2, 2, FALSE)}
       [] k = "youtube"    -> {Reads(1, 2, TRUE), Reads(2, 1, TRUE), Reads(2, 2, TRUE)}
       [] OTHER            -> {Reads(1, 2, TRUE)}]

\* Two parts of one recording whose timestamps lie further apart than the gap buffer, and a
\* clip that starts beyond the buffer after both.
Times == (part1 :> 1) @@ (part2 :> 3) @@ (later :> 5)
Stems == (part1 :> part1) @@ (part2 :> part1) @@ (later :> later)

list == <<provider, limit, listed, online, accepted, flagged, cache, sync, act, click, changes>>
table == <<projects, projectOf, assigning, finalizer, viewer, onMac, closed, founder,
           overlapped, time>>

\* The account and the cache begin in one state where they rest.
MCInit ==
  /\ part \in {"account", "follow", "projects"}
  /\ Init /\ Follow!Init /\ Projects!Init
  /\ part # "account" => kind = "twitch" /\ accepts = {} /\ row = Login(s1, TRUE)
  /\ part # "follow" => provider = "twitch" /\ listed = {} /\ cache = {}

MCNext == \/ part = "account" /\ Next /\ UNCHANGED <<part, list, table>>
          \/ part = "follow" /\ Follow!Next /\ UNCHANGED <<part, vars, table>>
          \/ part = "projects" /\ Projects!Next /\ UNCHANGED <<part, vars, list>>

MCSpec == MCInit /\ [][MCNext]_<<part, vars, list, table>>

\* A synchronisation during which nothing moves copies the list (FollowCache).
QuietSyncIsWhole == Follow!QuietSyncIsWhole
\* A row that appears is that of a channel that was followed (FollowCache).
RowsWereFollowed == Follow!RowsWereFollowed
\* A project's bounds are those of its clips (RecordingProjects).
BoundsAreExact == Projects!BoundsAreExact
\* The parts of one recording are in one project (RecordingProjects).
SessionStaysTogether == Projects!SessionStaysTogether
\* A clip joins the project whose end lies within the gap (RecordingProjects).
JoinedWithinGap == Projects!JoinedWithinGap
=============================================================================
