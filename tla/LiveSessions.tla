---------------------------- MODULE LiveSessions ----------------------------
(***************************************************************************)
(* The broadcasts of one channel as the database tells them: rows of       *)
(* live_sessions that two tasks write from what they saw of the channel,   *)
(* the monitor in each of its polls and Auto Record when the cached status *)
(* was out of date.  An observation looks the rows up, awaits, and writes; *)
(* nothing keeps the two tasks apart.  The status itself is older still:   *)
(* it was polled before thumbnails were made.                              *)
(*                                                                         *)
(* The clock counts in minutes of some length; the identity of a row is    *)
(* its place in rows.  Viewers, thumbnails and last-seen stamps of cards   *)
(* are left out.                                                           *)
(***************************************************************************)
EXTENDS Naturals, Sequences, FiniteSets

CONSTANTS
  Gap,       \* LIVE_SESSION_GAP_MERGE_SECONDS
  Aliased,   \* the card has a name of its own: the monitor observes twice
  MaxTime,   \* bounds the clock
  None       \* no time, no row

LiveAssumption == Gap \in Nat /\ Aliased \in BOOLEAN /\ None \notin Nat

VARIABLES
  clock, onAir,  \* the world
  cached,    \* is_online of the models row
  rows,      \* live_sessions of the channel, in the order of their ids
  watch,     \* what each task is doing
  raced      \* two observations were underway at a time

vars == <<clock, onAir, cached, rows, watch, raced>>

Task == {"monitor", "auto"}

Row == [started : 0 .. MaxTime, ended : 0 .. MaxTime \cup {None}, seen : 0 .. MaxTime]
Open == {i \in DOMAIN rows : rows[i].ended = None}
Closed == DOMAIN rows \ Open

\* What a task holds between two awaits: the status it polled, the stamp of the
\* observation, the row it found and the time it read in it.
Resting == [pc |-> "idle", online |-> FALSE, at |-> 0, row |-> None, read |-> None,
            again |-> FALSE]

TypeOK ==
  /\ clock \in 0 .. MaxTime
  /\ onAir \in BOOLEAN /\ cached \in BOOLEAN /\ raced \in BOOLEAN
  /\ rows \in Seq(Row)
  /\ watch \in [Task -> [pc : {"idle", "polled", "stamped", "open", "closed"}, online : BOOLEAN,
                         at : 0 .. MaxTime, row : DOMAIN rows \cup {None},
                         read : 0 .. MaxTime \cup {None}, again : BOOLEAN]]

Init ==
  /\ clock = 0 /\ onAir = FALSE
  /\ cached = FALSE
  /\ rows = <<>>
  /\ watch = [w \in Task |-> Resting]
  /\ raced = FALSE

-----------------------------------------------------------------------------
World == <<clock, onAir>>

Tick ==
  /\ clock < MaxTime /\ clock' = clock + 1
  /\ UNCHANGED <<onAir, cached, rows, watch, raced>>

Flip ==
  /\ onAir' = ~ onAir
  /\ UNCHANGED <<clock, cached, rows, watch, raced>>

To(w, pc) == watch' = [watch EXCEPT ![w].pc = pc]
Rest(w) == watch' = [watch EXCEPT ![w] = Resting]

\* check_status: a check that fails says offline.
Says(online) == online => onAir

MonitorPoll ==
  /\ watch["monitor"].pc = "idle"
  /\ \E online \in BOOLEAN :
       /\ Says(online)
       /\ watch' = [watch EXCEPT !["monitor"] =
                      [Resting EXCEPT !.pc = "polled", !.online = online, !.again = Aliased]]
  /\ UNCHANGED <<World, cached, rows, raced>>

\* Auto Record asks the provider itself when the cache says offline.
AutoRefresh ==
  /\ watch["auto"].pc = "idle" /\ ~ cached /\ onAir
  /\ watch' = [watch EXCEPT !["auto"] = [Resting EXCEPT !.pc = "polled", !.online = TRUE]]
  /\ UNCHANGED <<World, cached, rows, raced>>

\* update_model_status writes the models row and stamps the observation.
UpdateModelStatus(w) ==
  /\ watch[w].pc = "polled"
  /\ cached' = watch[w].online
  /\ watch' = [watch EXCEPT ![w].pc = "stamped", ![w].at = clock]
  /\ raced' = (raced \/ \E v \in Task \ {w} : watch[v].pc \notin {"idle", "polled"})
  /\ UNCHANGED <<World, rows>>

-----------------------------------------------------------------------------
(* observe_live_status *)

\* The open row that started last, and of the closed ones the one that ended last.
Last(S, key) ==
  IF S = {} THEN None
  ELSE CHOOSE i \in S : \A j \in S : key[j] < key[i] \/ (key[j] = key[i] /\ j <= i)
Started == [i \in DOMAIN rows |-> rows[i].started]
Ended == [i \in DOMAIN rows |-> rows[i].ended]

Field(i, f) == IF i = None THEN None ELSE rows[i][f]

LatestIfOpen == LET i == Last(DOMAIN rows, Started)  \* mutant
                IN IF i \in Open THEN i ELSE None
OpenRow == Last(Open, Started)

LookForOpen(w) ==
  /\ watch[w].pc = "stamped"
  /\ watch' = [watch EXCEPT ![w].pc = "open", ![w].row = OpenRow,
                            ![w].read = Field(OpenRow, "seen")]
  /\ UNCHANGED <<World, cached, rows, raced>>

\* The monitor of a card with another name observes the same status a second time.
Observed(w) ==
  IF watch[w].again
  THEN watch' = [watch EXCEPT ![w].pc = "stamped", ![w].at = clock, ![w].again = FALSE]
  ELSE Rest(w)

LaterOf(a, b) == IF a < b THEN b ELSE a
SoonerOf(a, b) == IF a < b THEN a ELSE b

SeeOpen(w) ==
  /\ watch[w].pc = "open" /\ watch[w].online /\ watch[w].row # None
  /\ rows' = [rows EXCEPT ![watch[w].row].seen = LaterOf(@, watch[w].at)]
  /\ Observed(w)
  /\ UNCHANGED <<World, cached, raced>>

LookForClosed(w) ==
  /\ watch[w].pc = "open" /\ watch[w].online /\ watch[w].row = None
  /\ LET i == Last(Closed, Ended)
     IN watch' = [watch EXCEPT ![w].pc = "closed", ![w].row = i, ![w].read = Field(i, "ended")]
  /\ UNCHANGED <<World, cached, rows, raced>>

\* "Short offline gaps reopen the previous row".
HalfTheGap(ended, now) == now < ended + Gap  \* mutant
WithinGap(ended, now) == now <= ended + Gap

Reopens(w) == watch[w].row # None /\ WithinGap(watch[w].read, watch[w].at)

Reopen(w) ==
  /\ watch[w].pc = "closed" /\ Reopens(w)
  /\ rows' = [rows EXCEPT ![watch[w].row].ended = None, ![watch[w].row].seen = watch[w].at]
  /\ Observed(w)
  /\ UNCHANGED <<World, cached, raced>>

\* A second row with one start is refused, and the refusal ignored.
Insert(w) ==
  /\ watch[w].pc = "closed" /\ ~ Reopens(w)
  /\ LET at == watch[w].at
     IN rows' = IF \E i \in DOMAIN rows : rows[i].started = at THEN rows
                ELSE Append(rows, [started |-> at, ended |-> None, seen |-> at])
  /\ Observed(w)
  /\ UNCHANGED <<World, cached, raced>>

\* "so that the bar ends when we last confirmed live, not at the first miss"
Close(w) ==
  /\ watch[w].pc = "open" /\ ~ watch[w].online
  /\ rows' = IF watch[w].row = None THEN rows
             ELSE [rows EXCEPT ![watch[w].row].ended =
                                 SoonerOf(watch[w].read, watch[w].at)]
  /\ Observed(w)
  /\ UNCHANGED <<World, cached, raced>>

Observe(w) ==
  UpdateModelStatus(w) \/ LookForOpen(w) \/ SeeOpen(w) \/ LookForClosed(w)
  \/ Reopen(w) \/ Insert(w) \/ Close(w)

Next ==
  \/ Tick \/ Flip
  \/ MonitorPoll \/ AutoRefresh
  \/ \E w \in Task : Observe(w)

Spec == Init /\ [][Next]_vars

\* The monitor polls for ever; what Auto Record began ends.
FairSpec == Spec /\ WF_vars(MonitorPoll \/ Observe("monitor")) /\ WF_vars(Observe("auto"))

-----------------------------------------------------------------------------
\* "Short offline gaps reopen the previous row": as long as no two observations
\* of the channel overlapped, its rows are a timeline of broadcasts, each ended
\* no sooner than it began and further from the one before than the gap, and
\* only the last may be open.
BroadcastsAreApart ==
  raced \/ /\ \A i \in Closed : rows[i].started <= rows[i].ended
           /\ \A i, j \in DOMAIN rows :
                i < j => i \in Closed /\ rows[j].started > rows[i].ended + Gap

\* A channel that stays off the air has no open row in the end, even when two
\* observations raced and left two of them open.
EndedBroadcastsClose == <>[](~ onAir) => <>[](Open = {})
=============================================================================
