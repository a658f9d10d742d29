----------------------------- MODULE MediaTimeline -----------------------------
(***************************************************************************)
(* The timeline of the Media page (main.py: get_media_timeline): when each *)
(* channel was live and what of it was captured.  Bars come from two       *)
(* tables: the recordings' rows, and the tombstones that a deletion writes *)
(* before it removes the row (database.py: archive_and_delete_recording).  *)
(* The request reads the tables one after the other, with awaits between   *)
(* them, while rows are indexed, measured, deleted and dropped.  Times are *)
(* in units of the stub.                                                   *)
(***************************************************************************)
EXTENDS Naturals, FiniteSets

CONSTANTS Recording,  \* the recordings, one row each
          MaxTime,    \* bound: the last unit of time
          Fresh,      \* a row this young without a length is still captured (6 h)
          Stub,       \* the length shown for an unknown one (60 s)
          MaxSpan,    \* the longest range shown (90 days)
          MaxQueries, \* bound: requests
          None

TimelineAssumption ==
  MaxTime \in Nat /\ MaxSpan \in Nat /\ Fresh \in Nat /\ Stub \in Nat

VARIABLES now,
          rows,    \* recordings: each recording's row, or None
          tombs,   \* recording_history: each recording's tombstones
          erasing, \* the row a deletion read (and then archived), or None
          live,    \* live_sessions of the channel: [started, ended]
          query,   \* the request underway, or None
          answer,  \* the last answer, or None
          asked

vars == <<now, rows, tombs, erasing, live, query, answer, asked>>

Time == 1..MaxTime
Row == [created : 0..MaxTime, duration : 0..MaxTime]
Broadcast == [started : Time, ended : Time \cup {None}]

TypeOK ==
  /\ now \in Time /\ asked \in 0..MaxQueries
  /\ rows \in [Recording -> Row \cup {None}]
  /\ tombs \in [Recording -> SUBSET Row]
  /\ erasing \in [Recording -> [row : Row \cup {None}, archived : BOOLEAN] \cup {None}]
  /\ live \in SUBSET Broadcast

Init ==
  /\ now = 1 /\ live = {} /\ query = None /\ answer = None /\ asked = 0
  /\ rows = [r \in Recording |-> None]
  /\ tombs = [r \in Recording |-> {}]
  /\ erasing = [r \in Recording |-> None]

Present(r) == rows[r] # None \/ tombs[r] # {}

(***************************************************************************)
(* The tables.                                                             *)
(***************************************************************************)
Tick ==
  /\ now < MaxTime /\ now' = now + 1
  /\ UNCHANGED <<rows, tombs, erasing, live, query, answer, asked>>

(* A capture is indexed as it starts, or found later with no known time.   *)
Index(r) ==
  /\ ~Present(r) /\ erasing[r] = None
  /\ \E t \in {0, now} : rows' = [rows EXCEPT ![r] = [created |-> t, duration |-> 0]]
  /\ UNCHANGED <<now, tombs, erasing, live, query, answer, asked>>

Measure(r) ==
  /\ rows[r] # None /\ rows[r].duration = 0 /\ rows[r].created < now
  /\ rows' = [rows EXCEPT ![r].duration = now - rows[r].created]
  /\ UNCHANGED <<now, tombs, erasing, live, query, answer, asked>>

(* The row of a recording whose files are gone is dropped with no tombstone. *)
Drop(r) ==
  /\ rows[r] # None
  /\ rows' = [rows EXCEPT ![r] = None]
  /\ query' = IF query = None \/ rows[r] \in tombs[r] THEN query
              ELSE [query EXCEPT !.due = @ \ {r}]
  /\ UNCHANGED <<now, tombs, erasing, live, answer, asked>>

(* archive_and_delete_recording: read the row, write the tombstone, remove *)
(* the row.                                                                *)
EraseReads(r) ==
  /\ erasing[r] = None /\ rows[r] # None
  /\ erasing' = [erasing EXCEPT ![r] = [row |-> rows[r], archived |-> FALSE]]
  /\ UNCHANGED <<now, rows, tombs, live, query, answer, asked>>

EraseArchives(r) ==
  /\ erasing[r] # None /\ ~erasing[r].archived
  /\ tombs' = [tombs EXCEPT ![r] = @ \cup {erasing[r].row}]
  /\ erasing' = [erasing EXCEPT ![r].archived = TRUE]
  /\ UNCHANGED <<now, rows, live, query, answer, asked>>

EraseUnarchived(r) ==
  /\ erasing[r] # None
  /\ rows' = [rows EXCEPT ![r] = None]
  /\ erasing' = [erasing EXCEPT ![r] = None]
  /\ UNCHANGED <<now, tombs, live, query, answer, asked>>

EraseDeletes(r) ==
  /\ erasing[r] # None /\ erasing[r].archived
  /\ rows' = [rows EXCEPT ![r] = None]
  /\ erasing' = [erasing EXCEPT ![r] = None]
  /\ UNCHANGED <<now, tombs, live, query, answer, asked>>

Open == {b \in live : b.ended = None}

(* A broadcast opens, or the last one opens again; it closes at the time   *)
(* it was last seen.                                                       *)
GoesLive ==
  /\ Open = {}
  /\ \/ /\ \A b \in live : b.ended < now
        /\ live' = live \cup {[started |-> now, ended |-> None]}
     \/ \E b \in live :
          /\ \A c \in live : c.ended <= b.ended
          /\ live' = (live \ {b}) \cup {[b EXCEPT !.ended = None]}
  /\ UNCHANGED <<now, rows, tombs, erasing, query, answer, asked>>

EndsLive ==
  /\ \E b \in Open, seen \in Time :
       /\ b.started <= seen /\ seen <= now
       /\ live' = (live \ {b}) \cup {[b EXCEPT !.ended = seen]}
  /\ UNCHANGED <<now, rows, tombs, erasing, query, answer, asked>>

(***************************************************************************)
(* The request.                                                            *)
(***************************************************************************)
Lesser(a, b) == IF a < b THEN a ELSE b
Greater(a, b) == IF a < b THEN b ELSE a

AsGiven(from, to) ==
  LET end == IF to > 0 THEN to ELSE now
      start == IF from > 0 THEN from ELSE IF end > MaxSpan THEN end - MaxSpan ELSE 0
  IN [from |-> start, to |-> end]

(* The range: now and the longest span by default, in order, clipped.      *)
RangeOf(from, to) ==
  LET given == AsGiven(from, to)
      start == Lesser(given.from, given.to)
      end == Greater(given.from, given.to)
  IN [from |-> IF end - start > MaxSpan THEN end - MaxSpan ELSE start, to |-> end]

(* What the SELECT takes, before the bars are cut.                         *)
Selected(row, range) ==
  /\ row.created <= range.to
  /\ row.duration > 0 => row.created + row.duration >= range.from

EndOf(row, location) ==
  IF row.duration > 0 THEN row.created + row.duration
  ELSE IF location = "vps" /\ now - row.created <= Fresh THEN now
       ELSE row.created + Stub

Bars(r, taken, location, range) ==
  {[recording |-> r, start |-> row.created, end |-> EndOf(row, location),
    location |-> location] :
     row \in {w \in taken : /\ Selected(w, range) /\ w.created > 0
                            /\ EndOf(w, location) >= range.from
                            /\ w.created <= range.to}}

LiveEnd(b) == IF b.ended = None THEN now ELSE b.ended

LiveBars(range) ==
  {[start |-> b.started, end |-> LiveEnd(b)] :
     b \in {c \in live : c.started <= range.to /\ LiveEnd(c) >= range.from}}

Meets(start, end, range) == \E t \in range.from..range.to : start <= t /\ t <= end

(* `due': the recordings whose measured capture meets the range; not one   *)
(* that was measured after its deletion had read the row.                  *)
Due(range) ==
  {r \in Recording :
     \E row \in tombs[r] \cup ({rows[r]} \ {None}) :
       /\ row.created > 0 /\ row.duration > 0
       /\ erasing[r] # None => erasing[r].row = row
       /\ Meets(row.created, row.created + row.duration, range)}

QueryLive ==
  /\ query = None /\ asked < MaxQueries
  /\ \E from, to \in 0..MaxTime :
       LET range == RangeOf(from, to)
       IN query' = [at |-> "rows", range |-> range, live |-> LiveBars(range),
                    bars |-> {}, due |-> Due(range)]
  /\ asked' = asked + 1
  /\ UNCHANGED <<now, rows, tombs, erasing, live, answer>>

RowBars(range) ==
  UNION {Bars(r, {rows[r]} \ {None}, "vps", range) : r \in Recording}
TombBars(range) == UNION {Bars(r, tombs[r], "history", range) : r \in Recording}

QueryTables(first, second) ==
  /\ query # None
  /\ \/ /\ query.at = "rows"
        /\ query' = [query EXCEPT !.at = "tombs", !.bars = first]
        /\ UNCHANGED answer
     \/ /\ query.at = "tombs"
        /\ answer' = [range |-> query.range, live |-> query.live,
                      bars |-> query.bars \cup second, due |-> query.due]
        /\ query' = None
  /\ UNCHANGED <<now, rows, tombs, erasing, live, asked>>

QueryReads == QueryTables(RowBars(query.range), TombBars(query.range))

Next ==
  \/ Tick \/ GoesLive \/ EndsLive \/ QueryLive \/ QueryReads
  \/ \E r \in Recording : \/ Index(r) \/ Measure(r) \/ Drop(r)
                          \/ EraseReads(r) \/ EraseArchives(r) \/ EraseDeletes(r)

Spec == Init /\ [][Next]_vars

(* A capture of known length that meets the range is on the chart, whatever *)
(* step its deletion has reached and whichever table was read when (the    *)
(* tombstone is written before the row goes, the rows are read before the  *)
(* tombstones: database.py:2001, 949); one dropped with no tombstone       *)
(* meanwhile, or measured after its deletion read it, is not due.          *)
CapturesStayCharted ==
  answer # None => answer.due \subseteq {b.recording : b \in answer.bars}
=============================================================================
