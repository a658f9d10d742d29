------------------------- MODULE DownloadQueueProofs -------------------------
(* The download queue's index, the limits and work conservation of its      *)
(* claims, and its pauses, for every set of items, every grouping into      *)
(* projects, every limit and every bound.                                   *)
EXTENDS DownloadQueue, ListOrderProofs

\* The inductive invariant: the types, and the agreement of list and dictionaries.
IInv == TypeOK /\ IndexConsistent

\* Removing tasks from the list and from both dictionaries keeps them in agreement.
LEMMA RemoveKeepsIndex ==
  ASSUME IInv, NEW gone, gone \subseteq Live, Remove(gone), UNCHANGED nextId,
         DOMAIN projectPaused' \subseteq Project,
         \A p \in DOMAIN projectPaused' : projectPaused'[p] \in BOOLEAN
  PROVE  IInv'
<1> USE DEF IInv
<1>1. /\ tasks' \in Seq(TaskId)
      /\ IsInjective(tasks')
      /\ Live' = Live \ gone
  <2>1. /\ Keep(tasks, Live \ gone) \in Seq(TaskId)
        /\ IsInjective(Keep(tasks, Live \ gone))
        /\ Range(Keep(tasks, Live \ gone)) = Range(tasks) \cap (Live \ gone)
    BY KeepLists DEF TypeOK, IndexConsistent
  <2>2. QED
    BY <2>1 DEF Remove, Live
<1>2. /\ DOMAIN byTask' = DOMAIN byTask \ gone
      /\ \A t \in DOMAIN byTask' : byTask'[t] = byTask[t]
  BY DEF Remove, Restrict
<1>3. /\ DOMAIN byItem' = {i \in DOMAIN byItem : byItem[i] \notin gone}
      /\ \A i \in DOMAIN byItem' : byItem'[i] = byItem[i]
  BY DEF Remove, ItemsAfterRemoval
<1>4. TypeOK'
  BY <1>1, <1>2, <1>3 DEF TypeOK
<1>5. IndexConsistent'
  BY <1>1, <1>2, <1>3 DEF IndexConsistent, TypeOK
<1>6. QED
  BY <1>4, <1>5

\* A step that only changes statuses keeps the index.
LEMMA UpdateKeepsIndex ==
  ASSUME IInv, UNCHANGED <<tasks, byItem, nextId>>,
         NEW S, NEW f, byTask' = Updated(S, f), S \subseteq Live,
         \A t \in S : f[t] \in Task /\ f[t].item = byTask[t].item,
         DOMAIN projectPaused' \subseteq Project,
         \A p \in DOMAIN projectPaused' : projectPaused'[p] \in BOOLEAN
  PROVE  IInv'
<1>1. DOMAIN byTask' = DOMAIN byTask
  BY DEF Updated
<1>2. \A t \in DOMAIN byTask : byTask'[t] \in Task /\ byTask'[t].item = byTask[t].item
  BY DEF Updated, IInv, TypeOK
<1>3. TypeOK'
  BY <1>1, <1>2 DEF IInv, TypeOK
<1>4. IndexConsistent'
  BY <1>1, <1>2 DEF IInv, IndexConsistent, TypeOK, Live
<1>5. QED
  BY <1>3, <1>4 DEF IInv

\* A step that only rearranges the movable tasks behind the fixed ones keeps the index.
LEMMA ReorderKeepsIndex ==
  ASSUME IInv, NEW key, IsKey(Movable, key),
         tasks' = Fixed \o InOrder(Movable, key),
         UNCHANGED <<byTask, byItem, projectPaused, nextId>>
  PROVE  IInv'
<1>1. /\ IsFiniteSet(Live) /\ Live \subseteq TaskId
      /\ Movable \in SUBSET Live
  BY RangeFinite DEF IInv, TypeOK, Live, Movable, HasStatus
<1>2. IsFiniteSet(Movable)
  BY <1>1, FS_Subset
<1>3. /\ InOrder(Movable, key) \in Seq(TaskId)
      /\ Range(InOrder(Movable, key)) = Movable
      /\ IsInjective(InOrder(Movable, key))
  BY <1>1, <1>2, InOrderLists DEF IsInjective
<1>4. /\ Fixed \in Seq(TaskId)
      /\ Range(Fixed) = Live \ Movable
      /\ IsInjective(Fixed)
  <2>1. /\ Keep(tasks, Live \ Movable) \in Seq(TaskId)
        /\ IsInjective(Keep(tasks, Live \ Movable))
        /\ Range(Keep(tasks, Live \ Movable)) = Range(tasks) \cap (Live \ Movable)
    BY KeepLists DEF IInv, TypeOK, IndexConsistent
  <2>2. QED
    BY <2>1 DEF Fixed, Live
<1>5. /\ tasks' \in Seq(TaskId)
      /\ IsInjective(tasks')
      /\ Live' = Live
  <2>1. Range(Fixed) \cap Range(InOrder(Movable, key)) = {}
    BY <1>3, <1>4
  <2> DEFINE c == Fixed \o InOrder(Movable, key)
  <2>2. /\ c \in Seq(TaskId)
        /\ IsInjective(c)
        /\ Range(c) = Range(Fixed) \cup Range(InOrder(Movable, key))
    BY <1>3, <1>4, <2>1, ConcatLists
  <2>3. Range(c) = Live
    BY <1>1, <1>3, <1>4, <2>2
  <2>4. tasks' = c
    OBVIOUS
  <2> HIDE DEF c
  <2>5. QED
    BY <2>2, <2>3, <2>4 DEF Live
<1>6. QED
  BY <1>5 DEF IInv, TypeOK, IndexConsistent

\* The places of distinct entries order every set of live tasks.
LEMMA TaskPlaces ==
  ASSUME IInv
  PROVE  /\ IsFiniteSet(Live) /\ Live \subseteq TaskId
         /\ Len(tasks) \in Nat
         /\ \A t \in Live : Places(tasks)[t] \in 1 .. Len(tasks)
         /\ \A t, u \in Live : Places(tasks)[t] = Places(tasks)[u] => t = u
<1>1. IsFiniteSet(Live) /\ Live \subseteq TaskId
  BY RangeFinite DEF IInv, TypeOK, Live
<1>2. tasks \in Seq(TaskId) /\ IsInjective(tasks)
  BY DEF IInv, TypeOK, IndexConsistent
<1>3. /\ IsKey(Live, Places(tasks))
      /\ \A t \in Live : Places(tasks)[t] \in DOMAIN tasks
  BY <1>2, PlacesIsKey DEF Live
<1>4. QED
  BY <1>1, <1>2, <1>3 DEF IsKey

\* Both orders that reorder may ask for give each movable task a key of its own.
LEMMA TaskKeyIsKey ==
  ASSUME IInv, NEW wanted \in Lists(Live)
  PROVE  IsKey(Movable, TaskKey(wanted))
<1>1. wanted \in Seq(Live) /\ IsInjective(wanted) /\ Len(wanted) \in Nat
      /\ DOMAIN wanted = 1 .. Len(wanted)
  <2>1. PICK n \in 1 .. Cardinality(Live) : wanted \in [1 .. n -> Live]
    BY DEF Lists
  <2>2. n \in Nat
    OBVIOUS
  <2>3. QED
    BY <2>1, <2>2 DEF Lists
<1>2. \A t \in Range(wanted) : Places(wanted)[t] \in 1 .. Len(wanted)
                               /\ wanted[Places(wanted)[t]] = t
  BY <1>1, PlacesIsKey
<1>3. Movable \subseteq Live
  BY DEF Movable, HasStatus
<1>4. ASSUME NEW t \in Movable
      PROVE  /\ t \in Range(wanted) => TaskKey(wanted)[t] = Places(wanted)[t]
             /\ t \notin Range(wanted) => TaskKey(wanted)[t] = Len(wanted) + Places(tasks)[t]
  BY DEF TaskKey
<1>5. QED
  BY <1>1, <1>2, <1>3, <1>4, TaskPlaces DEF IsKey

\* Pairs of a block and a place within the block are in one-to-one order.
LEMMA BlockKey ==
  ASSUME NEW n \in Nat, NEW a \in Int, NEW b \in Int, NEW i \in 1 .. n, NEW j \in 1 .. n,
         a * (n + 1) + i = b * (n + 1) + j
  PROVE  i = j
<1>1. ASSUME NEW c \in Int, NEW d \in Int, c < d
      PROVE  c * (n + 1) + (n + 1) <= d * (n + 1)
  <2>1. d - c >= 1 /\ d - c \in Int
    BY <1>1
  <2>2. (d - c) * (n + 1) >= n + 1
    BY <2>1
  <2>3. (d - c) * (n + 1) = d * (n + 1) - c * (n + 1)
    OBVIOUS
  <2>4. c * (n + 1) \in Int /\ d * (n + 1) \in Int
    OBVIOUS
  <2>5. QED
    BY <2>2, <2>3, <2>4
<1>2. a * (n + 1) \in Int /\ b * (n + 1) \in Int
  OBVIOUS
<1>3. ~ (a < b)
  <2>1. SUFFICES ASSUME a < b PROVE FALSE
    OBVIOUS
  <2>2. a * (n + 1) + (n + 1) <= b * (n + 1)
    BY <1>1, <2>1
  <2>3. QED
    BY <1>2, <2>2
<1>4. ~ (b < a)
  <2>1. SUFFICES ASSUME b < a PROVE FALSE
    OBVIOUS
  <2>2. b * (n + 1) + (n + 1) <= a * (n + 1)
    BY <1>1, <2>1
  <2>3. QED
    BY <1>2, <2>2
<1>5. a = b
  BY <1>3, <1>4
<1>6. QED
  BY <1>2, <1>5

LEMMA ProjectKeyIsKey ==
  ASSUME IInv, NEW wanted \in Lists(Project)
  PROVE  IsKey(Movable, ProjectKey(wanted))
<1>1. wanted \in Seq(Project) /\ IsInjective(wanted) /\ Len(wanted) \in Nat
      /\ DOMAIN wanted = 1 .. Len(wanted)
  <2>1. PICK n \in 1 .. Cardinality(Project) : wanted \in [1 .. n -> Project]
    BY DEF Lists
  <2>2. n \in Nat
    OBVIOUS
  <2>3. QED
    BY <2>1, <2>2 DEF Lists
<1>2. \A p \in Range(wanted) : Places(wanted)[p] \in 1 .. Len(wanted)
  BY <1>1, PlacesIsKey
<1>3. Movable \in SUBSET Live
  BY DEF Movable, HasStatus
<1>4. IsFiniteSet(Movable)
  BY <1>3, TaskPlaces, FS_Subset
<1>5. \A t : Rank(Movable, Places(tasks), t) \in Nat
  <2> SUFFICES ASSUME NEW t PROVE Rank(Movable, Places(tasks), t) \in Nat
    OBVIOUS
  <2> DEFINE R == {y \in Movable : Places(tasks)[y] <= Places(tasks)[t]}
  <2>1. R \in SUBSET Movable
    OBVIOUS
  <2> HIDE DEF R
  <2>2. Cardinality(R) \in Nat
    BY <1>4, <2>1, FS_Subset, FS_CardinalityType
  <2>3. QED
    BY <2>2 DEF Rank, R
<1>6. \A p : ProjectPlace(wanted, p) \in Int
  BY <1>1, <1>2, <1>5 DEF ProjectPlace
<1>7. \A t \in Movable : ProjectKey(wanted)[t]
         = ProjectPlace(wanted, Proj(t)) * (Len(tasks) + 1) + Places(tasks)[t]
  BY DEF ProjectKey
<1>8. ASSUME NEW t \in Movable PROVE ProjectKey(wanted)[t] \in Int
  <2>1. /\ ProjectPlace(wanted, Proj(t)) \in Int
        /\ Len(tasks) \in Nat
        /\ Places(tasks)[t] \in Int
    BY <1>3, <1>6, TaskPlaces
  <2>2. QED
    BY <1>7, <2>1
<1>9. ASSUME NEW t \in Movable, NEW u \in Movable,
             ProjectKey(wanted)[t] = ProjectKey(wanted)[u]
      PROVE  t = u
  <2>1. /\ ProjectPlace(wanted, Proj(t)) \in Int /\ ProjectPlace(wanted, Proj(u)) \in Int
        /\ Len(tasks) \in Nat
        /\ Places(tasks)[t] \in 1 .. Len(tasks) /\ Places(tasks)[u] \in 1 .. Len(tasks)
    BY <1>3, <1>6, TaskPlaces
  <2>2. Places(tasks)[t] = Places(tasks)[u]
    BY <1>7, <1>9, <2>1, BlockKey
  <2>3. QED
    BY <1>3, <2>2, TaskPlaces
<1>10. QED
  BY <1>8, <1>9 DEF IsKey

\* sort_append_batch gives each item of a batch a place of its own.
LEMMA BatchKeyIsKey ==
  ASSUME NEW status
  PROVE  \A S \in SUBSET Item : IsFiniteSet(S) /\ (
           (\A i, j \in S : BatchKey(status)[i] = BatchKey(status)[j] => i = j)
             => IsKey(S, BatchKey(status)))
<1>1. Cardinality(Item) \in Nat
  BY ItemAssumption, FS_CardinalityType
<1>2. \A i \in Item : ClipOrder[i] \in Int
  BY <1>1, ItemAssumption
<1>3. \A i \in Item : ReadyRank(status[ProjectOf[i]]) \in {0, 1, 2}
  BY DEF ReadyRank
<1>4. \A i \in Item : BatchKey(status)[i] \in Int
  BY <1>1, <1>2, <1>3 DEF BatchKey
<1>5. QED
  BY <1>4, ItemAssumption, FS_Subset DEF IsKey

LEMMA BatchKeyInjective ==
  ASSUME NEW status, NEW i \in Item, NEW j \in Item,
         BatchKey(status)[i] = BatchKey(status)[j]
  PROVE  i = j
<1> DEFINE n == Cardinality(Item)
           a == ReadyRank(status[ProjectOf[i]])
           b == ReadyRank(status[ProjectOf[j]])
<1>1. n \in Nat
  BY ItemAssumption, FS_CardinalityType
<1>2. ClipOrder[i] \in 0 .. n - 1 /\ ClipOrder[j] \in 0 .. n - 1
  BY ItemAssumption
<1>3. a \in {0, 1, 2} /\ b \in {0, 1, 2}
  BY DEF ReadyRank
<1>4. a * n + ClipOrder[i] = b * n + ClipOrder[j]
  BY DEF BatchKey
<1> HIDE DEF n, a, b
<1>5. ClipOrder[i] = ClipOrder[j]
  BY <1>1, <1>2, <1>3, <1>4
<1>6. QED
  BY <1>5, ItemAssumption DEF IsInjective

\* append_batch keeps the index: a failed task leaves before its item is queued anew.
LEMMA AppendKeepsIndex ==
  ASSUME IInv, NEW batch \in SUBSET Item, NEW status, AppendBatch(batch, status)
  PROVE  IInv'
<1> DEFINE fresh  == {i \in batch : ~ IsQueued(i)}
           key    == BatchKey(status)
           sorted == InOrder(fresh, key)
           n      == Cardinality(fresh)
           failed == {byItem[i] : i \in fresh \cap DOMAIN byItem}
           newIds == nextId .. (nextId + n - 1)
           added  == [k \in 1 .. n |-> nextId - 1 + k]
           kept   == Keep(tasks, Live \ failed)
<1>1. fresh \in SUBSET Item
  OBVIOUS
<1>2. IsFiniteSet(fresh) /\ IsKey(fresh, key)
  BY <1>1, BatchKeyIsKey, BatchKeyInjective
<1>3. /\ nextId + n <= MaxTaskId + 1
      /\ tasks' = kept \o added
      /\ byTask' = [t \in (DOMAIN byTask \ failed) \cup newIds |->
                      IF t \in newIds
                      THEN [item |-> sorted[t - nextId + 1], status |-> "queued"]
                      ELSE byTask[t]]
      /\ byItem' = [i \in DOMAIN byItem \cup fresh |->
                      IF i \in fresh THEN nextId - 1 + Rank(fresh, key, i) ELSE byItem[i]]
      /\ projectPaused' = [p \in DOMAIN projectPaused \cup {ProjectOf[i] : i \in fresh} |->
                              IsPaused(p)]
      /\ nextId' = nextId + n
  BY Zenon DEF AppendBatch
<1>4. n \in Nat /\ nextId \in 1 .. MaxTaskId + 1 /\ MaxTaskId \in Nat
  BY <1>2, FS_CardinalityType, LimitAssumption DEF IInv, TypeOK
<1>5. /\ sorted \in Seq(fresh) /\ Len(sorted) = n /\ DOMAIN sorted = 1 .. n
      /\ \A i, j \in 1 .. n : sorted[i] = sorted[j] => i = j
      /\ \A k \in 1 .. n : sorted[k] \in fresh /\ Rank(fresh, key, sorted[k]) = k
  <2>1. /\ sorted \in Seq(fresh) /\ Len(sorted) = n
        /\ \A i, j \in DOMAIN sorted : sorted[i] = sorted[j] => i = j
        /\ \A k \in DOMAIN sorted : Rank(fresh, key, sorted[k]) = k
    BY <1>2, InOrderLists
  <2> HIDE DEF sorted, n, fresh, key
  <2>2. QED
    BY <1>4, <2>1
<1>6. \A i \in fresh : /\ Rank(fresh, key, i) \in 1 .. n
                       /\ sorted[Rank(fresh, key, i)] = i
  <2>1. \A i \in fresh : Rank(fresh, key, i) \in 1 .. n
    BY <1>2, RankType
  <2>2. \A i, j \in fresh : Rank(fresh, key, i) = Rank(fresh, key, j) => i = j
    BY <1>2, RankBijective
  <2>3. QED
    BY <1>5, <2>1, <2>2
<1>7. ASSUME NEW i \in DOMAIN byItem PROVE byItem[i] \in failed <=> i \in fresh
  BY <1>7 DEF IInv, TypeOK, IndexConsistent
<1>8. \A t \in DOMAIN byTask : t \in TaskId /\ t < nextId /\ t \notin newIds
  BY <1>4 DEF IInv, TypeOK, IndexConsistent, TaskId
<1> HIDE DEF fresh, key, sorted, n, failed, newIds, added, kept
<1>9. /\ kept \in Seq(TaskId) /\ IsInjective(kept)
      /\ Range(kept) = Live \ failed
  BY KeepLists DEF IInv, TypeOK, IndexConsistent, kept, Live
<1>10. /\ added \in Seq(TaskId) /\ IsInjective(added)
       /\ Range(added) = newIds
  <2>1. \A k \in 1 .. n : nextId - 1 + k \in TaskId
    BY <1>3, <1>4 DEF TaskId
  <2>2. added \in [1 .. n -> TaskId]
    BY <2>1 DEF added
  <2>3. added \in Seq(TaskId) /\ DOMAIN added = 1 .. n
    BY <1>4, <2>2
  <2>4. IsInjective(added)
    BY <1>4 DEF added, IsInjective
  <2>5. ASSUME NEW t \in newIds PROVE t \in Range(added)
    <3>1. t - nextId + 1 \in 1 .. n /\ nextId - 1 + (t - nextId + 1) = t
      BY <1>4 DEF newIds
    <3>2. QED
      BY <3>1 DEF added, Range
  <2>6. ASSUME NEW k \in 1 .. n PROVE added[k] \in newIds
    BY <1>4 DEF newIds, added
  <2>7. QED
    BY <2>3, <2>4, <2>5, <2>6 DEF Range
<1>11. /\ tasks' \in Seq(TaskId) /\ IsInjective(tasks')
       /\ Live' = (Live \ failed) \cup newIds
  <2>1. Range(kept) \cap Range(added) = {}
    BY <1>8, <1>9, <1>10 DEF IInv, IndexConsistent
  <2>2. /\ kept \o added \in Seq(TaskId) /\ IsInjective(kept \o added)
        /\ Range(kept \o added) = Range(kept) \cup Range(added)
    BY <1>9, <1>10, <2>1, ConcatLists
  <2>3. QED
    BY <1>3, <1>9, <1>10, <2>2 DEF Live
<1>12. newIds \subseteq TaskId
  BY <1>3, <1>4 DEF newIds, TaskId
<1>13. \A t \in newIds : t - nextId + 1 \in 1 .. n
  BY <1>4 DEF newIds
<1>14. TypeOK'
  <2>1. DOMAIN byTask' \subseteq TaskId
    BY <1>3, <1>8, <1>12
  <2>2. \A t \in DOMAIN byTask' : byTask'[t] \in Task
    BY <1>1, <1>3, <1>5, <1>13 DEF IInv, TypeOK, Task, Status
  <2>3. DOMAIN byItem' \subseteq Item
    BY <1>1, <1>3 DEF IInv, TypeOK
  <2>4. \A i \in fresh : nextId - 1 + Rank(fresh, key, i) \in TaskId
    BY <1>3, <1>4, <1>6 DEF TaskId
  <2>5. \A i \in DOMAIN byItem' : byItem'[i] \in TaskId
    BY <1>3, <2>4 DEF IInv, TypeOK
  <2>6. /\ DOMAIN projectPaused' \subseteq Project
        /\ \A p \in DOMAIN projectPaused' : projectPaused'[p] \in BOOLEAN
    BY <1>1, <1>3, ItemAssumption DEF IInv, TypeOK, IsPaused
  <2>7. nextId' \in 1 .. MaxTaskId + 1
    BY <1>3, <1>4
  <2>8. QED
    BY <1>11, <2>1, <2>2, <2>3, <2>5, <2>6, <2>7 DEF TypeOK, TaskId
<1>15. IndexConsistent'
  <2>1. Live' = DOMAIN byTask'
    BY <1>3, <1>11 DEF IInv, IndexConsistent
  <2>2. ASSUME NEW t \in DOMAIN byTask'
        PROVE  byTask'[t].item \in DOMAIN byItem' /\ byItem'[byTask'[t].item] = t
    <3>1. CASE t \in newIds
      <4>1. byTask'[t].item = sorted[t - nextId + 1]
        BY <1>3, <3>1
      <4>2. /\ sorted[t - nextId + 1] \in fresh
            /\ Rank(fresh, key, sorted[t - nextId + 1]) = t - nextId + 1
        BY <1>5, <1>13, <3>1
      <4>3. byItem'[sorted[t - nextId + 1]] = nextId - 1 + (t - nextId + 1)
        BY <1>3, <4>2
      <4>4. nextId - 1 + (t - nextId + 1) = t
        BY <1>4, <3>1 DEF newIds
      <4>5. QED
        BY <1>3, <4>1, <4>2, <4>3, <4>4
    <3>2. CASE t \notin newIds
      <4>1. t \in DOMAIN byTask /\ t \notin failed /\ byTask'[t] = byTask[t]
        BY <1>3, <3>2
      <4>2. byTask[t].item \in DOMAIN byItem /\ byItem[byTask[t].item] = t
        BY <4>1 DEF IInv, IndexConsistent
      <4>3. byTask[t].item \notin fresh
        BY <1>7, <4>1, <4>2
      <4>4. QED
        BY <1>3, <4>1, <4>2, <4>3
    <3>3. QED
      BY <3>1, <3>2
  <2>3. ASSUME NEW i \in DOMAIN byItem'
        PROVE  byItem'[i] \in DOMAIN byTask' /\ byTask'[byItem'[i]].item = i
    <3>1. CASE i \in fresh
      <4>1. byItem'[i] = nextId - 1 + Rank(fresh, key, i)
        BY <1>3, <3>1
      <4>2. byItem'[i] \in newIds /\ byItem'[i] - nextId + 1 = Rank(fresh, key, i)
        BY <1>4, <1>6, <3>1, <4>1 DEF newIds
      <4>3. QED
        BY <1>3, <1>6, <3>1, <4>2
    <3>2. CASE i \notin fresh
      <4>1. i \in DOMAIN byItem /\ byItem'[i] = byItem[i]
        BY <1>3, <3>2
      <4>2. byItem[i] \in DOMAIN byTask /\ byTask[byItem[i]].item = i
        BY <4>1 DEF IInv, IndexConsistent
      <4>3. byItem[i] \notin failed /\ byItem[i] \notin newIds
        BY <1>7, <1>8, <3>2, <4>1, <4>2
      <4>4. QED
        BY <1>3, <4>1, <4>2, <4>3
    <3>3. QED
      BY <3>1, <3>2
  <2>4. \A t \in DOMAIN byTask' : t < nextId'
    <3>1. \A t \in newIds : t < nextId + n
      BY <1>4 DEF newIds
    <3>2. \A t \in DOMAIN byTask : t < nextId + n
      BY <1>4, <1>8 DEF TaskId
    <3>3. QED
      BY <1>3, <3>1, <3>2
  <2>5. QED
    BY <1>11, <2>1, <2>2, <2>3, <2>4 DEF IndexConsistent
<1>16. QED
  BY <1>14, <1>15 DEF IInv

\* What pause, resume and delete leave of the project flags is a map of projects to flags.
LEMMA FlagsTyped ==
  ASSUME IInv, NEW T, NEW P \in SUBSET Project, NEW flag \in BOOLEAN
  PROVE  /\ DOMAIN FlagProjects(T, P, flag) \subseteq Project
         /\ \A p \in DOMAIN FlagProjects(T, P, flag) : FlagProjects(T, P, flag)[p] \in BOOLEAN
  BY DEF FlagProjects, IInv, TypeOK

LEMMA TargetsLive ==
  ASSUME NEW T, NEW P
  PROVE  Targets(T, P) \subseteq Live
  BY DEF Targets

\* One heartbeat's rows keep the index: finished tasks leave list and dictionaries together.
LEMMA ProgressKeepsIndex ==
  ASSUME IInv, NEW items \in SUBSET DOMAIN byItem, NEW rows \in [items -> Report],
         UpdateProgress(rows)
  PROVE  IInv'
<1> DEFINE done == {t \in Reported(rows) : ReportOf(rows, t) = "complete"}
<1>1. /\ tasks' = Keep(tasks, Live \ done)
      /\ byTask' = [t \in DOMAIN byTask \ done |->
                      IF t \in Reported(rows)
                      THEN [byTask[t] EXCEPT !.status = StatusAfter(byTask[t], ReportOf(rows, t))]
                      ELSE byTask[t]]
      /\ byItem' = ItemsAfterRemoval(done)
      /\ UNCHANGED <<projectPaused, nextId>>
  BY DEF UpdateProgress
<1>2. done \subseteq DOMAIN byTask
  BY DEF Reported
<1> HIDE DEF done
<1>3. \A report : \A t \in DOMAIN byTask : StatusAfter(byTask[t], report) \in Status
  BY DEF StatusAfter, Status, IInv, TypeOK, Task
<1>4. /\ DOMAIN byTask' = DOMAIN byTask \ done
      /\ \A t \in DOMAIN byTask' : byTask'[t] \in Task /\ byTask'[t].item = byTask[t].item
  BY <1>1, <1>3 DEF IInv, TypeOK, Task
<1>5. /\ tasks' \in Seq(TaskId) /\ IsInjective(tasks')
      /\ Live' = Live \ done
  <2>1. /\ Keep(tasks, Live \ done) \in Seq(TaskId)
        /\ IsInjective(Keep(tasks, Live \ done))
        /\ Range(Keep(tasks, Live \ done)) = Range(tasks) \cap (Live \ done)
    BY KeepLists DEF IInv, TypeOK, IndexConsistent
  <2>2. QED
    BY <1>1, <2>1 DEF Live
<1>6. /\ DOMAIN byItem' = {i \in DOMAIN byItem : byItem[i] \notin done}
      /\ \A i \in DOMAIN byItem' : byItem'[i] = byItem[i]
  BY <1>1 DEF ItemsAfterRemoval
<1>7. TypeOK'
  BY <1>1, <1>4, <1>5, <1>6 DEF IInv, TypeOK
<1>8. IndexConsistent'
  BY <1>1, <1>2, <1>4, <1>5, <1>6 DEF IInv, TypeOK, IndexConsistent
<1>9. QED
  BY <1>7, <1>8 DEF IInv

\* claim_next only turns queued tasks of the list into downloading ones.
LEMMA ClaimedLive ==
  ASSUME NEW p, NEW f
  PROVE  Claimed(p, f) \subseteq HasStatus({"queued"})
  BY DEF Claimed, FirstN, Eligible, Claimable

LEMMA NextKeepsIndex ==
  ASSUME IInv, [Next]_vars
  PROVE  IInv'
<1>1. ASSUME NEW batch \in SUBSET Item, NEW status, AppendBatch(batch, status)
      PROVE  IInv'
  BY <1>1, AppendKeepsIndex
<1>2. ASSUME NEW wanted \in Lists(Project), ReorderProjects(wanted)
      PROVE  IInv'
  <2>1. IsKey(Movable, ProjectKey(wanted))
    BY <1>2, ProjectKeyIsKey
  <2>2. QED
    BY <1>2, <2>1, ReorderKeepsIndex DEF ReorderProjects
<1>3. ASSUME NEW wanted \in Lists(Live), ReorderTasks(wanted)
      PROVE  IInv'
  <2>1. IsKey(Movable, TaskKey(wanted))
    BY <1>3, TaskKeyIsKey
  <2>2. QED
    BY <1>3, <2>1, ReorderKeepsIndex DEF ReorderTasks
<1>4. ASSUME NEW T \in SUBSET Live, NEW P \in SUBSET Project, Pause(T, P)
      PROVE  IInv'
  <2> DEFINE S == Targets(T, P) \cap HasStatus({"queued", "downloading"})
             f == [t \in S |-> [byTask[t] EXCEPT !.status = "paused"]]
  <2>1. S \subseteq Live /\ S \subseteq DOMAIN byTask
    BY TargetsLive DEF IInv, IndexConsistent
  <2>2. \A t \in S : f[t] \in Task /\ f[t].item = byTask[t].item
    BY <2>1 DEF IInv, TypeOK, Task, Status
  <2>3. byTask' = Updated(S, f)
    BY <1>4 DEF Pause
  <2>4. UNCHANGED <<tasks, byItem, nextId>>
    BY <1>4 DEF Pause
  <2>5. /\ DOMAIN projectPaused' \subseteq Project
        /\ \A p \in DOMAIN projectPaused' : projectPaused'[p] \in BOOLEAN
    <3>1. TRUE \in BOOLEAN
      OBVIOUS
    <3>2. /\ DOMAIN FlagProjects(T, P, TRUE) \subseteq Project
          /\ \A p \in DOMAIN FlagProjects(T, P, TRUE) :
                FlagProjects(T, P, TRUE)[p] \in BOOLEAN
      BY <3>1, FlagsTyped
    <3>3. projectPaused' = FlagProjects(T, P, TRUE)
      BY <1>4 DEF Pause
    <3>4. QED
      BY <3>2, <3>3
  <2> HIDE DEF S, f
  <2>6. QED
    BY <2>1, <2>2, <2>3, <2>4, <2>5, UpdateKeepsIndex
<1>5. ASSUME NEW T \in SUBSET Live, NEW P \in SUBSET Project, Resume(T, P)
      PROVE  IInv'
  <2> DEFINE S == Targets(T, P) \cap HasStatus({"paused"})
             f == [t \in S |-> [byTask[t] EXCEPT !.status = "queued"]]
  <2>1. S \subseteq Live /\ S \subseteq DOMAIN byTask
    BY TargetsLive DEF IInv, IndexConsistent
  <2>2. \A t \in S : f[t] \in Task /\ f[t].item = byTask[t].item
    BY <2>1 DEF IInv, TypeOK, Task, Status
  <2>3. byTask' = Updated(S, f)
    BY <1>5 DEF Resume
  <2>4. UNCHANGED <<tasks, byItem, nextId>>
    BY <1>5 DEF Resume
  <2>5. /\ DOMAIN projectPaused' \subseteq Project
        /\ \A p \in DOMAIN projectPaused' : projectPaused'[p] \in BOOLEAN
    <3>1. FALSE \in BOOLEAN
      OBVIOUS
    <3>2. /\ DOMAIN FlagProjects(T, P, FALSE) \subseteq Project
          /\ \A p \in DOMAIN FlagProjects(T, P, FALSE) :
                FlagProjects(T, P, FALSE)[p] \in BOOLEAN
      BY <3>1, FlagsTyped
    <3>3. projectPaused' = FlagProjects(T, P, FALSE)
      BY <1>5 DEF Resume
    <3>4. QED
      BY <3>2, <3>3
  <2> HIDE DEF S, f
  <2>6. QED
    BY <2>1, <2>2, <2>3, <2>4, <2>5, UpdateKeepsIndex
<1>6. ASSUME NEW T \in SUBSET Live, NEW P \in SUBSET Project, Delete(T, P)
      PROVE  IInv'
  <2>1. /\ DOMAIN projectPaused' \subseteq Project
        /\ \A p \in DOMAIN projectPaused' : projectPaused'[p] \in BOOLEAN
    BY <1>6 DEF Delete, Restrict, IInv, TypeOK
  <2>2. QED
    BY <1>6, <2>1, TargetsLive, RemoveKeepsIndex DEF Delete
<1>7. ASSUME NEW items, MarkDone(items)
      PROVE  IInv'
  BY <1>7, RemoveKeepsIndex DEF MarkDone, IInv, TypeOK
<1>8. ASSUME NEW items \in SUBSET DOMAIN byItem, NEW rows \in [items -> Report],
             UpdateProgress(rows)
      PROVE  IInv'
  BY <1>8, ProgressKeepsIndex
<1>9. ASSUME NEW p, NEW f, ClaimNext(p, f)
      PROVE  IInv'
  <2> DEFINE S == Claimed(p, f)
             g == [t \in S |-> [byTask[t] EXCEPT !.status = "downloading"]]
  <2>1. S \subseteq Live /\ S \subseteq DOMAIN byTask
    BY ClaimedLive DEF IInv, IndexConsistent, HasStatus
  <2>2. \A t \in S : g[t] \in Task /\ g[t].item = byTask[t].item
    BY <2>1 DEF IInv, TypeOK, Task, Status
  <2>3. byTask' = Updated(S, g) /\ UNCHANGED <<tasks, byItem, projectPaused, nextId>>
    BY <1>9 DEF ClaimNext
  <2> HIDE DEF S, g
  <2>4. QED
    BY <2>1, <2>2, <2>3, UpdateKeepsIndex DEF IInv, TypeOK
<1>10. CASE Restart
  <2>1. /\ DOMAIN tasks' = {} /\ DOMAIN byTask' = {} /\ DOMAIN byItem' = {}
        /\ DOMAIN projectPaused' = {} /\ tasks' \in Seq(TaskId) /\ nextId' = nextId
    BY <1>10 DEF Restart
  <2>2. QED
    BY <2>1 DEF IInv, TypeOK, IndexConsistent, IsInjective, Live, Range
<1>11. CASE UNCHANGED vars
  BY <1>11 DEF vars, IInv, TypeOK, IndexConsistent, Live
<1>12. QED
  BY <1>1, <1>2, <1>3, <1>4, <1>5, <1>6, <1>7, <1>8, <1>9, <1>10, <1>11 DEF Next

----------------------------------------------------------------------------
(* claim_next *)

\* A task is worked on only when it was already, or when it was claimed.
LEMMA PausedStays ==
  ASSUME IInv, Next, NEW t \in DOMAIN byTask, t \in DOMAIN byTask',
         byTask[t].status = "paused"
  PROVE  byTask'[t].status # "downloading"
<1>0. /\ t \in Live /\ t < nextId /\ nextId \in Nat /\ t \in Int
      /\ byTask[t] \in Task
  BY LimitAssumption DEF IInv, TypeOK, IndexConsistent, TaskId
<1>1. ASSUME NEW batch \in SUBSET Item, NEW status, AppendBatch(batch, status)
      PROVE  byTask'[t] = byTask[t]
  <2> DEFINE fresh  == {i \in batch : ~ IsQueued(i)}
             newIds == nextId .. (nextId + Cardinality(fresh) - 1)
             failed == {byItem[i] : i \in fresh \cap DOMAIN byItem}
             key    == BatchKey(status)
  <2>1. byTask' = [u \in (DOMAIN byTask \ failed) \cup newIds |->
                     IF u \in newIds
                     THEN [item |-> InOrder(fresh, key)[u - nextId + 1],
                           status |-> "queued"]
                     ELSE byTask[u]]
    BY <1>1, Zenon DEF AppendBatch
  <2>2. t \notin newIds
    BY <1>0
  <2> HIDE DEF fresh, newIds, failed, key
  <2>3. QED
    BY <2>1, <2>2
<1>2. ASSUME NEW T, NEW P, Pause(T, P)
      PROVE  byTask'[t].status # "downloading"
  BY <1>0, <1>2 DEF Pause, Updated, Task
<1>3. ASSUME NEW T, NEW P, Resume(T, P)
      PROVE  byTask'[t].status # "downloading"
  BY <1>0, <1>3 DEF Resume, Updated, Task
<1>4. ASSUME NEW gone, Remove(gone)
      PROVE  byTask'[t] = byTask[t]
  BY <1>4 DEF Remove, Restrict
<1>5. ASSUME NEW rows, UpdateProgress(rows)
      PROVE  byTask'[t].status # "downloading"
  <2>1. \/ byTask'[t] = byTask[t]
        \/ \E report : byTask'[t] = [byTask[t] EXCEPT !.status = StatusAfter(byTask[t], report)]
    BY <1>5 DEF UpdateProgress
  <2>2. \A report : StatusAfter(byTask[t], report) \in {"failed", "paused"}
    BY DEF StatusAfter
  <2>3. QED
    BY <1>0, <2>1, <2>2 DEF Task
<1>6. ASSUME NEW p, NEW f, ClaimNext(p, f)
      PROVE  byTask'[t] = byTask[t]
  <2>1. t \notin Claimed(p, f)
    BY ClaimedLive DEF HasStatus
  <2>2. QED
    BY <1>6, <2>1 DEF ClaimNext, Updated
<1>7. ASSUME Restart PROVE FALSE
  BY <1>7 DEF Restart
<1>8. ASSUME NEW wanted, ReorderProjects(wanted) \/ ReorderTasks(wanted)
      PROVE  byTask'[t] = byTask[t]
  BY <1>8 DEF ReorderProjects, ReorderTasks
<1>9. QED
  BY <1>1, <1>2, <1>3, <1>4, <1>5, <1>6, <1>7, <1>8 DEF Next, Delete, MarkDone

\* The projects of finitely many tasks are finitely many.
LEMMA ProjectsFinite ==
  ASSUME IInv, NEW S \in SUBSET Live
  PROVE  IsFiniteSet(S) /\ IsFiniteSet({Proj(t) : t \in S})
<1> DEFINE r == [t \in S |-> Proj(t)]
<1>1. IsFiniteSet(S)
  BY TaskPlaces, FS_Subset
<1>2. r \in Surjection(S, {Proj(t) : t \in S})
  BY DEF Surjection
<1> HIDE DEF r
<1>3. QED
  BY <1>1, <1>2, FS_Surjection

\* The order in which claim_next opens projects and takes tasks is an order.
LEMMA ClaimOrders ==
  ASSUME IInv
  PROVE  /\ IsKey(Claimable, ClaimKey)
         /\ IsKey({Proj(t) : t \in Claimable}, FirstPlace)
<1>1. Claimable \in SUBSET Live
  BY DEF Claimable, HasStatus
<1>2. \A t \in Claimable : ClaimKey[t] \in Int
  BY <1>1, TaskPlaces DEF ClaimKey
<1>3. ASSUME NEW t \in Claimable, NEW u \in Claimable, ClaimKey[t] = ClaimKey[u]
      PROVE  t = u
  <2>1. /\ Places(tasks)[t] \in 1 .. Len(tasks) /\ Places(tasks)[u] \in 1 .. Len(tasks)
        /\ Len(tasks) \in Nat
    BY <1>1, TaskPlaces
  <2>2. Places(tasks)[t] = Places(tasks)[u]
    BY <1>3, <2>1 DEF ClaimKey
  <2>3. QED
    BY <1>1, <2>2, TaskPlaces
<1>4. ASSUME NEW p \in {Proj(t) : t \in Claimable}
      PROVE  \E t \in Claimable : Proj(t) = p /\ FirstPlace[p] = Places(tasks)[t]
  <2> DEFINE S == {t \in Claimable : Proj(t) = p}
  <2>1. S \in SUBSET Live /\ S # {}
    BY <1>1
  <2> HIDE DEF S
  <2>2. IsFiniteSet(S) /\ IsKey(S, Places(tasks))
    <3>1. IsFiniteSet(S)
      BY <2>1, ProjectsFinite
    <3>2. \A t \in S : Places(tasks)[t] \in Int
      BY <2>1, TaskPlaces
    <3>3. \A t, u \in S : Places(tasks)[t] = Places(tasks)[u] => t = u
      BY <2>1, TaskPlaces
    <3>4. QED
      BY <3>1, <3>2, <3>3 DEF IsKey
  <2>3. \E t \in S : \A u \in S : Places(tasks)[t] <= Places(tasks)[u]
    BY <2>1, <2>2, SmallestKey
  <2>4. \E t \in Claimable : /\ Proj(t) = p
                            /\ \A u \in Claimable :
                                 Proj(u) = p => Places(tasks)[t] <= Places(tasks)[u]
    BY <2>3 DEF S
  <2>5. QED
    BY <2>4 DEF FirstPlace
<1>5. \A p \in {Proj(t) : t \in Claimable} : FirstPlace[p] \in Int
  BY <1>1, <1>4, TaskPlaces
<1>6. ASSUME NEW p \in {Proj(t) : t \in Claimable}, NEW q \in {Proj(t) : t \in Claimable},
             FirstPlace[p] = FirstPlace[q]
      PROVE  p = q
  <2>1. PICK t \in Claimable, u \in Claimable :
          /\ Proj(t) = p /\ FirstPlace[p] = Places(tasks)[t]
          /\ Proj(u) = q /\ FirstPlace[q] = Places(tasks)[u]
    BY <1>4
  <2>2. t = u
    BY <1>1, <1>6, <2>1, TaskPlaces
  <2>3. QED
    BY <2>1, <2>2
<1>7. QED
  BY <1>2, <1>3, <1>5, <1>6 DEF IsKey

\* What claim_next takes, and of which projects: as many files and new projects as there
\* are slots, or all there are.
LEMMA ClaimTakes ==
  ASSUME IInv, NEW p \in Int, NEW f \in Int
  PROVE  LET taken  == Claimed(p, f)
             fresh  == {Proj(t) : t \in Claimable} \ ActiveProjects
             opened == NewProjects(p)
         IN /\ taken \subseteq Eligible(p) /\ IsFiniteSet(taken)
            /\ taken \subseteq Claimable /\ taken \cap ActiveTasks = {}
            /\ opened \subseteq fresh /\ IsFiniteSet(opened)
            /\ opened \cap ActiveProjects = {}
            /\ IsFiniteSet(ActiveTasks) /\ IsFiniteSet(ActiveProjects)
            /\ \/ taken = Eligible(p) /\ Cardinality(taken) <= FreeFiles(f)
               \/ taken = {} /\ FreeFiles(f) <= 0
               \/ Cardinality(taken) = FreeFiles(f)
            /\ \/ opened = fresh /\ Cardinality(opened) <= FreeProjects(p)
               \/ opened = {} /\ FreeProjects(p) <= 0
               \/ Cardinality(opened) = FreeProjects(p)
            /\ FreeFiles(f) \in Int /\ FreeProjects(p) \in Int
<1> DEFINE fresh == {Proj(t) : t \in Claimable} \ ActiveProjects
<1>1. /\ ActiveTasks \in SUBSET Live /\ Claimable \in SUBSET Live
      /\ Eligible(p) \in SUBSET Claimable /\ Eligible(p) \in SUBSET Live
      /\ Claimable \cap ActiveTasks = {}
  BY DEF ActiveTasks, Claimable, HasStatus, Eligible
<1>2. /\ IsFiniteSet(ActiveTasks) /\ IsFiniteSet(ActiveProjects) /\ IsFiniteSet(Eligible(p))
      /\ IsFiniteSet({Proj(t) : t \in Claimable})
  BY <1>1, ProjectsFinite DEF ActiveProjects
<1>3. IsFiniteSet(fresh)
  <2>1. fresh \in SUBSET {Proj(t) : t \in Claimable}
    OBVIOUS
  <2> HIDE DEF fresh
  <2>2. QED
    BY <1>2, <2>1, FS_Subset
<1>4. IsKey(Eligible(p), ClaimKey) /\ IsKey(fresh, FirstPlace)
  BY <1>1, ClaimOrders DEF IsKey
<1> HIDE DEF fresh
<1>5. /\ Cardinality(ActiveTasks) \in Nat /\ Cardinality(ActiveProjects) \in Nat
      /\ Cardinality(Eligible(p)) \in Nat /\ Cardinality(fresh) \in Nat
  BY <1>2, <1>3, FS_CardinalityType
<1>6. FreeFiles(f) \in Int /\ FreeProjects(p) \in Int
  BY <1>5 DEF FreeFiles, FreeProjects, NormalizeFiles, NormalizeProjects, Clamp
<1>7. /\ Claimed(p, f) \subseteq Eligible(p) /\ IsFiniteSet(Claimed(p, f))
      /\ \/ Claimed(p, f) = Eligible(p) /\ Cardinality(Claimed(p, f)) <= FreeFiles(f)
         \/ Claimed(p, f) = {} /\ FreeFiles(f) <= 0
         \/ Cardinality(Claimed(p, f)) = FreeFiles(f)
  BY <1>2, <1>4, <1>5, <1>6, FirstNSize DEF Claimed
<1>8. NewProjects(p) = FirstN(fresh, FirstPlace, FreeProjects(p))
  BY DEF NewProjects, fresh
<1>9. /\ NewProjects(p) \subseteq fresh /\ IsFiniteSet(NewProjects(p))
      /\ \/ NewProjects(p) = fresh /\ Cardinality(NewProjects(p)) <= FreeProjects(p)
         \/ NewProjects(p) = {} /\ FreeProjects(p) <= 0
         \/ Cardinality(NewProjects(p)) = FreeProjects(p)
  BY <1>3, <1>4, <1>5, <1>6, <1>8, FirstNSize
<1>10. fresh \cap ActiveProjects = {}
  BY DEF fresh
<1>11. QED
  BY <1>1, <1>2, <1>6, <1>7, <1>9, <1>10 DEF fresh

\* After a claim, what is worked on is what was, and what was claimed.
LEMMA ClaimAdds ==
  ASSUME IInv, NEW p, NEW f, ClaimNext(p, f)
  PROVE  /\ ActiveTasks' = ActiveTasks \cup Claimed(p, f)
         /\ ActiveProjects' = ActiveProjects \cup {Proj(t) : t \in Claimed(p, f)}
<1> DEFINE S == Claimed(p, f)
<1>1. S \subseteq Claimable
  BY DEF Claimed, FirstN, Eligible
<1>2. /\ DOMAIN byTask' = DOMAIN byTask /\ tasks' = tasks /\ projectPaused' = projectPaused
      /\ \A t \in DOMAIN byTask :
           byTask'[t] = IF t \in S THEN [byTask[t] EXCEPT !.status = "downloading"]
                        ELSE byTask[t]
  BY DEF ClaimNext, Updated
<1>3. /\ Live' = Live /\ Live = DOMAIN byTask
      /\ \A t \in Live : byTask[t] \in Task
  BY <1>2 DEF Live, IInv, IndexConsistent, TypeOK
<1> HIDE DEF S
<1>4. ASSUME NEW t \in Live
      PROVE  /\ Proj(t)' = Proj(t)
             /\ IsPaused(Proj(t))' = IsPaused(Proj(t))
             /\ byTask'[t].status = "downloading" <=> t \in S \/ byTask[t].status = "downloading"
  BY <1>2, <1>3, Zenon, ZenonT(20) DEF Proj, IsPaused, Task
<1>5. \A t \in S : t \in Live /\ ~ IsPaused(Proj(t))
  BY <1>1 DEF Claimable, HasStatus
<1>6. ActiveTasks' = ActiveTasks \cup S
  BY <1>3, <1>4, <1>5 DEF ActiveTasks, HasStatus
<1>7. ActiveProjects' = {Proj(t)' : t \in ActiveTasks'}
  BY DEF ActiveProjects
<1>8. ActiveTasks \cup S \subseteq Live
  BY <1>5 DEF ActiveTasks, HasStatus
<1>9. ActiveProjects' = ActiveProjects \cup {Proj(t) : t \in S}
  BY <1>4, <1>6, <1>7, <1>8 DEF ActiveProjects
<1>10. QED
  BY <1>6, <1>9 DEF S

\* Cardinalities of two finite sets that share nothing add up.
LEMMA DisjointUnion ==
  ASSUME NEW S, NEW T, IsFiniteSet(S), IsFiniteSet(T), S \cap T = {}
  PROVE  /\ Cardinality(S \cup T) = Cardinality(S) + Cardinality(T)
         /\ Cardinality(S) \in Nat /\ Cardinality(T) \in Nat
         /\ IsFiniteSet(S \cup T)
<1>1. Cardinality(S \cap T) = 0
  BY FS_EmptySet
<1>2. Cardinality(S) \in Nat /\ Cardinality(T) \in Nat
  BY FS_CardinalityType
<1>3. /\ IsFiniteSet(S \cup T)
      /\ Cardinality(S \cup T) = Cardinality(S) + Cardinality(T) - Cardinality(S \cap T)
  BY FS_Union
<1>4. QED
  BY <1>1, <1>2, <1>3

\* A claim stays within the limits, or adds nothing where they are exceeded already.
LEMMA ClaimBound ==
  ASSUME IInv, NEW p \in Int, NEW f \in Int, ClaimNext(p, f)
  PROVE  /\ Cardinality(ActiveTasks') <= Larger(NormalizeFiles(f), Cardinality(ActiveTasks))
         /\ Cardinality(ActiveProjects')
              <= Larger(NormalizeProjects(p), Cardinality(ActiveProjects))
<1> DEFINE taken  == Claimed(p, f)
           fresh  == {Proj(t) : t \in Claimable} \ ActiveProjects
           opened == NewProjects(p)
<1>1. /\ taken \subseteq Eligible(p) /\ IsFiniteSet(taken)
      /\ taken \subseteq Claimable /\ taken \cap ActiveTasks = {}
      /\ opened \subseteq fresh /\ IsFiniteSet(opened)
      /\ opened \cap ActiveProjects = {}
      /\ IsFiniteSet(ActiveTasks) /\ IsFiniteSet(ActiveProjects)
      /\ \/ taken = Eligible(p) /\ Cardinality(taken) <= FreeFiles(f)
         \/ taken = {} /\ FreeFiles(f) <= 0
         \/ Cardinality(taken) = FreeFiles(f)
      /\ \/ opened = fresh /\ Cardinality(opened) <= FreeProjects(p)
         \/ opened = {} /\ FreeProjects(p) <= 0
         \/ Cardinality(opened) = FreeProjects(p)
  BY ClaimTakes
<1>2. /\ ActiveTasks' = ActiveTasks \cup taken
      /\ ActiveProjects' = ActiveProjects \cup {Proj(t) : t \in taken}
  BY ClaimAdds
<1>3. {Proj(t) : t \in taken} \subseteq ActiveProjects \cup opened
  BY <1>1 DEF Eligible
<1> HIDE DEF taken, fresh, opened
<1>4. /\ Cardinality(ActiveTasks \cup taken) = Cardinality(ActiveTasks) + Cardinality(taken)
      /\ Cardinality(ActiveTasks) \in Nat /\ Cardinality(taken) \in Nat
  <2>1. ActiveTasks \cap taken = {}
    BY <1>1
  <2>2. QED
    BY <1>1, <2>1, DisjointUnion
<1>5. /\ Cardinality(ActiveProjects \cup opened)
           = Cardinality(ActiveProjects) + Cardinality(opened)
      /\ Cardinality(ActiveProjects) \in Nat /\ Cardinality(opened) \in Nat
      /\ IsFiniteSet(ActiveProjects \cup opened)
  <2>1. ActiveProjects \cap opened = {}
    BY <1>1
  <2>2. QED
    BY <1>1, <2>1, DisjointUnion
<1>6. Cardinality(ActiveProjects') \in Nat
      /\ Cardinality(ActiveProjects') <= Cardinality(ActiveProjects) + Cardinality(opened)
  <2>1. ActiveProjects' \in SUBSET (ActiveProjects \cup opened)
    BY <1>2, <1>3
  <2>2. QED
    BY <1>5, <2>1, FS_Subset, FS_CardinalityType
<1>7. NormalizeFiles(f) \in Int /\ NormalizeProjects(p) \in Int
  BY DEF NormalizeFiles, NormalizeProjects, Clamp
<1>8. Cardinality({}) = 0
  BY FS_EmptySet
<1>9. \/ Cardinality(taken) = 0
      \/ Cardinality(taken) <= NormalizeFiles(f) - Cardinality(ActiveTasks)
  <2>1. \/ Cardinality(taken) <= FreeFiles(f)
        \/ Cardinality(taken) = 0
    <3>1. \/ Cardinality(taken) <= FreeFiles(f)
          \/ taken = {}
          \/ Cardinality(taken) = FreeFiles(f)
      BY <1>1
    <3>2. Cardinality(taken) \in Nat
      BY <1>4
    <3>3. QED
      BY <1>8, <3>1, <3>2
  <2>2. QED
    BY <2>1 DEF FreeFiles
<1>10. \/ Cardinality(opened) = 0
       \/ Cardinality(opened) <= NormalizeProjects(p) - Cardinality(ActiveProjects)
  <2>1. \/ Cardinality(opened) <= FreeProjects(p)
        \/ Cardinality(opened) = 0
    <3>1. \/ Cardinality(opened) <= FreeProjects(p)
          \/ opened = {}
          \/ Cardinality(opened) = FreeProjects(p)
      BY <1>1
    <3>2. Cardinality(opened) \in Nat
      BY <1>5
    <3>3. QED
      BY <1>8, <3>1, <3>2
  <2>2. QED
    BY <2>1 DEF FreeProjects
<1>11. Cardinality(ActiveTasks') <= Larger(NormalizeFiles(f), Cardinality(ActiveTasks))
  BY <1>2, <1>4, <1>7, <1>9 DEF Larger
<1>12. Cardinality(ActiveProjects')
         <= Larger(NormalizeProjects(p), Cardinality(ActiveProjects))
  BY <1>5, <1>6, <1>7, <1>10 DEF Larger
<1>13. QED
  BY <1>11, <1>12

\* A claim leaves a file slot free only when no task is left that could take it.
LEMMA ClaimConserves ==
  ASSUME IInv
  PROVE  ClaimFillsSlots
<1> SUFFICES ASSUME NEW p \in ProjectLimits, NEW f \in FileLimits
    PROVE  LET taken    == Claimed(p, f)
               active   == ActiveTasks \cup taken
               projects == {Proj(t) : t \in active}
               left     == Claimable \ taken
           IN \/ Cardinality(active) >= NormalizeFiles(f)
              \/ /\ \A t \in left : Proj(t) \notin projects
                 /\ left = {} \/ Cardinality(projects) >= NormalizeProjects(p)
  BY DEF ClaimFillsSlots
<1> DEFINE taken    == Claimed(p, f)
           active   == ActiveTasks \cup taken
           projects == {Proj(t) : t \in active}
           left     == Claimable \ taken
           fresh    == {Proj(t) : t \in Claimable} \ ActiveProjects
           opened   == NewProjects(p)
<1>1. p \in Int /\ f \in Int
  BY LimitAssumption
<1>2. /\ taken \subseteq Eligible(p) /\ IsFiniteSet(taken)
      /\ taken \subseteq Claimable /\ taken \cap ActiveTasks = {}
      /\ opened \subseteq fresh /\ IsFiniteSet(opened)
      /\ opened \cap ActiveProjects = {}
      /\ IsFiniteSet(ActiveTasks) /\ IsFiniteSet(ActiveProjects)
      /\ \/ taken = Eligible(p) /\ Cardinality(taken) <= FreeFiles(f)
         \/ taken = {} /\ FreeFiles(f) <= 0
         \/ Cardinality(taken) = FreeFiles(f)
      /\ \/ opened = fresh /\ Cardinality(opened) <= FreeProjects(p)
         \/ opened = {} /\ FreeProjects(p) <= 0
         \/ Cardinality(opened) = FreeProjects(p)
  BY <1>1, ClaimTakes
<1>3. /\ Cardinality(active) = Cardinality(ActiveTasks) + Cardinality(taken)
      /\ Cardinality(ActiveTasks) \in Nat /\ Cardinality(taken) \in Nat
  <2>1. ActiveTasks \cap taken = {}
    BY <1>2
  <2> HIDE DEF taken
  <2>2. QED
    BY <1>2, <2>1, DisjointUnion
<1>4. /\ Cardinality(ActiveProjects \cup opened)
           = Cardinality(ActiveProjects) + Cardinality(opened)
      /\ Cardinality(ActiveProjects) \in Nat /\ Cardinality(opened) \in Nat
  <2>1. ActiveProjects \cap opened = {}
    BY <1>2
  <2> HIDE DEF opened
  <2>2. QED
    BY <1>2, <2>1, DisjointUnion
<1>5. NormalizeFiles(f) \in Int /\ NormalizeProjects(p) \in Int
  BY <1>1 DEF NormalizeFiles, NormalizeProjects, Clamp
<1>6. CASE taken # Eligible(p)
  <2>1. Cardinality(taken) = FreeFiles(f) \/ FreeFiles(f) <= 0
    BY <1>2, <1>6
  <2> HIDE DEF taken, active
  <2>2. Cardinality(active) >= NormalizeFiles(f)
    BY <1>3, <1>5, <2>1 DEF FreeFiles
  <2>3. QED
    BY <2>2 DEF taken, active
<1>7. CASE taken = Eligible(p)
  <2>1. opened \subseteq {Proj(t) : t \in taken}
    BY <1>2, <1>7 DEF Eligible
  <2>2. projects = ActiveProjects \cup opened
    BY <1>7, <2>1 DEF Eligible, ActiveProjects
  <2>3. \A t \in left : Proj(t) \notin ActiveProjects \cup opened
    BY <1>7 DEF Eligible
  <2>4. left = {} \/ Cardinality(projects) >= NormalizeProjects(p)
    <3>1. CASE opened = fresh
      <4>1. left = {}
        BY <2>3, <3>1
      <4>2. QED
        BY <4>1
    <3>2. CASE opened # fresh
      <4>1. Cardinality(opened) = FreeProjects(p) \/ FreeProjects(p) <= 0
        BY <1>2, <3>2
      <4> HIDE DEF opened, projects
      <4>2. Cardinality(projects) >= NormalizeProjects(p)
        BY <1>4, <1>5, <2>2, <4>1 DEF FreeProjects
      <4>3. QED
        BY <4>2
    <3>3. QED
      BY <3>1, <3>2
  <2>5. QED
    BY <2>2, <2>3, <2>4
<1>8. QED
  BY <1>6, <1>7

LEMMA IndexHolds == Spec => []IInv
<1>1. Init => IInv
  <2> SUFFICES ASSUME Init PROVE IInv
    OBVIOUS
  <2>1. /\ DOMAIN tasks = {} /\ DOMAIN byTask = {} /\ DOMAIN byItem = {}
        /\ DOMAIN projectPaused = {} /\ tasks \in Seq(TaskId) /\ nextId = 1
    BY DEF Init
  <2>2. QED
    BY <2>1, LimitAssumption DEF IInv, TypeOK, IndexConsistent, IsInjective, Live, Range
<1>2. IInv /\ [Next]_vars => IInv'
  BY NextKeepsIndex
<1>3. QED
  BY <1>1, <1>2, PTL DEF Spec

----------------------------------------------------------------------------
\* The list and both dictionaries of the queue agree in every reachable state, and every
\* item has at most one task, whatever is appended, reordered, removed or reported.
THEOREM IndexInvariance == Spec => [](TypeOK /\ IndexConsistent)
  BY IndexHolds, PTL DEF IInv

\* claim_next is work conserving: wherever the queue stands and whatever the limits, a
\* slot it leaves free is one that no claimable task could take.
THEOREM ClaimIsWorkConserving == Spec => []ClaimFillsSlots
  BY IndexHolds, ClaimConserves, PTL

\* claim_next takes neither the downloads nor the projects downloaded over the normalised
\* limits, also when a lowered limit or a late row has left them above it.
THEOREM ClaimIsBounded == Spec => ClaimStaysWithinLimits
<1>1. ASSUME IInv
      PROVE  \A p \in ProjectLimits, f \in FileLimits :
               byTask' # byTask /\ ClaimNext(p, f) =>
                 /\ Cardinality(ActiveTasks')
                      <= Larger(NormalizeFiles(f), Cardinality(ActiveTasks))
                 /\ Cardinality(ActiveProjects')
                      <= Larger(NormalizeProjects(p), Cardinality(ActiveProjects))
  BY <1>1, ClaimBound, LimitAssumption
<1>2. QED
  BY <1>1, IndexHolds, PTL DEF ClaimStaysWithinLimits

\* No step takes up a paused task: an active row that arrives after the pause leaves it
\* paused, and only resume queues it again.
THEOREM PauseIsKept == Spec => PausedNotRestarted
<1>1. ASSUME IInv, [Next]_vars
      PROVE  [\A t \in DOMAIN byTask \cap DOMAIN byTask' :
                byTask[t].status = "paused" => byTask'[t].status # "downloading"]_vars
  BY <1>1, PausedStays
<1>2. QED
  BY <1>1, IndexHolds, PTL DEF PausedNotRestarted, Spec
=============================================================================
