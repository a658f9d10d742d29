---------------------------- MODULE MCAutoStorage ----------------------------
(***************************************************************************)
(* Two parts of the server that are modelled apart, one of them in each    *)
(* behaviour: the Auto Record task with its quota, and the storage policy. *)
(* The other one rests where it begins.  A part's fairness is asked where  *)
(* that part runs.                                                         *)
(***************************************************************************)
EXTENDS AutoRecord

CONSTANTS a, c1, c2, Capture, Restarts

VARIABLES
  part,
  libraryLow, stagingLow, libraryBlocked, stagingBlocked, convertPaused, enabled,
  running, staged, starting, switching, policy, watchdog, late, restarts

Storage == INSTANCE StoragePolicy

ASSUME StorageHolds == Storage!StorageAssumption

storage == <<libraryLow, stagingLow, libraryBlocked, stagingBlocked, convertPaused, enabled,
             running, staged, starting, switching, policy, watchdog, late, restarts>>

OnlyAuto == UNCHANGED <<part, storage>>
OnlyStorage == UNCHANGED <<part, vars>>

MCInit == part \in {"auto", "storage"} /\ Init /\ Storage!Init

MCNext == \/ part = "auto" /\ Next /\ OnlyAuto
          \/ part = "storage" /\ Storage!Next /\ OnlyStorage

allVars == <<part, vars, storage>>

MCSpec ==
  /\ MCInit /\ [][MCNext]_allVars
  /\ WF_allVars(part = "auto" /\ PassStep /\ OnlyAuto)
  /\ WF_allVars(part = "auto" /\ CallStep /\ OnlyAuto)
  /\ \A k \in JobKey : WF_allVars(part = "auto" /\ CooldownEnds(k) /\ OnlyAuto)
  /\ WF_allVars(part = "storage" /\ Storage!Policy /\ OnlyStorage)
  /\ WF_allVars(part = "storage" /\ Storage!Watchdog /\ OnlyStorage)
  /\ SF_allVars(part = "storage" /\ Storage!Policy /\ staged' = staged \cap running /\ OnlyStorage)

\* Behind an engaged gate no capture runs on (StoragePolicy).
GateStopsCaptures == Storage!GateStopsCaptures
\* The staging gate is released when no file is left there (StoragePolicy).
StagingReleasedWhenClear == Storage!StagingReleasedWhenClear
\* The staging gate does not stay engaged for ever (StoragePolicy).
StagingGateReleases == Storage!StagingGateReleases
=============================================================================
