---------------------------- MODULE MCConcatFaults ---------------------------
(***************************************************************************)
(* The queue of concatenations with faults, under two sets of bounds: the  *)
(* calls that the configuration allows with one awaited write, or fewer    *)
(* calls with writes of two handlers that are committed in either order.   *)
(***************************************************************************)
EXTENDS ConcatQueue, TLC

CONSTANTS p1, p2

ASSUME ConcatAssumption

VARIABLE part

Writes == INSTANCE ConcatQueue WITH MaxOps <- 2, MaxWrites <- 2

MCInit == part \in {"calls", "writes"} /\ Init

MCNext == \/ part = "calls" /\ Next /\ UNCHANGED part
          \/ part = "writes" /\ Writes!Next /\ UNCHANGED part

MCSpec == MCInit /\ [][MCNext]_<<part, vars>>

\* No call, handler or report names one project and not another.
Symmetry == Permutations(Project)
=============================================================================
