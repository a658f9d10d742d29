---------------------------- MODULE MCAutoRecord ----------------------------
(* Instances of AutoRecord for TLC. *)
EXTENDS AutoRecord
CONSTANTS a
=============================================================================
