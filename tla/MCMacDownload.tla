--------------------------- MODULE MCMacDownload ---------------------------
(* Two videos whose sizes differ by one byte; the copy of the second bears the name of the *)
(* first, whose own copy was renamed.                                                      *)
EXTENDS MacDownload

CONSTANTS a, b
MCSizeOf == [i \in Item |-> IF i = a THEN 15 ELSE 16]
MCNamesakes == {<<a, b>>}
=============================================================================
