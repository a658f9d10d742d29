----------------------------- MODULE ListOrder -----------------------------
(***************************************************************************)
(* Python lists of distinct entries that are filtered, sorted and          *)
(* rearranged in one locked step.  Every such rearrangement is "the        *)
(* elements of a set S in increasing order of a key", where the key is a   *)
(* function that gives each element a number of its own.  The definition   *)
(* counts instead of recursing over the list, so that the provers can use  *)
(* it (SelectSeq and SortSeq take an operator and are out of their reach). *)
(***************************************************************************)
EXTENDS Integers, Sequences, FiniteSets, Functions

\* The place of x in the increasing order of S under key, counted from 1.
Rank(S, key, x) == Cardinality({y \in S : key[y] <= key[x]})

\* The list of the elements of S in increasing order of key.
InOrder(S, key) ==
  [k \in 1 .. Cardinality(S) |-> CHOOSE x \in S : Rank(S, key, x) = k]

\* Where each entry of a list of distinct entries stands.
Places(list) == [x \in Range(list) |-> CHOOSE i \in DOMAIN list : list[i] = x]

\* The list with only the entries of S, in the order they had.
Keep(list, S) == InOrder(Range(list) \cap S, Places(list))

\* The first n elements of S in increasing order of key.
FirstN(S, key, n) == {x \in S : Rank(S, key, x) <= n}
=============================================================================
