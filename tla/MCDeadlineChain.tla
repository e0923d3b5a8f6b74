--------------------------- MODULE MCDeadlineChain ---------------------------
(* Units and limits that are small, and related as the ones of the code are. *)
EXTENDS CallErrors

SmallSize == <<1, 2, 6, 12, 24, 72>>

\* Around every bound of a unit, a part of a millisecond, and the largest.
EveryUnit == {1, 3, 4, 5, 7, 8, 9, 23, 24, 25, 47, 48, 49, 59, 60, 61, 95, 96, 97, 143, 144, 145, 199, 200}
=============================================================================
