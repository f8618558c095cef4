------------------------------ MODULE MCSessions ------------------------------
(***************************************************************************)
(* Times for the runs of Sessions.                                         *)
(***************************************************************************)
EXTENDS Sessions, TLC

(* Rounding to seconds, the two clocks, and the hour that a change to or   *)
(* from summer time takes from or adds to a wall-clock day.                *)
EitherWay == {-1, 0, 1}

Symmetry == Permutations(Request)
=============================================================================
