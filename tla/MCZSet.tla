------------------------------- MODULE MCZSet -------------------------------
(* Three names and two scores give ties and every order; the arguments of  *)
(* the queries are the pairs of these, and walks to either side and beyond *)
(* both ends.                                                              *)
EXTENDS ZSet

NameNumbers  == 1 .. 3
ScoreNumbers == 0 .. 1
MCOffsets    == {-1, 0, 1, 3}
MCLimits     == {-1, 1, 2}
=============================================================================
