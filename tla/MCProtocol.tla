----------------------------- MODULE MCProtocol -----------------------------
(* Small messages: a cell of six values, numbers of two cells.  The        *)
(* longest message has a body of 12 cells, which a command of two strings  *)
(* and an array of one pair reach exactly.                                 *)
EXTENDS Protocol

AString(s) == [tag |-> TAG_STR, str |-> s]
AnInt(n) == [tag |-> TAG_INT, int |-> n]
ADouble(n) == [tag |-> TAG_DBL, dbl |-> n]
AnArray(s) == [tag |-> TAG_ARR, arr |-> s]
AnError(code, s) == [tag |-> TAG_ERR, code |-> code, msg |-> s]

TooBigError == AnError(2, <<5>>)

SomeCommands ==
  {<<>>, <<<<3, 0, 5>>, <<0, 2, 0>>>>,
   <<<<>>, <<>>, <<1>>>>,                        \* too many strings
   <<<<1, 2, 3, 4>>, <<1, 2, 3>>>>}              \* too long
Malformations ==
  {<<1>>,                  \* no number of strings
   <<1, 0, 2, 0, 4>>,      \* a string cut off
   <<1, 0, 0, 0, 1>>}      \* something after the last string

SomeAnswers ==
  {[tag |-> TAG_NIL], AnInt(Base ^ 4 - 1),
   AnArray(<<AString(<<5>>)>>),
   AnArray(<<AString(<<2>>), ADouble(700)>>),                \* the longest
   AnArray(<<AString(<<2, 2>>), ADouble(700)>>)}             \* too long

SomePipes == {[ahead |-> 1, room |-> 5], [ahead |-> 2, room |-> 14]}
=============================================================================
