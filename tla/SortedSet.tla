----------------------------- MODULE SortedSet -----------------------------
(***************************************************************************)
(* What a sorted set promises the commands that use it: a score for every  *)
(* name in it, and the answers to queries by rank and by range in the      *)
(* order of (score, name) pairs.                                           *)
(***************************************************************************)
EXTENDS Integers, FiniteSets, Sequences

CONSTANTS Names, Scores, Offsets, Limits, None

VARIABLES
  score,   (* the score of every name, or None  *)
  asked,   (* the last command                  *)
  answer   (* and the answer to it              *)

vars == <<score, asked, answer>>

Init == score = [n \in Names |-> None] /\ asked = None /\ answer = None

Members == {n \in Names : score[n] # None}

(* The order of a member and a pair, by score and then by name *)
Before(n, s, name) == score[n] < s \/ (score[n] = s /\ n < name)

(* How many members come before a pair: the rank a member has, or the one  *)
(* of the first member at or after the pair                                *)
Rank(s, name) == Cardinality({m \in Members : Before(m, s, name)})
RankOf(n)     == Rank(score[n], n)

Answer(cmd, r) == asked' = cmd /\ answer' = r

ZAdd(n, s) ==
  /\ score' = [score EXCEPT ![n] = s]
  /\ Answer(<<"zadd", n, s>>, n \notin Members)

ZRem(n) ==
  /\ score' = [score EXCEPT ![n] = None]
  /\ Answer(<<"zrem", n>>, n \in Members)

ZScore(n) == Answer(<<"zscore", n>>, score[n]) /\ UNCHANGED score

ZRank(n) ==
  /\ Answer(<<"zrank", n>>, IF n \in Members THEN RankOf(n) ELSE None)
  /\ UNCHANGED score

(* The members from the offset-th after the first one at or after the pair *)
(* on, up to the limit; none when there is no such member.                 *)
WithRank(r) == CHOOSE m \in Members : RankOf(m) = r

ZQuery(s, name, offset, limit) ==
  LET all    == Cardinality(Members)
      first  == Rank(s, name) + offset
      length == IF Rank(s, name) = all \/ first < 0 THEN 0
                ELSE Cardinality({r \in 0 .. all - 1 : first <= r /\ r < first + limit})
  IN /\ Answer(<<"zquery", s, name, offset, limit>>,
               [i \in 1 .. length |-> LET m == WithRank(first + i - 1) IN <<m, score[m]>>])
     /\ UNCHANGED score

(* The number of members from the first pair on and before the second,     *)
(* which is exclusive                                                      *)
Count(s1, name1, s2, name2) ==
  Cardinality({m \in Members : ~Before(m, s1, name1) /\ Before(m, s2, name2)})

(* It is promised if there is a member at or after the second pair, and    *)
(* left open beyond the last one.                                          *)
ZCount(s1, name1, s2, name2) ==
  /\ \E n \in 0 .. Cardinality(Members) :
       /\ Rank(s2, name2) < Cardinality(Members) => n = Count(s1, name1, s2, name2)
       /\ Answer(<<"zcount", s1, name1, s2, name2>>, n)
  /\ UNCHANGED score

Clear == score' = [n \in Names |-> None] /\ UNCHANGED <<asked, answer>>

Next ==
  \/ Clear
  \/ \E n \in Names :
       \/ ZRem(n) \/ ZScore(n) \/ ZRank(n)
       \/ \E s \in Scores :
            \/ ZAdd(n, s)
            \/ \E offset \in Offsets, limit \in Limits : ZQuery(s, n, offset, limit)
            \/ \E n2 \in Names, s2 \in Scores : ZCount(s, n, s2, n2)

Spec == Init /\ [][Next]_vars
=============================================================================
