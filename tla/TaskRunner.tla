----------------------------- MODULE TaskRunner -----------------------------
(***************************************************************************)
(* What the server expects of its thread pool: a task handed over is run   *)
(* once, by some thread, at some later time.                               *)
(***************************************************************************)
CONSTANT Tasks

VARIABLES
  pending,   (* tasks handed over and not yet finished *)
  finished   (* tasks that have been run               *)

vars == <<pending, finished>>

Init == pending = {} /\ finished = {}

Submit(k) ==
  /\ k \notin pending \cup finished
  /\ pending' = pending \cup {k}
  /\ UNCHANGED finished

Finish(k) ==
  /\ k \in pending
  /\ pending' = pending \ {k}
  /\ finished' = finished \cup {k}

Next == \E k \in Tasks : Submit(k) \/ Finish(k)

(* Nothing handed over is kept forever. *)
Fairness == \A k \in Tasks : WF_vars(Finish(k))

Spec == Init /\ [][Next]_vars /\ Fairness

=============================================================================
