----------------------------- MODULE TimerQueue -----------------------------
(***************************************************************************)
(* What the server expects of its TTL timers, whatever stores them: each   *)
(* entry has at most one deadline, it can be set, moved and removed at any *)
(* time, and the earliest deadline is always at hand for next_timer_ms()   *)
(* and process_timers() (src/src/server/time.cc).                          *)
(***************************************************************************)
EXTENDS Integers

CONSTANTS Entries, Times, None

VARIABLES
  deadline,  (* the deadline of every entry, or None               *)
  earliest   (* the earliest of them, None when there is no timer  *)

vars == <<deadline, earliest>>

Earliest(d) ==
  LET set == {d[e] : e \in Entries} \ {None}
  IN IF set = {} THEN None ELSE CHOOSE v \in set : \A w \in set : v <= w

Init ==
  /\ deadline = [e \in Entries |-> None]
  /\ earliest = None

SetTimer(e, v) ==
  /\ deadline' = [deadline EXCEPT ![e] = v]
  /\ earliest' = Earliest(deadline')

RemoveTimer(e) ==
  /\ deadline[e] # None
  /\ deadline' = [deadline EXCEPT ![e] = None]
  /\ earliest' = Earliest(deadline')

Next ==
  \E e \in Entries : RemoveTimer(e) \/ \E v \in Times : SetTimer(e, v)

Spec == Init /\ [][Next]_vars

=============================================================================
