------------------------------ MODULE Exchange ------------------------------
(***************************************************************************)
(* What the protocol promises: requests are answered in the order they     *)
(* were asked, each with one answer, and the client hears every answer as  *)
(* it was given or, when it is too long to send, as the error that says    *)
(* so.  A client fails only over a request that is refused.                *)
(***************************************************************************)
EXTENDS Integers, Sequences

CONSTANTS
  Served,     (* the requests that get an answer                          *)
  Refused,    (* those the server closes the connection over              *)
  Unsendable, (* those the client does not even send                      *)
  Answers,    (* what a command may answer                                *)
  Shown       (* what the client is shown of every answer                 *)

VARIABLES
  asked,      (* the client's requests                                    *)
  said,       (* the requests served, each with its answer                *)
  heard,      (* what the client has been shown                           *)
  ended       (* "no", "done", or "failed": whether the client has ended  *)

vars == <<asked, said, heard, ended>>

Init == asked = <<>> /\ said = <<>> /\ heard = <<>> /\ ended = "no"

Ask(r) ==
  /\ ended = "no"
  /\ asked' = Append(asked, r)
  /\ ended' = IF r \in Unsendable THEN "failed" ELSE "no"
  /\ UNCHANGED <<said, heard>>

(* Nothing behind a request that is refused is answered. *)
Answer(v) ==
  /\ Len(said) < Len(asked)
  /\ asked[Len(said) + 1] \in Served
  /\ said' = Append(said, [req |-> asked[Len(said) + 1], val |-> v])
  /\ UNCHANGED <<asked, heard, ended>>

Hear ==
  /\ ended = "no"
  /\ Len(heard) < Len(said)
  /\ heard' = Append(heard, Shown[said[Len(heard) + 1].val])
  /\ UNCHANGED <<asked, said, ended>>

Done ==
  /\ ended = "no" /\ Len(heard) = Len(asked)
  /\ ended' = "done"
  /\ UNCHANGED <<asked, said, heard>>

Fail ==
  /\ ended = "no"
  /\ \E i \in DOMAIN asked : asked[i] \in Refused
  /\ ended' = "failed"
  /\ UNCHANGED <<asked, said, heard>>

Next ==
  \/ \E r \in Served \cup Refused \cup Unsendable : Ask(r)
  \/ \E v \in Answers : Answer(v)
  \/ Hear \/ Done \/ Fail

Spec == Init /\ [][Next]_vars
=============================================================================
