--------------------------- MODULE KeyValueStore ---------------------------
(***************************************************************************)
(* What the server promises to its clients: a map from keys to typed       *)
(* values with optional deadlines, every command atomic and answered.  A   *)
(* key whose deadline has passed goes away at some later time, the oldest  *)
(* deadline first, and never before its deadline.                          *)
(***************************************************************************)
EXTENDS Integers, FiniteSets

CONSTANTS
  Keys,   (* key names                                       *)
  Vals,   (* string values                                   *)
  Names,  (* names of sorted-set members                     *)
  Ttls,   (* the ttl_ms arguments of pexpire                 *)
  MaxNow, (* the clock stops here                            *)
  None

VARIABLES
  store,  (* the value of every key, or None                 *)
  now,    (* the monotonic clock                             *)
  reply   (* the last command and the answer to it           *)

vars == <<store, now, reply>>

Nil      == <<"nil">>
Str(v)   == <<"str", v>>
Num(n)   == <<"int", n>>
Arr(s)   == <<"arr", s>>
BadType  == <<"err", "type">>
BadArg   == <<"err", "arg">>

StrValue(v) == [type |-> "str", str |-> v, set |-> {}, deadline |-> None]
NewZSet     == [type |-> "zset", str |-> None, set |-> {}, deadline |-> None]

Present(k) == store[k] # None
IsStr(k)   == Present(k) /\ store[k].type = "str"
IsZSet(k)  == Present(k) /\ store[k].type = "zset"
Members(k) == IF IsZSet(k) THEN store[k].set ELSE {}

Init ==
  /\ store = [k \in Keys |-> None]
  /\ now = 0
  /\ reply = None

Answer(cmd, r) == reply' = [to |-> cmd, is |-> r] /\ UNCHANGED now

Get(k) ==
  /\ Answer(<<"get", k>>, IF ~Present(k) THEN Nil ELSE IF IsStr(k) THEN Str(store[k].str) ELSE BadType)
  /\ UNCHANGED store

Set(k, v) ==
  \/ /\ ~Present(k)
     /\ store' = [store EXCEPT ![k] = StrValue(v)]
     /\ Answer(<<"set", k, v>>, Nil)
  \/ /\ IsStr(k)
     /\ store' = [store EXCEPT ![k].str = v]  (* the deadline stays *)
     /\ Answer(<<"set", k, v>>, Nil)
  \/ IsZSet(k) /\ Answer(<<"set", k, v>>, BadType) /\ UNCHANGED store

Del(k) ==
  /\ store' = [store EXCEPT ![k] = None]
  /\ Answer(<<"del", k>>, Num(IF Present(k) THEN 1 ELSE 0))

ListKeys == Answer(<<"keys">>, Arr({k \in Keys : Present(k)})) /\ UNCHANGED store

ZAdd(k, n) ==
  \/ /\ ~IsStr(k)
     /\ LET z == IF Present(k) THEN store[k] ELSE NewZSet
        IN store' = [store EXCEPT ![k] = [z EXCEPT !.set = @ \cup {n}]]
     /\ Answer(<<"zadd", k, n>>, Num(IF n \in Members(k) THEN 0 ELSE 1))
  \/ IsStr(k) /\ Answer(<<"zadd", k, n>>, BadType) /\ UNCHANGED store

ZRem(k, n) ==
  \/ /\ n \in Members(k)
     /\ store' = [store EXCEPT ![k].set = @ \ {n}]
     /\ Answer(<<"zrem", k, n>>, Num(1))
  \/ /\ n \notin Members(k)
     /\ Answer(<<"zrem", k, n>>, IF IsStr(k) THEN BadType ELSE Num(0))
     /\ UNCHANGED store

(* A ttl below zero means: no deadline. *)
Expire(k, ttl) ==
  /\ Answer(<<"pexpire", k, ttl>>, Num(IF Present(k) THEN 1 ELSE 0))
  /\ store' = IF Present(k)
              THEN [store EXCEPT ![k].deadline = IF ttl < 0 THEN None ELSE now + ttl]
              ELSE store

Ttl(k) ==
  /\ Answer(<<"pttl", k>>, Num(IF ~Present(k) THEN -2
                ELSE IF store[k].deadline = None THEN -1
                ELSE IF store[k].deadline > now THEN store[k].deadline - now ELSE 0))
  /\ UNCHANGED store

Refuse == Answer(<<"malformed">>, BadArg) /\ UNCHANGED store

Deadlines == {store[k].deadline : k \in {x \in Keys : Present(x)}} \ {None}

Reap(k) ==
  /\ Present(k) /\ store[k].deadline # None
  /\ store[k].deadline < now
  /\ \A d \in Deadlines : store[k].deadline <= d
  /\ store' = [store EXCEPT ![k] = None]
  /\ UNCHANGED <<now, reply>>

Tick == now < MaxNow /\ now' = now + 1 /\ UNCHANGED <<store, reply>>

Next ==
  \/ \E k \in Keys :
       \/ Get(k) \/ Del(k) \/ Ttl(k) \/ Reap(k)
       \/ \E v \in Vals : Set(k, v)
       \/ \E n \in Names : ZAdd(k, n) \/ ZRem(k, n)
       \/ \E ttl \in Ttls : Expire(k, ttl)
  \/ ListKeys \/ Refuse \/ Tick

Spec == Init /\ [][Next]_vars

=============================================================================
