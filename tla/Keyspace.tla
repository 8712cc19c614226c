------------------------------ MODULE Keyspace ------------------------------
(***************************************************************************)
(* The top-level keys (src/src/server/db.cc, commands.cc and the TTL part  *)
(* of process_timers() in time.cc) as objects on the heap of the process:  *)
(* an Entry is reached from the hashtable g_data.db, from the TTL timers   *)
(* and, while it is being freed, from the thread pool; its memory may be   *)
(* given out again as soon as it is freed.  Commands and timers run on the *)
(* event-loop thread; the workers free large sorted sets beside it.        *)
(*                                                                         *)
(* The timers are a TimerQueue, which TtlHeap implements; the pool's       *)
(* unfinished tasks are those of a TaskRunner, which ThreadPool            *)
(* implements.  A sorted set is the set of its member names; hash lookups  *)
(* are lookups by key.                                                     *)
(***************************************************************************)
EXTENDS Integers, FiniteSets

CONSTANTS
  Keys, Vals, Names,  (* key names, string values, member names        *)
  Entries,            (* the addresses an Entry can be allocated at    *)
  Ttls,               (* the ttl_ms arguments of pexpire               *)
  MaxNow,             (* bound: the clock stops here                   *)
  LargeSize,          (* k_large_container_size                        *)
  MaxWorks,           (* k_max_works                                   *)
  None

ASSUME ConstantsAssumption ==
  /\ Ttls \subseteq Int
  /\ MaxNow \in Nat /\ LargeSize \in Nat /\ MaxWorks \in Nat
  /\ None \notin Entries \cup Keys \cup Vals

VARIABLES
  db,        (* g_data.db: the entry of every key, or None              *)
  obj,       (* the contents of every entry, or None: not allocated     *)
  deadline,  (* the time of the entry's item in g_data.heap, or None    *)
  earliest,  (* heap[0].val                                             *)
  pool,      (* entries queued to be freed by a worker                  *)
  now,       (* get_monotonic_msec()                                    *)
  reply,     (* the last command and the response to it                 *)
  pc,        (* "serve" commands, "reap" expired keys, or a step of     *)
             (* entry_del(): "untime", "dispose"                        *)
  victim,    (* the argument of the entry_del() under way, or None      *)
  now_ms,    (* the local of process_timers(), None when it is not      *)
  nworks     (* running; and its count of deletions                     *)

vars == <<db, obj, deadline, earliest, pool, now, reply, pc, victim, now_ms, nworks>>

Timers == INSTANCE TimerQueue WITH Times <- Nat

Nil      == <<"nil">>
Str(v)   == <<"str", v>>
Num(n)   == <<"int", n>>
Arr(s)   == <<"arr", s>>
BadType  == <<"err", "type">>
BadArg   == <<"err", "arg">>

Init ==
  /\ db = [k \in Keys |-> None]
  /\ obj = [e \in Entries |-> None]
  /\ Timers!Init
  /\ pool = {}
  /\ now = 0
  /\ reply = None
  /\ pc = "serve" /\ victim = None
  /\ now_ms = None /\ nworks = 0

loopVars == <<pc, victim, now_ms, nworks>>

-----------------------------------------------------------------------------
(* The commands, and what they share. *)
Found(k)  == db[k] # None
Type(k)   == obj[db[k]].type
IsStr(k)  == Found(k) /\ Type(k) = "str"
IsZSet(k) == Found(k) /\ Type(k) = "zset"

(* expect_zset(): a missing key reads as the empty set *)
Members(k) == IF Found(k) THEN obj[db[k]].set ELSE {}

Answer(cmd, r) ==
  /\ pc = "serve"
  /\ reply' = [to |-> cmd, is |-> r]
  /\ UNCHANGED <<now, pool>>

ReadOnly == UNCHANGED <<db, obj, deadline, earliest, loopVars>>

(* entry_new() at any free address, and hm_insert() *)
Insert(k, type, str, set) ==
  \E e \in Entries :
    /\ obj[e] = None
    /\ obj' = [obj EXCEPT ![e] = [key |-> k, type |-> type, str |-> str, set |-> set]]
    /\ db' = [db EXCEPT ![k] = e]

do_get(k) ==
  /\ Answer(<<"get", k>>, IF ~Found(k) THEN Nil
            ELSE IF IsStr(k) THEN Str(obj[db[k]].str) ELSE BadType)
  /\ ReadOnly

do_set(k, v) ==
  \/ /\ ~Found(k)
     /\ Insert(k, "str", v, {})
     /\ Answer(<<"set", k, v>>, Nil)
     /\ UNCHANGED <<deadline, earliest, loopVars>>
  \/ /\ IsStr(k)
     /\ obj' = [obj EXCEPT ![db[k]].str = v]
     /\ Answer(<<"set", k, v>>, Nil)
     /\ UNCHANGED <<db, deadline, earliest, loopVars>>
  \/ /\ IsZSet(k)
     /\ Answer(<<"set", k, v>>, BadType)
     /\ ReadOnly

do_keys == Answer(<<"keys">>, Arr({k \in Keys : Found(k)})) /\ ReadOnly

do_zadd(k, n) ==
  \/ /\ ~Found(k)
     /\ Insert(k, "zset", None, {n})
     /\ Answer(<<"zadd", k, n>>, Num(1))
     /\ UNCHANGED <<deadline, earliest, loopVars>>
  \/ /\ IsZSet(k)
     /\ obj' = [obj EXCEPT ![db[k]].set = @ \cup {n}]
     /\ Answer(<<"zadd", k, n>>, Num(IF n \in Members(k) THEN 0 ELSE 1))
     /\ UNCHANGED <<db, deadline, earliest, loopVars>>
  \/ /\ IsStr(k)
     /\ Answer(<<"zadd", k, n>>, BadType)
     /\ ReadOnly

do_zrem(k, n) ==
  \/ /\ IsStr(k)
     /\ Answer(<<"zrem", k, n>>, BadType)
     /\ ReadOnly
  \/ /\ ~IsStr(k) /\ n \notin Members(k)
     /\ Answer(<<"zrem", k, n>>, Num(0))
     /\ ReadOnly
  \/ /\ ~IsStr(k) /\ n \in Members(k)
     /\ obj' = [obj EXCEPT ![db[k]].set = @ \ {n}]
     /\ Answer(<<"zrem", k, n>>, Num(1))
     /\ UNCHANGED <<db, deadline, earliest, loopVars>>

(* entry_set_ttl(): removing a timer that is not there does nothing *)
entry_set_ttl(e, ttl) ==
  \/ ttl < 0 /\ Timers!RemoveTimer(e)
  \/ ttl < 0 /\ deadline[e] = None /\ UNCHANGED <<deadline, earliest>>
  \/ ttl >= 0 /\ Timers!SetTimer(e, now + ttl)

do_expire(k, ttl) ==
  /\ Answer(<<"pexpire", k, ttl>>, Num(IF Found(k) THEN 1 ELSE 0))
  /\ \/ Found(k) /\ entry_set_ttl(db[k], ttl)
     \/ ~Found(k) /\ UNCHANGED <<deadline, earliest>>
  /\ UNCHANGED <<db, obj, loopVars>>

Remaining(k) == IF deadline[db[k]] > now THEN deadline[db[k]] - now ELSE 0

do_ttl(k) ==
  /\ Answer(<<"pttl", k>>, Num(IF ~Found(k) THEN -2
                ELSE IF deadline[db[k]] = None THEN -1 ELSE Remaining(k)))
  /\ ReadOnly

(* str2int() or str2dbl() fails, before any lookup: pexpire, zadd *)
BadNumber == Answer(<<"malformed">>, BadArg) /\ ReadOnly

-----------------------------------------------------------------------------
(***************************************************************************)
(* Deletion: hm_delete() unlinks the entry, then entry_del() removes its   *)
(* timer and frees it or hands it to the pool.  Workers run in between.    *)
(***************************************************************************)
Unlink(k) ==
  /\ db' = [db EXCEPT ![k] = None]
  /\ victim' = db[k]
  /\ pc' = "untime"

do_del(k) ==
  \/ /\ ~Found(k)
     /\ Answer(<<"del", k>>, Num(0))
     /\ ReadOnly
  \/ /\ Found(k) /\ pc = "serve"
     /\ Unlink(k)
     /\ UNCHANGED <<obj, deadline, earliest, pool, now, reply, now_ms, nworks>>

(* mutant: the timer is forgotten *)
entry_del_keeps_timer ==
  /\ pc = "untime"
  /\ pc' = "dispose"
  /\ UNCHANGED <<db, obj, deadline, earliest, pool, now, reply, victim, now_ms, nworks>>

(* entry_set_ttl(ent, -1) *)
entry_del_untime ==
  /\ pc = "untime"
  /\ entry_set_ttl(victim, -1)
  /\ pc' = "dispose"
  /\ UNCHANGED <<db, obj, pool, now, reply, victim, now_ms, nworks>>

(* mutant: the large set is freed here as well *)
DisposeTwice(e) ==
  /\ obj' = [obj EXCEPT ![e] = None]
  /\ pool' = IF obj[e].type = "zset" /\ Cardinality(obj[e].set) > LargeSize
             THEN pool \cup {e} ELSE pool

(* hm_size() of the set decides who runs entry_del_sync() *)
Dispose(e) ==
  \/ /\ obj[e].type = "zset" /\ Cardinality(obj[e].set) > LargeSize
     /\ pool' = pool \cup {e}
     /\ UNCHANGED obj
  \/ /\ ~(obj[e].type = "zset" /\ Cardinality(obj[e].set) > LargeSize)
     /\ obj' = [obj EXCEPT ![e] = None]
     /\ UNCHANGED pool

Deleted(e) == [to |-> <<"del", obj[e].key>>, is |-> Num(1)]

(* Back in do_del(), which answers, or in process_timers(), which counts. *)
entry_del_dispose ==
  /\ pc = "dispose"
  /\ Dispose(victim)
  /\ victim' = None
  /\ \/ /\ now_ms = None
        /\ pc' = "serve"
        /\ reply' = Deleted(victim)
        /\ UNCHANGED <<now_ms, nworks>>
     \/ /\ now_ms # None /\ nworks < MaxWorks
        /\ pc' = "reap"
        /\ nworks' = nworks + 1
        /\ UNCHANGED <<reply, now_ms>>
     \/ /\ now_ms # None /\ nworks >= MaxWorks
        /\ pc' = "serve"
        /\ now_ms' = None /\ nworks' = 0
        /\ UNCHANGED reply
  /\ UNCHANGED <<db, deadline, earliest, now>>

(* entry_del_func() on a worker *)
FreeInBackground(e) ==
  /\ e \in pool
  /\ pool' = pool \ {e}
  /\ obj' = [obj EXCEPT ![e] = None]
  /\ UNCHANGED <<db, deadline, earliest, now, reply, loopVars>>

(***************************************************************************)
(* process_timers(): the clock is read once, then heap[0] goes as long as  *)
(* it lies before that time.                                               *)
(***************************************************************************)
process_timers ==
  /\ pc = "serve"
  /\ pc' = "reap"
  /\ now_ms' = now
  /\ UNCHANGED <<db, obj, deadline, earliest, pool, now, reply, victim, nworks>>

(* mutant: the comparison of next_timer_ms() instead *)
ExpiredInclusive == earliest # None /\ earliest <= now_ms

Expired == earliest # None /\ earliest < now_ms

(* The entry at the top of the heap is deleted itself, not by its key *)
(* (hnode_same()).                                                    *)
ReapTop ==
  /\ pc = "reap"
  /\ Expired
  /\ \E e \in Entries :
       /\ deadline[e] = earliest
       /\ db' = [k \in Keys |-> IF db[k] = e THEN None ELSE db[k]]
       /\ victim' = e
  /\ pc' = "untime"
  /\ UNCHANGED <<obj, deadline, earliest, pool, now, reply, now_ms, nworks>>

ReapDone ==
  /\ pc = "reap"
  /\ ~Expired
  /\ pc' = "serve"
  /\ now_ms' = None /\ nworks' = 0
  /\ UNCHANGED <<db, obj, deadline, earliest, pool, now, reply, victim>>

Tick ==
  /\ now < MaxNow
  /\ now' = now + 1
  /\ UNCHANGED <<db, obj, deadline, earliest, pool, reply, loopVars>>

Next ==
  \/ \E k \in Keys :
       \/ do_get(k) \/ do_del(k) \/ do_ttl(k)
       \/ \E v \in Vals : do_set(k, v)
       \/ \E n \in Names : do_zadd(k, n) \/ do_zrem(k, n)
       \/ \E ttl \in Ttls : do_expire(k, ttl)
  \/ do_keys \/ BadNumber
  \/ entry_del_untime \/ entry_del_dispose
  \/ process_timers \/ ReapTop \/ ReapDone
  \/ \E e \in Entries : FreeInBackground(e)
  \/ Tick

Spec == Init /\ [][Next]_vars

-----------------------------------------------------------------------------
Contents ==
  [key : Keys, type : {"str", "zset"}, str : Vals \cup {None}, set : SUBSET Names]

(* What a client can see of a key. *)
Values ==
  [type : {"str", "zset"}, str : Vals \cup {None}, set : SUBSET Names,
   deadline : Nat \cup {None}]

(* None is neither a time nor a value. *)
ASSUME NoneAssumption == None \notin Nat \cup Contents \cup Values

(* Every variable keeps its type, and between two commands nothing of      *)
(* entry_del() or process_timers() is left over.                           *)
TypeOK ==
  /\ db \in [Keys -> Entries \cup {None}]
  /\ obj \in [Entries -> Contents \cup {None}]
  /\ deadline \in [Entries -> Nat \cup {None}]
  /\ earliest \in Nat \cup {None}
  /\ pool \subseteq Entries
  /\ now \in 0 .. MaxNow
  /\ pc \in {"serve", "reap", "untime", "dispose"}
  /\ victim \in Entries \cup {None}
  /\ now_ms \in 0 .. MaxNow \cup {None}
  /\ nworks \in 0 .. MaxWorks
  /\ pc = "serve" => victim = None /\ now_ms = None /\ nworks = 0

(***************************************************************************)
(* Every allocated entry has exactly one owner: the hashtable under its    *)
(* own key, the entry_del() under way, or the thread pool.  So no command  *)
(* or timer reaches an entry a worker may be freeing, nothing is freed     *)
(* twice, and nothing leaks.                                               *)
(***************************************************************************)
Stored(e) == \E k \in Keys : db[k] = e

OneOwner ==
  /\ TypeOK
  /\ \A k \in Keys : Found(k) => obj[db[k]] # None /\ obj[db[k]].key = k
  /\ \A e \in Entries :
       /\ obj[e] # None <=> Stored(e) \/ e = victim \/ e \in pool
       /\ ~(Stored(e) /\ e = victim)
       /\ ~(Stored(e) /\ e \in pool)
       /\ ~(e = victim /\ e \in pool)

(***************************************************************************)
(* A timer's back-pointer leads to an entry that is still in the hashtable *)
(* (the assertion in process_timers()) or is just being unlinked from it:  *)
(* a timer that outlives its entry would expire the memory's next tenant.  *)
(***************************************************************************)
TimersOwned ==
  \A e \in Entries : deadline[e] # None =>
    Stored(e) \/ (e = victim /\ pc = "untime")

(***************************************************************************)
(* Seen from a client, the entries are the map of KeyValueStore, with the  *)
(* same answers: whatever is being freed, in whatever memory the values    *)
(* are, a key changes only by its own commands and goes only when deleted  *)
(* or after its deadline.  A del takes effect when it unlinks the entry.   *)
(***************************************************************************)
Store ==
  [k \in Keys |->
     IF ~Found(k) THEN None
     ELSE [type |-> Type(k), str |-> obj[db[k]].str, set |-> obj[db[k]].set,
           deadline |-> deadline[db[k]]]]

Reply == IF victim # None /\ now_ms = None THEN Deleted(victim) ELSE reply

KV == INSTANCE KeyValueStore WITH store <- Store, reply <- Reply

ImplementsKeyValueStore == KV!Spec

=============================================================================
