------------------------------- MODULE Timers -------------------------------
(***************************************************************************)
(* How the event loop keeps time (src/src/server/time.cc and the loop of   *)
(* src/src/server/main.cc): next_timer_ms() turns the earliest deadline of *)
(* the idle list and of the TTL heap into the timeout of epoll_wait(), and *)
(* process_timers() closes idle connections and deletes expired keys after *)
(* every batch of events.                                                  *)
(*                                                                         *)
(* Time passes between any two steps.  The events themselves are only      *)
(* what they do to the timers; EventLoop models the connections and        *)
(* Keyspace the keys.                                                      *)
(***************************************************************************)
EXTENDS IdleList

CONSTANTS
  Conns,        (* connections                                          *)
  Entries,      (* keys that may have a TTL                             *)
  Ttls,         (* the ttl_ms arguments of pexpire                      *)
  IdleTimeout,  (* k_idle_timeout_ms                                    *)
  MaxWorks,     (* k_max_works                                          *)
  Half,         (* 2^31: the int32_t that next_timer_ms() returns is    *)
                (* from -Half to Half - 1                               *)
  MaxEvents,    (* bound: events.size(), the longest batch              *)
  MaxNow,       (* bound: the clock stops here                          *)
  None

ASSUME ConstantsAssumption ==
  /\ Ttls \subseteq Nat /\ IdleTimeout \in Nat /\ MaxWorks \in Nat
  /\ Half \in Nat \ {0} /\ MaxEvents \in Nat \ {0} /\ MaxNow \in Nat
  /\ None \notin Entries /\ None \notin Nat

VARIABLES
  now,          (* get_monotonic_msec()                                 *)
  idle_list,    (* g_data.idle_list, as the sequence of its connections *)
  last_active,  (* Conn::last_active_ms                                 *)
  deadline,     (* the TTL of every entry, or None                      *)
  earliest,     (* heap[0].val                                          *)
  pc,           (* where the loop is                                    *)
  timeout,      (* the argument of epoll_wait(), set in next_timer_ms() *)
  since,        (* when epoll_wait() was called                         *)
  left,         (* events of the batch still to handle                  *)
  now_ms,       (* process_timers(): its reading of the clock           *)
  nworks        (* and its count of deleted keys                        *)

vars == <<now, idle_list, last_active, deadline, earliest, pc, timeout, since,
          left, now_ms, nworks>>

TtlHeap == INSTANCE TimerQueue WITH Times <- Nat

Open == Members(idle_list)

Init ==
  /\ now = 0
  /\ idle_list = <<>>
  /\ last_active = [c \in Conns |-> 0]
  /\ TtlHeap!Init
  /\ pc = "next_timer" /\ timeout = 0 /\ since = 0 /\ left = 0
  /\ now_ms = 0 /\ nworks = 0

timerVars == <<idle_list, last_active, deadline, earliest>>
passVars  == <<now_ms, nworks>>

-----------------------------------------------------------------------------
(* mutant: the most recently active connection is looked at *)
IdleDeadlinesOfLast ==
  IF idle_list = <<>> THEN {}
  ELSE {last_active[idle_list[Len(idle_list)]] + IdleTimeout}

(* mutants: one kind of timers is forgotten *)
NoIdleDeadlines == {}
NoTtlDeadlines  == {}

(* next_timer_ms() *)
IdleDeadlines ==
  IF idle_list = <<>> THEN {} ELSE {last_active[Head(idle_list)] + IdleTimeout}
TtlDeadlines == {earliest} \ {None}

NextDeadline ==
  LET set == IdleDeadlines \cup TtlDeadlines
  IN CHOOSE d \in set : \A x \in set : d <= x

(* The cast of a uint64_t difference to int32_t. *)
AsInt(x) == ((x + Half) % (2 * Half)) - Half

next_timer_ms ==
  /\ pc = "next_timer"
  /\ timeout' = IF IdleDeadlines \cup TtlDeadlines = {} THEN -1
                ELSE IF NextDeadline <= now THEN 0
                ELSE AsInt(NextDeadline - now)
  /\ since' = now
  /\ pc' = "epoll_wait"
  /\ UNCHANGED <<now, timerVars, left, passVars>>

(***************************************************************************)
(* epoll_wait() returns n events, or none when the timeout is over, or is  *)
(* interrupted by a signal while it blocks.                                *)
(***************************************************************************)
Return(n) ==
  /\ pc = "epoll_wait"
  /\ left' = n
  /\ pc' = "events"
  /\ UNCHANGED <<now, timerVars, timeout, since, passVars>>

EventsArrive == \E n \in 1 .. MaxEvents : Return(n)

TimeIsUp == timeout >= 0 /\ since + timeout <= now /\ Return(0)

Interrupted ==
  /\ pc = "epoll_wait"
  /\ timeout # 0
  /\ pc' = "next_timer"
  /\ UNCHANGED <<now, timerVars, timeout, since, left, passVars>>

-----------------------------------------------------------------------------
(* The batch: each event does one of these to the timers. *)
HandleEvent ==
  /\ pc = "events"
  /\ left > 0
  /\ left' = left - 1
  /\ UNCHANGED <<now, pc, timeout, since, passVars>>

Drop(c) == idle_list' = dlist_detach(idle_list, c)

(* mutant: the time is noted but the connection keeps its place *)
TouchInPlace(c) ==
  /\ last_active' = [last_active EXCEPT ![c] = now]
  /\ idle_list' = IF c \in Open THEN idle_list ELSE Append(idle_list, c)

(* The connection moves to the end of the idle list, or enters it there. *)
Touch(c) ==
  /\ last_active' = [last_active EXCEPT ![c] = now]
  /\ idle_list' = Append(dlist_detach(idle_list, c), c)

Accept(c) ==
  /\ HandleEvent
  /\ c \notin Open
  /\ Touch(c)
  /\ UNCHANGED <<deadline, earliest>>

(* An event that changes no TTL: a read, a write, most commands. *)
Activity(c) ==
  /\ HandleEvent
  /\ c \in Open
  /\ Touch(c)
  /\ UNCHANGED <<deadline, earliest>>

(* EOF or an error: conn_destroy() ends the event. *)
Close(c) ==
  /\ HandleEvent
  /\ c \in Open
  /\ last_active' = [last_active EXCEPT ![c] = now]
  /\ Drop(c)
  /\ UNCHANGED <<deadline, earliest>>

Pexpire(c, e, ttl) ==
  /\ HandleEvent
  /\ c \in Open
  /\ Touch(c)
  /\ TtlHeap!SetTimer(e, now + ttl)

(* del, or pexpire with a negative ttl *)
Persist(c, e) ==
  /\ HandleEvent
  /\ c \in Open
  /\ Touch(c)
  /\ TtlHeap!RemoveTimer(e)

(* The connection is gone, or nobody waits to be accepted. *)
NothingThere ==
  /\ HandleEvent
  /\ UNCHANGED timerVars

Event ==
  \/ NothingThere
  \/ \E c \in Conns :
       \/ Accept(c) \/ Activity(c) \/ Close(c)
       \/ \E e \in Entries :
            Persist(c, e) \/ \E ttl \in Ttls : Pexpire(c, e, ttl)

-----------------------------------------------------------------------------
(* process_timers() *)
process_timers ==
  /\ pc = "events"
  /\ left = 0
  /\ now_ms' = now
  /\ nworks' = 0
  /\ pc' = "idle"
  /\ UNCHANGED <<now, timerVars, timeout, since, left>>

IdleExpired ==
  idle_list # <<>> /\ last_active[Head(idle_list)] + IdleTimeout < now_ms

CloseIdle ==
  /\ pc = "idle"
  /\ \/ IdleExpired /\ idle_list' = Tail(idle_list) /\ pc' = "idle"
     \/ ~IdleExpired /\ pc' = "ttl" /\ UNCHANGED idle_list
  /\ UNCHANGED <<now, last_active, deadline, earliest, timeout, since, left, passVars>>

TtlExpired == earliest # None /\ earliest < now_ms

(* mutant: one key per pass, the limit is not what stops it *)
DeleteExpiredOnce ==
  /\ pc = "ttl"
  /\ \/ /\ TtlExpired
        /\ \E e \in Entries : deadline[e] = earliest /\ TtlHeap!RemoveTimer(e)
        /\ nworks' = nworks + 1
        /\ pc' = "next_timer"
     \/ /\ ~TtlExpired
        /\ pc' = "next_timer"
        /\ UNCHANGED <<deadline, earliest, nworks>>
  /\ UNCHANGED <<now, idle_list, last_active, timeout, since, left, now_ms>>

(* The count is compared, then incremented, after the deletion. *)
DeleteExpired ==
  /\ pc = "ttl"
  /\ \/ /\ TtlExpired
        /\ \E e \in Entries : deadline[e] = earliest /\ TtlHeap!RemoveTimer(e)
        /\ nworks' = nworks + 1
        /\ pc' = IF nworks >= MaxWorks THEN "next_timer" ELSE "ttl"
     \/ /\ ~TtlExpired
        /\ pc' = "next_timer"
        /\ UNCHANGED <<deadline, earliest, nworks>>
  /\ UNCHANGED <<now, idle_list, last_active, timeout, since, left, now_ms>>

Tick ==
  /\ now < MaxNow
  /\ now' = now + 1
  /\ UNCHANGED <<timerVars, pc, timeout, since, left, passVars>>

LoopStep ==
  next_timer_ms \/ TimeIsUp \/ Event \/ process_timers \/ CloseIdle \/ DeleteExpired

Next == LoopStep \/ EventsArrive \/ Interrupted \/ Tick

(***************************************************************************)
(* Time goes on, the loop runs, and epoll_wait() returns after its         *)
(* timeout.  No event has to arrive.                                       *)
(***************************************************************************)
Spec == Init /\ [][Next]_vars /\ WF_vars(LoopStep) /\ WF_vars(Tick)

-----------------------------------------------------------------------------
(* Every variable keeps its type; a pass deletes MaxWorks + 1 keys at most, *)
(* and now_ms is a time that has been.                                     *)
TypeOK ==
  /\ now \in 0 .. MaxNow
  /\ idle_list \in Seq(Conns)
  /\ last_active \in [Conns -> 0 .. MaxNow]
  /\ deadline \in [Entries -> Nat \cup {None}]
  /\ earliest \in Nat \cup {None}
  /\ pc \in {"next_timer", "epoll_wait", "events", "idle", "ttl"}
  /\ timeout \in Int /\ since \in 0 .. now
  /\ left \in 0 .. MaxEvents
  /\ now_ms \in 0 .. now
  /\ nworks \in 0 .. MaxWorks + 1

(***************************************************************************)
(* Both passes stop at the first timer that is not due, so the order of    *)
(* the idle list is what makes them find all: nobody is behind a           *)
(* connection that was active later, and nobody is in the list twice.      *)
(***************************************************************************)
IdleListOrdered ==
  /\ TypeOK
  /\ \A i, j \in 1 .. Len(idle_list) :
       i < j => /\ idle_list[i] # idle_list[j]
                /\ last_active[idle_list[i]] <= last_active[idle_list[j]]

(***************************************************************************)
(* After a pass nothing that was due when it began is left, except keys    *)
(* when the pass was cut short, and then it deleted MaxWorks + 1 of them.  *)
(***************************************************************************)
PassComplete ==
  pc = "next_timer" =>
    /\ \A c \in Open : last_active[c] + IdleTimeout >= now_ms
    /\ \/ \A e \in Entries : deadline[e] # None => deadline[e] >= now_ms
       \/ nworks = MaxWorks + 1

(***************************************************************************)
(* The loop never sleeps past a timer: when epoll_wait() is to block, no   *)
(* deadline lies before the end of its timeout.                            *)
(***************************************************************************)
Asleep == pc = "epoll_wait" /\ timeout # 0

WakesInTime ==
  Asleep =>
    /\ \A c \in Open :
         timeout > 0 /\ since + timeout <= last_active[c] + IdleTimeout
    /\ \A e \in Entries : deadline[e] # None =>
         timeout > 0 /\ since + timeout <= deadline[e]

(***************************************************************************)
(* time.cc:25 returns -1 with the comment "no timers, no timeouts": the    *)
(* loop sleeps without a timeout only when there is no timer.              *)
(***************************************************************************)
NoTimeoutNoTimers ==
  pc = "epoll_wait" /\ timeout < 0 =>
    Open = {} /\ \A e \in Entries : deadline[e] = None

(***************************************************************************)
(* What is due goes, although no client does anything: the idle connection *)
(* is closed and the expired key is deleted, unless they are used again.   *)
(***************************************************************************)
IdleConnsClose ==
  \A c \in Conns :
    c \in Open /\ last_active[c] + IdleTimeout < now
      ~> c \notin Open \/ last_active[c] + IdleTimeout >= now

ExpiredKeysGo ==
  \A e \in Entries :
    deadline[e] # None /\ deadline[e] < now
      ~> deadline[e] = None \/ deadline[e] >= now

=============================================================================
