---------------------------- MODULE TimersProofs ----------------------------
(***************************************************************************)
(* TLAPS proofs about Timers, for any connections, keys, TTLs and limits:  *)
(* the order of the idle list, that a pass leaves nothing behind that was  *)
(* due, and that the loop never sleeps past a timer.                       *)
(***************************************************************************)
EXTENDS Timers, FiniteSets, SequenceTheorems, FiniteSetTheorems, FunctionTheorems,
        WellFoundedInduction, TLAPS

(* A node detached from a list that has it once is gone, and the others    *)
(* keep their order.                                                       *)
LEMMA DetachFacts ==
  ASSUME NEW S, NEW list \in Seq(S), NEW node
  PROVE  LET d == dlist_detach(list, node)
         IN /\ d \in Seq(S)
            /\ node \in Members(list) => Len(d) = Len(list) - 1
            /\ node \notin Members(list) => d = list
            /\ NoneTwice(list) => Members(d) = Members(list) \ {node}
            /\ \A i, j \in 1 .. Len(d) : i < j =>
                 \E k, l \in 1 .. Len(list) : k < l /\ d[i] = list[k] /\ d[j] = list[l]
<1> DEFINE d == dlist_detach(list, node)
<1>1. Len(list) \in Nat /\ \A i \in 1 .. Len(list) : list[i] \in S
  BY ElementOfSeq, LenProperties
<1>2. CASE node \notin Members(list)
  <2>1. d = list
    BY <1>2 DEF dlist_detach
  <2> HIDE DEF d
  <2>. QED
    BY <1>2, <2>1 DEF Members, d
<1>3. CASE node \in Members(list)
  <2> DEFINE p == CHOOSE i \in 1 .. Len(list) : list[i] = node
             n == Len(list) - 1
             f == [i \in 1 .. n |-> list[IF i < p THEN i ELSE i + 1]]
  <2>1. p \in 1 .. Len(list) /\ list[p] = node
    BY <1>3 DEF Members
  <2>2. d = f
    BY <1>3 DEF dlist_detach
  <2> HIDE DEF p
  <2>3. n \in Nat /\ \A i \in 1 .. n : (IF i < p THEN i ELSE i + 1) \in 1 .. Len(list)
    BY <1>1, <2>1
  <2>4. f \in Seq(S) /\ Len(f) = n
    <3>1. \A i \in 1 .. n : list[IF i < p THEN i ELSE i + 1] \in S
      BY <1>1, <2>3
    <3>2. f \in [1 .. n -> S]
      BY <3>1
    <3>. QED
      BY <2>3, <3>2, SeqDef, LenProperties
  <2>5. \A i \in 1 .. n : f[i] = list[IF i < p THEN i ELSE i + 1]
    OBVIOUS
  <2> HIDE DEF f, n, d
  <2>6. ASSUME NEW i \in 1 .. n, NEW j \in 1 .. n, i < j
        PROVE  \E k, l \in 1 .. Len(list) : k < l /\ f[i] = list[k] /\ f[j] = list[l]
    <3> DEFINE k == IF i < p THEN i ELSE i + 1
               l == IF j < p THEN j ELSE j + 1
    <3>1. k \in 1 .. Len(list) /\ l \in 1 .. Len(list) /\ k < l
      BY <2>1, <2>3, <2>6
    <3>. QED
      BY <2>5, <3>1
  <2>7. ASSUME NoneTwice(list)
        PROVE  Members(f) = Members(list) \ {node}
    <3>1. \A i \in 1 .. n : f[i] \in Members(list) \ {node}
      <4> TAKE i \in 1 .. n
      <4> DEFINE k == IF i < p THEN i ELSE i + 1
      <4>1. k \in 1 .. Len(list) /\ k # p
        BY <2>1, <2>3
      <4> HIDE DEF k
      <4>2. list[k] # list[p]
        BY <2>1, <2>7, <4>1 DEF NoneTwice
      <4>3. f[i] = list[k]
        BY <2>5 DEF k
      <4>. QED
        BY <2>1, <4>1, <4>2, <4>3 DEF Members
    <3>2. \A k \in 1 .. Len(list) : list[k] # node => \E i \in 1 .. n : f[i] = list[k]
      <4> TAKE k \in 1 .. Len(list)
      <4> HAVE list[k] # node
      <4> DEFINE i == IF k < p THEN k ELSE k - 1
      <4>1. i \in 1 .. n /\ (IF i < p THEN i ELSE i + 1) = k
        BY <1>1, <2>1 DEF n
      <4>. QED
        BY <2>5, <4>1
    <3>3. Members(f) \subseteq Members(list) \ {node}
      BY <2>4, <3>1 DEF Members
    <3>4. \A x \in Members(list) : x # node => x \in Members(f)
      BY <2>4, <3>2 DEF Members
    <3>. QED
      BY <3>3, <3>4
  <2>. QED
    BY <1>3, <2>2, <2>4, <2>6, <2>7 DEF n, d
<1>. QED
  BY <1>2, <1>3

(* dlist_insert_before() the head: the node becomes the last one. *)
LEMMA InsertFacts ==
  ASSUME NEW S, NEW list \in Seq(S), NEW node \in S
  PROVE  LET a == Append(list, node)
         IN /\ a \in Seq(S) /\ Len(a) = Len(list) + 1
            /\ \A i \in 1 .. Len(list) : a[i] = list[i]
            /\ a[Len(list) + 1] = node
            /\ Members(a) = Members(list) \cup {node}
            /\ NoneTwice(list) /\ node \notin Members(list) => NoneTwice(a)
<1> DEFINE a == Append(list, node)
<1>1. /\ a \in Seq(S) /\ Len(a) = Len(list) + 1 /\ Len(list) \in Nat
      /\ \A i \in 1 .. Len(list) : a[i] = list[i]
      /\ a[Len(list) + 1] = node
  BY AppendProperties, LenProperties
<1> HIDE DEF a
<1>2. Members(a) = Members(list) \cup {node}
  <2>1. \A i \in 1 .. Len(a) : a[i] \in Members(list) \cup {node}
    BY <1>1 DEF Members
  <2>2. \A i \in 1 .. Len(list) : list[i] \in Members(a)
    BY <1>1 DEF Members
  <2>3. node \in Members(a)
    BY <1>1 DEF Members
  <2>. QED
    BY <2>1, <2>2, <2>3 DEF Members
<1>3. ASSUME NoneTwice(list), node \notin Members(list)
      PROVE  NoneTwice(a)
  BY <1>1, <1>3 DEF NoneTwice, Members
<1>. QED
  BY <1>1, <1>2, <1>3 DEF a

(* The first of the list goes: detaching it leaves the tail. *)
LEMMA HeadFacts ==
  ASSUME NEW S, NEW list \in Seq(S), list # <<>>, NoneTwice(list)
  PROVE  /\ Head(list) \in Members(list) /\ Head(list) = list[1] /\ Head(list) \in S
         /\ Len(list) > 0
         /\ dlist_detach(list, Head(list)) = Tail(list)
         /\ Tail(list) \in Seq(S) /\ Len(Tail(list)) = Len(list) - 1
         /\ \A i \in 1 .. Len(list) - 1 : Tail(list)[i] = list[i + 1]
<1>1. /\ Len(list) \in Nat /\ Len(list) > 0 /\ Head(list) = list[1] /\ Head(list) \in S
      /\ Tail(list) \in Seq(S) /\ Len(Tail(list)) = Len(list) - 1
      /\ \A i \in 1 .. Len(list) - 1 : Tail(list)[i] = list[i + 1]
  BY HeadTailProperties, EmptySeq, LenProperties
<1>2. Head(list) \in Members(list)
  BY <1>1 DEF Members
<1>3. \A p \in 1 .. Len(list) : list[p] = Head(list) => p = 1
  BY <1>1 DEF NoneTwice
<1> DEFINE f == [i \in 1 .. Len(list) - 1 |-> list[i + 1]]
<1>4. dlist_detach(list, Head(list)) = f
  <2> DEFINE p == CHOOSE i \in 1 .. Len(list) : list[i] = Head(list)
  <2>1. p = 1
    BY <1>1, <1>3
  <2>2. dlist_detach(list, Head(list)) =
          [i \in 1 .. Len(list) - 1 |-> list[IF i < p THEN i ELSE i + 1]]
    BY <1>2 DEF dlist_detach
  <2> HIDE DEF p
  <2>3. \A i \in 1 .. Len(list) - 1 : ~(i < p)
    BY <1>1, <2>1
  <2>. QED
    BY <2>2, <2>3
<1>5. Tail(list) = f
  <2>1. f \in Seq(S) /\ Len(f) = Len(list) - 1
    <3>1. f \in [1 .. Len(list) - 1 -> S]
      BY <1>1, ElementOfSeq
    <3>. QED
      BY <1>1, <3>1, SeqDef, LenProperties
  <2>. QED
    BY <1>1, <2>1, SeqEqual
<1>. QED
  BY <1>1, <1>2, <1>4, <1>5

(***************************************************************************)
(* The first connection of the idle list is the one idle longest, and the  *)
(* earliest deadline is the one at hand; what a pass has done so far.      *)
(***************************************************************************)
Ordered ==
  \A i, j \in 1 .. Len(idle_list) :
    i < j => /\ idle_list[i] # idle_list[j]
             /\ last_active[idle_list[i]] <= last_active[idle_list[j]]

InThePast == \A c \in Conns : last_active[c] <= now

AtHand == earliest = TtlHeap!Earliest(deadline)

IdleDone == \A c \in Open : last_active[c] + IdleTimeout >= now_ms

TtlDone ==
  \/ \A e \in Entries : deadline[e] # None => deadline[e] >= now_ms
  \/ nworks = MaxWorks + 1

PassInv ==
  /\ pc \in {"idle", "ttl"} => nworks <= MaxWorks
  /\ pc \in {"ttl", "next_timer", "epoll_wait"} => IdleDone
  /\ pc \in {"next_timer", "epoll_wait"} => TtlDone

IInv == TypeOK /\ Ordered /\ InThePast /\ AtHand /\ PassInv

-----------------------------------------------------------------------------
LEMMA LeastDeadline ==
  ASSUME NEW S \in SUBSET Nat, S # {}
  PROVE  \E v \in S : \A w \in S : v <= w
<1>1. \E v \in S : \A w \in S : ~(<<w, v>> \in OpToRel(<, Nat))
  BY NatLessThanWellFounded, WFMin
<1>2. \E v \in S : \A w \in S : ~(w < v)
  BY <1>1 DEF OpToRel
<1>. QED
  BY <1>2

(* The earliest of the deadlines is one of them, if there are any. *)
LEMMA EarliestFacts ==
  ASSUME NEW d \in [Entries -> Nat \cup {None}]
  PROVE  /\ TtlHeap!Earliest(d) \in Nat \cup {None}
         /\ \A e \in Entries : d[e] # None =>
              TtlHeap!Earliest(d) # None /\ TtlHeap!Earliest(d) <= d[e]
<1> DEFINE S == {d[e] : e \in Entries} \ {None}
<1>1. CASE S = {}
  BY <1>1 DEF TtlHeap!Earliest
<1>2. CASE S # {}
  <2>1. S \in SUBSET Nat /\ None \notin S
    OBVIOUS
  <2>2. \E v \in S : \A w \in S : v <= w
    BY <1>2, <2>1, LeastDeadline
  <2> DEFINE v == CHOOSE x \in S : \A w \in S : x <= w
  <2>3. v \in S /\ \A w \in S : v <= w
    BY <2>2
  <2>4. TtlHeap!Earliest(d) = v
    BY <1>2 DEF TtlHeap!Earliest
  <2>5. \A e \in Entries : d[e] # None => d[e] \in S
    OBVIOUS
  <2> HIDE DEF v
  <2>. QED
    BY <2>1, <2>3, <2>4, <2>5
<1>. QED
  BY <1>1, <1>2

LEMMA EarliestAmong ==
  ASSUME NEW d \in [Entries -> Nat \cup {None}], TtlHeap!Earliest(d) # None
  PROVE  \E e \in Entries : d[e] = TtlHeap!Earliest(d)
<1> DEFINE S == {d[e] : e \in Entries} \ {None}
           v == CHOOSE x \in S : \A w \in S : x <= w
<1>1. S # {} /\ S \in SUBSET Nat
  BY DEF TtlHeap!Earliest
<1>2. v \in S
  BY <1>1, LeastDeadline
<1>3. TtlHeap!Earliest(d) = v
  BY <1>1 DEF TtlHeap!Earliest
<1> HIDE DEF v
<1>. QED
  BY <1>2, <1>3

LEMMA NoneTwiceFacts == Ordered /\ idle_list \in Seq(Conns) => NoneTwice(idle_list)
BY LenProperties DEF Ordered, NoneTwice

(* The first connection of the list is due before any other. *)
LEMMA IdleFirst ==
  ASSUME IInv
  PROVE  /\ Open \subseteq Conns
         /\ idle_list = <<>> => Open = {}
         /\ idle_list # <<>> =>
              /\ Head(idle_list) \in Open
              /\ \A c \in Open : last_active[Head(idle_list)] <= last_active[c]
<1>1. /\ Len(idle_list) \in Nat /\ idle_list \in Seq(Conns)
      /\ \A i \in 1 .. Len(idle_list) : idle_list[i] \in Conns /\ last_active[idle_list[i]] \in Nat
  BY LenProperties, ElementOfSeq, ConstantsAssumption DEF IInv, TypeOK
<1>2. idle_list = <<>> => Open = {}
  BY DEF Open, Members
<1>3. ASSUME idle_list # <<>>
      PROVE  /\ Head(idle_list) \in Open
             /\ \A c \in Open : last_active[Head(idle_list)] <= last_active[c]
  <2>1. Head(idle_list) \in Open /\ Head(idle_list) = idle_list[1]
    BY <1>1, <1>3, HeadFacts, NoneTwiceFacts DEF IInv, Open
  <2>2. \A i \in 1 .. Len(idle_list) : last_active[idle_list[1]] <= last_active[idle_list[i]]
    BY <1>1 DEF IInv, Ordered
  <2>. QED
    BY <2>1, <2>2 DEF Open, Members
<1>. QED
  BY <1>1, <1>2, <1>3 DEF Open, Members

-----------------------------------------------------------------------------
(* The steps that do not touch the timers. *)
LEMMA QuietStep ==
  ASSUME IInv, UNCHANGED timerVars, TypeOK', now' >= now, PassInv'
  PROVE  IInv'
<1>1. Ordered' /\ AtHand'
  BY DEF IInv, Ordered, AtHand, timerVars
<1>2. InThePast'
  <2>1. \A c \in Conns : last_active[c] \in Int /\ now \in Int /\ now' \in Int
    BY DEF IInv, TypeOK
  <2>. QED
    BY <2>1 DEF IInv, InThePast, timerVars
<1>. QED
  BY <1>1, <1>2 DEF IInv

LEMMA AsIntInt == ASSUME NEW x \in Int PROVE AsInt(x) \in Int
<1>1. Half \in Nat /\ 2 * Half \in Nat /\ 2 * Half > 0
  BY ConstantsAssumption
<1>. QED
  BY <1>1 DEF AsInt

LEMMA NextTimerStep ==
  ASSUME IInv, next_timer_ms
  PROVE  IInv'
<1>1. /\ pc = "next_timer" /\ pc' = "epoll_wait" /\ since' = now
      /\ UNCHANGED <<now, timerVars, left, passVars>>
  BY DEF next_timer_ms
<1>2. timeout' \in Int
  <2> DEFINE S == IdleDeadlines \cup TtlDeadlines
  <2>1. S \in SUBSET Nat
    BY IdleFirst, ConstantsAssumption DEF IdleDeadlines, TtlDeadlines, IInv, TypeOK
  <2>2. S # {} => NextDeadline \in Nat
    BY <2>1, LeastDeadline DEF NextDeadline
  <2>3. CASE S = {}
    BY <2>3 DEF next_timer_ms
  <2>4. CASE S # {}
    <3>1. NextDeadline - now \in Int
      BY <2>2, <2>4 DEF IInv, TypeOK
    <3>2. AsInt(NextDeadline - now) \in Int
      BY <3>1, AsIntInt
    <3>. QED
      BY <2>4, <3>2 DEF next_timer_ms
  <2>. QED
    BY <2>3, <2>4
<1>3. TypeOK'
  BY <1>1, <1>2 DEF IInv, TypeOK, timerVars, passVars
<1>4. PassInv'
  BY <1>1 DEF IInv, PassInv, IdleDone, TtlDone, Open, timerVars, passVars
<1>. QED
  BY <1>1, <1>3, <1>4, QuietStep DEF IInv, TypeOK

LEMMA WaitStep ==
  ASSUME IInv, EventsArrive \/ TimeIsUp \/ Interrupted \/ Tick \/ process_timers
  PROVE  IInv'
<1>1. UNCHANGED timerVars /\ now' \in 0 .. MaxNow /\ now' >= now
  <2>1. now \in 0 .. MaxNow /\ MaxNow \in Nat
    BY ConstantsAssumption DEF IInv, TypeOK
  <2>2. CASE Tick
    BY <2>1, <2>2 DEF Tick
  <2>3. CASE EventsArrive \/ TimeIsUp \/ Interrupted \/ process_timers
    BY <2>1, <2>3 DEF EventsArrive, TimeIsUp, Return, Interrupted, process_timers
  <2>. QED
    BY <2>2, <2>3
<1>2. TypeOK'
  <2>1. left' \in 0 .. MaxEvents
    BY ConstantsAssumption
    DEF IInv, TypeOK, EventsArrive, TimeIsUp, Return, Interrupted, Tick, process_timers
  <2>2. since' = since /\ timeout' = timeout
    BY DEF EventsArrive, TimeIsUp, Return, Interrupted, Tick, process_timers
  <2>3. now_ms' \in 0 .. now' /\ nworks' \in 0 .. MaxWorks + 1
    BY ConstantsAssumption
    DEF IInv, TypeOK, EventsArrive, TimeIsUp, Return, Interrupted, Tick, process_timers, passVars
  <2>4. pc' \in {"next_timer", "epoll_wait", "events", "idle", "ttl"}
    BY DEF IInv, TypeOK, EventsArrive, TimeIsUp, Return, Interrupted, Tick, process_timers
  <2>5. since \in 0 .. now'
    BY <1>1 DEF IInv, TypeOK
  <2>. QED
    BY <1>1, <2>1, <2>2, <2>3, <2>4, <2>5 DEF IInv, TypeOK, timerVars
<1>3. PassInv'
  BY ConstantsAssumption
  DEF EventsArrive, TimeIsUp, Return, Interrupted, Tick, process_timers, IInv, PassInv,
      IdleDone, TtlDone, Open, timerVars, passVars
<1>. QED
  BY <1>1, <1>2, <1>3, QuietStep DEF IInv, TypeOK

-----------------------------------------------------------------------------
(* The events: what they do to the idle list, and what to the TTLs. *)
LEMMA TouchFacts ==
  ASSUME IInv, NEW c \in Conns, Touch(c)
  PROVE  /\ idle_list' \in Seq(Conns) /\ last_active' \in [Conns -> 0 .. MaxNow]
         /\ Ordered' /\ \A x \in Conns : last_active'[x] <= now
<1> DEFINE d == dlist_detach(idle_list, c)
<1>1. /\ idle_list \in Seq(Conns) /\ last_active \in [Conns -> 0 .. MaxNow] /\ now \in 0 .. MaxNow
      /\ last_active' = [last_active EXCEPT ![c] = now] /\ idle_list' = Append(d, c)
  BY DEF IInv, TypeOK, Touch
<1>2. /\ d \in Seq(Conns) /\ Members(d) = Members(idle_list) \ {c}
      /\ \A i, j \in 1 .. Len(d) : i < j =>
           \E k, l \in 1 .. Len(idle_list) : k < l /\ d[i] = idle_list[k] /\ d[j] = idle_list[l]
  BY <1>1, DetachFacts, NoneTwiceFacts DEF IInv
<1> HIDE DEF d
<1>3. /\ idle_list' \in Seq(Conns) /\ Len(idle_list') = Len(d) + 1 /\ Len(d) \in Nat
      /\ \A i \in 1 .. Len(d) : idle_list'[i] = d[i]
      /\ idle_list'[Len(d) + 1] = c
  BY <1>1, <1>2, InsertFacts, LenProperties
<1>4. \A i \in 1 .. Len(d) : d[i] \in Conns /\ d[i] # c
  BY <1>2, ElementOfSeq DEF Members
<1>5. \A x \in Conns : last_active'[x] = IF x = c THEN now ELSE last_active[x]
  BY <1>1
<1>6. \A x \in Conns : last_active'[x] <= now
  BY <1>1, <1>5 DEF IInv, InThePast
<1>7. ASSUME NEW i \in 1 .. Len(idle_list'), NEW j \in 1 .. Len(idle_list'), i < j
      PROVE  /\ idle_list'[i] # idle_list'[j]
             /\ last_active'[idle_list'[i]] <= last_active'[idle_list'[j]]
  <2>1. i \in 1 .. Len(d)
    BY <1>3, <1>7
  <2>2. CASE j = Len(d) + 1
    BY <1>3, <1>4, <1>5, <1>6, <2>1, <2>2
  <2>3. CASE j \in 1 .. Len(d)
    <3>1. PICK k \in 1 .. Len(idle_list), l \in 1 .. Len(idle_list) :
            k < l /\ d[i] = idle_list[k] /\ d[j] = idle_list[l]
      BY <1>2, <1>7, <2>1, <2>3
    <3>2. d[i] # d[j] /\ last_active[d[i]] <= last_active[d[j]]
      BY <3>1 DEF IInv, Ordered
    <3>. QED
      BY <1>3, <1>4, <1>5, <2>1, <2>3, <3>2
  <2>. QED
    BY <1>3, <2>2, <2>3
<1>8. Ordered'
  BY <1>7 DEF Ordered
<1>9. last_active' \in [Conns -> 0 .. MaxNow]
  BY <1>1
<1>. QED
  BY <1>3, <1>6, <1>8, <1>9

LEMMA CloseFacts ==
  ASSUME IInv, NEW c \in Conns, Drop(c), last_active' = [last_active EXCEPT ![c] = now]
  PROVE  /\ idle_list' \in Seq(Conns) /\ last_active' \in [Conns -> 0 .. MaxNow]
         /\ Ordered' /\ \A x \in Conns : last_active'[x] <= now
<1> DEFINE d == dlist_detach(idle_list, c)
<1>1. /\ idle_list \in Seq(Conns) /\ last_active \in [Conns -> 0 .. MaxNow] /\ now \in 0 .. MaxNow
      /\ idle_list' = d
  BY DEF IInv, TypeOK, Drop
<1>2. /\ d \in Seq(Conns) /\ Members(d) = Members(idle_list) \ {c}
      /\ \A i, j \in 1 .. Len(d) : i < j =>
           \E k, l \in 1 .. Len(idle_list) : k < l /\ d[i] = idle_list[k] /\ d[j] = idle_list[l]
  <2>1. idle_list \in Seq(Conns) /\ NoneTwice(idle_list)
    BY <1>1, NoneTwiceFacts DEF IInv
  <2>. QED
    BY <2>1, DetachFacts
<1> HIDE DEF d
<1>3. \A i \in 1 .. Len(d) : d[i] \in Conns /\ d[i] # c
  BY <1>2, ElementOfSeq DEF Members
<1>4. \A x \in Conns : last_active'[x] = IF x = c THEN now ELSE last_active[x]
  BY <1>1
<1>5. ASSUME NEW i \in 1 .. Len(d), NEW j \in 1 .. Len(d), i < j
      PROVE  /\ d[i] # d[j]
             /\ last_active'[d[i]] <= last_active'[d[j]]
  <2>1. PICK k \in 1 .. Len(idle_list), l \in 1 .. Len(idle_list) :
          k < l /\ d[i] = idle_list[k] /\ d[j] = idle_list[l]
    BY <1>2, <1>5
  <2>2. d[i] # d[j] /\ last_active[d[i]] <= last_active[d[j]]
    BY <2>1 DEF IInv, Ordered
  <2>. QED
    BY <1>3, <1>4, <2>2
<1>6. Ordered'
  BY <1>1, <1>5 DEF Ordered
<1>7. \A x \in Conns : last_active'[x] <= now
  BY <1>1, <1>4 DEF IInv, InThePast
<1>. QED
  BY <1>1, <1>2, <1>6, <1>7

(* What an event, or the expiry of a key, does to the TTLs *)
TtlStep ==
  \/ \E e \in Entries : TtlHeap!RemoveTimer(e) \/ \E ttl \in Ttls : TtlHeap!SetTimer(e, now + ttl)
  \/ UNCHANGED <<deadline, earliest>>

LEMMA TtlFacts ==
  ASSUME IInv, TtlStep
  PROVE  deadline' \in [Entries -> Nat \cup {None}] /\ earliest' \in Nat \cup {None} /\ AtHand'
<1>1. deadline \in [Entries -> Nat \cup {None}] /\ earliest \in Nat \cup {None} /\ now \in Nat
  BY DEF IInv, TypeOK
<1>2. CASE UNCHANGED <<deadline, earliest>>
  BY <1>1, <1>2 DEF IInv, AtHand
<1>3. ASSUME NEW e \in Entries,
             TtlHeap!RemoveTimer(e) \/ \E ttl \in Ttls : TtlHeap!SetTimer(e, now + ttl)
      PROVE  /\ deadline' \in [Entries -> Nat \cup {None}] /\ earliest' \in Nat \cup {None}
             /\ AtHand'
  <2>1. PICK v \in Nat \cup {None} :
          deadline' = [deadline EXCEPT ![e] = v] /\ earliest' = TtlHeap!Earliest(deadline')
    <3>1. CASE TtlHeap!RemoveTimer(e)
      BY <3>1 DEF TtlHeap!RemoveTimer
    <3>2. ASSUME NEW ttl \in Ttls, TtlHeap!SetTimer(e, now + ttl)
          PROVE  \E v \in Nat \cup {None} :
                   /\ deadline' = [deadline EXCEPT ![e] = v]
                   /\ earliest' = TtlHeap!Earliest(deadline')
      <4>1. now + ttl \in Nat
        BY <1>1, ConstantsAssumption
      <4>. QED
        BY <3>2, <4>1 DEF TtlHeap!SetTimer
    <3>. QED
      BY <1>3, <3>1, <3>2
  <2>2. deadline' \in [Entries -> Nat \cup {None}]
    BY <1>1, <2>1
  <2>3. earliest' \in Nat \cup {None}
    BY <2>1, <2>2, EarliestFacts
  <2>. QED
    BY <2>1, <2>2, <2>3 DEF AtHand
<1>. QED
  BY <1>2, <1>3 DEF TtlStep

LEMMA EventParts ==
  ASSUME Event
  PROVE  /\ HandleEvent /\ TtlStep
         /\ \/ \E c \in Conns : \/ Touch(c)
                                \/ Drop(c) /\ last_active' = [last_active EXCEPT ![c] = now]
            \/ UNCHANGED <<idle_list, last_active>>
<1>1. CASE NothingThere
  BY <1>1 DEF NothingThere, TtlStep, timerVars
<1>2. ASSUME NEW c \in Conns, Accept(c) \/ Activity(c) \/ Close(c)
      PROVE  /\ HandleEvent /\ TtlStep
             /\ Touch(c) \/ (Drop(c) /\ last_active' = [last_active EXCEPT ![c] = now])
  BY <1>2 DEF Accept, Activity, Close, TtlStep
<1>3. ASSUME NEW c \in Conns, NEW e \in Entries,
             Persist(c, e) \/ \E ttl \in Ttls : Pexpire(c, e, ttl)
      PROVE  HandleEvent /\ TtlStep /\ Touch(c)
  BY <1>3 DEF Persist, Pexpire, TtlStep
<1>. QED
  BY <1>1, <1>2, <1>3 DEF Event

LEMMA EventStep ==
  ASSUME IInv, Event
  PROVE  IInv'
<1>1. /\ pc = "events" /\ left > 0 /\ left' = left - 1
      /\ UNCHANGED <<now, pc, timeout, since, passVars>>
  BY EventParts DEF HandleEvent
<1>2. /\ idle_list' \in Seq(Conns) /\ last_active' \in [Conns -> 0 .. MaxNow]
      /\ Ordered' /\ \A x \in Conns : last_active'[x] <= now
  <2>1. CASE UNCHANGED <<idle_list, last_active>>
    BY <2>1 DEF IInv, TypeOK, Ordered, InThePast
  <2>. QED
    BY <2>1, EventParts, TouchFacts, CloseFacts
<1>3. deadline' \in [Entries -> Nat \cup {None}] /\ earliest' \in Nat \cup {None} /\ AtHand'
  BY EventParts, TtlFacts
<1>4. TypeOK'
  <2>1. left' \in 0 .. MaxEvents
    BY <1>1, ConstantsAssumption DEF IInv, TypeOK
  <2>. QED
    BY <1>1, <1>2, <1>3, <2>1 DEF IInv, TypeOK, passVars
<1>5. PassInv'
  BY <1>1 DEF PassInv
<1>. QED
  BY <1>1, <1>2, <1>3, <1>4, <1>5 DEF IInv, InThePast

(* The passes: what they leave behind was not due when they began. *)
LEMMA CloseIdleStep ==
  ASSUME IInv, CloseIdle
  PROVE  IInv'
<1>1. /\ pc = "idle" /\ pc' \in {"idle", "ttl"}
      /\ UNCHANGED <<now, last_active, deadline, earliest, timeout, since, left, passVars>>
  BY DEF CloseIdle
<1>2. CASE IdleExpired /\ idle_list' = Tail(idle_list) /\ pc' = "idle"
  <2> DEFINE t == Tail(idle_list)
  <2>1. idle_list \in Seq(Conns) /\ idle_list # <<>> /\ NoneTwice(idle_list)
    BY <1>2, NoneTwiceFacts DEF IInv, TypeOK, IdleExpired
  <2>2. /\ t \in Seq(Conns) /\ Len(t) = Len(idle_list) - 1 /\ Len(idle_list) \in Nat
        /\ \A i \in 1 .. Len(idle_list) - 1 : t[i] = idle_list[i + 1]
    BY <2>1, HeadFacts, LenProperties
  <2> HIDE DEF t
  <2>3. idle_list' = t
    BY <1>2 DEF t
  <2>4. ASSUME NEW i \in 1 .. Len(t), NEW j \in 1 .. Len(t), i < j
        PROVE  t[i] # t[j] /\ last_active[t[i]] <= last_active[t[j]]
    <3>1. i + 1 \in 1 .. Len(idle_list) /\ j + 1 \in 1 .. Len(idle_list) /\ i + 1 < j + 1
      BY <2>2, <2>4
    <3>2. t[i] = idle_list[i + 1] /\ t[j] = idle_list[j + 1]
      BY <2>2, <2>4
    <3>. QED
      BY <3>1, <3>2 DEF IInv, Ordered
  <2>5. Ordered'
    BY <1>1, <2>3, <2>4 DEF Ordered
  <2>6. TypeOK'
    BY <1>1, <2>2, <2>3 DEF IInv, TypeOK, passVars
  <2>7. PassInv'
    BY <1>1, <1>2 DEF IInv, PassInv, passVars
  <2>. QED
    BY <1>1, <2>5, <2>6, <2>7 DEF IInv, InThePast, AtHand
<1>3. CASE ~IdleExpired /\ pc' = "ttl" /\ UNCHANGED idle_list
  <2>1. TypeOK'
    BY <1>1, <1>3 DEF IInv, TypeOK, passVars
  <2>2. IdleDone
    <3>1. \A c \in Open : last_active[c] \in Nat /\ c \in Conns
      BY IdleFirst, ConstantsAssumption DEF IInv, TypeOK
    <3>2. now_ms \in Nat /\ IdleTimeout \in Nat
      BY ConstantsAssumption DEF IInv, TypeOK
    <3>3. CASE idle_list = <<>>
      BY <3>3, IdleFirst DEF IdleDone
    <3>4. CASE idle_list # <<>>
      <4>1. last_active[Head(idle_list)] + IdleTimeout >= now_ms
        BY <1>3, <3>1, <3>2, <3>4, IdleFirst DEF IdleExpired
      <4>. QED
        BY <3>1, <3>2, <3>4, <4>1, IdleFirst DEF IdleDone
    <3>. QED
      BY <3>3, <3>4
  <2>3. PassInv'
    BY <1>1, <1>3, <2>2 DEF IInv, PassInv, IdleDone, Open, passVars
  <2>. QED
    BY <1>1, <1>3, <2>1, <2>3, QuietStep DEF timerVars, IInv, TypeOK
<1>. QED
  BY <1>2, <1>3 DEF CloseIdle

LEMMA DeleteExpiredStep ==
  ASSUME IInv, DeleteExpired
  PROVE  IInv'
<1>1. /\ pc = "ttl" /\ UNCHANGED <<now, idle_list, last_active, timeout, since, left, now_ms>>
  BY DEF DeleteExpired
<1>2. /\ nworks \in 0 .. MaxWorks /\ IdleDone /\ MaxWorks \in Nat
      /\ now_ms \in Nat
  BY <1>1, ConstantsAssumption DEF IInv, PassInv, TypeOK
<1>3. IdleDone'
  BY <1>1, <1>2 DEF IdleDone, Open
<1>4. CASE /\ TtlExpired
           /\ \E e \in Entries : deadline[e] = earliest /\ TtlHeap!RemoveTimer(e)
           /\ nworks' = nworks + 1
           /\ pc' = IF nworks >= MaxWorks THEN "next_timer" ELSE "ttl"
  <2>1. deadline' \in [Entries -> Nat \cup {None}] /\ earliest' \in Nat \cup {None} /\ AtHand'
    BY <1>4, TtlFacts DEF TtlStep
  <2>2. TypeOK'
    BY <1>1, <1>2, <1>4, <2>1 DEF IInv, TypeOK
  <2>3. pc' = "ttl" => nworks' <= MaxWorks
    BY <1>2, <1>4
  <2>4. pc' = "next_timer" => TtlDone'
    BY <1>2, <1>4 DEF TtlDone
  <2>5. PassInv'
    BY <1>3, <1>4, <2>3, <2>4 DEF PassInv
  <2>. QED
    BY <1>1, <2>1, <2>2, <2>5 DEF IInv, Ordered, InThePast
<1>5. CASE /\ ~TtlExpired
           /\ pc' = "next_timer"
           /\ UNCHANGED <<deadline, earliest, nworks>>
  <2>1. deadline \in [Entries -> Nat \cup {None}] /\ earliest = TtlHeap!Earliest(deadline)
    BY DEF IInv, TypeOK, AtHand
  <2>2. \A e \in Entries : deadline[e] # None => deadline[e] >= now_ms
    <3> TAKE e \in Entries
    <3> HAVE deadline[e] # None
    <3>1. earliest # None /\ earliest \in Nat /\ earliest <= deadline[e] /\ deadline[e] \in Nat
      BY <2>1, EarliestFacts
    <3>. QED
      BY <1>2, <1>5, <3>1 DEF TtlExpired
  <2>3. TtlDone'
    BY <1>1, <1>5, <2>2 DEF TtlDone
  <2>4. PassInv'
    BY <1>3, <1>5, <2>3 DEF PassInv
  <2>5. TypeOK'
    BY <1>1, <1>5 DEF IInv, TypeOK
  <2>. QED
    BY <1>1, <1>5, <2>4, <2>5 DEF IInv, Ordered, InThePast, AtHand
<1>. QED
  BY <1>4, <1>5 DEF DeleteExpired

-----------------------------------------------------------------------------
LEMMA InitIInv == Init => IInv
<1> SUFFICES ASSUME Init PROVE IInv
  OBVIOUS
<1>1. /\ now = 0 /\ idle_list = <<>> /\ last_active = [c \in Conns |-> 0]
      /\ deadline = [e \in Entries |-> None] /\ earliest = None
      /\ pc = "next_timer" /\ timeout = 0 /\ since = 0 /\ left = 0
      /\ now_ms = 0 /\ nworks = 0
  BY DEF Init, TtlHeap!Init
<1>2. TypeOK
  BY <1>1, ConstantsAssumption DEF TypeOK
<1>3. Open = {} /\ Ordered
  BY <1>1 DEF Open, Members, Ordered
<1>4. AtHand
  <2>1. {deadline[e] : e \in Entries} \ {None} = {}
    BY <1>1
  <2>. QED
    BY <1>1, <2>1 DEF AtHand, TtlHeap!Earliest
<1>5. PassInv
  BY <1>1, <1>3 DEF PassInv, IdleDone, TtlDone
<1>6. InThePast
  BY <1>1 DEF InThePast
<1>. QED
  BY <1>2, <1>3, <1>4, <1>5, <1>6 DEF IInv

LEMMA StepIInv == IInv /\ [Next]_vars => IInv'
<1> SUFFICES ASSUME IInv, [Next]_vars PROVE IInv'
  OBVIOUS
<1>1. CASE UNCHANGED vars
  BY <1>1 DEF vars, IInv, TypeOK, Ordered, InThePast, AtHand, PassInv, IdleDone, TtlDone, Open
<1>. QED
  BY <1>1, NextTimerStep, WaitStep, EventStep, CloseIdleStep, DeleteExpiredStep
  DEF Next, LoopStep

(* process_timers() and next_timer_ms() look only at the first connection  *)
(* of the idle list: it is always the one idle longest.                    *)
THEOREM IdleListOrderedCorrect == Spec => []IdleListOrdered
<1>1. IInv => IdleListOrdered
  BY DEF IInv, Ordered, IdleListOrdered
<1>. QED
  BY <1>1, InitIInv, StepIInv, PTL DEF Spec

(* process_timers() leaves nothing behind that was due, unless it deleted  *)
(* as many keys as one pass may.                                           *)
THEOREM PassCompleteCorrect == Spec => []PassComplete
<1>1. IInv => PassComplete
  BY DEF IInv, PassInv, IdleDone, TtlDone, PassComplete
<1>. QED
  BY <1>1, InitIInv, StepIInv, PTL DEF Spec

-----------------------------------------------------------------------------
(***************************************************************************)
(* The timeout of epoll_wait().  A time that fits an int32_t is kept as it *)
(* is; no timer is further ahead than the longest of IdleTimeout and Ttls. *)
(***************************************************************************)
TimersFit == IdleTimeout < Half /\ \A ttl \in Ttls : ttl < Half

DueSoon == \A e \in Entries : deadline[e] # None => deadline[e] < now + Half

WakeInv == IInv /\ DueSoon /\ WakesInTime

LEMMA AsIntFits == ASSUME NEW x \in Nat, x < Half PROVE AsInt(x) = x
<1>1. Half \in Nat /\ x + Half \in Nat /\ x + Half < 2 * Half
  BY ConstantsAssumption
<1>2. \A a, b \in Nat : a < b => a % b = a
  OBVIOUS
<1>. QED
  BY <1>1, <1>2 DEF AsInt

LEMMA DueSoonStep ==
  ASSUME TimersFit, IInv, DueSoon, [Next]_vars
  PROVE  DueSoon'
<1>1. /\ deadline \in [Entries -> Nat \cup {None}] /\ now \in Nat /\ Half \in Nat \ {0}
      /\ \A ttl \in Ttls : ttl \in Nat /\ ttl < Half
  BY ConstantsAssumption DEF IInv, TypeOK, TimersFit
<1>2. CASE deadline' = deadline /\ now' \in Nat /\ now' >= now
  BY <1>1, <1>2 DEF DueSoon
<1>3. CASE now' = now /\ TtlStep
  <2>1. ASSUME NEW e \in Entries, NEW ttl \in Ttls, TtlHeap!SetTimer(e, now + ttl)
        PROVE  DueSoon'
    <3>1. deadline' = [deadline EXCEPT ![e] = now + ttl]
      BY <2>1 DEF TtlHeap!SetTimer
    <3>2. \A x \in Entries : deadline'[x] = IF x = e THEN now + ttl ELSE deadline[x]
      BY <1>1, <3>1
    <3>. QED
      BY <1>1, <1>3, <3>2 DEF DueSoon
  <2>2. ASSUME NEW e \in Entries, TtlHeap!RemoveTimer(e)
        PROVE  DueSoon'
    <3>1. deadline' = [deadline EXCEPT ![e] = None]
      BY <2>2 DEF TtlHeap!RemoveTimer
    <3>2. \A x \in Entries : deadline'[x] = IF x = e THEN None ELSE deadline[x]
      BY <1>1, <3>1
    <3>. QED
      BY <1>1, <1>3, <3>2 DEF DueSoon
  <2>3. CASE UNCHANGED <<deadline, earliest>>
    BY <1>3, <2>3 DEF DueSoon
  <2>. QED
    BY <1>3, <2>1, <2>2, <2>3 DEF TtlStep
<1>4. CASE next_timer_ms \/ EventsArrive \/ TimeIsUp \/ Interrupted \/ Tick
           \/ process_timers \/ CloseIdle
  BY <1>1, <1>2, <1>4
  DEF next_timer_ms, EventsArrive, TimeIsUp, Return, Interrupted, Tick, process_timers,
      CloseIdle, timerVars
<1>5. CASE Event
  BY <1>3, <1>5, EventParts DEF HandleEvent
<1>6. CASE DeleteExpired
  BY <1>3, <1>6 DEF DeleteExpired, TtlStep
<1>7. CASE UNCHANGED vars
  BY <1>1, <1>2, <1>7 DEF vars
<1>. QED
  BY <1>4, <1>5, <1>6, <1>7 DEF Next, LoopStep

LEMMA WakesStep ==
  ASSUME TimersFit, WakeInv, [Next]_vars
  PROVE  WakesInTime'
<1>1. /\ deadline \in [Entries -> Nat \cup {None}] /\ earliest \in Nat \cup {None}
      /\ earliest = TtlHeap!Earliest(deadline)
      /\ now \in Nat /\ IdleTimeout \in Nat /\ Half \in Nat /\ IdleTimeout < Half
      /\ \A c \in Conns : last_active[c] \in Nat /\ last_active[c] <= now
  BY ConstantsAssumption DEF WakeInv, IInv, TypeOK, AtHand, InThePast, TimersFit
<1>2. CASE next_timer_ms
  <2> DEFINE S == IdleDeadlines \cup TtlDeadlines
  <2>1. S \in SUBSET Nat
    BY <1>1, IdleFirst DEF IdleDeadlines, TtlDeadlines, WakeInv
  <2>2. \A c \in Open : \E d \in S : d <= last_active[c] + IdleTimeout
    <3> TAKE c \in Open
    <3>1. /\ idle_list # <<>> /\ Head(idle_list) \in Conns /\ c \in Conns
          /\ last_active[Head(idle_list)] <= last_active[c]
      BY IdleFirst DEF WakeInv
    <3>2. last_active[Head(idle_list)] + IdleTimeout \in S
      BY <3>1 DEF IdleDeadlines
    <3>. QED
      BY <1>1, <3>1, <3>2
  <2>3. \A e \in Entries : deadline[e] # None => \E d \in S : d <= deadline[e]
    BY <1>1, EarliestFacts DEF TtlDeadlines
  <2>4. \A d \in S : d < now + Half
    <3>1. \A d \in IdleDeadlines : d < now + Half
      BY <1>1, IdleFirst DEF IdleDeadlines, WakeInv
    <3>2. \A d \in TtlDeadlines : d < now + Half
      <4> SUFFICES ASSUME earliest # None PROVE earliest < now + Half
        BY DEF TtlDeadlines
      <4>1. \E e \in Entries : deadline[e] = earliest
        BY <1>1, EarliestAmong
      <4>. QED
        BY <4>1 DEF WakeInv, DueSoon
    <3>. QED
      BY <3>1, <3>2
  <2>5. since' = now /\ UNCHANGED <<idle_list, last_active, deadline>>
    BY <1>2 DEF next_timer_ms, timerVars
  <2>6. CASE S = {}
    BY <2>2, <2>3, <2>5, <2>6 DEF WakesInTime, Open
  <2>7. CASE S # {}
    <3> DEFINE n == NextDeadline
    <3>1. n \in S /\ \A d \in S : n <= d
      BY <2>1, <2>7, LeastDeadline DEF NextDeadline
    <3> HIDE DEF n
    <3>2. n \in Nat /\ n < now + Half
      BY <2>1, <2>4, <3>1
    <3>3. timeout' # 0 => timeout' = n - now /\ n > now
      <4>1. timeout' = IF n <= now THEN 0 ELSE AsInt(n - now)
        BY <1>2, <2>7 DEF next_timer_ms, n
      <4>2. n > now => AsInt(n - now) = n - now
        BY <1>1, <3>2, AsIntFits
      <4>. QED
        BY <1>1, <3>2, <4>1, <4>2
    <3>4. \A c \in Open : n <= last_active[c] + IdleTimeout
      <4> TAKE c \in Open
      <4>1. PICK d \in S : d <= last_active[c] + IdleTimeout
        BY <2>2
      <4>2. c \in Conns
        BY IdleFirst DEF WakeInv
      <4>. QED
        BY <1>1, <2>1, <3>1, <3>2, <4>1, <4>2
    <3>5. \A e \in Entries : deadline[e] # None => n <= deadline[e]
      <4> TAKE e \in Entries
      <4> HAVE deadline[e] # None
      <4>1. PICK d \in S : d <= deadline[e]
        BY <2>3
      <4>2. deadline[e] \in Nat
        BY <1>1
      <4>. QED
        BY <2>1, <3>1, <3>2, <4>1, <4>2
    <3>6. Asleep' => timeout' > 0 /\ since' + timeout' = n
      BY <1>1, <2>5, <3>2, <3>3 DEF Asleep
    <3>. QED
      BY <2>5, <3>4, <3>5, <3>6 DEF WakesInTime, Open
  <2>. QED
    BY <2>6, <2>7
<1>3. CASE \/ EventsArrive \/ TimeIsUp \/ Interrupted \/ Event \/ process_timers
           \/ CloseIdle \/ DeleteExpired
  <2>1. pc' # "epoll_wait"
    <3>1. CASE Event
      BY <3>1, EventParts DEF HandleEvent
    <3>. QED
      BY <1>3, <3>1
      DEF EventsArrive, TimeIsUp, Return, Interrupted, process_timers, CloseIdle, DeleteExpired
  <2>. QED
    BY <2>1 DEF WakesInTime, Asleep
<1>4. CASE Tick \/ UNCHANGED vars
  BY <1>4 DEF Tick, vars, timerVars, WakeInv, WakesInTime, Asleep, Open
<1>. QED
  BY <1>2, <1>3, <1>4 DEF Next, LoopStep

(* epoll_wait() is never given a timeout that ends after a connection or a *)
(* key is due, as long as no timer is 2^31 ms or more ahead: beyond that   *)
(* the cast in next_timer_ms() loses it (MCTimersWidth).                   *)
THEOREM WakesInTimeCorrect == ASSUME TimersFit PROVE Spec => []WakesInTime
<1>1. Init => WakeInv
  <2>1. Init => DueSoon /\ WakesInTime
    BY DEF Init, TtlHeap!Init, DueSoon, WakesInTime, Asleep
  <2>. QED
    BY <2>1, InitIInv DEF WakeInv
<1>2. WakeInv /\ [Next]_vars => WakeInv'
  BY StepIInv, DueSoonStep, WakesStep DEF WakeInv
<1>3. WakeInv => WakesInTime
  BY DEF WakeInv
<1>. QED
  BY <1>1, <1>2, <1>3, PTL DEF Spec

=============================================================================
