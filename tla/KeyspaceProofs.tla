--------------------------- MODULE KeyspaceProofs ---------------------------
(***************************************************************************)
(* TLAPS proofs about Keyspace, for any sets of keys, values and addresses *)
(* and any limits, and about the ThreadPool behind it.                     *)
(***************************************************************************)
EXTENDS Keyspace, ThreadPool, SequenceTheorems, FiniteSetTheorems,
        WellFoundedInduction, TLAPS

(* Where the loop is decides which of its locals mean something, and       *)
(* heap[0] is the earliest deadline.                                       *)
ControlOK ==
  /\ victim # None <=> pc \in {"untime", "dispose"}
  /\ pc = "reap" => now_ms # None
  /\ now_ms = None => nworks = 0
  /\ now_ms # None => now_ms <= now
  /\ earliest = Timers!Earliest(deadline)

IInv == OneOwner /\ TimersOwned /\ ControlOK

-----------------------------------------------------------------------------
LEMMA LeastDeadline ==
  ASSUME NEW S \in SUBSET Nat, S # {}
  PROVE  \E v \in S : \A w \in S : v <= w
<1>1. \E v \in S : \A w \in S : ~(<<w, v>> \in OpToRel(<, Nat))
  BY NatLessThanWellFounded, WFMin
<1>2. \E v \in S : \A w \in S : ~(w < v)
  BY <1>1 DEF OpToRel
<1>. QED
  BY <1>2

(* What the timers promise of the earliest deadline. *)
LEMMA EarliestFacts ==
  ASSUME NEW d \in [Entries -> Nat \cup {None}]
  PROVE  /\ Timers!Earliest(d) \in Nat \cup {None}
         /\ Timers!Earliest(d) # None =>
              /\ \E e \in Entries : d[e] = Timers!Earliest(d)
              /\ \A e \in Entries : d[e] # None => Timers!Earliest(d) <= d[e]
<1> DEFINE S == {d[e] : e \in Entries} \ {None}
<1>1. CASE S = {}
  BY <1>1 DEF Timers!Earliest
<1>2. CASE S # {}
  <2>1. S \in SUBSET Nat /\ None \notin S
    OBVIOUS
  <2>2. \E v \in S : \A w \in S : v <= w
    BY <1>2, <2>1, LeastDeadline
  <2> DEFINE v == CHOOSE x \in S : \A w \in S : x <= w
  <2>3. v \in S /\ \A w \in S : v <= w
    BY <2>2
  <2>4. Timers!Earliest(d) = v
    BY <1>2 DEF Timers!Earliest
  <2>5. \A e \in Entries : d[e] # None => d[e] \in S
    OBVIOUS
  <2> HIDE DEF v
  <2>. QED
    BY <2>1, <2>3, <2>4, <2>5
<1>. QED
  BY <1>1, <1>2

LEMMA InitIInv == Init => IInv
<1> SUFFICES ASSUME Init PROVE IInv
  OBVIOUS
<1>1. deadline = [e \in Entries |-> None] /\ earliest = None
  BY DEF Init, Timers!Init
<1>2. earliest = Timers!Earliest(deadline)
  BY <1>1 DEF Timers!Earliest
<1>3. TypeOK
  BY <1>1, ConstantsAssumption DEF Init, TypeOK
<1>4. /\ \A k \in Keys : ~Found(k)
      /\ \A e \in Entries : obj[e] = None /\ ~Stored(e) /\ e # victim /\ e \notin pool
  BY ConstantsAssumption DEF Init, Found, Stored
<1>5. OneOwner
  BY <1>3, <1>4 DEF OneOwner
<1>6. TimersOwned
  BY <1>1 DEF TimersOwned
<1>7. ControlOK
  BY <1>2 DEF Init, ControlOK
<1>. QED
  BY <1>5, <1>6, <1>7 DEF IInv

-----------------------------------------------------------------------------
(* A command that only answers. *)
LEMMA AnswerStep ==
  ASSUME IInv, UNCHANGED <<db, obj, deadline, earliest, pool, now, loopVars>>
  PROVE  IInv'
BY DEF IInv, OneOwner, TypeOK, TimersOwned, ControlOK, Found, Stored, loopVars

(* entry_new(): a free address has no owner and no timer. *)
LEMMA InsertStep ==
  ASSUME IInv, NEW k \in Keys, ~Found(k), pc = "serve",
         NEW type \in {"str", "zset"}, NEW str \in Vals \cup {None},
         NEW set \in SUBSET Names, Insert(k, type, str, set),
         UNCHANGED <<deadline, earliest, pool, now, loopVars>>
  PROVE  IInv'
<1>1. PICK e \in Entries :
        /\ obj[e] = None
        /\ obj' = [obj EXCEPT ![e] = [key |-> k, type |-> type, str |-> str, set |-> set]]
        /\ db' = [db EXCEPT ![k] = e]
  BY DEF Insert
<1> DEFINE r == [key |-> k, type |-> type, str |-> str, set |-> set]
<1>2. r \in Contents /\ r # None /\ r.key = k
  BY NoneAssumption DEF Contents
<1> HIDE DEF r
<1>3. /\ obj' \in [Entries -> Contents \cup {None}] /\ obj'[e] = r
      /\ \A x \in Entries : x # e => obj'[x] = obj[x]
      /\ db' \in [Keys -> Entries \cup {None}] /\ db'[k] = e
      /\ \A x \in Keys : x # k => db'[x] = db[x]
  BY <1>1, <1>2 DEF IInv, OneOwner, TypeOK, r
<1>4. /\ UNCHANGED <<deadline, earliest, pool, now, pc, victim, now_ms, nworks>>
      /\ db[k] = None /\ e # None
  BY ConstantsAssumption DEF loopVars, Found
<1>5. ~Stored(e) /\ e # victim /\ e \notin pool
  BY <1>1 DEF IInv, OneOwner
<1>6. \A x \in Entries : Stored(x)' <=> Stored(x) \/ x = e
  BY <1>3, <1>4 DEF Stored, IInv, OneOwner, TypeOK
<1>7. TypeOK'
  BY <1>3, <1>4 DEF IInv, OneOwner, TypeOK
<1>8. \A x \in Keys : Found(x)' => obj'[db'[x]] # None /\ obj'[db'[x]].key = x
  BY <1>2, <1>3, <1>4, <1>5 DEF IInv, OneOwner, TypeOK, Found, Stored
<1>9. OneOwner'
  BY <1>2, <1>3, <1>4, <1>5, <1>6, <1>7, <1>8 DEF IInv, OneOwner
<1>10. TimersOwned' /\ ControlOK'
  BY <1>4, <1>6 DEF IInv, TimersOwned, ControlOK
<1>. QED
  BY <1>9, <1>10 DEF IInv

(* A command that changes the value of an entry in place. *)
LEMMA OverwriteStep ==
  ASSUME IInv, NEW k \in Keys, Found(k),
         NEW r \in Contents, r.key = obj[db[k]].key,
         obj' = [obj EXCEPT ![db[k]] = r],
         UNCHANGED <<db, deadline, earliest, pool, now, loopVars>>
  PROVE  IInv'
<1>1. /\ UNCHANGED <<db, deadline, earliest, pool, now, pc, victim, now_ms, nworks>>
      /\ db[k] \in Entries /\ obj[db[k]] # None /\ r # None
  BY NoneAssumption DEF loopVars, Found, IInv, OneOwner, TypeOK
<1>2. /\ obj' \in [Entries -> Contents \cup {None}] /\ obj'[db[k]] = r
      /\ \A x \in Entries : x # db[k] => obj'[x] = obj[x]
  BY <1>1 DEF IInv, OneOwner, TypeOK
<1>3. \A x \in Entries : Stored(x)' <=> Stored(x)
  BY <1>1 DEF Stored
<1>4. TypeOK'
  BY <1>1, <1>2 DEF IInv, OneOwner, TypeOK
<1>5. \A x \in Keys : Found(x)' => obj'[db'[x]] # None /\ obj'[db'[x]].key = x
  BY <1>1, <1>2 DEF IInv, OneOwner, TypeOK, Found
<1>6. OneOwner'
  BY <1>1, <1>2, <1>3, <1>4, <1>5 DEF IInv, OneOwner
<1>7. TimersOwned' /\ ControlOK'
  BY <1>1, <1>3 DEF IInv, TimersOwned, ControlOK
<1>. QED
  BY <1>6, <1>7 DEF IInv

(* entry_set_ttl() *)
LEMMA TtlFacts ==
  ASSUME IInv, NEW e \in Entries, NEW ttl \in Int, entry_set_ttl(e, ttl)
  PROVE  /\ deadline' \in [Entries -> Nat \cup {None}]
         /\ earliest' \in Nat \cup {None}
         /\ earliest' = Timers!Earliest(deadline')
         /\ \A x \in Entries : x # e => deadline'[x] = deadline[x]
         /\ deadline'[e] = IF ttl < 0 THEN None ELSE now + ttl
<1>1. /\ deadline \in [Entries -> Nat \cup {None}] /\ earliest \in Nat \cup {None}
      /\ now \in Nat /\ earliest = Timers!Earliest(deadline)
  BY DEF IInv, OneOwner, TypeOK, ControlOK
<1>2. CASE ttl < 0 /\ Timers!RemoveTimer(e)
  <2>1. /\ deadline' = [deadline EXCEPT ![e] = None]
        /\ earliest' = Timers!Earliest(deadline')
    BY <1>2 DEF Timers!RemoveTimer
  <2>2. deadline' \in [Entries -> Nat \cup {None}]
    BY <1>1, <2>1
  <2>. QED
    BY <1>1, <1>2, <2>1, <2>2, EarliestFacts
<1>3. CASE ttl < 0 /\ deadline[e] = None /\ UNCHANGED <<deadline, earliest>>
  BY <1>1, <1>3
<1>4. CASE ttl >= 0 /\ Timers!SetTimer(e, now + ttl)
  <2>1. /\ deadline' = [deadline EXCEPT ![e] = now + ttl]
        /\ earliest' = Timers!Earliest(deadline')
    BY <1>4 DEF Timers!SetTimer
  <2>2. deadline' \in [Entries -> Nat \cup {None}] /\ ~(ttl < 0)
    BY <1>1, <1>4, <2>1
  <2>. QED
    BY <1>1, <2>1, <2>2, EarliestFacts
<1>. QED
  BY <1>2, <1>3, <1>4 DEF entry_set_ttl

LEMMA ExpireStep ==
  ASSUME IInv, NEW k \in Keys, Found(k), NEW ttl \in Int, entry_set_ttl(db[k], ttl),
         UNCHANGED <<db, obj, pool, now, loopVars>>
  PROVE  IInv'
<1>1. /\ UNCHANGED <<db, obj, pool, now, pc, victim, now_ms, nworks>>
      /\ db[k] \in Entries /\ Stored(db[k])
  BY DEF loopVars, Found, Stored, IInv, OneOwner, TypeOK
<1>2. /\ deadline' \in [Entries -> Nat \cup {None}]
      /\ earliest' \in Nat \cup {None} /\ earliest' = Timers!Earliest(deadline')
      /\ \A x \in Entries : x # db[k] => deadline'[x] = deadline[x]
  BY <1>1, TtlFacts
<1>3. \A x \in Entries : Stored(x)' <=> Stored(x)
  BY <1>1 DEF Stored
<1>4. OneOwner'
  BY <1>1, <1>2 DEF IInv, OneOwner, TypeOK, Found, Stored
<1>5. TimersOwned'
  BY <1>1, <1>2, <1>3 DEF IInv, TimersOwned
<1>6. ControlOK'
  BY <1>1, <1>2 DEF IInv, ControlOK
<1>. QED
  BY <1>4, <1>5, <1>6 DEF IInv

(* hm_delete(): the entry passes from the hashtable to entry_del(). *)
LEMMA UnlinkStep ==
  ASSUME IInv, NEW k \in Keys, Found(k), pc \in {"serve", "reap"}, Unlink(k),
         UNCHANGED <<obj, deadline, earliest, pool, now, now_ms, nworks>>
  PROVE  IInv'
<1>1. /\ db' = [db EXCEPT ![k] = None] /\ victim' = db[k] /\ pc' = "untime"
      /\ db[k] \in Entries /\ db[k] # None /\ victim = None
      /\ db' \in [Keys -> Entries \cup {None}]
  BY DEF Unlink, Found, IInv, OneOwner, TypeOK, ControlOK
<1>2. \A x \in Entries : Stored(x)' <=> Stored(x) /\ x # victim'
  <2> TAKE x \in Entries
  <2>1. \A y \in Keys : db'[y] = IF y = k THEN None ELSE db[y]
    BY <1>1 DEF IInv, OneOwner, TypeOK
  <2>2. \A y \in Keys : db[y] = db[k] => y = k
    BY <1>1 DEF IInv, OneOwner, Found
  <2>. QED
    BY <1>1, <2>1, <2>2, ConstantsAssumption DEF Stored
<1>3. Stored(db[k])
  BY DEF Stored
<1>4. TypeOK'
  BY <1>1 DEF IInv, OneOwner, TypeOK
<1>5. \A x \in Keys : Found(x)' => obj'[db'[x]] # None /\ obj'[db'[x]].key = x
  BY <1>1 DEF IInv, OneOwner, TypeOK, Found
<1>6. OneOwner'
  <2> SUFFICES ASSUME NEW e \in Entries
               PROVE  /\ obj'[e] # None <=> Stored(e)' \/ e = victim' \/ e \in pool'
                      /\ ~(Stored(e)' /\ e = victim')
                      /\ ~(Stored(e)' /\ e \in pool')
                      /\ ~(e = victim' /\ e \in pool')
    BY <1>4, <1>5 DEF OneOwner
  <2>1. e # None
    BY ConstantsAssumption
  <2>. QED
    BY <1>1, <1>2, <1>3, <2>1 DEF IInv, OneOwner
<1>7. TimersOwned'
  BY <1>1, <1>2 DEF IInv, TimersOwned
<1>8. ControlOK'
  BY <1>1 DEF IInv, OneOwner, TypeOK, ControlOK
<1>. QED
  BY <1>6, <1>7, <1>8 DEF IInv

(* entry_del(): first the timer goes, so that nothing leads to the entry. *)
LEMMA UntimeStep ==
  ASSUME IInv, entry_del_untime
  PROVE  IInv'
<1>1. /\ pc = "untime" /\ pc' = "dispose" /\ entry_set_ttl(victim, -1)
      /\ UNCHANGED <<db, obj, pool, now, victim, now_ms, nworks>>
      /\ victim \in Entries
  BY DEF entry_del_untime, IInv, ControlOK, OneOwner, TypeOK
<1>2. /\ deadline' \in [Entries -> Nat \cup {None}]
      /\ earliest' \in Nat \cup {None} /\ earliest' = Timers!Earliest(deadline')
      /\ \A x \in Entries : x # victim => deadline'[x] = deadline[x]
      /\ deadline'[victim] = None
  BY <1>1, TtlFacts
<1>3. OneOwner'
  BY <1>1, <1>2 DEF IInv, OneOwner, TypeOK, Found, Stored
<1>4. TimersOwned'
  BY <1>1, <1>2 DEF IInv, TimersOwned, Stored
<1>5. ControlOK'
  BY <1>1, <1>2 DEF IInv, ControlOK
<1>. QED
  BY <1>3, <1>4, <1>5 DEF IInv

(* Then it is freed, or passes to the pool. *)
LEMMA DisposeStep ==
  ASSUME IInv, entry_del_dispose
  PROVE  IInv'
<1>1. /\ pc = "dispose" /\ Dispose(victim) /\ victim' = None
      /\ UNCHANGED <<db, deadline, earliest, now>>
      /\ victim \in Entries /\ victim # None
  BY DEF entry_del_dispose, IInv, ControlOK, OneOwner, TypeOK
<1>2. \/ pc' = "serve" /\ now_ms' = None /\ nworks' = 0
      \/ pc' = "reap" /\ now_ms # None /\ now_ms' = now_ms /\ nworks' \in 0 .. MaxWorks
  BY ConstantsAssumption DEF entry_del_dispose, IInv, ControlOK, OneOwner, TypeOK
<1>3. \/ obj' = obj /\ pool' = pool \cup {victim}
      \/ obj' = [obj EXCEPT ![victim] = None] /\ pool' = pool
  BY <1>1 DEF Dispose
<1>4. /\ obj' \in [Entries -> Contents \cup {None}]
      /\ \A x \in Entries : x # victim => obj'[x] = obj[x]
  BY <1>3 DEF IInv, OneOwner, TypeOK
<1>5. \A x \in Entries : Stored(x)' <=> Stored(x)
  BY <1>1 DEF Stored
<1>6. TypeOK'
  BY <1>1, <1>2, <1>3, <1>4, ConstantsAssumption DEF IInv, OneOwner, TypeOK
<1>7. \A x \in Keys : Found(x)' => obj'[db'[x]] # None /\ obj'[db'[x]].key = x
  BY <1>1, <1>4 DEF IInv, OneOwner, TypeOK, Found, Stored
<1>8. OneOwner'
  <2> SUFFICES ASSUME NEW e \in Entries
               PROVE  /\ obj'[e] # None <=> Stored(e)' \/ e = victim' \/ e \in pool'
                      /\ ~(Stored(e)' /\ e = victim')
                      /\ ~(Stored(e)' /\ e \in pool')
                      /\ ~(e = victim' /\ e \in pool')
    BY <1>6, <1>7 DEF OneOwner
  <2>1. e # None
    BY ConstantsAssumption
  <2>2. CASE e = victim
    BY <1>1, <1>3, <1>5, <2>1, <2>2 DEF IInv, OneOwner, TypeOK
  <2>3. CASE e # victim
    BY <1>1, <1>3, <1>4, <1>5, <2>1, <2>3 DEF IInv, OneOwner
  <2>. QED
    BY <2>2, <2>3
<1>9. TimersOwned'
  BY <1>1, <1>5 DEF IInv, TimersOwned
<1>10. ControlOK'
  BY <1>1, <1>2 DEF IInv, ControlOK
<1>. QED
  BY <1>8, <1>9, <1>10 DEF IInv

(* entry_del_func(): nobody else has the entry a worker frees. *)
LEMMA FreeInBackgroundStep ==
  ASSUME IInv, NEW e \in Entries, FreeInBackground(e)
  PROVE  IInv'
<1>1. /\ e \in pool /\ pool' = pool \ {e} /\ obj' = [obj EXCEPT ![e] = None]
      /\ UNCHANGED <<db, deadline, earliest, now, pc, victim, now_ms, nworks>>
  BY DEF FreeInBackground, loopVars
<1>2. /\ obj' \in [Entries -> Contents \cup {None}] /\ obj'[e] = None
      /\ \A x \in Entries : x # e => obj'[x] = obj[x]
  BY <1>1 DEF IInv, OneOwner, TypeOK
<1>3. \A x \in Entries : Stored(x)' <=> Stored(x)
  BY <1>1 DEF Stored
<1>4. ~Stored(e) /\ e # victim
  BY <1>1 DEF IInv, OneOwner
<1>5. TypeOK'
  BY <1>1, <1>2 DEF IInv, OneOwner, TypeOK
<1>6. \A x \in Keys : Found(x)' => obj'[db'[x]] # None /\ obj'[db'[x]].key = x
  BY <1>1, <1>2, <1>4 DEF IInv, OneOwner, TypeOK, Found, Stored
<1>7. OneOwner'
  BY <1>1, <1>2, <1>3, <1>4, <1>5, <1>6 DEF IInv, OneOwner
<1>8. TimersOwned' /\ ControlOK'
  BY <1>1, <1>3 DEF IInv, TimersOwned, ControlOK
<1>. QED
  BY <1>7, <1>8 DEF IInv

(* heap[0] belongs to an entry that the hashtable has under its own key. *)
LEMMA ReapTopFacts ==
  ASSUME IInv, ReapTop
  PROVE  \E e \in Entries :
           /\ deadline[e] = earliest /\ earliest # None /\ earliest < now_ms
           /\ obj[e].key \in Keys /\ db[obj[e].key] = e
           /\ Unlink(obj[e].key)
<1>1. PICK e \in Entries :
        /\ deadline[e] = earliest /\ victim' = e /\ pc' = "untime"
        /\ db' = [x \in Keys |-> IF db[x] = e THEN None ELSE db[x]]
  BY DEF ReapTop
<1>2. pc = "reap" /\ earliest # None /\ earliest < now_ms
  BY DEF ReapTop, Expired
<1>3. PICK k \in Keys : db[k] = e
  BY <1>1, <1>2 DEF IInv, TimersOwned, Stored
<1>4. /\ obj[e].key = k
      /\ \A x \in Keys : db[x] = e => x = k
  BY <1>3, ConstantsAssumption DEF IInv, OneOwner, Found
<1>5. db' = [db EXCEPT ![k] = None]
  <2>1. db \in [Keys -> Entries \cup {None}]
    BY DEF IInv, OneOwner, TypeOK
  <2>2. [db EXCEPT ![k] = None] = [x \in Keys |-> IF db[x] = e THEN None ELSE db[x]]
    BY <1>3, <1>4, <2>1
  <2>. QED
    BY <1>1, <2>2
<1>6. Unlink(obj[e].key)
  BY <1>1, <1>3, <1>4, <1>5 DEF Unlink
<1>. QED
  BY <1>1, <1>2, <1>3, <1>4, <1>6

LEMMA ReapTopStep ==
  ASSUME IInv, ReapTop
  PROVE  IInv'
<1>1. PICK e \in Entries : obj[e].key \in Keys /\ db[obj[e].key] = e /\ Unlink(obj[e].key)
  BY ReapTopFacts
<1>2. Found(obj[e].key)
  BY <1>1, ConstantsAssumption DEF Found
<1>. QED
  BY <1>1, <1>2, UnlinkStep DEF ReapTop

(* process_timers() begins and ends, and the clock goes on. *)
LEMMA ClockStep ==
  ASSUME IInv, process_timers \/ ReapDone \/ Tick
  PROVE  IInv'
<1>1. UNCHANGED <<db, obj, deadline, earliest, pool, victim>>
  BY DEF process_timers, ReapDone, Tick, loopVars
<1>2. TypeOK'
  BY <1>1, ConstantsAssumption
  DEF process_timers, ReapDone, Tick, loopVars, IInv, OneOwner, TypeOK, ControlOK
<1>3. OneOwner'
  BY <1>1, <1>2 DEF IInv, OneOwner, Found, Stored
<1>4. TimersOwned'
  BY <1>1 DEF process_timers, ReapDone, Tick, loopVars, IInv, OneOwner, TypeOK,
     ControlOK, TimersOwned, Stored
<1>5. now \in Nat /\ now # None
  BY NoneAssumption DEF IInv, OneOwner, TypeOK
<1>6. ControlOK'
  <2>1. CASE process_timers
    BY <1>1, <1>5, <2>1 DEF process_timers, IInv, OneOwner, TypeOK, ControlOK
  <2>2. CASE ReapDone
    BY <1>1, <2>2 DEF ReapDone, IInv, ControlOK
  <2>3. CASE Tick
    BY <1>1, <1>5, <2>3 DEF Tick, loopVars, IInv, OneOwner, TypeOK, ControlOK
  <2>. QED
    BY <2>1, <2>2, <2>3
<1>. QED
  BY <1>3, <1>4, <1>6 DEF IInv

-----------------------------------------------------------------------------
LEMMA SetStep ==
  ASSUME IInv, NEW k \in Keys, NEW v \in Vals, do_set(k, v)
  PROVE  IInv'
<1>1. pc = "serve" /\ UNCHANGED <<now, pool>>
  BY DEF do_set, Answer
<1>2. CASE ~Found(k) /\ Insert(k, "str", v, {}) /\ UNCHANGED <<deadline, earliest, loopVars>>
  BY <1>1, <1>2, InsertStep
<1>3. CASE IsStr(k) /\ obj' = [obj EXCEPT ![db[k]].str = v]
           /\ UNCHANGED <<db, deadline, earliest, loopVars>>
  <2> DEFINE r == [obj[db[k]] EXCEPT !.str = v]
  <2>1. obj[db[k]] \in Contents /\ Found(k)
    BY <1>3 DEF IsStr, Found, IInv, OneOwner, TypeOK
  <2>2. r \in Contents /\ r.key = obj[db[k]].key
    BY <2>1 DEF Contents
  <2>3. obj' = [obj EXCEPT ![db[k]] = r]
    BY <1>3
  <2> HIDE DEF r
  <2>. QED
    BY <1>1, <1>3, <2>1, <2>2, <2>3, OverwriteStep
<1>4. CASE ReadOnly
  BY <1>1, <1>4, AnswerStep DEF ReadOnly
<1>. QED
  BY <1>2, <1>3, <1>4 DEF do_set

LEMMA ZAddStep ==
  ASSUME IInv, NEW k \in Keys, NEW n \in Names, do_zadd(k, n)
  PROVE  IInv'
<1>1. pc = "serve" /\ UNCHANGED <<now, pool>>
  BY DEF do_zadd, Answer
<1>2. CASE ~Found(k) /\ Insert(k, "zset", None, {n})
           /\ UNCHANGED <<deadline, earliest, loopVars>>
  BY <1>1, <1>2, InsertStep
<1>3. CASE IsZSet(k) /\ obj' = [obj EXCEPT ![db[k]].set = @ \cup {n}]
           /\ UNCHANGED <<db, deadline, earliest, loopVars>>
  <2> DEFINE r == [obj[db[k]] EXCEPT !.set = @ \cup {n}]
  <2>1. obj[db[k]] \in Contents /\ Found(k)
    BY <1>3 DEF IsZSet, Found, IInv, OneOwner, TypeOK
  <2>2. r \in Contents /\ r.key = obj[db[k]].key
    BY <2>1 DEF Contents
  <2>3. obj' = [obj EXCEPT ![db[k]] = r]
    BY <1>3
  <2> HIDE DEF r
  <2>. QED
    BY <1>1, <1>3, <2>1, <2>2, <2>3, OverwriteStep
<1>4. CASE ReadOnly
  BY <1>1, <1>4, AnswerStep DEF ReadOnly
<1>. QED
  BY <1>2, <1>3, <1>4 DEF do_zadd

LEMMA ZRemStep ==
  ASSUME IInv, NEW k \in Keys, NEW n \in Names, do_zrem(k, n)
  PROVE  IInv'
<1>1. pc = "serve" /\ UNCHANGED <<now, pool>>
  BY DEF do_zrem, Answer
<1>2. CASE n \in Members(k) /\ obj' = [obj EXCEPT ![db[k]].set = @ \ {n}]
           /\ UNCHANGED <<db, deadline, earliest, loopVars>>
  <2> DEFINE r == [obj[db[k]] EXCEPT !.set = @ \ {n}]
  <2>1. obj[db[k]] \in Contents /\ Found(k)
    BY <1>2 DEF Members, Found, IInv, OneOwner, TypeOK
  <2>2. r \in Contents /\ r.key = obj[db[k]].key
    BY <2>1 DEF Contents
  <2>3. obj' = [obj EXCEPT ![db[k]] = r]
    BY <1>2
  <2> HIDE DEF r
  <2>. QED
    BY <1>1, <1>2, <2>1, <2>2, <2>3, OverwriteStep
<1>3. CASE ReadOnly
  BY <1>1, <1>3, AnswerStep DEF ReadOnly
<1>. QED
  BY <1>2, <1>3 DEF do_zrem

LEMMA OtherCommandStep ==
  ASSUME IInv, NEW k \in Keys,
         \/ do_get(k) \/ do_ttl(k) \/ do_keys \/ BadNumber \/ do_del(k)
         \/ \E ttl \in Ttls : do_expire(k, ttl)
  PROVE  IInv'
<1>1. CASE do_get(k) \/ do_ttl(k) \/ do_keys \/ BadNumber
  BY <1>1, AnswerStep DEF do_get, do_ttl, do_keys, BadNumber, Answer, ReadOnly
<1>2. CASE do_del(k)
  <2>1. CASE Answer(<<"del", k>>, Num(0)) /\ ReadOnly
    BY <2>1, AnswerStep DEF Answer, ReadOnly
  <2>2. CASE /\ Found(k) /\ pc = "serve" /\ Unlink(k)
             /\ UNCHANGED <<obj, deadline, earliest, pool, now, reply, now_ms, nworks>>
    BY <2>2, UnlinkStep
  <2>. QED
    BY <1>2, <2>1, <2>2 DEF do_del
<1>3. ASSUME NEW ttl \in Ttls, do_expire(k, ttl)
      PROVE  IInv'
  <2>1. ttl \in Int
    BY ConstantsAssumption
  <2>2. UNCHANGED <<db, obj, now, pool, loopVars>>
    BY <1>3 DEF do_expire, Answer
  <2>3. CASE Found(k) /\ entry_set_ttl(db[k], ttl)
    BY <2>1, <2>2, <2>3, ExpireStep
  <2>4. CASE UNCHANGED <<deadline, earliest>>
    BY <2>2, <2>4, AnswerStep
  <2>. QED
    BY <1>3, <2>3, <2>4 DEF do_expire
<1>. QED
  BY <1>1, <1>2, <1>3

LEMMA StepIInv == IInv /\ [Next]_vars => IInv'
<1> SUFFICES ASSUME IInv, [Next]_vars
             PROVE  IInv'
  OBVIOUS
<1>1. ASSUME NEW k \in Keys,
             \/ do_get(k) \/ do_del(k) \/ do_ttl(k)
             \/ \E v \in Vals : do_set(k, v)
             \/ \E n \in Names : do_zadd(k, n) \/ do_zrem(k, n)
             \/ \E ttl \in Ttls : do_expire(k, ttl)
      PROVE  IInv'
  BY <1>1, SetStep, ZAddStep, ZRemStep, OtherCommandStep
<1>2. CASE do_keys \/ BadNumber
  BY <1>2, AnswerStep DEF do_keys, BadNumber, Answer, ReadOnly
<1>3. CASE entry_del_untime \/ entry_del_dispose
  BY <1>3, UntimeStep, DisposeStep
<1>4. CASE process_timers \/ ReapDone \/ Tick
  BY <1>4, ClockStep
<1>5. CASE ReapTop
  BY <1>5, ReapTopStep
<1>6. ASSUME NEW e \in Entries, FreeInBackground(e)
      PROVE  IInv'
  BY <1>6, FreeInBackgroundStep
<1>7. CASE UNCHANGED vars
  BY <1>7, AnswerStep DEF vars, loopVars
<1>. QED
  BY <1>1, <1>2, <1>3, <1>4, <1>5, <1>6, <1>7 DEF Next

(***************************************************************************)
(* No interleaving of commands, expiry and workers, and no reuse of an     *)
(* address, frees an entry twice, leaks it, or lets two parties have it.   *)
(***************************************************************************)
THEOREM OneOwnerCorrect == Spec => []OneOwner
<1>1. IInv => OneOwner
  BY DEF IInv
<1>. QED
  BY <1>1, InitIInv, StepIInv, PTL DEF Spec

(***************************************************************************)
(* The assertion of process_timers() that the key at the top of the heap   *)
(* is in the hashtable: no timer outlives its entry.                       *)
(***************************************************************************)
THEOREM TimersOwnedCorrect == Spec => []TimersOwned
<1>1. IInv => TimersOwned
  BY DEF IInv
<1>. QED
  BY <1>1, InitIInv, StepIInv, PTL DEF Spec

-----------------------------------------------------------------------------
(* The refinement: every step of the entries is a step of the map, or none *)
(* that a client could see.                                                *)
SeenOf(k) ==
  [type |-> Type(k), str |-> obj[db[k]].str, set |-> obj[db[k]].set,
   deadline |-> deadline[db[k]]]

LEMMA SeenAs ==
  ASSUME IInv, NEW k \in Keys
  PROVE  /\ Found(k) => /\ Store[k] = SeenOf(k) /\ SeenOf(k) \in Values
                        /\ Store[k].str = obj[db[k]].str
                        /\ Store[k].deadline = deadline[db[k]]
         /\ ~Found(k) => Store[k] = None
         /\ KV!Present(k) <=> Found(k)
         /\ KV!IsStr(k) <=> IsStr(k)
         /\ KV!IsZSet(k) <=> IsZSet(k)
         /\ Found(k) => (IsStr(k) \/ IsZSet(k)) /\ ~(IsStr(k) /\ IsZSet(k))
         /\ KV!Members(k) = IF IsStr(k) THEN {} ELSE Members(k)
<1>1. Store[k] = IF ~Found(k) THEN None ELSE SeenOf(k)
  BY DEF Store, SeenOf
<1>2. Found(k) => obj[db[k]] \in Contents /\ deadline[db[k]] \in Nat \cup {None}
  BY DEF IInv, OneOwner, TypeOK, Found
<1>3. Found(k) => SeenOf(k) \in Values
  BY <1>2 DEF SeenOf, Values, Contents, Type
<1>4. Found(k) => SeenOf(k) # None /\ Type(k) \in {"str", "zset"}
  BY <1>2, <1>3, NoneAssumption DEF Contents, Type
<1>5. /\ SeenOf(k).type = Type(k) /\ SeenOf(k).set = obj[db[k]].set
      /\ SeenOf(k).str = obj[db[k]].str /\ SeenOf(k).deadline = deadline[db[k]]
  BY DEF SeenOf
<1>. QED
  BY <1>1, <1>3, <1>4, <1>5 DEF KV!Present, KV!IsStr, KV!IsZSet, KV!Members,
     IsStr, IsZSet, Members

(* Nothing a client sees depends on more than this. *)
LEMMA StoreSame ==
  ASSUME \A k \in Keys : /\ db'[k] = db[k]
                         /\ Found(k) => /\ obj'[db[k]] = obj[db[k]]
                                        /\ deadline'[db[k]] = deadline[db[k]]
  PROVE  Store' = Store
BY DEF Store, Found, Type

LEMMA StoreChange ==
  ASSUME NEW k \in Keys,
         \A x \in Keys : x # k => /\ db'[x] = db[x]
                                  /\ Found(x) => /\ obj'[db[x]] = obj[db[x]]
                                                 /\ deadline'[db[x]] = deadline[db[x]]
  PROVE  Store' = [Store EXCEPT ![k] = Store'[k]]
<1>1. \A x \in Keys : x # k => Store'[x] = Store[x]
  BY DEF Store, Found, Type
<1>2. DOMAIN Store' = Keys /\ DOMAIN Store = Keys
  BY DEF Store
<1>. QED
  BY <1>1, <1>2 DEF Store

LEMMA AnswerRefines ==
  ASSUME IInv, NEW cmd, NEW r, Answer(cmd, r), UNCHANGED loopVars
  PROVE  KV!Answer(cmd, r)
<1>1. victim = None /\ victim' = None
  BY DEF Answer, loopVars, IInv, OneOwner, TypeOK
<1>. QED
  BY <1>1 DEF Answer, KV!Answer, Reply

LEMMA ReadOnlyRefines ==
  ASSUME IInv, NEW cmd, NEW r, Answer(cmd, r), ReadOnly
  PROVE  KV!Answer(cmd, r) /\ Store' = Store
BY AnswerRefines, StoreSame DEF ReadOnly

LEMMA ReadRefines ==
  ASSUME IInv, NEW k \in Keys, do_get(k) \/ do_ttl(k)
  PROVE  KV!Get(k) \/ KV!Ttl(k)
<1>1. CASE do_get(k)
  <2>1. Found(k) => Store[k].str = obj[db[k]].str
    BY SeenAs
  <2> DEFINE r == IF ~Found(k) THEN Nil
                  ELSE IF IsStr(k) THEN Str(obj[db[k]].str) ELSE BadType
  <2>2. Answer(<<"get", k>>, r) /\ ReadOnly
    BY <1>1 DEF do_get
  <2>3. KV!Answer(<<"get", k>>, r) /\ Store' = Store
    BY <2>2, ReadOnlyRefines
  <2>4. r = IF ~KV!Present(k) THEN KV!Nil
            ELSE IF KV!IsStr(k) THEN KV!Str(Store[k].str) ELSE KV!BadType
    BY <2>1, SeenAs DEF Nil, Str, BadType, KV!Nil, KV!Str, KV!BadType
  <2> HIDE DEF r
  <2>. QED
    BY <2>3, <2>4 DEF KV!Get
<1>2. CASE do_ttl(k)
  <2>1. Found(k) => Store[k].deadline = deadline[db[k]]
    BY SeenAs
  <2> DEFINE r == Num(IF ~Found(k) THEN -2
                      ELSE IF deadline[db[k]] = None THEN -1 ELSE Remaining(k))
  <2>2. Answer(<<"pttl", k>>, r) /\ ReadOnly
    BY <1>2 DEF do_ttl
  <2>3. KV!Answer(<<"pttl", k>>, r) /\ Store' = Store
    BY <2>2, ReadOnlyRefines
  <2>4. r = KV!Num(IF ~KV!Present(k) THEN -2
                   ELSE IF Store[k].deadline = None THEN -1
                   ELSE IF Store[k].deadline > now THEN Store[k].deadline - now ELSE 0)
    BY <2>1, SeenAs DEF Num, KV!Num, Remaining
  <2> HIDE DEF r
  <2>. QED
    BY <2>3, <2>4 DEF KV!Ttl
<1>. QED
  BY <1>1, <1>2

LEMMA ReadAllRefines ==
  ASSUME IInv, do_keys \/ BadNumber
  PROVE  KV!ListKeys \/ KV!Refuse
<1>1. CASE do_keys
  BY <1>1, SeenAs, ReadOnlyRefines DEF do_keys, KV!ListKeys, Arr, KV!Arr
<1>2. CASE BadNumber
  BY <1>2, ReadOnlyRefines DEF BadNumber, KV!Refuse, BadArg, KV!BadArg
<1>. QED
  BY <1>1, <1>2

(* A new entry is seen as the value it was made with, without a deadline,  *)
(* although its address may have had one before.                           *)
LEMMA InsertSeen ==
  ASSUME IInv, NEW k \in Keys, NEW type, NEW str, NEW set,
         ~Found(k), Insert(k, type, str, set), UNCHANGED deadline
  PROVE  Store' = [Store EXCEPT ![k] =
                     [type |-> type, str |-> str, set |-> set, deadline |-> None]]
<1>1. PICK e \in Entries :
        /\ obj[e] = None
        /\ obj' = [obj EXCEPT ![e] = [key |-> k, type |-> type, str |-> str, set |-> set]]
        /\ db' = [db EXCEPT ![k] = e]
  BY DEF Insert
<1>2. /\ obj'[e] = [key |-> k, type |-> type, str |-> str, set |-> set]
      /\ \A x \in Entries : x # e => obj'[x] = obj[x]
      /\ db'[k] = e /\ e # None
      /\ \A x \in Keys : x # k => db'[x] = db[x]
  BY <1>1, ConstantsAssumption DEF IInv, OneOwner, TypeOK
<1>3. \A x \in Keys : Found(x) => db[x] \in Entries /\ db[x] # e
  BY <1>1 DEF IInv, OneOwner, TypeOK, Found
<1>4. deadline[e] = None
  BY <1>1 DEF IInv, OneOwner, TimersOwned
<1>5. Store' = [Store EXCEPT ![k] = Store'[k]]
  BY <1>2, <1>3, StoreChange
<1>6. Store'[k] = [type |-> type, str |-> str, set |-> set, deadline |-> None]
  BY <1>2, <1>4 DEF Store, Found, Type
<1>. QED
  BY <1>5, <1>6

(* An entry that is overwritten in place keeps its deadline. *)
LEMMA OverwriteSeen ==
  ASSUME IInv, NEW k \in Keys, Found(k), NEW r,
         obj' = [obj EXCEPT ![db[k]] = r], UNCHANGED <<db, deadline>>
  PROVE  Store' = [Store EXCEPT ![k] =
                     [type |-> r.type, str |-> r.str, set |-> r.set,
                      deadline |-> deadline[db[k]]]]
<1>1. /\ db[k] \in Entries /\ obj'[db[k]] = r
      /\ \A x \in Entries : x # db[k] => obj'[x] = obj[x]
  BY DEF IInv, OneOwner, TypeOK, Found
<1>2. \A x \in Keys : x # k /\ Found(x) => db[x] \in Entries /\ db[x] # db[k]
  BY DEF IInv, OneOwner, TypeOK, Found
<1>3. Store' = [Store EXCEPT ![k] = Store'[k]]
  BY <1>1, <1>2, StoreChange
<1>4. Store'[k] = [type |-> r.type, str |-> r.str, set |-> r.set,
                   deadline |-> deadline[db[k]]]
  BY <1>1 DEF Store, Found, Type
<1>. QED
  BY <1>3, <1>4

LEMMA SetRefines ==
  ASSUME IInv, NEW k \in Keys, NEW v \in Vals, do_set(k, v)
  PROVE  KV!Set(k, v)
<1>1. CASE /\ ~Found(k) /\ Insert(k, "str", v, {}) /\ Answer(<<"set", k, v>>, Nil)
           /\ UNCHANGED <<deadline, earliest, loopVars>>
  <2>1. Store' = [Store EXCEPT ![k] =
                    [type |-> "str", str |-> v, set |-> {}, deadline |-> None]]
    BY <1>1, InsertSeen
  <2>2. KV!Answer(<<"set", k, v>>, KV!Nil)
    BY <1>1, AnswerRefines DEF Nil, KV!Nil
  <2>. QED
    BY <1>1, <2>1, <2>2, SeenAs DEF KV!Set, KV!StrValue
<1>2. CASE /\ IsStr(k) /\ obj' = [obj EXCEPT ![db[k]].str = v]
           /\ Answer(<<"set", k, v>>, Nil)
           /\ UNCHANGED <<db, deadline, earliest, loopVars>>
  <2> DEFINE r == [obj[db[k]] EXCEPT !.str = v]
  <2>1. /\ Found(k) /\ obj[db[k]] \in Contents
        /\ Store[k] = SeenOf(k)
    BY <1>2, SeenAs DEF IsStr, Found, IInv, OneOwner, TypeOK
  <2>2. obj' = [obj EXCEPT ![db[k]] = r]
    BY <1>2
  <2>3. r.type = Type(k) /\ r.str = v /\ r.set = obj[db[k]].set
    BY <2>1 DEF Contents, Type
  <2> HIDE DEF r
  <2>4. Store' = [Store EXCEPT ![k] =
                    [type |-> Type(k), str |-> v, set |-> obj[db[k]].set,
                     deadline |-> deadline[db[k]]]]
    <3>1. Store' = [Store EXCEPT ![k] = [type |-> r.type, str |-> r.str,
                      set |-> r.set, deadline |-> deadline[db[k]]]]
      BY <1>2, <2>1, <2>2, OverwriteSeen
    <3>. QED
      BY <2>3, <3>1
  <2>5. [Store[k] EXCEPT !.str = v] =
           [type |-> Type(k), str |-> v, set |-> obj[db[k]].set,
            deadline |-> deadline[db[k]]]
    BY <2>1 DEF SeenOf
  <2>6. Store' = [Store EXCEPT ![k].str = v]
    BY <2>4, <2>5
  <2>7. KV!Answer(<<"set", k, v>>, KV!Nil)
    BY <1>2, AnswerRefines DEF Nil, KV!Nil
  <2>. QED
    BY <1>2, <2>6, <2>7, SeenAs DEF KV!Set
<1>3. CASE IsZSet(k) /\ Answer(<<"set", k, v>>, BadType) /\ ReadOnly
  BY <1>3, SeenAs, ReadOnlyRefines DEF KV!Set, BadType, KV!BadType
<1>. QED
  BY <1>1, <1>2, <1>3 DEF do_set

(* zadd and zrem change the members of a set in place. *)
LEMMA MembersSeen ==
  ASSUME IInv, NEW k \in Keys, Found(k), NEW S,
         obj' = [obj EXCEPT ![db[k]].set = S], UNCHANGED <<db, deadline>>
  PROVE  Store' = [Store EXCEPT ![k].set = S]
<1> DEFINE r == [obj[db[k]] EXCEPT !.set = S]
<1>1. obj[db[k]] \in Contents /\ Store[k] = SeenOf(k)
  BY SeenAs DEF Found, IInv, OneOwner, TypeOK
<1>2. obj' = [obj EXCEPT ![db[k]] = r]
  OBVIOUS
<1>3. r.type = Type(k) /\ r.str = obj[db[k]].str /\ r.set = S
  BY <1>1 DEF Contents, Type
<1> HIDE DEF r
<1>4. Store' = [Store EXCEPT ![k] =
                  [type |-> Type(k), str |-> obj[db[k]].str, set |-> S,
                   deadline |-> deadline[db[k]]]]
  <2>1. Store' = [Store EXCEPT ![k] = [type |-> r.type, str |-> r.str,
                    set |-> r.set, deadline |-> deadline[db[k]]]]
    BY <1>2, OverwriteSeen
  <2>. QED
    BY <1>3, <2>1
<1>5. [Store[k] EXCEPT !.set = S] =
         [type |-> Type(k), str |-> obj[db[k]].str, set |-> S,
          deadline |-> deadline[db[k]]]
  BY <1>1 DEF SeenOf
<1>. QED
  BY <1>4, <1>5

LEMMA ZAddRefines ==
  ASSUME IInv, NEW k \in Keys, NEW n \in Names, do_zadd(k, n)
  PROVE  KV!ZAdd(k, n)
<1>1. CASE /\ ~Found(k) /\ Insert(k, "zset", None, {n})
           /\ Answer(<<"zadd", k, n>>, Num(1))
           /\ UNCHANGED <<deadline, earliest, loopVars>>
  <2>1. Store' = [Store EXCEPT ![k] =
                    [type |-> "zset", str |-> None, set |-> {n}, deadline |-> None]]
    BY <1>1, InsertSeen
  <2>2. [KV!NewZSet EXCEPT !.set = @ \cup {n}] =
          [type |-> "zset", str |-> None, set |-> {n}, deadline |-> None]
    BY DEF KV!NewZSet
  <2>3. ~KV!Present(k) /\ ~KV!IsStr(k) /\ ~KV!IsZSet(k)
    BY <1>1, SeenAs DEF KV!IsStr, KV!IsZSet
  <2>4. KV!Answer(<<"zadd", k, n>>, KV!Num(1))
    BY <1>1, AnswerRefines DEF Num, KV!Num
  <2>. QED
    BY <2>1, <2>2, <2>3, <2>4 DEF KV!ZAdd, KV!Members
<1>2. CASE /\ IsZSet(k) /\ obj' = [obj EXCEPT ![db[k]].set = @ \cup {n}]
           /\ Answer(<<"zadd", k, n>>, Num(IF n \in Members(k) THEN 0 ELSE 1))
           /\ UNCHANGED <<db, deadline, earliest, loopVars>>
  <2>1. Found(k) /\ ~IsStr(k) /\ Store[k] = SeenOf(k)
    BY <1>2, SeenAs DEF IsZSet
  <2>2. obj' = [obj EXCEPT ![db[k]].set = obj[db[k]].set \cup {n}]
    BY <1>2
  <2>3. Store' = [Store EXCEPT ![k].set = obj[db[k]].set \cup {n}]
    BY <1>2, <2>1, <2>2, MembersSeen
  <2>4. Store[k].set = obj[db[k]].set
    BY <2>1 DEF SeenOf
  <2>5. Store' = [Store EXCEPT ![k] = [Store[k] EXCEPT !.set = @ \cup {n}]]
    BY <2>3, <2>4
  <2>6. KV!Answer(<<"zadd", k, n>>, KV!Num(IF n \in KV!Members(k) THEN 0 ELSE 1))
    BY <1>2, <2>1, SeenAs, AnswerRefines DEF Num, KV!Num
  <2>7. KV!Present(k) /\ ~KV!IsStr(k)
    BY <2>1, SeenAs
  <2>. QED
    BY <2>5, <2>6, <2>7 DEF KV!ZAdd
<1>3. CASE IsStr(k) /\ Answer(<<"zadd", k, n>>, BadType) /\ ReadOnly
  BY <1>3, SeenAs, ReadOnlyRefines DEF KV!ZAdd, BadType, KV!BadType
<1>. QED
  BY <1>1, <1>2, <1>3 DEF do_zadd

LEMMA ZRemRefines ==
  ASSUME IInv, NEW k \in Keys, NEW n \in Names, do_zrem(k, n)
  PROVE  KV!ZRem(k, n)
<1>1. CASE IsStr(k) /\ Answer(<<"zrem", k, n>>, BadType) /\ ReadOnly
  <2>1. n \notin KV!Members(k) /\ KV!IsStr(k)
    BY <1>1, SeenAs
  <2>. QED
    BY <1>1, <2>1, ReadOnlyRefines DEF KV!ZRem, BadType, KV!BadType
<1>2. CASE /\ ~IsStr(k) /\ n \notin Members(k)
           /\ Answer(<<"zrem", k, n>>, Num(0)) /\ ReadOnly
  <2>1. n \notin KV!Members(k) /\ ~KV!IsStr(k)
    BY <1>2, SeenAs
  <2>. QED
    BY <1>2, <2>1, ReadOnlyRefines DEF KV!ZRem, Num, KV!Num
<1>3. CASE /\ ~IsStr(k) /\ n \in Members(k)
           /\ obj' = [obj EXCEPT ![db[k]].set = @ \ {n}]
           /\ Answer(<<"zrem", k, n>>, Num(1))
           /\ UNCHANGED <<db, deadline, earliest, loopVars>>
  <2>1. Found(k) /\ Store[k] = SeenOf(k)
    BY <1>3, SeenAs DEF Members
  <2>2. obj' = [obj EXCEPT ![db[k]].set = obj[db[k]].set \ {n}]
    BY <1>3
  <2>3. Store' = [Store EXCEPT ![k].set = obj[db[k]].set \ {n}]
    BY <1>3, <2>1, <2>2, MembersSeen
  <2>4. Store[k].set = obj[db[k]].set
    BY <2>1 DEF SeenOf
  <2>5. Store' = [Store EXCEPT ![k].set = @ \ {n}]
    BY <2>3, <2>4
  <2>6. KV!Answer(<<"zrem", k, n>>, KV!Num(1))
    BY <1>3, AnswerRefines DEF Num, KV!Num
  <2>7. n \in KV!Members(k)
    BY <1>3, SeenAs
  <2>. QED
    BY <2>5, <2>6, <2>7 DEF KV!ZRem
<1>. QED
  BY <1>1, <1>2, <1>3 DEF do_zrem

LEMMA ExpireRefines ==
  ASSUME IInv, NEW k \in Keys, NEW ttl \in Ttls, do_expire(k, ttl)
  PROVE  KV!Expire(k, ttl)
<1>1. /\ Answer(<<"pexpire", k, ttl>>, Num(IF Found(k) THEN 1 ELSE 0))
      /\ UNCHANGED <<db, obj, loopVars>> /\ ttl \in Int
  BY ConstantsAssumption DEF do_expire
<1>2. KV!Answer(<<"pexpire", k, ttl>>, KV!Num(IF KV!Present(k) THEN 1 ELSE 0))
  BY <1>1, SeenAs, AnswerRefines DEF Num, KV!Num
<1>3. CASE Found(k) /\ entry_set_ttl(db[k], ttl)
  <2> DEFINE d == IF ttl < 0 THEN None ELSE now + ttl
  <2>1. /\ db[k] \in Entries /\ Store[k] = SeenOf(k) /\ obj' = obj /\ db' = db
        /\ \A x \in Keys : x # k /\ Found(x) => db[x] \in Entries /\ db[x] # db[k]
    BY <1>1, <1>3, SeenAs DEF IInv, OneOwner, TypeOK, Found
  <2>2. /\ deadline'[db[k]] = d
        /\ \A x \in Entries : x # db[k] => deadline'[x] = deadline[x]
    BY <1>1, <1>3, <2>1, TtlFacts
  <2>3. Store' = [Store EXCEPT ![k] = Store'[k]]
    BY <2>1, <2>2, StoreChange
  <2>4. Store'[k] = [type |-> Type(k), str |-> obj[db[k]].str, set |-> obj[db[k]].set,
                     deadline |-> d]
    BY <1>3, <2>1, <2>2 DEF Store, Found, Type
  <2>5. [Store[k] EXCEPT !.deadline = d] =
           [type |-> Type(k), str |-> obj[db[k]].str, set |-> obj[db[k]].set,
            deadline |-> d]
    BY <2>1 DEF SeenOf
  <2> HIDE DEF d
  <2>6. Store' = [Store EXCEPT ![k].deadline = d]
    BY <2>3, <2>4, <2>5
  <2>. QED
    BY <1>2, <1>3, <2>6, SeenAs DEF KV!Expire, d
<1>4. CASE ~Found(k) /\ UNCHANGED <<deadline, earliest>>
  <2>1. Store' = Store
    BY <1>1, <1>4, StoreSame
  <2>. QED
    BY <1>2, <1>4, <2>1, SeenAs DEF KV!Expire
<1>. QED
  BY <1>3, <1>4 DEF do_expire

(* A deletion is seen when the entry is unlinked. *)
LEMMA UnlinkSeen ==
  ASSUME IInv, NEW k \in Keys, Unlink(k), UNCHANGED <<obj, deadline>>
  PROVE  Store' = [Store EXCEPT ![k] = None]
<1>1. db' = [db EXCEPT ![k] = None] /\ obj' = obj /\ deadline' = deadline
  BY DEF Unlink
<1>2. db'[k] = None /\ \A x \in Keys : x # k => db'[x] = db[x]
  BY <1>1 DEF IInv, OneOwner, TypeOK
<1>3. Store' = [Store EXCEPT ![k] = Store'[k]]
  BY <1>1, <1>2, StoreChange
<1>4. Store'[k] = None
  BY <1>2 DEF Store, Found
<1>. QED
  BY <1>3, <1>4

LEMMA DelRefines ==
  ASSUME IInv, NEW k \in Keys, do_del(k)
  PROVE  KV!Del(k)
<1>1. CASE ~Found(k) /\ Answer(<<"del", k>>, Num(0)) /\ ReadOnly
  <2>1. Store[k] = None /\ ~KV!Present(k)
    BY <1>1, SeenAs
  <2>2. Store' = Store /\ KV!Answer(<<"del", k>>, KV!Num(0))
    BY <1>1, ReadOnlyRefines DEF Num, KV!Num
  <2>3. Store = [Store EXCEPT ![k] = None]
    BY <2>1 DEF Store
  <2>. QED
    BY <2>1, <2>2, <2>3 DEF KV!Del
<1>2. CASE /\ Found(k) /\ pc = "serve" /\ Unlink(k)
           /\ UNCHANGED <<obj, deadline, earliest, pool, now, reply, now_ms, nworks>>
  <2>1. Store' = [Store EXCEPT ![k] = None] /\ KV!Present(k)
    BY <1>2, UnlinkSeen, SeenAs
  <2>2. /\ victim' = db[k] /\ db[k] # None /\ now_ms' = None /\ now' = now
        /\ obj'[db[k]].key = k
    BY <1>2 DEF Unlink, Found, IInv, OneOwner, TypeOK
  <2>3. Reply' = [to |-> <<"del", k>>, is |-> Num(1)]
    BY <2>2 DEF Reply, Deleted
  <2>. QED
    BY <2>1, <2>2, <2>3 DEF KV!Del, KV!Answer, Num, KV!Num
<1>. QED
  BY <1>1, <1>2 DEF do_del

(* What entry_del() does next, and what workers do, is not seen. *)
LEMMA UntimeUnseen ==
  ASSUME IInv, entry_del_untime
  PROVE  UNCHANGED KV!vars
<1>1. /\ pc = "untime" /\ entry_set_ttl(victim, -1)
      /\ UNCHANGED <<db, obj, now, reply, victim, now_ms>> /\ victim \in Entries
  BY DEF entry_del_untime, IInv, ControlOK, OneOwner, TypeOK
<1>2. \A x \in Entries : x # victim => deadline'[x] = deadline[x]
  BY <1>1, TtlFacts
<1>3. \A x \in Keys : Found(x) => db[x] \in Entries /\ db[x] # victim
  BY DEF IInv, OneOwner, TypeOK, Found, Stored
<1>4. Store' = Store
  BY <1>1, <1>2, <1>3, StoreSame
<1>5. Reply' = Reply
  BY <1>1 DEF Reply, Deleted
<1>. QED
  BY <1>1, <1>4, <1>5 DEF KV!vars

LEMMA DisposeUnseen ==
  ASSUME IInv, entry_del_dispose
  PROVE  UNCHANGED KV!vars
<1>1. /\ victim' = None /\ victim # None
      /\ UNCHANGED <<db, deadline, now>> /\ Dispose(victim) /\ victim \in Entries
  BY DEF entry_del_dispose, IInv, ControlOK, OneOwner, TypeOK
<1>2. \A x \in Entries : x # victim => obj'[x] = obj[x]
  BY <1>1 DEF Dispose, IInv, OneOwner, TypeOK
<1>3. \A x \in Keys : Found(x) => db[x] \in Entries /\ db[x] # victim
  BY DEF IInv, OneOwner, TypeOK, Found, Stored
<1>4. Store' = Store
  BY <1>1, <1>2, <1>3, StoreSame
<1>5. reply' = IF now_ms = None THEN Deleted(victim) ELSE reply
  BY DEF entry_del_dispose
<1>6. Reply' = Reply
  BY <1>1, <1>5 DEF Reply
<1>. QED
  BY <1>1, <1>4, <1>6 DEF KV!vars

LEMMA FreeInBackgroundUnseen ==
  ASSUME IInv, NEW e \in Entries, FreeInBackground(e)
  PROVE  UNCHANGED KV!vars
<1>1. /\ obj' = [obj EXCEPT ![e] = None] /\ e \in pool
      /\ UNCHANGED <<db, deadline, now, reply, victim, now_ms>>
  BY DEF FreeInBackground, loopVars
<1>2. e # victim /\ \A x \in Entries : x # e => obj'[x] = obj[x]
  BY <1>1 DEF IInv, OneOwner, TypeOK
<1>3. \A x \in Keys : Found(x) => db[x] \in Entries /\ db[x] # e
  BY <1>1 DEF IInv, OneOwner, TypeOK, Found, Stored
<1>4. Store' = Store
  BY <1>1, <1>2, <1>3, StoreSame
<1>5. Reply' = Reply
  BY <1>1, <1>2 DEF Reply, Deleted, IInv, OneOwner, TypeOK
<1>. QED
  BY <1>1, <1>4, <1>5 DEF KV!vars

(* The key at the top of the heap is the one that is due first. *)
LEMMA ReapTopRefines ==
  ASSUME IInv, ReapTop
  PROVE  \E k \in Keys : KV!Reap(k)
<1>1. PICK e \in Entries :
        /\ deadline[e] = earliest /\ earliest # None /\ earliest < now_ms
        /\ obj[e].key \in Keys /\ db[obj[e].key] = e /\ Unlink(obj[e].key)
  BY ReapTopFacts
<1> DEFINE k == obj[e].key
<1>2. Found(k) /\ k \in Keys
  BY <1>1, ConstantsAssumption DEF Found
<1>3. /\ pc = "reap" /\ victim = None /\ now_ms # None /\ now_ms <= now
      /\ now_ms \in Nat /\ now \in Nat /\ earliest \in Nat
      /\ UNCHANGED <<obj, deadline, now, reply, now_ms>>
  BY <1>1 DEF ReapTop, IInv, ControlOK, OneOwner, TypeOK
<1>4. /\ KV!Present(k) /\ Store[k].deadline = earliest
  BY <1>1, <1>2, SeenAs
<1>5. \A d \in KV!Deadlines : earliest <= d
  <2>1. \A x \in Keys : Found(x) /\ deadline[db[x]] # None => earliest <= deadline[db[x]]
    <3>1. deadline \in [Entries -> Nat \cup {None}] /\ earliest = Timers!Earliest(deadline)
      BY DEF IInv, ControlOK, OneOwner, TypeOK
    <3>2. \A x \in Entries : deadline[x] # None => earliest <= deadline[x]
      BY <1>1, <3>1, EarliestFacts
    <3>. QED
      BY <3>2 DEF IInv, OneOwner, TypeOK, Found
  <2>2. \A x \in Keys : KV!Present(x) => Found(x) /\ Store[x].deadline = deadline[db[x]]
    BY SeenAs
  <2>. QED
    BY <2>1, <2>2 DEF KV!Deadlines
<1>6. Store' = [Store EXCEPT ![k] = None]
  BY <1>1, <1>3, UnlinkSeen
<1>7. Reply' = Reply
  BY <1>3 DEF Reply
<1>8. earliest < now
  BY <1>1, <1>3
<1> HIDE DEF k
<1>9. KV!Reap(k)
  BY <1>1, <1>3, <1>4, <1>5, <1>6, <1>7, <1>8 DEF KV!Reap
<1>. QED
  BY <1>2, <1>9

LEMMA ClockRefines ==
  ASSUME IInv, process_timers \/ ReapDone \/ Tick \/ UNCHANGED vars
  PROVE  KV!Tick \/ UNCHANGED KV!vars
<1>1. UNCHANGED <<db, obj, deadline, reply, victim>>
  BY DEF process_timers, ReapDone, Tick, loopVars, vars
<1>2. Store' = Store
  BY <1>1, StoreSame
<1>3. Reply' = Reply
  BY <1>1 DEF process_timers, ReapDone, Tick, loopVars, vars, Reply, Deleted,
     IInv, OneOwner, TypeOK, ControlOK
<1>. QED
  BY <1>2, <1>3 DEF process_timers, ReapDone, Tick, vars, KV!Tick, KV!vars

LEMMA InitRefines == Init => KV!Init
<1> SUFFICES ASSUME Init PROVE KV!Init
  OBVIOUS
<1>1. Store = [k \in Keys |-> None]
  BY DEF Init, Store, Found
<1>. QED
  BY <1>1 DEF Init, KV!Init, Reply

LEMMA StepRefines == IInv /\ [Next]_vars => [KV!Next]_KV!vars
<1> SUFFICES ASSUME IInv, [Next]_vars
             PROVE  KV!Next \/ UNCHANGED KV!vars
  OBVIOUS
<1>1. ASSUME NEW k \in Keys, do_get(k) \/ do_ttl(k)
      PROVE  KV!Next
  BY <1>1, ReadRefines DEF KV!Next
<1>2. ASSUME NEW k \in Keys, NEW v \in Vals, do_set(k, v)
      PROVE  KV!Next
  BY <1>2, SetRefines DEF KV!Next
<1>3. ASSUME NEW k \in Keys, NEW n \in Names, do_zadd(k, n) \/ do_zrem(k, n)
      PROVE  KV!Next
  BY <1>3, ZAddRefines, ZRemRefines DEF KV!Next
<1>4. ASSUME NEW k \in Keys, NEW ttl \in Ttls, do_expire(k, ttl)
      PROVE  KV!Next
  BY <1>4, ExpireRefines DEF KV!Next
<1>5. ASSUME NEW k \in Keys, do_del(k)
      PROVE  KV!Next
  BY <1>5, DelRefines DEF KV!Next
<1>6. CASE do_keys \/ BadNumber
  BY <1>6, ReadAllRefines DEF KV!Next
<1>7. CASE entry_del_untime \/ entry_del_dispose
  BY <1>7, UntimeUnseen, DisposeUnseen
<1>8. CASE ReapTop
  BY <1>8, ReapTopRefines DEF KV!Next
<1>9. ASSUME NEW e \in Entries, FreeInBackground(e)
      PROVE  UNCHANGED KV!vars
  BY <1>9, FreeInBackgroundUnseen
<1>10. CASE process_timers \/ ReapDone \/ Tick \/ UNCHANGED vars
  BY <1>10, ClockRefines DEF KV!Next
<1>. QED
  BY <1>1, <1>2, <1>3, <1>4, <1>5, <1>6, <1>7, <1>8, <1>9, <1>10 DEF Next

(***************************************************************************)
(* Whatever is being freed and whatever memory is used again, a client     *)
(* sees a map of keys with deadlines in which its commands are atomic.     *)
(***************************************************************************)
THEOREM ImplementsKeyValueStoreCorrect == Spec => ImplementsKeyValueStore
<1>1. Init => KV!Init
  BY InitRefines
<1>2. IInv /\ [Next]_vars => [KV!Next]_KV!vars
  BY StepRefines
<1>. QED
  BY <1>1, <1>2, InitIInv, StepIInv, PTL DEF Spec, ImplementsKeyValueStore, KV!Spec

-----------------------------------------------------------------------------
(***************************************************************************)
(* The thread pool, to which entry_del() hands what is expensive to free,  *)
(* for any number of workers and tasks.  Of it Keyspace has only what a    *)
(* TaskRunner shows; the two modules have no variable in common.           *)
(***************************************************************************)
WorkerLabels == {"lock", "check", "waiting", "pop", "unlock", "run"}
MainLabels   == {"idle", "push", "signal", "unlock"}
Critical     == {"check", "pop", "push", "signal", "unlock"}

(* Which thread can be where, and who is inside pthread_cond_wait(). *)
PcOK ==
  /\ at[Main] \in MainLabels
  /\ \A w \in Workers : at[w] \in WorkerLabels
  /\ waiting = {w \in Workers : at[w] = "waiting"}

(* Every place between lock and unlock belongs to the holder of the mutex. *)
MutexHeld == \A p \in Threads : at[p] \in Critical => mu = p

(* The locals of a thread in the middle of an operation on the queue. *)
LocalsOK ==
  /\ \A w \in Workers : at[w] = "pop" => queue # <<>> /\ job[w] = queue[1]
  /\ \A w \in Busy : job[w] \in Tasks
  /\ at[Main] = "push" => arg \in Tasks \ submitted

PoolInv == PoolTypeOK /\ PcOK /\ MutexHeld /\ LocalsOK /\ EachTaskOnce

-----------------------------------------------------------------------------
(* What push_back() and pop_front() do to the queue. *)
LEMMA AppendFacts ==
  ASSUME NEW q \in Seq(Tasks), NEW k \in Tasks
  PROVE  /\ Append(q, k) \in Seq(Tasks)
         /\ Len(Append(q, k)) = Len(q) + 1
         /\ \A i \in 1 .. Len(q) : Append(q, k)[i] = q[i]
         /\ Append(q, k)[Len(q) + 1] = k
  OBVIOUS

LEMMA PopFacts ==
  ASSUME NEW q \in Seq(Tasks), q # <<>>
  PROVE  /\ SubSeq(q, 2, Len(q)) \in Seq(Tasks)
         /\ Len(SubSeq(q, 2, Len(q))) = Len(q) - 1
         /\ \A i \in 1 .. Len(q) - 1 : SubSeq(q, 2, Len(q))[i] = q[i + 1]
         /\ Len(q) \in Nat \ {0}
         /\ q[1] \in Tasks
<1>1. Len(q) \in Nat \ {0}
  BY EmptySeq
<1>2. \A i \in 1 .. Len(q) : q[i] \in Tasks
  BY ElementOfSeq
<1>3. /\ SubSeq(q, 2, Len(q)) \in Seq(Tasks)
      /\ Len(SubSeq(q, 2, Len(q))) = IF 2 <= Len(q) THEN Len(q) - 2 + 1 ELSE 0
      /\ \A i \in 1 .. Len(q) - 2 + 1 : SubSeq(q, 2, Len(q))[i] = q[2 + i - 1]
  BY <1>1, <1>2, SubSeqProperties
<1>4. \A i \in 1 .. Len(q) - 1 : SubSeq(q, 2, Len(q))[i] = q[i + 1]
  <2> TAKE i \in 1 .. Len(q) - 1
  <2>1. i \in 1 .. Len(q) - 2 + 1 /\ 2 + i - 1 = i + 1
    BY <1>1
  <2>. QED
    BY <1>3, <2>1
<1>5. Len(SubSeq(q, 2, Len(q))) = Len(q) - 1
  <2> DEFINE n == Len(q)
             m == Len(SubSeq(q, 2, Len(q)))
  <2>1. n \in Nat \ {0} /\ m = IF 2 <= n THEN n - 2 + 1 ELSE 0
    BY <1>1, <1>3
  <2> HIDE DEF n, m
  <2>2. m = n - 1
    BY <2>1
  <2>. QED
    BY <2>2 DEF n, m
<1>6. q[1] \in Tasks
  BY <1>1, <1>2
<1>. QED
  BY <1>1, <1>3, <1>4, <1>5, <1>6

-----------------------------------------------------------------------------
LEMMA InitPoolInv == PoolInit => PoolInv
<1> SUFFICES ASSUME PoolInit PROVE PoolInv
  OBVIOUS
<1>1. \A p \in Threads : at[p] = IF p = Main THEN "idle" ELSE "lock"
  BY DEF PoolInit
<1>2. Main \in Threads /\ \A w \in Workers : w \in Threads /\ w # Main
  BY PoolAssumption DEF Threads
<1>3. at[Main] = "idle" /\ \A w \in Workers : at[w] = "lock"
  BY <1>1, <1>2
<1>4. PoolTypeOK
  BY <1>1 DEF PoolInit, PoolTypeOK, Labels
<1>5. PcOK /\ MutexHeld
  BY <1>1, <1>3 DEF PoolInit, PcOK, MutexHeld, WorkerLabels, MainLabels, Critical
<1>6. Busy = {} /\ queue = <<>> /\ submitted = {} /\ done = {}
  BY <1>3 DEF PoolInit, Busy
<1>7. LocalsOK
  BY <1>3, <1>6 DEF LocalsOK
<1>8. EachTaskOnce
  BY <1>6 DEF EachTaskOnce, Queued, Taken
<1>. QED
  BY <1>4, <1>5, <1>7, <1>8 DEF PoolInv

(* A step that leaves the queue, the popped tasks and the records alone. *)
LEMMA KeepsTasks ==
  ASSUME EachTaskOnce,
         queue' = queue, submitted' = submitted, done' = done, Busy' = Busy,
         \A w \in Busy : job'[w] = job[w]
  PROVE  EachTaskOnce'
<1>1. Queued' = Queued
  BY DEF Queued
<1>2. Taken' = Taken
  BY DEF Taken
<1>. QED
  BY <1>1, <1>2 DEF EachTaskOnce

(* Thread p moves to label l. *)
LEMMA GotoFacts ==
  ASSUME PoolTypeOK, NEW p \in Threads, NEW l \in Labels, Goto(p, l)
  PROVE  /\ at' \in [Threads -> Labels]
         /\ at'[p] = l
         /\ \A q \in Threads : q # p => at'[q] = at[q]
  BY DEF PoolTypeOK, Goto

LEMMA ThreadFacts ==
  /\ Main \in Threads
  /\ Nothing \notin Threads
  /\ \A w \in Workers : w \in Threads /\ w # Main
BY PoolAssumption DEF Threads

-----------------------------------------------------------------------------
LEMMA LockStep ==
  ASSUME PoolInv, NEW w \in Workers, Lock(w)
  PROVE  PoolInv'
<1>1. /\ at[w] = "lock" /\ mu = Nothing /\ mu' = w /\ Goto(w, "check")
      /\ UNCHANGED <<queue, waiting, job, arg, submitted, done>>
  BY DEF Lock, Acquire
<1>2. /\ at' \in [Threads -> Labels] /\ at'[w] = "check"
      /\ \A q \in Threads : q # w => at'[q] = at[q]
  BY <1>1, ThreadFacts, GotoFacts DEF PoolInv, Labels
<1>3. Busy' = Busy
  BY <1>1, <1>2, ThreadFacts DEF Busy
<1>4. PoolTypeOK'
  BY <1>1, <1>2, ThreadFacts DEF PoolInv, PoolTypeOK
<1>5. PcOK'
  BY <1>1, <1>2, ThreadFacts DEF PoolInv, PcOK, WorkerLabels, MainLabels
<1>6. MutexHeld'
  BY <1>1, <1>2, ThreadFacts DEF PoolInv, MutexHeld, Critical
<1>7. LocalsOK'
  BY <1>1, <1>2, <1>3, ThreadFacts DEF PoolInv, LocalsOK
<1>8. EachTaskOnce'
  BY <1>1, <1>3, KeepsTasks DEF PoolInv
<1>. QED
  BY <1>4, <1>5, <1>6, <1>7, <1>8 DEF PoolInv

LEMMA WaitStep ==
  ASSUME PoolInv, NEW w \in Workers, Wait(w)
  PROVE  PoolInv'
<1>1. /\ at[w] = "check" /\ mu' = Nothing /\ Goto(w, "waiting")
      /\ waiting' = waiting \cup {w}
      /\ UNCHANGED <<queue, job, arg, submitted, done>>
  BY DEF Wait, Release
<1>2. /\ at' \in [Threads -> Labels] /\ at'[w] = "waiting"
      /\ \A q \in Threads : q # w => at'[q] = at[q]
  BY <1>1, ThreadFacts, GotoFacts DEF PoolInv, Labels
<1>3. Busy' = Busy
  BY <1>1, <1>2, ThreadFacts DEF Busy
<1>4. PoolTypeOK'
  BY <1>1, <1>2, ThreadFacts DEF PoolInv, PoolTypeOK
<1>5. PcOK'
  BY <1>1, <1>2, ThreadFacts DEF PoolInv, PcOK, WorkerLabels, MainLabels
<1>6. MutexHeld'
  BY <1>1, <1>2, ThreadFacts DEF PoolInv, MutexHeld, Critical
<1>7. LocalsOK'
  BY <1>1, <1>2, <1>3, ThreadFacts DEF PoolInv, LocalsOK
<1>8. EachTaskOnce'
  BY <1>1, <1>3, KeepsTasks DEF PoolInv
<1>. QED
  BY <1>4, <1>5, <1>6, <1>7, <1>8 DEF PoolInv

LEMMA WakeSpuriouslyStep ==
  ASSUME PoolInv, NEW w \in Workers, WakeSpuriously(w)
  PROVE  PoolInv'
<1>1. /\ at[w] = "waiting" /\ Goto(w, "lock") /\ waiting' = waiting \ {w}
      /\ UNCHANGED <<mu, queue, job, arg, submitted, done>>
  BY DEF WakeSpuriously
<1>2. /\ at' \in [Threads -> Labels] /\ at'[w] = "lock"
      /\ \A q \in Threads : q # w => at'[q] = at[q]
  BY <1>1, ThreadFacts, GotoFacts DEF PoolInv, Labels
<1>3. Busy' = Busy
  BY <1>1, <1>2, ThreadFacts DEF Busy
<1>4. PoolTypeOK'
  BY <1>1, <1>2, ThreadFacts DEF PoolInv, PoolTypeOK
<1>5. PcOK'
  BY <1>1, <1>2, ThreadFacts DEF PoolInv, PcOK, WorkerLabels, MainLabels
<1>6. MutexHeld'
  BY <1>1, <1>2, ThreadFacts DEF PoolInv, MutexHeld, Critical
<1>7. LocalsOK'
  BY <1>1, <1>2, <1>3, ThreadFacts DEF PoolInv, LocalsOK
<1>8. EachTaskOnce'
  BY <1>1, <1>3, KeepsTasks DEF PoolInv
<1>. QED
  BY <1>4, <1>5, <1>6, <1>7, <1>8 DEF PoolInv

LEMMA UnlockStep ==
  ASSUME PoolInv, NEW w \in Workers, Unlock(w)
  PROVE  PoolInv'
<1>1. /\ at[w] = "unlock" /\ mu' = Nothing /\ Goto(w, "run")
      /\ UNCHANGED <<queue, waiting, job, arg, submitted, done>>
  BY DEF Unlock, Release
<1>2. /\ at' \in [Threads -> Labels] /\ at'[w] = "run"
      /\ \A q \in Threads : q # w => at'[q] = at[q]
  BY <1>1, ThreadFacts, GotoFacts DEF PoolInv, Labels
<1>3. Busy' = Busy
  BY <1>1, <1>2, ThreadFacts DEF Busy
<1>4. PoolTypeOK'
  BY <1>1, <1>2, ThreadFacts DEF PoolInv, PoolTypeOK
<1>5. PcOK'
  BY <1>1, <1>2, ThreadFacts DEF PoolInv, PcOK, WorkerLabels, MainLabels
<1>6. MutexHeld'
  BY <1>1, <1>2, ThreadFacts DEF PoolInv, MutexHeld, Critical
<1>7. LocalsOK'
  BY <1>1, <1>2, <1>3, ThreadFacts DEF PoolInv, LocalsOK
<1>8. EachTaskOnce'
  BY <1>1, <1>3, KeepsTasks DEF PoolInv
<1>. QED
  BY <1>4, <1>5, <1>6, <1>7, <1>8 DEF PoolInv

LEMMA FrontStep ==
  ASSUME PoolInv, NEW w \in Workers, Front(w)
  PROVE  PoolInv'
<1>1. /\ at[w] = "check" /\ queue # <<>> /\ Goto(w, "pop")
      /\ job' = [job EXCEPT ![w] = Head(queue)]
      /\ UNCHANGED <<mu, queue, waiting, arg, submitted, done>>
  BY DEF Front
<1>2. /\ at' \in [Threads -> Labels] /\ at'[w] = "pop"
      /\ \A q \in Threads : q # w => at'[q] = at[q]
  BY <1>1, ThreadFacts, GotoFacts DEF PoolInv, Labels
<1>3. Busy' = Busy
  BY <1>1, <1>2, ThreadFacts DEF Busy
<1>a. Head(queue) = queue[1] /\ queue[1] \in Tasks
  BY <1>1, PopFacts DEF PoolInv, PoolTypeOK
<1>b. /\ job' \in [Workers -> Tasks \cup {Nothing}] /\ job'[w] = queue[1]
      /\ \A v \in Workers : v # w => job'[v] = job[v]
  BY <1>1, <1>a DEF PoolInv, PoolTypeOK
<1>c. \A v \in Busy : v \in Workers /\ job'[v] = job[v]
  BY <1>1, <1>b DEF Busy
<1>4. PoolTypeOK'
  BY <1>1, <1>2, <1>b, ThreadFacts DEF PoolInv, PoolTypeOK
<1>5. PcOK'
  BY <1>1, <1>2, ThreadFacts DEF PoolInv, PcOK, WorkerLabels, MainLabels
<1>6. MutexHeld'
  BY <1>1, <1>2, ThreadFacts DEF PoolInv, MutexHeld, Critical
<1>7. LocalsOK'
  BY <1>1, <1>2, <1>3, <1>b, <1>c, ThreadFacts DEF PoolInv, LocalsOK
<1>8. EachTaskOnce'
  BY <1>1, <1>3, <1>c, KeepsTasks DEF PoolInv
<1>. QED
  BY <1>4, <1>5, <1>6, <1>7, <1>8 DEF PoolInv

LEMMA QueueStep ==
  ASSUME PoolInv, NEW k \in Tasks, Queue(k)
  PROVE  PoolInv'
<1>1. /\ at[Main] = "idle" /\ k \notin submitted /\ mu = Nothing /\ mu' = Main
      /\ Goto(Main, "push") /\ arg' = k
      /\ UNCHANGED <<queue, waiting, job, submitted, done>>
  BY DEF Queue, Acquire
<1>2. /\ at' \in [Threads -> Labels] /\ at'[Main] = "push"
      /\ \A q \in Threads : q # Main => at'[q] = at[q]
  BY <1>1, ThreadFacts, GotoFacts DEF PoolInv, Labels
<1>3. Busy' = Busy
  BY <1>1, <1>2, ThreadFacts DEF Busy
<1>4. PoolTypeOK'
  BY <1>1, <1>2, ThreadFacts DEF PoolInv, PoolTypeOK
<1>5. PcOK'
  BY <1>1, <1>2, ThreadFacts DEF PoolInv, PcOK, WorkerLabels, MainLabels
<1>6. MutexHeld'
  BY <1>1, <1>2, ThreadFacts DEF PoolInv, MutexHeld, Critical
<1>7. LocalsOK'
  BY <1>1, <1>2, <1>3, ThreadFacts DEF PoolInv, LocalsOK
<1>8. EachTaskOnce'
  BY <1>1, <1>3, KeepsTasks DEF PoolInv
<1>. QED
  BY <1>4, <1>5, <1>6, <1>7, <1>8 DEF PoolInv

LEMMA QueueReturnsStep ==
  ASSUME PoolInv, QueueReturns
  PROVE  PoolInv'
<1>1. /\ at[Main] = "unlock" /\ mu' = Nothing /\ Goto(Main, "idle") /\ arg' = Nothing
      /\ UNCHANGED <<queue, waiting, job, submitted, done>>
  BY DEF QueueReturns, Release
<1>2. /\ at' \in [Threads -> Labels] /\ at'[Main] = "idle"
      /\ \A q \in Threads : q # Main => at'[q] = at[q]
  BY <1>1, ThreadFacts, GotoFacts DEF PoolInv, Labels
<1>3. Busy' = Busy
  BY <1>1, <1>2, ThreadFacts DEF Busy
<1>4. PoolTypeOK'
  BY <1>1, <1>2, ThreadFacts DEF PoolInv, PoolTypeOK
<1>5. PcOK'
  BY <1>1, <1>2, ThreadFacts DEF PoolInv, PcOK, WorkerLabels, MainLabels
<1>6. MutexHeld'
  BY <1>1, <1>2, ThreadFacts DEF PoolInv, MutexHeld, Critical
<1>7. LocalsOK'
  BY <1>1, <1>2, <1>3, ThreadFacts DEF PoolInv, LocalsOK
<1>8. EachTaskOnce'
  BY <1>1, <1>3, KeepsTasks DEF PoolInv
<1>. QED
  BY <1>4, <1>5, <1>6, <1>7, <1>8 DEF PoolInv

LEMMA WakeNobodyStep ==
  ASSUME PoolInv, at[Main] = "signal", WakeNobody,
         UNCHANGED <<mu, queue, job, arg, submitted, done>>
  PROVE  PoolInv'
<1>1. /\ at[Main] = "signal" /\ Goto(Main, "unlock")
      /\ UNCHANGED <<mu, queue, waiting, job, arg, submitted, done>>
  BY DEF WakeNobody
<1>2. /\ at' \in [Threads -> Labels] /\ at'[Main] = "unlock"
      /\ \A q \in Threads : q # Main => at'[q] = at[q]
  BY <1>1, ThreadFacts, GotoFacts DEF PoolInv, Labels
<1>3. Busy' = Busy
  BY <1>1, <1>2, ThreadFacts DEF Busy
<1>4. PoolTypeOK'
  BY <1>1, <1>2, ThreadFacts DEF PoolInv, PoolTypeOK
<1>5. PcOK'
  BY <1>1, <1>2, ThreadFacts DEF PoolInv, PcOK, WorkerLabels, MainLabels
<1>6. MutexHeld'
  BY <1>1, <1>2, ThreadFacts DEF PoolInv, MutexHeld, Critical
<1>7. LocalsOK'
  BY <1>1, <1>2, <1>3, ThreadFacts DEF PoolInv, LocalsOK
<1>8. EachTaskOnce'
  BY <1>1, <1>3, KeepsTasks DEF PoolInv
<1>. QED
  BY <1>4, <1>5, <1>6, <1>7, <1>8 DEF PoolInv

LEMMA WakeStep ==
  ASSUME PoolInv, NEW w \in waiting, at[Main] = "signal", Wake(w),
         UNCHANGED <<mu, queue, job, arg, submitted, done>>
  PROVE  PoolInv'
<1>1. /\ at[Main] = "signal" /\ at[w] = "waiting" /\ w \in Workers
      /\ at' = [at EXCEPT ![w] = "lock", ![Main] = "unlock"]
      /\ waiting' = waiting \ {w}
      /\ UNCHANGED <<mu, queue, job, arg, submitted, done>>
  BY DEF Wake, PoolInv, PcOK
<1>2. /\ at' \in [Threads -> Labels] /\ at'[Main] = "unlock" /\ at'[w] = "lock"
      /\ \A q \in Threads : q # Main /\ q # w => at'[q] = at[q]
  BY <1>1, ThreadFacts DEF PoolInv, PoolTypeOK, Labels
<1>3. Busy' = Busy
  BY <1>1, <1>2, ThreadFacts DEF Busy
<1>4. PoolTypeOK'
  BY <1>1, <1>2, ThreadFacts DEF PoolInv, PoolTypeOK
<1>5. PcOK'
  BY <1>1, <1>2, ThreadFacts DEF PoolInv, PcOK, WorkerLabels, MainLabels
<1>6. MutexHeld'
  BY <1>1, <1>2, ThreadFacts DEF PoolInv, MutexHeld, Critical
<1>7. LocalsOK'
  BY <1>1, <1>2, <1>3, ThreadFacts DEF PoolInv, LocalsOK
<1>8. EachTaskOnce'
  BY <1>1, <1>3, KeepsTasks DEF PoolInv
<1>. QED
  BY <1>4, <1>5, <1>6, <1>7, <1>8 DEF PoolInv

(* The two halves of the queue's traffic. *)
LEMMA PopStep ==
  ASSUME PoolInv, NEW w \in Workers, Pop(w)
  PROVE  PoolInv'
<1>1. /\ at[w] = "pop" /\ Goto(w, "unlock")
      /\ queue' = SubSeq(queue, 2, Len(queue))
      /\ UNCHANGED <<mu, waiting, job, arg, submitted, done>>
  BY DEF Pop
<1>2. /\ at' \in [Threads -> Labels] /\ at'[w] = "unlock"
      /\ \A q \in Threads : q # w => at'[q] = at[q]
  BY <1>1, ThreadFacts, GotoFacts DEF PoolInv, Labels
<1>3. queue \in Seq(Tasks) /\ queue # <<>> /\ job[w] = queue[1]
  BY <1>1 DEF PoolInv, PoolTypeOK, LocalsOK
<1>4. /\ queue' \in Seq(Tasks) /\ Len(queue') = Len(queue) - 1
      /\ \A i \in 1 .. Len(queue) - 1 : queue'[i] = queue[i + 1]
      /\ Len(queue) \in Nat \ {0} /\ queue[1] \in Tasks
  BY <1>1, <1>3, PopFacts
<1>5. Busy' = Busy \cup {w} /\ w \notin Busy
  BY <1>1, <1>2, ThreadFacts DEF Busy
<1>6. PoolTypeOK'
  BY <1>1, <1>2, <1>4, ThreadFacts DEF PoolInv, PoolTypeOK
<1>7. PcOK'
  BY <1>1, <1>2, ThreadFacts DEF PoolInv, PcOK, WorkerLabels, MainLabels
<1>8. MutexHeld'
  BY <1>1, <1>2, ThreadFacts DEF PoolInv, MutexHeld, Critical
<1>9. LocalsOK'
  <2>1. \A v \in Workers : v # w => at[v] # "pop"
    BY <1>1, ThreadFacts DEF PoolInv, MutexHeld, Critical
  <2>2. \A v \in Workers : at'[v] # "pop"
    BY <1>2, <2>1, ThreadFacts
  <2>3. \A v \in Busy' : job'[v] \in Tasks
    BY <1>1, <1>3, <1>4, <1>5 DEF PoolInv, LocalsOK
  <2>4. at'[Main] = at[Main]
    BY <1>2, ThreadFacts
  <2>. QED
    BY <1>1, <2>2, <2>3, <2>4 DEF PoolInv, LocalsOK
<1>10. EachTaskOnce'
  <2>1. \A i, j \in 1 .. Len(queue) : queue[i] = queue[j] => i = j
    BY DEF PoolInv, EachTaskOnce
  <2>2. Queued' = Queued \ {queue[1]} /\ queue[1] \in Queued
    <3>1. \A i \in 1 .. Len(queue) - 1 : queue[i + 1] # queue[1]
      BY <1>4, <2>1
    <3>2. \A i \in 1 .. Len(queue) : i = 1 \/ i - 1 \in 1 .. Len(queue) - 1
      BY <1>4
    <3>3. \A i \in 1 .. Len(queue) - 1 :
            queue'[i] \in Queued /\ queue'[i] # queue[1]
      BY <1>4, <3>1 DEF Queued
    <3>4. \A i \in 1 .. Len(queue) : i = 1 \/ queue[i] \in Queued'
      <4> TAKE i \in 1 .. Len(queue)
      <4>1. CASE i # 1
        <5>1. i - 1 \in 1 .. Len(queue') /\ queue'[i - 1] = queue[i]
          BY <1>4, <3>2, <4>1
        <5>. QED
          BY <5>1 DEF Queued
      <4>. QED
        BY <4>1
    <3>5. queue[1] \in Queued
      BY <1>4 DEF Queued
    <3>6. \A k \in Queued' : k \in Queued /\ k # queue[1]
      BY <1>4, <3>3 DEF Queued
    <3>7. \A k \in Queued : k = queue[1] \/ k \in Queued'
      BY <3>4 DEF Queued
    <3>. QED
      BY <3>5, <3>6, <3>7
  <2>3. Taken' = Taken \cup {queue[1]}
    BY <1>1, <1>3, <1>5 DEF Taken
  <2>4. \A i, j \in 1 .. Len(queue') : queue'[i] = queue'[j] => i = j
    <3> TAKE i, j \in 1 .. Len(queue')
    <3> HAVE queue'[i] = queue'[j]
    <3>1. queue[i + 1] = queue[j + 1]
      BY <1>4
    <3>2. i + 1 \in 1 .. Len(queue) /\ j + 1 \in 1 .. Len(queue)
      BY <1>4
    <3>3. i + 1 = j + 1
      BY <2>1, <3>1, <3>2
    <3>. QED
      BY <1>4, <3>3
  <2>5. \A u, v \in Busy' : job'[u] = job'[v] => u = v
    <3>1. \A v \in Busy : job[v] # job[w]
      BY <1>3, <2>2 DEF PoolInv, EachTaskOnce, Taken
    <3>. QED
      BY <1>1, <1>5, <3>1 DEF PoolInv, EachTaskOnce
  <2>. QED
    BY <1>1, <2>2, <2>3, <2>4, <2>5 DEF PoolInv, EachTaskOnce
<1>. QED
  BY <1>6, <1>7, <1>8, <1>9, <1>10 DEF PoolInv

LEMMA PushStep ==
  ASSUME PoolInv, Push
  PROVE  PoolInv'
<1>1. /\ at[Main] = "push" /\ Goto(Main, "signal")
      /\ queue' = Append(queue, arg) /\ submitted' = submitted \cup {arg}
      /\ UNCHANGED <<mu, waiting, job, arg, done>>
  BY DEF Push
<1>2. /\ at' \in [Threads -> Labels] /\ at'[Main] = "signal"
      /\ \A q \in Threads : q # Main => at'[q] = at[q]
  BY <1>1, ThreadFacts, GotoFacts DEF PoolInv, Labels
<1>3. queue \in Seq(Tasks) /\ Len(queue) \in Nat /\ arg \in Tasks \ submitted
  BY <1>1, LenProperties DEF PoolInv, PoolTypeOK, LocalsOK
<1>4. /\ queue' \in Seq(Tasks) /\ Len(queue') = Len(queue) + 1
      /\ \A i \in 1 .. Len(queue) : queue'[i] = queue[i]
      /\ queue'[Len(queue) + 1] = arg
  BY <1>1, <1>3, AppendFacts
<1>5. Busy' = Busy
  BY <1>1, <1>2, ThreadFacts DEF Busy
<1>6. PoolTypeOK'
  BY <1>1, <1>2, <1>3, <1>4, ThreadFacts DEF PoolInv, PoolTypeOK
<1>7. PcOK'
  BY <1>1, <1>2, ThreadFacts DEF PoolInv, PcOK, WorkerLabels, MainLabels
<1>8. MutexHeld'
  BY <1>1, <1>2, ThreadFacts DEF PoolInv, MutexHeld, Critical
<1>9. LocalsOK'
  <2>1. \A v \in Workers : at[v] # "pop" /\ at'[v] = at[v]
    BY <1>1, <1>2, ThreadFacts DEF PoolInv, MutexHeld, Critical
  <2>. QED
    BY <1>1, <1>2, <1>5, <2>1 DEF PoolInv, LocalsOK
<1>10. EachTaskOnce'
  <2>1. Queued' = Queued \cup {arg}
    <3>1. \A i \in 1 .. Len(queue) + 1 : i \in 1 .. Len(queue) \/ i = Len(queue) + 1
      BY <1>3
    <3>2. Len(queue) + 1 \in 1 .. Len(queue) + 1
      BY <1>3
    <3>3. \A i \in 1 .. Len(queue) : i \in 1 .. Len(queue) + 1
      BY <1>3
    <3>. QED
      BY <1>4, <3>1, <3>2, <3>3 DEF Queued
  <2>2. Taken' = Taken
    BY <1>1, <1>5 DEF Taken
  <2>3. arg \notin Queued /\ arg \notin Taken /\ arg \notin done
    BY <1>3 DEF PoolInv, EachTaskOnce
  <2>4. \A i, j \in 1 .. Len(queue') : queue'[i] = queue'[j] => i = j
    <3>1. \A i \in 1 .. Len(queue) : queue[i] # arg
      BY <2>3 DEF Queued
    <3>2. \A i \in 1 .. Len(queue') : i \in 1 .. Len(queue) \/ i = Len(queue) + 1
      BY <1>3, <1>4
    <3>3. \A i, j \in 1 .. Len(queue) : queue[i] = queue[j] => i = j
      BY DEF PoolInv, EachTaskOnce
    <3>. QED
      BY <1>4, <3>1, <3>2, <3>3
  <2>. QED
    BY <1>1, <1>5, <2>1, <2>2, <2>3, <2>4 DEF PoolInv, EachTaskOnce
<1>. QED
  BY <1>6, <1>7, <1>8, <1>9, <1>10 DEF PoolInv

LEMMA RunStep ==
  ASSUME PoolInv, NEW w \in Workers, Run(w)
  PROVE  PoolInv'
<1>1. /\ at[w] = "run" /\ Goto(w, "lock")
      /\ done' = done \cup {job[w]} /\ job' = [job EXCEPT ![w] = Nothing]
      /\ UNCHANGED <<mu, queue, waiting, arg, submitted>>
  BY DEF Run
<1>2. /\ at' \in [Threads -> Labels] /\ at'[w] = "lock"
      /\ \A q \in Threads : q # w => at'[q] = at[q]
  BY <1>1, ThreadFacts, GotoFacts DEF PoolInv, Labels
<1>3. Busy' = Busy \ {w} /\ w \in Busy /\ Busy \subseteq Workers
  BY <1>1, <1>2, ThreadFacts DEF Busy
<1>4. /\ job' \in [Workers -> Tasks \cup {Nothing}]
      /\ \A v \in Workers : v # w => job'[v] = job[v]
  BY <1>1 DEF PoolInv, PoolTypeOK
<1>5. job[w] \in Tasks
  BY <1>3 DEF PoolInv, LocalsOK
<1>6. PoolTypeOK'
  BY <1>1, <1>2, <1>4, <1>5, ThreadFacts DEF PoolInv, PoolTypeOK
<1>7. PcOK'
  BY <1>1, <1>2, ThreadFacts DEF PoolInv, PcOK, WorkerLabels, MainLabels
<1>8. MutexHeld'
  BY <1>1, <1>2, ThreadFacts DEF PoolInv, MutexHeld, Critical
<1>9. LocalsOK'
  BY <1>1, <1>2, <1>3, <1>4, ThreadFacts DEF PoolInv, LocalsOK
<1>10. EachTaskOnce'
  <2>1. \A u, v \in Busy : job[u] = job[v] => u = v
    BY DEF PoolInv, EachTaskOnce
  <2>2. Taken' = Taken \ {job[w]} /\ job[w] \in Taken
    BY <1>3, <1>4, <2>1 DEF Taken
  <2>3. Queued' = Queued
    BY <1>1 DEF Queued
  <2>4. \A u, v \in Busy' : job'[u] = job'[v] => u = v
    BY <1>3, <1>4, <2>1
  <2>. QED
    BY <1>1, <2>2, <2>3, <2>4 DEF PoolInv, EachTaskOnce
<1>. QED
  BY <1>6, <1>7, <1>8, <1>9, <1>10 DEF PoolInv

-----------------------------------------------------------------------------
LEMMA StepPoolInv == PoolInv /\ [PoolNext]_poolVars => PoolInv'
<1> SUFFICES ASSUME PoolInv, [PoolNext]_poolVars
             PROVE  PoolInv'
  OBVIOUS
<1>1. ASSUME NEW w \in Workers, WorkerStep(w) \/ WakeSpuriously(w)
      PROVE  PoolInv'
  BY <1>1, LockStep, WaitStep, FrontStep, PopStep, UnlockStep, RunStep,
     WakeSpuriouslyStep DEF WorkerStep
<1>2. ASSUME NEW k \in Tasks, Queue(k)
      PROVE  PoolInv'
  BY <1>2, QueueStep
<1>3. CASE MainStep
  <2>1. CASE Push
    BY <2>1, PushStep
  <2>2. CASE Signal
    BY <2>2, WakeStep, WakeNobodyStep DEF Signal
  <2>3. CASE QueueReturns
    BY <2>3, QueueReturnsStep
  <2>. QED
    BY <1>3, <2>1, <2>2, <2>3 DEF MainStep
<1>4. CASE UNCHANGED poolVars
  <2>1. /\ mu' = mu /\ queue' = queue /\ waiting' = waiting /\ at' = at
        /\ job' = job /\ arg' = arg /\ submitted' = submitted /\ done' = done
    BY <1>4 DEF poolVars
  <2>2. PoolTypeOK' /\ PcOK' /\ MutexHeld'
    BY <2>1 DEF PoolInv, PoolTypeOK, PcOK, MutexHeld
  <2>3. Busy' = Busy /\ Queued' = Queued /\ Taken' = Taken
    BY <2>1 DEF Busy, Queued, Taken
  <2>4. LocalsOK' /\ EachTaskOnce'
    BY <2>1, <2>3 DEF PoolInv, LocalsOK, EachTaskOnce
  <2>. QED
    BY <2>2, <2>4 DEF PoolInv
<1>. QED
  BY <1>1, <1>2, <1>3, <1>4 DEF PoolNext

(***************************************************************************)
(* Every thread only ever does what its code allows, with well-formed      *)
(* locals.                                                                 *)
(***************************************************************************)
THEOREM PoolTypeCorrect == PoolSpec => []PoolTypeOK
<1>1. PoolInv => PoolTypeOK
  BY DEF PoolInv
<1>. QED
  BY <1>1, InitPoolInv, StepPoolInv, PTL DEF PoolSpec

(***************************************************************************)
(* No entry is freed twice or forgotten, whatever the number of workers    *)
(* and the interleaving: front() and pop_front() are one step to the other *)
(* threads because they run under the mutex.                               *)
(***************************************************************************)
THEOREM EachTaskOnceCorrect == PoolSpec => []EachTaskOnce
<1>1. PoolInv => EachTaskOnce
  BY DEF PoolInv
<1>. QED
  BY <1>1, InitPoolInv, StepPoolInv, PTL DEF PoolSpec

-----------------------------------------------------------------------------
(* The workers on their way to the queue can be counted. *)
LEMMA ComingFacts ==
  /\ IsFiniteSet(Coming) /\ Cardinality(Coming) \in Nat
  /\ \A w \in Workers :
       /\ IsFiniteSet(Coming \cup {w}) /\ IsFiniteSet(Coming \ {w})
       /\ w \notin Coming => Cardinality(Coming \cup {w}) = Cardinality(Coming) + 1
       /\ w \in Coming => Cardinality(Coming \ {w}) = Cardinality(Coming) - 1
<1>1. IsFiniteSet(Coming)
  BY FS_Subset, PoolAssumption DEF Coming
<1>. QED
  BY <1>1, FS_CardinalityType, FS_AddElement, FS_RemoveElement

LEMMA InitAwake == PoolInit => EnoughAwake
  BY DEF PoolInit, EnoughAwake

(* A worker locks, waits, looks at the front, or unlocks. *)
LEMMA AwakeWorkerStep ==
  ASSUME PoolInv, EnoughAwake, NEW w \in Workers,
         Lock(w) \/ Wait(w) \/ Front(w) \/ Unlock(w)
  PROVE  EnoughAwake'
<1>1. queue' = queue /\ Len(queue) \in Nat
  BY LenProperties DEF Lock, Wait, Front, Unlock, PoolInv, PoolTypeOK
<1>2. CASE Wait(w)
  <2>1. Len(queue) = 0
    BY <1>2, EmptySeq DEF Wait
  <2>2. Cardinality(Coming') \in Nat
    <3>1. Coming' \subseteq Workers
      BY DEF Coming
    <3>. QED
      BY <3>1, FS_Subset, FS_CardinalityType, PoolAssumption
  <2>. QED
    BY <1>1, <2>1, <2>2 DEF EnoughAwake
<1>3. CASE Lock(w) \/ Front(w) \/ Unlock(w)
  <2>1. PICK l \in {"check", "pop", "run"} :
          /\ Goto(w, l) /\ waiting' = waiting
          /\ l \in {"check", "pop"} <=> w \in Coming
    BY <1>3 DEF Lock, Front, Unlock, Acquire, Release, Coming
  <2>2. at'[w] = l /\ \A q \in Threads : q # w => at'[q] = at[q]
    BY <2>1, ThreadFacts, GotoFacts DEF PoolInv, Labels
  <2>3. Coming' = Coming /\ at'[Main] = at[Main]
    BY <2>1, <2>2, ThreadFacts DEF Coming
  <2>. QED
    BY <1>1, <2>1, <2>3 DEF EnoughAwake
<1>. QED
  BY <1>2, <1>3

(* A worker leaves the queue with a task, or comes back from one. *)
LEMMA AwakePopStep ==
  ASSUME PoolInv, EnoughAwake, NEW w \in Workers, Pop(w)
  PROVE  EnoughAwake'
<1>1. at[w] = "pop" /\ Goto(w, "unlock") /\ waiting' = waiting
      /\ queue' = SubSeq(queue, 2, Len(queue))
  BY DEF Pop
<1>2. at'[w] = "unlock" /\ \A q \in Threads : q # w => at'[q] = at[q]
  BY <1>1, ThreadFacts, GotoFacts DEF PoolInv, Labels
<1>3. Coming' = Coming \ {w} /\ w \in Coming /\ at'[Main] = at[Main]
  BY <1>1, <1>2, ThreadFacts DEF Coming
<1>4. Len(queue') = Len(queue) - 1 /\ Len(queue) \in Nat
  BY <1>1, PopFacts DEF PoolInv, PoolTypeOK, LocalsOK
<1>5. Cardinality(Coming') = Cardinality(Coming) - 1 /\ Cardinality(Coming) \in Nat
  BY <1>3, ComingFacts
<1>6. waiting # {} => Len(queue) <= Cardinality(Coming) + IF at[Main] = "signal" THEN 1 ELSE 0
  BY DEF EnoughAwake
<1>7. at'[Main] = at[Main] /\ waiting' = waiting
  BY <1>1, <1>3
<1>8. waiting' # {}
      => Len(queue') <= Cardinality(Coming') + IF at'[Main] = "signal" THEN 1 ELSE 0
  BY ONLY <1>4, <1>5, <1>6, <1>7
<1>. QED
  BY <1>8 DEF EnoughAwake

LEMMA AwakeRunStep ==
  ASSUME PoolInv, EnoughAwake, NEW w \in Workers, Run(w)
  PROVE  EnoughAwake'
<1>1. at[w] = "run" /\ Goto(w, "lock") /\ waiting' = waiting /\ queue' = queue
  BY DEF Run
<1>2. at'[w] = "lock" /\ \A q \in Threads : q # w => at'[q] = at[q]
  BY <1>1, ThreadFacts, GotoFacts DEF PoolInv, Labels
<1>3. Coming' = Coming \cup {w} /\ w \notin Coming /\ at'[Main] = at[Main]
  BY <1>1, <1>2, ThreadFacts DEF Coming
<1>4. Len(queue) \in Nat
  BY LenProperties DEF PoolInv, PoolTypeOK
<1>5. Cardinality(Coming') = Cardinality(Coming) + 1 /\ Cardinality(Coming) \in Nat
  BY <1>3, ComingFacts
<1>. QED
  BY <1>1, <1>3, <1>4, <1>5 DEF EnoughAwake

(* A waiter wakes up for no reason. *)
LEMMA AwakeSpuriouslyStep ==
  ASSUME PoolInv, EnoughAwake, NEW w \in Workers, WakeSpuriously(w)
  PROVE  EnoughAwake'
<1>1. at[w] = "waiting" /\ Goto(w, "lock") /\ waiting' = waiting \ {w} /\ queue' = queue
  BY DEF WakeSpuriously
<1>2. at'[w] = "lock" /\ \A q \in Threads : q # w => at'[q] = at[q]
  BY <1>1, ThreadFacts, GotoFacts DEF PoolInv, Labels
<1>3. Coming' = Coming \cup {w} /\ w \notin Coming /\ at'[Main] = at[Main]
  BY <1>1, <1>2, ThreadFacts DEF Coming
<1>4. Len(queue) \in Nat /\ waiting # {}
  BY <1>1, LenProperties DEF PoolInv, PoolTypeOK, PcOK
<1>5. Cardinality(Coming') = Cardinality(Coming) + 1 /\ Cardinality(Coming) \in Nat
  BY <1>3, ComingFacts
<1>. QED
  BY <1>1, <1>3, <1>4, <1>5 DEF EnoughAwake

(* The event loop adds a task, for which its signal is still to come; the  *)
(* signal is exchanged for a waiter.                                       *)
LEMMA AwakeMainStep ==
  ASSUME PoolInv, EnoughAwake, MainStep \/ \E k \in Tasks : Queue(k)
  PROVE  EnoughAwake'
<1>1. Len(queue) \in Nat
  BY LenProperties DEF PoolInv, PoolTypeOK
<1>2. CASE Push
  <2>1. at[Main] = "push" /\ Goto(Main, "signal") /\ waiting' = waiting
        /\ queue' = Append(queue, arg) /\ arg \in Tasks
    BY <1>2 DEF Push, PoolInv, LocalsOK
  <2>2. at'[Main] = "signal" /\ \A q \in Threads : q # Main => at'[q] = at[q]
    BY <2>1, ThreadFacts, GotoFacts DEF PoolInv, Labels
  <2>3. Coming' = Coming
    BY <2>2, ThreadFacts DEF Coming
  <2>4. Len(queue') = Len(queue) + 1
    BY <2>1, AppendFacts DEF PoolInv, PoolTypeOK
  <2>. QED
    BY <1>1, <2>1, <2>2, <2>3, <2>4, ComingFacts DEF EnoughAwake
<1>3. CASE Signal
  <2>1. at[Main] = "signal" /\ queue' = queue
    BY <1>3 DEF Signal
  <2>2. ASSUME NEW w \in waiting, Wake(w)
        PROVE  EnoughAwake'
    <3>1. at[w] = "waiting" /\ w \in Workers /\ waiting' = waiting \ {w}
          /\ at' = [at EXCEPT ![w] = "lock", ![Main] = "unlock"]
      BY <2>2 DEF Wake, PoolInv, PcOK
    <3>2. /\ at'[Main] = "unlock" /\ at'[w] = "lock"
          /\ \A q \in Threads : q # Main /\ q # w => at'[q] = at[q]
      BY <3>1, ThreadFacts DEF PoolInv, PoolTypeOK
    <3>3. Coming' = Coming \cup {w} /\ w \notin Coming
      BY <3>1, <3>2, ThreadFacts DEF Coming
    <3>4. Cardinality(Coming') = Cardinality(Coming) + 1 /\ Cardinality(Coming) \in Nat
      BY <3>1, <3>3, ComingFacts
    <3>. QED
      BY <1>1, <2>1, <3>1, <3>2, <3>4 DEF EnoughAwake
  <2>3. CASE waiting = {} /\ WakeNobody
    BY <2>3 DEF WakeNobody, EnoughAwake
  <2>. QED
    BY <1>3, <2>2, <2>3 DEF Signal
<1>4. CASE QueueReturns \/ \E k \in Tasks : Queue(k)
  <2>1. PICK l \in {"idle", "push"} :
          /\ Goto(Main, l) /\ queue' = queue /\ waiting' = waiting
          /\ at[Main] # "signal"
    BY <1>4 DEF QueueReturns, Queue, Acquire, Release
  <2>2. at'[Main] = l /\ \A q \in Threads : q # Main => at'[q] = at[q]
    BY <2>1, ThreadFacts, GotoFacts DEF PoolInv, Labels
  <2>3. Coming' = Coming
    BY <2>2, ThreadFacts DEF Coming
  <2>. QED
    BY <1>1, <2>1, <2>2, <2>3, ComingFacts DEF EnoughAwake
<1>. QED
  BY <1>2, <1>3, <1>4 DEF MainStep

LEMMA AwakeStep == PoolInv /\ EnoughAwake /\ [PoolNext]_poolVars => EnoughAwake'
<1> SUFFICES ASSUME PoolInv, EnoughAwake, [PoolNext]_poolVars
             PROVE  EnoughAwake'
  OBVIOUS
<1>1. ASSUME NEW w \in Workers, WorkerStep(w) \/ WakeSpuriously(w)
      PROVE  EnoughAwake'
  BY <1>1, AwakeWorkerStep, AwakePopStep, AwakeRunStep, AwakeSpuriouslyStep
  DEF WorkerStep
<1>2. CASE MainStep \/ \E k \in Tasks : Queue(k)
  BY <1>2, AwakeMainStep
<1>3. CASE UNCHANGED poolVars
  BY <1>3 DEF poolVars, EnoughAwake, Coming
<1>. QED
  BY <1>1, <1>2, <1>3 DEF PoolNext

(***************************************************************************)
(* One pthread_cond_signal() per task is enough for any number of workers: *)
(* while one of them sleeps, no task is left without a worker on its way.  *)
(***************************************************************************)
THEOREM EnoughAwakeCorrect == PoolSpec => []EnoughAwake
BY InitPoolInv, StepPoolInv, InitAwake, AwakeStep, PTL DEF PoolSpec

-----------------------------------------------------------------------------
(* The steps of the pool, seen as those of a TaskRunner: a push submits,   *)
(* the end of a run finishes, and nothing else is seen.                    *)
RunnerSteps == Runner!Init /\ [][Runner!Next]_(Runner!vars)

LEMMA RunnerInit == PoolInit => Runner!Init
  BY DEF PoolInit, Runner!Init

LEMMA RunnerStep == PoolInv /\ [PoolNext]_poolVars => [Runner!Next]_(Runner!vars)
<1> SUFFICES ASSUME PoolInv, [PoolNext]_poolVars
             PROVE  Runner!Next \/ UNCHANGED Runner!vars
  OBVIOUS
<1>1. CASE Push
  <2>1. /\ arg \in Tasks \ submitted /\ submitted' = submitted \cup {arg} /\ done' = done
        /\ done \subseteq submitted
    BY <1>1 DEF Push, PoolInv, LocalsOK, EachTaskOnce
  <2>2. Runner!Submit(arg)
    BY <2>1 DEF Runner!Submit
  <2>. QED
    BY <2>1, <2>2 DEF Runner!Next
<1>2. ASSUME NEW w \in Workers, Run(w)
      PROVE  Runner!Next
  <2>1. /\ w \in Busy /\ done' = done \cup {job[w]} /\ submitted' = submitted
    BY <1>2 DEF Run, Busy
  <2>2. job[w] \in Tasks /\ job[w] \in submitted \ done
    BY <2>1 DEF PoolInv, LocalsOK, EachTaskOnce, Taken
  <2>3. Runner!Finish(job[w])
    BY <2>1, <2>2 DEF Runner!Finish
  <2>. QED
    BY <2>2, <2>3 DEF Runner!Next
<1>3. CASE UNCHANGED <<submitted, done>>
  BY <1>3 DEF Runner!vars
<1>4. \/ Push \/ (\E w \in Workers : Run(w)) \/ UNCHANGED <<submitted, done>>
  BY DEF PoolNext, poolVars, WorkerStep, MainStep, Lock, Wait, WakeSpuriously, Front, Pop,
     Unlock, Queue, Signal, QueueReturns
<1>. QED
  BY <1>1, <1>2, <1>3, <1>4

(***************************************************************************)
(* The safety of ImplementsTaskRunner: what is handed over is run once, by *)
(* one worker, and nothing else is run.                                    *)
(***************************************************************************)
THEOREM RunnerStepsCorrect == PoolSpec => RunnerSteps
BY InitPoolInv, StepPoolInv, RunnerInit, RunnerStep, PTL DEF PoolSpec, RunnerSteps

=============================================================================
