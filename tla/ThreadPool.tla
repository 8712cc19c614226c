----------------------------- MODULE ThreadPool -----------------------------
(***************************************************************************)
(* The thread pool (src/src/server/thread_pool.cc): a queue of tasks under *)
(* a mutex, one condition variable, worker threads that take from the      *)
(* front, and the event-loop thread that adds at the back.                 *)
(*                                                                         *)
(* pthread_cond_wait() releases the mutex and joins the waiters in one     *)
(* step; a waiter leaves when it is signalled, or for no reason at all,    *)
(* and must take the mutex again before it looks at the queue.             *)
(***************************************************************************)
EXTENDS Naturals, Sequences, FiniteSets

CONSTANTS
  Workers,  (* the threads of the pool                                 *)
  Main,     (* the event-loop thread                                   *)
  Tasks,    (* the Work items, every submission told apart from others *)
  Nothing   (* no thread, no task                                      *)

ASSUME PoolAssumption ==
  /\ Workers # {} /\ IsFiniteSet(Workers)
  /\ Main \notin Workers
  /\ Nothing \notin Workers \cup {Main}
  /\ Nothing \notin Tasks

VARIABLES
  mu,        (* the thread that holds the mutex, or Nothing  *)
  queue,     (* the deque of tasks                           *)
  waiting,   (* the threads inside pthread_cond_wait()       *)
  at,        (* where each thread is                         *)
  job,       (* the local variable w of each worker          *)
  arg,       (* the argument of the running thread_pool_queue *)
  submitted, (* every task handed over so far                *)
  done       (* every task that has been run                 *)

poolVars == <<mu, queue, waiting, at, job, arg, submitted, done>>

Threads == Workers \cup {Main}

(* thread_pool_init(): every worker starts at the top of its loop *)
PoolInit ==
  /\ mu = Nothing
  /\ queue = <<>>
  /\ waiting = {}
  /\ at = [p \in Threads |-> IF p = Main THEN "idle" ELSE "lock"]
  /\ job = [w \in Workers |-> Nothing]
  /\ arg = Nothing
  /\ submitted = {}
  /\ done = {}

Goto(p, l) == at' = [at EXCEPT ![p] = l]

(* mutant: the critical section is not exclusive *)
AcquireAnyway(p, l) ==
  /\ mu' = p
  /\ Goto(p, l)

(* pthread_mutex_lock(): p goes on at l once it holds the mutex *)
Acquire(p, l) ==
  /\ mu = Nothing
  /\ mu' = p
  /\ Goto(p, l)

(* pthread_mutex_unlock() *)
Release(p, l) ==
  /\ mu' = Nothing
  /\ Goto(p, l)

(***************************************************************************)
(* worker()                                                                *)
(***************************************************************************)
Lock(w) ==
  /\ at[w] = "lock"
  /\ Acquire(w, "check")
  /\ UNCHANGED <<queue, waiting, job, arg, submitted, done>>

Wait(w) ==
  /\ at[w] = "check"
  /\ queue = <<>>
  /\ Release(w, "waiting")
  /\ waiting' = waiting \cup {w}
  /\ UNCHANGED <<queue, job, arg, submitted, done>>

(* A wakeup without a signal, which POSIX allows. *)
WakeSpuriously(w) ==
  /\ at[w] = "waiting"
  /\ waiting' = waiting \ {w}
  /\ Goto(w, "lock")
  /\ UNCHANGED <<mu, queue, job, arg, submitted, done>>

Front(w) ==
  /\ at[w] = "check"
  /\ queue # <<>>
  /\ job' = [job EXCEPT ![w] = Head(queue)]
  /\ Goto(w, "pop")
  /\ UNCHANGED <<mu, queue, waiting, arg, submitted, done>>

Pop(w) ==
  /\ at[w] = "pop"
  /\ queue' = SubSeq(queue, 2, Len(queue))
  /\ Goto(w, "unlock")
  /\ UNCHANGED <<mu, waiting, job, arg, submitted, done>>

Unlock(w) ==
  /\ at[w] = "unlock"
  /\ Release(w, "run")
  /\ UNCHANGED <<queue, waiting, job, arg, submitted, done>>

Run(w) ==
  /\ at[w] = "run"
  /\ done' = done \cup {job[w]}
  /\ job' = [job EXCEPT ![w] = Nothing]
  /\ Goto(w, "lock")
  /\ UNCHANGED <<mu, queue, waiting, arg, submitted>>

(***************************************************************************)
(* thread_pool_queue()                                                     *)
(***************************************************************************)
(* mutant: the Work item is queued without its argument *)
QueueWithoutArg(k) ==
  /\ at[Main] = "idle"
  /\ k \notin submitted
  /\ Acquire(Main, "push")
  /\ UNCHANGED <<queue, waiting, job, arg, submitted, done>>

Queue(k) ==
  /\ at[Main] = "idle"
  /\ k \notin submitted
  /\ Acquire(Main, "push")
  /\ arg' = k
  /\ UNCHANGED <<queue, waiting, job, submitted, done>>

Push ==
  /\ at[Main] = "push"
  /\ queue' = Append(queue, arg)
  /\ submitted' = submitted \cup {arg}
  /\ Goto(Main, "signal")
  /\ UNCHANGED <<mu, waiting, job, arg, done>>

(* pthread_cond_signal(): one waiter wakes up, if there is any. *)
Wake(w) ==
  /\ waiting' = waiting \ {w}
  /\ at' = [at EXCEPT ![w] = "lock", ![Main] = "unlock"]

WakeNobody ==
  /\ Goto(Main, "unlock")
  /\ UNCHANGED waiting

(* mutant: the signal is saved when the queue was not empty before *)
SignalOnFirstOnly ==
  /\ at[Main] = "signal"
  /\ IF waiting # {} /\ Len(queue) = 1 THEN \E w \in waiting : Wake(w)
                                       ELSE WakeNobody
  /\ UNCHANGED <<mu, queue, job, arg, submitted, done>>

(* mutant: nobody is told *)
NoSignal ==
  /\ at[Main] = "signal"
  /\ WakeNobody
  /\ UNCHANGED <<mu, queue, job, arg, submitted, done>>

Signal ==
  /\ at[Main] = "signal"
  /\ IF waiting # {} THEN \E w \in waiting : Wake(w) ELSE WakeNobody
  /\ UNCHANGED <<mu, queue, job, arg, submitted, done>>

QueueReturns ==
  /\ at[Main] = "unlock"
  /\ Release(Main, "idle")
  /\ arg' = Nothing
  /\ UNCHANGED <<queue, waiting, job, submitted, done>>

-----------------------------------------------------------------------------
WorkerStep(w) == Lock(w) \/ Wait(w) \/ Front(w) \/ Pop(w) \/ Unlock(w) \/ Run(w)

MainStep == Push \/ Signal \/ QueueReturns

PoolNext ==
  \/ \E w \in Workers : WorkerStep(w) \/ WakeSpuriously(w)
  \/ \E k \in Tasks : Queue(k)
  \/ MainStep

(***************************************************************************)
(* A thread that can go on does so: the scheduler's promise.  Nothing is   *)
(* promised about who gets a contended mutex, nor that a waiter wakes up   *)
(* without a signal, nor that the event loop ever queues a task.           *)
(***************************************************************************)
Fairness == WF_poolVars(MainStep) /\ \A w \in Workers : WF_poolVars(WorkerStep(w))

PoolSpec == PoolInit /\ [][PoolNext]_poolVars /\ Fairness

-----------------------------------------------------------------------------
Labels == {"idle", "push", "signal", "lock", "check", "waiting", "pop", "unlock", "run"}

(* Every variable keeps its type: what is queued and run is always a task  *)
(* with its argument.                                                      *)
PoolTypeOK ==
  /\ mu \in Threads \cup {Nothing}
  /\ queue \in Seq(Tasks)
  /\ waiting \subseteq Workers
  /\ at \in [Threads -> Labels]
  /\ job \in [Workers -> Tasks \cup {Nothing}]
  /\ arg \in Tasks \cup {Nothing}
  /\ submitted \subseteq Tasks
  /\ done \subseteq Tasks

(***************************************************************************)
(* A task frees a whole entry, so running it twice is a double free and    *)
(* losing it is a leak: every submitted task is in one place only (in the  *)
(* queue, popped by one worker, or done), however the threads interleave.  *)
(***************************************************************************)
Queued == {queue[i] : i \in 1 .. Len(queue)}
Busy   == {w \in Workers : at[w] \in {"unlock", "run"}}
Taken  == {job[w] : w \in Busy}

EachTaskOnce ==
  /\ submitted = Queued \cup Taken \cup done
  /\ Queued \cap Taken = {} /\ Queued \cap done = {} /\ Taken \cap done = {}
  /\ \A i, j \in 1 .. Len(queue) : queue[i] = queue[j] => i = j
  /\ \A v, w \in Busy : job[v] = job[w] => v = w

(***************************************************************************)
(* The wakeups suffice: while any worker sleeps, each queued task has an   *)
(* awake worker on its way to the queue, or its signal is still to come.   *)
(* A lost signal would leave a task behind a sleeping pool.                *)
(***************************************************************************)
Coming == {w \in Workers : at[w] \in {"lock", "check", "pop"}}

EnoughAwake ==
  waiting # {} =>
    Len(queue) <= Cardinality(Coming) + IF at[Main] = "signal" THEN 1 ELSE 0

(***************************************************************************)
(* The pool implements TaskRunner, its liveness included: every task is    *)
(* eventually run although no wakeup is repeated.                          *)
(***************************************************************************)
Runner == INSTANCE TaskRunner
            WITH pending <- submitted \ done, finished <- done

ImplementsTaskRunner == Runner!Spec

=============================================================================
