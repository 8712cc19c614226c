# ByoRedis, a verification project

ByoRedis is a Redis-like key-value server: one event-loop thread over epoll, a
hash map of keys, sorted sets, TTLs, idle-connection timers, and a small thread
pool that frees large values. These modules model it in TLA+; TLC checks them on
small instances and TLAPS proves, for every value of the constants, the safety
of all parts; only liveness is left to TLC. Paths are those of the repository, under `src/`.

## 1. The system

| Part | Source | State | Operations |
|---|---|---|---|
| event loop | `src/server/main.cc` | epoll set, batch of events | wait, dispatch, timers |
| connections | `src/server/conn.cc`, `ds/list.hh` | `fd2conn`, `Conn`: flags, `incoming`, `outgoing`, idle list | accept, read, parse, write, destroy |
| timers | `src/server/time.cc` | none of its own | `next_timer_ms`, `process_timers` |
| keyspace | `src/server/db.cc`, `commands.cc` | `g_data.db`, `Entry` | get, set, del, keys, pexpire, pttl, zadd, zrem, `entry_del` |
| TTL heap | `src/ds/heap.cc` | `g_data.heap`, `Entry::heap_idx` | upsert, delete, sift |
| thread pool | `src/server/thread_pool.cc` | queue, mutex, condition variable | queue, worker |
| hash table | `src/ds/hashtable.cc` | two tables, `migrate_pos` | lookup, insert, delete, foreach, clear |
| sorted set | `src/ds/zset.cc` | hash map and AVL tree over the same nodes | insert, update, delete, seek, offset |
| AVL tree | `src/ds/avl.cc` | parent, child links, heights, counts | fix, delete, offset, rank |
| buffers, TLV | `src/proto` | byte ranges, placeholders | append, consume, message begin and end |
| client | `src/client` | one blocking socket | send a request, read a response |

The loop calls everything else. Clients reach it through sockets, which change
at any time; `process_timers()` runs after each batch; workers run beside the
loop and meet it in the pool's queue and in the memory of the entries handed
over. Everything is linked by intrusive pointers: an entry is reached from the
hashtable, from its heap item (through `&heap_idx`), and from a queued task; a
connection from `fd2conn`, the idle list and epoll.

What is hard here:

- the timers look at one connection and one key only, so the order of the idle
  list and of the heap, and the back-pointers into the heap, must survive
  everything;
- an entry that a worker frees must be unreachable, while addresses are reused;
- one signal per task must wake enough workers;
- descriptors are reused within a batch of events;
- the flags of a connection, its epoll registration and its buffers are set on
  many paths and must agree when the loop waits;
- requests are pipelined and cut anywhere; the client may end, reset or stop
  reading at any point;
- keys are in either of two tables for as long as a rehashing lasts;
- a sorted set has two indices;
- the tree is rebalanced on the way up from where it changed, with one look at
  each node, and its ranks are sums of sizes that every rotation must maintain;
- messages are cut anywhere by reads and writes while the buffers under them
  move, grow and shrink, and their lengths are filled in afterwards.

Correctness of each part is stated as the promise of an abstract module
(below) and the invariants it rests on. `PROJECT.json` lists the hazards, each
at its line, with the properties that would catch it.

## 2. The modules

| Module | Models | Composed with |
|---|---|---|
| `TimerQueue` | the promise: a deadline per owner, the earliest is known | |
| `TtlHeap` | the heap, one sifting iteration per step | implements `TimerQueue` |
| `TaskRunner` | the promise: what is handed over is run once | |
| `ThreadPool` | mutex, condition variable, workers, statement by statement | implements `TaskRunner` |
| `KeyValueStore` | the promise to clients: typed values with deadlines, atomic commands | |
| `Keyspace` | entries as memory, hashtable, timers, pool, reaping | uses `TimerQueue`; implements `KeyValueStore` |
| `IdleList` | the sequence the intrusive idle list stands for, `dlist_detach` (operators) | |
| `Timers` | `next_timer_ms`, `process_timers` and the loop, in time | uses `TimerQueue`, `IdleList` |
| `EventLoop` | loop, connections, epoll, sockets, clients | uses `IdleList` |
| `NodeSet` | the promise of a hash map: a set of nodes | |
| `HashTable` | two tables, progressive rehashing | implements `NodeSet` |
| `SortedSet` | the promise of a sorted set: scores, ranks, ranges | |
| `ZSet` | hash map and ordered tree, the commands on them | implements `SortedSet` |
| `NodeOrder` | the promise of a search tree: a sequence of nodes | |
| `Avl` | links, heights and sizes, one iteration of a loop per step | implements `NodeOrder` |
| `Buffer` | the byte buffer: append, consume, growth, placeholders (operators) | |
| `Tlv` | serialization of responses, and how the client reads them (operators) | uses `Buffer` |
| `Exchange` | the promise of the protocol: requests, answers, what the client is shown | |
| `Protocol` | the client of `api.cc` and its connection, byte by byte | uses `Tlv`; implements `Exchange` |
| `TtlHeapProofs`, `KeyspaceProofs`, `HashTableProofs`, `ZSetProofs`, `AvlProofs`, `TimersProofs`, `EventLoopProofs`, `ProtocolProofs` | the TLAPS proofs about the module of that name | `KeyspaceProofs` extends `ThreadPool` too |

`MC*.tla` holds the constants of an instance and its symmetry, `MC*.cfg` a run.
An action has the name of the function it models where it models a whole one;
an operator marked "a mutant" is a plausible bug of the definition below it,
and is used by no specification.

How they fit together: `Keyspace` and `Timers` take `TimerQueue` as their heap,
and the run `ttl_heap` shows that `TtlHeap` is one. `Keyspace` keeps its set of
queued entries as the unfinished tasks of a `TaskRunner`, which the run
`thread_pool` shows the pool to be. `Keyspace` looks keys up as `NodeSet`
answers, which `hash_table` shows the map to do. `ZSet` keeps its members in a
map of that kind and in the sequence that `NodeOrder` promises, which the run
`avl` shows the tree to be; `Keyspace` has the member names of a set only, which
is what its size and thereby the background free depend on. `EventLoop` and
`Protocol` are two views of a connection: the first has many of them, epoll and
all faults, with messages of two units; the second has one, with every byte of
its messages and the buffers they lie in. Where they overlap
(`try_process_one_request`, `handle_read`, `handle_write`) both follow the code.

### Correspondence in brief

- **`TtlHeap`.** `heap` is the vector, `heap_idx` the field of each entry. The
  locals `pos` and `t` of `heap_up` and `heap_down` are variables; between two
  iterations the array has a stale copy in the hole. `Delete` includes the
  reset of `heap_idx` that `entry_set_ttl` does when `heap_delete` returns.
- **`ThreadPool`.** One action per statement that another thread can observe.
  `pthread_cond_wait` releases and waits in one step; waiters may wake up
  without a signal.
- **`Keyspace`.** `obj` is the memory: any free address may be the next entry.
  A deletion is three steps (unlink, untime, dispose) between which workers and
  the clock run; commands do not, as they share the loop's thread. A pass of
  `process_timers` unlinks the entry that the heap item belongs to (`hnode_same`),
  a command the entry it finds under a key.
- **`Timers`.** `epoll_wait` may return events at once, nothing at its timeout,
  or be interrupted. Events are what they do to the timers.
- **`IdleList`.** The list is its connections from the head to the tail;
  detaching a node leaves the others in their order.
- **`EventLoop`.** A request is two units, its length and its body, so that a
  read may end inside either; a response is two units too. `handle_read` is
  three actions (read, each `try_process_one_request`, the new intention) that
  end in `handle_write`, between which clients act. `handle_accept` takes a
  connection per step: when `epoll_ctl` fails, `Destroyed`, which is what
  `conn_destroy` does too, is applied to the connections and the list as they
  are with the new one; `accept` may fail and leave the client waiting. A client's side is "open",
  "eof" (ended its stream), "reset", or "broken" (reset after its EOF, which is
  what the kernel answers data with once the client has closed). The kernel
  reports errors always and readiness by level.
- **`HashTable`.** A chain is a set, so which of its nodes migrates first is
  open. `hm_help_rehashing` runs one slot or node per step.
- **`ZSet`.** The tree is its sequence of nodes from left to right; searches
  compare with the nodes as they are now, so a wrong order would be seen.
- **`Avl`.** A node is its place in the order of `zless`. `tree` has the fields
  of the allocated nodes; `pc` names the loop that runs (`search` of
  `tree_insert`, `seek` of `avl_del` for its victim, `fix` of `avl_fix`) and
  `at` is its local. `avl_del` of a node with a child missing goes on with
  `avl_del_easy` (`easy`); of one with two children it detaches the victim,
  lets `avl_fix` run, and then copies the fields; `moving` and `victim` are its
  two locals meanwhile. The node asked for is `moving`, until it is in the order
  or out of it (`Asked`), and `NodeOrder` lets no other enter or leave. `rot_left` and `rot_right` are one operator with a side.
- **`Buffer`, `Tlv`.** `buf` is the array up to `writable_begin`. A cell has
  `Base` values, a `u32` is `Width` cells. Stale cells below `readable_begin`
  are kept, as in the code; those beyond `writable_begin` are never read.
- **`Protocol`.** The client is one of `api.cc` whose user makes any requests,
  one at a time as `main()` does, or two ahead, which the functions of `api.hh`
  allow. `Malformed` payloads come from other clients. A read or write takes
  any part that is there or has room; `server` is where the handler is.
  `handle_read` is three actions (read, each request, the end with its shrink),
  between which the client acts.

## 3. What the runs check

| Run | Bounds | Shows |
|---|---|---|
| `ttl_heap` | 6 entries, 3 times | order, back-pointers, refinement |
| `thread_pool` | 4 workers, 5 tasks | each task once, enough workers awake, every task is run (refinement with liveness) |
| `keyspace` | 2 keys, 3 addresses, 2 members, clock to 2 | ownership, timers, refinement |
| `timers` | 2 connections, 3 keys, 2 keys per pass, clock to 3 | nothing due is missed or slept over; idle connections and expired keys go |
| `event_loop` | 3 clients, 2 descriptors, 1 request each, batches of 2, all faults | flags, registration, idle list, assertions, no event for the wrong connection |
| `event_loop_clients` | 1 client, 4 requests, reads of up to 3 units, 1 in the send buffer | responses in order, bounded output, every request is answered |
| `hash_table` | 6 nodes, tables of 2, 4 and 8 slots, 1 node per help | placement, sizes, that a rehashing ends before the next, refinement |
| `zset` | 3 names, 2 scores | both indices agree, every answer is right (but for `zcount` beyond the last member, below) |
| `avl` | all trees of up to 5 nodes that insertions and deletions reach, all balanced trees of 12 and what one deletion and insertion make of them | balance on the way and at the end, ranks and walks, refinement |
| `protocol` | 2 requests of up to 14 bytes, 5 answers, reads of up to 5 bytes, sockets of 5 or 14 | buffers, refinement, the client is never left waiting |

Why these are enough. Six timers make a heap of three levels with an incomplete
last one: removals that sift up occur. A fifth task meets busy, waking and
sleeping workers. A third address lets a freed one be reused while another
entry is still in the pool; two members are a large set and one a small one.
`MaxWorks` of 1 cuts passes short when three keys are due. In `event_loop` a
third client finds no descriptor or one that was just closed, and three
descriptors are ready for batches of two. In `event_loop_clients` a read can
take a request and a half, and a write can stop inside a response. The hash table starts with two slots and a load factor
of one so that it grows twice; two nodes have the same hash. An AVL tree needs
12 nodes before one deletion can rotate at two levels; insertions never rotate
more than once, so the balanced trees of 12 are given as initial states instead
of being built up. In `protocol` the longest body allowed (12 cells) is reached
by a request and by an answer, and both have a neighbour one cell longer; a
message is longer than a read, than the first capacity of a buffer and than the
narrow socket, and the wide one lets two requests arrive in one batch. Answers
that print to different branches of `print_response` are all there, the error
being the one that replaces what is too big. The sizes keep the order of the
real ones (`HardMin` < `ReadMax` and `WorthIt`, all of them below a message).
Bounds are `MaxReqs` and `ReadMax` (`EventLoop`, `Protocol`), `RxCap`
(`EventLoop`), the rooms in `Pipes` (`Protocol`), `Sizes` (`Avl`), `MaxNow`
(the clock of `Keyspace` and `Timers`), `MaxEvents` (a batch) and the sets of the instances. The last ones
limit what happens, not what is checked of it.
`CHECK_DEADLOCK FALSE` is in the runs of `EventLoop`, as a server that has
aborted does nothing more, and of `Protocol`, as a client ends; that it gets to
its end is `ClientEnds`.

Two runs are expected to end in a violation, each of a statement the source
itself makes:

| Run | Statement | What the code does |
|---|---|---|
| `timers_width` | `time.cc:25` "no timers, no timeouts" | a deadline 2^31 ms or more away is cast to a negative timeout, so the loop waits without one |
| `event_loop_pipe` | `conn.cc:145` "error handling", `main.cc:104` | `SIGPIPE` is not ignored: writing to a client that closed and then reset ends the server |

The constant `Half` of `Timers` is half the range of the `int32_t` timeout:
2^31 in the program, 8 in `timers_width`, and beyond every deadline in `timers`.
`process_timers()` deletes `k_max_works + 1` keys and not `k_max_works`
(`nworks++ >= k_max_works`); `PassComplete` states the number the code deletes.

In two more places the code and its comments differ, and the modules follow the
code. `conn.cc:194` says "want close" of a request longer than `k_max_msg`,
after a `die()` that aborts the server: `up` becomes `"aborted"` in `EventLoop`,
and `BadOnesClosed` speaks of a server that is up. `commands.cc:203` documents
the second pair of `zcount` as "(exclusive)", so that the members of the range
before it count; but `do_zcount` answers 0 when no member lies at or after that
pair, however many there are before it. `SortedSet` therefore promises the
documented count only where a member lies at or after the second pair, which
`zset` checks and `ZSetProofs` proves; elsewhere it leaves the number open, and
nothing is claimed of the 0 that `ZSet` answers there.

### Fairness

- `ThreadPool`: each worker and the event loop go on when they can; nobody is
  promised a contended mutex at a given time, and no spurious wakeup is relied on.
- `Timers`: the clock goes on, the loop runs, and `epoll_wait` returns after
  its timeout (it is called with one). No event need arrive.
- `EventLoop`: the loop runs, and a client reads what has arrived. It need not
  send. `event_loop_clients` leaves out a failing `epoll_ctl` and idle timeouts,
  after which a request may rightly stay unanswered, and `Answered` excepts
  resets; the batch is large enough for all ready descriptors, as are the 1024
  events of `main()` for a small number of clients.
- `Protocol`: something happens as long as anything can, the client's step or
  the server's. No more is needed, since every step moves bytes or ends
  something, and so neither party can keep the other waiting for ever. A user
  of the client is assumed to go on to its last request. A client that sends
  further ahead than the sockets hold, without reading, can block together with
  the server; that is in the nature of blocking sends, and the wide socket of
  the instance holds a whole message, so that with two requests ahead it does
  not happen.

## 4. What is proved

With no bound on anything, from the named assumptions on the constants only.
These say what the code's types do (times, sizes and descriptors are natural
numbers, limits are not zero, scores are ordered, a hash table starts with two
slots or more, `k_max_msg` is a `u32`); that commands and answers are made of
cells, and of numbers that fit in them (`TypesAssumption` of `Protocol`), and
that what it takes for malformed requests are none that are well formed
(`MalformedAssumption`); that the sets of workers and of nodes are finite; and
that `None` is none of the values it is told apart from (for `Values` in
`Keyspace` and `Conns` and `Events` in `EventLoop`: `NoneAssumption`). Each
theorem is `Spec => []P` for a property `P` a run checks, by an inductive
invariant that was checked by TLC on the same instances first, or a refinement
from the same invariant, one lemma per action.

**`TtlHeapProofs`**: `TypeOK`, `HeapOrder`, `BackRefs`, `TopIsEarliest`,
`ImplementsTimerQueue`. The properties speak of the moments between two calls;
the induction has to say what holds in the middle of a sift. `OrderInv` looks
at the array with the held item back in its hole: only the edge above the hole
(going up) or those below it (going down) may be out of order, and the parent
of the hole is in order with the kids of the hole, which is what makes the
next swap safe. `RefInv` says which indices are stale: that of the held item's
owner and that of the entry being removed. `TopIsEarliest` follows from the
order: the least position with an earlier deadline than the top's would have a
parent with one too (`TopIsMinimum`, from the well-foundedness of `<`). For the
refinement, the deadline of an owner is the time of its item wherever that is,
in the array or held; an iteration moves items and leaves deadlines alone.

**`KeyspaceProofs`, the thread pool**: `PoolTypeOK`, `EachTaskOnce`,
`EnoughAwake`, and `RunnerSteps`, the safety half of the refinement of
`TaskRunner`. (The module extends `Keyspace` and `ThreadPool`, which have no
name in common; each theorem is about the specification of one of them.) The
invariant `PoolInv` adds that the thread inside a critical section is the one
the mutex names, that a worker between `front()` and `pop_front()` holds the
head of the queue, and that the task being queued is not yet submitted. That one
signal per task is enough is a matter of counting: a worker that takes a task
makes the queue shorter by one, and one that falls asleep has seen it empty.

**`KeyspaceProofs`, the keyspace**: `OneOwner`, `TimersOwned`,
`ImplementsKeyValueStore`. `ControlOK` adds which locals of the loop mean
something where, and that the earliest deadline is the one `TimerQueue` shows.
In the refinement a key has the value of the entry the hashtable has for it: the
step that unlinks the entry is the one in which the key goes, by a `del` or
after its deadline, and the later steps of a deletion, the frees of workers and
the reuse of memory change nothing a client sees.

**`HashTableProofs`**: `TypeOK`, `InItsSlot`, `LeftAreAhead`, `NeverOverdue`,
`ImplementsNodeSet`. `Shape` says that the newer table is twice the older.
`Load` is the argument why a migration is over in time, as a potential: a node
still in the older table counts twice, so an insertion costs one and each node
it moves brings one back (`Owing` and `Spare` are what an operation under way
is ahead or behind), and when the older table is empty the newer one is below
its limit. It holds for every load factor and any `Work` of at least one, not
for the 8 and 128 of the code only.

**`ZSetProofs`**: `IndicesAgree`, `ImplementsSortedSet`. In an ordered tree the
nodes less than a pair are a prefix (`LeftFacts`, from `LeftOnes`: a set of
positions that has those to the left of each of its own is an interval of its
size). So `tree_insert` keeps the order, and the number of members before a
pair, which `SortedSet` counts, is the position at which the search ends
(`RankIsLeft`, `SeekIs`); that a node is in the tree once makes positions and
ranks the same (`RankAt`), and ranges come out as pieces of the sequence
(`WalkedIs`, `CountSame`), with offsets beyond both ends and limits of any sign.
The count of `zcount` is proved where `SortedSet` promises it.

**`TimersProofs`**: `IdleListOrdered`, `PassComplete`, `WakesInTime`. The list
is ordered (`Ordered`) because a connection that was active goes to its end and
no activity is in the future (`InThePast`). `PassInv` says what is behind a
pass at each of its places. `WakesInTime` is proved under `TimersFit`, that the
idle timeout and the TTLs are less than `Half`: beyond it the statement is
false, which is the finding of `timers_width`. `DueSoon` carries the bound
along: no deadline is ever further ahead than that.

**`EventLoopProofs`**: `TypeOK`, `InterestInSync`, `AssertsHold`,
`IdleListIsConns`, `EventForItsConn`, `OutgoingBounded`, `ResponsesInOrder`.
Every connection but the one being handled is `Quiet` (`OthersQuiet`): it waits
for one direction, for writing exactly when it owes output, as epoll knows. The
one being handled satisfies what its place in the handlers asks (`Handled`).
`BatchInv` says that the events left in a batch belong to the connections of
now; it holds because an event destroys its own connection only, new ones get
descriptors that no event left in the batch has, and a batch has one event per
descriptor. A connection that epoll does not take leaves nothing behind
(`AcceptBranches`): detaching the node just inserted gives the old list
(`InsertDetach`). For the responses, `InOrder` reads the stream of one client from
end to end: what it has got, what is on the way to it and in `outgoing`, are
the responses to its first requests, and `incoming` with what is on the way
to the server are the requests after those. Every action moves units along this
stream or appends to one of its ends.

Both modules begin with the lemmas about `dlist_detach` and appending that they
need: what becomes of the members, the order, and the first of a list.

**`AvlProofs`**: `Balanced`, `OneStepOff`, `ImplementsNodeOrder`, `WalksRight`.
The invariant of the heights, `IInv`, has three parts.
`Shape`: among the `Linked` nodes, which are all but a victim that is detached,
parents and children agree. `Loops`: what each loop has in hand; on the way to
a victim the heights fall, so it is not the node that it will replace.
`Heights`: between two iterations of `avl_fix` all nodes but one are in order
(`Fresh`), and that one is `OneChanged`: its recorded height is right for what
its subtrees were before one of them became a level higher or lower. This is
why a difference of 2 is the most there can be (`OneStepOff`), and it is kept
(`StepFacts`): the iteration puts the subtree in order, with no rotation, one or
two (`NoRotation`, `OneRotation`, `TwoRotations` are the arithmetic of it), and
leaves it at most a level away from its recorded height, so that the parent is
`OneChanged` next. Rotations are safe because heights fall on the way down:
there is no cycle of four nodes or less around the node (`NoCycles`), which is
all that `RotatedFacts` needs. Nothing here is recursive: a node is compared
with its children only.

For the order, `OInv` adds that there are sets `B[n]`, what each subtree holds:
a node and the sets of its two children, which lie on their sides of it
(`Parts`). This is again a statement about a node and its children only. A
rotation changes two of the sets (`RotatedParts`), an insertion adds the new node
to those of the nodes above it, a deletion removes one. The loops have to know
where they are: the search that it is in the subtree where the new node belongs
(`OnItsSides`), the one for the victim that nothing on the right of the node is
less unless it is below (`Leftmost`), so that where it ends is the next in order
(`VictimFacts`), and while the victim is detached its node counts as the victim
(`Key`). `InOrder` is defined by recursion on the links: any function that
satisfies its equation reads from the root an ascending sequence of all nodes
(`ReadIsInOrder`), there is one (`ReadExists`), and a set has only one such
sequence (`AscendingUnique`). A request names its node when there is no other
(`AskedMade`), and the step that lets this node in or out is the one that is done
with it (`AskedDone`). So an insertion and a deletion do to the sequence what
`NodeOrder` says (`OneMore`, `OneLess`), and all other steps nothing.

The walks are recursive too, up the tree as well as down. In both cases the
function is compared with what it should be: `avl_rank` with the number of nodes
below the subtree (`AvlRankFacts`), `avl_offset` with the node of the rank that
is asked for (`WalkToRank`). That satisfies the equation, because the ranks of a
node, its children and its parent differ by the sizes of the subtrees between
them (`StepsFacts`); and no other function does, because where two differ they
differ at the lowest such node, if the target is in its subtree
(`WalksAgreeInside`), or else at the highest (`WalksAgree`). That there is a
lowest and a highest node in any set of nodes (`Lowest`, `Highest`) follows from
the sizes of the sets `B[n]`.

**`ProtocolProofs`**: `BuffersSound`, `ImplementsExchange`. What the buffer
operations leave readable, where, and in how large an array, are lemmas
(`AppendFacts`, `ConsumeFacts`, `ShrinkFacts`). How large `incoming` becomes
depends on what it is told to wait for, that is on the lengths the client sends:
`Framed` says of the stream of requests, from the client over the socket to the
buffer, that it is whole messages, none longer than `k_max_msg`, by the set of
the places where one begins. It stays so when a message is sent (`FramedMore`) or
taken (`FramedDrop`), and therefore less than a whole message is left after each
batch.

What a response becomes: `Shows(b, t, q)` says that the buffer `b` has the cells
`t` to be read and that the positions in them to be filled in are `q`. Each part
of a response adds its cells (`ShowsScalar`, `ShowsFold`), opens a position
(`ShowsHole`), fills the last one in (`ShowsBackfill`) or takes back what is
behind it (`ShowsRollback`), also when the buffer moves. Together: after any
answer `v` the buffer shows what it did before and then `Response(v)`, the length
and the cells of `v` or of the error, with no position left open
(`ShowsResponse`); and a response has the size that `Size` counts, so that it is
replaced exactly when the client is told so.

Reading gives back what was written: a length (`U32Facts`; reading is a fold
from the last cell, writing a division per cell, and of a number that fits
nothing is left after all its cells), a command by the server (`ParseBack`) and
a value by the client (`PrintBack`), each from where it `Lies` in the data.

The invariant of the refinement, `XInv`, speaks of both streams from end to end.
`SentOK`: while the connection lives, `incoming`, what is on its way and what is
still to be written are the messages, one behind the other (`Chain`), of just
the requests that are not served yet. `ComingOK`: what the client has read, what
is on its way and `outgoing` are the responses to the requests served, without
those printed; once a socket is reset only a beginning of that is left.
`ClosingOK`: the server closes over a refused request only. So a request that is
processed is the next one of the client (`NextRequestIs`), and what is printed is
the next answer (`ResponseIs`). `send_req` is the step in which a request is made,
`try_process_one_request` the one in which it is answered, `PrintResponse` the one
in which the answer is heard; the client ends in `Finish` or fails in `send_req`,
`write_all` or `ReadFails`; all other steps change nothing that `Exchange` has
(`XStep`).

The recursive functions in this, the library's folds and those of `Tlv`, are on
finite sets; each of them is compared with a function that satisfies its
equation (`NumberExists`, `WritingExists`, `FlatteningExists`, `PrintExists`).

Only model-checked is liveness, as the prover handles neither fairness nor
`ENABLED`: `Answered`, `BadOnesClosed`, `IdleConnsClose`, `ExpiredKeysGo`,
`ClientEnds`, and the other half of `ImplementsTaskRunner`.

## 5. Not modelled

- the client's command line and command files: `split_cmd`, the trimming of
  lines and the comments only choose the commands, and `Protocol` takes any;
- requests longer than `k_max_msg` are in `EventLoop` and not in `Protocol`,
  idle timeouts likewise; the client's 32-bit sum of a request's size, which
  wraps from 4 GB on, is not reached;
- placeholders are shifted when a buffer moves, as the code does it, but no
  response is begun while there is something consumed before it: the case
  does not arise in the server;
- `read()` of a connection that is reported as readable and then has nothing to
  read (`EAGAIN`, `conn.cc:93`): readiness is by level and only the server reads
  its sockets, so that this does not arise;
- logging, socket set-up before the loop, the build;
- running out of memory; `accept()` that fails leaves
  clients in the backlog, but that the loop spins meanwhile is not a property.

## 6. Plan

1. `Server`: `EventLoop` with the commands of `KeyValueStore`, for the order of
   effects of two clients, and the idle list with times.
