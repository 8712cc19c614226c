-------------------------- MODULE EventLoopProofs --------------------------
(***************************************************************************)
(* TLAPS proofs about EventLoop, for any clients, descriptors, requests    *)
(* and limits: the flags of every connection and its epoll registration,   *)
(* the idle list, the events of a batch, the bound of outgoing, and that   *)
(* the responses to a client are those to its requests, in order.          *)
(***************************************************************************)
EXTENDS EventLoop, SequenceTheorems, FiniteSetTheorems, FunctionTheorems, TLAPS

(* A node detached from a list that has it once is gone, and the others    *)
(* keep their order.                                                       *)
LEMMA DetachFacts ==
  ASSUME NEW S, NEW list \in Seq(S), NEW node
  PROVE  LET d == dlist_detach(list, node)
         IN /\ d \in Seq(S)
            /\ node \in Members(list) => Len(d) = Len(list) - 1
            /\ node \notin Members(list) => d = list
            /\ NoneTwice(list) => Members(d) = Members(list) \ {node}
            /\ \A i, j \in 1 .. Len(d) : i < j =>
                 \E k, l \in 1 .. Len(list) : k < l /\ d[i] = list[k] /\ d[j] = list[l]
<1> DEFINE d == dlist_detach(list, node)
<1>1. Len(list) \in Nat /\ \A i \in 1 .. Len(list) : list[i] \in S
  BY ElementOfSeq, LenProperties
<1>2. CASE node \notin Members(list)
  <2>1. d = list
    BY <1>2 DEF dlist_detach
  <2> HIDE DEF d
  <2>. QED
    BY <1>2, <2>1 DEF Members, d
<1>3. CASE node \in Members(list)
  <2> DEFINE p == CHOOSE i \in 1 .. Len(list) : list[i] = node
             n == Len(list) - 1
             f == [i \in 1 .. n |-> list[IF i < p THEN i ELSE i + 1]]
  <2>1. p \in 1 .. Len(list) /\ list[p] = node
    BY <1>3 DEF Members
  <2>2. d = f
    BY <1>3 DEF dlist_detach
  <2> HIDE DEF p
  <2>3. n \in Nat /\ \A i \in 1 .. n : (IF i < p THEN i ELSE i + 1) \in 1 .. Len(list)
    BY <1>1, <2>1
  <2>4. f \in Seq(S) /\ Len(f) = n
    <3>1. \A i \in 1 .. n : list[IF i < p THEN i ELSE i + 1] \in S
      BY <1>1, <2>3
    <3>2. f \in [1 .. n -> S]
      BY <3>1
    <3>. QED
      BY <2>3, <3>2, SeqDef, LenProperties
  <2>5. \A i \in 1 .. n : f[i] = list[IF i < p THEN i ELSE i + 1]
    OBVIOUS
  <2> HIDE DEF f, n, d
  <2>6. ASSUME NEW i \in 1 .. n, NEW j \in 1 .. n, i < j
        PROVE  \E k, l \in 1 .. Len(list) : k < l /\ f[i] = list[k] /\ f[j] = list[l]
    <3> DEFINE k == IF i < p THEN i ELSE i + 1
               l == IF j < p THEN j ELSE j + 1
    <3>1. k \in 1 .. Len(list) /\ l \in 1 .. Len(list) /\ k < l
      BY <2>1, <2>3, <2>6
    <3>. QED
      BY <2>5, <3>1
  <2>7. ASSUME NoneTwice(list)
        PROVE  Members(f) = Members(list) \ {node}
    <3>1. \A i \in 1 .. n : f[i] \in Members(list) \ {node}
      <4> TAKE i \in 1 .. n
      <4> DEFINE k == IF i < p THEN i ELSE i + 1
      <4>1. k \in 1 .. Len(list) /\ k # p
        BY <2>1, <2>3
      <4> HIDE DEF k
      <4>2. list[k] # list[p]
        BY <2>1, <2>7, <4>1 DEF NoneTwice
      <4>3. f[i] = list[k]
        BY <2>5 DEF k
      <4>. QED
        BY <2>1, <4>1, <4>2, <4>3 DEF Members
    <3>2. \A k \in 1 .. Len(list) : list[k] # node => \E i \in 1 .. n : f[i] = list[k]
      <4> TAKE k \in 1 .. Len(list)
      <4> HAVE list[k] # node
      <4> DEFINE i == IF k < p THEN k ELSE k - 1
      <4>1. i \in 1 .. n /\ (IF i < p THEN i ELSE i + 1) = k
        BY <1>1, <2>1 DEF n
      <4>. QED
        BY <2>5, <4>1
    <3>3. Members(f) \subseteq Members(list) \ {node}
      BY <2>4, <3>1 DEF Members
    <3>4. \A x \in Members(list) : x # node => x \in Members(f)
      BY <2>4, <3>2 DEF Members
    <3>. QED
      BY <3>3, <3>4
  <2>. QED
    BY <1>3, <2>2, <2>4, <2>6, <2>7 DEF n, d
<1>. QED
  BY <1>2, <1>3

LEMMA DetachNoneTwice ==
  ASSUME NEW S, NEW list \in Seq(S), NEW node, NoneTwice(list)
  PROVE  NoneTwice(dlist_detach(list, node))
<1> DEFINE d == dlist_detach(list, node)
<1>1. /\ d \in Seq(S)
      /\ \A i, j \in 1 .. Len(d) : i < j =>
           \E k, l \in 1 .. Len(list) : k < l /\ d[i] = list[k] /\ d[j] = list[l]
  BY DetachFacts
<1> HIDE DEF d
<1>2. Len(list) \in Nat /\ Len(d) \in Nat
  BY <1>1, LenProperties
<1>3. ASSUME NEW i \in 1 .. Len(d), NEW j \in 1 .. Len(d), i < j
      PROVE  d[i] # d[j]
  <2>1. PICK k \in 1 .. Len(list), l \in 1 .. Len(list) :
          k < l /\ d[i] = list[k] /\ d[j] = list[l]
    BY <1>1, <1>3
  <2>. QED
    BY <1>2, <2>1 DEF NoneTwice
<1>4. NoneTwice(d)
  <2> SUFFICES ASSUME NEW i \in 1 .. Len(d), NEW j \in 1 .. Len(d), d[i] = d[j]
               PROVE  i = j
    BY DEF NoneTwice
  <2>1. i < j \/ j < i \/ i = j
    BY <1>2
  <2>. QED
    BY <1>3, <2>1
<1>. QED
  BY <1>4 DEF d

(* A list without repetition is as long as it has members. *)
LEMMA LenIsCardinality ==
  ASSUME NEW S, NEW list \in Seq(S), NoneTwice(list)
  PROVE  IsFiniteSet(Members(list)) /\ Cardinality(Members(list)) = Len(list)
<1>1. Len(list) \in Nat /\ list \in [1 .. Len(list) -> S]
  BY LenProperties
<1>2. list \in [1 .. Len(list) -> Members(list)]
  BY <1>1 DEF Members
<1>3. list \in Bijection(1 .. Len(list), Members(list))
  <2>1. \A i, j \in 1 .. Len(list) : list[i] = list[j] => i = j
    BY DEF NoneTwice
  <2>2. \A x \in Members(list) : \E i \in 1 .. Len(list) : list[i] = x
    BY DEF Members
  <2>. QED
    BY <1>2, <2>1, <2>2, Fun_IsBij
<1>4. ExistsBijection(1 .. Len(list), Members(list))
  BY <1>3, Fun_ExistsBij
<1>5. IsFiniteSet(1 .. Len(list)) /\ Cardinality(1 .. Len(list)) = Len(list)
  BY <1>1, FS_Interval
<1>. QED
  BY <1>4, <1>5, FS_Bijection

(* dlist_insert_before() the head: the node becomes the last one. *)
LEMMA InsertFacts ==
  ASSUME NEW S, NEW list \in Seq(S), NEW node \in S
  PROVE  LET a == Append(list, node)
         IN /\ a \in Seq(S) /\ Len(a) = Len(list) + 1
            /\ \A i \in 1 .. Len(list) : a[i] = list[i]
            /\ a[Len(list) + 1] = node
            /\ Members(a) = Members(list) \cup {node}
            /\ NoneTwice(list) /\ node \notin Members(list) => NoneTwice(a)
<1> DEFINE a == Append(list, node)
<1>1. /\ a \in Seq(S) /\ Len(a) = Len(list) + 1 /\ Len(list) \in Nat
      /\ \A i \in 1 .. Len(list) : a[i] = list[i]
      /\ a[Len(list) + 1] = node
  BY AppendProperties, LenProperties
<1> HIDE DEF a
<1>2. Members(a) = Members(list) \cup {node}
  <2>1. \A i \in 1 .. Len(a) : a[i] \in Members(list) \cup {node}
    BY <1>1 DEF Members
  <2>2. \A i \in 1 .. Len(list) : list[i] \in Members(a)
    BY <1>1 DEF Members
  <2>3. node \in Members(a)
    BY <1>1 DEF Members
  <2>. QED
    BY <2>1, <2>2, <2>3 DEF Members
<1>3. ASSUME NoneTwice(list), node \notin Members(list)
      PROVE  NoneTwice(a)
  BY <1>1, <1>3 DEF NoneTwice, Members
<1>. QED
  BY <1>1, <1>2, <1>3 DEF a

(* Inserting a node and detaching it again leaves the list as it was. *)
LEMMA InsertDetach ==
  ASSUME NEW S, NEW list \in Seq(S), NEW node \in S, node \notin Members(list)
  PROVE  dlist_detach(Append(list, node), node) = list
<1> DEFINE a == Append(list, node)
           p == CHOOSE i \in 1 .. Len(a) : a[i] = node
           d == [i \in 1 .. Len(a) - 1 |-> a[IF i < p THEN i ELSE i + 1]]
<1>1. /\ Len(list) \in Nat /\ Len(a) = Len(list) + 1
      /\ \A i \in 1 .. Len(list) : a[i] = list[i]
      /\ a[Len(list) + 1] = node /\ node \in Members(a)
  BY InsertFacts, LenProperties
<1>2. dlist_detach(a, node) = d
  BY <1>1 DEF dlist_detach
<1> HIDE DEF a
<1>3. \A i \in 1 .. Len(list) : a[i] # node
  BY <1>1 DEF Members
<1>4. p = Len(list) + 1
  <2>1. Len(list) + 1 \in 1 .. Len(a) /\ a[Len(list) + 1] = node
    BY <1>1
  <2>2. p \in 1 .. Len(a) /\ a[p] = node
    BY <2>1
  <2> HIDE DEF p
  <2>. QED
    BY <1>1, <1>3, <2>2
<1> HIDE DEF p
<1>5. \A i \in 1 .. Len(list) : d[i] = list[i]
  BY <1>1, <1>4
<1>6. d \in Seq(S) /\ Len(d) = Len(list)
  <2>1. Len(a) - 1 = Len(list)
    BY <1>1
  <2>2. \A i \in 1 .. Len(list) : list[i] \in S
    BY ElementOfSeq
  <2>3. \A i \in 1 .. Len(list) : a[IF i < p THEN i ELSE i + 1] \in S
    BY <1>1, <1>4, <2>2
  <2>. QED
    BY <1>1, <2>1, <2>3, IsASeq
<1> HIDE DEF d
<1>7. d = list
  BY <1>5, <1>6, SeqEqual
<1>. QED
  BY <1>2, <1>7 DEF a

(* The first of the list goes: detaching it leaves the tail. *)
LEMMA HeadFacts ==
  ASSUME NEW S, NEW list \in Seq(S), list # <<>>, NoneTwice(list)
  PROVE  /\ Head(list) \in Members(list) /\ Head(list) = list[1] /\ Head(list) \in S
         /\ Len(list) > 0
         /\ dlist_detach(list, Head(list)) = Tail(list)
         /\ Tail(list) \in Seq(S) /\ Len(Tail(list)) = Len(list) - 1
         /\ \A i \in 1 .. Len(list) - 1 : Tail(list)[i] = list[i + 1]
<1>1. /\ Len(list) \in Nat /\ Len(list) > 0 /\ Head(list) = list[1] /\ Head(list) \in S
      /\ Tail(list) \in Seq(S) /\ Len(Tail(list)) = Len(list) - 1
      /\ \A i \in 1 .. Len(list) - 1 : Tail(list)[i] = list[i + 1]
  BY HeadTailProperties, EmptySeq, LenProperties
<1>2. Head(list) \in Members(list)
  BY <1>1 DEF Members
<1>3. \A p \in 1 .. Len(list) : list[p] = Head(list) => p = 1
  BY <1>1 DEF NoneTwice
<1> DEFINE f == [i \in 1 .. Len(list) - 1 |-> list[i + 1]]
<1>4. dlist_detach(list, Head(list)) = f
  <2> DEFINE p == CHOOSE i \in 1 .. Len(list) : list[i] = Head(list)
  <2>1. p = 1
    BY <1>1, <1>3
  <2>2. dlist_detach(list, Head(list)) =
          [i \in 1 .. Len(list) - 1 |-> list[IF i < p THEN i ELSE i + 1]]
    BY <1>2 DEF dlist_detach
  <2> HIDE DEF p
  <2>3. \A i \in 1 .. Len(list) - 1 : ~(i < p)
    BY <1>1, <2>1
  <2>. QED
    BY <2>2, <2>3
<1>5. Tail(list) = f
  <2>1. f \in Seq(S) /\ Len(f) = Len(list) - 1
    <3>1. f \in [1 .. Len(list) - 1 -> S]
      BY <1>1, ElementOfSeq
    <3>. QED
      BY <1>1, <3>1, SeqDef, LenProperties
  <2>. QED
    BY <1>1, <2>1, SeqEqual
<1>. QED
  BY <1>1, <1>2, <1>4, <1>5

-----------------------------------------------------------------------------
(* A connection between two events: waiting for one direction, for writing *)
(* when it owes its client something, and the kernel knows.                *)
Quiet(cn, i) ==
  /\ i = Flags(cn)
  /\ cn.want_read # cn.want_write
  /\ cn.want_write <=> cn.outgoing # <<>>
  /\ ~cn.want_close
  /\ Len(cn.incoming) <= 1

Handling == pc \in {"in", "parse", "intent", "flush", "out", "end"}
InEvent  == Handling \/ pc = "dead"

OthersQuiet ==
  \A f \in Fds : conn[f] # None /\ ~(InEvent /\ f = fd) => Quiet(conn[f], interest[f])

(* The connection whose event is being handled, step by step *)
Reading(cn, i) == cn.want_read /\ ~cn.want_write /\ i = {"in"}

AllParsed(cn) == cn.want_close \/ Len(cn.incoming) <= 1

Handled ==
  /\ pc = "in" => Quiet(me, interest[fd]) /\ me.want_read
  /\ pc = "parse" => /\ Reading(me, interest[fd]) /\ ~me.want_close
                     /\ Len(me.outgoing) % 2 = 0
                     /\ Len(me.outgoing) + Len(me.incoming) <= ReadMax + 1
  /\ pc = "intent" => Reading(me, interest[fd]) /\ AllParsed(me)
  /\ pc = "flush" => ~me.want_read /\ me.want_write /\ me.outgoing # <<>> /\ AllParsed(me)
  /\ pc = "out" => Quiet(me, interest[fd]) /\ me.want_write
  /\ pc = "end" => me.want_close \/ Quiet(me, interest[fd])

(* The event being handled and those still in the batch are of the         *)
(* connections of now, each of another one, and what they say is wanted.   *)
EventInv ==
  /\ InEvent => /\ ev # None /\ ev.fd \in Fds /\ conn[ev.fd] # None
                /\ conn[ev.fd].client = ev.client
                /\ ~({"in", "out"} \subseteq ev.mask)
  /\ ~InEvent => ev = None
  /\ pc \in {"in", "parse", "intent", "flush"} => "in" \in ev.mask

BatchInv ==
  /\ pc \in {"wait", "timers"} => batch = {}
  /\ \A e \in batch : e.fd # Listen =>
       /\ conn[e.fd] # None /\ conn[e.fd].client = e.client
       /\ e.mask \subseteq interest[e.fd] \cup {"err"}
       /\ InEvent => e.fd # ev.fd
  /\ \A e1, e2 \in batch : e1.fd = e2.fd => e1 = e2

IdleInv == Members(idle_list) = Fds \ FreeFds /\ NoneTwice(idle_list)

IInv == TypeOK /\ EventInv /\ BatchInv /\ IdleInv /\ OthersQuiet /\ Handled /\ OutgoingBounded

(* The clients: each has one connection at most, and before it nothing has *)
(* been taken from or given to it.                                         *)
Served(c) == \E f \in Fds : conn[f] # None /\ conn[f].client = c

Untouched(c) == got[c] = <<>> /\ rx[c] = <<>> /\ tx[c] = Requests(1, sent[c])

ClientInv ==
  /\ \A f, g \in Fds :
       conn[f] # None /\ conn[g] # None /\ conn[f].client = conn[g].client => f = g
  /\ \A c \in Clients : Served(c) => peer[c] \notin {"new", "gone"}
  /\ NoneTwice(backlog)
  /\ \A c \in Members(backlog) :
       peer[c] \notin {"new", "gone"} /\ ~Served(c) /\ Untouched(c)
  /\ \A c \in Clients : peer[c] = "new" => Untouched(c) /\ sent[c] = 0

(* What the server has answered, received or not, and what it has still to *)
(* answer, read or not: 2d units of responses, and the units from 2d on.   *)
Stream(out, in, n) ==
  LET d == Len(out) \div 2
  IN /\ Len(out) = 2 * d /\ Len(in) = n - 2 * d
     /\ \A k \in 1 .. Len(out) : out[k] = (k + 1) \div 2
     /\ \A k \in 1 .. Len(in) : in[k] = 2 * d + k

InOrder ==
  \A f \in Fds : conn[f] # None =>
    LET c == conn[f].client
    IN ~Gone(c) => Stream(got[c] \o rx[c] \o conn[f].outgoing, conn[f].incoming \o tx[c], sent[c])

StreamInv == IInv /\ ClientInv /\ InOrder

-----------------------------------------------------------------------------
(* The records and sequences *)
LEMMA ConnFields ==
  ASSUME NEW cn \in Conns
  PROVE  /\ cn.want_read \in BOOLEAN /\ cn.want_write \in BOOLEAN /\ cn.want_close \in BOOLEAN
         /\ cn.incoming \in Seq(1 .. 2 * MaxReqs) /\ cn.outgoing \in Seq(1 .. MaxReqs)
         /\ cn.client \in Clients
         /\ Len(cn.incoming) \in Nat /\ Len(cn.outgoing) \in Nat
<1>1. /\ cn.want_read \in BOOLEAN /\ cn.want_write \in BOOLEAN /\ cn.want_close \in BOOLEAN
      /\ cn.incoming \in Seq(1 .. 2 * MaxReqs) /\ cn.outgoing \in Seq(1 .. MaxReqs)
      /\ cn.client \in Clients
  BY DEF Conns
<1>. QED
  BY <1>1, LenProperties

LEMMA FlagsFacts ==
  ASSUME NEW cn \in Conns
  PROVE  /\ Flags(cn) \in SUBSET {"in", "out"}
         /\ "in" \in Flags(cn) <=> cn.want_read
         /\ "out" \in Flags(cn) <=> cn.want_write
BY DEF Flags

LEMMA ConcatLen ==
  ASSUME NEW S, NEW s, NEW t, s \in Seq(S), t \in Seq(S)
  PROVE  /\ s \o t \in Seq(S) /\ Len(s \o t) = Len(s) + Len(t)
         /\ Len(s) \in Nat /\ Len(t) \in Nat
         /\ \A i \in 1 .. Len(s) : (s \o t)[i] = s[i]
         /\ \A i \in 1 .. Len(t) : (s \o t)[Len(s) + i] = t[i]
<1>1. /\ s \o t \in Seq(S) /\ Len(s \o t) = Len(s) + Len(t)
      /\ \A i \in 1 .. Len(s) + Len(t) :
           (s \o t)[i] = IF i <= Len(s) THEN s[i] ELSE t[i - Len(s)]
  BY ConcatProperties
<1>2. Len(s) \in Nat /\ Len(t) \in Nat
  BY LenProperties
<1>3. \A i \in 1 .. Len(t) : /\ Len(s) + i \in 1 .. Len(s) + Len(t) /\ ~(Len(s) + i <= Len(s))
                              /\ Len(s) + i - Len(s) = i
  BY <1>2
<1>4. \A i \in 1 .. Len(t) : (s \o t)[Len(s) + i] = t[i]
  BY <1>1, <1>3
<1>. QED
  BY <1>1, <1>2, <1>4

LEMMA TakeFacts ==
  ASSUME NEW S, NEW s \in Seq(S), NEW n \in 0 .. Len(s)
  PROVE  /\ Take(s, n) \in Seq(S) /\ Len(Take(s, n)) = n
         /\ \A i \in 1 .. n : Take(s, n)[i] = s[i]
         /\ Skip(s, n) \in Seq(S) /\ Len(Skip(s, n)) = Len(s) - n
         /\ \A i \in 1 .. Len(s) - n : Skip(s, n)[i] = s[n + i]
<1>1. Len(s) \in Nat /\ \A i \in 1 .. Len(s) : s[i] \in S
  BY LenProperties, ElementOfSeq
<1>2. /\ SubSeq(s, 1, n) \in Seq(S) /\ Len(SubSeq(s, 1, n)) = n
      /\ \A i \in 1 .. n : SubSeq(s, 1, n)[i] = s[i]
  <2>1. \A i \in 1 .. n : s[i] \in S
    BY <1>1
  <2>2. /\ SubSeq(s, 1, n) \in Seq(S)
        /\ Len(SubSeq(s, 1, n)) = IF 1 <= n THEN n - 1 + 1 ELSE 0
        /\ \A i \in 1 .. n - 1 + 1 : SubSeq(s, 1, n)[i] = s[1 + i - 1]
    BY <1>1, <2>1, SubSeqProperties
  <2>. QED
    BY <1>1, <2>2
<1>3. /\ SubSeq(s, n + 1, Len(s)) \in Seq(S) /\ Len(SubSeq(s, n + 1, Len(s))) = Len(s) - n
      /\ \A i \in 1 .. Len(s) - n : SubSeq(s, n + 1, Len(s))[i] = s[n + i]
  <2> DEFINE m == n + 1
  <2>1. m \in Int /\ Len(s) \in Int /\ \A i \in m .. Len(s) : s[i] \in S
    BY <1>1
  <2> HIDE DEF m
  <2>2. /\ SubSeq(s, m, Len(s)) \in Seq(S)
        /\ Len(SubSeq(s, m, Len(s))) = IF m <= Len(s) THEN Len(s) - m + 1 ELSE 0
        /\ \A i \in 1 .. Len(s) - m + 1 : SubSeq(s, m, Len(s))[i] = s[m + i - 1]
    BY <2>1, SubSeqProperties
  <2>. QED
    BY <1>1, <2>2 DEF m
<1>. QED
  BY <1>2, <1>3 DEF Take, Skip

-----------------------------------------------------------------------------
(* The two halves of TypeOK *)
ClientTypes ==
  /\ script \in [Clients -> [1 .. MaxReqs -> Kinds]]
  /\ peer \in [Clients -> {"new", "open", "eof", "reset", "broken", "gone"}]
  /\ backlog \in Seq(Clients)
  /\ sent \in [Clients -> 0 .. 2 * MaxReqs]
  /\ tx \in [Clients -> Seq(1 .. 2 * MaxReqs)]
  /\ rx \in [Clients -> Seq(1 .. MaxReqs)]
  /\ got \in [Clients -> Seq(1 .. MaxReqs)]
  /\ \A c \in Clients : tx[c] \in Seq(1 .. sent[c]) /\ Len(rx[c]) <= RxCap

ConnTypes ==
  /\ conn \in [Fds -> Conns \cup {None}]
  /\ interest \in [Fds -> {None} \cup SUBSET {"in", "out"}]
  /\ \A f \in Fds : conn[f] = None => interest[f] = None
  /\ \A f \in Fds : conn[f] # None => interest[f] \in SUBSET {"in", "out"}

LoopTypes ==
  /\ up \in {"up", "aborted", "killed"}
  /\ idle_list \in Seq(Fds)
  /\ pc \in {"wait", "events", "accept", "in", "parse", "intent", "flush", "out",
             "end", "timers", "dead"}
  /\ pc = "dead" <=> up # "up"
  /\ batch \in SUBSET Events
  /\ ev \in Events \cup {None}

LEMMA TypeParts == TypeOK <=> /\ ClientTypes /\ ConnTypes /\ LoopTypes
                              /\ Handling => ev # None /\ ev.fd \in Fds /\ conn[ev.fd] # None
BY DEF TypeOK, ClientTypes, ConnTypes, LoopTypes, Handling

(* The clients' own steps do nothing to the server. *)
LEMMA ClientStepTypes ==
  ASSUME ClientTypes, NEW c \in Clients, ClientStep(c) \/ Receive(c)
  PROVE  ClientTypes'
<1>1. CASE Connect(c)
  <2>1. peer' \in [Clients -> {"new", "open", "eof", "reset", "broken", "gone"}]
    BY <1>1 DEF Connect, ClientTypes
  <2>2. backlog' \in Seq(Clients)
    BY <1>1, AppendProperties DEF Connect, ClientTypes
  <2>. QED
    BY <1>1, <2>1, <2>2 DEF Connect, ClientTypes
<1>2. CASE Send(c)
  <2>1. /\ sent[c] \in 0 .. 2 * MaxReqs /\ sent[c] < 2 * MaxReqs /\ MaxReqs \in Nat
        /\ tx[c] \in Seq(1 .. sent[c]) /\ tx[c] \in Seq(1 .. 2 * MaxReqs)
    BY <1>2, ConstantsAssumption DEF Send, ClientTypes
  <2> DEFINE n == sent[c] + 1
             t == Append(tx[c], n)
  <2>2. n \in 1 .. 2 * MaxReqs /\ n \in 1 .. n /\ 1 .. sent[c] \subseteq 1 .. n
    BY <2>1
  <2>3. sent' = [sent EXCEPT ![c] = n] /\ tx' = [tx EXCEPT ![c] = t]
    BY <1>2 DEF Send, ClientTypes
  <2> HIDE DEF n
  <2>4. tx[c] \in Seq(1 .. n)
    BY <2>1, <2>2, SeqMonotonic
  <2>5. t \in Seq(1 .. n) /\ t \in Seq(1 .. 2 * MaxReqs)
    BY <2>1, <2>2, <2>4, AppendProperties
  <2> HIDE DEF t
  <2>6. sent' \in [Clients -> 0 .. 2 * MaxReqs] /\ tx' \in [Clients -> Seq(1 .. 2 * MaxReqs)]
    BY <2>1, <2>2, <2>3, <2>5 DEF ClientTypes
  <2>7. \A x \in Clients : /\ sent'[x] = IF x = c THEN n ELSE sent[x]
                           /\ tx'[x] = IF x = c THEN t ELSE tx[x]
    BY <2>3 DEF ClientTypes
  <2>8. \A x \in Clients : tx'[x] \in Seq(1 .. sent'[x])
    BY <2>5, <2>7 DEF ClientTypes
  <2>. QED
    BY <1>2, <2>6, <2>8 DEF Send, ClientTypes
<1>3. CASE Receive(c)
  <2>1. rx[c] \in Seq(1 .. MaxReqs) /\ rx[c] # <<>> /\ got[c] \in Seq(1 .. MaxReqs)
        /\ Len(rx[c]) <= RxCap /\ RxCap \in Nat
    BY <1>3, ConstantsAssumption DEF Receive, ClientTypes
  <2> DEFINE g == Append(got[c], Head(rx[c]))
             r == Tail(rx[c])
  <2>2. g \in Seq(1 .. MaxReqs) /\ r \in Seq(1 .. MaxReqs) /\ Len(r) = Len(rx[c]) - 1
    BY <2>1, HeadTailProperties, AppendProperties
  <2>3. got' = [got EXCEPT ![c] = g] /\ rx' = [rx EXCEPT ![c] = r]
    BY <1>3 DEF Receive, ClientTypes
  <2> HIDE DEF g, r
  <2>4. Len(r) <= RxCap
    BY <2>1, <2>2, LenProperties
  <2>5. got' \in [Clients -> Seq(1 .. MaxReqs)] /\ rx' \in [Clients -> Seq(1 .. MaxReqs)]
    BY <2>2, <2>3 DEF ClientTypes
  <2>6. \A x \in Clients : Len(rx'[x]) <= RxCap
    BY <2>3, <2>4 DEF ClientTypes
  <2>. QED
    BY <1>3, <2>5, <2>6 DEF Receive, ClientTypes
<1>4. CASE EndOfFile(c)
  BY <1>4 DEF EndOfFile, ClientTypes
<1>5. CASE Reset(c)
  <2>1. peer' \in [Clients -> {"new", "open", "eof", "reset", "broken", "gone"}]
    BY <1>5 DEF Reset, ClientTypes
  <2>2. rx' = [rx EXCEPT ![c] = <<>>]
    BY <1>5 DEF Reset
  <2>3. <<>> \in Seq(1 .. MaxReqs) /\ Len(<<>>) = 0 /\ 0 <= RxCap
    BY EmptySeq, ConstantsAssumption
  <2>4. rx' \in [Clients -> Seq(1 .. MaxReqs)] /\ \A x \in Clients : Len(rx'[x]) <= RxCap
    BY <2>2, <2>3 DEF ClientTypes
  <2>. QED
    BY <1>5, <2>1, <2>4 DEF Reset, ClientTypes
<1>. QED
  BY <1>1, <1>2, <1>3, <1>4, <1>5 DEF ClientStep

LEMMA SameServer ==
  ASSUME IInv, UNCHANGED serverVars, ClientTypes'
  PROVE  IInv'
<1>1. UNCHANGED <<up, conn, interest, idle_list, pc, batch, ev>>
  BY DEF serverVars
<1>2. TypeOK'
  BY <1>1 DEF IInv, TypeOK, ClientTypes
<1>3. EventInv' /\ BatchInv'
  BY <1>1 DEF IInv, EventInv, BatchInv, InEvent, Handling
<1>4. IdleInv'
  BY <1>1 DEF IInv, IdleInv, FreeFds
<1>5. OthersQuiet' /\ OutgoingBounded'
  BY <1>1 DEF IInv, OthersQuiet, OutgoingBounded, InEvent, Handling, fd
<1>6. Handled'
  BY <1>1 DEF IInv, Handled, me, fd
<1>. QED
  BY <1>2, <1>3, <1>4, <1>5, <1>6 DEF IInv

LEMMA ClientsStep ==
  ASSUME IInv, NEW c \in Clients, ClientStep(c) \/ Receive(c)
  PROVE  IInv'
<1>1. UNCHANGED serverVars
  BY DEF ClientStep, Connect, Send, Receive, EndOfFile, Reset
<1>2. ClientTypes'
  BY ClientStepTypes, TypeParts DEF IInv
<1>. QED
  BY <1>1, <1>2, SameServer

-----------------------------------------------------------------------------
(* What epoll_wait() reports is of the connections there are. *)
LEMMA ReadyFacts ==
  ASSUME IInv
  PROVE  /\ Ready \in SUBSET Events
         /\ \A e \in Ready : e.fd # Listen =>
              /\ conn[e.fd] # None /\ conn[e.fd].client = e.client
              /\ e.mask \subseteq interest[e.fd] \cup {"err"}
         /\ \A e1, e2 \in Ready : e1.fd = e2.fd => e1 = e2
<1> DEFINE R == {g \in Fds : interest[g] # None /\ Mask(g) # {}}
           E(f) == [fd |-> f, mask |-> Mask(f), client |-> conn[f].client]
           L == [fd |-> Listen, mask |-> {"in"}, client |-> None]
<1>1. ASSUME NEW f \in R
      PROVE  /\ conn[f] # None /\ conn[f].client \in Clients
             /\ Mask(f) \in SUBSET {"in", "out", "err"}
             /\ Mask(f) \subseteq interest[f] \cup {"err"}
  <2>1. f \in Fds /\ conn[f] # None /\ conn[f] \in Conns /\ interest[f] \in SUBSET {"in", "out"}
    BY DEF IInv, TypeOK
  <2>. QED
    BY <2>1, ConnFields DEF Mask
<1>2. \A e \in Ready : e = L \/ \E f \in R : e = E(f)
  BY DEF Ready
<1> HIDE DEF R
<1>3. \A f \in R : f \in Fds /\ f # Listen
  BY ConstantsAssumption DEF R
<1>4. L \in Events /\ \A f \in R : E(f) \in Events
  BY <1>1, <1>3 DEF Events
<1>5. L.fd = Listen /\ \A f \in R : E(f).fd = f /\ E(f).mask = Mask(f) /\ E(f).client = conn[f].client
  OBVIOUS
<1> HIDE DEF E, L
<1>6. Ready \in SUBSET Events
  BY <1>2, <1>4
<1>7. ASSUME NEW e \in Ready, e.fd # Listen
      PROVE  /\ conn[e.fd] # None /\ conn[e.fd].client = e.client
             /\ e.mask \subseteq interest[e.fd] \cup {"err"}
  BY <1>1, <1>2, <1>5, <1>7
<1>8. ASSUME NEW e1 \in Ready, NEW e2 \in Ready, e1.fd = e2.fd
      PROVE  e1 = e2
  BY <1>2, <1>3, <1>5, <1>8
<1>. QED
  BY <1>6, <1>7, <1>8

LEMMA EpollWaitStep ==
  ASSUME IInv, epoll_wait
  PROVE  IInv'
<1>1. /\ pc = "wait" /\ pc' = "events"
      /\ UNCHANGED <<up, conn, interest, idle_list, ev, clientVars>>
  BY DEF epoll_wait
<1>2. batch' \in SUBSET Ready
  BY DEF epoll_wait
<1>3. batch' \in SUBSET Events
  BY <1>2, ReadyFacts
<1>4. TypeOK'
  BY <1>1, <1>3 DEF IInv, TypeOK, clientVars
<1>5. ~InEvent /\ ~InEvent'
  BY <1>1 DEF InEvent, Handling
<1>6. EventInv'
  BY <1>1, <1>5 DEF IInv, EventInv
<1>7. BatchInv'
  BY <1>1, <1>2, <1>5, ReadyFacts DEF BatchInv
<1>8. IdleInv' /\ OutgoingBounded'
  BY <1>1 DEF IInv, IdleInv, FreeFds, OutgoingBounded
<1>9. OthersQuiet'
  BY <1>1, <1>5 DEF IInv, OthersQuiet
<1>10. Handled'
  BY <1>1 DEF Handled
<1>. QED
  BY <1>4, <1>6, <1>7, <1>8, <1>9, <1>10 DEF IInv

(* The steps of main() between the events *)
LEMMA AcceptEventStep ==
  ASSUME IInv, AcceptEvent \/ AcceptDone \/ process_timers \/ TimersDone
  PROVE  IInv'
<1>1. /\ pc \in {"events", "accept", "timers"} /\ pc' \in {"accept", "events", "timers", "wait"}
      /\ UNCHANGED <<up, conn, interest, idle_list, ev, clientVars>>
      /\ batch' \in SUBSET batch
  BY DEF AcceptEvent, AcceptDone, process_timers, TimersDone
<1>2. TypeOK'
  <2>1. batch' \in SUBSET Events
    BY <1>1 DEF IInv, TypeOK
  <2>. QED
    BY <1>1, <2>1 DEF IInv, TypeOK, clientVars
<1>3. ~InEvent /\ ~InEvent'
  BY <1>1 DEF InEvent, Handling
<1>4. EventInv'
  BY <1>1, <1>3 DEF IInv, EventInv
<1>5. BatchInv'
  <2>1. pc' \in {"wait", "timers"} => batch' = {}
    BY DEF AcceptEvent, AcceptDone, process_timers, TimersDone, IInv, BatchInv
  <2>. QED
    BY <1>1, <1>3, <2>1 DEF IInv, BatchInv
<1>6. IdleInv' /\ OutgoingBounded'
  BY <1>1 DEF IInv, IdleInv, FreeFds, OutgoingBounded
<1>7. OthersQuiet'
  BY <1>1, <1>3 DEF IInv, OthersQuiet
<1>8. Handled'
  BY <1>1 DEF Handled
<1>. QED
  BY <1>2, <1>4, <1>5, <1>6, <1>7, <1>8 DEF IInv

(* The connection of the next event moves to the end of the idle list. *)
LEMMA ConnEventStep ==
  ASSUME IInv, ConnEvent
  PROVE  IInv'
<1>1. /\ pc = "events" /\ UNCHANGED <<up, conn, interest, clientVars>>
  BY DEF ConnEvent
<1>2. PICK e \in batch :
        /\ e.fd # Listen
        /\ conn[e.fd] # None
        /\ batch' = batch \ {e}
        /\ ev' = e
        /\ idle_list' = Append(dlist_detach(idle_list, e.fd), e.fd)
        /\ pc' = IF "in" \in e.mask THEN "in"
                 ELSE IF "out" \in e.mask THEN "out" ELSE "end"
  BY DEF ConnEvent
<1> DEFINE f == e.fd
<1>3. e \in Events /\ f \in Fds /\ e # None
  BY <1>2, NoneAssumption DEF IInv, TypeOK, Events
<1>4. /\ conn[f] # None /\ conn[f] \in Conns /\ conn[f].client = e.client
      /\ e.mask \subseteq interest[f] \cup {"err"} /\ interest[f] \in SUBSET {"in", "out"}
  BY <1>2, <1>3 DEF IInv, TypeOK, BatchInv
<1>5. Quiet(conn[f], interest[f])
  BY <1>1, <1>3, <1>4 DEF IInv, OthersQuiet, InEvent, Handling
<1>6. ~({"in", "out"} \subseteq e.mask)
  <2>1. ~({"in", "out"} \subseteq interest[f])
    BY <1>4, <1>5, FlagsFacts, ConnFields DEF Quiet
  <2>. QED
    BY <1>4, <2>1
<1>7. /\ "in" \in e.mask => conn[f].want_read
      /\ "out" \in e.mask => conn[f].want_write
  BY <1>4, <1>5, FlagsFacts DEF Quiet
<1>8. fd' = f /\ me' = conn[f]
  BY <1>1, <1>2 DEF fd, me
<1>9. idle_list' \in Seq(Fds) /\ Members(idle_list') = Fds \ FreeFds /\ NoneTwice(idle_list')
  <2> DEFINE d == dlist_detach(idle_list, f)
  <2>1. idle_list \in Seq(Fds) /\ NoneTwice(idle_list) /\ Members(idle_list) = Fds \ FreeFds
        /\ f \in Fds \ FreeFds
    BY <1>3, <1>4 DEF IInv, TypeOK, IdleInv, FreeFds
  <2>2. idle_list' = Append(d, f)
    BY <1>2
  <2> HIDE DEF f
  <2>3. NoneTwice(d)
    BY <2>1, DetachNoneTwice
  <2>4. d \in Seq(Fds) /\ Members(d) = Members(idle_list) \ {f}
    BY <2>1, DetachFacts
  <2> HIDE DEF d
  <2>5. f \notin Members(d) /\ Members(d) \cup {f} = Fds \ FreeFds
    BY <2>1, <2>4
  <2>. QED
    BY <1>3, <2>2, <2>3, <2>4, <2>5, InsertFacts
<1>10. pc' \in {"in", "out", "end"} /\ InEvent' /\ Handling'
  BY <1>2 DEF InEvent, Handling
<1>11. TypeOK'
  <2>1. batch' \in SUBSET Events
    BY <1>2 DEF IInv, TypeOK
  <2>. QED
    BY <1>1, <1>2, <1>3, <1>4, <1>9, <1>10, <2>1 DEF IInv, TypeOK, clientVars
<1>12. EventInv'
  BY <1>1, <1>2, <1>3, <1>4, <1>6, <1>10 DEF EventInv
<1>13. BatchInv'
  <2>1. \A x \in batch' : x \in batch /\ x.fd # e.fd
    BY <1>2 DEF IInv, BatchInv
  <2>2. pc' \notin {"wait", "timers"}
    BY <1>10
  <2>. QED
    BY <1>1, <1>2, <2>1, <2>2 DEF IInv, BatchInv
<1>14. IdleInv'
  BY <1>1, <1>9 DEF IdleInv, FreeFds
<1>15. OthersQuiet' /\ OutgoingBounded'
  BY <1>1 DEF IInv, OthersQuiet, OutgoingBounded, InEvent, Handling
<1>16. Handled'
  <2>1. Quiet(me', interest'[fd'])
    BY <1>1, <1>5, <1>8
  <2>2. pc' = "in" => "in" \in e.mask
    BY <1>2
  <2>3. pc' = "out" => "out" \in e.mask
    BY <1>2
  <2>4. pc' = "in" => me'.want_read
    BY <1>7, <1>8, <2>2
  <2>5. pc' = "out" => me'.want_write
    BY <1>7, <1>8, <2>3
  <2>. QED
    BY <1>10, <2>1, <2>4, <2>5 DEF Handled
<1>. QED
  BY <1>11, <1>12, <1>13, <1>14, <1>15, <1>16 DEF IInv

-----------------------------------------------------------------------------
(* What conn_destroy() leaves *)
LEMMA DestroyFacts ==
  ASSUME IInv, NEW f \in Fds, conn[f] # None, conn_destroy(f)
  PROVE  /\ ClientTypes' /\ ConnTypes' /\ idle_list' \in Seq(Fds) /\ IdleInv'
         /\ \A g \in Fds : g # f => conn'[g] = conn[g] /\ interest'[g] = interest[g]
         /\ conn'[f] = None
         /\ OutgoingBounded'
<1>1. /\ conn \in [Fds -> Conns \cup {None}] /\ interest \in [Fds -> {None} \cup SUBSET {"in", "out"}]
      /\ conn[f] \in Conns /\ conn[f].client \in Clients
      /\ \A g \in Fds : conn[g] = None => interest[g] = None
      /\ \A g \in Fds : conn[g] # None => interest[g] \in SUBSET {"in", "out"}
      /\ idle_list \in Seq(Fds)
  BY ConnFields DEF IInv, TypeOK
<1>2. /\ conn' = [conn EXCEPT ![f] = None] /\ interest' = [interest EXCEPT ![f] = None]
      /\ idle_list' = dlist_detach(idle_list, f)
      /\ peer' = [peer EXCEPT ![conn[f].client] = "gone"]
      /\ tx' = [tx EXCEPT ![conn[f].client] = <<>>]
      /\ UNCHANGED <<script, backlog, sent, rx, got>>
  BY DEF conn_destroy, Destroyed
<1>3. /\ \A g \in Fds : g # f => conn'[g] = conn[g] /\ interest'[g] = interest[g]
      /\ conn'[f] = None /\ interest'[f] = None
  BY <1>1, <1>2
<1>4. ConnTypes'
  <2>1. conn' \in [Fds -> Conns \cup {None}]
    BY <1>1, <1>2
  <2>2. interest' \in [Fds -> {None} \cup SUBSET {"in", "out"}]
    BY <1>1, <1>2
  <2>3. ASSUME NEW g \in Fds
        PROVE  /\ conn'[g] = None => interest'[g] = None
               /\ conn'[g] # None => interest'[g] \in SUBSET {"in", "out"}
    BY <1>1, <1>3
  <2>. QED
    BY <2>1, <2>2, <2>3 DEF ConnTypes
<1>5. ClientTypes'
  <2>1. <<>> \in Seq(1 .. 2 * MaxReqs) /\ \A x \in Clients : <<>> \in Seq(1 .. sent[x])
    BY EmptySeq
  <2>2. ClientTypes
    BY TypeParts DEF IInv
  <2>3. peer' \in [Clients -> {"new", "open", "eof", "reset", "broken", "gone"}]
    BY <1>2, <2>2 DEF ClientTypes
  <2>4. tx' \in [Clients -> Seq(1 .. 2 * MaxReqs)]
    BY <1>2, <2>1, <2>2 DEF ClientTypes
  <2>5. \A x \in Clients : tx'[x] \in Seq(1 .. sent[x])
    BY <1>2, <2>1, <2>2 DEF ClientTypes
  <2>. QED
    BY <1>2, <2>2, <2>3, <2>4, <2>5 DEF ClientTypes
<1>6. idle_list' \in Seq(Fds) /\ Members(idle_list') = Members(idle_list) \ {f} /\ NoneTwice(idle_list')
  <2> DEFINE d == dlist_detach(idle_list, f)
  <2>1. NoneTwice(idle_list)
    BY DEF IInv, IdleInv
  <2>2. NoneTwice(d)
    BY <1>1, <2>1, DetachNoneTwice
  <2>3. d \in Seq(Fds) /\ Members(d) = Members(idle_list) \ {f}
    BY <1>1, <2>1, DetachFacts
  <2>. QED
    BY <1>2, <2>2, <2>3
<1>7. IdleInv'
  <2>1. FreeFds' = FreeFds \cup {f}
    BY <1>1, <1>3 DEF FreeFds
  <2>. QED
    BY <1>6, <2>1 DEF IInv, IdleInv
<1>8. OutgoingBounded'
  BY <1>3 DEF IInv, OutgoingBounded
<1>. QED
  BY <1>3, <1>4, <1>5, <1>6, <1>7, <1>8

LEMMA CloseIdleStep ==
  ASSUME IInv, CloseIdle
  PROVE  IInv'
<1> DEFINE f == Head(idle_list)
<1>1. pc = "timers" /\ idle_list # <<>> /\ conn_destroy(f) /\ UNCHANGED <<up, pc, batch, ev>>
  BY DEF CloseIdle
<1>2. f \in Fds /\ conn[f] # None
  <2>1. idle_list \in Seq(Fds) /\ NoneTwice(idle_list) /\ Members(idle_list) = Fds \ FreeFds
    BY DEF IInv, TypeOK, IdleInv
  <2>2. f \in Members(idle_list)
    BY <1>1, <2>1, HeadFacts
  <2>. QED
    BY <2>1, <2>2 DEF FreeFds
<1> HIDE DEF f
<1>3. /\ ClientTypes' /\ ConnTypes' /\ idle_list' \in Seq(Fds) /\ IdleInv' /\ OutgoingBounded'
      /\ \A g \in Fds : g # f => conn'[g] = conn[g] /\ interest'[g] = interest[g]
      /\ conn'[f] = None
  BY <1>1, <1>2, DestroyFacts
<1>4. ~InEvent /\ ~InEvent' /\ ~Handling'
  BY <1>1 DEF InEvent, Handling
<1>5. TypeOK'
  <2>1. LoopTypes'
    BY <1>1, <1>3, TypeParts DEF IInv, LoopTypes
  <2>2. TypeOK' <=> /\ ClientTypes' /\ ConnTypes' /\ LoopTypes'
                    /\ Handling' => ev' # None /\ ev'.fd \in Fds /\ conn'[ev'.fd] # None
    BY DEF TypeOK, ClientTypes, ConnTypes, LoopTypes, Handling
  <2>. QED
    BY <1>3, <1>4, <2>1, <2>2
<1>6. EventInv' /\ BatchInv'
  BY <1>1, <1>4 DEF IInv, EventInv, BatchInv
<1>7. OthersQuiet' /\ Handled'
  BY <1>1, <1>3, <1>4 DEF IInv, OthersQuiet, Handled
<1>. QED
  BY <1>3, <1>5, <1>6, <1>7 DEF IInv

(* The end of an event: the connection is closed, or waits again. *)
LEMMA EventDoneStep ==
  ASSUME IInv, EventDone
  PROVE  IInv'
<1>1. pc = "end" /\ pc' = "events" /\ ev' = None /\ UNCHANGED <<up, batch>>
  BY DEF EventDone
<1>2. InEvent /\ ~InEvent' /\ ~Handling' /\ fd \in Fds /\ conn[fd] # None /\ me = conn[fd]
  BY <1>1 DEF IInv, EventInv, InEvent, Handling, fd, me
<1>3. /\ ClientTypes' /\ ConnTypes' /\ idle_list' \in Seq(Fds) /\ IdleInv' /\ OutgoingBounded'
      /\ \A g \in Fds : g # fd => conn'[g] = conn[g] /\ interest'[g] = interest[g]
      /\ conn'[fd] # None => Quiet(conn'[fd], interest'[fd])
  <2>1. CASE conn_destroy(fd)
    BY <1>2, <2>1, DestroyFacts
  <2>2. CASE ~("err" \in ev.mask \/ me.want_close) /\ UNCHANGED <<conn, interest, idle_list, clientVars>>
    <3>1. ClientTypes /\ ConnTypes /\ idle_list \in Seq(Fds) /\ IdleInv /\ OutgoingBounded
      BY TypeParts DEF IInv, LoopTypes
    <3>2. ClientTypes' /\ ConnTypes' /\ IdleInv' /\ OutgoingBounded'
      BY <2>2, <3>1 DEF clientVars, ClientTypes, ConnTypes, IdleInv, FreeFds, OutgoingBounded
    <3>3. Quiet(conn[fd], interest[fd])
      BY <1>1, <1>2, <2>2 DEF IInv, Handled
    <3>. QED
      BY <2>2, <3>1, <3>2, <3>3
  <2>. QED
    BY <2>1, <2>2 DEF EventDone
<1>4. TypeOK'
  <2>1. LoopTypes'
    BY <1>1, <1>3, TypeParts DEF IInv, LoopTypes
  <2>2. TypeOK' <=> /\ ClientTypes' /\ ConnTypes' /\ LoopTypes'
                    /\ Handling' => ev' # None /\ ev'.fd \in Fds /\ conn'[ev'.fd] # None
    BY DEF TypeOK, ClientTypes, ConnTypes, LoopTypes, Handling
  <2>. QED
    BY <1>2, <1>3, <2>1, <2>2
<1>5. EventInv'
  BY <1>1, <1>2 DEF EventInv
<1>6. BatchInv'
  <2>1. \A e \in batch : e.fd # Listen => e.fd \in Fds /\ e.fd # fd
    BY <1>2 DEF IInv, TypeOK, Events, BatchInv, fd
  <2>. QED
    BY <1>1, <1>2, <1>3, <2>1 DEF IInv, BatchInv
<1>7. OthersQuiet'
  BY <1>2, <1>3 DEF IInv, OthersQuiet
<1>8. Handled'
  BY <1>1 DEF Handled
<1>. QED
  BY <1>3, <1>4, <1>5, <1>6, <1>7, <1>8 DEF IInv

-----------------------------------------------------------------------------
(* accept(): a new connection has a descriptor nobody has. *)
LEMMA NewConnFacts ==
  ASSUME NEW c \in Clients
  PROVE  NewConn(c) \in Conns /\ NewConn(c) # None /\ Quiet(NewConn(c), {"in"})
         /\ Len(NewConn(c).outgoing) = 0
<1>1. <<>> \in Seq(1 .. 2 * MaxReqs) /\ <<>> \in Seq(1 .. MaxReqs) /\ Len(<<>>) = 0
  BY EmptySeq
<1>2. NewConn(c) \in Conns
  BY <1>1 DEF NewConn, Conns
<1>3. NewConn(c) # None
  BY <1>2, NoneAssumption
<1>4. Quiet(NewConn(c), {"in"})
  BY <1>1 DEF NewConn, Quiet, Flags
<1>. QED
  BY <1>1, <1>2, <1>3, <1>4 DEF NewConn

(* A connection epoll does not take leaves nothing behind. *)
LEMMA AcceptBranches ==
  ASSUME IInv, handle_accept
  PROVE  \E f \in FreeFds :
           \/ /\ conn' = [conn EXCEPT ![f] = NewConn(Head(backlog))]
              /\ interest' = [interest EXCEPT ![f] = {"in"}]
              /\ idle_list' = Append(idle_list, f)
              /\ UNCHANGED <<peer, tx>>
           \/ /\ peer' = [peer EXCEPT ![Head(backlog)] = "gone"]
              /\ tx' = [tx EXCEPT ![Head(backlog)] = <<>>]
              /\ UNCHANGED <<conn, interest, idle_list>>
<1> DEFINE c        == Head(backlog)
           conns(f) == [conn EXCEPT ![f] = NewConn(c)]
<1>1. PICK f \in FreeFds :
        \/ /\ conn' = conns(f)
           /\ interest' = [interest EXCEPT ![f] = {"in"}]
           /\ idle_list' = Append(idle_list, f)
           /\ UNCHANGED <<peer, tx>>
        \/ Destroyed(f, conns(f), Append(idle_list, f))
  BY DEF handle_accept
<1>2. CASE Destroyed(f, conns(f), Append(idle_list, f))
  <2>1. /\ conn \in [Fds -> Conns \cup {None}] /\ interest \in [Fds -> {None} \cup SUBSET {"in", "out"}]
        /\ f \in Fds /\ conn[f] = None /\ interest[f] = None
        /\ idle_list \in Seq(Fds) /\ f \notin Members(idle_list)
    BY DEF IInv, TypeOK, IdleInv, FreeFds
  <2>2. conns(f)[f].client = c
    BY <2>1 DEF NewConn
  <2> HIDE DEF c
  <2>3. /\ conn' = [conns(f) EXCEPT ![f] = None]
        /\ interest' = [interest EXCEPT ![f] = None]
        /\ idle_list' = dlist_detach(Append(idle_list, f), f)
        /\ peer' = [peer EXCEPT ![c] = "gone"]
        /\ tx' = [tx EXCEPT ![c] = <<>>]
    BY <1>2, <2>2 DEF Destroyed
  <2>4. idle_list' = idle_list
    BY <2>1, <2>3, InsertDetach
  <2>5. conn' = conn /\ interest' = interest
    BY <2>1, <2>3
  <2>. QED
    BY <2>3, <2>4, <2>5 DEF c
<1>. QED
  BY <1>1, <1>2

LEMMA HandleAcceptStep ==
  ASSUME IInv, handle_accept
  PROVE  IInv'
<1> DEFINE c == Head(backlog)
<1>1. /\ pc = "accept" /\ backlog # <<>> /\ UNCHANGED <<up, pc, batch, ev, script, sent, rx, got>>
      /\ backlog' = Tail(backlog)
  BY DEF handle_accept
<1>2. backlog' \in Seq(Clients) /\ c \in Clients
  BY <1>1, HeadTailProperties DEF IInv, TypeOK
<1>3. ~InEvent /\ ~InEvent' /\ ~Handling'
  BY <1>1 DEF InEvent, Handling
<1>4. PICK f \in FreeFds :
        \/ /\ conn' = [conn EXCEPT ![f] = NewConn(c)]
           /\ interest' = [interest EXCEPT ![f] = {"in"}]
           /\ idle_list' = Append(idle_list, f)
           /\ UNCHANGED <<peer, tx>>
        \/ /\ peer' = [peer EXCEPT ![c] = "gone"]
           /\ tx' = [tx EXCEPT ![c] = <<>>]
           /\ UNCHANGED <<conn, interest, idle_list>>
  BY AcceptBranches
<1> HIDE DEF c
<1>5. f \in Fds /\ conn[f] = None
  BY DEF FreeFds
<1>6. /\ conn \in [Fds -> Conns \cup {None}] /\ interest \in [Fds -> {None} \cup SUBSET {"in", "out"}]
      /\ idle_list \in Seq(Fds) /\ ClientTypes /\ ConnTypes /\ LoopTypes
  BY TypeParts DEF IInv, TypeOK
<1>7. ASSUME /\ conn' = [conn EXCEPT ![f] = NewConn(c)]
             /\ interest' = [interest EXCEPT ![f] = {"in"}]
             /\ idle_list' = Append(idle_list, f)
             /\ UNCHANGED <<peer, tx>>
      PROVE  /\ ClientTypes' /\ ConnTypes' /\ idle_list' \in Seq(Fds) /\ IdleInv' /\ OutgoingBounded'
             /\ OthersQuiet' /\ BatchInv'
  <2>1. /\ \A g \in Fds : g # f => conn'[g] = conn[g] /\ interest'[g] = interest[g]
        /\ conn'[f] = NewConn(c) /\ interest'[f] = {"in"}
    BY <1>5, <1>6, <1>7
  <2>2. ConnTypes'
    <3>1. conn' \in [Fds -> Conns \cup {None}]
      BY <1>2, <1>6, <1>7, NewConnFacts
    <3>2. interest' \in [Fds -> {None} \cup SUBSET {"in", "out"}]
      BY <1>6, <1>7
    <3>. QED
      BY <1>2, <1>6, <2>1, <3>1, <3>2, NewConnFacts DEF ConnTypes
  <2>3. ClientTypes'
    BY <1>1, <1>2, <1>6, <1>7 DEF ClientTypes
  <2>4. /\ idle_list' \in Seq(Fds) /\ Members(idle_list') = Members(idle_list) \cup {f}
        /\ NoneTwice(idle_list')
    BY <1>5, <1>6, <1>7, InsertFacts DEF IInv, IdleInv, FreeFds
  <2>5. IdleInv'
    <3>1. Fds \ FreeFds' = (Fds \ FreeFds) \cup {f}
      BY <1>2, <1>5, <2>1, NewConnFacts DEF FreeFds
    <3>. QED
      BY <2>4, <3>1 DEF IInv, IdleInv
  <2>6. OutgoingBounded'
    <3>1. 0 <= 2 * ((ReadMax + 1) \div 2)
      BY ConstantsAssumption
    <3>. QED
      BY <1>2, <2>1, <3>1, NewConnFacts DEF IInv, OutgoingBounded
  <2>7. OthersQuiet'
    BY <1>2, <1>3, <2>1, NewConnFacts DEF IInv, OthersQuiet
  <2>8. BatchInv'
    <3>1. \A e \in batch : e.fd # Listen => e.fd \in Fds /\ e.fd # f
      BY <1>5 DEF IInv, TypeOK, Events, BatchInv
    <3>. QED
      BY <1>1, <1>3, <2>1, <3>1 DEF IInv, BatchInv
  <2>. QED
    BY <2>2, <2>3, <2>4, <2>5, <2>6, <2>7, <2>8
<1>8. ASSUME /\ peer' = [peer EXCEPT ![c] = "gone"]
             /\ tx' = [tx EXCEPT ![c] = <<>>]
             /\ UNCHANGED <<conn, interest, idle_list>>
      PROVE  /\ ClientTypes' /\ ConnTypes' /\ idle_list' \in Seq(Fds) /\ IdleInv' /\ OutgoingBounded'
             /\ OthersQuiet' /\ BatchInv'
  <2>1. <<>> \in Seq(1 .. 2 * MaxReqs) /\ \A x \in Clients : <<>> \in Seq(1 .. sent[x])
    BY EmptySeq
  <2>2. tx' \in [Clients -> Seq(1 .. 2 * MaxReqs)] /\ \A x \in Clients : tx'[x] \in Seq(1 .. sent[x])
    BY <1>6, <1>8, <2>1 DEF ClientTypes
  <2>3. ClientTypes'
    BY <1>1, <1>2, <1>6, <1>8, <2>2 DEF ClientTypes
  <2>4. ConnTypes' /\ IdleInv' /\ OutgoingBounded'
    BY <1>6, <1>8 DEF IInv, ConnTypes, IdleInv, FreeFds, OutgoingBounded
  <2>5. OthersQuiet' /\ BatchInv'
    BY <1>1, <1>3, <1>8 DEF IInv, OthersQuiet, BatchInv
  <2>. QED
    BY <1>6, <1>8, <2>3, <2>4, <2>5
<1>9. /\ ClientTypes' /\ ConnTypes' /\ idle_list' \in Seq(Fds) /\ IdleInv' /\ OutgoingBounded'
      /\ OthersQuiet' /\ BatchInv'
  BY <1>4, <1>7, <1>8
<1>10. TypeOK'
  <2>1. LoopTypes'
    BY <1>1, <1>6, <1>9 DEF LoopTypes
  <2>2. TypeOK' <=> /\ ClientTypes' /\ ConnTypes' /\ LoopTypes'
                    /\ Handling' => ev' # None /\ ev'.fd \in Fds /\ conn'[ev'.fd] # None
    BY DEF TypeOK, ClientTypes, ConnTypes, LoopTypes, Handling
  <2>. QED
    BY <1>3, <1>9, <2>1, <2>2
<1>11. EventInv' /\ Handled'
  BY <1>1, <1>3 DEF IInv, EventInv, Handled
<1>. QED
  BY <1>9, <1>10, <1>11 DEF IInv

-----------------------------------------------------------------------------
(* The handlers of an event: they change its connection, and no other. *)
LEMMA MyFacts ==
  ASSUME IInv, Handling
  PROVE  /\ fd \in Fds /\ me \in Conns /\ conn[fd] = me /\ me # None /\ cl \in Clients
         /\ interest[fd] \in SUBSET {"in", "out"}
         /\ up = "up" /\ InEvent /\ ev # None
         /\ ClientTypes /\ ConnTypes /\ LoopTypes
         /\ "in" \in ev.mask => AfterRead = "end"
<1>1. fd \in Fds /\ conn[fd] # None /\ ev # None /\ me = conn[fd] /\ ~({"in", "out"} \subseteq ev.mask)
  BY DEF IInv, EventInv, InEvent, fd, me
<1>2. me \in Conns /\ interest[fd] \in SUBSET {"in", "out"}
  BY <1>1 DEF IInv, TypeOK
<1>3. cl \in Clients
  BY <1>2, ConnFields DEF cl
<1>4. up = "up"
  BY DEF IInv, TypeOK, Handling
<1>. QED
  BY <1>1, <1>2, <1>3, <1>4, TypeParts DEF IInv, InEvent, AfterRead

LEMMA UpdateFacts ==
  ASSUME IInv, Handling, NEW cn \in Conns, NEW i \in SUBSET {"in", "out"},
         cn.client = me.client,
         conn' = [conn EXCEPT ![fd] = cn], interest' = [interest EXCEPT ![fd] = i],
         UNCHANGED <<batch, ev, idle_list>>, ClientTypes',
         pc' \in {"in", "parse", "intent", "flush", "out", "end", "dead"},
         pc' \in {"in", "parse", "intent", "flush"} => "in" \in ev.mask,
         up' \in {"up", "aborted", "killed"}, pc' = "dead" <=> up' # "up",
         Len(cn.outgoing) <= 2 * ((ReadMax + 1) \div 2)
  PROVE  /\ TypeOK' /\ EventInv' /\ BatchInv' /\ IdleInv' /\ OthersQuiet' /\ OutgoingBounded'
         /\ fd' = fd /\ me' = cn /\ interest'[fd] = i
<1>1. /\ fd \in Fds /\ me \in Conns /\ conn[fd] = me /\ me # None
      /\ InEvent /\ ev # None /\ ConnTypes /\ LoopTypes
  BY MyFacts
<1>2. cn # None
  BY NoneAssumption
<1>3. InEvent' /\ fd' = fd
  BY DEF InEvent, Handling, fd
<1>4. /\ \A g \in Fds : g # fd => conn'[g] = conn[g] /\ interest'[g] = interest[g]
      /\ conn'[fd] = cn /\ interest'[fd] = i
  BY <1>1 DEF ConnTypes
<1>5. me' = cn
  BY <1>3, <1>4 DEF me
<1>6. ConnTypes'
  <2>1. conn' \in [Fds -> Conns \cup {None}]
    BY <1>1 DEF ConnTypes
  <2>2. interest' \in [Fds -> {None} \cup SUBSET {"in", "out"}]
    BY <1>1 DEF ConnTypes
  <2>3. ASSUME NEW g \in Fds
        PROVE  /\ conn'[g] = None => interest'[g] = None
               /\ conn'[g] # None => interest'[g] \in SUBSET {"in", "out"}
    BY <1>1, <1>2, <1>4 DEF ConnTypes
  <2>. QED
    BY <2>1, <2>2, <2>3 DEF ConnTypes
<1>7. TypeOK'
  <2>1. LoopTypes'
    BY <1>1 DEF LoopTypes
  <2>2. TypeOK' <=> /\ ClientTypes' /\ ConnTypes' /\ LoopTypes'
                    /\ Handling' => ev' # None /\ ev'.fd \in Fds /\ conn'[ev'.fd] # None
    BY DEF TypeOK, ClientTypes, ConnTypes, LoopTypes, Handling
  <2>. QED
    BY <1>1, <1>2, <1>4, <1>6, <2>1, <2>2 DEF fd
<1>8. EventInv'
  <2>1. conn[ev.fd].client = ev.client /\ ~({"in", "out"} \subseteq ev.mask)
    BY <1>1 DEF IInv, EventInv
  <2>2. conn'[ev.fd] # None /\ conn'[ev.fd].client = ev.client
    BY <1>1, <1>2, <1>4, <2>1 DEF fd
  <2>. QED
    BY <1>1, <1>3, <2>1, <2>2 DEF EventInv, fd
<1>9. BatchInv'
  <2>1. \A e \in batch : e.fd # Listen => e.fd \in Fds /\ e.fd # fd
    BY <1>1 DEF IInv, TypeOK, Events, BatchInv, fd
  <2>2. pc' \notin {"wait", "timers"}
    OBVIOUS
  <2>. QED
    BY <1>1, <1>3, <1>4, <2>1, <2>2 DEF IInv, BatchInv
<1>10. IdleInv'
  <2>1. FreeFds' = FreeFds
    BY <1>1, <1>2, <1>4 DEF FreeFds
  <2>. QED
    BY <2>1 DEF IInv, IdleInv
<1>11. OthersQuiet'
  BY <1>1, <1>3, <1>4 DEF IInv, OthersQuiet
<1>12. OutgoingBounded'
  BY <1>4 DEF IInv, OutgoingBounded
<1>. QED
  BY <1>3, <1>4, <1>5, <1>7, <1>8, <1>9, <1>10, <1>11, <1>12

LEMMA MyOutgoing ==
  ASSUME IInv, Handling
  PROVE  Len(me.outgoing) <= 2 * ((ReadMax + 1) \div 2)
BY MyFacts DEF IInv, OutgoingBounded

(* read() returns at least one unit and at most ReadMax. *)
LEMMA HandleReadStep ==
  ASSUME IInv, handle_read
  PROVE  IInv'
<1>1. pc = "in" /\ Handling /\ UNCHANGED <<up, interest, idle_list, batch, ev,
                 script, peer, backlog, sent, rx, got>>
  BY DEF handle_read, Handling
<1>2. /\ fd \in Fds /\ me \in Conns /\ conn[fd] = me /\ cl \in Clients /\ up = "up"
      /\ interest[fd] \in SUBSET {"in", "out"} /\ ClientTypes /\ ConnTypes
      /\ "in" \in ev.mask => AfterRead = "end"
  BY <1>1, MyFacts
<1>3. Quiet(me, interest[fd]) /\ me.want_read /\ "in" \in ev.mask
  BY <1>1 DEF IInv, Handled, EventInv
<1>4. interest' = [interest EXCEPT ![fd] = interest[fd]]
  BY <1>1, <1>2 DEF ConnTypes
<1>5. ~me.want_write /\ me.outgoing = <<>> /\ ~me.want_close /\ Len(me.incoming) <= 1
      /\ interest[fd] = {"in"}
  BY <1>2, <1>3, ConnFields DEF Quiet, Flags
<1>6. /\ me.incoming \in Seq(1 .. 2 * MaxReqs) /\ me.outgoing \in Seq(1 .. MaxReqs)
      /\ Len(me.incoming) \in Nat
  BY <1>2, ConnFields
<1>7. ASSUME tx[cl] # <<>>, pc' = "parse",
             Update([me EXCEPT !.incoming = @ \o Take(tx[cl], Lesser(Len(tx[cl]), ReadMax))]),
             tx' = [tx EXCEPT ![cl] = Skip(@, Lesser(Len(tx[cl]), ReadMax))]
      PROVE  IInv'
  <2> DEFINE n == Lesser(Len(tx[cl]), ReadMax)
             cn == [me EXCEPT !.incoming = me.incoming \o Take(tx[cl], n)]
  <2>1. /\ tx[cl] \in Seq(1 .. 2 * MaxReqs) /\ tx[cl] \in Seq(1 .. sent[cl])
        /\ Len(tx[cl]) \in Nat
    BY <1>2, LenProperties DEF ClientTypes
  <2>2. n \in 0 .. Len(tx[cl]) /\ n <= ReadMax
    BY <2>1, ConstantsAssumption DEF Lesser
  <2> HIDE DEF n
  <2>3. /\ Take(tx[cl], n) \in Seq(1 .. 2 * MaxReqs) /\ Len(Take(tx[cl], n)) = n
        /\ Skip(tx[cl], n) \in Seq(1 .. 2 * MaxReqs)
    BY <2>1, <2>2, TakeFacts
  <2>4. Skip(tx[cl], n) \in Seq(1 .. sent[cl])
    BY <2>1, <2>2, TakeFacts
  <2>5. /\ me.incoming \o Take(tx[cl], n) \in Seq(1 .. 2 * MaxReqs)
        /\ Len(me.incoming \o Take(tx[cl], n)) = Len(me.incoming) + n
    <3> DEFINE S == 1 .. 2 * MaxReqs
               t == Take(tx[cl], n)
               m == me.incoming
    <3>1. t \in Seq(S) /\ m \in Seq(S) /\ Len(t) = n
      BY <1>6, <2>3
    <3> HIDE DEF S, t, m
    <3>2. m \o t \in Seq(S) /\ Len(m \o t) = Len(m) + Len(t)
      BY <3>1, ConcatProperties
    <3>. QED
      BY <3>1, <3>2 DEF S, t, m
  <2>6. cn \in Conns
    BY <1>2, <2>5 DEF Conns
  <2>7. /\ cn.client = me.client /\ cn.outgoing = <<>> /\ cn.want_read /\ ~cn.want_write
        /\ ~cn.want_close /\ Len(cn.incoming) <= ReadMax + 1 /\ Len(cn.outgoing) = 0
    <3>1. /\ cn.client = me.client /\ cn.outgoing = me.outgoing /\ cn.want_read = me.want_read
          /\ cn.want_write = me.want_write /\ cn.want_close = me.want_close
          /\ cn.incoming = me.incoming \o Take(tx[cl], n)
      BY <1>2 DEF Conns
    <3>2. Len(me.incoming) + n <= ReadMax + 1
      BY <1>5, <1>6, <2>1, <2>2, ConstantsAssumption
    <3>. QED
      BY <1>3, <1>5, <2>5, <3>1, <3>2, EmptySeq
  <2>8. ClientTypes'
    <3>1. tx' = [tx EXCEPT ![cl] = Skip(tx[cl], n)]
      BY <1>7 DEF n
    <3>2. tx' \in [Clients -> Seq(1 .. 2 * MaxReqs)]
      BY <1>2, <2>3, <3>1 DEF ClientTypes
    <3>3. \A x \in Clients : tx'[x] \in Seq(1 .. sent[x])
      BY <1>2, <2>4, <3>1 DEF ClientTypes
    <3>. QED
      BY <1>1, <1>2, <3>2, <3>3 DEF ClientTypes
  <2>9. conn' = [conn EXCEPT ![fd] = cn]
    BY <1>7 DEF Update, n
  <2> HIDE DEF cn
  <2>10. Len(cn.outgoing) <= 2 * ((ReadMax + 1) \div 2)
    BY <2>7, ConstantsAssumption
  <2>11. /\ TypeOK' /\ EventInv' /\ BatchInv' /\ IdleInv' /\ OthersQuiet' /\ OutgoingBounded'
         /\ fd' = fd /\ me' = cn /\ interest'[fd] = interest[fd]
    BY <1>1, <1>2, <1>3, <1>4, <1>7, <2>6, <2>7, <2>8, <2>9, <2>10, UpdateFacts
  <2>12. Handled'
    <3>1. Reading(cn, interest'[fd])
      BY <1>5, <2>7, <2>11 DEF Reading
    <3>2. Len(cn.outgoing) % 2 = 0
      BY <2>7
    <3>3. Len(cn.outgoing) + Len(cn.incoming) <= ReadMax + 1
      BY <2>6, <2>7, ConnFields
    <3>. QED
      BY <1>7, <2>7, <2>11, <3>1, <3>2, <3>3 DEF Handled
  <2>. QED
    BY <2>11, <2>12 DEF IInv
<1>8. ASSUME Update([me EXCEPT !.want_close = TRUE]), pc' = AfterRead, UNCHANGED tx
      PROVE  IInv'
  <2> DEFINE cn == [me EXCEPT !.want_close = TRUE]
  <2>1. cn \in Conns /\ cn.client = me.client /\ cn.outgoing = me.outgoing /\ cn.want_close
    BY <1>2 DEF Conns
  <2>2. conn' = [conn EXCEPT ![fd] = cn]
    BY <1>8 DEF Update
  <2>3. ClientTypes'
    BY <1>1, <1>2, <1>8 DEF ClientTypes
  <2>4. pc' = "end"
    BY <1>2, <1>3, <1>8
  <2> HIDE DEF cn
  <2>5. /\ TypeOK' /\ EventInv' /\ BatchInv' /\ IdleInv' /\ OthersQuiet' /\ OutgoingBounded'
        /\ fd' = fd /\ me' = cn
    BY <1>1, <1>2, <1>4, <2>1, <2>2, <2>3, <2>4, MyOutgoing, UpdateFacts
  <2>6. Handled'
    BY <2>1, <2>4, <2>5 DEF Handled
  <2>. QED
    BY <2>5, <2>6 DEF IInv
<1>. QED
  BY <1>7, <1>8 DEF handle_read

LEMMA EvenBound ==
  ASSUME NEW n \in Nat, NEW m \in Nat, n % 2 = 0, n <= m
  PROVE  n <= 2 * (m \div 2)
OBVIOUS

(* The two units of a response come for the two of its request. *)
LEMMA ResponseFacts ==
  ASSUME IInv, Handling, me.incoming # <<>>
  PROVE  /\ Head(me.incoming) \in 1 .. 2 * MaxReqs /\ Nth \in 1 .. MaxReqs
         /\ Response \in Seq(1 .. MaxReqs) /\ Len(Response) = 2
         /\ Response[1] = Nth /\ Response[2] = Nth
         /\ Len(me.incoming) > 0 /\ Head(me.incoming) = me.incoming[1]
<1>1. me.incoming \in Seq(1 .. 2 * MaxReqs) /\ MaxReqs \in Nat
  BY MyFacts, ConnFields, ConstantsAssumption
<1>2. Head(me.incoming) \in 1 .. 2 * MaxReqs
  BY <1>1, HeadTailProperties
<1>3. Nth \in 1 .. MaxReqs
  BY <1>1, <1>2 DEF Nth
<1>4. Len(me.incoming) > 0 /\ Head(me.incoming) = me.incoming[1]
  BY <1>1, EmptySeq
<1>. QED
  BY <1>2, <1>3, <1>4 DEF Response

LEMMA TryProcessStep ==
  ASSUME IInv, try_process_one_request
  PROVE  IInv'
<1>1. pc = "parse" /\ Handling /\ UNCHANGED <<interest, idle_list, batch, ev, clientVars>>
  BY DEF try_process_one_request, Handling
<1>2. /\ fd \in Fds /\ me \in Conns /\ conn[fd] = me /\ cl \in Clients /\ up = "up"
      /\ interest[fd] \in SUBSET {"in", "out"} /\ ClientTypes /\ ConnTypes
  BY <1>1, MyFacts
<1>3. /\ Reading(me, interest[fd]) /\ ~me.want_close /\ Len(me.outgoing) % 2 = 0
      /\ Len(me.outgoing) + Len(me.incoming) <= ReadMax + 1
      /\ "in" \in ev.mask
  BY <1>1 DEF IInv, Handled, EventInv
<1>4. interest' = [interest EXCEPT ![fd] = interest[fd]] /\ ClientTypes'
  BY <1>1, <1>2 DEF ConnTypes, clientVars, ClientTypes
<1>5. /\ me.incoming \in Seq(1 .. 2 * MaxReqs) /\ me.outgoing \in Seq(1 .. MaxReqs)
      /\ Len(me.incoming) \in Nat /\ Len(me.outgoing) \in Nat
  BY <1>2, ConnFields
<1>6. me \in Conns /\ conn = [conn EXCEPT ![fd] = me] /\ Len(me.outgoing) <= 2 * ((ReadMax + 1) \div 2)
  BY <1>1, <1>2, MyOutgoing DEF ConnTypes
<1>7. CASE NeedMore /\ pc' = "intent" /\ UNCHANGED <<up, conn>>
  <2>1. Len(me.incoming) <= 1
    BY <1>5, <1>7, EmptySeq DEF NeedMore
  <2>2. /\ TypeOK' /\ EventInv' /\ BatchInv' /\ IdleInv' /\ OthersQuiet' /\ OutgoingBounded'
        /\ fd' = fd /\ me' = me /\ interest'[fd] = interest[fd]
    BY <1>1, <1>2, <1>3, <1>4, <1>6, <1>7, UpdateFacts
  <2>3. Handled'
    BY <1>3, <1>7, <2>1, <2>2 DEF Handled, AllParsed, Reading
  <2>. QED
    BY <2>2, <2>3 DEF IInv
<1>8. CASE up' = "aborted" /\ pc' = "dead" /\ UNCHANGED conn
  <2>1. /\ TypeOK' /\ EventInv' /\ BatchInv' /\ IdleInv' /\ OthersQuiet' /\ OutgoingBounded'
    BY <1>1, <1>2, <1>4, <1>6, <1>8, UpdateFacts
  <2>2. Handled'
    BY <1>8 DEF Handled
  <2>. QED
    BY <2>1, <2>2 DEF IInv
<1>9. CASE Update(Refused) /\ pc' = "intent" /\ UNCHANGED up
  <2> DEFINE cn == [me EXCEPT !.want_close = TRUE]
  <2>1. /\ cn \in Conns /\ cn.client = me.client /\ cn.outgoing = me.outgoing /\ cn.want_close
        /\ cn.want_read = me.want_read /\ cn.want_write = me.want_write
    BY <1>2 DEF Conns
  <2>2. conn' = [conn EXCEPT ![fd] = cn]
    BY <1>9 DEF Update, Refused
  <2> HIDE DEF cn
  <2>3. /\ TypeOK' /\ EventInv' /\ BatchInv' /\ IdleInv' /\ OthersQuiet' /\ OutgoingBounded'
        /\ fd' = fd /\ me' = cn /\ interest'[fd] = interest[fd]
    BY <1>1, <1>2, <1>3, <1>4, <1>6, <1>9, <2>1, <2>2, UpdateFacts
  <2>4. Handled'
    BY <1>3, <1>9, <2>1, <2>3 DEF Handled, AllParsed, Reading
  <2>. QED
    BY <2>3, <2>4 DEF IInv
<1>10. CASE /\ ~NeedMore /\ Kind = "ok" /\ UNCHANGED <<up, pc>>
            /\ Update([me EXCEPT !.outgoing = @ \o Response, !.incoming = Consumed])
  <2> DEFINE out == me.outgoing \o Response
             cn == [me EXCEPT !.outgoing = out, !.incoming = Consumed]
  <2>1. me.incoming # <<>> /\ Len(me.incoming) >= 2
    BY <1>5, <1>10 DEF NeedMore
  <2>2. Response \in Seq(1 .. MaxReqs) /\ Len(Response) = 2
    BY <1>1, <2>1, ResponseFacts
  <2>3. out \in Seq(1 .. MaxReqs) /\ Len(out) = Len(me.outgoing) + 2
    <3>1. me.outgoing \in Seq(1 .. MaxReqs)
      BY <1>5
    <3> HIDE DEF me, Response
    <3>. QED
      BY <2>2, <3>1, ConcatLen
  <2>4. Consumed \in Seq(1 .. 2 * MaxReqs) /\ Len(Consumed) = Len(me.incoming) - 2
    BY <1>5, <2>1, TakeFacts DEF Consumed
  <2>5. conn' = [conn EXCEPT ![fd] = cn]
    BY <1>10 DEF Update
  <2> HIDE DEF out
  <2>6. /\ cn \in Conns /\ cn.client = me.client /\ cn.outgoing = out /\ cn.incoming = Consumed
        /\ cn.want_read = me.want_read /\ cn.want_write = me.want_write
        /\ cn.want_close = me.want_close
    BY <1>2, <2>3, <2>4 DEF Conns
  <2> HIDE DEF cn
  <2>7. /\ Len(cn.outgoing) % 2 = 0 /\ Len(cn.outgoing) \in Nat
        /\ Len(cn.outgoing) + Len(cn.incoming) <= ReadMax + 1
        /\ Len(cn.outgoing) <= ReadMax + 1
    <3> DEFINE a == Len(me.outgoing)
               b == Len(me.incoming)
    <3>1. /\ a \in Nat /\ b \in Nat /\ a % 2 = 0 /\ a + b <= ReadMax + 1 /\ b >= 2
          /\ ReadMax \in Nat /\ Len(cn.outgoing) = a + 2 /\ Len(cn.incoming) = b - 2
      BY <1>3, <1>5, <2>1, <2>3, <2>4, <2>6, ConstantsAssumption
    <3> HIDE DEF a, b
    <3>. QED
      BY <3>1
  <2>8. Len(cn.outgoing) <= 2 * ((ReadMax + 1) \div 2)
    <3> DEFINE k == Len(cn.outgoing)
               m == ReadMax + 1
    <3>0. m \in Nat
      BY ConstantsAssumption
    <3>1. k \in Nat /\ m \in Nat /\ k % 2 = 0 /\ k <= m
      BY <2>7, <3>0
    <3> HIDE DEF k, m
    <3>2. k <= 2 * (m \div 2)
      BY <3>1, EvenBound
    <3>. QED
      BY <3>2 DEF k, m
  <2>9. /\ TypeOK' /\ EventInv' /\ BatchInv' /\ IdleInv' /\ OthersQuiet' /\ OutgoingBounded'
        /\ fd' = fd /\ me' = cn /\ interest'[fd] = interest[fd]
    BY <1>1, <1>2, <1>3, <1>4, <1>10, <2>5, <2>6, <2>8, UpdateFacts
  <2>10. Reading(cn, interest'[fd])
    BY <1>3, <2>6, <2>9 DEF Reading
  <2>11. Handled'
    BY <1>1, <1>3, <1>10, <2>6, <2>7, <2>9, <2>10 DEF Handled
  <2>. QED
    BY <2>9, <2>11 DEF IInv
<1>. QED
  BY <1>7, <1>8, <1>9, <1>10 DEF try_process_one_request

LEMMA UpdateIntentionStep ==
  ASSUME IInv, update_intention
  PROVE  IInv'
<1>1. pc = "intent" /\ Handling /\ UNCHANGED <<up, idle_list, batch, ev, clientVars>>
  BY DEF update_intention, Handling
<1>2. /\ fd \in Fds /\ me \in Conns /\ conn[fd] = me /\ cl \in Clients /\ up = "up"
      /\ interest[fd] \in SUBSET {"in", "out"} /\ ClientTypes /\ ConnTypes
      /\ "in" \in ev.mask => AfterRead = "end"
  BY <1>1, MyFacts
<1>3. Reading(me, interest[fd]) /\ AllParsed(me) /\ "in" \in ev.mask
  BY <1>1 DEF IInv, Handled, EventInv
<1>4. ClientTypes' /\ Len(me.outgoing) <= 2 * ((ReadMax + 1) \div 2)
  BY <1>1, <1>2, MyOutgoing DEF clientVars, ClientTypes
<1>5. CASE /\ me.outgoing # <<>> /\ pc' = "flush" /\ UNCHANGED interest
           /\ Update([me EXCEPT !.want_read = FALSE, !.want_write = TRUE])
  <2> DEFINE cn == [me EXCEPT !.want_read = FALSE, !.want_write = TRUE]
  <2>1. /\ cn \in Conns /\ cn.client = me.client /\ cn.outgoing = me.outgoing
        /\ cn.incoming = me.incoming /\ cn.want_close = me.want_close
        /\ ~cn.want_read /\ cn.want_write
    BY <1>2 DEF Conns
  <2>2. conn' = [conn EXCEPT ![fd] = cn] /\ interest' = [interest EXCEPT ![fd] = interest[fd]]
    BY <1>2, <1>5 DEF Update, ConnTypes
  <2> HIDE DEF cn
  <2>3. /\ TypeOK' /\ EventInv' /\ BatchInv' /\ IdleInv' /\ OthersQuiet' /\ OutgoingBounded'
        /\ fd' = fd /\ me' = cn
    BY <1>1, <1>2, <1>3, <1>4, <1>5, <2>1, <2>2, UpdateFacts
  <2>4. Handled'
    BY <1>3, <1>5, <2>1, <2>3 DEF Handled, AllParsed
  <2>. QED
    BY <2>3, <2>4 DEF IInv
<1>6. CASE me.outgoing = <<>> /\ Rearm(me) /\ pc' = AfterRead /\ UNCHANGED conn
  <2>1. /\ conn' = [conn EXCEPT ![fd] = me] /\ interest' = [interest EXCEPT ![fd] = Flags(me)]
        /\ pc' = "end" /\ Flags(me) \in SUBSET {"in", "out"}
    BY <1>2, <1>3, <1>6, FlagsFacts DEF Rearm, ConnTypes
  <2>2. /\ TypeOK' /\ EventInv' /\ BatchInv' /\ IdleInv' /\ OthersQuiet' /\ OutgoingBounded'
        /\ fd' = fd /\ me' = me /\ interest'[fd] = Flags(me)
    BY <1>1, <1>2, <1>4, <2>1, UpdateFacts
  <2>3. me.want_close \/ Quiet(me, Flags(me))
    BY <1>2, <1>3, <1>6, ConnFields DEF Reading, AllParsed, Quiet
  <2>4. Handled'
    BY <2>1, <2>2, <2>3 DEF Handled
  <2>. QED
    BY <2>2, <2>4 DEF IInv
<1>. QED
  BY <1>5, <1>6 DEF update_intention

(* What a write() of n units leaves of the connection *)
LEMMA WrittenFacts ==
  ASSUME NEW cn \in Conns, NEW n \in 1 .. Len(cn.outgoing),
         cn = me
  PROVE  /\ Written(n) \in Conns /\ Written(n).client = cn.client
         /\ Written(n).outgoing = Skip(cn.outgoing, n)
         /\ Written(n).incoming = cn.incoming
         /\ Written(n).want_close = cn.want_close
         /\ Len(Written(n).outgoing) = Len(cn.outgoing) - n
         /\ IF Written(n).outgoing = <<>> THEN ~Written(n).want_write /\ Written(n).want_read
            ELSE /\ Written(n).want_write = cn.want_write
                 /\ Written(n).want_read = cn.want_read
<1> DEFINE rest == Skip(cn.outgoing, n)
<1>1. cn.outgoing \in Seq(1 .. MaxReqs) /\ Len(cn.outgoing) \in Nat
  BY ConnFields
<1>2. rest \in Seq(1 .. MaxReqs) /\ Len(rest) = Len(cn.outgoing) - n
  <2> DEFINE o == cn.outgoing
  <2>1. o \in Seq(1 .. MaxReqs) /\ n \in 0 .. Len(o)
    BY <1>1
  <2> HIDE DEF o
  <2>2. Skip(o, n) \in Seq(1 .. MaxReqs) /\ Len(Skip(o, n)) = Len(o) - n
    BY <2>1, TakeFacts
  <2>. QED
    BY <2>2 DEF o
<1>3. Written(n) = IF rest = <<>>
                   THEN [cn EXCEPT !.outgoing = rest, !.want_write = FALSE, !.want_read = TRUE]
                   ELSE [cn EXCEPT !.outgoing = rest]
  BY DEF Written
<1> HIDE DEF rest
<1>4. CASE rest = <<>>
  <2> DEFINE w == [cn EXCEPT !.outgoing = rest, !.want_write = FALSE, !.want_read = TRUE]
  <2>1. /\ w \in Conns /\ w.client = cn.client /\ w.outgoing = rest /\ w.incoming = cn.incoming
        /\ w.want_close = cn.want_close /\ ~w.want_write /\ w.want_read
    BY <1>2 DEF Conns
  <2>2. Written(n) = w
    BY <1>3, <1>4
  <2> HIDE DEF w
  <2>. QED
    BY <1>2, <1>4, <2>1, <2>2 DEF rest
<1>5. CASE rest # <<>>
  <2> DEFINE w == [cn EXCEPT !.outgoing = rest]
  <2>1. /\ w \in Conns /\ w.client = cn.client /\ w.outgoing = rest /\ w.incoming = cn.incoming
        /\ w.want_close = cn.want_close /\ w.want_write = cn.want_write
        /\ w.want_read = cn.want_read
    BY <1>2 DEF Conns
  <2>2. Written(n) = w
    BY <1>3, <1>5
  <2> HIDE DEF w
  <2>. QED
    BY <1>2, <1>5, <2>1, <2>2 DEF rest
<1>. QED
  BY <1>4, <1>5

LEMMA HandleWriteStep ==
  ASSUME IInv, handle_write
  PROVE  IInv'
<1>1. /\ pc \in {"flush", "out"} /\ Handling
      /\ UNCHANGED <<idle_list, batch, ev, script, peer, backlog, sent, tx, got>>
  BY DEF handle_write, Handling
<1>2. /\ fd \in Fds /\ me \in Conns /\ conn[fd] = me /\ cl \in Clients /\ up = "up"
      /\ interest[fd] \in SUBSET {"in", "out"} /\ ClientTypes /\ ConnTypes
      /\ pc = "flush" => AfterRead = "end"
  BY <1>1, MyFacts DEF IInv, EventInv
<1>3. /\ ~me.want_read /\ me.want_write /\ me.outgoing # <<>>
      /\ me.want_close \/ Len(me.incoming) <= 1
  BY <1>1, <1>2, ConnFields DEF IInv, Handled, Quiet, AllParsed
<1>4. /\ me.outgoing \in Seq(1 .. MaxReqs) /\ Len(me.outgoing) \in Nat \ {0}
      /\ Len(me.outgoing) <= 2 * ((ReadMax + 1) \div 2)
  BY <1>1, <1>2, <1>3, ConnFields, EmptySeq, MyOutgoing
<1>5. /\ rx[cl] \in Seq(1 .. MaxReqs) /\ Len(rx[cl]) \in Nat /\ Len(rx[cl]) <= RxCap
      /\ RxCap \in Nat
  BY <1>2, LenProperties, ConstantsAssumption DEF ClientTypes
<1>6. conn = [conn EXCEPT ![fd] = me] /\ interest = [interest EXCEPT ![fd] = interest[fd]]
  BY <1>2 DEF ConnTypes
<1>7. ASSUME NEW cn \in Conns, cn.client = me.client,
             Len(cn.outgoing) <= Len(me.outgoing),
             conn' = [conn EXCEPT ![fd] = cn],
             \/ cn.want_close /\ interest' = interest
             \/ /\ interest' = [interest EXCEPT ![fd] = Flags(cn)]
                /\ cn.want_close \/ Quiet(cn, Flags(cn)),
             pc' = "end", up' = up, ClientTypes'
      PROVE  IInv'
  <2>1. PICK i \in SUBSET {"in", "out"} :
          /\ interest' = [interest EXCEPT ![fd] = i]
          /\ cn.want_close \/ Quiet(cn, i)
    BY <1>2, <1>6, <1>7, FlagsFacts
  <2>2. Len(cn.outgoing) <= 2 * ((ReadMax + 1) \div 2)
    BY <1>4, <1>7, ConnFields, ConstantsAssumption
  <2>3. /\ TypeOK' /\ EventInv' /\ BatchInv' /\ IdleInv' /\ OthersQuiet' /\ OutgoingBounded'
        /\ fd' = fd /\ me' = cn /\ interest'[fd] = i
    BY <1>1, <1>2, <1>7, <2>1, <2>2, UpdateFacts
  <2>4. Handled'
    BY <1>7, <2>1, <2>3 DEF Handled
  <2>. QED
    BY <2>3, <2>4 DEF IInv
<1>8. pc' = (IF pc = "flush" THEN AfterRead ELSE "end") => pc' = "end"
  BY <1>2
<1>9. ASSUME ~Gone(cl), Space(cl) > 0,
             Update(Written(Lesser(Len(me.outgoing), Space(cl)))),
             Rearm(Written(Lesser(Len(me.outgoing), Space(cl)))),
             rx' = [rx EXCEPT ![cl] = @ \o Take(me.outgoing, Lesser(Len(me.outgoing), Space(cl)))],
             pc' = IF pc = "flush" THEN AfterRead ELSE "end", UNCHANGED up
      PROVE  IInv'
  <2> DEFINE n == Lesser(Len(me.outgoing), Space(cl))
             cn == Written(n)
             t == Take(me.outgoing, n)
  <2>1. n \in 1 .. Len(me.outgoing) /\ n <= RxCap - Len(rx[cl])
    <3> DEFINE k == Len(me.outgoing)
               r == Len(rx[cl])
    <3>1. k \in Nat \ {0} /\ r \in Nat /\ RxCap \in Nat /\ RxCap - r > 0
          /\ n = IF k <= RxCap - r THEN k ELSE RxCap - r
      BY <1>4, <1>5, <1>9 DEF Lesser, Space
    <3> HIDE DEF k, r, n
    <3>2. n \in 1 .. k /\ n <= RxCap - r
      BY <3>1
    <3>. QED
      BY <3>2 DEF k, r
  <2>2. /\ conn' = [conn EXCEPT ![fd] = cn] /\ interest' = [interest EXCEPT ![fd] = Flags(cn)]
        /\ rx' = [rx EXCEPT ![cl] = rx[cl] \o t]
    BY <1>9 DEF Update, Rearm
  <2> HIDE DEF n
  <2>3. /\ cn \in Conns /\ cn.client = me.client
        /\ cn.incoming = me.incoming
        /\ cn.want_close = me.want_close
        /\ Len(cn.outgoing) = Len(me.outgoing) - n
        /\ IF cn.outgoing = <<>> THEN ~cn.want_write /\ cn.want_read
           ELSE cn.want_write = me.want_write /\ cn.want_read = me.want_read
    BY <1>2, <2>1, WrittenFacts
  <2>4. t \in Seq(1 .. MaxReqs) /\ Len(t) = n
    BY <1>4, <2>1, TakeFacts
  <2> HIDE DEF cn, t
  <2>5. rx[cl] \o t \in Seq(1 .. MaxReqs) /\ Len(rx[cl] \o t) <= RxCap
    <3> DEFINE r == rx[cl]
    <3>1. r \in Seq(1 .. MaxReqs) /\ Len(r) \in Nat
      BY <1>5
    <3> HIDE DEF r
    <3>2. r \o t \in Seq(1 .. MaxReqs) /\ Len(r \o t) = Len(r) + Len(t)
      BY <2>4, <3>1, ConcatProperties
    <3>. QED
      BY <1>5, <2>1, <2>4, <3>1, <3>2 DEF r
  <2>6. ClientTypes'
    <3>1. rx' \in [Clients -> Seq(1 .. MaxReqs)]
      BY <1>2, <2>2, <2>5 DEF ClientTypes
    <3>2. \A x \in Clients : Len(rx'[x]) <= RxCap
      BY <1>2, <2>2, <2>5 DEF ClientTypes
    <3>. QED
      BY <1>1, <1>2, <3>1, <3>2 DEF ClientTypes
  <2>7. cn.want_close \/ Quiet(cn, Flags(cn))
    BY <1>3, <2>3 DEF Quiet
  <2>8. Len(cn.outgoing) <= Len(me.outgoing)
    BY <1>4, <2>1, <2>3
  <2>. QED
    BY <1>7, <1>8, <1>9, <2>2, <2>3, <2>6, <2>7, <2>8
<1>10. ASSUME Rearm(me), pc' = IF pc = "flush" THEN AfterRead ELSE "end",
              UNCHANGED <<up, conn, rx>>
       PROVE  IInv'
  <2>1. me.want_close \/ Quiet(me, Flags(me))
    BY <1>2, <1>3, ConnFields DEF Quiet
  <2>2. ClientTypes'
    BY <1>1, <1>2, <1>10 DEF ClientTypes
  <2>3. interest' = [interest EXCEPT ![fd] = Flags(me)]
    BY <1>10 DEF Rearm
  <2>4. conn' = [conn EXCEPT ![fd] = me] /\ Len(me.outgoing) <= Len(me.outgoing)
    BY <1>4, <1>6, <1>10
  <2>. QED
    BY <1>2, <1>7, <1>8, <1>10, <2>1, <2>2, <2>3, <2>4
<1>11. ASSUME Update([me EXCEPT !.want_close = TRUE]),
              pc' = IF pc = "flush" THEN AfterRead ELSE "end",
              UNCHANGED <<up, interest, rx>>
       PROVE  IInv'
  <2> DEFINE cn == [me EXCEPT !.want_close = TRUE]
  <2>1. /\ cn \in Conns /\ cn.client = me.client /\ cn.outgoing = me.outgoing /\ cn.want_close
        /\ conn' = [conn EXCEPT ![fd] = cn]
    BY <1>2, <1>11 DEF Conns, Update
  <2>2. ClientTypes'
    BY <1>1, <1>2, <1>11 DEF ClientTypes
  <2> HIDE DEF cn
  <2>3. Len(cn.outgoing) <= Len(me.outgoing)
    BY <1>4, <2>1
  <2>. QED
    BY <1>7, <1>8, <1>11, <2>1, <2>2, <2>3
<1>12. ASSUME up' = "killed", pc' = "dead", UNCHANGED <<conn, interest, rx>>
       PROVE  IInv'
  <2>1. ClientTypes'
    BY <1>1, <1>2, <1>12 DEF ClientTypes
  <2>2. conn' = [conn EXCEPT ![fd] = me] /\ interest' = [interest EXCEPT ![fd] = interest[fd]]
    BY <1>6, <1>12
  <2>3. TypeOK' /\ EventInv' /\ BatchInv' /\ IdleInv' /\ OthersQuiet' /\ OutgoingBounded'
    BY <1>1, <1>2, <1>4, <1>12, <2>1, <2>2, UpdateFacts
  <2>4. Handled'
    BY <1>12 DEF Handled
  <2>. QED
    BY <2>3, <2>4 DEF IInv
<1>. QED
  BY <1>9, <1>10, <1>11, <1>12 DEF handle_write

-----------------------------------------------------------------------------
LEMMA InitIInv == Init => IInv
<1> SUFFICES ASSUME Init PROVE IInv
  OBVIOUS
<1>1. /\ up = "up" /\ conn = [f \in Fds |-> None] /\ interest = [f \in Fds |-> None]
      /\ idle_list = <<>> /\ pc = "wait" /\ batch = {} /\ ev = None
      /\ \A f \in Fds : conn[f] = None /\ interest[f] = None
  BY DEF Init
<1>2. ~InEvent /\ ~Handling
  BY <1>1 DEF InEvent, Handling
<1>3. ClientTypes
  <2>1. /\ MaxReqs \in Nat /\ RxCap \in Nat
        /\ <<>> \in Seq(1 .. 2 * MaxReqs) /\ <<>> \in Seq(1 .. MaxReqs) /\ <<>> \in Seq(Clients)
        /\ \A x \in Clients : <<>> \in Seq(1 .. sent[x])
        /\ Len(<<>>) = 0
    BY EmptySeq, ConstantsAssumption
  <2>2. sent \in [Clients -> 0 .. 2 * MaxReqs]
    BY <2>1 DEF Init
  <2>. QED
    BY <2>1, <2>2 DEF Init, ClientTypes
<1>4. TypeOK
  <2>1. ConnTypes
    BY <1>1 DEF ConnTypes
  <2>2. LoopTypes
    BY <1>1, EmptySeq DEF LoopTypes
  <2>. QED
    BY <1>2, <1>3, <2>1, <2>2, TypeParts
<1>5. EventInv /\ BatchInv
  BY <1>1, <1>2 DEF EventInv, BatchInv
<1>6. IdleInv
  BY <1>1 DEF IdleInv, FreeFds, Members, NoneTwice
<1>7. OthersQuiet /\ Handled /\ OutgoingBounded
  BY <1>1 DEF OthersQuiet, Handled, OutgoingBounded
<1>. QED
  BY <1>4, <1>5, <1>6, <1>7 DEF IInv

LEMMA StepIInv == IInv /\ [Next]_vars => IInv'
<1> SUFFICES ASSUME IInv, [Next]_vars PROVE IInv'
  OBVIOUS
<1>1. CASE UNCHANGED vars
  <2>1. UNCHANGED serverVars /\ ClientTypes'
    BY <1>1, TypeParts DEF IInv, vars, clientVars, ClientTypes
  <2>. QED
    BY <2>1, SameServer
<1>2. CASE \E c \in Clients : ClientStep(c) \/ Receive(c)
  BY <1>2, ClientsStep
<1>3. CASE ServerStep \/ CloseIdle
  BY <1>3, EpollWaitStep, AcceptEventStep, ConnEventStep, HandleAcceptStep, HandleReadStep,
     TryProcessStep, UpdateIntentionStep, HandleWriteStep, EventDoneStep, CloseIdleStep
  DEF ServerStep
<1>. QED
  BY <1>1, <1>2, <1>3 DEF Next

(* Every variable keeps its type, and no handler runs for a connection     *)
(* that conn_destroy() has deleted.                                        *)
THEOREM TypeCorrect == Spec => []TypeOK
<1>1. IInv => TypeOK
  BY DEF IInv
<1>. QED
  BY <1>1, InitIInv, StepIInv, PTL DEF Spec

(* Whenever the loop waits, epoll has the flags of every connection, each  *)
(* waits for exactly one direction, for writing when outgoing is not empty *)
(* (no response is forgotten), and none is left that should be closed.     *)
THEOREM InterestInSyncCorrect == Spec => []InterestInSync
<1>1. IInv => InterestInSync
  BY DEF IInv, OthersQuiet, InEvent, Handling, Quiet, InterestInSync
<1>. QED
  BY <1>1, InitIInv, StepIInv, PTL DEF Spec

(* No assert() of main() or handle_write() fails. *)
THEOREM AssertsHoldCorrect == Spec => []AssertsHold
<1>1. IInv => AssertsHold
  <2> SUFFICES ASSUME IInv PROVE AssertsHold
    OBVIOUS
  <2>1. pc = "out" => me.outgoing # <<>>
    BY DEF IInv, Handled, Quiet
  <2>. QED
    BY <2>1 DEF IInv, Handled, AssertsHold
<1>. QED
  BY <1>1, InitIInv, StepIInv, PTL DEF Spec

(* The idle list has every open connection once and no other. *)
THEOREM IdleListIsConnsCorrect == Spec => []IdleListIsConns
<1>1. IInv => IdleListIsConns
  <2> SUFFICES ASSUME IInv PROVE IdleListIsConns
    OBVIOUS
  <2>1. idle_list \in Seq(Fds) /\ NoneTwice(idle_list) /\ Members(idle_list) = Fds \ FreeFds
    BY DEF IInv, TypeOK, IdleInv
  <2>2. Cardinality(Members(idle_list)) = Len(idle_list)
    BY <2>1, LenIsCardinality
  <2>. QED
    BY <2>1, <2>2 DEF IdleListIsConns
<1>. QED
  BY <1>1, InitIInv, StepIInv, PTL DEF Spec

(* An event is never taken for one of the connection that has got the      *)
(* descriptor of its own.                                                  *)
THEOREM EventForItsConnCorrect == Spec => []EventForItsConn
<1>1. IInv => EventForItsConn
  <2> SUFFICES ASSUME IInv PROVE EventForItsConn
    OBVIOUS
  <2>1. \A e \in batch : e.fd # Listen => conn[e.fd].client = e.client
    BY DEF IInv, BatchInv
  <2>2. ev # None => conn[ev.fd].client = ev.client
    BY DEF IInv, EventInv
  <2>. QED
    BY <2>1, <2>2 DEF EventForItsConn
<1>. QED
  BY <1>1, InitIInv, StepIInv, PTL DEF Spec

(* However much a client sends and however little it reads, outgoing never *)
(* holds more than the responses to one read().                            *)
THEOREM OutgoingBoundedCorrect == Spec => []OutgoingBounded
<1>1. IInv => OutgoingBounded
  BY DEF IInv
<1>. QED
  BY <1>1, InitIInv, StepIInv, PTL DEF Spec

-----------------------------------------------------------------------------
(* The streams of a client *)
LEMMA TakeSkip ==
  ASSUME NEW S, NEW s \in Seq(S), NEW n \in 0 .. Len(s)
  PROVE  Take(s, n) \o Skip(s, n) = s
<1>1. Len(s) \in Nat
  BY LenProperties
<1>2. 1 \in 1 .. Len(s) + 1 /\ n \in 1 - 1 .. Len(s) /\ Len(s) \in n .. Len(s)
  BY <1>1
<1>3. SubSeq(s, 1, n) \o SubSeq(s, n + 1, Len(s)) = SubSeq(s, 1, Len(s))
  BY <1>2, ConcatAdjacentSubSeq
<1>4. SubSeq(s, 1, Len(s)) = s
  BY SubSeqFull
<1>. QED
  BY <1>3, <1>4 DEF Take, Skip

(* Received(1), written and read units stay in place. *)
LEMMA ReceiveSame ==
  ASSUME NEW S, NEW g \in Seq(S), NEW r \in Seq(S), r # <<>>
  PROVE  Append(g, Head(r)) \o Tail(r) = g \o r
<1> DEFINE h == Head(r)
           t == Tail(r)
           a == Append(g, h)
<1>1. /\ h \in S /\ t \in Seq(S) /\ h = r[1] /\ Len(t) = Len(r) - 1 /\ Len(r) \in Nat /\ Len(g) \in Nat
      /\ \A i \in 1 .. Len(t) : t[i] = r[i + 1]
  BY HeadTailProperties, LenProperties
<1> HIDE DEF h, t
<1>2. /\ a \in Seq(S) /\ Len(a) = Len(g) + 1 /\ a[Len(g) + 1] = h
      /\ \A i \in 1 .. Len(g) : a[i] = g[i]
  BY <1>1, AppendProperties
<1> HIDE DEF a
<1>3. /\ a \o t \in Seq(S) /\ Len(a \o t) = Len(a) + Len(t)
      /\ \A i \in 1 .. Len(a) + Len(t) : (a \o t)[i] = IF i <= Len(a) THEN a[i] ELSE t[i - Len(a)]
  BY <1>1, <1>2, ConcatProperties
<1>4. /\ g \o r \in Seq(S) /\ Len(g \o r) = Len(g) + Len(r)
      /\ \A i \in 1 .. Len(g) + Len(r) : (g \o r)[i] = IF i <= Len(g) THEN g[i] ELSE r[i - Len(g)]
  BY <1>1, ConcatProperties
<1> DEFINE u == a \o t
           v == g \o r
<1>5. Len(u) = Len(v) /\ u \in Seq(S) /\ v \in Seq(S)
  BY <1>1, <1>2, <1>3, <1>4
<1>6. ASSUME NEW i \in 1 .. Len(u)
      PROVE  u[i] = v[i]
  <2>1. CASE i <= Len(g)
    BY <1>1, <1>2, <1>3, <1>4, <2>1
  <2>2. CASE i = Len(g) + 1
    BY <1>1, <1>2, <1>3, <1>4, <2>2
  <2>3. CASE i > Len(g) + 1
    <3>1. /\ i - Len(a) \in 1 .. Len(t) /\ ~(i <= Len(a)) /\ ~(i <= Len(g))
          /\ i - Len(a) + 1 = i - Len(g) /\ i \in 1 .. Len(a) + Len(t) /\ i \in 1 .. Len(g) + Len(r)
      BY <1>1, <1>2, <1>3, <2>3
    <3>2. u[i] = t[i - Len(a)] /\ v[i] = r[i - Len(g)]
      BY <1>3, <1>4, <3>1
    <3>. QED
      BY <1>1, <3>1, <3>2
  <2>. QED
    BY <1>1, <1>2, <1>3, <2>1, <2>2, <2>3
<1> HIDE DEF u, v
<1>7. u = v
  BY <1>5, <1>6, SeqEqual
<1>. QED
  BY <1>7 DEF u, v, a, h, t

LEMMA WriteSame ==
  ASSUME NEW S, NEW g \in Seq(S), NEW r \in Seq(S), NEW o \in Seq(S), NEW n \in 0 .. Len(o)
  PROVE  g \o (r \o Take(o, n)) \o Skip(o, n) = g \o r \o o
<1> DEFINE t == Take(o, n)
           k == Skip(o, n)
           v == g \o r
<1>1. t \in Seq(S) /\ k \in Seq(S)
  BY TakeFacts
<1>2. t \o k = o
  BY TakeSkip
<1> HIDE DEF t, k
<1>3. v \in Seq(S)
  BY ConcatProperties
<1>4. g \o (r \o t) = (g \o r) \o t
  <2>1. (g \o r) \o t = g \o (r \o t)
    BY <1>1, ConcatAssociative, SMTT(30)
  <2>. QED
    BY <2>1
<1> HIDE DEF v
<1>5. (v \o t) \o k = v \o (t \o k)
  BY ONLY <1>1, <1>3, ConcatAssociative, SMTT(30)
<1>6. g \o (r \o t) \o k = v \o o
  BY <1>2, <1>4, <1>5 DEF v
<1>. QED
  BY <1>6 DEF v, t, k

LEMMA ReadSame ==
  ASSUME NEW S, NEW i \in Seq(S), NEW t \in Seq(S), NEW n \in 0 .. Len(t)
  PROVE  (i \o Take(t, n)) \o Skip(t, n) = i \o t
<1> DEFINE a == Take(t, n)
           b == Skip(t, n)
<1>1. a \in Seq(S) /\ b \in Seq(S)
  BY TakeFacts
<1>2. a \o b = t
  BY TakeSkip
<1> HIDE DEF a, b
<1>3. (i \o a) \o b = i \o (a \o b)
  BY <1>1, ConcatAssociative, SMTT(30)
<1>. QED
  BY <1>2, <1>3 DEF a, b

LEMMA SentAtEnd ==
  ASSUME NEW S, NEW i \in Seq(S), NEW t \in Seq(S), NEW x \in S
  PROVE  i \o Append(t, x) = Append(i \o t, x)
<1>1. <<x>> \in Seq(S) /\ i \o t \in Seq(S)
  BY ConcatProperties
<1>2. Append(t, x) = t \o <<x>>
  BY AppendIsConcat
<1> DEFINE y == <<x>>
           it == i \o t
<1>3. i \o (t \o y) = it \o y
  <2> HIDE DEF y
  <2>. QED
    BY <1>1, ConcatAssociative, SMTT(30) DEF y
<1> HIDE DEF it
<1>4. Append(it, x) = it \o <<x>>
  BY <1>1, AppendIsConcat DEF it
<1>. QED
  BY <1>2, <1>3, <1>4 DEF it, y

(* Each of the steps of a stream *)
LEMMA StreamSend ==
  ASSUME NEW out \in Seq(Nat), NEW in \in Seq(Nat), NEW n \in Nat, Stream(out, in, n)
  PROVE  Stream(out, Append(in, n + 1), n + 1)
<1> DEFINE d == Len(out) \div 2
           a == Append(in, n + 1)
<1>1. Len(out) \in Nat /\ Len(in) \in Nat /\ d \in Nat
  BY LenProperties
<1>2. /\ Len(out) = 2 * d /\ Len(in) = n - 2 * d
      /\ \A k \in 1 .. Len(out) : out[k] = (k + 1) \div 2
      /\ \A k \in 1 .. Len(in) : in[k] = 2 * d + k
  BY DEF Stream
<1>3. /\ Len(a) = Len(in) + 1 /\ a[Len(in) + 1] = n + 1
      /\ \A k \in 1 .. Len(in) : a[k] = in[k]
  BY AppendProperties
<1> HIDE DEF a, d
<1>4. ASSUME NEW k \in 1 .. Len(a)
      PROVE  a[k] = 2 * d + k
  <2>1. CASE k = Len(in) + 1
    BY <1>1, <1>2, <1>3, <2>1
  <2>2. CASE k \in 1 .. Len(in)
    BY <1>1, <1>2, <1>3, <2>2
  <2>. QED
    BY <1>1, <1>3, <2>1, <2>2
<1>5. Len(a) = n + 1 - 2 * d
  BY <1>1, <1>2, <1>3
<1>. QED
  BY <1>2, <1>4, <1>5 DEF Stream, a, d

LEMMA StreamAnswer ==
  ASSUME NEW out \in Seq(Nat), NEW in \in Seq(Nat), NEW n \in Nat, Stream(out, in, n),
         Len(in) >= 2, NEW R \in Seq(Nat), Len(R) = 2,
         R[1] = (in[1] + 1) \div 2, R[2] = (in[1] + 1) \div 2
  PROVE  Stream(out \o R, Skip(in, 2), n)
<1> DEFINE d == Len(out) \div 2
           o == out \o R
           i == Skip(in, 2)
<1>1. Len(out) \in Nat /\ Len(in) \in Nat /\ d \in Nat
  BY LenProperties
<1>2. /\ Len(out) = 2 * d /\ Len(in) = n - 2 * d
      /\ \A k \in 1 .. Len(out) : out[k] = (k + 1) \div 2
      /\ \A k \in 1 .. Len(in) : in[k] = 2 * d + k
  BY DEF Stream
<1>3. /\ Len(o) = Len(out) + Len(R)
      /\ \A k \in 1 .. Len(out) : o[k] = out[k]
      /\ \A k \in 1 .. Len(R) : o[Len(out) + k] = R[k]
  <2>1. out \in Seq(Nat) /\ R \in Seq(Nat)
    OBVIOUS
  <2>2. /\ Len(out \o R) = Len(out) + Len(R)
        /\ \A k \in 1 .. Len(out) : (out \o R)[k] = out[k]
        /\ \A k \in 1 .. Len(R) : (out \o R)[Len(out) + k] = R[k]
    BY ONLY <2>1, ConcatLen
  <2>. QED
    BY <2>2
<1>4. Len(i) = Len(in) - 2 /\ \A k \in 1 .. Len(in) - 2 : i[k] = in[2 + k]
  BY <1>1, TakeFacts
<1> HIDE DEF o, i, d
<1>5. in[1] = 2 * d + 1
  BY <1>1, <1>2
<1>6. R[1] = d + 1 /\ R[2] = d + 1
  BY <1>1, <1>5
<1>7. Len(o) = 2 * (d + 1) /\ Len(o) \div 2 = d + 1
  BY <1>1, <1>2, <1>3
<1>8. o[2 * d + 1] = d + 1 /\ o[2 * d + 2] = d + 1
  BY <1>2, <1>3, <1>6
<1>9. ASSUME NEW k \in 1 .. Len(o)
      PROVE  o[k] = (k + 1) \div 2
  <2>1. CASE k \in 1 .. Len(out)
    BY <1>2, <1>3, <2>1
  <2>2. CASE k = 2 * d + 1
    <3>1. (2 * d + 1 + 1) \div 2 = d + 1
      BY <1>1
    <3>. QED
      BY <1>8, <2>2, <3>1
  <2>3. CASE k = 2 * d + 2
    <3>1. (2 * d + 2 + 1) \div 2 = d + 1
      BY <1>1
    <3>. QED
      BY <1>8, <2>3, <3>1
  <2>4. k \in 1 .. Len(out) \/ k = 2 * d + 1 \/ k = 2 * d + 2
    BY <1>1, <1>2, <1>7
  <2>. QED
    BY <2>1, <2>2, <2>3, <2>4
<1>10. \A k \in 1 .. Len(i) : i[k] = 2 * (d + 1) + k
  BY <1>1, <1>2, <1>4
<1>11. Len(i) = n - 2 * (d + 1)
  BY <1>1, <1>2, <1>4
<1>12. Stream(o, i, n)
  BY <1>7, <1>9, <1>10, <1>11 DEF Stream
<1>. QED
  BY <1>12 DEF o, i

LEMMA SkipFirst ==
  ASSUME NEW S, NEW i \in Seq(S), NEW t \in Seq(S), NEW n \in 0 .. Len(i)
  PROVE  Skip(i, n) \o t = Skip(i \o t, n)
<1> DEFINE k == Skip(i, n)
           w == i \o t
           u == k \o t
           v == Skip(w, n)
<1>1. /\ k \in Seq(S) /\ Len(k) = Len(i) - n /\ Len(i) \in Nat /\ Len(t) \in Nat
      /\ \A p \in 1 .. Len(i) - n : k[p] = i[n + p]
  BY TakeFacts, LenProperties
<1>2. /\ w \in Seq(S) /\ Len(w) = Len(i) + Len(t)
      /\ \A p \in 1 .. Len(i) : w[p] = i[p]
      /\ \A p \in 1 .. Len(t) : w[Len(i) + p] = t[p]
  BY ConcatLen
<1> HIDE DEF k, w
<1>3. /\ u \in Seq(S) /\ Len(u) = Len(k) + Len(t)
      /\ \A p \in 1 .. Len(k) : u[p] = k[p]
      /\ \A p \in 1 .. Len(t) : u[Len(k) + p] = t[p]
  <2>1. k \in Seq(S) /\ t \in Seq(S)
    BY <1>1
  <2>. QED
    BY ONLY <2>1, ConcatLen
<1>4. n \in 0 .. Len(w)
  BY <1>1, <1>2
<1>5. v \in Seq(S) /\ Len(v) = Len(w) - n /\ \A p \in 1 .. Len(w) - n : v[p] = w[n + p]
  BY <1>2, <1>4, TakeFacts
<1> HIDE DEF u, v
<1>6. Len(u) = Len(v)
  BY <1>1, <1>2, <1>3, <1>5
<1>7. ASSUME NEW p \in 1 .. Len(u)
      PROVE  u[p] = v[p]
  <2>1. CASE p <= Len(k)
    <3>1. p \in 1 .. Len(k) /\ p \in 1 .. Len(i) - n /\ n + p \in 1 .. Len(i) /\ p \in 1 .. Len(w) - n
      BY <1>1, <1>2, <1>3, <2>1
    <3>. QED
      BY <1>1, <1>2, <1>3, <1>5, <3>1
  <2>2. CASE p > Len(k)
    <3> DEFINE q == p - Len(k)
    <3>1. /\ q \in 1 .. Len(t) /\ p = Len(k) + q /\ n + p = Len(i) + q /\ p \in 1 .. Len(w) - n
      BY <1>1, <1>2, <1>3, <2>2
    <3> HIDE DEF q
    <3>2. u[p] = t[q] /\ v[p] = w[n + p] /\ w[n + p] = t[q]
      BY <1>2, <1>3, <1>5, <3>1
    <3>. QED
      BY <3>2
  <2>. QED
    BY <1>1, <1>3, <2>1, <2>2
<1>8. u = v
  BY <1>3, <1>5, <1>6, <1>7, SeqEqual
<1>. QED
  BY <1>8 DEF u, v, k, w

LEMMA AnsweredLast ==
  ASSUME NEW v \in Seq(Nat), NEW o \in Seq(Nat), NEW R \in Seq(Nat)
  PROVE  v \o (o \o R) = (v \o o) \o R
<1>1. (v \o o) \o R = v \o (o \o R)
  BY ConcatAssociative, SMTT(30)
<1>. QED
  BY <1>1

(* The whole of what a request's answer does to the stream of its client *)
LEMMA StreamStep ==
  ASSUME NEW v \in Seq(Nat), NEW o \in Seq(Nat),
         NEW i \in Seq(Nat), NEW t \in Seq(Nat), NEW n \in Nat, Len(i) >= 2,
         NEW R \in Seq(Nat), Len(R) = 2, R[1] = (i[1] + 1) \div 2, R[2] = (i[1] + 1) \div 2,
         Stream(v \o o, i \o t, n)
  PROVE  Stream(v \o (o \o R), Skip(i, 2) \o t, n)
<1> DEFINE w == i \o t
           out == v \o o
<1>1. w \in Seq(Nat) /\ Len(w) >= 2 /\ w[1] = i[1]
  <2>1. /\ w \in Seq(Nat) /\ Len(w) = Len(i) + Len(t) /\ Len(i) \in Nat /\ Len(t) \in Nat
        /\ \A p \in 1 .. Len(i) : w[p] = i[p]
    BY ConcatLen
  <2> HIDE DEF w
  <2>. QED
    BY <2>1
<1>2. Skip(i, 2) \o t = Skip(w, 2)
  <2>1. 2 \in 0 .. Len(i)
    BY LenProperties
  <2>. QED
    BY <2>1, SkipFirst
<1>3. Stream(out, w, n)
  OBVIOUS
<1>4. v \o (o \o R) = out \o R
  BY AnsweredLast
<1>6. out \in Seq(Nat)
  BY ConcatProperties
<1> HIDE DEF w, out
<1>5. Stream(out \o R, Skip(w, 2), n)
  BY <1>1, <1>3, <1>6, StreamAnswer
<1>. QED
  BY <1>2, <1>4, <1>5

LEMMA StreamWrite ==
  ASSUME NEW S, NEW g \in Seq(S), NEW r \in Seq(S), NEW o \in Seq(S), NEW k \in 0 .. Len(o),
         NEW in, NEW n, Stream(g \o r \o o, in, n)
  PROVE  Stream(g \o (r \o Take(o, k)) \o Skip(o, k), in, n)
<1>1. g \o (r \o Take(o, k)) \o Skip(o, k) = g \o r \o o
  BY WriteSame, SMTT(30)
<1>. QED
  BY <1>1

LEMMA RequestsFrom ==
  ASSUME NEW d \in Nat, NEW n
  PROVE  Requests(d + 1, n) = [k \in 1 .. n - 2 * d |-> 2 * d + k]
<1> DEFINE m == d + 1
<1>1. 2 * (m - 1) = 2 * d
  OBVIOUS
<1> HIDE DEF m
<1>2. Requests(m, n) = [k \in 1 .. n - 2 * (m - 1) |-> 2 * (m - 1) + k]
  BY Zenon DEF Requests
<1>3. Requests(m, n) = [k \in 1 .. n - 2 * d |-> 2 * d + k]
  BY <1>1, <1>2
<1>. QED
  BY <1>3 DEF m

LEMMA StreamMeaning ==
  ASSUME NEW out \in Seq(Nat), NEW in \in Seq(Nat), NEW n \in Nat, Stream(out, in, n)
  PROVE  /\ out = Responses(Len(out) \div 2)
         /\ in = Requests(Len(out) \div 2 + 1, n)
<1> DEFINE d == Len(out) \div 2
           R == Responses(d)
           Q == Requests(d + 1, n)
<1>1. Len(out) \in Nat /\ Len(in) \in Nat /\ d \in Nat
  BY LenProperties
<1>2. /\ Len(out) = 2 * d /\ Len(in) = n - 2 * d
      /\ \A k \in 1 .. Len(out) : out[k] = (k + 1) \div 2
      /\ \A k \in 1 .. Len(in) : in[k] = 2 * d + k
  BY DEF Stream
<1> HIDE DEF d
<1>3. R = [k \in 1 .. Len(out) |-> (k + 1) \div 2]
  BY <1>2 DEF Responses
<1>4. Q = [k \in 1 .. Len(in) |-> 2 * d + k]
  <2>1. Q = [k \in 1 .. n - 2 * d |-> 2 * d + k]
    BY <1>1, RequestsFrom
  <2> HIDE DEF Q
  <2>. QED
    BY <1>2, <2>1
<1> HIDE DEF R, Q
<1>5. out \in [1 .. Len(out) -> Nat] /\ in \in [1 .. Len(in) -> Nat]
  BY LenProperties
<1>6. out = R
  BY <1>2, <1>3, <1>5
<1>7. in = Q
  BY <1>2, <1>4, <1>5
<1>. QED
  BY <1>6, <1>7 DEF R, Q, d

LEMMA StreamStart ==
  ASSUME NEW n \in Nat, NEW t \in Seq(Nat), t = Requests(1, n)
  PROVE  Stream(<<>> \o <<>> \o <<>>, <<>> \o t, n) /\ Append(t, n + 1) = Requests(1, n + 1)
<1>1. \A m \in Nat : Requests(1, m) = [k \in 1 .. m |-> k]
  <2>1. \A m \in Nat : Requests(0 + 1, m) = [k \in 1 .. m - 2 * 0 |-> 2 * 0 + k]
    BY RequestsFrom
  <2>. QED
    BY <2>1
<1>2. t = [k \in 1 .. n |-> k]
  BY <1>1
<1>3. Len(t) = n /\ \A k \in 1 .. n : t[k] = k
  BY <1>2, LenProperties
<1>4. <<>> \o <<>> \o <<>> = <<>> /\ <<>> \o t = t /\ Len(<<>>) = 0
  BY ConcatEmptySeq, EmptySeq
<1>5. Stream(<<>>, t, n)
  <2>1. 0 \div 2 = 0
    OBVIOUS
  <2>. QED
    BY <1>3, <1>4, <2>1 DEF Stream
<1> DEFINE a == Append(t, n + 1)
<1>6. /\ a \in Seq(Nat) /\ Len(a) = n + 1 /\ a[n + 1] = n + 1
      /\ \A k \in 1 .. n : a[k] = k
  BY <1>3, AppendProperties
<1> HIDE DEF a
<1>7. a = [k \in 1 .. n + 1 |-> k]
  <2>1. a \in [1 .. n + 1 -> Nat]
    BY <1>6, LenProperties
  <2>2. \A k \in 1 .. n + 1 : a[k] = k
    BY <1>6
  <2>. QED
    BY <2>1, <2>2
<1>8. a = Requests(1, n + 1)
  BY <1>1, <1>7
<1>. QED
  BY <1>4, <1>5, <1>8 DEF a

LEMMA NatSeqs ==
  ASSUME IInv
  PROVE  /\ \A c \in Clients : /\ got[c] \in Seq(Nat) /\ rx[c] \in Seq(Nat) /\ tx[c] \in Seq(Nat)
                               /\ sent[c] \in Nat
         /\ \A cn \in Conns : cn.incoming \in Seq(Nat) /\ cn.outgoing \in Seq(Nat)
<1>1. 1 .. MaxReqs \subseteq Nat /\ 1 .. 2 * MaxReqs \subseteq Nat
  OBVIOUS
<1>2. \A c \in Clients : /\ got[c] \in Seq(1 .. MaxReqs) /\ rx[c] \in Seq(1 .. MaxReqs)
                         /\ tx[c] \in Seq(1 .. 2 * MaxReqs) /\ sent[c] \in Nat
  BY ConstantsAssumption DEF IInv, TypeOK
<1>. QED
  BY <1>1, <1>2, ConnFields, SeqMonotonic

LEMMA InBacklog ==
  ASSUME IInv
  PROVE  backlog \in Seq(Clients) /\ \A c \in Members(backlog) : c \in Clients
BY ElementOfSeq DEF IInv, TypeOK, Members

-----------------------------------------------------------------------------
(* Steps that keep every connection's client *)
LEMMA SameClients ==
  ASSUME IInv, ClientInv,
         \A g \in Fds : /\ conn'[g] # None <=> conn[g] # None
                        /\ conn[g] # None => conn'[g].client = conn[g].client,
         UNCHANGED <<peer, backlog, sent, got>>,
         \A c \in Clients : ~Served(c) => rx'[c] = rx[c] /\ tx'[c] = tx[c]
  PROVE  ClientInv'
<1>1. \A c : Served(c)' <=> Served(c)
  BY DEF Served
<1>2. \A c \in Clients : ~Served(c) => (Untouched(c)' <=> Untouched(c))
  BY DEF Untouched
<1>3. \A f, g \in Fds : conn'[f] # None /\ conn'[g] # None /\ conn'[f].client = conn'[g].client
                          => f = g
  BY DEF ClientInv
<1>4. \A c \in Clients : Served(c)' => peer'[c] \notin {"new", "gone"}
  BY <1>1 DEF ClientInv
<1>5. \A c \in Members(backlog') :
        peer'[c] \notin {"new", "gone"} /\ ~Served(c)' /\ Untouched(c)'
  BY <1>1, <1>2, InBacklog DEF ClientInv
<1>6. \A c \in Clients : peer'[c] = "new" => Untouched(c)' /\ sent'[c] = 0
  BY <1>1, <1>2 DEF ClientInv
<1>. QED
  BY <1>3, <1>4, <1>5, <1>6 DEF ClientInv

LEMMA HandlerStreams ==
  ASSUME StreamInv, Handling, NEW cn \in Conns, cn.client = me.client,
         conn' = [conn EXCEPT ![fd] = cn],
         UNCHANGED <<peer, backlog, sent, got>>,
         \A c \in Clients : c # cl => rx'[c] = rx[c] /\ tx'[c] = tx[c],
         ~Gone(cl) => Stream(got[cl] \o rx'[cl] \o cn.outgoing, cn.incoming \o tx'[cl], sent[cl])
  PROVE  ClientInv' /\ InOrder'
<1>1. /\ fd \in Fds /\ conn[fd] = me /\ me # None /\ cl \in Clients /\ cl = me.client /\ cn # None
      /\ conn \in [Fds -> Conns \cup {None}]
  BY MyFacts, NoneAssumption DEF StreamInv, cl, ConnTypes
<1>2. \A g \in Fds : conn'[g] = IF g = fd THEN cn ELSE conn[g]
  BY <1>1
<1>3. Served(cl)
  BY <1>1 DEF Served
<1>4. ClientInv'
  BY <1>1, <1>2, <1>3, SameClients DEF StreamInv
<1>5. ASSUME NEW f \in Fds, conn'[f] # None, peer'[conn'[f].client] \notin {"reset", "broken"}
      PROVE  LET c == conn'[f].client
             IN Stream(got'[c] \o rx'[c] \o conn'[f].outgoing, conn'[f].incoming \o tx'[c], sent'[c])
  <2>1. CASE f = fd
    <3>1. ~Gone(cl) /\ conn'[f] = cn /\ conn'[f].client = cl
      BY <1>1, <1>2, <1>5, <2>1 DEF Gone
    <3>2. Stream(got[cl] \o rx'[cl] \o cn.outgoing, cn.incoming \o tx'[cl], sent[cl])
      BY <3>1
    <3>. QED
      BY <3>1, <3>2
  <2>2. CASE f # fd
    <3> DEFINE c == conn[f].client
    <3>1. conn'[f] = conn[f] /\ conn[f] # None /\ conn[f] \in Conns
      BY <1>1, <1>2, <1>5, <2>2
    <3>2. c # cl
      BY <1>1, <2>2, <3>1 DEF StreamInv, ClientInv
    <3>3. c \in Clients /\ ~Gone(c)
      BY <1>5, <3>1, ConnFields DEF Gone
    <3>4. Stream(got[c] \o rx[c] \o conn[f].outgoing, conn[f].incoming \o tx[c], sent[c])
      BY <3>1, <3>3 DEF StreamInv, InOrder
    <3>. QED
      BY <3>1, <3>2, <3>3, <3>4
  <2>. QED
    BY <2>1, <2>2
<1>6. InOrder'
  BY <1>5 DEF InOrder, Gone
<1>. QED
  BY <1>4, <1>6

LEMMA MyStream ==
  ASSUME StreamInv, Handling, ~Gone(cl)
  PROVE  Stream(got[cl] \o rx[cl] \o me.outgoing, me.incoming \o tx[cl], sent[cl])
BY MyFacts DEF StreamInv, InOrder, cl

(* A handler that moves no unit *)
LEMMA FlagsOnly ==
  ASSUME StreamInv, Handling, NEW cn \in Conns, cn.client = me.client,
         cn.incoming = me.incoming, cn.outgoing = me.outgoing,
         conn' = [conn EXCEPT ![fd] = cn], UNCHANGED clientVars
  PROVE  ClientInv' /\ InOrder'
BY MyStream, HandlerStreams DEF clientVars

LEMMA ReadStreams ==
  ASSUME StreamInv, handle_read
  PROVE  ClientInv' /\ InOrder'
<1>1. pc = "in" /\ Handling /\ UNCHANGED <<script, peer, backlog, sent, rx, got>>
  BY DEF handle_read, Handling
<1>2. me \in Conns /\ cl \in Clients /\ ClientTypes /\ IInv
  BY <1>1, MyFacts DEF StreamInv
<1>3. ASSUME tx[cl] # <<>>,
             Update([me EXCEPT !.incoming = @ \o Take(tx[cl], Lesser(Len(tx[cl]), ReadMax))]),
             tx' = [tx EXCEPT ![cl] = Skip(@, Lesser(Len(tx[cl]), ReadMax))]
      PROVE  ClientInv' /\ InOrder'
  <2> DEFINE n == Lesser(Len(tx[cl]), ReadMax)
             t == tx[cl]
             i == me.incoming
             cn == [me EXCEPT !.incoming = i \o Take(t, n)]
  <2>1. t \in Seq(1 .. 2 * MaxReqs) /\ i \in Seq(1 .. 2 * MaxReqs) /\ Len(t) \in Nat
    BY <1>2, ConnFields, LenProperties DEF ClientTypes
  <2>2. n \in 0 .. Len(t)
    BY <2>1, ConstantsAssumption DEF Lesser
  <2>3. conn' = [conn EXCEPT ![fd] = cn]
    BY <1>3 DEF Update
  <2>4. tx'[cl] = Skip(t, n) /\ \A c \in Clients : c # cl => tx'[c] = tx[c]
    BY <1>2, <1>3 DEF ClientTypes
  <2> HIDE DEF n, t, i
  <2>5. Take(t, n) \in Seq(1 .. 2 * MaxReqs)
    BY <2>1, <2>2, TakeFacts
  <2>6. i \o Take(t, n) \in Seq(1 .. 2 * MaxReqs)
    BY <2>1, <2>5, ConcatLen
  <2>7. /\ cn \in Conns /\ cn.client = me.client /\ cn.outgoing = me.outgoing
        /\ cn.incoming = i \o Take(t, n)
    BY <1>2, <2>6 DEF Conns
  <2> HIDE DEF cn
  <2>8. cn.incoming \o tx'[cl] = i \o t
    BY <2>1, <2>2, <2>4, <2>7, ReadSame
  <2>9. ~Gone(cl) => Stream(got[cl] \o rx'[cl] \o cn.outgoing, cn.incoming \o tx'[cl], sent[cl])
    BY <1>1, <2>7, <2>8, MyStream DEF i, t
  <2>10. \A c \in Clients : c # cl => rx'[c] = rx[c] /\ tx'[c] = tx[c]
    BY <1>1, <2>4
  <2>. QED
    BY <1>1, <2>3, <2>7, <2>9, <2>10, HandlerStreams
<1>4. ASSUME Update([me EXCEPT !.want_close = TRUE]), UNCHANGED tx
      PROVE  ClientInv' /\ InOrder'
  <2> DEFINE cn == [me EXCEPT !.want_close = TRUE]
  <2>1. /\ cn \in Conns /\ cn.client = me.client /\ cn.outgoing = me.outgoing
        /\ cn.incoming = me.incoming
    BY <1>2 DEF Conns
  <2>2. conn' = [conn EXCEPT ![fd] = cn] /\ UNCHANGED clientVars
    BY <1>1, <1>4 DEF Update, clientVars
  <2> HIDE DEF cn
  <2>. QED
    BY <1>1, <2>1, <2>2, FlagsOnly
<1>. QED
  BY <1>3, <1>4 DEF handle_read

LEMMA TryProcessStreams ==
  ASSUME StreamInv, try_process_one_request
  PROVE  ClientInv' /\ InOrder'
<1>1. pc = "parse" /\ Handling /\ UNCHANGED clientVars
  BY DEF try_process_one_request, Handling
<1>2. /\ me \in Conns /\ cl \in Clients /\ IInv /\ conn = [conn EXCEPT ![fd] = me]
  BY <1>1, MyFacts DEF StreamInv, ConnTypes
<1>3. CASE UNCHANGED conn
  BY <1>1, <1>2, <1>3, FlagsOnly
<1>4. CASE Update(Refused)
  <2> DEFINE cn == [me EXCEPT !.want_close = TRUE]
  <2>1. /\ cn \in Conns /\ cn.client = me.client /\ cn.outgoing = me.outgoing
        /\ cn.incoming = me.incoming
    BY <1>2 DEF Conns
  <2>2. conn' = [conn EXCEPT ![fd] = cn]
    BY <1>4 DEF Update, Refused
  <2> HIDE DEF cn
  <2>. QED
    BY <1>1, <2>1, <2>2, FlagsOnly
<1>5. CASE /\ ~NeedMore /\ Kind = "ok"
           /\ Update([me EXCEPT !.outgoing = @ \o Response, !.incoming = Consumed])
  <2> DEFINE o == me.outgoing
             i == me.incoming
             R == Response
             out == o \o R
             cn == [me EXCEPT !.outgoing = out, !.incoming = Consumed]
  <2>1. /\ i \in Seq(1 .. 2 * MaxReqs) /\ o \in Seq(1 .. MaxReqs) /\ Len(i) \in Nat
        /\ i \in Seq(Nat) /\ o \in Seq(Nat)
    BY <1>2, ConnFields, NatSeqs
  <2>2. i # <<>> /\ Len(i) >= 2
    BY <1>5, <2>1 DEF NeedMore
  <2>3. /\ R \in Seq(1 .. MaxReqs) /\ R \in Seq(Nat) /\ Len(R) = 2
        /\ R[1] = (i[1] + 1) \div 2 /\ R[2] = (i[1] + 1) \div 2
    <3>1. /\ R \in Seq(1 .. MaxReqs) /\ Len(R) = 2 /\ R[1] = Nth /\ R[2] = Nth
          /\ Nth = (i[1] + 1) \div 2
      BY <1>1, <1>2, <2>2, ResponseFacts DEF Nth
    <3>2. 1 .. MaxReqs \subseteq Nat
      OBVIOUS
    <3>3. R \in Seq(Nat)
      BY <3>1, <3>2, SeqMonotonic
    <3>. QED
      BY <3>1, <3>3
  <2>4. Consumed = Skip(i, 2) /\ Consumed \in Seq(1 .. 2 * MaxReqs)
    BY <2>1, <2>2, TakeFacts DEF Consumed
  <2>5. conn' = [conn EXCEPT ![fd] = cn]
    BY <1>5 DEF Update
  <2> HIDE DEF o, R
  <2>6. out \in Seq(1 .. MaxReqs)
    BY <2>1, <2>3, ConcatLen
  <2> HIDE DEF out
  <2>7. cn \in Conns /\ cn.client = me.client /\ cn.outgoing = out /\ cn.incoming = Consumed
    BY <1>2, <2>4, <2>6 DEF Conns
  <2> HIDE DEF cn, i
  <2>8. ~Gone(cl) => Stream(got[cl] \o rx'[cl] \o cn.outgoing, cn.incoming \o tx'[cl], sent[cl])
    <3> SUFFICES ASSUME ~Gone(cl)
                 PROVE  Stream(got[cl] \o rx[cl] \o cn.outgoing, cn.incoming \o tx[cl], sent[cl])
      BY <1>1 DEF clientVars
    <3> DEFINE v == got[cl] \o rx[cl]
               t == tx[cl]
               n == sent[cl]
    <3>1. v \in Seq(Nat) /\ t \in Seq(Nat) /\ n \in Nat
      <4>1. got[cl] \in Seq(Nat) /\ rx[cl] \in Seq(Nat) /\ t \in Seq(Nat) /\ n \in Nat
        BY <1>2, NatSeqs
      <4>. QED
        BY <4>1, ConcatProperties
    <3>2. Stream(v \o o, i \o t, n)
      BY <1>1, MyStream DEF o, i
    <3> HIDE DEF v, t, n
    <3>3. Stream(v \o (o \o R), Skip(i, 2) \o t, n)
      BY <2>1, <2>2, <2>3, <3>1, <3>2, StreamStep
    <3>. QED
      BY <2>4, <2>7, <3>3 DEF v, t, n, out
  <2>. QED
    BY <1>1, <2>5, <2>7, <2>8, HandlerStreams DEF clientVars
<1>. QED
  BY <1>3, <1>4, <1>5 DEF try_process_one_request

LEMMA IntentionStreams ==
  ASSUME StreamInv, update_intention
  PROVE  ClientInv' /\ InOrder'
<1>1. Handling /\ UNCHANGED clientVars
  BY DEF update_intention, Handling
<1>2. me \in Conns /\ conn = [conn EXCEPT ![fd] = me]
  BY <1>1, MyFacts DEF StreamInv, ConnTypes
<1>3. CASE UNCHANGED conn
  BY <1>1, <1>2, <1>3, FlagsOnly
<1>4. CASE Update([me EXCEPT !.want_read = FALSE, !.want_write = TRUE])
  <2> DEFINE cn == [me EXCEPT !.want_read = FALSE, !.want_write = TRUE]
  <2>1. /\ cn \in Conns /\ cn.client = me.client /\ cn.outgoing = me.outgoing
        /\ cn.incoming = me.incoming
    BY <1>2 DEF Conns
  <2>2. conn' = [conn EXCEPT ![fd] = cn]
    BY <1>4 DEF Update
  <2> HIDE DEF cn
  <2>. QED
    BY <1>1, <2>1, <2>2, FlagsOnly
<1>. QED
  BY <1>3, <1>4 DEF update_intention

LEMMA WriteStreams ==
  ASSUME StreamInv, handle_write
  PROVE  ClientInv' /\ InOrder'
<1>1. Handling /\ UNCHANGED <<script, peer, backlog, sent, tx, got>>
  BY DEF handle_write, Handling
<1>2. /\ me \in Conns /\ conn = [conn EXCEPT ![fd] = me] /\ cl \in Clients /\ IInv /\ ClientTypes
  BY <1>1, MyFacts DEF StreamInv, ConnTypes
<1>3. ASSUME Space(cl) > 0,
             Update(Written(Lesser(Len(me.outgoing), Space(cl)))),
             rx' = [rx EXCEPT ![cl] = @ \o Take(me.outgoing, Lesser(Len(me.outgoing), Space(cl)))]
      PROVE  ClientInv' /\ InOrder'
  <2> DEFINE n == Lesser(Len(me.outgoing), Space(cl))
             cn == Written(n)
             o == me.outgoing
  <2>1. o \in Seq(1 .. MaxReqs) /\ o \in Seq(Nat) /\ Len(o) \in Nat /\ Space(cl) \in Int
    BY <1>2, ConnFields, NatSeqs, LenProperties, ConstantsAssumption DEF ClientTypes, Space
  <2>2. n \in 1 .. Len(o) /\ n \in 0 .. Len(o)
    <3>1. o # <<>>
      BY <1>1, <1>2 DEF IInv, Handled, Quiet, handle_write
    <3>. QED
      BY <1>3, <2>1, <3>1, EmptySeq DEF Lesser
  <2>3. conn' = [conn EXCEPT ![fd] = cn]
    BY <1>3 DEF Update
  <2>4. /\ rx'[cl] = rx[cl] \o Take(o, n)
        /\ \A c \in Clients : c # cl => rx'[c] = rx[c] /\ tx'[c] = tx[c]
    BY <1>1, <1>2, <1>3 DEF ClientTypes
  <2> HIDE DEF n
  <2>5. /\ cn \in Conns /\ cn.client = me.client /\ cn.incoming = me.incoming
        /\ cn.outgoing = Skip(o, n)
    BY <1>2, <2>1, <2>2, WrittenFacts
  <2> HIDE DEF cn, o
  <2>6. ~Gone(cl) => Stream(got[cl] \o rx'[cl] \o cn.outgoing, cn.incoming \o tx'[cl], sent[cl])
    <3> SUFFICES ASSUME ~Gone(cl)
                 PROVE  Stream(got[cl] \o rx'[cl] \o cn.outgoing, cn.incoming \o tx'[cl], sent[cl])
      OBVIOUS
    <3> DEFINE g == got[cl]
               r == rx[cl]
               in == me.incoming \o tx[cl]
               M == 1 .. MaxReqs
    <3>1. g \in Seq(M) /\ r \in Seq(M) /\ o \in Seq(M)
      BY <1>2, <2>1 DEF ClientTypes
    <3>2. Stream(g \o r \o o, in, sent[cl])
      BY <1>1, MyStream DEF o
    <3>3. cn.incoming \o tx'[cl] = in /\ rx'[cl] = r \o Take(o, n) /\ cn.outgoing = Skip(o, n)
      BY <1>1, <2>4, <2>5
    <3> HIDE DEF g, r, in, M
    <3>4. Stream(g \o (r \o Take(o, n)) \o Skip(o, n), in, sent[cl])
      BY <2>2, <3>1, <3>2, StreamWrite
    <3>. QED
      BY <3>3, <3>4 DEF g
  <2>. QED
    BY <1>1, <2>3, <2>4, <2>5, <2>6, HandlerStreams
<1>4. CASE UNCHANGED <<conn, rx>>
  BY <1>1, <1>2, <1>4, FlagsOnly DEF clientVars
<1>5. CASE Update([me EXCEPT !.want_close = TRUE]) /\ UNCHANGED rx
  <2> DEFINE cn == [me EXCEPT !.want_close = TRUE]
  <2>1. /\ cn \in Conns /\ cn.client = me.client /\ cn.outgoing = me.outgoing
        /\ cn.incoming = me.incoming
    BY <1>2 DEF Conns
  <2>2. conn' = [conn EXCEPT ![fd] = cn] /\ UNCHANGED clientVars
    BY <1>1, <1>5 DEF Update, clientVars
  <2> HIDE DEF cn
  <2>. QED
    BY <1>1, <2>1, <2>2, FlagsOnly
<1>. QED
  BY <1>3, <1>4, <1>5 DEF handle_write

-----------------------------------------------------------------------------
(* The steps of one client *)
LEMMA ClientStreams ==
  ASSUME StreamInv, NEW c \in Clients, UNCHANGED serverVars,
         \A x \in Clients : x # c => /\ peer'[x] = peer[x] /\ sent'[x] = sent[x] /\ tx'[x] = tx[x]
                                     /\ rx'[x] = rx[x] /\ got'[x] = got[x],
         NoneTwice(backlog'), Members(backlog') \subseteq Members(backlog) \cup {c},
         Served(c) => peer'[c] \notin {"new", "gone"},
         c \in Members(backlog') =>
           peer'[c] \notin {"new", "gone"} /\ ~Served(c) /\ Untouched(c)',
         peer'[c] = "new" => Untouched(c)' /\ sent'[c] = 0,
         \A f \in Fds :
           conn[f] # None /\ conn[f].client = c /\ peer'[c] \notin {"reset", "broken"} =>
             Stream(got'[c] \o rx'[c] \o conn[f].outgoing, conn[f].incoming \o tx'[c], sent'[c])
  PROVE  ClientInv' /\ InOrder'
<1>1. conn' = conn /\ \A x : Served(x)' <=> Served(x)
  BY DEF serverVars, Served
<1>2. \A x \in Clients : x # c => (Untouched(x)' <=> Untouched(x))
  BY DEF Untouched
<1>3. ClientInv'
  <2>1. \A f, g \in Fds : conn'[f] # None /\ conn'[g] # None /\ conn'[f].client = conn'[g].client
                            => f = g
    BY <1>1 DEF StreamInv, ClientInv
  <2>2. \A x \in Clients : Served(x)' => peer'[x] \notin {"new", "gone"}
    BY <1>1 DEF StreamInv, ClientInv
  <2>3. ASSUME NEW x \in Members(backlog')
        PROVE  peer'[x] \notin {"new", "gone"} /\ ~Served(x)' /\ Untouched(x)'
    <3>1. CASE x # c
      <4>1. x \in Members(backlog) /\ x \in Clients
        BY <2>3, <3>1, InBacklog DEF StreamInv
      <4>2. peer[x] \notin {"new", "gone"} /\ ~Served(x) /\ Untouched(x)
        BY <4>1 DEF StreamInv, ClientInv
      <4>. QED
        BY <1>1, <1>2, <3>1, <4>1, <4>2
    <3>. QED
      BY <1>1, <2>3, <3>1
  <2>4. \A x \in Clients : peer'[x] = "new" => Untouched(x)' /\ sent'[x] = 0
    BY <1>2 DEF StreamInv, ClientInv
  <2>. QED
    BY <2>1, <2>2, <2>3, <2>4 DEF ClientInv
<1>4. ASSUME NEW f \in Fds, conn'[f] # None, peer'[conn'[f].client] \notin {"reset", "broken"}
      PROVE  LET x == conn'[f].client
             IN Stream(got'[x] \o rx'[x] \o conn'[f].outgoing, conn'[f].incoming \o tx'[x], sent'[x])
  <2> DEFINE x == conn[f].client
  <2>1. conn'[f] = conn[f] /\ conn[f] # None /\ x \in Clients
    BY <1>1, <1>4, ConnFields DEF StreamInv, IInv, TypeOK
  <2>2. CASE x = c
    BY <1>4, <2>1, <2>2
  <2>3. CASE x # c
    <3>1. ~Gone(x)
      BY <1>4, <2>1, <2>3 DEF Gone
    <3>2. Stream(got[x] \o rx[x] \o conn[f].outgoing, conn[f].incoming \o tx[x], sent[x])
      BY <2>1, <3>1 DEF StreamInv, InOrder
    <3>3. got'[x] = got[x] /\ rx'[x] = rx[x] /\ tx'[x] = tx[x] /\ sent'[x] = sent[x]
      BY <2>1, <2>3
    <3>. QED
      BY <2>1, <3>2, <3>3
  <2>. QED
    BY <2>2, <2>3
<1>5. InOrder'
  BY <1>4 DEF InOrder, Gone
<1>. QED
  BY <1>3, <1>5

LEMMA ItsStream ==
  ASSUME StreamInv, NEW f \in Fds, conn[f] # None, ~Gone(conn[f].client)
  PROVE  LET c == conn[f].client
         IN Stream(got[c] \o rx[c] \o conn[f].outgoing, conn[f].incoming \o tx[c], sent[c])
BY DEF StreamInv, InOrder

LEMMA ConnectStreams ==
  ASSUME StreamInv, NEW c \in Clients, Connect(c)
  PROVE  ClientInv' /\ InOrder'
<1>1. /\ peer[c] = "new" /\ peer' = [peer EXCEPT ![c] = "open"] /\ backlog' = Append(backlog, c)
      /\ UNCHANGED serverVars /\ UNCHANGED <<script, sent, tx, rx, got>> /\ ClientTypes
  BY TypeParts DEF Connect, StreamInv, IInv
<1>2. peer'[c] = "open" /\ \A x \in Clients : x # c => peer'[x] = peer[x]
  BY <1>1 DEF ClientTypes
<1>3. ~Served(c) /\ Untouched(c) /\ c \notin Members(backlog) /\ NoneTwice(backlog)
  BY <1>1 DEF StreamInv, ClientInv
<1>4. NoneTwice(backlog') /\ Members(backlog') = Members(backlog) \cup {c}
  BY <1>1, <1>3, InsertFacts DEF ClientTypes
<1>5. Untouched(c)'
  BY <1>1, <1>3 DEF Untouched
<1>6. \A f \in Fds : conn[f] # None => conn[f].client # c
  BY <1>3 DEF Served
<1>. QED
  BY <1>1, <1>2, <1>3, <1>4, <1>5, <1>6, ClientStreams

LEMMA SendStreams ==
  ASSUME StreamInv, NEW c \in Clients, Send(c)
  PROVE  ClientInv' /\ InOrder'
<1>1. /\ peer[c] = "open" /\ sent' = [sent EXCEPT ![c] = @ + 1]
      /\ tx' = [tx EXCEPT ![c] = Append(@, sent[c] + 1)]
      /\ UNCHANGED serverVars /\ UNCHANGED <<script, peer, backlog, rx, got>> /\ ClientTypes
  BY TypeParts DEF Send, StreamInv, IInv
<1>2. /\ sent'[c] = sent[c] + 1 /\ tx'[c] = Append(tx[c], sent[c] + 1)
      /\ \A x \in Clients : x # c => sent'[x] = sent[x] /\ tx'[x] = tx[x]
  BY <1>1 DEF ClientTypes
<1>3. /\ got[c] \in Seq(Nat) /\ rx[c] \in Seq(Nat) /\ tx[c] \in Seq(Nat) /\ sent[c] \in Nat
  BY NatSeqs DEF StreamInv
<1>4. ASSUME Untouched(c)
      PROVE  Untouched(c)'
  <2>1. Append(tx[c], sent[c] + 1) = Requests(1, sent[c] + 1)
    BY <1>3, <1>4, StreamStart DEF Untouched
  <2>2. tx'[c] = Requests(1, sent'[c])
    BY <1>2, <2>1
  <2>. QED
    BY <1>1, <1>4, <2>2 DEF Untouched
<1>5. ASSUME NEW f \in Fds, conn[f] # None, conn[f].client = c
      PROVE  Stream(got[c] \o rx[c] \o conn[f].outgoing, conn[f].incoming \o tx'[c], sent'[c])
  <2> DEFINE out == got[c] \o rx[c] \o conn[f].outgoing
             i == conn[f].incoming
             in == i \o tx[c]
  <2>1. Stream(out, in, sent[c])
    BY <1>1, <1>5, ItsStream DEF Gone
  <2>2. i \in Seq(Nat) /\ conn[f].outgoing \in Seq(Nat)
    BY <1>5, NatSeqs DEF StreamInv, IInv, TypeOK
  <2>3. out \in Seq(Nat) /\ in \in Seq(Nat)
    <3>1. got[c] \o rx[c] \in Seq(Nat)
      BY <1>3, ConcatProperties
    <3>. QED
      BY <1>3, <2>2, <3>1, ConcatProperties
  <2> HIDE DEF out, in, i
  <2>4. Stream(out, Append(in, sent[c] + 1), sent[c] + 1)
    BY <1>3, <2>1, <2>3, StreamSend
  <2>5. i \o Append(tx[c], sent[c] + 1) = Append(i \o tx[c], sent[c] + 1)
    <3> DEFINE t == tx[c]
               y == sent[c] + 1
    <3>1. t \in Seq(Nat) /\ y \in Nat
      BY <1>3
    <3> HIDE DEF t, y
    <3>2. i \o Append(t, y) = Append(i \o t, y)
      BY <2>2, <3>1, SentAtEnd
    <3>. QED
      BY <3>2 DEF t, y
  <2>. QED
    BY <1>2, <2>4, <2>5 DEF out, in, i
<1>6. \A x \in Clients : x # c => /\ peer'[x] = peer[x] /\ sent'[x] = sent[x] /\ tx'[x] = tx[x]
                                  /\ rx'[x] = rx[x] /\ got'[x] = got[x]
  BY <1>1, <1>2
<1>7. NoneTwice(backlog') /\ Members(backlog') = Members(backlog)
  BY <1>1 DEF StreamInv, ClientInv
<1>8. /\ Served(c) => peer'[c] \notin {"new", "gone"}
      /\ c \in Members(backlog') => peer'[c] \notin {"new", "gone"} /\ ~Served(c) /\ Untouched(c)'
      /\ peer'[c] # "new"
  BY <1>1, <1>4, <1>7 DEF StreamInv, ClientInv
<1>. QED
  BY <1>1, <1>5, <1>6, <1>7, <1>8, ClientStreams

LEMMA ReceiveStreams ==
  ASSUME StreamInv, NEW c \in Clients, Receive(c)
  PROVE  ClientInv' /\ InOrder'
<1>1. /\ rx[c] # <<>> /\ got' = [got EXCEPT ![c] = Append(@, Head(rx[c]))]
      /\ rx' = [rx EXCEPT ![c] = Tail(@)]
      /\ UNCHANGED serverVars /\ UNCHANGED <<script, peer, backlog, sent, tx>> /\ ClientTypes
  BY TypeParts DEF Receive, StreamInv, IInv
<1>2. /\ got'[c] = Append(got[c], Head(rx[c])) /\ rx'[c] = Tail(rx[c])
      /\ \A x \in Clients : x # c => got'[x] = got[x] /\ rx'[x] = rx[x]
  BY <1>1 DEF ClientTypes
<1>3. ~Untouched(c)
  BY <1>1 DEF Untouched
<1>4. got'[c] \o rx'[c] = got[c] \o rx[c]
  <2> DEFINE g == got[c]
             r == rx[c]
             M == 1 .. MaxReqs
  <2>1. g \in Seq(M) /\ r \in Seq(M) /\ r # <<>>
    BY <1>1 DEF ClientTypes
  <2> HIDE DEF g, r, M
  <2>2. Append(g, Head(r)) \o Tail(r) = g \o r
    BY <2>1, ReceiveSame
  <2>. QED
    BY <1>2, <2>2 DEF g, r
<1>5. ASSUME NEW f \in Fds, conn[f] # None, conn[f].client = c, peer[c] \notin {"reset", "broken"}
      PROVE  Stream(got'[c] \o rx'[c] \o conn[f].outgoing, conn[f].incoming \o tx'[c], sent'[c])
  <2>1. Stream(got[c] \o rx[c] \o conn[f].outgoing, conn[f].incoming \o tx[c], sent[c])
    BY <1>5, ItsStream DEF Gone
  <2>. QED
    BY <1>1, <1>4, <2>1
<1>6. \A x \in Clients : x # c => /\ peer'[x] = peer[x] /\ sent'[x] = sent[x] /\ tx'[x] = tx[x]
                                  /\ rx'[x] = rx[x] /\ got'[x] = got[x]
  BY <1>1, <1>2
<1>7. NoneTwice(backlog') /\ Members(backlog') = Members(backlog)
  BY <1>1 DEF StreamInv, ClientInv
<1>8. /\ Served(c) => peer'[c] \notin {"new", "gone"}
      /\ c \notin Members(backlog') /\ peer'[c] # "new"
  BY <1>1, <1>3, <1>7 DEF StreamInv, ClientInv
<1>. QED
  BY <1>1, <1>5, <1>6, <1>7, <1>8, ClientStreams

(* The end of a client's stream, or a reset *)
LEMMA EndStreams ==
  ASSUME StreamInv, NEW c \in Clients, EndOfFile(c) \/ Reset(c)
  PROVE  ClientInv' /\ InOrder'
<1>1. /\ peer[c] \in {"open", "eof"} /\ UNCHANGED serverVars
      /\ UNCHANGED <<script, backlog, sent, tx, got>> /\ ClientTypes
      /\ \/ peer' = [peer EXCEPT ![c] = "eof"] /\ rx' = rx
         \/ /\ peer' = [peer EXCEPT ![c] = "reset"] \/ peer' = [peer EXCEPT ![c] = "broken"]
            /\ rx' = [rx EXCEPT ![c] = <<>>]
  BY TypeParts DEF EndOfFile, Reset, StreamInv, IInv
<1>2. /\ \/ peer'[c] = "eof" /\ rx' = rx
         \/ peer'[c] \in {"reset", "broken"} /\ rx'[c] = <<>>
      /\ \A x \in Clients : x # c => peer'[x] = peer[x] /\ rx'[x] = rx[x]
  BY <1>1 DEF ClientTypes
<1>3. Untouched(c) => Untouched(c)'
  BY <1>1, <1>2 DEF Untouched
<1>4. ASSUME NEW f \in Fds, conn[f] # None, conn[f].client = c, peer'[c] \notin {"reset", "broken"}
      PROVE  Stream(got'[c] \o rx'[c] \o conn[f].outgoing, conn[f].incoming \o tx'[c], sent'[c])
  <2>1. Stream(got[c] \o rx[c] \o conn[f].outgoing, conn[f].incoming \o tx[c], sent[c])
    BY <1>1, <1>4, ItsStream DEF Gone
  <2>. QED
    BY <1>1, <1>2, <1>4, <2>1
<1>5. \A x \in Clients : x # c => /\ peer'[x] = peer[x] /\ sent'[x] = sent[x] /\ tx'[x] = tx[x]
                                  /\ rx'[x] = rx[x] /\ got'[x] = got[x]
  BY <1>1, <1>2
<1>6. NoneTwice(backlog') /\ Members(backlog') = Members(backlog)
  BY <1>1 DEF StreamInv, ClientInv
<1>7. /\ peer'[c] \notin {"new", "gone"}
      /\ c \in Members(backlog') => ~Served(c) /\ Untouched(c)'
  BY <1>2, <1>3, <1>6 DEF StreamInv, ClientInv
<1>. QED
  BY <1>1, <1>4, <1>5, <1>6, <1>7, ClientStreams

-----------------------------------------------------------------------------
(* The other steps of the loop: they leave the streams alone, or they end  *)
(* or begin one.                                                           *)
LEMMA SameStreams ==
  ASSUME StreamInv, UNCHANGED <<conn, clientVars>>
  PROVE  ClientInv' /\ InOrder'
<1>1. \A c : (Served(c)' <=> Served(c)) /\ (Untouched(c)' <=> Untouched(c)) /\ (Gone(c)' <=> Gone(c))
  BY DEF clientVars, Served, Untouched, Gone
<1>2. ClientInv'
  BY <1>1 DEF StreamInv, ClientInv, clientVars
<1>3. ASSUME NEW f \in Fds, conn'[f] # None, peer'[conn'[f].client] \notin {"reset", "broken"}
      PROVE  LET x == conn'[f].client
             IN Stream(got'[x] \o rx'[x] \o conn'[f].outgoing, conn'[f].incoming \o tx'[x], sent'[x])
  BY <1>3, ItsStream DEF clientVars, Gone
<1>4. InOrder'
  BY <1>3 DEF InOrder, Gone
<1>. QED
  BY <1>2, <1>4

LEMMA DestroyStreams ==
  ASSUME StreamInv, NEW f \in Fds, conn[f] # None, conn_destroy(f)
  PROVE  ClientInv' /\ InOrder'
<1> DEFINE c == conn[f].client
<1>1. /\ conn' = [conn EXCEPT ![f] = None] /\ peer' = [peer EXCEPT ![c] = "gone"]
      /\ tx' = [tx EXCEPT ![c] = <<>>] /\ UNCHANGED <<backlog, sent, rx, got>>
  BY DEF conn_destroy, Destroyed
<1>2. /\ ClientTypes /\ conn \in [Fds -> Conns \cup {None}] /\ c \in Clients
      /\ \A g \in Fds : conn[g] # None => conn[g].client \in Clients
  BY TypeParts, ConnFields DEF StreamInv, IInv, ConnTypes
<1>3. /\ conn'[f] = None /\ \A g \in Fds : g # f => conn'[g] = conn[g]
      /\ peer'[c] = "gone"
      /\ \A x \in Clients : x # c => peer'[x] = peer[x] /\ tx'[x] = tx[x]
  BY <1>1, <1>2 DEF ClientTypes
<1>4. \A g \in Fds : g # f /\ conn[g] # None => conn[g].client # c
  BY DEF StreamInv, ClientInv
<1> HIDE DEF c
<1>5. \A x \in Clients : Served(x)' => Served(x) /\ x # c
  BY <1>3, <1>4 DEF Served
<1>6. Served(c)
  BY DEF Served, c
<1>7. \A x \in Clients : x # c => (Untouched(x)' <=> Untouched(x))
  BY <1>1, <1>3 DEF Untouched
<1>8. ClientInv'
  <2>1. \A g, h \in Fds : conn'[g] # None /\ conn'[h] # None /\ conn'[g].client = conn'[h].client
                            => g = h
    BY <1>3 DEF StreamInv, ClientInv
  <2>2. \A x \in Clients : Served(x)' => peer'[x] \notin {"new", "gone"}
    BY <1>3, <1>5 DEF StreamInv, ClientInv
  <2>3. NoneTwice(backlog')
    BY <1>1 DEF StreamInv, ClientInv
  <2>4. ASSUME NEW x \in Members(backlog')
        PROVE  peer'[x] \notin {"new", "gone"} /\ ~Served(x)' /\ Untouched(x)'
    <3>1. x \in Members(backlog) /\ x \in Clients
      BY <1>1, InBacklog DEF StreamInv
    <3>2. peer[x] \notin {"new", "gone"} /\ ~Served(x) /\ Untouched(x) /\ x # c
      BY <1>6, <3>1 DEF StreamInv, ClientInv
    <3>. QED
      BY <1>3, <1>5, <1>7, <3>1, <3>2
  <2>5. \A x \in Clients : peer'[x] = "new" => Untouched(x)' /\ sent'[x] = 0
    BY <1>1, <1>3, <1>7 DEF StreamInv, ClientInv
  <2>. QED
    BY <2>1, <2>2, <2>3, <2>4, <2>5 DEF ClientInv
<1>9. ASSUME NEW g \in Fds, conn'[g] # None, peer'[conn'[g].client] \notin {"reset", "broken"}
      PROVE  LET x == conn'[g].client
             IN Stream(got'[x] \o rx'[x] \o conn'[g].outgoing, conn'[g].incoming \o tx'[x], sent'[x])
  <2> DEFINE x == conn[g].client
  <2>1. conn'[g] = conn[g] /\ conn[g] # None /\ x \in Clients /\ x # c
    BY <1>2, <1>3, <1>4, <1>9
  <2>2. ~Gone(x)
    BY <1>3, <1>9, <2>1 DEF Gone
  <2>3. Stream(got[x] \o rx[x] \o conn[g].outgoing, conn[g].incoming \o tx[x], sent[x])
    BY <2>1, <2>2, ItsStream
  <2>. QED
    BY <1>1, <1>3, <2>1, <2>3
<1>10. InOrder'
  BY <1>9 DEF InOrder, Gone
<1>. QED
  BY <1>8, <1>10

LEMMA EndingStreams ==
  ASSUME StreamInv, EventDone \/ CloseIdle
  PROVE  ClientInv' /\ InOrder'
<1>1. CASE EventDone
  <2>1. fd \in Fds /\ conn[fd] # None
    BY <1>1, MyFacts DEF EventDone, Handling, StreamInv
  <2>. QED
    BY <1>1, <2>1, DestroyStreams, SameStreams DEF EventDone
<1>2. CASE CloseIdle
  <2> DEFINE f == Head(idle_list)
  <2>1. idle_list # <<>> /\ conn_destroy(f)
    BY <1>2 DEF CloseIdle
  <2>2. idle_list \in Seq(Fds) /\ NoneTwice(idle_list) /\ Members(idle_list) = Fds \ FreeFds
    BY DEF StreamInv, IInv, TypeOK, IdleInv
  <2>3. f \in Members(idle_list)
    BY <2>1, <2>2, HeadFacts
  <2>4. f \in Fds /\ conn[f] # None
    BY <2>2, <2>3 DEF FreeFds
  <2> HIDE DEF f
  <2>. QED
    BY <2>1, <2>4, DestroyStreams
<1>. QED
  BY <1>1, <1>2

LEMMA AcceptStreams ==
  ASSUME StreamInv, handle_accept
  PROVE  ClientInv' /\ InOrder'
<1> DEFINE c == Head(backlog)
<1>1. backlog # <<>> /\ backlog' = Tail(backlog) /\ UNCHANGED <<script, sent, rx, got>>
  BY DEF handle_accept
<1>2. PICK f \in FreeFds :
        \/ conn' = [conn EXCEPT ![f] = NewConn(c)] /\ UNCHANGED <<peer, tx>>
        \/ /\ peer' = [peer EXCEPT ![c] = "gone"] /\ tx' = [tx EXCEPT ![c] = <<>>]
           /\ UNCHANGED conn
  BY AcceptBranches DEF StreamInv
<1>3. /\ ClientTypes /\ conn \in [Fds -> Conns \cup {None}] /\ f \in Fds /\ conn[f] = None
      /\ NoneTwice(backlog) /\ backlog \in Seq(Clients)
      /\ \A g \in Fds : conn[g] # None => conn[g].client \in Clients
  BY <1>2, TypeParts, ConnFields DEF StreamInv, IInv, ClientInv, ClientTypes, ConnTypes, FreeFds
<1>4. /\ c \in Members(backlog) /\ c \in Clients /\ backlog' = dlist_detach(backlog, c)
  BY <1>1, <1>3, HeadFacts
<1> HIDE DEF c
<1>5. NoneTwice(backlog') /\ Members(backlog') = Members(backlog) \ {c}
  BY <1>3, <1>4, DetachFacts, DetachNoneTwice
<1>6. peer[c] \notin {"new", "gone"} /\ ~Served(c) /\ Untouched(c)
  BY <1>4 DEF StreamInv, ClientInv
<1>7. \A g \in Fds : conn[g] # None => conn[g].client # c
  BY <1>6 DEF Served
<1>8. ASSUME conn' = [conn EXCEPT ![f] = NewConn(c)], UNCHANGED <<peer, tx>>
      PROVE  ClientInv' /\ InOrder'
  <2>1. /\ conn'[f] = NewConn(c) /\ NewConn(c) # None /\ NewConn(c).client = c
        /\ NewConn(c).incoming = <<>> /\ NewConn(c).outgoing = <<>>
        /\ \A g \in Fds : g # f => conn'[g] = conn[g]
    BY <1>3, <1>4, <1>8, NewConnFacts DEF NewConn
  <2>2. \A x \in Clients : Served(x)' => Served(x) \/ x = c
    BY <2>1 DEF Served
  <2>3. \A x : Untouched(x)' <=> Untouched(x)
    BY <1>1, <1>8 DEF Untouched
  <2>4. \A g, h \in Fds : conn'[g] # None /\ conn'[h] # None /\ conn'[g].client = conn'[h].client
                            => g = h
    BY <1>7, <2>1 DEF StreamInv, ClientInv
  <2>5. \A x \in Clients : Served(x)' => peer'[x] \notin {"new", "gone"}
    BY <1>6, <1>8, <2>2 DEF StreamInv, ClientInv
  <2>6. ASSUME NEW x \in Members(backlog')
        PROVE  peer'[x] \notin {"new", "gone"} /\ ~Served(x)' /\ Untouched(x)'
    <3>1. x \in Members(backlog) /\ x \in Clients /\ x # c
      BY <1>5, InBacklog DEF StreamInv
    <3>. QED
      BY <1>8, <2>2, <2>3, <3>1 DEF StreamInv, ClientInv
  <2>7. \A x \in Clients : peer'[x] = "new" => Untouched(x)' /\ sent'[x] = 0
    BY <1>1, <1>8, <2>3 DEF StreamInv, ClientInv
  <2>8. ClientInv'
    BY <1>5, <2>4, <2>5, <2>6, <2>7 DEF ClientInv
  <2>9. ASSUME NEW g \in Fds, conn'[g] # None, peer'[conn'[g].client] \notin {"reset", "broken"}
        PROVE  LET x == conn'[g].client
               IN Stream(got'[x] \o rx'[x] \o conn'[g].outgoing, conn'[g].incoming \o tx'[x], sent'[x])
    <3>1. CASE g = f
      <4>1. got[c] = <<>> /\ rx[c] = <<>> /\ tx[c] = Requests(1, sent[c])
        BY <1>6 DEF Untouched
      <4>2. tx[c] \in Seq(Nat) /\ sent[c] \in Nat
        BY <1>4, NatSeqs DEF StreamInv
      <4>3. Stream(<<>> \o <<>> \o <<>>, <<>> \o tx[c], sent[c])
        BY <4>1, <4>2, StreamStart
      <4>. QED
        BY <1>1, <1>8, <2>1, <3>1, <4>1, <4>3
    <3>2. CASE g # f
      <4>1. conn'[g] = conn[g] /\ ~Gone(conn[g].client)
        BY <1>8, <2>1, <2>9, <3>2 DEF Gone
      <4>. QED
        BY <1>1, <1>8, <2>9, <4>1, ItsStream
    <3>. QED
      BY <3>1, <3>2
  <2>10. InOrder'
    BY <2>9 DEF InOrder, Gone
  <2>. QED
    BY <2>8, <2>10
<1>9. ASSUME peer' = [peer EXCEPT ![c] = "gone"], tx' = [tx EXCEPT ![c] = <<>>], UNCHANGED conn
      PROVE  ClientInv' /\ InOrder'
  <2>1. /\ peer'[c] = "gone"
        /\ \A x \in Clients : x # c => peer'[x] = peer[x] /\ tx'[x] = tx[x]
    BY <1>3, <1>4, <1>9 DEF ClientTypes
  <2>2. \A x : Served(x)' <=> Served(x)
    BY <1>9 DEF Served
  <2>3. \A x \in Clients : x # c => (Untouched(x)' <=> Untouched(x))
    BY <1>1, <2>1 DEF Untouched
  <2>4. \A g, h \in Fds : conn'[g] # None /\ conn'[h] # None /\ conn'[g].client = conn'[h].client
                            => g = h
    BY <1>9 DEF StreamInv, ClientInv
  <2>5. \A x \in Clients : Served(x)' => peer'[x] \notin {"new", "gone"}
    BY <1>6, <2>1, <2>2 DEF StreamInv, ClientInv
  <2>6. ASSUME NEW x \in Members(backlog')
        PROVE  peer'[x] \notin {"new", "gone"} /\ ~Served(x)' /\ Untouched(x)'
    <3>1. x \in Members(backlog) /\ x \in Clients /\ x # c
      BY <1>5, InBacklog DEF StreamInv
    <3>2. peer[x] \notin {"new", "gone"} /\ ~Served(x) /\ Untouched(x)
      BY <3>1 DEF StreamInv, ClientInv
    <3>. QED
      BY <2>1, <2>2, <2>3, <3>1, <3>2
  <2>7. \A x \in Clients : peer'[x] = "new" => Untouched(x)' /\ sent'[x] = 0
    BY <1>1, <2>1, <2>3 DEF StreamInv, ClientInv
  <2>8. ClientInv'
    BY <1>5, <2>4, <2>5, <2>6, <2>7 DEF ClientInv
  <2>9. ASSUME NEW g \in Fds, conn'[g] # None, peer'[conn'[g].client] \notin {"reset", "broken"}
        PROVE  LET x == conn'[g].client
               IN Stream(got'[x] \o rx'[x] \o conn'[g].outgoing, conn'[g].incoming \o tx'[x], sent'[x])
    <3>1. /\ conn'[g] = conn[g] /\ conn[g] # None /\ conn[g].client \in Clients
          /\ conn[g].client # c
      BY <1>3, <1>7, <1>9, <2>9
    <3>2. ~Gone(conn[g].client)
      BY <2>1, <2>9, <3>1 DEF Gone
    <3>. QED
      BY <1>1, <2>1, <3>1, <3>2, ItsStream
  <2>10. InOrder'
    BY <2>9 DEF InOrder, Gone
  <2>. QED
    BY <2>8, <2>10
<1>. QED
  BY <1>2, <1>8, <1>9

LEMMA InitStreamInv == Init => StreamInv
<1> SUFFICES ASSUME Init PROVE StreamInv
  OBVIOUS
<1>1. /\ \A f \in Fds : conn[f] = None
      /\ \A c \in Clients : /\ peer[c] = "new" /\ sent[c] = 0 /\ got[c] = <<>> /\ rx[c] = <<>>
                            /\ tx[c] = <<>>
      /\ backlog = <<>>
  BY DEF Init
<1>2. \A c \in Clients : Untouched(c)
  <2>1. Requests(0 + 1, 0) = [k \in 1 .. 0 - 2 * 0 |-> 2 * 0 + k]
    BY RequestsFrom
  <2>2. Requests(1, 0) = <<>>
    <3>1. 1 .. 0 - 2 * 0 = {}
      OBVIOUS
    <3>2. Requests(1, 0) = [k \in 1 .. 0 - 2 * 0 |-> 2 * 0 + k]
      BY <2>1
    <3> DEFINE q == [k \in 1 .. 0 - 2 * 0 |-> 2 * 0 + k]
    <3>3. q \in Seq(Nat) /\ Len(q) = 0
      BY <3>1
    <3>. QED
      BY <3>2, <3>3, EmptySeq
  <2>. QED
    BY <1>1, <2>2 DEF Untouched
<1>3. \A c : ~Served(c)
  BY <1>1 DEF Served
<1>4. ClientInv
  BY <1>1, <1>2, <1>3 DEF ClientInv, Members, NoneTwice
<1>5. InOrder
  BY <1>1 DEF InOrder
<1>. QED
  BY <1>4, <1>5, InitIInv DEF StreamInv

LEMMA StepStreamInv == StreamInv /\ [Next]_vars => StreamInv'
<1> SUFFICES ASSUME StreamInv, [Next]_vars PROVE ClientInv' /\ InOrder'
  BY StepIInv DEF StreamInv
<1>1. CASE UNCHANGED vars
  BY <1>1, SameStreams DEF vars, serverVars
<1>2. CASE \E c \in Clients : ClientStep(c) \/ Receive(c)
  BY <1>2, ConnectStreams, SendStreams, EndStreams, ReceiveStreams DEF ClientStep
<1>3. CASE epoll_wait \/ AcceptEvent \/ ConnEvent \/ AcceptDone \/ process_timers \/ TimersDone
  <2>1. UNCHANGED <<conn, clientVars>>
    BY <1>3 DEF epoll_wait, AcceptEvent, ConnEvent, AcceptDone, process_timers, TimersDone
  <2>. QED
    BY <2>1, SameStreams
<1>4. CASE handle_accept \/ handle_read \/ try_process_one_request \/ update_intention
           \/ handle_write \/ EventDone \/ CloseIdle
  BY <1>4, AcceptStreams, ReadStreams, TryProcessStreams, IntentionStreams, WriteStreams,
     EndingStreams
<1>. QED
  BY <1>1, <1>2, <1>3, <1>4 DEF Next, ServerStep

(* However read() and write() cut the two streams of a connection up, what *)
(* a client has got, with what is on its way and in outgoing, is the       *)
(* responses to its first requests, once each and in order, and incoming   *)
(* with what is on its way to the server is all its other requests.        *)
THEOREM ResponsesInOrderCorrect == Spec => []ResponsesInOrder
<1>1. StreamInv => ResponsesInOrder
  <2> SUFFICES ASSUME StreamInv, NEW f \in Fds, conn[f] # None, ~Gone(conn[f].client)
               PROVE  LET c    == conn[f].client
                          out  == got[c] \o rx[c] \o conn[f].outgoing
                          done == Len(out) \div 2
                      IN /\ out = Responses(done)
                         /\ conn[f].incoming \o tx[c] = Requests(done + 1, sent[c])
    BY DEF ResponsesInOrder
  <2> DEFINE c == conn[f].client
             v == got[c] \o rx[c]
             out == v \o conn[f].outgoing
             in == conn[f].incoming \o tx[c]
             n == sent[c]
  <2>1. conn[f] \in Conns
    BY DEF StreamInv, IInv, TypeOK
  <2>2. c \in Clients
    BY <2>1, ConnFields
  <2>3. /\ got[c] \in Seq(Nat) /\ rx[c] \in Seq(Nat) /\ tx[c] \in Seq(Nat) /\ n \in Nat
        /\ conn[f].incoming \in Seq(Nat) /\ conn[f].outgoing \in Seq(Nat)
    BY <2>1, <2>2, NatSeqs DEF StreamInv
  <2>4. v \in Seq(Nat) /\ in \in Seq(Nat)
    BY <2>3, ConcatProperties
  <2>5. Stream(out, in, n)
    BY ItsStream
  <2> HIDE DEF v, in, n
  <2>6. out \in Seq(Nat)
    BY <2>3, <2>4, ConcatProperties
  <2> HIDE DEF out
  <2>7. out = Responses(Len(out) \div 2) /\ in = Requests(Len(out) \div 2 + 1, n)
    BY <2>3, <2>4, <2>5, <2>6, StreamMeaning
  <2>. QED
    BY <2>7 DEF v, out, in, n
<1>. QED
  BY <1>1, InitStreamInv, StepStreamInv, PTL DEF Spec

=============================================================================
