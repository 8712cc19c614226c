----------------------------- MODULE EventLoop -----------------------------
(***************************************************************************)
(* The event loop (src/src/server/main.cc) and the connections it drives   *)
(* (src/src/server/conn.cc): level-triggered epoll over non-blocking       *)
(* sockets, request pipelining, buffered responses, and the idle list.     *)
(* One thread runs the loop; between any two of its steps the clients and  *)
(* the kernel may do theirs.                                               *)
(*                                                                         *)
(* A request is two units on the wire, its length and its body; so is a    *)
(* response.  Unit 2n-1 and 2n of a client's stream are its n-th request,  *)
(* and the units of the n-th response are both called n.  What a command   *)
(* does to the keys is in Keyspace; when an idle connection is due is in   *)
(* Timers, here the oldest ones may go after any batch.                    *)
(***************************************************************************)
EXTENDS IdleList, FiniteSets

CONSTANTS
  Clients,    (* each connects at most once                             *)
  Fds,        (* descriptors accept() can return                        *)
  Listen,     (* the listening socket                                   *)
  Kinds,      (* requests: "ok", "bad" to parse, or "huge" (> k_max_msg) *)
  Faults,     (* what may happen: "eof", "reset", "accept" (it fails),  *)
              (* "add" (epoll_ctl fails), "idle" (for too long)         *)
  MaxReqs,    (* bound: requests per client                             *)
  ReadMax,    (* units one read() returns at most                       *)
  RxCap,      (* units the send buffer of a socket holds                *)
  MaxEvents,  (* events one epoll_wait() returns at most                *)
  None

ASSUME ConstantsAssumption ==
  /\ Fds \subseteq Nat /\ Listen \notin Fds
  /\ Kinds \subseteq {"ok", "bad", "huge"}
  /\ Faults \subseteq {"eof", "reset", "accept", "add", "idle"}
  /\ \A n \in {MaxReqs, ReadMax, RxCap, MaxEvents} : n \in Nat \ {0}

(* struct Conn, with the client at its other end; and struct epoll_event,  *)
(* with the client its connection had.                                     *)
Conns ==
  [want_read : BOOLEAN, want_write : BOOLEAN, want_close : BOOLEAN,
   incoming : Seq(1 .. 2 * MaxReqs), outgoing : Seq(1 .. MaxReqs), client : Clients]

Events ==
  [fd : Fds \cup {Listen}, mask : SUBSET {"in", "out", "err"}, client : Clients \cup {None}]

ASSUME NoneAssumption == None \notin Conns \cup Events

VARIABLES
  up,         (* "up", "aborted" by die(), or "killed" by a signal      *)
  conn,       (* g_data.fd2conn                                         *)
  interest,   (* the epoll registration of every fd, or None            *)
  idle_list,  (* g_data.idle_list, as the sequence of its fds           *)
  pc,         (* where the loop is                                      *)
  batch,      (* the events of epoll_wait() still to handle             *)
  ev          (* the one being handled                                  *)

serverVars == <<up, conn, interest, idle_list, pc, batch, ev>>

VARIABLES
  script,   (* the kind of every request a client is going to send      *)
  peer,     (* the client's side: "new", "open", "eof" (no more data),  *)
            (* "reset" (RST while open), "broken" (RST after its EOF),  *)
            (* or "gone": the server has closed                         *)
  backlog,  (* clients waiting in the listening socket's queue          *)
  sent,     (* units the client has sent                                *)
  tx, rx,   (* the socket buffers towards the server and the client     *)
  got       (* what the client has received                             *)

clientVars == <<script, peer, backlog, sent, tx, rx, got>>
vars == <<serverVars, clientVars>>

Init ==
  /\ up = "up"
  /\ conn = [f \in Fds |-> None]
  /\ interest = [f \in Fds |-> None]
  /\ idle_list = <<>>
  /\ pc = "wait" /\ batch = {} /\ ev = None
  /\ script \in [Clients -> [1 .. MaxReqs -> Kinds]]
  /\ peer = [c \in Clients |-> "new"]
  /\ backlog = <<>>
  /\ sent = [c \in Clients |-> 0]
  /\ tx = [c \in Clients |-> <<>>]
  /\ rx = [c \in Clients |-> <<>>]
  /\ got = [c \in Clients |-> <<>>]

Take(s, n) == SubSeq(s, 1, n)
Skip(s, n) == SubSeq(s, n + 1, Len(s))
Lesser(m, n) == IF m <= n THEN m ELSE n

Gone(c) == peer[c] \in {"reset", "broken"}

-----------------------------------------------------------------------------
(* The clients and the network. *)
Connect(c) ==
  /\ peer[c] = "new"
  /\ peer' = [peer EXCEPT ![c] = "open"]
  /\ backlog' = Append(backlog, c)
  /\ UNCHANGED <<serverVars, script, sent, tx, rx, got>>

Send(c) ==
  /\ peer[c] = "open"
  /\ sent[c] < 2 * MaxReqs
  /\ sent' = [sent EXCEPT ![c] = @ + 1]
  /\ tx' = [tx EXCEPT ![c] = Append(@, sent[c] + 1)]
  /\ UNCHANGED <<serverVars, script, peer, backlog, rx, got>>

Receive(c) ==
  /\ rx[c] # <<>>
  /\ got' = [got EXCEPT ![c] = Append(@, Head(rx[c]))]
  /\ rx' = [rx EXCEPT ![c] = Tail(@)]
  /\ UNCHANGED <<serverVars, script, peer, backlog, sent, tx>>

EndOfFile(c) ==
  /\ "eof" \in Faults
  /\ peer[c] = "open"
  /\ peer' = [peer EXCEPT ![c] = "eof"]
  /\ UNCHANGED <<serverVars, script, backlog, sent, tx, rx, got>>

(* A reset loses what was on its way to the client.  After an EOF it comes *)
(* in answer to data the client no longer accepts.                         *)
Reset(c) ==
  /\ "reset" \in Faults
  /\ \/ peer[c] = "open" /\ peer' = [peer EXCEPT ![c] = "reset"]
     \/ peer[c] = "eof" /\ rx[c] # <<>> /\ peer' = [peer EXCEPT ![c] = "broken"]
  /\ rx' = [rx EXCEPT ![c] = <<>>]
  /\ UNCHANGED <<serverVars, script, backlog, sent, tx, got>>

ClientStep(c) == Connect(c) \/ Send(c) \/ EndOfFile(c) \/ Reset(c)

-----------------------------------------------------------------------------
(* epoll_update_interest() of a connection with the given flags *)
Flags(cn) ==
  (IF cn.want_read THEN {"in"} ELSE {}) \cup (IF cn.want_write THEN {"out"} ELSE {})

(* a mutant: the connection stays on the idle list *)
DestroyedKeepingIdle(f, conns, list) ==
  /\ conn' = [conns EXCEPT ![f] = None]
  /\ interest' = [interest EXCEPT ![f] = None]
  /\ idle_list' = list
  /\ peer' = [peer EXCEPT ![conns[f].client] = "gone"]
  /\ tx' = [tx EXCEPT ![conns[f].client] = <<>>]

(* conn_destroy(): unregister, close(), and forget the connection, which   *)
(* is on the given list.                                                   *)
Destroyed(f, conns, list) ==
  /\ conn' = [conns EXCEPT ![f] = None]
  /\ interest' = [interest EXCEPT ![f] = None]
  /\ idle_list' = dlist_detach(list, f)
  /\ peer' = [peer EXCEPT ![conns[f].client] = "gone"]
  /\ tx' = [tx EXCEPT ![conns[f].client] = <<>>]

conn_destroy(f) ==
  /\ Destroyed(f, conn, idle_list)
  /\ UNCHANGED <<script, backlog, sent, rx, got>>

-----------------------------------------------------------------------------
(* epoll_wait(): level-triggered, and errors are always reported. *)
Space(c) == RxCap - Len(rx[c])

Mask(f) ==
  LET c == conn[f].client
  IN {e \in interest[f] : \/ e = "in" /\ (tx[c] # <<>> \/ peer[c] = "eof" \/ Gone(c))
                          \/ e = "out" /\ (Space(c) > 0 \/ Gone(c))}
     \cup (IF Gone(c) THEN {"err"} ELSE {})

Ready ==
  {[fd |-> f, mask |-> Mask(f), client |-> conn[f].client] :
     f \in {g \in Fds : interest[g] # None /\ Mask(g) # {}}}
  \cup (IF backlog # <<>>
        THEN {[fd |-> Listen, mask |-> {"in"}, client |-> None]} ELSE {})

(* a mutant: the timers are handled before the events *)
epoll_wait_and_timers ==
  /\ pc = "wait"
  /\ batch' \in IF Cardinality(Ready) <= MaxEvents THEN {Ready}
                ELSE {B \in SUBSET Ready : Cardinality(B) = MaxEvents}
  /\ pc' = "events"
  /\ \/ idle_list # <<>> /\ conn_destroy(Head(idle_list))
     \/ UNCHANGED <<conn, interest, idle_list, clientVars>>
  /\ UNCHANGED <<up, ev>>

(* More events than fit are left for the next call; without any, the call  *)
(* ends with its timeout.                                                  *)
epoll_wait ==
  /\ pc = "wait"
  /\ batch' \in IF Cardinality(Ready) <= MaxEvents THEN {Ready}
                ELSE {B \in SUBSET Ready : Cardinality(B) = MaxEvents}
  /\ pc' = "events"
  /\ UNCHANGED <<up, conn, interest, idle_list, ev, clientVars>>

-----------------------------------------------------------------------------
(* The events of a batch come in any order.  One whose connection is gone  *)
(* is skipped.                                                             *)
AcceptEvent ==
  /\ pc = "events"
  /\ \E e \in batch : e.fd = Listen /\ batch' = batch \ {e}
  /\ pc' = "accept"
  /\ UNCHANGED <<up, conn, interest, idle_list, ev, clientVars>>

ConnEvent ==
  /\ pc = "events"
  /\ \E e \in batch :
       /\ e.fd # Listen
       /\ conn[e.fd] # None
       /\ batch' = batch \ {e}
       /\ ev' = e
       /\ idle_list' = Append(dlist_detach(idle_list, e.fd), e.fd)
       /\ pc' = IF "in" \in e.mask THEN "in"
                ELSE IF "out" \in e.mask THEN "out" ELSE "end"
  /\ UNCHANGED <<up, conn, interest, clientVars>>

(***************************************************************************)
(* handle_accept(), a connection at a time.  The kernel gives out the      *)
(* lowest descriptor.  A connection is in fd2conn and on the idle list     *)
(* before epoll knows it, so that it is destroyed when EPOLL_CTL_ADD       *)
(* fails.  When there is no descriptor (EMFILE), or for another reason,    *)
(* accept() fails and the clients stay in the backlog.                     *)
(***************************************************************************)
FreeFds == {f \in Fds : conn[f] = None}

NewConn(c) ==
  [want_read |-> TRUE, want_write |-> FALSE, want_close |-> FALSE,
   incoming |-> <<>>, outgoing |-> <<>>, client |-> c]

handle_accept ==
  /\ pc = "accept"
  /\ backlog # <<>>
  /\ \E f \in FreeFds :
       LET conns == [conn EXCEPT ![f] = NewConn(Head(backlog))]
           list  == Append(idle_list, f)
       IN /\ \A g \in FreeFds : f <= g
          /\ \/ /\ conn' = conns
                /\ idle_list' = list
                /\ interest' = [interest EXCEPT ![f] = {"in"}]
                /\ UNCHANGED <<peer, tx>>
             \/ /\ "add" \in Faults
                /\ Destroyed(f, conns, list)
  /\ backlog' = Tail(backlog)
  /\ UNCHANGED <<up, pc, batch, ev, script, sent, rx, got>>

AcceptDone ==
  /\ pc = "accept"
  /\ backlog = <<>> \/ FreeFds = {} \/ "accept" \in Faults
  /\ pc' = "events"
  /\ UNCHANGED <<up, conn, interest, idle_list, batch, ev, clientVars>>

-----------------------------------------------------------------------------
(* The connection of the event being handled, its client and its fields. *)
fd == ev.fd
me == conn[fd]
cl == me.client

Update(cn) == conn' = [conn EXCEPT ![fd] = cn]

(* a mutant: the kernel is not told *)
RearmNothing(cn) == UNCHANGED interest

(* epoll_update_interest(conn) *)
Rearm(cn) == interest' = [interest EXCEPT ![fd] = Flags(cn)]

AfterRead == IF "out" \in ev.mask THEN "out" ELSE "end"

(* a mutant: the connection is destroyed where EOF is seen *)
handle_read_destroying ==
  /\ pc = "in"
  /\ \/ /\ tx[cl] # <<>>
        /\ LET n == Lesser(Len(tx[cl]), ReadMax)
           IN /\ Update([me EXCEPT !.incoming = @ \o Take(tx[cl], n)])
              /\ tx' = [tx EXCEPT ![cl] = Skip(@, n)]
        /\ pc' = "parse"
        /\ UNCHANGED <<interest, idle_list, script, peer, backlog, sent, rx, got>>
     \/ /\ tx[cl] = <<>>
        /\ conn_destroy(fd)
        /\ pc' = "end"
  /\ UNCHANGED <<up, batch, ev>>

(* handle_read(): read() *)
handle_read ==
  /\ pc = "in"
  /\ \/ /\ tx[cl] # <<>>
        /\ LET n == Lesser(Len(tx[cl]), ReadMax)
           IN /\ Update([me EXCEPT !.incoming = @ \o Take(tx[cl], n)])
              /\ tx' = [tx EXCEPT ![cl] = Skip(@, n)]
        /\ pc' = "parse"
     \/ /\ tx[cl] = <<>>  (* EOF, or an error *)
        /\ Update([me EXCEPT !.want_close = TRUE])
        /\ pc' = AfterRead
        /\ UNCHANGED tx
  /\ UNCHANGED <<up, interest, idle_list, batch, ev,
                 script, peer, backlog, sent, rx, got>>

(* The kind of the request at the head of incoming, and its response. *)
Nth       == (Head(me.incoming) + 1) \div 2
Kind      == script[cl][Nth]
Response  == <<Nth, Nth>>

NeedMore == me.incoming # <<>> => Kind # "huge" /\ Len(me.incoming) < 2

(* a mutant: the length, not the request, is consumed *)
ConsumedHeader == Skip(me.incoming, 1)

Consumed == Skip(me.incoming, 2)

(* a mutant: a bad request is left at that *)
RefusedSilently == me

Refused == [me EXCEPT !.want_close = TRUE]

(* One try_process_one_request(); the loop ends when it returns false. *)
try_process_one_request ==
  /\ pc = "parse"
  /\ \/ /\ NeedMore
        /\ pc' = "intent"
        /\ UNCHANGED <<up, conn>>
     \/ /\ ~NeedMore /\ Kind = "huge"
        /\ up' = "aborted"  (* die() *)
        /\ pc' = "dead"
        /\ UNCHANGED conn
     \/ /\ ~NeedMore /\ Kind = "bad"
        /\ Update(Refused)
        /\ pc' = "intent"
        /\ UNCHANGED up
     \/ /\ ~NeedMore /\ Kind = "ok"
        /\ Update([me EXCEPT !.outgoing = @ \o Response, !.incoming = Consumed])
        /\ UNCHANGED <<up, pc>>
  /\ UNCHANGED <<interest, idle_list, batch, ev, clientVars>>

(* a mutant: the connection goes on reading while a response is pending *)
update_intention_reading_on ==
  /\ pc = "intent"
  /\ \/ /\ me.outgoing # <<>>
        /\ Update([me EXCEPT !.want_write = TRUE])
        /\ pc' = "flush"
        /\ UNCHANGED interest
     \/ /\ me.outgoing = <<>>
        /\ Rearm(me)
        /\ pc' = AfterRead
        /\ UNCHANGED conn
  /\ UNCHANGED <<up, idle_list, batch, ev, clientVars>>

(* The end of handle_read(): a response is written at once. *)
update_intention ==
  /\ pc = "intent"
  /\ \/ /\ me.outgoing # <<>>
        /\ Update([me EXCEPT !.want_read = FALSE, !.want_write = TRUE])
        /\ pc' = "flush"
        /\ UNCHANGED interest
     \/ /\ me.outgoing = <<>>
        /\ Rearm(me)
        /\ pc' = AfterRead
        /\ UNCHANGED conn
  /\ UNCHANGED <<up, idle_list, batch, ev, clientVars>>

(***************************************************************************)
(* handle_write(), called at the end of handle_read() ("flush") and for    *)
(* EPOLLOUT ("out").  After a reset write() fails; when the client had     *)
(* already ended its stream the failure is EPIPE, and the default action   *)
(* of SIGPIPE ends the process.                                            *)
(***************************************************************************)
(* a mutant: the connection wants to write until the next response *)
WrittenStillWriting(n) ==
  LET rest == Skip(me.outgoing, n)
  IN IF rest = <<>>
     THEN [me EXCEPT !.outgoing = rest, !.want_read = TRUE]
     ELSE [me EXCEPT !.outgoing = rest]

Written(n) ==
  LET rest == Skip(me.outgoing, n)
  IN IF rest = <<>>
     THEN [me EXCEPT !.outgoing = rest, !.want_write = FALSE, !.want_read = TRUE]
     ELSE [me EXCEPT !.outgoing = rest]

handle_write ==
  /\ pc \in {"flush", "out"}
  /\ \/ /\ ~Gone(cl) /\ Space(cl) > 0
        /\ LET n == Lesser(Len(me.outgoing), Space(cl))
           IN /\ Update(Written(n))
              /\ Rearm(Written(n))
              /\ rx' = [rx EXCEPT ![cl] = @ \o Take(me.outgoing, n)]
        /\ pc' = IF pc = "flush" THEN AfterRead ELSE "end"
        /\ UNCHANGED up
     \/ /\ ~Gone(cl) /\ Space(cl) = 0  (* EAGAIN *)
        /\ Rearm(me)
        /\ pc' = IF pc = "flush" THEN AfterRead ELSE "end"
        /\ UNCHANGED <<up, conn, rx>>
     \/ /\ peer[cl] = "reset"
        /\ Update([me EXCEPT !.want_close = TRUE])
        /\ pc' = IF pc = "flush" THEN AfterRead ELSE "end"
        /\ UNCHANGED <<up, interest, rx>>
     \/ /\ peer[cl] = "broken"
        /\ up' = "killed"
        /\ pc' = "dead"
        /\ UNCHANGED <<conn, interest, rx>>
  /\ UNCHANGED <<idle_list, batch, ev, script, peer, backlog, sent, tx, got>>

(* The end of an event: close on error, EOF or request. *)
EventDone ==
  /\ pc = "end"
  /\ pc' = "events"
  /\ ev' = None
  /\ \/ /\ "err" \in ev.mask \/ me.want_close
        /\ conn_destroy(fd)
     \/ /\ ~("err" \in ev.mask \/ me.want_close)
        /\ UNCHANGED <<conn, interest, idle_list, clientVars>>
  /\ UNCHANGED <<up, batch>>

(* process_timers(), when only events without a connection are left: some  *)
(* of the connections that were idle longest go.                           *)
process_timers ==
  /\ pc = "events"
  /\ \A e \in batch : e.fd # Listen /\ conn[e.fd] = None
  /\ batch' = {}
  /\ pc' = "timers"
  /\ UNCHANGED <<up, conn, interest, idle_list, ev, clientVars>>

CloseIdle ==
  /\ "idle" \in Faults
  /\ pc = "timers"
  /\ idle_list # <<>>
  /\ conn_destroy(Head(idle_list))
  /\ UNCHANGED <<up, pc, batch, ev>>

TimersDone ==
  /\ pc = "timers"
  /\ pc' = "wait"
  /\ UNCHANGED <<up, conn, interest, idle_list, batch, ev, clientVars>>

ServerStep ==
  \/ epoll_wait \/ AcceptEvent \/ ConnEvent \/ handle_accept \/ AcceptDone
  \/ handle_read \/ try_process_one_request \/ update_intention \/ handle_write
  \/ EventDone \/ process_timers \/ TimersDone

Next ==
  \/ ServerStep \/ CloseIdle
  \/ \E c \in Clients : ClientStep(c) \/ Receive(c)

(***************************************************************************)
(* The loop runs, and a client reads what has arrived for it.  It need not *)
(* send, and no connection has to be idle for long.                        *)
(***************************************************************************)
Spec == Init /\ [][Next]_vars /\ WF_vars(ServerStep) /\ \A c \in Clients : WF_vars(Receive(c))

-----------------------------------------------------------------------------
(* Every variable keeps its type: a descriptor is registered with epoll    *)
(* only while fd2conn has a connection for it, and while main() is in the  *)
(* handlers of an event its connection is still there (no use after        *)
(* conn_destroy()).                                                        *)
TypeOK ==
  /\ up \in {"up", "aborted", "killed"}
  /\ conn \in [Fds -> Conns \cup {None}]
  /\ interest \in [Fds -> {None} \cup SUBSET {"in", "out"}]
  /\ \A f \in Fds : conn[f] = None => interest[f] = None
  /\ \A f \in Fds : conn[f] # None => interest[f] \in SUBSET {"in", "out"}
  /\ idle_list \in Seq(Fds)
  /\ pc \in {"wait", "events", "accept", "in", "parse", "intent", "flush", "out",
             "end", "timers", "dead"}
  /\ pc = "dead" <=> up # "up"
  /\ batch \in SUBSET Events
  /\ ev \in Events \cup {None}
  /\ pc \in {"in", "parse", "intent", "flush", "out", "end"} =>
       ev # None /\ ev.fd \in Fds /\ conn[ev.fd] # None
  /\ script \in [Clients -> [1 .. MaxReqs -> Kinds]]
  /\ peer \in [Clients -> {"new", "open", "eof", "reset", "broken", "gone"}]
  /\ backlog \in Seq(Clients)
  /\ sent \in [Clients -> 0 .. 2 * MaxReqs]
  /\ tx \in [Clients -> Seq(1 .. 2 * MaxReqs)]
  /\ rx \in [Clients -> Seq(1 .. MaxReqs)]
  /\ got \in [Clients -> Seq(1 .. MaxReqs)]
  /\ \A c \in Clients : tx[c] \in Seq(1 .. sent[c]) /\ Len(rx[c]) <= RxCap

(* epoll_update_interest() is called on most paths of conn.cc and left out *)
(* on others.  Whenever the loop is about to wait, the kernel has the      *)
(* flags of every connection, a connection waits for exactly one           *)
(* direction, for writing when it owes its client something, and none is   *)
(* left that should have been closed.                                      *)
InterestInSync ==
  pc = "wait" =>
    \A f \in Fds : conn[f] # None =>
      /\ interest[f] = Flags(conn[f])
      /\ conn[f].want_read # conn[f].want_write
      /\ conn[f].want_write <=> conn[f].outgoing # <<>>
      /\ ~conn[f].want_close

(* The assertions of main() and handle_write(): want_read when a           *)
(* connection is read, want_write and something to write when it is        *)
(* written, whatever the other events of the batch did.                    *)
AssertsHold ==
  /\ pc = "in" => me.want_read
  /\ pc = "out" => me.want_write
  /\ pc \in {"flush", "out"} => me.outgoing # <<>>

(* Descriptors are reused at once: a connection closed early in a batch    *)
(* may have its number given to a client accepted later in it.  No event   *)
(* of the first is ever taken for one of the second.                       *)
EventForItsConn ==
  \A e \in batch \cup ({ev} \ {None}) :
    e.fd # Listen /\ conn[e.fd] # None => conn[e.fd].client = e.client

(* The idle list, an intrusive list through the connections themselves,    *)
(* has every open connection once and no other, so that neither the list   *)
(* nor a timer can reach a deleted one.                                    *)
IdleListIsConns ==
  /\ Members(idle_list) = Fds \ FreeFds
  /\ Len(idle_list) = Cardinality(Fds \ FreeFds)

(* The two units of each response up to the n-th, and the units of the     *)
(* requests from the m-th on                                               *)
Responses(n)   == [i \in 1 .. 2 * n |-> (i + 1) \div 2]
Requests(m, k) == [i \in 1 .. k - 2 * (m - 1) |-> 2 * (m - 1) + i]

(* A client's requests are answered once each and in order, however they   *)
(* are cut up by read() and write(): what it has received, what is on the  *)
(* way and what is in outgoing are the responses to the first requests,    *)
(* and incoming and what is on the way to the server are all the others.   *)
ResponsesInOrder ==
  \A f \in Fds : conn[f] # None =>
    LET c    == conn[f].client
        out  == got[c] \o rx[c] \o conn[f].outgoing
        done == Len(out) \div 2
    IN ~Gone(c) => /\ out = Responses(done)
                   /\ conn[f].incoming \o tx[c] = Requests(done + 1, sent[c])

(* A client that does not read its responses is not read from either: the  *)
(* outgoing buffer never has more than the responses to one read().        *)
OutgoingBounded ==
  \A f \in Fds : conn[f] # None =>
    Len(conn[f].outgoing) <= 2 * ((ReadMax + 1) \div 2)

(* Every request of a client that sends only good ones is answered in the  *)
(* end, also after the client has ended its stream, unless the connection  *)
(* is reset: no readiness is lost between the flags, epoll and the buffers *)
Answered ==
  \A c \in Clients, n \in 1 .. MaxReqs :
    (\A m \in 1 .. MaxReqs : script[c][m] = "ok") =>
      (sent[c] >= 2 * n /\ peer[c] # "gone" ~> Len(got[c]) >= 2 * n \/ Gone(c))

(* A client that sends a request parse_req() refuses is cut off, whatever  *)
(* came before it and wherever it was cut, as long as the server lives.    *)
BadOnesClosed ==
  \A c \in Clients, n \in 1 .. MaxReqs :
    script[c][n] = "bad" /\ sent[c] >= 2 * n ~> peer[c] = "gone" \/ up # "up"

(* "error handling" (conn.cc:145), "close the socket from socket error"    *)
(* (main.cc:104): a write() that fails ends its own connection and not the *)
(* server.                                                                 *)
WriteErrorClosesConn == up # "killed"

=============================================================================
