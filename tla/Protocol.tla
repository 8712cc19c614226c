------------------------------ MODULE Protocol ------------------------------
(***************************************************************************)
(* Requests and responses cell by cell, between a client of                *)
(* src/src/client/api.cc and its connection in src/src/server/conn.cc:     *)
(* the framing of messages, the parsing of requests, the rollback of a     *)
(* response that is too big, and the two buffers, over reads and writes    *)
(* of any size.                                                            *)
(*                                                                         *)
(* What a command answers is any of Answers; the keys are in Keyspace.     *)
(* The event loop calls handle_read() and handle_write() as EventLoop has  *)
(* it; here they are taken whenever the connection wants them and they can *)
(* do something.                                                           *)
(***************************************************************************)
EXTENDS Tlv, FiniteSets

CONSTANTS
  Commands,     (* what a user of the client asks: sequences of strings    *)
  Malformed,    (* payloads of other clients that are no command           *)
  Answers,      (* what the commands may answer: values                    *)
  MaxMsg,       (* k_max_msg                                               *)
  MaxArgs,      (* k_max_args                                              *)
  TooBig,       (* the error "response too big"                            *)
  HardMin,      (* 4096: the default capacity, and what is always kept     *)
  WorthIt,      (* 1 MB: what the outgoing buffer keeps, and the capacity  *)
                (* from which an incoming buffer in use is shrunk          *)
  ReadMax,      (* cells one read() returns at most                        *)
  MaxReqs,      (* bound: requests of the client                           *)
  Pipes         (* how many requests the client sends ahead, and the cells *)
                (* a socket holds on their way: [ahead, room]              *)

ASSUME ConstantsAssumption ==
  /\ \A n \in {MaxMsg, MaxArgs, HardMin, WorthIt, ReadMax, MaxReqs} : n \in Nat \ {0}
  /\ \A p \in Pipes : p.ahead \in Nat \ {0} /\ p.room \in Nat \ {0}
  /\ HardMin < WorthIt
  /\ TooBig.tag = TAG_ERR /\ 1 + 2 * Width + Len(TooBig.msg) <= MaxMsg
  /\ MaxMsg \in Numbers(Width)

ASSUME TypesAssumption ==
  /\ Commands \subseteq Seq(Seq(Cell)) /\ Malformed \subseteq Seq(Cell)
  /\ TooBig \in Scalars /\ Answers \subseteq Values

VARIABLES
  incoming, outgoing,   (* the buffers of the connection                   *)
  want_close,
  server,               (* "wait", "parse", "flush", or "closed"           *)
  said                  (* the requests served, each with its answer       *)

serverVars == <<incoming, outgoing, want_close, server, said>>

VARIABLES
  client,   (* "idle", "sending", "reading", "done", or "failed"           *)
  wbuf,     (* what send_req() has still to write                          *)
  rbuf,     (* what read_res() has read                                    *)
  asked,    (* the requests made                                           *)
  heard     (* the responses printed                                       *)

clientVars == <<client, wbuf, rbuf, asked, heard>>

VARIABLES
  pipe,     (* the member of Pipes                                         *)
  c2s, s2c  (* cells on their way                                          *)

vars == <<serverVars, clientVars, pipe, c2s, s2c>>

Init ==
  /\ incoming = NewBuffer(HardMin) /\ outgoing = NewBuffer(HardMin)
  /\ want_close = FALSE
  /\ server = "wait"
  /\ said = <<>>
  /\ client = "idle" /\ wbuf = <<>> /\ rbuf = <<>> /\ asked = <<>> /\ heard = <<>>
  /\ pipe \in Pipes /\ c2s = <<>> /\ s2c = <<>>

Take(s, n) == SubSeq(s, 1, n)
Skip(s, n) == SubSeq(s, n + 1, Len(s))

-----------------------------------------------------------------------------
(* The client. *)
Command(cmd) == [cmd |-> cmd]
Raw(data) == [raw |-> data]
Requests == {Command(cmd) : cmd \in Commands} \cup {Raw(data) : data \in Malformed}

WithLength(s) == U32(Len(s)) \o s

Payload(r) ==
  IF "raw" \in DOMAIN r THEN r.raw
  ELSE U32(Len(r.cmd)) \o FlattenSeq([i \in DOMAIN r.cmd |-> WithLength(r.cmd[i])])

(* send_req(): a payload of more than k_max_msg is not sent.  A client     *)
(* that is not ours keeps to that too.                                     *)
send_req(r) ==
  /\ client = "idle"
  /\ Len(asked) < MaxReqs /\ Len(asked) - Len(heard) < pipe.ahead
  /\ asked' = Append(asked, r)
  /\ IF Len(Payload(r)) > MaxMsg
     THEN client' = "failed" /\ UNCHANGED wbuf
     ELSE client' = "sending" /\ wbuf' = WithLength(Payload(r))
  /\ UNCHANGED <<serverVars, rbuf, heard, pipe, c2s, s2c>>

(* write_all(): what the socket takes at a time.  After the server has     *)
(* closed, the first cells are answered with a reset, which drops what was *)
(* on its way back; then writing fails.                                    *)
write_all ==
  /\ client = "sending"
  /\ \/ LET n == Smaller(Len(wbuf), pipe.room - Len(c2s))
        IN /\ server # "closed" /\ n > 0
           /\ c2s' = c2s \o Take(wbuf, n)
           /\ wbuf' = Skip(wbuf, n)
           /\ client' = IF n = Len(wbuf) THEN "idle" ELSE "sending"
           /\ UNCHANGED s2c
     \/ /\ server = "closed"
        /\ wbuf' = <<>> /\ s2c' = <<>> /\ client' \in {"idle", "failed"}
        /\ UNCHANGED c2s
  /\ UNCHANGED <<serverVars, rbuf, asked, heard, pipe>>

read_res ==
  /\ client = "idle"
  /\ Len(heard) < Len(asked)
  /\ client' = "reading"
  /\ UNCHANGED <<serverVars, wbuf, rbuf, asked, heard, pipe, c2s, s2c>>

(* What a message that begins with these cells has in all, as far as they  *)
(* tell                                                                    *)
MessageSize(cells) ==
  Width + (IF Len(cells) < Width THEN 0 ELSE Number(Take(cells, Width)))

(* Read to its end, or too large to be read at all *)
ResponseRead ==
  /\ Len(rbuf) >= Width
  /\ Len(rbuf) = MessageSize(rbuf) \/ MessageSize(rbuf) > Width + MaxMsg

(* read_full() of the header and of the body: one read() of what is there. *)
read_full ==
  LET n == Smaller(Len(s2c), MessageSize(rbuf) - Len(rbuf))
  IN /\ client = "reading" /\ ~ResponseRead /\ n > 0
     /\ rbuf' = rbuf \o Take(s2c, n)
     /\ s2c' = Skip(s2c, n)
     /\ UNCHANGED <<serverVars, client, wbuf, asked, heard, pipe, c2s>>

(* The message is printed, unless it is too large, unreadable, or more     *)
(* than one value.                                                         *)
PrintResponse ==
  /\ client = "reading"
  /\ ResponseRead
  /\ LET res == print_response(Skip(rbuf, Width))
     IN IF MessageSize(rbuf) <= Width + MaxMsg /\ res.next = Len(rbuf) - Width + 1
        THEN client' = "idle" /\ heard' = Append(heard, res.val)
        ELSE client' = "failed" /\ UNCHANGED heard
  /\ rbuf' = <<>>
  /\ UNCHANGED <<serverVars, wbuf, asked, pipe, c2s, s2c>>

(* read() returns 0 or an error where more was expected. *)
ReadFails ==
  /\ client = "reading" /\ server = "closed" /\ s2c = <<>>
  /\ ~ResponseRead
  /\ client' = "failed"
  /\ UNCHANGED <<serverVars, wbuf, rbuf, asked, heard, pipe, c2s, s2c>>

(* main() closes the socket after the last response. *)
Finish ==
  /\ client = "idle" /\ Len(heard) = Len(asked) /\ Len(asked) = MaxReqs
  /\ client' = "done"
  /\ UNCHANGED <<serverVars, wbuf, rbuf, asked, heard, pipe, c2s, s2c>>

ClientStep ==
  \/ \E r \in Requests : send_req(r)
  \/ write_all \/ read_res \/ read_full \/ PrintResponse \/ ReadFails \/ Finish

-----------------------------------------------------------------------------
(* The server. *)
ClientEnded == client \in {"done", "failed"}

(* handle_read() with data.  The connection wants to read only while there *)
(* is nothing to write.                                                    *)
handle_read ==
  /\ server = "wait"
  /\ readable_size(outgoing) = 0
  /\ \E n \in 1 .. Smaller(ReadMax, Len(c2s)) :
       /\ incoming' = append(incoming, Take(c2s, n))
       /\ c2s' = Skip(c2s, n)
  /\ server' = "parse"
  /\ UNCHANGED <<outgoing, want_close, said, clientVars, pipe, s2c>>

(* handle_read() at the end of the stream, or any handler after a reset    *)
ClientGone ==
  /\ server = "wait"
  /\ ClientEnded
  /\ server' = "closed"
  /\ UNCHANGED <<incoming, outgoing, want_close, said, clientVars, pipe, c2s, s2c>>

-----------------------------------------------------------------------------
(* The strings of a request, each with its length before it *)
Strings(data) ==
  LET nstr == Number(Take(data, Width))
      string == [i \in 1 .. Len(data) + 1 |->
                   IF HasString(data, i) THEN Read(AfterString(data, i), StringAt(data, i))
                   ELSE Unreadable]
  IN IF Len(data) < Width \/ nstr > MaxArgs THEN Unreadable
     ELSE Elements(1 + Width, nstr, string)

(* parse_req(): nothing may follow the last string. *)
parse_req(data) ==
  LET all == Strings(data)
  IN IF all.next = Len(data) + 1 THEN all ELSE Unreadable

ASSUME MalformedAssumption == \A data \in Malformed : Fails(parse_req(data))

response_begin(buf) == append(push_placeholder(buf), U32(0))

(* a mutant: the length of the header is counted *)
response_size_with_header(buf) == writable_begin(buf) - peek_placeholder(buf)

response_size(buf) == writable_begin(buf) - peek_placeholder(buf) - Width

(* a mutant: the rollback drops the placeholder of the length too *)
response_end_from_start(buf) ==
  IF response_size(buf) <= MaxMsg THEN Backfill(buf, response_size(buf))
  ELSE LET error == out_scalar([buf EXCEPT !.buf = Take(@, peek_placeholder(buf))], TooBig)
       IN Backfill(error, response_size(error))

(* response_end(): a response that is too big is rolled back to its header *)
(* and replaced.                                                           *)
response_end(buf) ==
  IF response_size(buf) <= MaxMsg THEN Backfill(buf, response_size(buf))
  ELSE LET header == peek_placeholder(buf) + Width
           error == out_scalar([buf EXCEPT !.buf = Take(@, header)], TooBig)
       IN Backfill(error, response_size(error))

(* The body of the first message, once it is complete.  The lengths above  *)
(* k_max_msg, over which the server aborts, are not sent here.             *)
NextLength == Number(Take(readable_data(incoming), Width))
RequestBody == SubSeq(readable_data(incoming), Width + 1, Width + NextLength)
HasRequest ==
  /\ readable_size(incoming) >= Width
  /\ Width + NextLength <= readable_size(incoming)

(* A request that is no command ends the loop of handle_read(). *)
try_process_one_request ==
  /\ server = "parse" /\ ~want_close
  /\ HasRequest
  /\ LET req == parse_req(RequestBody)
     IN IF Fails(req)
        THEN want_close' = TRUE /\ UNCHANGED <<incoming, outgoing, said>>
        ELSE \E v \in Answers :
               /\ outgoing' = response_end(out_val(response_begin(outgoing), v))
               /\ said' = Append(said, [req |-> Command(req.val), val |-> v])
               /\ incoming' = consume(incoming, Width + NextLength)
               /\ UNCHANGED want_close
  /\ UNCHANGED <<server, clientVars, pipe, c2s, s2c>>

(* The rest of handle_read(): shrink, and write if there is something to. *)
Wasteful(buf) ==
  \/ readable_size(buf) = 0
  \/ /\ buf.capacity > WorthIt
     /\ readable_size(buf) < buf.capacity \div 8
     /\ readable_size(buf) < HardMin

AfterHandler == server' = IF want_close THEN "close" ELSE "wait"

EndOfRead ==
  /\ server = "parse"
  /\ want_close \/ ~HasRequest
  /\ incoming' = IF Wasteful(incoming) THEN shrink_if_wasteful(incoming, HardMin) ELSE incoming
  /\ IF readable_size(outgoing) > 0 THEN server' = "flush" ELSE AfterHandler
  /\ UNCHANGED <<outgoing, want_close, said, clientVars, pipe, c2s, s2c>>

(* handle_write(), of any part that the socket has room for.  The one that *)
(* handle_read() calls may find none.                                      *)
handle_write ==
  /\ readable_size(outgoing) > 0
  /\ LET room == pipe.room - Len(s2c)
     IN /\ server = "flush" \/ (server = "wait" /\ room > 0)
        /\ \E n \in (IF room = 0 THEN {0} ELSE 1 .. Smaller(room, readable_size(outgoing))) :
             /\ s2c' = s2c \o Take(readable_data(outgoing), n)
             /\ outgoing' = LET rest == consume(outgoing, n)
                            IN IF readable_size(rest) = 0 THEN shrink_if_wasteful(rest, WorthIt)
                               ELSE rest
  /\ AfterHandler
  /\ UNCHANGED <<incoming, want_close, said, clientVars, pipe, c2s>>

(* conn_destroy().  Closing a socket with unread data resets it, and what  *)
(* was on its way to the client may be lost.                               *)
conn_destroy ==
  /\ server = "close"
  /\ server' = "closed"
  /\ s2c' \in {s2c} \cup (IF c2s = <<>> THEN {} ELSE {<<>>})
  /\ UNCHANGED <<incoming, outgoing, want_close, said, clientVars, pipe, c2s>>

ServerStep ==
  \/ handle_read \/ ClientGone \/ try_process_one_request \/ EndOfRead
  \/ handle_write \/ conn_destroy

Next == ClientStep \/ ServerStep

Fairness == WF_vars(Next)

Spec == Init /\ [][Next]_vars /\ Fairness

-----------------------------------------------------------------------------
IsBuffer(b) ==
  /\ b.buf \in Seq(Cell) /\ writable_begin(b) <= b.capacity
  /\ b.readable_begin < writable_begin(b) \/ (b.readable_begin = 0 /\ b.buf = <<>>)
  /\ b.placeholder_stack = <<>>

(* No buffer is written beyond its array, and a buffer with nothing to     *)
(* read is at its start; no position is left to be filled in.              *)
TypeOK ==
  /\ IsBuffer(incoming) /\ IsBuffer(outgoing)
  /\ want_close \in BOOLEAN
  /\ server \in {"wait", "parse", "flush", "close", "closed"}
  /\ client \in {"idle", "sending", "reading", "done", "failed"}
  /\ \A i \in DOMAIN said : said[i].val \in Answers
  /\ asked \in Seq(Requests) /\ Len(heard) <= Len(asked)
  /\ pipe \in Pipes /\ Len(c2s) <= pipe.room /\ Len(s2c) <= pipe.room

(* The incoming buffer never takes more than twice what the beginning of   *)
(* a message and one read() need, however the messages are cut, and gives  *)
(* it back once they are answered; the outgoing one gives back what is     *)
(* beyond WorthIt once it is written.                                      *)
BuffersSound ==
  /\ TypeOK
  /\ incoming.capacity <= Larger(HardMin, 2 * (Width + MaxMsg + ReadMax))
  /\ server = "wait" =>
       /\ readable_size(incoming) = 0 => incoming.capacity = HardMin
       /\ readable_size(outgoing) = 0 => outgoing.capacity <= WorthIt

(* Each size is what the client is told of the value: its tag, and all of  *)
(* the numbers and strings in it.                                          *)
ScalarSize(v) ==
  CASE v.tag = TAG_NIL -> 1
    [] v.tag = TAG_STR -> 1 + Width + Len(v.str)
    [] v.tag = TAG_ERR -> 1 + 2 * Width + Len(v.msg)
    [] OTHER -> 1 + 2 * Width

Size(v) ==
  LET upto[i \in 0 .. Len(v.arr)] ==
        IF i = 0 THEN 1 + Width ELSE upto[i - 1] + ScalarSize(v.arr[i])
  IN IF v.tag # TAG_ARR THEN ScalarSize(v) ELSE upto[Len(v.arr)]

Promise == INSTANCE Exchange WITH
  Served     <- {Command(cmd) : cmd \in {c \in Commands : Len(c) <= MaxArgs}},
  Refused    <- {Command(cmd) : cmd \in {c \in Commands : Len(c) > MaxArgs}}
                  \cup {Raw(data) : data \in Malformed},
  Unsendable <- {r \in Requests : Len(Payload(r)) > MaxMsg},
  Shown      <- [v \in Answers |-> IF Size(v) > MaxMsg THEN TooBig ELSE v],
  ended      <- IF ClientEnded THEN client ELSE "no"

(* However the streams are cut into reads and writes, every request that   *)
(* is served was sent, is answered once and in order, and the client       *)
(* prints what the command answered; it fails only over a bad request.     *)
ImplementsExchange == Promise!Spec

(* The client is never left waiting for the rest of a message. *)
ClientEnds == <>ClientEnded
=============================================================================
