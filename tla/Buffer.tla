------------------------------- MODULE Buffer -------------------------------
(***************************************************************************)
(* The byte buffer of a connection (src/src/proto/buffer.cc): what has     *)
(* been written and not yet consumed, in an array that is moved to its     *)
(* front, grown and shrunk, with the positions that are to be filled in    *)
(* later.  A cell stands for a byte.                                       *)
(***************************************************************************)
EXTENDS Integers, Sequences

(* buf is the array up to writable_begin, which is its length.  The cells  *)
(* of the array beyond it are never read.                                  *)
NewBuffer(init_cap) ==
  [buf |-> <<>>, readable_begin |-> 0, capacity |-> init_cap, placeholder_stack |-> <<>>]

writable_begin(b) == Len(b.buf)
readable_size(b) == writable_begin(b) - b.readable_begin
writable_size(b) == b.capacity - writable_begin(b)
readable_data(b) == SubSeq(b.buf, b.readable_begin + 1, writable_begin(b))

Larger(m, n) == IF m >= n THEN m ELSE n
Smaller(m, n) == IF m <= n THEN m ELSE n

(* a mutant: the data are moved and readable_begin is not reset *)
FrontKeepingBegin(b, cap) ==
  [b EXCEPT !.buf = readable_data(b), !.capacity = cap,
            !.readable_begin = Smaller(@, readable_size(b))]

(* The unread data at the front of an array of cap cells, with all that    *)
(* refers to them.                                                         *)
ToFront(b, cap) ==
  [buf |-> readable_data(b), readable_begin |-> 0, capacity |-> cap,
   placeholder_stack |->
     [i \in DOMAIN b.placeholder_stack |->
        LET pos == b.placeholder_stack[i]
        IN IF pos >= b.readable_begin THEN pos - b.readable_begin ELSE pos]]

ensure_writable(b, size) ==
  CASE writable_size(b) >= size -> b
    [] writable_size(b) < size /\ b.readable_begin + writable_size(b) >= size ->
         ToFront(b, b.capacity)
    [] OTHER -> ToFront(b, Larger(2 * b.capacity, readable_size(b) + size))

append(b, data) == [ensure_writable(b, Len(data)) EXCEPT !.buf = @ \o data]

(* Everything consumed: back to the start of the array *)
consume(b, size) ==
  LET begin == b.readable_begin + Smaller(size, readable_size(b))
  IN IF begin >= writable_begin(b) THEN [b EXCEPT !.readable_begin = 0, !.buf = <<>>]
     ELSE [b EXCEPT !.readable_begin = begin]

shrink_if_wasteful(b, hard_min) ==
  IF b.capacity > Larger(hard_min, 4 * readable_size(b))
  THEN ToFront(b, Larger(hard_min, 2 * readable_size(b)))
  ELSE b

(* The positions still to be filled in; the last pushed goes first. *)
push_placeholder(b) == [b EXCEPT !.placeholder_stack = Append(@, writable_begin(b))]
peek_placeholder(b) == b.placeholder_stack[Len(b.placeholder_stack)]
drop_placeholder(b) ==
  [b EXCEPT !.placeholder_stack = SubSeq(@, 1, Len(b.placeholder_stack) - 1)]
=============================================================================
