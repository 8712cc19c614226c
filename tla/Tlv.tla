-------------------------------- MODULE Tlv ---------------------------------
(***************************************************************************)
(* The serialization of responses (src/src/proto/tlv.cc) and what the      *)
(* client makes of it (print_response in src/src/client/api.cc): a tag,    *)
(* then numbers of a fixed width, the length of a string before the        *)
(* string, the number of elements before an array.                         *)
(*                                                                         *)
(* A cell holds one of Base values, a u32 is Width cells and an int64 or   *)
(* a double twice as many, the low cell first.  A value is a record of its *)
(* tag and its content: str, int, dbl, arr (a sequence of values), or code *)
(* and msg of an error.  A string is a sequence of cells.                  *)
(***************************************************************************)
EXTENDS Buffer, SequencesExt

CONSTANTS
  Base,     (* values of a cell        *)
  Width     (* cells of a u32          *)

ASSUME CellsAssumption == Base \in Nat /\ Base >= 6 /\ Width \in Nat \ {0}

TAG_NIL == 0
TAG_ERR == 1
TAG_STR == 2
TAG_INT == 3
TAG_DBL == 4
TAG_ARR == 5

(* What is left of a number after each of its cells *)
Shifted(n, width) ==
  LET rest[i \in 0 .. width] == IF i = 0 THEN n ELSE rest[i - 1] \div Base
  IN rest

Cells(n, width) == [i \in 1 .. width |-> Shifted(n, width)[i - 1] % Base]
U32(n) == Cells(n, Width)
I64(n) == Cells(n, 2 * Width)
Number(cells) == FoldRight(LAMBDA cell, high : cell + Base * high, cells, 0)

(* Part of data, from its i-th cell *)
At(data, i, size) == SubSeq(data, i, i + size - 1)

Cell == 0 .. Base - 1

(* The numbers that fit; of an int64 or a double it is the bits that count. *)
Numbers(width) == {n \in Nat : Shifted(n, width)[width] = 0}

(* The values that are written *)
Scalars ==
  [tag : {TAG_NIL}] \cup [tag : {TAG_STR}, str : Seq(Cell)]
  \cup [tag : {TAG_INT}, int : Numbers(2 * Width)]
  \cup [tag : {TAG_DBL}, dbl : Numbers(2 * Width)]
  \cup [tag : {TAG_ERR}, code : Numbers(Width), msg : Seq(Cell)]

Values == Scalars \cup [tag : {TAG_ARR}, arr : Seq(Scalars)]

-----------------------------------------------------------------------------
(* Writing: out_nil(), out_str(), out_int(), out_dbl(), out_err(). *)
out_scalar(buf, v) ==
  CASE v.tag = TAG_NIL -> append(buf, <<TAG_NIL>>)
    [] v.tag = TAG_STR -> append(append(append(buf, <<TAG_STR>>), U32(Len(v.str))), v.str)
    [] v.tag = TAG_INT -> append(append(buf, <<TAG_INT>>), I64(v.int))
    [] v.tag = TAG_DBL -> append(append(buf, <<TAG_DBL>>), I64(v.dbl))
    [] v.tag = TAG_ERR -> append(append(append(append(buf, <<TAG_ERR>>), U32(v.code)),
                                        U32(Len(v.msg))), v.msg)

out_arr(buf, n) == append(append(buf, <<TAG_ARR>>), U32(n))

out_begin_arr(buf) == append(push_placeholder(append(buf, <<TAG_ARR>>)), U32(0))

(* A number at the last placeholder, which is done with *)
Backfill(buf, n) ==
  LET pos == peek_placeholder(buf)
  IN [drop_placeholder(buf) EXCEPT !.buf =
        [i \in DOMAIN buf.buf |-> IF i - pos \in 1 .. Width THEN U32(n)[i - pos] ELSE buf.buf[i]]]

out_end_arr(buf, n) == Backfill(buf, n)

(* What a command makes of its answer.  do_keys() knows how many strings   *)
(* there will be, do_zquery() counts its pairs as it goes.                 *)
out_val(buf, v) ==
  CASE v.tag # TAG_ARR -> out_scalar(buf, v)
    [] v.tag = TAG_ARR /\ (\A i \in DOMAIN v.arr : v.arr[i].tag = TAG_STR) ->
         FoldLeft(out_scalar, out_arr(buf, Len(v.arr)), v.arr)
    [] OTHER ->
         out_end_arr(FoldLeft(out_scalar, out_begin_arr(buf), v.arr), Len(v.arr))

-----------------------------------------------------------------------------
(* Reading.  Where the next value begins, and the value. *)
Read(next, v) == [next |-> next, val |-> v]
Unreadable == [next |-> -1]
Fails(res) == res.next = -1

(* A string with its length before it, if all of it is there.  end is the  *)
(* position after the last cell.                                           *)
HasString(data, i) ==
  LET end == Len(data) + 1
  IN i + Width <= end /\ i + Width + Number(At(data, i, Width)) <= end
StringAt(data, i) == At(data, i + Width, Number(At(data, i, Width)))
AfterString(data, i) == i + Width + Number(At(data, i, Width))

(* The first n values from i on, where read has the one at each position *)
Elements(i, n, read) ==
  LET elements[k \in 0 .. n] ==
        IF k = 0 THEN Read(i, <<>>)
        ELSE LET before == elements[k - 1]
                 this   == read[before.next]
             IN IF Fails(before) \/ Fails(this) THEN Unreadable
                ELSE Read(this.next, Append(before.val, this.val))
  IN elements[n]

(* The value that begins at i, given those that begin behind it *)
PrintAt(data, i, print) ==
  LET end == Len(data) + 1
      number == 2 * Width
      tag == data[i]
  IN CASE i = end -> Unreadable
       [] i < end /\ tag = TAG_NIL -> Read(i + 1, [tag |-> TAG_NIL])
       [] i < end /\ tag = TAG_STR /\ HasString(data, i + 1) ->
            Read(AfterString(data, i + 1), [tag |-> TAG_STR, str |-> StringAt(data, i + 1)])
       [] i < end /\ tag = TAG_ERR /\ HasString(data, i + 1 + Width) ->
            Read(AfterString(data, i + 1 + Width),
                 [tag |-> TAG_ERR, code |-> Number(At(data, i + 1, Width)),
                  msg |-> StringAt(data, i + 1 + Width)])
       [] i + number < end /\ tag = TAG_INT ->
            Read(i + 1 + number, [tag |-> TAG_INT, int |-> Number(At(data, i + 1, number))])
       [] i + number < end /\ tag = TAG_DBL ->
            Read(i + 1 + number, [tag |-> TAG_DBL, dbl |-> Number(At(data, i + 1, number))])
       [] i + Width < end /\ tag = TAG_ARR ->
            LET all == Elements(i + 1 + Width, Number(At(data, i + 1, Width)), print)
            IN IF Fails(all) THEN Unreadable
               ELSE Read(all.next, [tag |-> TAG_ARR, arr |-> all.val])
       [] OTHER -> Unreadable

(* print_response() of the value at the beginning *)
print_response(data) ==
  LET print[i \in 1 .. Len(data) + 1] == PrintAt(data, i, print)
  IN print[1]
=============================================================================
