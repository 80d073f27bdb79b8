----------------------------- MODULE KfifoQueue -----------------------------
(***************************************************************************)
(* What the ring of source/common/kfifo.h promises: a FIFO queue of at     *)
(* most Size bytes.  A write appends the next bytes of the stream in one   *)
(* step, a read removes bytes from the front in one step, and a call that  *)
(* finds less room or fewer bytes than it asked for does what it can.      *)
(***************************************************************************)
EXTENDS Integers, Sequences

CONSTANT Size

VARIABLES
  q,    \* the bytes in the queue, each the position it has in the stream
  next  \* the position of the next byte to be written

(* The k bytes of the stream that are written next.                        *)
Fresh(k) == [i \in 1..k |-> next + i - 1]

Init == q = << >> /\ next = 0

Put ==
  \E k \in 1..(Size - Len(q)) :
    /\ q' = q \o Fresh(k)
    /\ next' = next + k

Get ==
  \E k \in 1..Len(q) :
    /\ q' = SubSeq(q, k + 1, Len(q))
    /\ UNCHANGED next

Next == Put \/ Get

Spec == Init /\ [][Next]_<<q, next>>
=============================================================================
