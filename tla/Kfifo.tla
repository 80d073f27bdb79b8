------------------------------- MODULE Kfifo -------------------------------
(***************************************************************************)
(* The lock-free byte ring of source/common/kfifo.h, shared by one writer  *)
(* (a caller of __kfifo_in) and one reader (a caller of __kfifo_out or     *)
(* __kfifo_out_peek) that run concurrently in two processes.               *)
(*                                                                         *)
(* The struct's in and out are unsigned ints that run free and wrap at 2^w *)
(* (here at Wrap); a byte's place in the buffer is its index masked by     *)
(* mask = Size - 1.  Each call is three kinds of step: read the two        *)
(* indices and clamp the length, copy byte after byte, publish the index.  *)
(* memcpy copies in no particular order, so the copy steps take the bytes  *)
(* in any order.                                                           *)
(*                                                                         *)
(* The bytes themselves do not matter to the queue, so each byte written   *)
(* is its own position in the stream: a byte that is lost, duplicated,     *)
(* reordered or overwritten shows as a wrong number in the reader's buffer.*)
(***************************************************************************)
EXTENDS Integers

CONSTANTS
  Size,    \* capacity in elements, mask + 1 (a power of two in the code)
  Laps,    \* how many times Size fits into the range of unsigned int
  MaxLen,  \* bound: the longest length a caller asks for
  MaxSent  \* bound: how many bytes are written in a behaviour

ASSUME KfifoAssumption ==
  /\ Size \in Nat \ {0}
  /\ Laps \in Nat /\ Laps >= 2
  /\ MaxLen \in Nat \ {0}
  /\ MaxSent \in Nat

VARIABLES
  in, out,    \* the free-running indices of struct __kfifo
  data,       \* the buffer behind struct __kfifo
  wlen, woff, wtodo, wpc,        \* the frame of __kfifo_in / kfifo_copy_in
  rlen, roff, rtodo, rpc, dst,   \* the frame of __kfifo_out, and its buffer
  sent, taken \* history: bytes published, bytes removed since __kfifo_init

fifo   == <<in, out, data>>
writer == <<wlen, woff, wtodo, wpc>>
reader == <<rlen, roff, rtodo, rpc, dst>>
vars   == <<fifo, writer, reader, sent, taken>>

(* unsigned int arithmetic: everything is modulo Wrap. *)
Wrap == Laps * Size

(* off &= fifo->mask, for a Size that is a power of two. *)
Masked(index) == index % Size

(* A byte no call has written: what the segment held before. *)
Blank == -1

(* Mutant: the fill taken as a signed difference, wrong once in wraps.     *)
kfifo_lenSigned == in - out

(* Mutant: one slot too many reported free.                                *)
kfifo_unusedPlusOne == (Size + 1 - (in - out)) % Wrap

(* The fill and the free space, in unsigned arithmetic.                    *)
kfifo_len      == (in - out) % Wrap
kfifo_unused   == (Size - (in - out)) % Wrap

(* The clamp of a requested length to what there is.                       *)
Clamp(len, l) == IF len > l THEN l ELSE len

(* Where the two memcpy calls of kfifo_copy_in and kfifo_copy_out put or   *)
(* find byte i of a transfer of len bytes at masked offset off: the first  *)
(* l bytes from off to the end of the buffer, the rest from its start.     *)
Place(off, len, i) ==
  LET l == Clamp(len, Size - off)
  IN  IF i < l THEN off + i ELSE i - l

-----------------------------------------------------------------------------
(* __kfifo_init with a buffer of Size elements of one byte.                *)
Init ==
  /\ in = 0 /\ out = 0
  /\ data = [s \in 0..(Size - 1) |-> Blank]
  /\ wpc = "idle" /\ wlen = 0 /\ woff = 0 /\ wtodo = {}
  /\ rpc = "idle" /\ rlen = 0 /\ roff = 0 /\ rtodo = {}
  /\ dst = [i \in 0..(Size - 1) |-> Blank]
  /\ sent = 0 /\ taken = 0

(* Mutant: the requested length is not clamped to the free space.          *)
KfifoInNoClamp(len) ==
  /\ wpc = "idle"
  /\ sent + len <= MaxSent
  /\ wlen' = len
  /\ woff' = Masked(in)
  /\ wtodo' = 0..(wlen' - 1)
  /\ wpc' = "copy"
  /\ UNCHANGED <<fifo, reader, sent, taken>>

(* __kfifo_in enters: the free space is read once, the length clamped.     *)
KfifoIn(len) ==
  /\ wpc = "idle"
  /\ sent + len <= MaxSent
  /\ wlen' = Clamp(len, kfifo_unused)
  /\ woff' = Masked(in)
  /\ wtodo' = 0..(wlen' - 1)
  /\ wpc' = "copy"
  /\ UNCHANGED <<fifo, reader, sent, taken>>

(* kfifo_copy_in: one byte of either memcpy.                               *)
KfifoCopyIn ==
  /\ wpc = "copy"
  /\ \E i \in wtodo :
       /\ data' = [data EXCEPT ![Place(woff, wlen, i)] = sent + i]
       /\ wtodo' = wtodo \ {i}
  /\ UNCHANGED <<in, out, wlen, woff, wpc, reader, sent, taken>>

(* Mutant: in is published while bytes are still being copied.             *)
KfifoInDoneEarly ==
  /\ wpc = "copy"
  /\ in' = (in + wlen) % Wrap
  /\ sent' = sent + wlen
  /\ wpc' = "idle"
  /\ UNCHANGED <<out, data, wlen, woff, wtodo, reader, taken>>

(* Past __sync_synchronize every byte is in the buffer; fifo->in += len.   *)
KfifoInDone ==
  /\ wpc = "copy"
  /\ wtodo = {}
  /\ in' = (in + wlen) % Wrap
  /\ sent' = sent + wlen
  /\ wpc' = "idle"
  /\ UNCHANGED <<out, data, wlen, woff, wtodo, reader, taken>>

(* __kfifo_out or __kfifo_out_peek enters: the fill is read, the length    *)
(* clamped.  "peek" is a call of __kfifo_out_peek alone.                   *)
KfifoOutPeek(len, call) ==
  /\ rpc = "idle"
  /\ rlen' = Clamp(len, kfifo_len)
  /\ roff' = Masked(out)
  /\ rtodo' = 0..(rlen' - 1)
  /\ rpc' = call
  /\ UNCHANGED <<fifo, writer, dst, sent, taken>>

(* kfifo_copy_out: one byte of either memcpy into the caller's buffer.     *)
KfifoCopyOut ==
  /\ rpc \in {"peek", "out"}
  /\ \E i \in rtodo :
       /\ dst' = [dst EXCEPT ![i] = data[Place(roff, rlen, i)]]
       /\ rtodo' = rtodo \ {i}
  /\ UNCHANGED <<fifo, writer, rlen, roff, rpc, sent, taken>>

(* __kfifo_out_peek returns; within __kfifo_out, fifo->out += len.         *)
KfifoOutDone ==
  /\ rpc = "out"
  /\ rtodo = {}
  /\ out' = (out + rlen) % Wrap
  /\ taken' = taken + rlen
  /\ rpc' = "idle"
  /\ UNCHANGED <<in, data, writer, rlen, roff, rtodo, dst, sent>>

KfifoPeekDone ==
  /\ rpc = "peek"
  /\ rtodo = {}
  /\ rpc' = "idle"
  /\ UNCHANGED <<fifo, writer, rlen, roff, rtodo, dst, sent, taken>>

Next ==
  \/ \E len \in 1..MaxLen : KfifoIn(len)
  \/ KfifoCopyIn
  \/ KfifoInDone
  \/ \E len \in 1..MaxLen, call \in {"peek", "out"} : KfifoOutPeek(len, call)
  \/ KfifoCopyOut
  \/ KfifoOutDone
  \/ KfifoPeekDone

Spec == Init /\ [][Next]_vars

-----------------------------------------------------------------------------
(* The values each variable holds.                                         *)
TypeOK ==
  /\ in \in 0..(Wrap - 1) /\ out \in 0..(Wrap - 1)
  /\ sent \in Nat /\ taken \in Nat
  /\ data \in [0..(Size - 1) -> Nat \cup {Blank}]
  /\ dst \in [0..(Size - 1) -> Nat \cup {Blank}]
  /\ wpc \in {"idle", "copy"} /\ rpc \in {"idle", "peek", "out"}
  /\ wlen \in 0..Size /\ woff \in 0..(Size - 1)
  /\ rlen \in 0..Size /\ roff \in 0..(Size - 1)
  /\ wtodo \in SUBSET (0..(wlen - 1))
  /\ rtodo \in SUBSET (0..(rlen - 1))

(* The indices are the two stream positions modulo Wrap, never further     *)
(* apart than the buffer is long.                                          *)
Indices ==
  /\ in = sent % Wrap
  /\ out = taken % Wrap
  /\ taken <= sent
  /\ sent - taken <= Size

(* Every byte between the indices is in its slot, whatever the writer is   *)
(* doing to the slots outside them.                                        *)
Contents == \A p \in taken..(sent - 1) : data[Masked(p)] = p

(* A call of the writer holds only slots that were free when it began, and *)
(* the bytes copied so far are in them.                                    *)
WriterClaim ==
  wpc = "copy" =>
    /\ woff = Masked(sent)
    /\ wlen + (sent - taken) <= Size
    /\ \A i \in (0..(wlen - 1)) \ wtodo : data[Masked(sent + i)] = sent + i

(* A call of the reader holds only published bytes.                        *)
ReaderClaim ==
  rpc # "idle" =>
    /\ roff = Masked(taken)
    /\ rlen <= sent - taken

(* __kfifo_out and __kfifo_out_peek hand out the bytes of the stream in    *)
(* the order they were written, none lost, doubled or overwritten: what    *)
(* has been copied so far is the stream from the first byte not yet taken. *)
Delivered ==
  rpc # "idle" =>
    \A i \in (0..(rlen - 1)) \ rtodo : dst[i] = taken + i

(* The writer's memcpy and the reader's memcpy never touch the same byte   *)
(* of the buffer: without a lock, that is what makes the ring safe.        *)
NoDataRace ==
  (wpc = "copy" /\ rpc # "idle") =>
    \A i \in wtodo, j \in rtodo : Place(woff, wlen, i) # Place(roff, rlen, j)

(* kfifo_len is the number of bytes in the ring and kfifo_unused the       *)
(* number of free slots, also after in and out have wrapped.               *)
Occupancy ==
  /\ kfifo_len = sent - taken
  /\ kfifo_unused = Size - (sent - taken)

(* What every step preserves, and what the four statements above rest on.  *)
RingInvariant ==
  /\ TypeOK
  /\ Indices
  /\ Contents
  /\ WriterClaim
  /\ ReaderClaim
  /\ Delivered

(* The ring implements a bounded FIFO queue: its contents are the bytes    *)
(* found from out on, and only the two index updates change them.          *)
Queue == INSTANCE KfifoQueue WITH
  q <- [i \in 1..kfifo_len |-> data[Masked(out + i - 1)]],
  next <- sent

QueueSpec == Queue!Spec
=============================================================================
