---------------------------- MODULE KfifoProofs ----------------------------
(***************************************************************************)
(* Proofs about the ring of Kfifo.tla, for every buffer size, every range  *)
(* of the indices that is a multiple of it, and streams of any length: the *)
(* inductive invariant, what follows from it, and that the ring implements *)
(* the queue of KfifoQueue.tla.                                            *)
(***************************************************************************)
EXTENDS Kfifo, SequenceTheorems, TLAPS

(* Division with remainder: the quotient and the remainder exist and the   *)
(* remainder is in range.                                                  *)
LEMMA DivMod ==
  ASSUME NEW x \in Int, NEW n \in Nat \ {0}
  PROVE  /\ x % n \in 0..(n - 1)
         /\ x \div n \in Int
         /\ x = n * (x \div n) + (x % n)
  OBVIOUS

(* The remainder is the only number in range that differs from x by a      *)
(* multiple of n.                                                          *)
LEMMA ModUnique ==
  ASSUME NEW x \in Int, NEW n \in Nat \ {0}, NEW k \in Int,
         NEW r \in 0..(n - 1), x = n * k + r
  PROVE  x % n = r
<1> DEFINE q == x \div n
           s == x % n
<1>1. q \in Int /\ s \in 0..(n - 1) /\ x = n * q + s
  BY DivMod
<1> HIDE DEF q, s
<1>2. n * (k - q) = s - r
  BY <1>1
<1>3. k - q = 0
  <2>1. CASE k - q >= 1
    <3>1. n * (k - q) >= n
      BY <2>1, <1>1
    <3> QED BY <3>1, <1>2, <1>1
  <2>2. CASE k - q <= -1
    <3>1. n * (k - q) <= -n
      BY <2>2, <1>1
    <3> QED BY <3>1, <1>2, <1>1
  <2> QED BY <2>1, <2>2, <1>1
<1>4. s = r
  BY <1>2, <1>3, <1>1
<1> QED BY <1>4 DEF s

(* A number already in range is its own remainder.                         *)
LEMMA ModSmall ==
  ASSUME NEW n \in Nat \ {0}, NEW r \in 0..(n - 1)
  PROVE  r % n = r
<1>1. r \in Int /\ 0 \in Int /\ r = n * 0 + r
  OBVIOUS
<1> QED BY <1>1, ModUnique

(* An index that wraps at n may be advanced after or before the wrap.      *)
LEMMA ModAdd ==
  ASSUME NEW a \in Int, NEW b \in Int, NEW n \in Nat \ {0}
  PROVE  ((a % n) + b) % n = (a + b) % n
<1> DEFINE q == a \div n
           r == a % n
           p == (a + b) \div n
           s == (a + b) % n
<1>1. q \in Int /\ r \in 0..(n - 1) /\ a = n * q + r
  BY DivMod
<1>2. p \in Int /\ s \in 0..(n - 1) /\ a + b = n * p + s
  <2>1. a + b \in Int
    OBVIOUS
  <2> QED BY <2>1, DivMod
<1> HIDE DEF q, r, p, s
<1>3. r + b \in Int /\ p - q \in Int /\ r + b = n * (p - q) + s
  BY <1>1, <1>2
<1>4. (r + b) % n = s
  BY <1>2, <1>3, ModUnique
<1> QED BY <1>4 DEF r, s

(* The slot of a position does not depend on how often the index wrapped:  *)
(* the range of the index is a multiple of the size of the buffer.         *)
LEMMA ModOfMod ==
  ASSUME NEW x \in Int, NEW n \in Nat \ {0}, NEW m \in Nat \ {0}
  PROVE  (x % (m * n)) % n = x % n
<1> DEFINE w == m * n
           q == x \div w
           r == x % w
           p == x \div n
           s == x % n
<1>0. w \in Nat \ {0}
  OBVIOUS
<1>1. q \in Int /\ r \in 0..(w - 1) /\ x = w * q + r
  <2> HIDE DEF w
  <2> QED BY <1>0, DivMod
<1>2. p \in Int /\ s \in 0..(n - 1) /\ x = n * p + s
  BY DivMod
<1>a. w * q = n * (m * q)
  <2> HIDE DEF q, r, p, s
  <2> QED BY <1>1
<1> HIDE DEF q, r, p, s, w
<1>3. r \in Int /\ m * q \in Int /\ r = n * p - n * (m * q) + s
  BY <1>0, <1>1, <1>2, <1>a
<1>4. n * p - n * (m * q) = n * (p - m * q) /\ p - m * q \in Int
  BY <1>2, <1>3
<1>5. PICK k \in Int : r = n * k + s
  BY <1>3, <1>4
<1>6. r % n = s
  BY <1>2, <1>3, <1>5, ModUnique
<1> QED BY <1>6 DEF r, s, w

(* The unsigned difference of two wrapped indices is the distance of the   *)
(* positions, as long as that is in the range of the index.                *)
LEMMA ModDiff ==
  ASSUME NEW a \in Int, NEW b \in Int, NEW n \in Nat \ {0},
         a - b \in 0..(n - 1)
  PROVE  ((a % n) - (b % n)) % n = a - b
<1> DEFINE q == a \div n
           r == a % n
           p == b \div n
           s == b % n
<1>1. q \in Int /\ r \in 0..(n - 1) /\ a = n * q + r
  BY DivMod
<1>2. p \in Int /\ s \in 0..(n - 1) /\ b = n * p + s
  BY DivMod
<1> HIDE DEF q, r, p, s
<1>3. r - s \in Int /\ p - q \in Int /\ r - s = n * (p - q) + (a - b)
  BY <1>1, <1>2
<1>4. (r - s) % n = a - b
  BY <1>3, ModUnique
<1> QED BY <1>4 DEF r, s

(* Positions less than a buffer apart have different slots.                *)
LEMMA ModDistinct ==
  ASSUME NEW a \in Int, NEW b \in Int, NEW n \in Nat \ {0},
         a - b \in 1..(n - 1)
  PROVE  a % n # b % n
<1>1. ((a % n) - (b % n)) % n = a - b
  <2>1. a - b \in 0..(n - 1)
    OBVIOUS
  <2> QED BY <2>1, ModDiff
<1>2. 0 % n = 0
  BY ModSmall
<1>3. a % n \in Int /\ b % n \in Int
  BY DivMod
<1> QED BY <1>1, <1>2, <1>3

(* The two memcpy calls put byte i of a transfer that starts at position x *)
(* into the slot of position x + i.                                        *)
LEMMA PlaceIsMasked ==
  ASSUME NEW x \in Int, NEW len \in 0..Size, NEW i \in 0..(len - 1)
  PROVE  /\ Place(Masked(x), len, i) = Masked(x + i)
         /\ Masked(x + i) \in 0..(Size - 1)
<1> DEFINE q == x \div Size
           r == x % Size
<1>0. Size \in Nat \ {0} /\ x + i \in Int
  BY KfifoAssumption
<1>1. q \in Int /\ r \in 0..(Size - 1) /\ x = Size * q + r
  BY <1>0, DivMod
<1>2. (x + i) % Size \in 0..(Size - 1)
  BY <1>0, DivMod
<1> HIDE DEF q, r
<1>3. CASE i < Size - r
  <2>1. r + i \in 0..(Size - 1) /\ x + i = Size * q + (r + i)
    BY <1>0, <1>1, <1>3
  <2>2. (x + i) % Size = r + i
    BY <1>0, <1>1, <2>1, ModUnique
  <2>3. Place(r, len, i) = r + i
    BY <1>0, <1>1, <1>3 DEF Place, Clamp
  <2> QED BY <2>2, <2>3, <1>2 DEF Masked, r
<1>4. CASE i >= Size - r
  <2>1. r + i - Size \in 0..(Size - 1)
    BY <1>0, <1>1, <1>4
  <2>2. x + i = Size * (q + 1) + (r + i - Size) /\ q + 1 \in Int
    BY <1>0, <1>1
  <2>3. (x + i) % Size = r + i - Size
    BY <1>0, <2>1, <2>2, ModUnique
  <2>4. Place(r, len, i) = r + i - Size
    BY <1>0, <1>1, <1>4 DEF Place, Clamp
  <2> QED BY <2>3, <2>4, <1>2 DEF Masked, r
<1> QED BY <1>0, <1>1, <1>3, <1>4

-----------------------------------------------------------------------------
(* The constants as the proofs use them.                                   *)
LEMMA Constants ==
  /\ Size \in Nat \ {0}
  /\ Wrap \in Nat \ {0}
  /\ Size < Wrap
<1>1. Size \in Nat \ {0} /\ Laps \in Nat \ {0} /\ Laps >= 2
  BY KfifoAssumption
<1>2. Wrap \in Nat \ {0} /\ Size < Wrap
  <2>1. Laps * Size >= 2 * Size
    BY <1>1
  <2> QED BY <1>1, <2>1 DEF Wrap
<1> QED BY <1>1, <1>2

(* A wrapped index has the slot of the position it stands for.             *)
LEMMA MaskedWrap ==
  ASSUME NEW x \in Int
  PROVE  Masked(x % Wrap) = Masked(x) /\ Masked(x) \in 0..(Size - 1)
<1>1. Size \in Nat \ {0} /\ Laps \in Nat \ {0}
  BY KfifoAssumption
<1> QED BY <1>1, ModOfMod, DivMod DEF Masked, Wrap

(* kfifo_len and kfifo_unused count the bytes and the free slots.          *)
LEMMA OccupancyHolds == TypeOK /\ Indices => Occupancy
<1> SUFFICES ASSUME TypeOK, Indices PROVE Occupancy
  OBVIOUS
<1>1. /\ sent \in Int /\ taken \in Int /\ sent - taken \in 0..Size
      /\ in = sent % Wrap /\ out = taken % Wrap
  BY Constants DEF TypeOK, Indices
<1>2. kfifo_len = sent - taken
  <2>1. sent - taken \in 0..(Wrap - 1)
    BY <1>1, Constants
  <2> QED BY <1>1, <2>1, Constants, ModDiff DEF kfifo_len
<1>3. kfifo_unused = Size - (sent - taken)
  <2> DEFINE q == sent \div Wrap
             p == taken \div Wrap
             r == Size - (sent - taken)
  <2>1. q \in Int /\ in \in Int /\ sent = Wrap * q + in
    BY <1>1, Constants, DivMod
  <2>2. p \in Int /\ out \in Int /\ taken = Wrap * p + out
    BY <1>1, Constants, DivMod
  <2>3. r \in 0..(Wrap - 1)
    BY <1>1, Constants
  <2> HIDE DEF q, p
  <2>4. Size - (in - out) = Wrap * (q - p) + r
    BY <2>1, <2>2, Constants
  <2>5. Size - (in - out) \in Int /\ q - p \in Int
    BY <2>1, <2>2, Constants
  <2>6. (Size - (in - out)) % Wrap = r
    BY <2>3, <2>4, <2>5, Constants, ModUnique
  <2> QED BY <2>6 DEF kfifo_unused
<1> QED BY <1>2, <1>3 DEF Occupancy

(* Different positions of the stretch the ring can hold have different     *)
(* slots.                                                                  *)
LEMMA SlotsDistinct ==
  ASSUME NEW a \in Nat, NEW b \in Nat, a # b,
         a - b < Size, b - a < Size
  PROVE  Masked(a) # Masked(b)
<1>1. CASE a > b
  <2>1. a - b \in 1..(Size - 1) /\ a \in Int /\ b \in Int
    BY <1>1, Constants
  <2>2. a % Size # b % Size
    BY <2>1, Constants, ModDistinct
  <2> QED BY <2>2 DEF Masked
<1>2. CASE b > a
  <2>1. b - a \in 1..(Size - 1) /\ b \in Int /\ a \in Int
    BY <1>2, Constants
  <2>2. b % Size # a % Size
    BY <2>1, Constants, ModDistinct
  <2> QED BY <2>2 DEF Masked
<1> QED BY <1>1, <1>2

(* __kfifo_init establishes the invariant.                                 *)
LEMMA InitRing == Init => RingInvariant
<1> SUFFICES ASSUME Init PROVE RingInvariant
  OBVIOUS
<1>1. 0 % Wrap = 0
  BY Constants, ModSmall
<1>2. TypeOK
  BY Constants DEF Init, TypeOK, Blank
<1>3. Indices /\ Contents /\ WriterClaim /\ ReaderClaim /\ Delivered
  BY <1>1, Constants
  DEF Init, Indices, Contents, WriterClaim, ReaderClaim, Delivered
<1> QED BY <1>2, <1>3 DEF RingInvariant

(* Entering __kfifo_in.                                                    *)
LEMMA KfifoInRing ==
  ASSUME RingInvariant, NEW len \in 1..MaxLen, KfifoIn(len)
  PROVE  RingInvariant'
<1> USE DEF RingInvariant
<1>1. kfifo_unused = Size - (sent - taken) /\ sent - taken \in 0..Size
  <2>1. kfifo_unused = Size - (sent - taken)
    BY OccupancyHolds DEF Occupancy
  <2> QED BY <2>1, Constants DEF Indices, TypeOK
<1>2. wlen' \in 0..Size /\ wlen' + (sent - taken) <= Size
  BY <1>1, KfifoAssumption, Constants DEF KfifoIn, Clamp, TypeOK
<1>3. woff' = Masked(sent) /\ woff' \in 0..(Size - 1)
  <2>1. in \in Int /\ sent \in Int /\ in = sent % Wrap
    BY Constants DEF TypeOK, Indices
  <2> QED BY <2>1, MaskedWrap DEF KfifoIn
<1>4. TypeOK'
  BY <1>2, <1>3 DEF TypeOK, KfifoIn, fifo, reader
<1>5. WriterClaim'
  BY <1>2, <1>3 DEF WriterClaim, KfifoIn, fifo
<1>6. Indices' /\ Contents' /\ ReaderClaim' /\ Delivered'
  BY DEF Indices, Contents, ReaderClaim, Delivered, KfifoIn, fifo, reader
<1> QED BY <1>4, <1>5, <1>6

(* One byte of the writer's memcpy lands in a slot that holds no published *)
(* byte.                                                                   *)
LEMMA KfifoCopyInRing ==
  ASSUME RingInvariant, KfifoCopyIn
  PROVE  RingInvariant'
<1> USE DEF RingInvariant
<1>1. PICK i \in wtodo :
        /\ data' = [data EXCEPT ![Place(woff, wlen, i)] = sent + i]
        /\ wtodo' = wtodo \ {i}
  BY DEF KfifoCopyIn
<1>2. /\ wlen \in 0..Size /\ i \in 0..(wlen - 1) /\ i \in Nat
      /\ sent \in Nat /\ taken \in Nat /\ taken <= sent
      /\ woff = Masked(sent) /\ wlen + (sent - taken) <= Size
  BY Constants DEF TypeOK, WriterClaim, KfifoCopyIn, Indices
<1>3. /\ Place(woff, wlen, i) = Masked(sent + i)
      /\ Masked(sent + i) \in 0..(Size - 1)
  BY <1>2, PlaceIsMasked
<1>4. data' = [data EXCEPT ![Masked(sent + i)] = sent + i]
  BY <1>1, <1>3
<1>5. TypeOK'
  <2>1. data' \in [0..(Size - 1) -> Nat \cup {Blank}]
    BY <1>2, <1>3, <1>4 DEF TypeOK
  <2> QED BY <2>1, <1>1 DEF TypeOK, KfifoCopyIn, reader
<1>6. Contents'
  <2> SUFFICES ASSUME NEW p \in taken..(sent - 1)
               PROVE  data'[Masked(p)] = p
    BY DEF Contents, KfifoCopyIn
  <2>1. p \in Nat /\ data[Masked(p)] = p
    BY <1>2 DEF Contents
  <2>2. /\ sent + i \in Nat /\ p # sent + i
        /\ p - (sent + i) < Size /\ (sent + i) - p < Size
    BY <1>2, <2>1, Constants
  <2>3. Masked(p) # Masked(sent + i)
    BY <2>1, <2>2, SlotsDistinct
  <2> QED BY <1>4, <1>3, <2>1, <2>3 DEF TypeOK
<1>7. WriterClaim'
  <2>1. /\ wlen' = wlen /\ sent' = sent /\ taken' = taken /\ woff' = woff
        /\ wpc' = "copy"
    BY DEF KfifoCopyIn
  <2>2. ASSUME NEW j \in (0..(wlen - 1)) \ (wtodo \ {i})
        PROVE  data'[Masked(sent + j)] = sent + j
    <3>1. CASE j = i
      BY <3>1, <1>3, <1>4 DEF TypeOK
    <3>2. CASE j # i
      <4>1. data[Masked(sent + j)] = sent + j
        BY <3>2 DEF WriterClaim, KfifoCopyIn
      <4>2. /\ sent + j \in Nat /\ sent + i \in Nat /\ sent + j # sent + i
            /\ (sent + j) - (sent + i) < Size
            /\ (sent + i) - (sent + j) < Size
        BY <1>2, <3>2, Constants
      <4>3. /\ Masked(sent + j) # Masked(sent + i)
            /\ Masked(sent + j) \in 0..(Size - 1)
        BY <4>2, SlotsDistinct, MaskedWrap
      <4> QED BY <4>1, <4>3, <1>3, <1>4 DEF TypeOK
    <3> QED BY <3>1, <3>2
  <2> QED BY <2>1, <2>2, <1>1, <1>2 DEF WriterClaim
<1>8. Indices' /\ ReaderClaim' /\ Delivered'
  BY DEF Indices, ReaderClaim, Delivered, KfifoCopyIn, reader
<1> QED BY <1>5, <1>6, <1>7, <1>8

(* Publishing in: the bytes written become bytes of the queue.             *)
LEMMA KfifoInDoneRing ==
  ASSUME RingInvariant, KfifoInDone
  PROVE  RingInvariant'
<1> USE DEF RingInvariant
<1>1. /\ wlen \in 0..Size /\ sent \in Nat /\ taken \in Nat /\ taken <= sent
      /\ wlen + (sent - taken) <= Size
      /\ in = sent % Wrap /\ sent' = sent + wlen /\ taken' = taken
      /\ data' = data /\ wtodo = {} /\ wpc = "copy"
  BY DEF TypeOK, WriterClaim, KfifoInDone, Indices
<1>2. in' = (sent + wlen) % Wrap /\ in' \in 0..(Wrap - 1)
  <2>1. sent \in Int /\ wlen \in Int /\ sent + wlen \in Int
    BY <1>1, Constants
  <2>2. ((sent % Wrap) + wlen) % Wrap = (sent + wlen) % Wrap
    BY <2>1, Constants, ModAdd
  <2>3. (sent + wlen) % Wrap \in 0..(Wrap - 1)
    BY <2>1, Constants, DivMod
  <2> QED BY <1>1, <2>2, <2>3 DEF KfifoInDone
<1>3. TypeOK'
  BY <1>1, <1>2, Constants DEF TypeOK, KfifoInDone, reader
<1>4. Indices'
  BY <1>1, <1>2, Constants DEF Indices, KfifoInDone
<1>5. Contents'
  <2> SUFFICES ASSUME NEW p \in taken..(sent + wlen - 1)
               PROVE  data[Masked(p)] = p
    BY <1>1 DEF Contents
  <2>1. CASE p < sent
    BY <1>1, <2>1 DEF Contents
  <2>2. CASE p >= sent
    <3>1. p - sent \in (0..(wlen - 1)) \ wtodo /\ sent + (p - sent) = p
      BY <1>1, <2>2, Constants
    <3> QED BY <1>1, <3>1 DEF WriterClaim
  <2> QED BY <1>1, <2>1, <2>2
<1>6. WriterClaim'
  BY DEF WriterClaim, KfifoInDone
<1>7. ReaderClaim' /\ Delivered'
  BY <1>1, Constants DEF ReaderClaim, Delivered, KfifoInDone, reader, TypeOK
<1> QED BY <1>3, <1>4, <1>5, <1>6, <1>7

(* Entering __kfifo_out or __kfifo_out_peek.                               *)
LEMMA KfifoOutPeekRing ==
  ASSUME RingInvariant, NEW len \in 1..MaxLen, NEW call \in {"peek", "out"},
         KfifoOutPeek(len, call)
  PROVE  RingInvariant'
<1> USE DEF RingInvariant
<1>1. kfifo_len = sent - taken /\ sent - taken \in 0..Size
  <2>1. kfifo_len = sent - taken
    BY OccupancyHolds DEF Occupancy
  <2> QED BY <2>1, Constants DEF Indices, TypeOK
<1>2. rlen' \in 0..Size /\ rlen' <= sent - taken
  BY <1>1, KfifoAssumption, Constants DEF KfifoOutPeek, Clamp, TypeOK
<1>3. roff' = Masked(taken) /\ roff' \in 0..(Size - 1)
  <2>1. out \in Int /\ taken \in Int /\ out = taken % Wrap
    BY Constants DEF TypeOK, Indices
  <2> QED BY <2>1, MaskedWrap DEF KfifoOutPeek
<1>4. TypeOK'
  BY <1>2, <1>3 DEF TypeOK, KfifoOutPeek, fifo, writer
<1>5. ReaderClaim' /\ Delivered'
  BY <1>2, <1>3 DEF ReaderClaim, Delivered, KfifoOutPeek
<1>6. Indices' /\ Contents' /\ WriterClaim'
  BY DEF Indices, Contents, WriterClaim, KfifoOutPeek, fifo, writer
<1> QED BY <1>4, <1>5, <1>6

(* One byte of the reader's memcpy comes from a published slot.            *)
LEMMA KfifoCopyOutRing ==
  ASSUME RingInvariant, KfifoCopyOut
  PROVE  RingInvariant'
<1> USE DEF RingInvariant
<1>1. PICK i \in rtodo :
        /\ dst' = [dst EXCEPT ![i] = data[Place(roff, rlen, i)]]
        /\ rtodo' = rtodo \ {i}
  BY DEF KfifoCopyOut
<1>2. /\ rlen \in 0..Size /\ i \in 0..(rlen - 1) /\ i \in 0..(Size - 1)
      /\ sent \in Nat /\ taken \in Nat /\ taken <= sent
      /\ roff = Masked(taken) /\ rlen <= sent - taken /\ rpc # "idle"
  BY Constants DEF TypeOK, ReaderClaim, KfifoCopyOut, Indices
<1>3. Place(roff, rlen, i) = Masked(taken + i)
  BY <1>2, PlaceIsMasked
<1>4. data[Masked(taken + i)] = taken + i
  <2>1. taken + i \in taken..(sent - 1)
    BY <1>2
  <2> QED BY <2>1 DEF Contents
<1>5. dst' = [dst EXCEPT ![i] = taken + i]
  BY <1>1, <1>3, <1>4
<1>6. TypeOK'
  <2>1. dst' \in [0..(Size - 1) -> Nat \cup {Blank}]
    BY <1>2, <1>5 DEF TypeOK
  <2> QED BY <2>1, <1>1 DEF TypeOK, KfifoCopyOut, fifo, writer
<1>7. Delivered'
  <2>1. rlen' = rlen /\ taken' = taken /\ rpc' = rpc
    BY DEF KfifoCopyOut
  <2>2. ASSUME NEW j \in (0..(rlen - 1)) \ (rtodo \ {i})
        PROVE  dst'[j] = taken + j
    <3>1. j \in 0..(Size - 1) /\ dst \in [0..(Size - 1) -> Nat \cup {Blank}]
      BY <1>2, Constants DEF TypeOK
    <3>2. CASE j = i
      BY <3>1, <3>2, <1>5
    <3>3. CASE j # i
      BY <3>1, <3>3, <1>2, <1>5 DEF Delivered
    <3> QED BY <3>2, <3>3
  <2> QED BY <2>1, <2>2, <1>1 DEF Delivered
<1>8. Indices' /\ Contents' /\ WriterClaim' /\ ReaderClaim'
  BY DEF Indices, Contents, WriterClaim, ReaderClaim, KfifoCopyOut,
         fifo, writer
<1> QED BY <1>6, <1>7, <1>8

(* Publishing out: the bytes read leave the queue.                         *)
LEMMA KfifoOutDoneRing ==
  ASSUME RingInvariant, KfifoOutDone
  PROVE  RingInvariant'
<1> USE DEF RingInvariant
<1>1. /\ rlen \in 0..Size /\ sent \in Nat /\ taken \in Nat /\ taken <= sent
      /\ rlen <= sent - taken /\ sent - taken <= Size
      /\ out = taken % Wrap /\ taken' = taken + rlen /\ sent' = sent
      /\ data' = data
  BY DEF TypeOK, ReaderClaim, KfifoOutDone, Indices
<1>2. out' = (taken + rlen) % Wrap /\ out' \in 0..(Wrap - 1)
  <2>1. taken \in Int /\ rlen \in Int /\ taken + rlen \in Int
    BY <1>1, Constants
  <2>2. ((taken % Wrap) + rlen) % Wrap = (taken + rlen) % Wrap
    BY <2>1, Constants, ModAdd
  <2>3. (taken + rlen) % Wrap \in 0..(Wrap - 1)
    BY <2>1, Constants, DivMod
  <2> QED BY <1>1, <2>2, <2>3 DEF KfifoOutDone
<1>3. TypeOK'
  BY <1>1, <1>2, Constants DEF TypeOK, KfifoOutDone, writer
<1>4. Indices' /\ Contents'
  BY <1>1, <1>2, Constants DEF Indices, Contents, KfifoOutDone
<1>5. WriterClaim'
  BY <1>1, Constants DEF WriterClaim, KfifoOutDone, writer, TypeOK
<1>6. ReaderClaim' /\ Delivered'
  BY DEF ReaderClaim, Delivered, KfifoOutDone
<1> QED BY <1>3, <1>4, <1>5, <1>6

(* The ring's invariant holds in every state, for every size of the buffer *)
(* and every interleaving of one writer and one reader.                    *)
THEOREM RingSafe == Spec => []RingInvariant
<1>1. RingInvariant /\ [Next]_vars => RingInvariant'
  <2> SUFFICES ASSUME RingInvariant, [Next]_vars PROVE RingInvariant'
    OBVIOUS
  <2>1. CASE \E len \in 1..MaxLen : KfifoIn(len)
    BY <2>1, KfifoInRing
  <2>2. CASE KfifoCopyIn
    BY <2>2, KfifoCopyInRing
  <2>3. CASE KfifoInDone
    BY <2>3, KfifoInDoneRing
  <2>4. CASE \E len \in 1..MaxLen, call \in {"peek", "out"} :
               KfifoOutPeek(len, call)
    BY <2>4, KfifoOutPeekRing
  <2>5. CASE KfifoCopyOut
    BY <2>5, KfifoCopyOutRing
  <2>6. CASE KfifoOutDone
    BY <2>6, KfifoOutDoneRing
  <2>7. CASE KfifoPeekDone
    BY <2>7 DEF RingInvariant, TypeOK, Indices, Contents, WriterClaim,
         ReaderClaim, Delivered, KfifoPeekDone, fifo, writer
  <2>8. CASE UNCHANGED vars
    BY <2>8 DEF RingInvariant, TypeOK, Indices, Contents, WriterClaim,
         ReaderClaim, Delivered, vars, fifo, writer, reader
  <2> QED BY <2>1, <2>2, <2>3, <2>4, <2>5, <2>6, <2>7, <2>8 DEF Next
<1> QED BY InitRing, <1>1, PTL DEF Spec

(* The bytes a reader has copied are the oldest bytes of the stream, in    *)
(* order.                                                                  *)
THEOREM RingDelivers == Spec => []Delivered
<1>1. RingInvariant => Delivered
  BY DEF RingInvariant
<1> QED BY RingSafe, <1>1, PTL

(* kfifo_len and kfifo_unused are exact, also across the wrap of in and    *)
(* out.                                                                    *)
THEOREM RingOccupancy == Spec => []Occupancy
<1>1. RingInvariant => Occupancy
  BY OccupancyHolds DEF RingInvariant
<1> QED BY RingSafe, <1>1, PTL

(* The two memcpy loops never meet in a slot.                              *)
THEOREM RingRaceFree == Spec => []NoDataRace
<1>1. RingInvariant => NoDataRace
  <2> SUFFICES ASSUME RingInvariant, wpc = "copy", rpc # "idle",
                      NEW i \in wtodo, NEW j \in rtodo
               PROVE  Place(woff, wlen, i) # Place(roff, rlen, j)
    BY DEF NoDataRace
  <2>1. /\ wlen \in 0..Size /\ i \in 0..(wlen - 1)
        /\ rlen \in 0..Size /\ j \in 0..(rlen - 1)
        /\ sent \in Nat /\ taken \in Nat /\ taken <= sent
        /\ woff = Masked(sent) /\ wlen + (sent - taken) <= Size
        /\ roff = Masked(taken) /\ rlen <= sent - taken
    BY DEF RingInvariant, TypeOK, Indices, WriterClaim, ReaderClaim
  <2>2. /\ Place(woff, wlen, i) = Masked(sent + i)
        /\ Place(roff, rlen, j) = Masked(taken + j)
    BY <2>1, PlaceIsMasked
  <2>3. /\ sent + i \in Nat /\ taken + j \in Nat /\ sent + i # taken + j
        /\ (sent + i) - (taken + j) < Size
        /\ (taken + j) - (sent + i) < Size
    BY <2>1, Constants
  <2> QED BY <2>2, <2>3, SlotsDistinct
<1> QED BY RingSafe, <1>1, PTL

-----------------------------------------------------------------------------
(* A stretch of the stream: n bytes from position a on.                    *)
Stretch(a, n) == [i \in 1..n |-> a + i - 1]

(* A stretch is a sequence of n numbers.                                   *)
LEMMA StretchIsSeq ==
  ASSUME NEW a \in Nat, NEW n \in Nat
  PROVE  Stretch(a, n) \in Seq(Nat) /\ Len(Stretch(a, n)) = n
  BY DEF Stretch

(* A stretch followed by the next bytes is a longer stretch.               *)
LEMMA StretchPut ==
  ASSUME NEW a \in Nat, NEW n \in Nat, NEW k \in Nat
  PROVE  Stretch(a, n) \o Stretch(a + n, k) = Stretch(a, n + k)
<1> DEFINE s == Stretch(a, n)
           t == Stretch(a + n, k)
           u == Stretch(a, n + k)
<1>1. /\ s \in Seq(Nat) /\ Len(s) = n
      /\ t \in Seq(Nat) /\ Len(t) = k
      /\ u \in Seq(Nat) /\ Len(u) = n + k
  <2>1. a + n \in Nat /\ n + k \in Nat
    OBVIOUS
  <2> QED BY <2>1, StretchIsSeq
<1>2. /\ \A i \in 1..n : s[i] = a + i - 1
      /\ \A i \in 1..k : t[i] = a + n + i - 1
      /\ \A i \in 1..(n + k) : u[i] = a + i - 1
  BY DEF Stretch
<1> HIDE DEF s, t, u
<1>3. /\ s \o t \in Seq(Nat) /\ Len(s \o t) = n + k
      /\ \A i \in 1..(n + k) :
           (s \o t)[i] = IF i <= n THEN s[i] ELSE t[i - n]
  BY <1>1, ConcatProperties
<1>4. \A i \in 1..(n + k) : (s \o t)[i] = u[i]
  BY <1>2, <1>3
<1>5. s \o t = u
  BY <1>1, <1>3, <1>4, SeqEqual
<1> QED BY <1>5 DEF s, t, u

(* A stretch without its first k bytes is the stretch k further on.        *)
LEMMA StretchGet ==
  ASSUME NEW a \in Nat, NEW n \in Nat, NEW k \in 0..n
  PROVE  SubSeq(Stretch(a, n), k + 1, n) = Stretch(a + k, n - k)
<1>1. Stretch(a, n) \in Seq(Nat) /\ Len(Stretch(a, n)) = n
  BY StretchIsSeq
<1>2. /\ SubSeq(Stretch(a, n), k + 1, n) \in Seq(Nat)
      /\ Len(SubSeq(Stretch(a, n), k + 1, n)) = n - k
      /\ \A i \in 1..(n - k) :
           SubSeq(Stretch(a, n), k + 1, n)[i] = Stretch(a, n)[k + i]
  BY <1>1
<1>3. /\ Stretch(a + k, n - k) \in Seq(Nat)
      /\ Len(Stretch(a + k, n - k)) = n - k
  <2>1. a + k \in Nat /\ n - k \in Nat
    OBVIOUS
  <2> QED BY <2>1, StretchIsSeq
<1>4. \A i \in 1..(n - k) : Stretch(a, n)[k + i] = Stretch(a + k, n - k)[i]
  BY DEF Stretch
<1> QED BY <1>2, <1>3, <1>4

(* The contents of the abstract queue, as Queue reads them off the ring.   *)
Held == [i \in 1..kfifo_len |-> data[Masked(out + i - 1)]]

(* They are the bytes between the two stream positions.                    *)
LEMMA HeldIsStretch ==
  ASSUME RingInvariant
  PROVE  Held = Stretch(taken, sent - taken)
<1>1. /\ sent \in Nat /\ taken \in Nat /\ taken <= sent
      /\ out \in Int /\ out = taken % Wrap
  BY Constants DEF RingInvariant, TypeOK, Indices
<1>2. kfifo_len = sent - taken
  BY OccupancyHolds DEF RingInvariant, Occupancy
<1>3. ASSUME NEW i \in 1..(sent - taken)
      PROVE  data[Masked(out + i - 1)] = taken + i - 1
  <2>1. /\ i - 1 \in Int /\ taken + (i - 1) \in Int /\ out + (i - 1) \in Int
        /\ taken \in Int
    BY <1>1
  <2>2. (out + (i - 1)) % Wrap = (taken + (i - 1)) % Wrap
    BY <1>1, <2>1, Constants, ModAdd
  <2>3. Masked(out + (i - 1)) = Masked(taken + (i - 1))
    <3>1. Masked((out + (i - 1)) % Wrap) = Masked(out + (i - 1))
      BY <2>1, MaskedWrap
    <3>2. Masked((taken + (i - 1)) % Wrap) = Masked(taken + (i - 1))
      BY <2>1, MaskedWrap
    <3> QED BY <3>1, <3>2, <2>2
  <2>4. /\ taken + (i - 1) \in taken..(sent - 1)
        /\ taken + i - 1 = taken + (i - 1) /\ out + i - 1 = out + (i - 1)
    BY <1>1
  <2> QED BY <2>3, <2>4 DEF RingInvariant, Contents
<1> QED BY <1>2, <1>3 DEF Held, Stretch

(* __kfifo_init leaves an empty queue.                                     *)
LEMMA InitQueue == Init => Queue!Init
<1> SUFFICES ASSUME Init PROVE Held = << >> /\ sent = 0
  BY DEF Queue!Init, Held
<1>1. RingInvariant /\ sent = 0 /\ taken = 0
  BY InitRing DEF Init
<1>2. Held = Stretch(0, 0)
  BY <1>1, HeldIsStretch
<1>3. Stretch(0, 0) = << >>
  BY DEF Stretch
<1> QED BY <1>1, <1>2, <1>3

(* Publishing in appends the bytes of the call, or nothing in a call that  *)
(* found the ring full.                                                    *)
LEMMA InDoneQueue ==
  ASSUME RingInvariant, RingInvariant', KfifoInDone
  PROVE  Queue!Put \/ UNCHANGED <<Held, sent>>
<1>1. /\ wlen \in Nat /\ sent \in Nat /\ taken \in Nat /\ taken <= sent
      /\ wlen + (sent - taken) <= Size
      /\ sent' = sent + wlen /\ taken' = taken /\ sent - taken \in Nat
  BY DEF RingInvariant, TypeOK, WriterClaim, KfifoInDone, Indices
<1>2. Held = Stretch(taken, sent - taken) /\ Len(Held) = sent - taken
  BY <1>1, HeldIsStretch, StretchIsSeq
<1>3. Held' = Stretch(taken, (sent - taken) + wlen)
  <2>1. (Held = Stretch(taken, sent - taken))'
    BY HeldIsStretch, PTL
  <2> QED BY <2>1, <1>1 DEF Stretch
<1>4. Held' = Held \o Stretch(sent, wlen)
  <2>1. taken + (sent - taken) = sent
    BY <1>1
  <2>2. Stretch(taken, sent - taken) \o Stretch(taken + (sent - taken), wlen)
          = Stretch(taken, (sent - taken) + wlen)
    BY <1>1, StretchPut
  <2> QED BY <1>2, <1>3, <2>1, <2>2
<1>5. CASE wlen = 0
  BY <1>1, <1>2, <1>3, <1>5
<1>6. CASE wlen # 0
  <2>1. wlen \in 1..(Size - Len(Held))
    BY <1>1, <1>2, <1>6, Constants
  <2>2. \E k \in 1..(Size - Len(Held)) :
          Held' = Held \o Stretch(sent, k) /\ sent' = sent + k
    BY <1>1, <1>4, <2>1
  <2> QED BY <2>2 DEF Queue!Put, Queue!Fresh, Held, Stretch
<1> QED BY <1>5, <1>6

(* Publishing out removes the bytes of the call from the front, or nothing *)
(* in a call that found the ring empty.                                    *)
LEMMA OutDoneQueue ==
  ASSUME RingInvariant, RingInvariant', KfifoOutDone
  PROVE  Queue!Get \/ UNCHANGED <<Held, sent>>
<1>1. /\ rlen \in Nat /\ sent \in Nat /\ taken \in Nat /\ taken <= sent
      /\ rlen \in 0..(sent - taken) /\ sent - taken \in Nat
      /\ sent' = sent /\ taken' = taken + rlen
  BY DEF RingInvariant, TypeOK, ReaderClaim, KfifoOutDone, Indices
<1>2. Held = Stretch(taken, sent - taken) /\ Len(Held) = sent - taken
  BY <1>1, HeldIsStretch, StretchIsSeq
<1>3. Held' = Stretch(taken + rlen, (sent - taken) - rlen)
  <2>1. (Held = Stretch(taken, sent - taken))'
    BY HeldIsStretch, PTL
  <2> QED BY <2>1, <1>1 DEF Stretch
<1>4. Held' = SubSeq(Held, rlen + 1, Len(Held))
  <2>1. SubSeq(Stretch(taken, sent - taken), rlen + 1, sent - taken)
          = Stretch(taken + rlen, (sent - taken) - rlen)
    BY <1>1, StretchGet
  <2> QED BY <1>2, <1>3, <2>1
<1>5. CASE rlen = 0
  BY <1>1, <1>2, <1>3, <1>5
<1>6. CASE rlen # 0
  <2>1. rlen \in 1..Len(Held)
    BY <1>1, <1>2, <1>6
  <2>2. \E k \in 1..Len(Held) :
          Held' = SubSeq(Held, k + 1, Len(Held)) /\ sent' = sent
    BY <1>1, <1>4, <2>1
  <2> QED BY <2>2 DEF Queue!Get, Held
<1> QED BY <1>5, <1>6

(* A step that publishes neither index leaves the queue as it is, even one *)
(* that writes into the buffer.                                            *)
LEMMA StutterQueue ==
  ASSUME RingInvariant, RingInvariant', UNCHANGED <<sent, taken>>
  PROVE  UNCHANGED <<Held, sent>>
<1>1. Held = Stretch(taken, sent - taken)
  BY HeldIsStretch
<1>2. (Held = Stretch(taken, sent - taken))'
  BY HeldIsStretch, PTL
<1> QED BY <1>1, <1>2 DEF Stretch

(* The ring implements the bounded FIFO queue: the lengths are clamped so  *)
(* that no byte is put in without room or taken out before it is there,    *)
(* and the queue changes only where an index is published.                 *)
THEOREM RingIsQueue == Spec => QueueSpec
<1>1. RingInvariant /\ RingInvariant' /\ [Next]_vars
        => [Queue!Next]_<<Held, sent>>
  <2> SUFFICES ASSUME RingInvariant, RingInvariant', [Next]_vars
               PROVE  Queue!Next \/ UNCHANGED <<Held, sent>>
    OBVIOUS
  <2>1. CASE KfifoInDone
    BY <2>1, InDoneQueue DEF Queue!Next
  <2>2. CASE KfifoOutDone
    BY <2>2, OutDoneQueue DEF Queue!Next
  <2>3. CASE UNCHANGED <<sent, taken>>
    BY <2>3, StutterQueue
  <2>4. CASE ~UNCHANGED <<sent, taken>>
    BY <2>1, <2>2, <2>4
    DEF Next, vars, KfifoIn, KfifoCopyIn, KfifoOutPeek, KfifoCopyOut,
        KfifoPeekDone
  <2> QED BY <2>3, <2>4
<1>2. RingInvariant /\ RingInvariant' /\ [Next]_vars => [Queue!Next]_<<
        [i \in 1..kfifo_len |-> data[Masked(out + i - 1)]], sent>>
  BY <1>1 DEF Held
<1> QED BY InitQueue, RingSafe, <1>2, PTL DEF Spec, QueueSpec, Queue!Spec
=============================================================================
