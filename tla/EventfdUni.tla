----------------------------- MODULE EventfdUni -----------------------------
(***************************************************************************)
(* The one-way eventfd benchmark, source/eventfd/eventfd-uni.c.            *)
(*                                                                         *)
(* The parent (server) writes one timestamp after the other into a plain   *)
(* eventfd; the child (client) reads "the last timestamp" and takes the    *)
(* difference to its own clock.  An eventfd is no queue: write(2) adds the *)
(* value to a 64-bit counter, blocking while the sum would exceed          *)
(* 2^64 - 2, and read(2) returns the whole counter and resets it.  Nothing *)
(* makes the server wait for the client, so the counter may hold the sum   *)
(* of several timestamps when the client reads it.                         *)
(*                                                                         *)
(* The data: a timestamp is the clock, Base + ticks.  On the real machine  *)
(* Base is about 1.7 * 10^18, so that ten of them fill the counter; on a   *)
(* small instance MaxValue may have room for fewer.                        *)
(***************************************************************************)
EXTENDS Integers

CONSTANTS
    Base,        \* the clock when the program starts
    MaxTick,     \* bound: how far the clock runs in a behaviour
    MaxValue,    \* the largest counter value of an eventfd, 2^64 - 2 scaled
    MaxRounds    \* bound: how often the client reads at most

ASSUME EventfdAssumption ==
    /\ Base \in Nat \ {0}
    /\ MaxTick \in Nat
    /\ MaxRounds \in Nat
    /\ MaxValue \in Nat /\ MaxValue >= Base + MaxTick

VARIABLES
    clock,         \* what now() returns
    value,         \* the eventfd's counter
    server,        \* "stamp" (line 38) or "write" (line 39)
    timestamp,     \* the server's local variable
    client,        \* "check" (18), "read" (23), "benchmark" (28), "done" (32)
    single_start,  \* bench.single_start, what the last read returned
    cnt,           \* the client's rounds
    merged,        \* ghost: timestamps in the counter
    taken          \* ghost: timestamps in what the last read returned

uniVars == <<clock, value, server, timestamp, client, single_start, cnt,
             merged, taken>>
serverVars == <<server, timestamp>>
clientVars == <<client, single_start, cnt, taken>>

-----------------------------------------------------------------------------
(* communicate(): eventfd(0, 0) starts at 0, the fork gives both processes *)
(* the descriptor.  single_start is uninitialized; it is not read before   *)
(* the first read(2) assigned it.                                          *)
UniInit ==
    /\ clock = Base
    /\ value = 0
    /\ server = "stamp"
    /\ timestamp = 0
    /\ client = "check"
    /\ single_start = 0
    /\ cnt = 0
    /\ merged = 0
    /\ taken = 0

(* Time passes; MaxTick bounds it.                                         *)
Tick ==
    /\ clock < Base + MaxTick
    /\ clock' = clock + 1
    /\ UNCHANGED <<value, merged>>
    /\ UNCHANGED serverVars
    /\ UNCHANGED clientVars

(* uint64_t timestamp = now()                                              *)
ServerStamp ==
    /\ server = "stamp"
    /\ timestamp' = clock
    /\ server' = "write"
    /\ UNCHANGED <<clock, value, merged>>
    /\ UNCHANGED clientVars

(* Mutant: a non-blocking descriptor whose EAGAIN is ignored.             *)
ServerWriteNonblock ==
    /\ server = "write"
    /\ value' = IF value + timestamp <= MaxValue THEN value + timestamp
                ELSE value
    /\ merged' = IF value + timestamp <= MaxValue THEN merged + 1 ELSE merged
    /\ server' = "stamp"
    /\ UNCHANGED <<clock, timestamp>>
    /\ UNCHANGED clientVars

(* Mutant: a server that stamps again without having written.             *)
ServerWriteLost ==
    /\ server = "write"
    /\ server' = "stamp"
    /\ UNCHANGED <<clock, value, merged, timestamp>>
    /\ UNCHANGED clientVars

(* write(descriptor, &timestamp, 8): blocks while the sum does not fit.    *)
ServerWrite ==
    /\ server = "write"
    /\ value + timestamp <= MaxValue
    /\ value' = value + timestamp
    /\ merged' = merged + 1
    /\ server' = "stamp"
    /\ UNCHANGED <<clock, timestamp>>
    /\ UNCHANGED clientVars

(* The loop test.  How the code decides when to stop is the subject of     *)
(* TimedClient; here it may stop at every test, and does after MaxRounds.  *)
ClientCheck ==
    /\ client = "check"
    /\ \/ cnt < MaxRounds /\ client' = "read"
       \/ client' = "done"
    /\ UNCHANGED <<clock, value, merged, single_start, cnt, taken>>
    /\ UNCHANGED serverVars

(* Mutant: a read that leaves the counter as it is.                       *)
ClientReadKeeps ==
    /\ client = "read"
    /\ value > 0
    /\ single_start' = value
    /\ taken' = merged
    /\ merged' = 0
    /\ client' = "benchmark"
    /\ UNCHANGED <<clock, value, cnt>>
    /\ UNCHANGED serverVars

(* read(descriptor, &bench.single_start, 8): blocks while the counter is   *)
(* 0, returns the counter and resets it.                                   *)
ClientRead ==
    /\ client = "read"
    /\ value > 0
    /\ single_start' = value
    /\ taken' = merged
    /\ value' = 0
    /\ merged' = 0
    /\ client' = "benchmark"
    /\ UNCHANGED <<clock, cnt>>
    /\ UNCHANGED serverVars

(* benchmark(&bench); cnt++                                                *)
ClientBenchmark ==
    /\ client = "benchmark"
    /\ cnt' = cnt + 1
    /\ client' = "check"
    /\ UNCHANGED <<clock, value, merged, single_start, taken>>
    /\ UNCHANGED serverVars

UniServer == ServerStamp \/ ServerWrite
UniClient == ClientCheck \/ ClientRead \/ ClientBenchmark
UniNext == Tick \/ UniServer \/ UniClient

(* The kernel schedules both processes; nothing is assumed of the clock.   *)
UniSpec ==
    /\ UniInit /\ [][UniNext]_uniVars
    /\ WF_uniVars(UniServer) /\ WF_uniVars(UniClient)

-----------------------------------------------------------------------------
(* A blocked server: its next timestamp does not fit any more.             *)
ServerBlocked == server = "write" /\ value + timestamp > MaxValue

(* The counter is the sum of exactly the timestamps written since the last *)
(* read, each taken between the start and now, and what the client got is  *)
(* such a sum too: no read or write of lines 23 and 39 loses a timestamp   *)
(* or counts one twice, and the sum never wraps.  In particular a read     *)
(* that took a single timestamp gives benchmark() a start before its end.  *)
Sums ==
    /\ value \in merged * Base .. merged * clock
    /\ single_start \in taken * Base .. taken * clock
    /\ value <= MaxValue
    /\ client = "benchmark" => taken > 0

(* Every read is answered: the server keeps writing until the counter is   *)
(* full, and a full counter wakes the reader too.                          *)
Served == client = "read" ~> client = "benchmark"

(* Once the client has evaluated, the server fills the counter and then    *)
(* sleeps in write(2) for ever: nobody reads any more, line 37 is an       *)
(* endless loop and no process of the program sends it a signal.           *)
Lingers == client = "done" ~> []ServerBlocked
=============================================================================
