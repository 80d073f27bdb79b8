---------------------------- MODULE TimedClient ----------------------------
(***************************************************************************)
(* The measuring loop the one-way clients share and the statistics of      *)
(* common/benchmarks.c.  The client takes messages until gettimeofday says *)
(* that a tenth of a second has passed, then evaluates.  The loop is the   *)
(* same in shm/client.c:89, mmap/client.c:90, fifo/client.c:75,            *)
(* mq/client.c:66, domain/client.c:125, tcp/client.c:173, pipe/pipe.c:42,  *)
(* uintr-pro/client.c:135 and eventfd/eventfd-uni.c:19.                    *)
(*                                                                         *)
(* The loop compares tv_usec only, which starts over every second, and     *)
(* tv_sec not at all.  Time is scaled: a second has Second ticks, the loop *)
(* is meant to last Limit of them.  A bench_t is unsigned: its arithmetic  *)
(* is modulo Wrap.                                                         *)
(***************************************************************************)
EXTENDS Integers, FiniteSetsExt

CONSTANTS
  Second,      \* ticks of tv_usec in a second (1000000)
  Limit,       \* the limit the loop compares with (100000)
  Starts,      \* the tv_usec at which the loop may start
  MaxPause,    \* bound: ticks between two looks at the clock
  Latencies,   \* by how much a message's single_start may lie before now(),
               \* negative if single_start is ahead of it (EventfdUni)
  Wrap,        \* one more than the largest bench_t (2^64)
  MinInit,     \* what setup_benchmarks stores in minimum (INT32_MAX)
  MaxMessages, \* bound: messages taken
  Horizon      \* bound: ticks of the loop that are counted

ASSUME TimedAssumption ==
  /\ Second \in Nat /\ Limit \in Nat /\ MaxPause \in Nat
  /\ Wrap \in Nat /\ MinInit \in 0..(Wrap - 1)
  /\ MaxMessages \in Nat /\ Horizon \in Nat /\ Horizon > Limit
  /\ Starts \subseteq 0..(Second - 1)
  /\ Latencies \subseteq Int

VARIABLES
  pc,
  start,   \* startTime.tv_usec
  usec,    \* tv_usec of the clock
  elapsed, \* history: ticks since the loop started, up to Horizon
  pause,   \* history: ticks since the loop last looked at the clock
  minimum, maximum, sum, count,  \* struct Benchmarks
  seen     \* history: the values of time in benchmark

vars == <<pc, start, usec, elapsed, pause, minimum, maximum, sum, count, seen>>
time == <<start, usec, elapsed, pause>>
bench == <<minimum, maximum, sum, count, seen>>

(* setup_benchmarks and gettimeofday(&startTime).                          *)
Init ==
  /\ pc = "check"
  /\ start \in Starts /\ usec = start
  /\ elapsed = 0 /\ pause = 0
  /\ minimum = MinInit /\ maximum = 0 /\ sum = 0 /\ count = 0
  /\ seen = {}

-----------------------------------------------------------------------------
(* The clock goes on, wherever the client is.                              *)
Tick ==
  /\ pc \in {"check", "message"}
  /\ pause < MaxPause
  /\ usec' = (usec + 1) % Second
  /\ elapsed' = IF elapsed < Horizon THEN elapsed + 1 ELSE elapsed
  /\ pause' = pause + 1
  /\ UNCHANGED <<pc, start, bench>>

(* Mutant: only the first tick past the limit ends the loop.               *)
TimeUpExact == usec - start = Limit + 1

(* Mutant: the limit in the wrong unit, more than tv_usec can ever reach.  *)
TimeUpUnit == usec - start > Second

(* The signed difference of the microseconds, as the loop compares it.     *)
TimeUp == usec - start > Limit

(* The head of the loop.                                                   *)
Check ==
  /\ pc = "check"
  /\ pc' = IF TimeUp THEN "evaluate" ELSE "message"
  /\ pause' = 0
  /\ UNCHANGED <<start, usec, elapsed, bench>>

(* Mutant: minimum and maximum are alternatives.                           *)
BenchmarkElse(latency) ==
  /\ pc = "message"
  /\ LET t == latency % Wrap
     IN  /\ minimum' = IF t < minimum THEN t ELSE minimum
         /\ maximum' = IF ~(t < minimum) /\ t > maximum THEN t ELSE maximum
         /\ sum' = (sum + t) % Wrap
         /\ seen' = seen \cup {t}
  /\ count' = count + 1
  /\ pc' = "check"
  /\ UNCHANGED time

(* A message has come: benchmark(bench).                                   *)
Benchmark(latency) ==
  /\ pc = "message"
  /\ count < MaxMessages
  /\ LET t == latency % Wrap
     IN  /\ minimum' = IF t < minimum THEN t ELSE minimum
         /\ maximum' = IF t > maximum THEN t ELSE maximum
         /\ sum' = (sum + t) % Wrap
         /\ seen' = seen \cup {t}
  /\ count' = count + 1
  /\ pc' = "check"
  /\ UNCHANGED time

(* Past the bound on messages the loop goes on without measuring.          *)
MoreMessages ==
  /\ pc = "message"
  /\ count = MaxMessages
  /\ pc' = "check"
  /\ UNCHANGED <<time, bench>>

(* evaluate: divides by bench->count and prints.                           *)
Evaluate ==
  /\ pc = "evaluate"
  /\ pc' = "done"
  /\ UNCHANGED <<time, bench>>

Next ==
  \/ Tick
  \/ Check
  \/ \E latency \in Latencies : Benchmark(latency)
  \/ MoreMessages
  \/ Evaluate

Spec == Init /\ [][Next]_vars

(* The server keeps sending, the client is scheduled, and time passes.     *)
FairSpec ==
  /\ Spec
  /\ WF_vars(Tick)
  /\ WF_vars(Check)
  /\ WF_vars(MoreMessages \/ \E latency \in Latencies : Benchmark(latency))
  /\ WF_vars(Evaluate)

-----------------------------------------------------------------------------
(* The values each variable holds.                                         *)
TypeOK ==
  /\ pc \in {"check", "message", "evaluate", "done"}
  /\ start \in 0..(Second - 1) /\ usec \in 0..(Second - 1)
  /\ elapsed \in 0..Horizon /\ pause \in 0..MaxPause
  /\ minimum \in 0..(Wrap - 1) /\ maximum \in 0..(Wrap - 1)
  /\ sum \in 0..(Wrap - 1) /\ count \in Nat
  /\ seen \subseteq 0..(Wrap - 1)

(* The results are those of the latencies measured, with two exceptions:   *)
(* a minimum above the one setup_benchmarks begins with is not seen, and   *)
(* the average evaluate prints lies between the smallest and the largest   *)
(* latency only if the sum cannot have wrapped, as it does after a         *)
(* single_start that is ahead of the clock.                                *)
Summary ==
  count > 0 =>
    /\ minimum = Min(seen \cup {MinInit}) /\ maximum = Max(seen)
    /\ count * maximum < Wrap =>
         count * Min(seen) <= sum /\ sum <= count * maximum

(* The loop never ends before its time, and one that starts early enough   *)
(* in a second ends on time: before tv_usec starts over, the clock is      *)
(* looked at once after the limit has passed.                              *)
OnTime ==
  /\ TypeOK
  /\ pc \in {"evaluate", "done"} => elapsed > Limit
  /\ start + Limit + MaxPause < Second => elapsed <= Limit + MaxPause

(* A loop that starts early enough in a second ends: before tv_usec starts *)
(* over, one look at the clock falls past the limit.                       *)
Ends == start + Limit + MaxPause < Second => <>(pc = "done")

(* Every benchmark ends and prints its results (README.md).                *)
Finishes == <>(pc = "done")
=============================================================================
