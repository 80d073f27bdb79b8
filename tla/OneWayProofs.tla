--------------------------- MODULE OneWayProofs ----------------------------
(***************************************************************************)
(* The measuring loop of the one-way clients for every length of a second, *)
(* every limit and every start: it is never early, it is on time if it     *)
(* starts early enough in a second, it never ends if it starts too late,   *)
(* and how far what it prints are the figures of what it measured.         *)
(* The one-way user-interrupt benchmark for every -c: no interrupt is      *)
(* merged with another and every measurement uses its own start time.      *)
(***************************************************************************)
EXTENDS TimedClient, UintrfdUni, TLAPS

(* tv_usec is never further from the start than the time that has passed.  *)
NotEarly ==
  /\ elapsed = Horizon \/ usec <= start + elapsed
  /\ pc \in {"evaluate", "done"} => elapsed > Limit

(* In a loop that starts early enough tv_usec does not start over, and     *)
(* the limit had not passed when the loop last looked at the clock.        *)
NotLate ==
  start + Limit + MaxPause < Second /\ Limit + MaxPause < Horizon =>
    /\ usec = start + elapsed
    /\ elapsed <= Limit + MaxPause
    /\ pc \in {"check", "message"} => elapsed <= Limit + pause

(* What every step preserves, of the clock.                                *)
ClockInvariant == TypeOK /\ NotEarly /\ NotLate

(* A loop that starts in the last tenth of a second is still running.      *)
StillRunning ==
  start + Limit >= Second - 1 => pc \in {"check", "message"}

(* minimum, maximum and sum, in terms of the latencies measured.           *)
Figures ==
  /\ count = 0 => seen = {} /\ minimum = MinInit /\ maximum = 0 /\ sum = 0
  /\ count > 0 => maximum \in seen /\ \E a \in seen : \A t \in seen : a <= t
  /\ minimum <= MinInit
  /\ minimum # MinInit => minimum \in seen
  /\ \A t \in seen : minimum <= t /\ t <= maximum
  /\ count * maximum < Wrap =>
       /\ sum <= count * maximum
       /\ \A m \in Nat : (\A t \in seen : m <= t) => count * m <= sum

(* What every step preserves, of the statistics.                           *)
FiguresInvariant == TypeOK /\ Figures

-----------------------------------------------------------------------------
(* tv_usec of the next tick: the same second, or the start of another.     *)
LEMMA NextTick ==
  ASSUME TypeOK
  PROVE  /\ (usec + 1) % Second \in 0..(Second - 1)
         /\ (usec + 1) % Second <= usec + 1
         /\ usec + 1 < Second => (usec + 1) % Second = usec + 1
<1>1. Second \in Nat /\ usec \in Nat /\ usec + 1 <= Second
  BY TimedAssumption DEF TypeOK
<1>2. CASE usec + 1 < Second
  <2>1. (usec + 1) % Second = usec + 1
    BY <1>1, <1>2
  <2> QED BY <2>1, <1>1, <1>2
<1>3. CASE usec + 1 = Second
  <2>1. (usec + 1) % Second = 0
    BY <1>1, <1>3
  <2> QED BY <2>1, <1>1, <1>3
<1> QED BY <1>1, <1>2, <1>3

(* Arithmetic of a bench_t.                                                *)
LEMMA Wraps ==
  ASSUME NEW x \in Int, Wrap \in Nat \ {0}
  PROVE  /\ x % Wrap \in 0..(Wrap - 1)
         /\ x \in 0..(Wrap - 1) => x % Wrap = x
  OBVIOUS

(* The types of the variables, and that the clock stays in a second.       *)
LEMMA TypeStep == TypeOK /\ [Next]_vars => TypeOK'
<1> SUFFICES ASSUME TypeOK, [Next]_vars PROVE TypeOK'
  OBVIOUS
<1>1. CASE Tick
  BY <1>1, NextTick, TimedAssumption DEF Tick, TypeOK, bench
<1>2. CASE Check
  BY <1>2, TimedAssumption DEF Check, TypeOK, bench
<1>3. ASSUME NEW d \in Latencies, Benchmark(d) PROVE TypeOK'
  <2>1. d \in Int /\ Wrap \in Nat \ {0} /\ sum \in Int
    BY TimedAssumption DEF TypeOK
  <2>2. d % Wrap \in 0..(Wrap - 1)
    BY <2>1, Wraps
  <2>3. (sum + (d % Wrap)) % Wrap \in 0..(Wrap - 1)
    <3>1. sum + (d % Wrap) \in Int
      BY <2>1, <2>2
    <3> QED BY <2>1, <3>1, Wraps
  <2> DEFINE t == d % Wrap
             u == (sum + t) % Wrap
  <2>4. /\ minimum' = IF t < minimum THEN t ELSE minimum
        /\ maximum' = IF t > maximum THEN t ELSE maximum
        /\ sum' = u /\ seen' = seen \cup {t} /\ count' = count + 1
        /\ pc' = "check" /\ UNCHANGED time
    BY <1>3 DEF Benchmark
  <2>5. t \in 0..(Wrap - 1) /\ u \in 0..(Wrap - 1)
    BY <2>2, <2>3
  <2> HIDE DEF t, u
  <2> QED BY <2>4, <2>5 DEF TypeOK, time
<1>4. CASE MoreMessages
  BY <1>4 DEF MoreMessages, TypeOK, time, bench
<1>5. CASE Evaluate
  BY <1>5 DEF Evaluate, TypeOK, time, bench
<1>6. CASE UNCHANGED vars
  BY <1>6 DEF TypeOK, vars
<1> QED BY <1>1, <1>2, <1>3, <1>4, <1>5, <1>6 DEF Next

(* setup_benchmarks has been called and the loop begins.                   *)
LEMMA InitTimed == Init => ClockInvariant /\ FiguresInvariant
<1> SUFFICES ASSUME Init PROVE ClockInvariant /\ FiguresInvariant
  OBVIOUS
<1>1. TypeOK
  BY TimedAssumption DEF Init, TypeOK
<1>2. ClockInvariant
  BY <1>1, TimedAssumption DEF Init, TypeOK, ClockInvariant, NotEarly, NotLate
<1>3. FiguresInvariant
  BY <1>1, TimedAssumption DEF Init, TypeOK, FiguresInvariant, Figures
<1> QED BY <1>2, <1>3

(* The invariant of the clock holds in every state.                        *)
THEOREM ClockSafe == Spec => []ClockInvariant
<1>1. ClockInvariant /\ [Next]_vars => ClockInvariant'
  <2> SUFFICES ASSUME ClockInvariant, [Next]_vars PROVE ClockInvariant'
    OBVIOUS
  <2>0. TypeOK /\ TypeOK'
    BY TypeStep DEF ClockInvariant
  <2>1. CASE Tick
    <3>1. /\ usec' = (usec + 1) % Second
          /\ usec' <= usec + 1 /\ (usec + 1 < Second => usec' = usec + 1)
          /\ pc \in {"check", "message"} /\ pc' = pc /\ start' = start
          /\ elapsed' = IF elapsed < Horizon THEN elapsed + 1 ELSE elapsed
          /\ pause' = pause + 1 /\ pause < MaxPause
      BY <2>0, <2>1, NextTick DEF Tick
    <3>2. NotEarly'
      <4>1. /\ usec \in Int /\ usec' \in Int /\ start \in Int
            /\ elapsed \in Int /\ elapsed <= Horizon /\ Horizon \in Int
        BY <2>0, TimedAssumption DEF TypeOK
      <4>2. elapsed' = Horizon \/ usec' <= start' + elapsed'
        BY <3>1, <4>1 DEF ClockInvariant, NotEarly
      <4> QED BY <3>1, <4>2 DEF NotEarly
    <3>3. NotLate'
      BY <2>0, <3>1, TimedAssumption DEF ClockInvariant, NotLate, TypeOK
    <3> QED BY <2>0, <3>2, <3>3 DEF ClockInvariant
  <2>2. CASE Check
    BY <2>0, <2>2, TimedAssumption
    DEF Check, TimeUp, ClockInvariant, NotEarly, NotLate, TypeOK
  <2>3. ASSUME NEW t \in Latencies, Benchmark(t) PROVE ClockInvariant'
    BY <2>0, <2>3 DEF Benchmark, time, ClockInvariant, NotEarly, NotLate
  <2>4. CASE MoreMessages \/ Evaluate
    BY <2>0, <2>4
    DEF MoreMessages, Evaluate, time, ClockInvariant, NotEarly, NotLate
  <2>5. CASE UNCHANGED vars
    BY <2>0, <2>5 DEF vars, ClockInvariant, NotEarly, NotLate
  <2> QED BY <2>1, <2>2, <2>3, <2>4, <2>5 DEF Next
<1> QED BY InitTimed, <1>1, PTL DEF Spec

(* The loop never ends before its time, and ends on time if it starts      *)
(* early enough in a second.                                               *)
THEOREM OnTimeSafe == Spec => []OnTime
<1>1. ClockInvariant => OnTime
  BY TimedAssumption DEF ClockInvariant, NotEarly, NotLate, OnTime, TypeOK
<1> QED BY ClockSafe, <1>1, PTL

(* A loop that starts when the limit does not fit into what is left of the *)
(* second never ends, whatever the clients and servers do: no tv_usec is   *)
(* far enough from its start.                                              *)
THEOREM NeverEnds == Spec => []StillRunning
<1>1. Init => StillRunning
  BY DEF Init, StillRunning
<1>2. TypeOK /\ StillRunning /\ [Next]_vars => StillRunning'
  <2> SUFFICES ASSUME TypeOK, StillRunning, [Next]_vars PROVE StillRunning'
    OBVIOUS
  <2>1. CASE Check
    BY <2>1, TimedAssumption DEF Check, TimeUp, StillRunning, TypeOK
  <2>2. CASE Tick \/ MoreMessages \/ Evaluate
    BY <2>2 DEF Tick, MoreMessages, Evaluate, time, StillRunning
  <2>3. ASSUME NEW t \in Latencies, Benchmark(t) PROVE StillRunning'
    BY <2>3 DEF Benchmark, time, StillRunning
  <2>4. CASE UNCHANGED vars
    BY <2>4 DEF vars, StillRunning
  <2> QED BY <2>1, <2>2, <2>3, <2>4 DEF Next
<1>3. ClockInvariant => TypeOK
  BY DEF ClockInvariant
<1> QED BY ClockSafe, <1>1, <1>2, <1>3, PTL DEF Spec

-----------------------------------------------------------------------------
(* Multiplication is monotone.                                             *)
LEMMA TimesMonotone ==
  ASSUME NEW n \in Nat, NEW a \in Nat, NEW b \in Nat, a <= b
  PROVE  n * a <= n * b /\ n * a \in Nat /\ n * b \in Nat
<1>1. n * (b - a) \in Nat
  OBVIOUS
<1>2. n * (b - a) = n * b - n * a /\ n * a \in Nat /\ n * b \in Nat
  OBVIOUS
<1> QED BY <1>1, <1>2

(* One more latency: the figures stay those of what was measured.          *)
LEMMA BenchmarkFigures ==
  ASSUME FiguresInvariant, NEW d \in Latencies, Benchmark(d)
  PROVE  Figures'
<1> DEFINE t == d % Wrap
<1>1. /\ count \in Nat /\ minimum \in Nat /\ maximum \in Nat /\ sum \in Nat
      /\ t \in Nat /\ MinInit \in Nat /\ seen \subseteq Nat
      /\ Wrap \in Nat \ {0}
  <2>1. d \in Int /\ Wrap \in Nat \ {0}
    BY TimedAssumption
  <2>2. t \in 0..(Wrap - 1)
    BY <2>1, Wraps
  <2> QED BY <2>1, <2>2, TimedAssumption DEF FiguresInvariant, TypeOK
<1>2. /\ minimum' = IF t < minimum THEN t ELSE minimum
      /\ maximum' = IF t > maximum THEN t ELSE maximum
      /\ sum' = (sum + t) % Wrap /\ count' = count + 1 /\ seen' = seen \cup {t}
  BY DEF Benchmark
<1> HIDE DEF t
<1>3. /\ minimum' \in Nat /\ minimum' <= minimum /\ minimum' <= t
      /\ maximum' \in Nat /\ maximum <= maximum' /\ t <= maximum'
  BY <1>1, <1>2
<1>4. count' # 0 /\ seen' # {}
  BY <1>1, <1>2
<1>5. maximum' \in seen'
  <2>1. CASE count = 0
    BY <1>1, <1>2, <2>1 DEF FiguresInvariant, Figures
  <2>2. CASE count > 0
    BY <1>1, <1>2, <2>2 DEF FiguresInvariant, Figures
  <2> QED BY <1>1, <2>1, <2>2
<1>6. \E a \in seen' : \A u \in seen' : a <= u
  <2>1. CASE count = 0
    BY <1>1, <1>2, <2>1 DEF FiguresInvariant, Figures
  <2>2. CASE count > 0
    <3>1. PICK a \in seen : \A u \in seen : a <= u
      BY <2>2 DEF FiguresInvariant, Figures
    <3>2. CASE a <= t
      BY <3>1, <3>2, <1>1, <1>2
    <3>3. CASE t <= a
      BY <3>1, <3>3, <1>1, <1>2
    <3> QED BY <3>1, <3>2, <3>3, <1>1
  <2> QED BY <1>1, <2>1, <2>2
<1>7. /\ minimum' <= MinInit
      /\ minimum' # MinInit => minimum' \in seen'
  BY <1>1, <1>2 DEF FiguresInvariant, Figures
<1>8. \A u \in seen' : minimum' <= u /\ u <= maximum'
  BY <1>1, <1>2, <1>3 DEF FiguresInvariant, Figures
<1>9. ASSUME count' * maximum' < Wrap
      PROVE  /\ sum' <= count' * maximum'
             /\ \A m \in Nat : (\A u \in seen' : m <= u) => count' * m <= sum'
  <2>1. /\ count * maximum <= count * maximum'
        /\ count * maximum' \in Nat /\ count * maximum \in Nat
    BY <1>1, <1>3, TimesMonotone
  <2>2. count' * maximum' = count * maximum' + maximum'
    BY <1>1, <1>2, <1>3
  <2>3. count * maximum < Wrap
    <3>1. \A a, b, c, w \in Int : a <= b /\ c >= 0 /\ b + c < w => a < w
      OBVIOUS
    <3>2. /\ count * maximum \in Int /\ count * maximum' \in Int
          /\ maximum' \in Int /\ maximum' >= 0 /\ Wrap \in Int
      BY <2>1, <1>1, <1>3
    <3>3. count * maximum' + maximum' < Wrap
      BY <1>9, <2>2
    <3> QED BY <3>1, <3>2, <3>3, <2>1, Zenon
  <2>4. /\ sum <= count * maximum
        /\ \A m \in Nat : (\A u \in seen : m <= u) => count * m <= sum
    BY <2>3 DEF FiguresInvariant, Figures
  <2>5. sum + t <= count' * maximum'
    BY <2>1, <2>2, <2>4, <1>1, <1>3
  <2>6. sum' = sum + t
    <3>1. sum + t \in 0..(Wrap - 1)
      BY <2>1, <2>2, <2>5, <1>9, <1>1, <1>3
    <3>2. sum + t \in Int
      BY <1>1
    <3> QED BY <3>1, <3>2, <1>1, <1>2, Wraps
  <2>7. ASSUME NEW m \in Nat, \A u \in seen' : m <= u
        PROVE  count' * m <= sum'
    <3>1. m <= t /\ count * m <= sum
      BY <2>4, <2>7, <1>2
    <3>2. count' * m = count * m + m /\ count * m \in Nat
      BY <1>1, <1>2
    <3> QED BY <3>1, <3>2, <2>6, <1>1
  <2> QED BY <2>5, <2>6, <2>7
<1> QED BY <1>4, <1>5, <1>6, <1>7, <1>8, <1>9 DEF Figures

(* The invariant of the statistics holds in every state, also for          *)
(* latencies larger than the minimum setup_benchmarks begins with.         *)
THEOREM FiguresSafe == Spec => []FiguresInvariant
<1>1. FiguresInvariant /\ [Next]_vars => FiguresInvariant'
  <2> SUFFICES ASSUME FiguresInvariant, [Next]_vars PROVE FiguresInvariant'
    OBVIOUS
  <2>1. TypeOK'
    BY TypeStep DEF FiguresInvariant
  <2>2. ASSUME NEW t \in Latencies, Benchmark(t) PROVE Figures'
    BY <2>2, BenchmarkFigures
  <2>3. ASSUME Tick \/ Check \/ MoreMessages \/ Evaluate \/ UNCHANGED vars
        PROVE  Figures'
    <3>1. /\ minimum' = minimum /\ maximum' = maximum /\ sum' = sum
          /\ count' = count /\ seen' = seen
      BY <2>3 DEF Tick, Check, MoreMessages, Evaluate, vars, bench
    <3> QED BY <3>1, Zenon DEF FiguresInvariant, Figures
  <2>4. Figures'
    BY <2>2, <2>3 DEF Next
  <2> QED BY <2>1, <2>4 DEF FiguresInvariant
<1> QED BY InitTimed, <1>1, PTL DEF Spec

(* The minimum and the maximum of a set that has them.                     *)
LEMMA MinIs ==
  ASSUME NEW S, S \subseteq Nat, NEW a \in S, \A t \in S : a <= t
  PROVE  a = Min(S)
<1>1. PICK x \in S : x = Min(S) /\ \A y \in S : x <= y
  BY DEF Min
<1> QED BY <1>1

LEMMA MaxIs ==
  ASSUME NEW S, S \subseteq Nat, NEW b \in S, \A t \in S : t <= b
  PROVE  b = Max(S)
<1>1. PICK x \in S : x = Max(S) /\ \A y \in S : x >= y
  BY DEF Max
<1> QED BY <1>1

(* What evaluate prints: the maximum of the latencies, their minimum or    *)
(* INT32_MAX if that is smaller, and an average between the smallest and   *)
(* the largest latency as long as the sum cannot have wrapped.             *)
THEOREM SummarySafe == Spec => []Summary
<1>1. FiguresInvariant => Summary
  <2> SUFFICES ASSUME FiguresInvariant, count > 0
               PROVE  /\ minimum = Min(seen \cup {MinInit})
                      /\ maximum = Max(seen)
                      /\ count * maximum < Wrap =>
                           count * Min(seen) <= sum /\ sum <= count * maximum
    BY DEF Summary
  <2>1. /\ seen \subseteq Nat /\ minimum \in Nat /\ MinInit \in Nat
        /\ maximum \in seen
        /\ \A t \in seen : minimum <= t /\ t <= maximum
        /\ minimum <= MinInit /\ (minimum # MinInit => minimum \in seen)
    BY TimedAssumption DEF FiguresInvariant, Figures, TypeOK
  <2>2. minimum = Min(seen \cup {MinInit})
    <3>1. /\ minimum \in seen \cup {MinInit} /\ seen \cup {MinInit} \subseteq Nat
          /\ \A t \in seen \cup {MinInit} : minimum <= t
      BY <2>1
    <3> QED BY <3>1, MinIs
  <2>3. maximum = Max(seen)
    BY <2>1, MaxIs
  <2>4. PICK a \in seen : \A t \in seen : a <= t
    BY DEF FiguresInvariant, Figures
  <2>5. a = Min(seen) /\ a \in Nat
    BY <2>1, <2>4, MinIs
  <2>6. count * maximum < Wrap => count * a <= sum /\ sum <= count * maximum
    BY <2>4, <2>5 DEF FiguresInvariant, Figures
  <2> QED BY <2>2, <2>3, <2>5, <2>6
<1> QED BY FiguresSafe, <1>1, PTL

-----------------------------------------------------------------------------
(* The state when the client thread is created.                            *)
LEMMA InitInStep == UniInit => InStep
  BY CountAssumption DEF UniInit, InStep, UniTypeOK, Message

(* The sender's steps.                                                     *)
LEMMA ClientInStep ==
  ASSUME InStep, Client \/ RegisterSenderFails
  PROVE  InStep'
<1> USE CountAssumption DEF InStep, UniTypeOK, Message, shared
<1>1. CASE RegisterSender
  BY <1>1 DEF RegisterSender
<1>2. CASE RegisterSenderFails
  BY <1>2 DEF RegisterSenderFails
<1>3. CASE ClientReset
  BY <1>3 DEF ClientReset
<1>4. CASE ClientStamp
  BY <1>4 DEF ClientStamp
<1>5. CASE ClientSend
  BY <1>5 DEF ClientSend
<1>6. CASE ClientSpin
  BY <1>6 DEF ClientSpin
<1>7. CASE ClientReturn
  BY <1>7 DEF ClientReturn
<1> QED BY <1>1, <1>2, <1>3, <1>4, <1>5, <1>6, <1>7 DEF Client

(* The steps of the main thread, in the handler and outside it.            *)
LEMMA MainInStep ==
  ASSUME InStep, Deliver \/ Handler \/ Server
  PROVE  InStep'
<1> USE CountAssumption
    DEF InStep, UniTypeOK, Message, shared, client
<1>1. CASE Deliver
  BY <1>1 DEF Deliver
<1>2. CASE HandlerBenchmark
  BY <1>2 DEF HandlerBenchmark
<1>3. CASE HandlerCount
  BY <1>3 DEF HandlerCount
<1>4. CASE HandlerReceived
  BY <1>4 DEF HandlerReceived
<1>5. CASE HandlerReturn
  BY <1>5 DEF HandlerReturn
<1>6. CASE ServerSpin
  BY <1>6 DEF ServerSpin
<1>7. CASE ServerEvaluate
  BY <1>7 DEF ServerEvaluate
<1> QED BY <1>1, <1>2, <1>3, <1>4, <1>5, <1>6, <1>7 DEF Handler, Server

(* Sender, handler and main thread stay in step.                           *)
THEOREM InStepSafe == UniSpec => []InStep
<1>1. InStep /\ [UniNext]_uniVars => InStep'
  <2> SUFFICES ASSUME InStep, [UniNext]_uniVars PROVE InStep'
    OBVIOUS
  <2>1. CASE Client \/ RegisterSenderFails
    BY <2>1, ClientInStep
  <2>2. CASE Deliver \/ Handler \/ Server
    BY <2>2, MainInStep
  <2>3. CASE UNCHANGED uniVars
    BY <2>3 DEF InStep, UniTypeOK, Message, uniVars
  <2> QED BY <2>1, <2>2, <2>3 DEF UniNext
<1> QED BY InitInStep, <1>1, PTL DEF UniSpec

(* Every measurement uses the start time of its own message.               *)
THEOREM FreshSafe == UniSpec => []Fresh
<1>1. InStep => Fresh
  BY CountAssumption DEF InStep, UniTypeOK, Fresh, Message
<1> QED BY InStepSafe, <1>1, PTL

(* No two interrupts are merged into one.                                  *)
THEOREM NothingMergedSafe == UniSpec => []NothingMerged
<1>1. InStep => NothingMerged
  BY CountAssumption DEF InStep, UniTypeOK, NothingMerged, Message
<1> QED BY InStepSafe, <1>1, PTL

(* The results are complete and final when they are read.                  *)
THEOREM QuietSafe == UniSpec => []Quiet
<1>1. InStep => Quiet
  BY CountAssumption DEF InStep, UniTypeOK, Quiet, Message
<1> QED BY InStepSafe, <1>1, PTL

(* While the benchmark runs, an interrupt can be delivered, the handler or *)
(* the main thread goes on, or the sender does.                            *)
NotStuck ==
  \/ spc \in {"done", "error"}
  \/ cpc \notin {"spin", "done", "error"}
  \/ cpc = "spin" /\ uintr_received # 0
  \/ hpc # "off" \/ pending = 1
  \/ spc = "evaluate" \/ uintr_count >= Count

(* The sender never spins for an interrupt that was merged, and the main   *)
(* thread never waits for more interrupts than are sent: the safety part   *)
(* of Terminates.                                                          *)
THEOREM NoDeadlock == UniSpec => []NotStuck
<1>1. InStep => NotStuck
  BY CountAssumption DEF InStep, UniTypeOK, NotStuck, Message
<1> QED BY InStepSafe, <1>1, PTL
=============================================================================
