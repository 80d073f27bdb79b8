--------------------------- MODULE EventfdProofs ---------------------------
(***************************************************************************)
(* The two eventfd benchmarks.                                             *)
(*                                                                         *)
(* The two-way one for every -c: there is one token, and client and server *)
(* agree on the round they are in.  The one-way one for every clock and    *)
(* every width of the counter: what the client reads is the sum of the     *)
(* timestamps written since its last read, and a server that blocks after  *)
(* the client has ended is blocked for ever.                               *)
(***************************************************************************)
EXTENDS EventfdBi, EventfdUni, TLAPS

(* The state after fork satisfies the invariant.                           *)
LEMMA InitToken == Init => TokenInvariant
  BY CountAssumption
  DEF Init, TokenInvariant, TypeOK, OneToken, Lockstep, Answered, Seen, Owed,
      NoToken, Procs, SERVER_TOKEN, CLIENT_TOKEN

(* The two halves of eventfd_wait, by either process.                      *)
LEMMA WaitToken ==
  ASSUME TokenInvariant, NEW p \in Procs, Wait(p)
  PROVE  TokenInvariant'
<1> USE DEF TokenInvariant, TypeOK, OneToken, Lockstep, Answered, Seen, Owed,
            NoToken, TokenIs, Procs, SERVER_TOKEN, CLIENT_TOKEN
<1>1. CASE Read(p)
  BY <1>1, CountAssumption DEF Read, Wanted, Waited
<1>2. CASE WriteBack(p)
  BY <1>2, CountAssumption DEF WriteBack
<1> QED BY <1>1, <1>2 DEF Wait

(* The client's own steps.                                                 *)
LEMMA ClientToken ==
  ASSUME TokenInvariant, ClientNotify \/ ClientNext \/ ClientExit
  PROVE  TokenInvariant'
<1> USE DEF TokenInvariant, TypeOK, OneToken, Lockstep, Answered, Seen, Owed,
            NoToken, TokenIs, Procs, SERVER_TOKEN, CLIENT_TOKEN
<1>1. CASE ClientNotify
  BY <1>1, CountAssumption DEF ClientNotify
<1>2. CASE ClientNext
  BY <1>2, CountAssumption DEF ClientNext
<1>3. CASE ClientExit
  BY <1>3, CountAssumption DEF ClientExit
<1> QED BY <1>1, <1>2, <1>3

(* The server's own steps.                                                 *)
LEMMA ServerToken ==
  ASSUME TokenInvariant,
         ServerStart \/ ServerNotify \/ ServerBenchmark \/ ServerEvaluate
  PROVE  TokenInvariant'
<1> USE DEF TokenInvariant, TypeOK, OneToken, Lockstep, Answered, Seen, Owed,
            NoToken, TokenIs, Procs, SERVER_TOKEN, CLIENT_TOKEN
<1>1. CASE ServerStart
  BY <1>1, CountAssumption DEF ServerStart
<1>2. CASE ServerNotify
  BY <1>2, CountAssumption DEF ServerNotify
<1>3. CASE ServerBenchmark
  BY <1>3, CountAssumption DEF ServerBenchmark
<1>4. CASE ServerEvaluate
  BY <1>4, CountAssumption DEF ServerEvaluate
<1> QED BY <1>1, <1>2, <1>3, <1>4

(* The counter is never a sum of tokens and the rounds agree, for every    *)
(* number of messages and every interleaving.                              *)
THEOREM TokenSafe == Spec => []TokenInvariant
<1>1. TokenInvariant /\ [Next]_vars => TokenInvariant'
  <2> SUFFICES ASSUME TokenInvariant, [Next]_vars PROVE TokenInvariant'
    OBVIOUS
  <2>1. CASE Wait("client") \/ Wait("server")
    BY <2>1, WaitToken DEF Procs
  <2>2. CASE ClientNotify \/ ClientNext \/ ClientExit
    BY <2>2, ClientToken
  <2>3. CASE ServerStart \/ ServerNotify \/ ServerBenchmark \/ ServerEvaluate
    BY <2>3, ServerToken
  <2>4. CASE UNCHANGED vars
    BY <2>4 DEF TokenInvariant, TypeOK, OneToken, Lockstep, Answered, Seen,
                Owed, NoToken, TokenIs, vars
  <2> QED BY <2>1, <2>2, <2>3, <2>4 DEF Next, Client, Server
<1> QED BY InitToken, <1>1, PTL DEF Spec

(* At most one token exists.                                               *)
THEOREM OneTokenSafe == Spec => []OneToken
<1>1. TokenInvariant => OneToken
  BY DEF TokenInvariant
<1> QED BY TokenSafe, <1>1, PTL

(* In a round where the server has answered everything, the token left is  *)
(* not a request: a client that still waits for one would have to be a     *)
(* round ahead of the last one.                                            *)
LEMMA AllAnswered ==
  ASSUME TokenInvariant, pc["server"] = "done", measured = Count
  PROVE  counter # SERVER_TOKEN
<1>1. /\ message = Count /\ Answered = Count /\ Seen = Count - left
      /\ left \in Nat /\ ~Owed
  BY CountAssumption DEF TokenInvariant, TypeOK, Lockstep, Answered, Seen, Owed
<1>2. CASE pc["client"] \in {"read", "writeback"}
  <2>1. left > 0 /\ TokenIs(CLIENT_TOKEN)
    BY <1>1, <1>2, CountAssumption DEF TokenInvariant, TypeOK, Lockstep
  <2> QED
    BY <2>1 DEF TokenInvariant, OneToken, TokenIs, SERVER_TOKEN, CLIENT_TOKEN
<1>3. CASE pc["client"] \notin {"read", "writeback"}
  BY <1>3 DEF TokenInvariant, TypeOK, Lockstep, NoToken, Procs, SERVER_TOKEN
<1> QED BY <1>2, <1>3

(* The server evaluates only after the last round, and no later step of    *)
(* the client takes that back.                                             *)
THEOREM CompleteSafe == Spec => []Complete
<1> DEFINE AtEnd == pc["server"] = "done" => measured = Count
<1>1. Init => AtEnd
  BY DEF Init, Procs
<1>2. TokenInvariant /\ AtEnd /\ [Next]_vars => AtEnd'
  <2> SUFFICES ASSUME TokenInvariant, AtEnd, [Next]_vars PROVE AtEnd'
    OBVIOUS
  <2>1. CASE ServerEvaluate
    BY <2>1, CountAssumption
    DEF ServerEvaluate, TokenInvariant, TypeOK, Lockstep
  <2>2. CASE Wait("client") \/ Wait("server")
    BY <2>2 DEF Wait, Read, WriteBack, Waited, TokenInvariant, TypeOK, Procs
  <2>3. CASE ClientNotify \/ ClientNext \/ ClientExit
    BY <2>3 DEF ClientNotify, ClientNext, ClientExit, TokenInvariant, TypeOK,
                Procs
  <2>4. CASE ServerStart \/ ServerNotify \/ ServerBenchmark
    BY <2>4 DEF ServerStart, ServerNotify, ServerBenchmark, TokenInvariant,
                TypeOK, Procs
  <2>5. CASE UNCHANGED vars
    BY <2>5 DEF vars
  <2> QED BY <2>1, <2>2, <2>3, <2>4, <2>5 DEF Next, Client, Server
<1>3. TokenInvariant /\ AtEnd => Complete
  BY AllAnswered DEF Complete
<1> QED BY TokenSafe, <1>1, <1>2, <1>3, PTL DEF Spec

-----------------------------------------------------------------------------
(* The two processes never wait for each other: unless both have ended one *)
(* of them is not in read(), or the counter it reads is not empty.  This   *)
(* is the safety part of Progress.                                         *)
NotStuck ==
  \/ \A p \in Procs : pc[p] = "done"
  \/ \E p \in Procs : \/ pc[p] \notin {"read", "done"}
                      \/ pc[p] = "read" /\ counter > 0

(* No token is lost and no process ends while the other still needs it, so *)
(* no read() of the two-way benchmark blocks for ever.                     *)
THEOREM NoDeadlock == Spec => []NotStuck
<1> DEFINE Ended == pc["client"] = "done" => left = 0
<1>1. Init => Ended
  BY DEF Init, Procs
<1>2. TokenInvariant /\ Ended /\ [Next]_vars => Ended'
  <2> SUFFICES ASSUME TokenInvariant, Ended, [Next]_vars PROVE Ended'
    OBVIOUS
  <2> USE DEF TokenInvariant, TypeOK, Procs
  <2>1. CASE Wait("client") \/ Wait("server")
    BY <2>1 DEF Wait, Read, WriteBack, Waited
  <2>2. CASE ClientNotify \/ ClientNext \/ ClientExit
    BY <2>2 DEF ClientNotify, ClientNext, ClientExit
  <2>3. CASE ServerStart \/ ServerNotify \/ ServerBenchmark \/ ServerEvaluate
    BY <2>3 DEF ServerStart, ServerNotify, ServerBenchmark, ServerEvaluate
  <2>4. CASE UNCHANGED vars
    BY <2>4 DEF vars
  <2> QED BY <2>1, <2>2, <2>3, <2>4 DEF Next, Client, Server
<1>3. TokenInvariant /\ Complete /\ Ended => NotStuck
  <2> SUFFICES ASSUME TokenInvariant, Complete, Ended,
                      \A p \in Procs : pc[p] \in {"read", "done"},
                      \E p \in Procs : pc[p] = "read"
               PROVE  counter > 0
    BY DEF NotStuck, TokenInvariant, TypeOK, Procs
  <2> USE DEF TokenInvariant, TypeOK, Lockstep, Answered, Seen, Owed, TokenIs,
              Procs, SERVER_TOKEN, CLIENT_TOKEN
  <2>1. CASE pc["client"] = "read"
    BY <2>1
  <2>2. CASE pc["client"] = "done" /\ pc["server"] = "read"
    BY <2>2, CountAssumption DEF NoToken
  <2> QED BY <2>1, <2>2
<1> QED BY TokenSafe, CompleteSafe, <1>1, <1>2, <1>3, PTL DEF Spec

-----------------------------------------------------------------------------
(* What every step of the one-way benchmark preserves: a timestamp that is *)
(* about to be written was taken between the start and now.                *)
SumsInvariant ==
  /\ Sums
  /\ clock \in Nat /\ Base <= clock /\ clock <= Base + MaxTick
  /\ merged \in Nat /\ taken \in Nat
  /\ server \in {"stamp", "write"}
  /\ server = "write" => timestamp \in Base..clock

(* A product with one summand more, and with a larger factor.              *)
LEMMA TimesStep ==
  ASSUME NEW n \in Nat, NEW a \in Nat
  PROVE  /\ n * a \in Nat
         /\ (n + 1) * a = n * a + a
         /\ n * (a + 1) = n * a + n
  OBVIOUS

(* The eventfd is new.                                                     *)
LEMMA InitSums ==
  ASSUME UniInit
  PROVE  SumsInvariant
<1>1. Base \in Nat /\ MaxValue \in Nat /\ 0 * Base = 0 /\ 0 * clock = 0
  BY EventfdAssumption DEF UniInit
<1> QED BY <1>1, EventfdAssumption DEF UniInit, SumsInvariant, Sums

(* Every step keeps the sums: the clock widens them, a write adds its      *)
(* timestamp to one and a read moves it to the other.                      *)
LEMMA SumsStep ==
  ASSUME SumsInvariant, [UniNext]_uniVars
  PROVE  SumsInvariant'
<1> DEFINE lo == merged * Base
           hi == merged * clock
           low == taken * Base
           high == taken * clock
<1>1. /\ Base \in Nat \ {0} /\ MaxValue \in Nat /\ clock \in Nat
      /\ Base <= clock /\ merged \in Nat /\ taken \in Nat
      /\ lo \in Nat /\ hi \in Nat /\ low \in Nat /\ high \in Nat
  BY TimesStep, EventfdAssumption DEF SumsInvariant
<1>2. /\ value \in Int /\ lo <= value /\ value <= hi
      /\ single_start \in Int /\ low <= single_start /\ single_start <= high
      /\ value <= MaxValue
      /\ client = "benchmark" => taken > 0
  BY <1>1 DEF SumsInvariant, Sums
<1>3. CASE Tick
  <2>1. /\ clock' = clock + 1 /\ value' = value /\ merged' = merged
        /\ taken' = taken /\ single_start' = single_start /\ client' = client
        /\ server' = server /\ timestamp' = timestamp
        /\ clock < Base + MaxTick /\ MaxTick \in Nat
    BY <1>3, EventfdAssumption DEF Tick, serverVars, clientVars
  <2>2. merged * (clock + 1) = hi + merged /\ taken * (clock + 1) = high + taken
    BY <1>1, TimesStep
  <2> HIDE DEF hi, high
  <2>3. /\ value \in lo..(hi + merged)
        /\ single_start \in low..(high + taken)
    BY <1>1, <1>2
  <2>4. Sums'
    BY <1>2, <2>1, <2>2, <2>3 DEF Sums
  <2> QED BY <1>1, <2>1, <2>4 DEF SumsInvariant
<1>4. CASE ServerStamp
  BY <1>1, <1>4 DEF ServerStamp, clientVars, SumsInvariant, Sums
<1>5. CASE ServerWrite
  <2>1. /\ value' = value + timestamp /\ merged' = merged + 1
        /\ value + timestamp <= MaxValue /\ server' = "stamp"
        /\ taken' = taken /\ single_start' = single_start /\ client' = client
        /\ clock' = clock /\ timestamp \in Base..clock
    BY <1>5 DEF ServerWrite, clientVars, SumsInvariant
  <2>2. (merged + 1) * Base = lo + Base /\ (merged + 1) * clock = hi + clock
    BY <1>1, TimesStep
  <2> HIDE DEF lo, hi
  <2>3. value + timestamp \in (lo + Base)..(hi + clock)
    BY <1>1, <1>2, <2>1
  <2>4. Sums'
    BY <1>2, <2>1, <2>2, <2>3 DEF Sums, SumsInvariant
  <2> QED BY <1>1, <2>1, <2>4 DEF SumsInvariant
<1>6. CASE ClientRead
  <2>1. /\ single_start' = value /\ taken' = merged /\ value' = 0
        /\ merged' = 0 /\ clock' = clock /\ value > 0
        /\ server' = server /\ timestamp' = timestamp
    BY <1>6 DEF ClientRead, serverVars
  <2>2. merged > 0
    <3>1. merged = 0 => hi = 0
      BY <1>1
    <3> HIDE DEF hi
    <3> QED BY <1>1, <1>2, <2>1, <3>1
  <2>3. 0 * Base = 0 /\ 0 * clock = 0
    BY <1>1
  <2>4. Sums'
    BY <1>1, <1>2, <2>1, <2>2, <2>3 DEF Sums
  <2> QED BY <1>1, <2>1, <2>4 DEF SumsInvariant
<1>7. CASE ClientCheck \/ ClientBenchmark \/ UNCHANGED uniVars
  <2>1. /\ clock' = clock /\ value' = value /\ merged' = merged
        /\ taken' = taken /\ single_start' = single_start
        /\ server' = server /\ timestamp' = timestamp
        /\ client' = "benchmark" => client = "benchmark"
    BY <1>7 DEF ClientCheck, ClientBenchmark, serverVars, uniVars
  <2>2. Sums'
    BY <2>1, Zenon DEF SumsInvariant, Sums
  <2> QED BY <2>1, <2>2 DEF SumsInvariant
<1> QED BY <1>3, <1>4, <1>5, <1>6, <1>7 DEF UniNext, UniServer, UniClient

(* The invariant of the one-way benchmark holds in every state.            *)
LEMMA SumsAlways == UniSpec => []SumsInvariant
<1>1. UniInit => SumsInvariant
  BY InitSums
<1>2. SumsInvariant /\ [UniNext]_uniVars => SumsInvariant'
  BY SumsStep
<1> QED BY <1>1, <1>2, PTL DEF UniSpec

(* The counter never wraps, no timestamp is lost or counted twice, and     *)
(* what the client takes for one timestamp is the sum of taken of them.    *)
THEOREM SumsSafe == UniSpec => []Sums
<1>1. SumsInvariant => Sums
  BY DEF SumsInvariant
<1> QED BY SumsAlways, <1>1, PTL

(* A server that waits for room has filled the counter: client and server  *)
(* are never blocked at the same time while the client runs.  This is the  *)
(* safety part of Served.                                                  *)
THEOREM NeverBothBlocked ==
  UniSpec => [](ServerBlocked => value > 0)
<1>1. SumsInvariant => (ServerBlocked => value > 0)
  <2> SUFFICES ASSUME SumsInvariant, ServerBlocked PROVE value > 0
    OBVIOUS
  <2>1. /\ timestamp \in Nat /\ timestamp <= Base + MaxTick
        /\ Base \in Nat /\ MaxTick \in Nat /\ MaxValue \in Nat
        /\ MaxValue >= Base + MaxTick
    BY EventfdAssumption DEF SumsInvariant, ServerBlocked
  <2>2. merged * Base \in Nat /\ merged * clock \in Nat
    BY <2>1 DEF SumsInvariant
  <2>3. value \in Nat
    BY <2>2 DEF SumsInvariant, Sums
  <2> QED BY <2>1, <2>3 DEF ServerBlocked
<1> QED BY SumsAlways, <1>1, PTL

(* The client has ended and the next timestamp does not fit.               *)
Stuck == client = "done" /\ ServerBlocked

(* The server of such a run never goes on: nobody reads any more.          *)
THEOREM StuckForEver == UniSpec => [](Stuck => []Stuck)
<1>1. SumsInvariant /\ Stuck /\ [UniNext]_uniVars => Stuck'
  <2> SUFFICES ASSUME SumsInvariant, Stuck, [UniNext]_uniVars PROVE Stuck'
    OBVIOUS
  <2>1. ~ServerWrite
    <3>1. value \in Int /\ timestamp \in Int /\ MaxValue \in Int
      BY EventfdAssumption DEF SumsInvariant, Sums, Stuck, ServerBlocked
    <3> QED BY <3>1 DEF Stuck, ServerBlocked, ServerWrite
  <2>2. value' = value /\ timestamp' = timestamp /\ server' = server
        /\ client' = client
    BY <2>1
    DEF Stuck, ServerBlocked, UniNext, Tick, UniServer,
        ServerStamp, UniClient, ClientCheck, ClientRead,
        ClientBenchmark, serverVars, clientVars, uniVars
  <2> QED BY <2>2 DEF Stuck, ServerBlocked
<1> QED BY SumsAlways, <1>1, PTL DEF UniSpec
=============================================================================
