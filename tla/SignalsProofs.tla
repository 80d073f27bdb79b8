--------------------------- MODULE SignalsProofs ---------------------------
(***************************************************************************)
(* The signal, FIFO and pipe benchmarks for every -c, every number of      *)
(* rounds and every setting: who may be killed by a notification, and that *)
(* no notification is merged with another one.                             *)
(*                                                                         *)
(* The argument follows the one thing that goes round, the turn: it is     *)
(* with the client, a pending SIGUSR1, with the server, or a pending       *)
(* SIGUSR2.  Only the very first request can get lost, at a server that is *)
(* not set up yet, and then nobody ever has the turn again.                *)
(***************************************************************************)
EXTENDS Signals, TLAPS

(* Before a process has blocked its signal and slept.                      *)
Early == {"forked", "default", "handler", "usleep"}

Pending(s, c) == pending["server"] = s /\ pending["client"] = c

(* Only a process that was exec'ed by a leader's parent, or forked for the *)
(* pipe, ever sends or receives anything.                                  *)
Launched ==
  /\ \A p \in Procs :
       /\ method = "pipe" => pc[p] # "forked"
       /\ method # "pipe" /\ pc[p] \notin {"forked", "error"} => leader
  /\ pc["server"] = "error" => method # "pipe" /\ ~leader

(* The signal benchmark: cnt rounds are over, and requests says who has    *)
(* the turn.                                                               *)
SignalTurn ==
  /\ stream = << >>
  /\ cnt <= count
  /\ pc["client"] = "done" => count = 0
  /\ pc["server"] \in {"wait", "benchmark"} => cnt < count
  /\ pc["server"] = "done" => cnt = count
  /\ \/ /\ pc["client"] \in Early \cup {"start", "error"}
        /\ pc["server"] \in Early \cup {"start", "error"}
        /\ Pending(0, 0) /\ requests = 0 /\ cnt = 0
     \/ /\ pc["client"] \in {"loop", "wait", "done"}
        /\ \/ /\ pc["server"] \in Early \cup {"start", "killed"}
              /\ pending["server"] = 1 => pc["server"] \in {"usleep", "start"}
              /\ pending["client"] = 0 /\ requests = 1 /\ cnt = 0
           \/ /\ pc["server"] \in {"loop", "done", "aborted"}
              /\ Pending(0, 0) /\ requests = cnt + 1
           \/ pc["server"] = "wait" /\ Pending(0, 1) /\ requests = cnt + 1
           \/ pc["server"] = "wait" /\ Pending(1, 0) /\ requests = cnt + 2
           \/ pc["server"] = "benchmark" /\ Pending(0, 0) /\ requests = cnt + 2
     \/ /\ pc["client"] = "notify" /\ pc["server"] = "wait"
        /\ Pending(0, 0) /\ requests = cnt + 1

(* The FIFO and the pipe: cnt requests are measured, and the stream holds  *)
(* the timestamp of the request under way once the server has written it.  *)
StreamTurn ==
  \/ /\ pc["client"] \in Early \cup {"fopen", "opening", "error", "check",
                                     "notify", "done"}
     /\ pc["server"] \in Early \cup {"mkfifo", "fopen", "opening", "error",
                                     "wait"}
     /\ Pending(0, 0) /\ stream = << >> /\ requests = cnt
     /\ cnt > 0 => pc["server"] = "wait"
                   /\ pc["client"] \in {"check", "notify", "done"}
  \/ /\ pc["client"] = "wait" /\ requests = cnt + 1
     /\ \/ /\ pc["server"] \in Early \cup {"mkfifo", "fopen", "opening",
                                           "wait", "killed"}
           /\ pending["server"] = 1 => pc["server"] \notin
                                 {"forked", "default", "handler", "killed"}
           /\ pending["client"] = 0 /\ stream = << >> /\ cnt = 0
        \/ pc["server"] = "wait" /\ Pending(1, 0) /\ stream = << >>
        \/ pc["server"] = "now" /\ Pending(0, 0) /\ stream = << >>
        \/ /\ pc["server"] = "write" /\ Pending(0, 0) /\ stream = << >>
           /\ timestamp = requests
        \/ pc["server"] = "notify" /\ Pending(0, 0) /\ stream = <<requests>>
        \/ pc["server"] = "wait" /\ Pending(0, 1) /\ stream = <<requests>>
  \/ /\ pc["client"] = "fread" /\ pc["server"] = "wait"
     /\ Pending(0, 0) /\ stream = <<requests>> /\ requests = cnt + 1
  \/ /\ pc["client"] = "benchmark" /\ pc["server"] = "wait"
     /\ Pending(0, 0) /\ stream = << >> /\ requests = cnt + 1
     /\ single_start = requests

(* Why an ordered start keeps the server alive: the client gets past its   *)
(* sleep, or past fopen, only when the server has blocked its signal.      *)
OrderedStart ==
  /\ sleepEnough /\ pc["client"] \notin Early \cup {"error"} =>
       pc["server"] \notin {"forked", "default", "handler", "killed", "error"}
  /\ \A p \in Procs :
       pc[p] \in {"mkfifo", "fopen", "opening"} => method = "fifo"
  /\ opened["server"] = 1 =>
       /\ method = "fifo"
       /\ pc["server"] \in {"opening", "wait", "now", "write", "notify"}
  /\ method = "fifo" /\ remains # "writer"
     /\ pc["client"] \in {"check", "notify", "wait", "fread", "benchmark", "done"}
       => opened["server"] = 1

(* What every step preserves.                                              *)
TurnInvariant ==
  /\ TypeOK
  /\ Launched
  /\ method = "signal" => SignalTurn
  /\ method # "signal" => StreamTurn
  /\ OrderedStart
  /\ pc["server"] = "killed" => ~Ordered

(* The state past the fork satisfies the invariant.                        *)
LEMMA InitTurn == Init => TurnInvariant
  BY SettingAssumption
  DEF Init, TurnInvariant, TypeOK, Launched, SignalTurn, StreamTurn,
      OrderedStart, Ordered, Pending, Early, Procs, Gone, Leftovers

(* A process' own set-up: exec, signals, sleep, and opening the FIFO.      *)
LEMMA SetupTurn ==
  ASSUME TurnInvariant, NEW p \in Procs, Setup(p)
  PROVE  TurnInvariant'
<1> USE DEF TurnInvariant, TypeOK, Launched, SignalTurn, StreamTurn,
            OrderedStart, Ordered, Pending, Early, Procs, Other, Gone,
            Leftovers, setting, file, data, Goto
<1>1. CASE Exec(p)
  BY <1>1, SettingAssumption DEF Exec
<1>2. CASE SetpgidFails(p)
  BY <1>2, SettingAssumption DEF SetpgidFails
<1>3. CASE SetupSignals(p)
  BY <1>3, SettingAssumption DEF SetupSignals
<1>4. CASE Usleep(p)
  BY <1>4, SettingAssumption DEF Usleep, Started, Blocks
<1>5. CASE Fopen(p)
  BY <1>5, SettingAssumption DEF Fopen
<1>6. CASE FopenReturns(p)
  BY <1>6, SettingAssumption DEF FopenReturns
<1> QED BY <1>1, <1>2, <1>3, <1>4, <1>5, <1>6 DEF Setup

(* The FIFO is made, or is not there yet.                                  *)
LEMMA FifoTurn ==
  ASSUME TurnInvariant, Mkfifo \/ FopenFails
  PROVE  TurnInvariant'
<1> USE DEF TurnInvariant, TypeOK, Launched, SignalTurn, StreamTurn,
            OrderedStart, Ordered, Pending, Early, Procs, Other, Gone,
            Leftovers, setting, file, data, Goto
<1>1. CASE Mkfifo
  BY <1>1, SettingAssumption DEF Mkfifo
<1>2. CASE FopenFails
  BY <1>2, SettingAssumption DEF FopenFails
<1> QED BY <1>1, <1>2

(* The server of the signal benchmark.                                     *)
LEMMA SignalServerTurn ==
  ASSUME TurnInvariant, ServerFirstWait \/ ServerSignal \/ ServerBenchmark \/ ServerEvaluate
  PROVE  TurnInvariant'
<1> USE DEF TurnInvariant, TypeOK, Launched, SignalTurn, StreamTurn,
            OrderedStart, Ordered, Pending, Early, Procs, Other, Gone,
            Leftovers, setting, file, data, Goto
<1>1. CASE ServerFirstWait
  BY <1>1, SettingAssumption DEF ServerFirstWait, WaitForSignal
<1>2. CASE ServerSignal
  BY <1>2, SettingAssumption DEF ServerSignal, KillGroup, Kills, Blocks, Own
<1>3. CASE ServerBenchmark
  BY <1>3, SettingAssumption DEF ServerBenchmark
<1>4. CASE ServerEvaluate
  BY <1>4, SettingAssumption DEF ServerEvaluate
<1> QED BY <1>1, <1>2, <1>3, <1>4

(* The server of the FIFO and the pipe, and the wait all servers share.    *)
LEMMA StreamServerTurn ==
  ASSUME TurnInvariant, ServerWait \/ ServerNow \/ ServerWrite \/ ServerNotify
  PROVE  TurnInvariant'
<1> USE DEF TurnInvariant, TypeOK, Launched, SignalTurn, StreamTurn,
            OrderedStart, Ordered, Pending, Early, Procs, Other, Gone,
            Leftovers, setting, file, data, Goto
<1>1. CASE ServerWait
  <2>1. CASE method = "signal"
    BY <1>1, <2>1, SettingAssumption DEF ServerWait, WaitForSignal
  <2>2. CASE method # "signal"
    BY <1>1, <2>2, SettingAssumption DEF ServerWait, WaitForSignal
  <2> QED BY <2>1, <2>2
<1>2. CASE ServerNow
  BY <1>2, SettingAssumption DEF ServerNow
<1>3. CASE ServerWrite
  <2>1. /\ method # "signal" /\ stream = << >> /\ timestamp = requests
        /\ timestamp \in Nat
    BY <1>3 DEF ServerWrite
  <2>2. stream' = <<requests>> /\ stream' \in Seq(Nat)
    BY <1>3, <2>1 DEF ServerWrite
  <2> QED BY <1>3, <2>1, <2>2, SettingAssumption DEF ServerWrite
<1>4. CASE ServerNotify
  BY <1>4, SettingAssumption DEF ServerNotify, KillGroup, Kills, Blocks, Own
<1> QED BY <1>1, <1>2, <1>3, <1>4

(* The client.                                                             *)
LEMMA ClientTurn ==
  ASSUME TurnInvariant, \/ ClientNotify \/ ClientLoop \/ ClientCheck
                        \/ ClientWait \/ ClientRead \/ ClientBenchmark
  PROVE  TurnInvariant'
<1> USE DEF TurnInvariant, TypeOK, Launched, SignalTurn, StreamTurn,
            OrderedStart, Ordered, Pending, Early, Procs, Other, Gone,
            Leftovers, setting, file, data, Goto
<1>1. CASE ClientNotify
  BY <1>1, SettingAssumption DEF ClientNotify, KillGroup, Kills, Blocks, Own
<1>2. CASE ClientLoop
  BY <1>2, SettingAssumption DEF ClientLoop
<1>3. CASE ClientCheck
  BY <1>3, SettingAssumption DEF ClientCheck
<1>4. CASE ClientWait
  BY <1>4, SettingAssumption DEF ClientWait, WaitForSignal
<1>5. CASE ClientRead
  BY <1>5, SettingAssumption DEF ClientRead
<1>6. CASE ClientBenchmark
  BY <1>6, SettingAssumption DEF ClientBenchmark
<1> QED BY <1>1, <1>2, <1>3, <1>4, <1>5, <1>6

(* There is never more than one turn, whatever the setting and however     *)
(* the set-ups of the two processes interleave.                            *)
THEOREM TurnSafe == Spec => []TurnInvariant
<1>1. TurnInvariant /\ [Next]_vars => TurnInvariant'
  <2> SUFFICES ASSUME TurnInvariant, [Next]_vars PROVE TurnInvariant'
    OBVIOUS
  <2>1. CASE Client
    BY <2>1, SetupTurn, FifoTurn, ClientTurn DEF Client, Procs
  <2>2. CASE Server
    BY <2>2, SetupTurn, FifoTurn, SignalServerTurn, StreamServerTurn
    DEF Server, Procs
  <2>3. CASE UNCHANGED vars
    BY <2>3 DEF TurnInvariant, TypeOK, Launched, SignalTurn, StreamTurn,
                OrderedStart, Ordered, Pending, vars, setting, file, data
  <2> QED BY <2>1, <2>2, <2>3 DEF Next
<1> QED BY InitTurn, <1>1, PTL DEF Spec

(* No notification kills a process if the start is ordered; otherwise only *)
(* the server can die, and only of the first request.                      *)
THEOREM SurvivesSafe == Spec => []Survives
<1>1. TurnInvariant => Survives
  BY DEF TurnInvariant, Survives, SignalTurn, StreamTurn, Early, TypeOK
<1> QED BY TurnSafe, <1>1, PTL

(* Requests, timestamps and answers never pile up.                         *)
THEOREM InTurnSafe == Spec => []InTurn
<1>1. TurnInvariant => InTurn
  <2> SUFFICES ASSUME TurnInvariant PROVE InTurn
    OBVIOUS
  <2>1. CASE method = "signal"
    BY <2>1 DEF TurnInvariant, InTurn, NothingMerged, SignalTurn, Pending,
                Early, TypeOK
  <2>2. CASE method # "signal"
    <3>1. NothingMerged
      BY <2>2 DEF TurnInvariant, NothingMerged, StreamTurn, Pending, Early
    <3>2. \/ stream = <<requests>>
          \/ stream = << >> /\ pc["client"] # "fread"
      BY <2>2 DEF TurnInvariant, StreamTurn, Early
    <3>3. Len(stream) <= 1 /\ (pc["client"] = "fread" => Len(stream) = 1)
      <4>1. CASE stream = <<requests>>
        BY <4>1
      <4>2. CASE stream = << >> /\ pc["client"] # "fread"
        BY <4>2
      <4> QED BY <3>2, <4>1, <4>2
    <3> QED
      BY <2>2, <3>1, <3>3
      DEF TurnInvariant, InTurn, StreamTurn, Pending, Early
  <2> QED BY <2>1, <2>2
<1> QED BY TurnSafe, <1>1, PTL

-----------------------------------------------------------------------------
(* The first request has reached a server that is still on its way, and    *)
(* when both sides wait one of them has a signal pending.                  *)
NotLost ==
  Ordered /\ requests > 0 =>
    /\ pc["server"] # "killed"
    /\ pc["server"] \in Early \cup {"mkfifo", "fopen", "opening", "start"} =>
         pending["server"] = 1
    /\ pc["server"] = "wait" /\ pc["client"] = "wait" =>
         pending["server"] = 1 \/ pending["client"] = 1

(* A client has not opened the FIFO before its fopen, nor if it gave up.   *)
ClosedEnd ==
  pc["client"] \in Early \cup {"fopen", "error"} => opened["client"] = 0

LEMMA SetupNotLost ==
  ASSUME TurnInvariant, NotLost, ClosedEnd, NEW p \in Procs,
         Setup(p) \/ Mkfifo \/ FopenFails
  PROVE  NotLost' /\ ClosedEnd'
<1> USE DEF TurnInvariant, TypeOK, NotLost, ClosedEnd, Ordered, Launched,
            SignalTurn, StreamTurn, OrderedStart, Pending, Early, Procs, Other,
            Gone, setting, file, data, Goto
<1>1. CASE Exec(p)
  BY <1>1 DEF Exec
<1>2. CASE SetpgidFails(p)
  BY <1>2 DEF SetpgidFails
<1>3. CASE SetupSignals(p)
  BY <1>3 DEF SetupSignals
<1>4. CASE Usleep(p)
  BY <1>4 DEF Usleep, Started, Blocks
<1>5. CASE Fopen(p)
  BY <1>5 DEF Fopen
<1>6. CASE FopenReturns(p)
  BY <1>6 DEF FopenReturns
<1>7. CASE Mkfifo \/ FopenFails
  BY <1>7 DEF Mkfifo, FopenFails
<1> QED BY <1>1, <1>2, <1>3, <1>4, <1>5, <1>6, <1>7 DEF Setup

LEMMA LoopNotLost ==
  ASSUME TurnInvariant, NotLost, ClosedEnd,
         \/ ServerWait \/ ServerFirstWait \/ ServerSignal \/ ServerBenchmark
         \/ ServerEvaluate \/ ServerNow \/ ServerWrite \/ ServerNotify
         \/ ClientNotify \/ ClientLoop \/ ClientCheck \/ ClientWait
         \/ ClientRead \/ ClientBenchmark
  PROVE  NotLost' /\ ClosedEnd'
<1> USE DEF TurnInvariant, TypeOK, NotLost, ClosedEnd, Ordered, Launched,
            SignalTurn, StreamTurn, OrderedStart, Pending, Early, Procs, Other,
            Gone, setting, file, data, Goto
<1>1. CASE ServerWait \/ ServerFirstWait
  BY <1>1 DEF ServerWait, ServerFirstWait, WaitForSignal
<1>2. CASE ServerSignal \/ ServerNotify
  BY <1>2 DEF ServerSignal, ServerNotify, KillGroup, Kills, Blocks, Own
<1>3. CASE ServerBenchmark \/ ServerEvaluate
  BY <1>3 DEF ServerBenchmark, ServerEvaluate
<1>4. CASE ServerNow \/ ServerWrite
  BY <1>4 DEF ServerNow, ServerWrite
<1>5. CASE ClientNotify
  BY <1>5 DEF ClientNotify, KillGroup, Kills, Blocks, Own
<1>6. CASE ClientLoop \/ ClientCheck
  BY <1>6 DEF ClientLoop, ClientCheck
<1>7. CASE ClientWait
  BY <1>7 DEF ClientWait, WaitForSignal
<1>8. CASE ClientRead \/ ClientBenchmark
  BY <1>8 DEF ClientRead, ClientBenchmark
<1> QED BY <1>1, <1>2, <1>3, <1>4, <1>5, <1>6, <1>7, <1>8

(* If the start is ordered the first request is not lost, and client and   *)
(* server never wait for each other: the safety part of Answered.          *)
THEOREM NotLostSafe == Spec => [](NotLost /\ ClosedEnd)
<1>1. Init => NotLost /\ ClosedEnd
  BY DEF Init, NotLost, ClosedEnd, Procs
<1>2. TurnInvariant /\ NotLost /\ ClosedEnd /\ [Next]_vars =>
        NotLost' /\ ClosedEnd'
  <2> SUFFICES ASSUME TurnInvariant, NotLost, ClosedEnd, [Next]_vars
               PROVE  NotLost' /\ ClosedEnd'
    OBVIOUS
  <2>1. CASE Next
    BY <2>1, SetupNotLost, LoopNotLost DEF Next, Client, Server, Procs
  <2>2. CASE UNCHANGED vars
    BY <2>2 DEF NotLost, ClosedEnd, Ordered, Early, vars, setting, file, data
  <2> QED BY <2>1, <2>2
<1> QED BY TurnSafe, <1>1, <1>2, PTL DEF Spec

(* The signal client that waits when the server has its results, and the   *)
(* FIFO server that waits in fopen for a client that gave up.              *)
Forgotten ==
  \/ /\ pc["server"] = "done" /\ pc["client"] = "wait"
     /\ pending["client"] = 0
  \/ pc["client"] = "error" /\ pc["server"] = "opening"

(* Whoever is left behind stays behind: no step of the other process ever  *)
(* ends the wait.  This is the safety part of LeftBehind.                  *)
THEOREM LeftForEver == Spec => [](Forgotten => []Forgotten)
<1>1. ASSUME TurnInvariant, ClosedEnd, Forgotten, [Next]_vars
      PROVE  Forgotten'
  <2> USE <1>1 DEF TurnInvariant, TypeOK, ClosedEnd, Forgotten, Procs, Other,
                   setting, file, data, Goto
  <2>1. ASSUME NEW p \in Procs, Setup(p)
        PROVE  Forgotten'
    BY <2>1 DEF Setup, Exec, SetpgidFails, SetupSignals, Usleep, Fopen,
                FopenReturns
  <2>2. ~(\/ Mkfifo \/ FopenFails \/ ServerWait \/ ServerFirstWait
          \/ ServerSignal \/ ServerBenchmark \/ ServerEvaluate)
    BY DEF Mkfifo, FopenFails, ServerWait, ServerFirstWait, WaitForSignal,
           ServerSignal, ServerBenchmark, ServerEvaluate
  <2>3. ~(\/ ServerNow \/ ServerWrite \/ ServerNotify \/ ClientNotify
          \/ ClientLoop \/ ClientCheck \/ ClientWait \/ ClientRead
          \/ ClientBenchmark)
    BY DEF ServerNow, ServerWrite, ServerNotify, ClientNotify, ClientLoop,
           ClientCheck, ClientWait, WaitForSignal, ClientRead, ClientBenchmark
  <2>4. CASE UNCHANGED vars
    BY <2>4 DEF vars
  <2> QED BY <2>1, <2>2, <2>3, <2>4 DEF Next, Client, Server, Procs
<1> QED BY <1>1, TurnSafe, NotLostSafe, PTL DEF Spec
=============================================================================
