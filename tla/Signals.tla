------------------------------ MODULE Signals ------------------------------
(***************************************************************************)
(* The three benchmarks driven by kill(0, sig): signals alone              *)
(* (source/signal), and a FIFO or a pipe that carries timestamps while     *)
(* signals say when to go on (source/fifo, source/pipe), on                *)
(* common/signals.c, common/parent.c and common/process.c.                 *)
(*                                                                         *)
(* The server blocks SIGUSR1 and the client SIGUSR2; a blocked signal is   *)
(* one pending bit.  A notification reaches every process of the group,    *)
(* the sender too: before the set-up is done it kills, or is swallowed by  *)
(* the handlers of the parent.                                             *)
(*                                                                         *)
(* The pipe's processes are a fork of one another.  The others are exec'ed *)
(* children of a parent that has installed handlers; the FIFO's meet in    *)
(* fopen, which waits for the other end unless the endless server of an    *)
(* earlier run still holds the write end open.  now() is abstracted to the *)
(* number of requests the client has made.                                 *)
(***************************************************************************)
EXTENDS Integers, Sequences

CONSTANTS
  Methods,   \* the benchmarks run
  Leaders,   \* whether the parent leads its process group: TRUE under a
             \* job-control shell, FALSE when a script starts it
  Sleeps,    \* whether usleep(1000) outlasts the other side's set-up
  Remains,   \* what earlier runs left of the FIFO
  Counts,    \* the values -c is given (the signal benchmark only uses it)
  MaxRounds  \* bound: round trips before the client's time is up

(* There is no FIFO; there is one; a server still has it open for writing. *)
Leftovers == {"nothing", "file", "writer"}

ASSUME SettingAssumption ==
  /\ Methods \subseteq {"signal", "fifo", "pipe"}
  /\ Leaders \subseteq BOOLEAN /\ Sleeps \subseteq BOOLEAN
  /\ Remains \subseteq Leftovers
  /\ Counts \subseteq Nat /\ MaxRounds \in Nat

VARIABLES
  method, leader, sleepEnough, remains, count, \* the setting: never changes
  exists,       \* the FIFO is in the file system
  opened,       \* whether each process has got to its open call
  pc, pending,  \* where each process is, whether its own signal is pending
  stream,       \* the timestamps in the FIFO or pipe
  timestamp,    \* local of the server's loop
  single_start, \* bench.single_start
  cnt,          \* bench.count: message of the signal server, cnt of a client
  requests      \* history: how often the client called notify_server

setting == <<method, leader, sleepEnough, remains, count>>
file    == <<exists, opened>>
data    == <<stream, timestamp, single_start, cnt, requests>>
vars    == <<setting, file, pc, pending, data>>

Procs == {"server", "client"}

Other(p) == IF p = "server" THEN "client" ELSE "server"

(* The signal a process blocks and waits for.                              *)
Own(p) == IF p = "server" THEN "USR1" ELSE "USR2"

Gone == {"killed", "error", "aborted", "done"}

(* Where the process' own signal stays pending, and where a signal finds   *)
(* the default action.                                                     *)
Blocks(p) == pc[p] \notin {"forked", "default", "handler"} \cup Gone

Kills(p, sig) == pc[p] = "default" \/ (pc[p] = "handler" /\ sig = Own(p))

(* kill(0, sig) by process s, which goes on at l.                          *)
KillGroup(s, sig, l) ==
  /\ pc' = [p \in Procs |-> IF p = s THEN l
                            ELSE IF Kills(p, sig) THEN "killed" ELSE pc[p]]
  /\ pending' = [p \in Procs |-> IF sig = Own(p) /\ Blocks(p) THEN 1
                                 ELSE pending[p]]

Goto(p, l) == pc' = [pc EXCEPT ![p] = l]

(* Past the fork.  The pipe's processes close the end they do not need and *)
(* have no handlers yet; the others still have the parent's.               *)
Init ==
  /\ method \in Methods
  /\ leader \in Leaders /\ sleepEnough \in Sleeps
  /\ remains \in (IF method = "fifo" THEN Remains ELSE {"nothing"})
  /\ count \in (IF method = "signal" THEN Counts ELSE {0})
  /\ exists = (remains # "nothing")
  /\ opened = [p \in Procs |-> 0]
  /\ pc = [p \in Procs |-> IF method = "pipe" THEN "default" ELSE "forked"]
  /\ pending = [p \in Procs |-> 0]
  /\ stream = << >>
  /\ timestamp = -1 /\ single_start = -1 /\ cnt = 0 /\ requests = 0

-----------------------------------------------------------------------------
(* setpgid and execv of start_process: the parent's handlers are gone.     *)
Exec(p) ==
  /\ pc[p] = "forked"
  /\ leader
  /\ Goto(p, "default")
  /\ UNCHANGED <<setting, file, pending, data>>

(* There is no process group with the parent's number: throw.              *)
SetpgidFails(p) ==
  /\ pc[p] = "forked"
  /\ ~leader
  /\ Goto(p, "error")
  /\ UNCHANGED <<setting, file, pending, data>>

(* setup_ignored_signals, then setup_blocked_signals.                      *)
SetupSignals(p) ==
  /\ \/ pc[p] = "default" /\ Goto(p, "handler")
     \/ pc[p] = "handler" /\ Goto(p, "usleep")
  /\ UNCHANGED <<setting, file, pending, data>>

(* Where main goes on after setup_server_signals or setup_client_signals.  *)
Started(p) ==
  IF method = "signal" THEN "start"
  ELSE IF p = "server" THEN (IF method = "fifo" THEN "mkfifo" ELSE "wait")
  ELSE (IF method = "fifo" THEN "fopen" ELSE "check")

(* usleep(1000).                                                           *)
Usleep(p) ==
  /\ pc[p] = "usleep"
  /\ p = "client" /\ sleepEnough => Blocks("server")
  /\ Goto(p, Started(p))
  /\ UNCHANGED <<setting, file, pending, data>>

(* mkfifo.  Its failure is not noticed: a FIFO that is there will do.      *)
Mkfifo ==
  /\ pc["server"] = "mkfifo"
  /\ exists' = TRUE
  /\ Goto("server", "fopen")
  /\ UNCHANGED <<setting, opened, pending, data>>

(* fopen: the process' end is there from now on.                           *)
Fopen(p) ==
  /\ pc[p] = "fopen"
  /\ exists
  /\ opened' = [opened EXCEPT ![p] = 1]
  /\ Goto(p, "opening")
  /\ UNCHANGED <<setting, exists, pending, data>>

(* There is no FIFO yet: throw.                                            *)
FopenFails ==
  /\ pc["client"] = "fopen"
  /\ ~exists
  /\ Goto("client", "error")
  /\ UNCHANGED <<setting, file, pending, data>>

(* Mutant: fopen does not wait for the other end.                          *)
FopenReturnsNot(p) ==
  /\ pc[p] = "opening"
  /\ Goto(p, IF p = "server" THEN "wait" ELSE "check")
  /\ UNCHANGED <<setting, file, pending, data>>

(* fopen returns once the other end has been opened, by whomever.          *)
FopenReturns(p) ==
  /\ pc[p] = "opening"
  /\ opened[Other(p)] = 1 \/ (p = "client" /\ remains = "writer")
  /\ Goto(p, IF p = "server" THEN "wait" ELSE "check")
  /\ UNCHANGED <<setting, file, pending, data>>

Setup(p) ==
  \/ Exec(p) \/ SetpgidFails(p) \/ SetupSignals(p)
  \/ Usleep(p) \/ Fopen(p) \/ FopenReturns(p)

-----------------------------------------------------------------------------
(* wait_for_signal: sigwait takes the pending signal.                      *)
WaitForSignal(p, from, to) ==
  /\ pc[p] = from
  /\ pending[p] = 1
  /\ pending' = [pending EXCEPT ![p] = 0]
  /\ Goto(p, to)
  /\ UNCHANGED <<setting, file, data>>

ServerWait ==
  WaitForSignal("server", "wait",
                IF method = "signal" THEN "benchmark" ELSE "now")

(* The signal server: the first wait, then single_start = now() and        *)
(* notify_client for each message, benchmark, and at last evaluate, which  *)
(* asserts that there were messages.                                       *)
ServerFirstWait ==
  method = "signal" /\ WaitForSignal("server", "start", "loop")

ServerSignal ==
  /\ pc["server"] = "loop"
  /\ cnt < count
  /\ KillGroup("server", "USR2", "wait")
  /\ UNCHANGED <<setting, file, data>>

ServerBenchmark ==
  /\ pc["server"] = "benchmark"
  /\ cnt' = cnt + 1
  /\ Goto("server", "loop")
  /\ UNCHANGED <<setting, file, pending, stream, timestamp, single_start, requests>>

ServerEvaluate ==
  /\ pc["server"] = "loop"
  /\ cnt >= count
  /\ Goto("server", IF count > 0 THEN "done" ELSE "aborted")
  /\ UNCHANGED <<setting, file, pending, data>>

(* The servers of the FIFO and the pipe: now, fwrite with fflush, and      *)
(* notify_client, for ever.                                                *)
ServerNow ==
  /\ pc["server"] = "now"
  /\ timestamp' = requests
  /\ Goto("server", "write")
  /\ UNCHANGED <<setting, file, pending, stream, single_start, cnt, requests>>

(* Mutant: the timestamp stays in the server's buffer.                     *)
ServerWriteUnflushed ==
  /\ pc["server"] = "write"
  /\ Goto("server", "notify")
  /\ UNCHANGED <<setting, file, pending, data>>

ServerWrite ==
  /\ pc["server"] = "write"
  /\ stream' = Append(stream, timestamp)
  /\ Goto("server", "notify")
  /\ UNCHANGED <<setting, file, pending, timestamp, single_start, cnt, requests>>

ServerNotify ==
  /\ pc["server"] = "notify"
  /\ KillGroup("server", "USR2", "wait")
  /\ UNCHANGED <<setting, file, data>>

Server ==
  \/ Setup("server") \/ Mkfifo \/ ServerWait
  \/ ServerFirstWait \/ ServerSignal \/ ServerBenchmark \/ ServerEvaluate
  \/ ServerNow \/ ServerWrite \/ ServerNotify

-----------------------------------------------------------------------------
(* notify_server, also the signal client's "Tell the sever we can go".     *)
ClientNotify ==
  /\ pc["client"] \in {"start", "notify"}
  /\ requests' = requests + 1
  /\ KillGroup("client", "USR1", IF method = "signal" THEN "loop" ELSE "wait")
  /\ UNCHANGED <<setting, file, stream, timestamp, single_start, cnt>>

(* Mutant: the client counts its answers.                                  *)
ClientLoopCounts ==
  /\ pc["client"] = "loop"
  /\ Goto("client", IF count >= requests THEN "wait" ELSE "done")
  /\ UNCHANGED <<setting, file, pending, data>>

(* The head of the signal client's loop: it tests args->count but counts   *)
(* args->size down, so the test never changes.                             *)
ClientLoop ==
  /\ pc["client"] = "loop"
  /\ Goto("client", IF count > 0 THEN "wait" ELSE "done")
  /\ UNCHANGED <<setting, file, pending, data>>

(* The head of the timed loop (see TimedClient), evaluate and exit: a      *)
(* server that comes to its open call later finds no reader.               *)
ClientCheck ==
  /\ pc["client"] = "check"
  /\ \/ cnt < MaxRounds /\ Goto("client", "notify") /\ UNCHANGED opened
     \/ /\ Goto("client", "done")
        /\ opened' = [opened EXCEPT !["client"] = opened["server"]]
  /\ UNCHANGED <<setting, exists, pending, data>>

(* Mutant: the client goes on without waiting.                             *)
ClientWaitNot ==
  /\ pc["client"] = "wait"
  /\ Goto("client", IF method = "signal" THEN "notify" ELSE "fread")
  /\ UNCHANGED <<setting, file, pending, data>>

ClientWait ==
  WaitForSignal("client", "wait",
                IF method = "signal" THEN "notify" ELSE "fread")

(* fread waits for eight bytes.                                            *)
ClientRead ==
  /\ pc["client"] = "fread"
  /\ stream # << >>
  /\ single_start' = Head(stream)
  /\ stream' = Tail(stream)
  /\ Goto("client", "benchmark")
  /\ UNCHANGED <<setting, file, pending, timestamp, cnt, requests>>

(* benchmark(bench), cnt++.                                                *)
ClientBenchmark ==
  /\ pc["client"] = "benchmark"
  /\ cnt' = cnt + 1
  /\ Goto("client", "check")
  /\ UNCHANGED <<setting, file, pending, stream, timestamp, single_start, requests>>

Client ==
  \/ Setup("client") \/ FopenFails \/ ClientNotify \/ ClientLoop
  \/ ClientCheck \/ ClientWait \/ ClientRead \/ ClientBenchmark

Next == Client \/ Server

Spec == Init /\ [][Next]_vars

(* A process that can go on is scheduled, and a sleep ends.                *)
FairSpec == Spec /\ WF_vars(Client) /\ WF_vars(Server)

-----------------------------------------------------------------------------
(* The values each variable holds.                                         *)
TypeOK ==
  /\ method \in {"signal", "fifo", "pipe"} /\ remains \in Leftovers
  /\ leader \in BOOLEAN /\ sleepEnough \in BOOLEAN /\ exists \in BOOLEAN
  /\ opened \in [Procs -> {0, 1}] /\ pending \in [Procs -> {0, 1}]
  /\ pc \in [Procs -> {"forked", "default", "handler", "usleep", "start",
                       "mkfifo", "fopen", "opening", "loop", "wait", "now",
                       "write", "notify", "check", "fread", "benchmark"}
                      \cup Gone]
  /\ stream \in Seq(Nat) /\ timestamp \in Nat \cup {-1}
  /\ single_start \in Nat \cup {-1}
  /\ count \in Nat /\ cnt \in Nat /\ requests \in Nat

(* Something orders the first request after the set-up of the server: the  *)
(* sleep, or fopen when no old server holds the write end.                 *)
Ordered == sleepEnough \/ (method = "fifo" /\ remains # "writer")

(* No notification kills a process once the start is ordered; otherwise it *)
(* is the server that dies, and only of the first request: everything sent *)
(* later finds both processes set up.                                      *)
Survives ==
  /\ pc["client"] # "killed"
  /\ pc["server"] = "killed" => ~Ordered /\ requests = 1 /\ cnt = 0

(* No notification finds its signal still pending, where it would be       *)
(* merged with the previous one and the receiver would wait for ever.      *)
NothingMerged ==
  /\ pc["client"] \in {"start", "notify"} => pending["server"] = 0
  /\ pc["server"] = "notify" \/ (pc["server"] = "loop" /\ cnt < count) =>
       pending["client"] = 0

(* Request, timestamp and answer never pile up: nothing is merged, when a  *)
(* FIFO or pipe client asks the stream is empty and the server waits, and  *)
(* what it measures with was taken for this request; the signal server     *)
(* measures exactly the rounds the client took part in.                    *)
InTurn ==
  /\ TypeOK /\ NothingMerged
  /\ Len(stream) <= 1
  /\ method # "signal" =>
       /\ pc["client"] \in {"check", "done"} =>
            /\ pending["server"] = 0 /\ pending["client"] = 0 /\ stream = << >>
            /\ pc["server"] \notin {"now", "write", "notify"}
       /\ pc["client"] = "fread" => Len(stream) = 1
       /\ pc["client"] = "benchmark" => single_start = requests
  /\ method = "signal" =>
       /\ pc["server"] = "benchmark" => requests = cnt + 2
       /\ pc["server"] = "done" => cnt = count /\ requests = count + 1

(* If the start was ordered, every request of a FIFO or pipe client is     *)
(* answered, and the signal server gets through to its results.            *)
Answered ==
  /\ (pc["client"] = "wait" /\ method # "signal" /\ Ordered)
       ~> (pc["client"] = "benchmark")
  /\ (method = "signal" /\ leader /\ Ordered /\ count > 0)
       => <>(pc["server"] = "done")

(* Who is left waiting for ever.  The signal client, once the server has   *)
(* its results: its loop tests args->count, which nothing counts down.     *)
(* The FIFO server, in fopen, when the client came before its mkfifo and   *)
(* gave up: nobody will open the other end.                                *)
LeftBehind ==
  /\ pc["server"] = "done" ~>
       [](pc["client"] = "wait" /\ pending["client"] = 0)
  /\ (pc["client"] = "error" /\ leader) ~> [](pc["server"] = "opening")
=============================================================================
