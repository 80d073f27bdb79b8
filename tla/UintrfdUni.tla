----------------------------- MODULE UintrfdUni -----------------------------
(***************************************************************************)
(* The one-way user-interrupt benchmark (source/uintrfd/uintrfd-uni.c).    *)
(* The main thread registers the handler, enables interrupts and spins on  *)
(* uintr_count; a second thread sends the interrupts.  The handler runs ON *)
(* the main thread, with further interrupts disabled until it returns, and *)
(* concurrently with the sender, with which it shares bench and            *)
(* uintr_received without a lock.                                          *)
(*                                                                         *)
(* now() is abstracted to the number of the message being sent.            *)
(***************************************************************************)
EXTENDS Integers

CONSTANTS
  Count,     \* args->count
  CallsFail  \* whether uintr_register_sender may be refused

ASSUME CountAssumption == Count \in Nat \ {0}
ASSUME CallsFailAssumption == CallsFail \in BOOLEAN

VARIABLES
  cpc, loop,      \* client_communicate: where it is, iterations left
  spc,            \* server_communicate
  hpc,            \* ui_handler: "off" when it does not run
  pending,        \* the posted interrupt (hardware)
  uintr_received, \* shared flag
  uintr_count,    \* shared counter
  single_start,   \* bench.single_start: the message it was taken for
  measured        \* bench.count

uniVars == <<cpc, loop, spc, hpc, pending, uintr_received, uintr_count,
             single_start, measured>>
client == <<cpc, loop>>
shared == <<uintr_received, uintr_count, single_start, measured>>

(* The message the client is sending.                                      *)
Message == Count - loop + 1

(* main has registered the handler, called _stui and setup_benchmarks, and *)
(* created the client thread.                                              *)
UniInit ==
  /\ cpc = "sender" /\ loop = Count
  /\ spc = "spin" /\ hpc = "off" /\ pending = 0
  /\ uintr_received = 0 /\ uintr_count = 0
  /\ single_start = 0 /\ measured = 0

-----------------------------------------------------------------------------
(* uintr_register_sender.                                                  *)
RegisterSender ==
  /\ cpc = "sender"
  /\ cpc' = "loop"
  /\ UNCHANGED <<loop, spc, hpc, pending, shared>>

(* It fails: throw ends the process.                                       *)
RegisterSenderFails ==
  /\ CallsFail
  /\ cpc = "sender"
  /\ cpc' = "error" /\ spc' = "error"
  /\ UNCHANGED <<loop, hpc, pending, shared>>

(* Mutant: the flag of the previous message is not reset.                  *)
ClientResetNot ==
  /\ cpc = "loop"
  /\ loop > 0
  /\ cpc' = "stamp"
  /\ UNCHANGED <<loop, spc, hpc, pending, shared>>

(* The loop's head and uintr_received = 0.                                 *)
ClientReset ==
  /\ cpc = "loop"
  /\ loop > 0
  /\ uintr_received' = 0
  /\ cpc' = "stamp"
  /\ UNCHANGED <<loop, spc, hpc, pending, uintr_count, single_start, measured>>

ClientStamp ==
  /\ cpc = "stamp"
  /\ single_start' = Message
  /\ cpc' = "send"
  /\ UNCHANGED <<loop, spc, hpc, pending, uintr_received, uintr_count, measured>>

ClientSend ==
  /\ cpc = "send"
  /\ pending' = 1
  /\ cpc' = "spin"
  /\ UNCHANGED <<loop, spc, hpc, shared>>

(* Mutant: the sender does not wait for the handler.                       *)
ClientSpinNot ==
  /\ cpc = "spin"
  /\ loop' = loop - 1
  /\ cpc' = "loop"
  /\ UNCHANGED <<spc, hpc, pending, shared>>

(* The spin on uintr_received ends; --loop.                                *)
ClientSpin ==
  /\ cpc = "spin"
  /\ uintr_received # 0
  /\ loop' = loop - 1
  /\ cpc' = "loop"
  /\ UNCHANGED <<spc, hpc, pending, shared>>

ClientReturn ==
  /\ cpc = "loop"
  /\ loop <= 0
  /\ cpc' = "done"
  /\ UNCHANGED <<loop, spc, hpc, pending, shared>>

Client ==
  \/ RegisterSender \/ ClientReset \/ ClientStamp \/ ClientSend
  \/ ClientSpin \/ ClientReturn

-----------------------------------------------------------------------------
(* Delivery: the main thread leaves its loop for ui_handler.               *)
Deliver ==
  /\ pending = 1
  /\ hpc = "off"
  /\ spc \notin {"done", "error"}
  /\ pending' = 0
  /\ hpc' = "benchmark"
  /\ UNCHANGED <<client, spc, shared>>

(* benchmark(&bench), which reads single_start.                            *)
HandlerBenchmark ==
  /\ hpc = "benchmark"
  /\ measured' = measured + 1
  /\ hpc' = "count"
  /\ UNCHANGED <<client, spc, pending, uintr_received, uintr_count, single_start>>

HandlerCount ==
  /\ hpc = "count"
  /\ uintr_count' = uintr_count + 1
  /\ hpc' = "received"
  /\ UNCHANGED <<client, spc, pending, uintr_received, single_start, measured>>

HandlerReceived ==
  /\ hpc = "received"
  /\ uintr_received' = 1
  /\ hpc' = "uiret"
  /\ UNCHANGED <<client, spc, pending, uintr_count, single_start, measured>>

(* The handler returns and interrupts are enabled again.                   *)
HandlerReturn ==
  /\ hpc = "uiret"
  /\ hpc' = "off"
  /\ UNCHANGED <<client, spc, pending, shared>>

Handler ==
  \/ HandlerBenchmark \/ HandlerCount \/ HandlerReceived \/ HandlerReturn

(* Mutant: the main thread stops one interrupt early.                      *)
ServerSpinEarly ==
  /\ spc = "spin" /\ hpc = "off"
  /\ uintr_count >= Count - 1
  /\ spc' = "evaluate"
  /\ UNCHANGED <<client, hpc, pending, shared>>

(* The main thread's loop, while no handler runs on it: uintr_count is     *)
(* compared as unsigned, which for a positive count is the comparison.     *)
ServerSpin ==
  /\ spc = "spin" /\ hpc = "off"
  /\ uintr_count >= Count
  /\ spc' = "evaluate"
  /\ UNCHANGED <<client, hpc, pending, shared>>

(* evaluate reads bench; main returns, and the process is gone.            *)
ServerEvaluate ==
  /\ spc = "evaluate" /\ hpc = "off"
  /\ spc' = "done"
  /\ cpc' = "done"
  /\ UNCHANGED <<loop, hpc, pending, shared>>

Server == ServerSpin \/ ServerEvaluate

UniNext == Client \/ RegisterSenderFails \/ Deliver \/ Handler \/ Server

UniSpec == UniInit /\ [][UniNext]_uniVars

(* Both threads run on and a posted interrupt is delivered.                *)
Fairness ==
  /\ WF_uniVars(Client) /\ WF_uniVars(Deliver)
  /\ WF_uniVars(Handler) /\ WF_uniVars(Server)

FairUniSpec == UniSpec /\ Fairness

-----------------------------------------------------------------------------
(* The values each variable holds.                                         *)
UniTypeOK ==
  /\ cpc \in {"sender", "loop", "stamp", "send", "spin", "done", "error"}
  /\ spc \in {"spin", "evaluate", "done", "error"}
  /\ hpc \in {"off", "benchmark", "count", "received", "uiret"}
  /\ pending \in {0, 1} /\ uintr_received \in {0, 1}
  /\ loop \in Nat /\ uintr_count \in Nat
  /\ single_start \in Nat /\ measured \in Nat

(* When the handler measures, single_start is the time its own message was *)
(* sent, and the sender is not about to overwrite it.                      *)
Fresh ==
  hpc = "benchmark" => cpc = "spin" /\ single_start = Message

(* An interrupt is never sent while one is posted or still being measured, *)
(* although the sender may already run on while the handler returns.       *)
NothingMerged ==
  cpc = "send" => pending = 0 /\ hpc \in {"off", "uiret"}

(* Once the main thread reads the results nothing changes them any more.   *)
Quiet ==
  spc = "evaluate" => measured = Count /\ hpc = "off" /\ pending = 0

(* The benchmark ends.                                                     *)
Terminates == <>(spc \in {"done", "error"})

(* How far each party is: with one message under way at most, the two      *)
(* counters and the flag follow the sender's loop.                         *)
InStep ==
  /\ UniTypeOK
  /\ loop <= Count
  /\ cpc \in {"stamp", "send", "spin"} => loop > 0
  /\ cpc = "sender" => loop = Count /\ hpc = "off" /\ spc # "error"
  /\ cpc \in {"sender", "loop", "stamp", "send"} =>
       /\ pending = 0 /\ hpc \in {"off", "uiret"}
       /\ uintr_count = Count - loop /\ measured = Count - loop
  /\ cpc = "send" => uintr_received = 0
  /\ cpc = "stamp" => uintr_received = 0
  /\ cpc \in {"send", "spin"} => single_start = Message
  /\ cpc = "spin" /\ uintr_received = 0 =>
       \/ /\ pending = 1 /\ hpc \in {"off", "uiret"}
          /\ uintr_count = Message - 1 /\ measured = Message - 1
       \/ /\ pending = 0 /\ hpc = "benchmark"
          /\ uintr_count = Message - 1 /\ measured = Message - 1
       \/ /\ pending = 0 /\ hpc = "count"
          /\ uintr_count = Message - 1 /\ measured = Message
       \/ /\ pending = 0 /\ hpc = "received"
          /\ uintr_count = Message /\ measured = Message
  /\ cpc = "spin" /\ uintr_received = 1 =>
       /\ pending = 0 /\ hpc \in {"off", "uiret"}
       /\ uintr_count = Message /\ measured = Message
  /\ cpc = "done" =>
       /\ pending = 0 /\ hpc \in {"off", "uiret"}
       /\ uintr_count = Count /\ measured = Count
  /\ cpc = "error" => pending = 0 /\ hpc = "off" /\ spc = "error"
  /\ spc \in {"evaluate", "done"} =>
       uintr_count = Count /\ hpc = "off" /\ pending = 0 /\ measured = Count
  /\ spc = "done" => cpc = "done"
  /\ spc = "error" => cpc = "error"
=============================================================================
