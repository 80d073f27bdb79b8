----------------------------- MODULE UintrfdBi -----------------------------
(***************************************************************************)
(* The two-way user-interrupt benchmark (source/uintrfd/uintrfd-bi.c): two *)
(* threads of one process send each other user interrupts.  Each registers *)
(* the handler and creates its own uintrfd, waits until the other one has  *)
(* done so, registers as its sender and enables delivery; then a round is  *)
(* a senduipi to the client and one back.                                  *)
(*                                                                         *)
(* senduipi only sets a pending bit and the handler only sets a flag: two  *)
(* notifications that meet in either of them become one.                   *)
(***************************************************************************)
EXTENDS Integers

CONSTANTS
  Count,     \* args->count
  Refusals   \* whether the kernel may refuse a user-interrupt system call:
             \* the values callsFail may have

ASSUME CountAssumption == Count \in Nat \ {0}
ASSUME RefusalsAssumption == Refusals \subseteq BOOLEAN

VARIABLES
  callsFail,  \* the kernel may refuse a call in this run
  pc,         \* where each thread is
  fd,         \* uintrfd_client and uintrfd_server: 0 until set
  index,      \* uipi_index: whether there is a route to the other thread
  uif,        \* the thread's user-interrupt flag, set by _stui
  pending,    \* the posted bit of the thread's vector (hardware)
  received,   \* uintr_received
  loop,       \* loop of client_communicate
  message,    \* message of server_communicate
  measured    \* bench.count

vars == <<callsFail, pc, fd, index, uif, pending, received, loop, message, measured>>
counts == <<callsFail, loop, message, measured>>

Threads == {"client", "server"}

Peer(t) == IF t = "client" THEN "server" ELSE "client"

Goto(t, l) == pc' = [pc EXCEPT ![t] = l]

(* exit, throw, a fault, or return from main: it takes both threads along. *)
ProcessExits(l) == pc' = [t \in Threads |-> l]

Init ==
  /\ callsFail \in Refusals
  /\ pc = [t \in Threads |-> "register"]
  /\ fd = [t \in Threads |-> 0]
  /\ index = [t \in Threads |-> 0]
  /\ uif = [t \in Threads |-> 0]
  /\ pending = [t \in Threads |-> 0]
  /\ received = [t \in Threads |-> 0]
  /\ loop = Count
  /\ message = 0
  /\ measured = 0

-----------------------------------------------------------------------------
(* setup_handler_with_vector, then the descriptor is stored for the peer.  *)
Register(t) ==
  /\ pc[t] = "register"
  /\ fd' = [fd EXCEPT ![t] = 1]
  /\ Goto(t, "peer")
  /\ UNCHANGED <<index, uif, pending, received, counts>>

(* Either system call fails: throw.                                        *)
RegisterFails(t) ==
  /\ callsFail
  /\ pc[t] = "register"
  /\ ProcessExits("error")
  /\ UNCHANGED <<fd, index, uif, pending, received, counts>>

(* Mutant: the peer's descriptor is not waited for.                        *)
PeerReadyNot(t) ==
  /\ pc[t] = "peer"
  /\ Goto(t, "sender")
  /\ UNCHANGED <<fd, index, uif, pending, received, counts>>

(* The usleep loop ends once the peer has stored its descriptor.           *)
PeerReady(t) ==
  /\ pc[t] = "peer"
  /\ fd[Peer(t)] # 0
  /\ Goto(t, "sender")
  /\ UNCHANGED <<fd, index, uif, pending, received, counts>>

(* uintr_register_sender knows the descriptor of the peer.                 *)
RegisterSender(t) ==
  /\ pc[t] = "sender"
  /\ fd[Peer(t)] # 0
  /\ index' = [index EXCEPT ![t] = 1]
  /\ Goto(t, "stui")
  /\ UNCHANGED <<fd, uif, pending, received, counts>>

(* It fails, as it must for a descriptor that is not there yet: the client *)
(* throws, the server does not look at the result.                         *)
RegisterSenderFails(t) ==
  /\ callsFail \/ fd[Peer(t)] = 0
  /\ pc[t] = "sender"
  /\ IF t = "client" THEN ProcessExits("error") ELSE Goto(t, "stui")
  /\ UNCHANGED <<fd, index, uif, pending, received, counts>>

(* _stui.                                                                  *)
Stui(t) ==
  /\ pc[t] = "stui"
  /\ uif' = [uif EXCEPT ![t] = 1]
  /\ Goto(t, "loop")
  /\ UNCHANGED <<fd, index, pending, received, counts>>

-----------------------------------------------------------------------------
(* Mutant: the handler's flag only counts while the thread is spinning.    *)
HandlerSpinning(t) ==
  /\ pending[t] = 1 /\ uif[t] = 1
  /\ pc[t] \notin {"done", "error"}
  /\ pending' = [pending EXCEPT ![t] = 0]
  /\ received' = [received EXCEPT ![t] = IF pc[t] = "spin" THEN 1 ELSE @]
  /\ UNCHANGED <<pc, fd, index, uif, counts>>

(* Delivery of a posted interrupt: ui_handler runs on the thread, between  *)
(* any two of its steps.                                                   *)
Handler(t) ==
  /\ pending[t] = 1 /\ uif[t] = 1
  /\ pc[t] \notin {"done", "error"}
  /\ pending' = [pending EXCEPT ![t] = 0]
  /\ received' = [received EXCEPT ![t] = 1]
  /\ UNCHANGED <<pc, fd, index, uif, counts>>

(* uintrfd_notify: without a route to the peer, senduipi faults.           *)
SendUipi(t, next) ==
  /\ index[t] # 0
  /\ pending' = [pending EXCEPT ![Peer(t)] = 1]
  /\ Goto(t, next)

(* uintrfd_wait: the spin ends, then the flag is cleared.                  *)
Spin(t) ==
  /\ pc[t] = "spin"
  /\ received[t] # 0
  /\ Goto(t, "clear")
  /\ UNCHANGED <<fd, index, uif, pending, received, counts>>

Clear(t) ==
  /\ pc[t] = "clear"
  /\ received' = [received EXCEPT ![t] = 0]
  /\ Goto(t, IF t = "client" THEN "notify" ELSE "benchmark")
  /\ UNCHANGED <<fd, index, uif, pending, counts>>

-----------------------------------------------------------------------------
(* Mutant: the client answers at once and waits afterwards.                *)
ClientLoopEager ==
  /\ pc["client"] = "loop"
  /\ Goto("client", IF loop > 0 THEN "notify" ELSE "done")
  /\ UNCHANGED <<fd, index, uif, pending, received, counts>>

(* The client's loop: wait, notify, count down.                            *)
ClientLoop ==
  /\ pc["client"] = "loop"
  /\ Goto("client", IF loop > 0 THEN "spin" ELSE "done")
  /\ UNCHANGED <<fd, index, uif, pending, received, counts>>

ClientNotify ==
  /\ pc["client"] = "notify"
  /\ SendUipi("client", "loop")
  /\ loop' = loop - 1
  /\ UNCHANGED <<callsFail, fd, index, uif, received, message, measured>>

(* The server's loop: single_start = now(), notify, wait, benchmark.       *)
ServerNotify ==
  /\ pc["server"] = "loop"
  /\ message < Count
  /\ SendUipi("server", "spin")
  /\ UNCHANGED <<fd, index, uif, received, counts>>

ServerNotifyFaults ==
  /\ pc["server"] = "loop"
  /\ message < Count
  /\ index["server"] = 0
  /\ ProcessExits("error")
  /\ UNCHANGED <<fd, index, uif, pending, received, counts>>

ServerBenchmark ==
  /\ pc["server"] = "benchmark"
  /\ measured' = measured + 1
  /\ message' = message + 1
  /\ Goto("server", "loop")
  /\ UNCHANGED <<callsFail, fd, index, uif, pending, received, loop>>

(* evaluate; main returns.                                                 *)
ServerEvaluate ==
  /\ pc["server"] = "loop"
  /\ message >= Count
  /\ ProcessExits("done")
  /\ UNCHANGED <<fd, index, uif, pending, received, counts>>

Setup(t) == Register(t) \/ PeerReady(t) \/ RegisterSender(t) \/ Stui(t)

SetupFails(t) == RegisterFails(t) \/ RegisterSenderFails(t)

Client == Spin("client") \/ Clear("client") \/ ClientLoop \/ ClientNotify

Server ==
  \/ Spin("server") \/ Clear("server")
  \/ ServerNotify \/ ServerNotifyFaults \/ ServerBenchmark \/ ServerEvaluate

Next ==
  \/ \E t \in Threads : Setup(t) \/ SetupFails(t) \/ Handler(t)
  \/ Client
  \/ Server

Spec == Init /\ [][Next]_vars

(* Both threads run on, and a posted interrupt is delivered to a running   *)
(* thread that has them enabled.                                           *)
Fairness ==
  /\ WF_vars(Setup("client") \/ Client)
  /\ WF_vars(Setup("server") \/ Server)
  /\ \A t \in Threads : WF_vars(Handler(t))

FairSpec == Spec /\ Fairness

-----------------------------------------------------------------------------
(* The values each variable holds.                                         *)
TypeOK ==
  /\ callsFail \in BOOLEAN
  /\ pc \in [Threads -> {"register", "peer", "sender", "stui", "loop", "spin",
                         "clear", "notify", "benchmark", "done", "error"}]
  /\ pc["client"] # "benchmark" /\ pc["server"] # "notify"
  /\ \A v \in {fd, index, uif, pending, received} : v \in [Threads -> {0, 1}]
  /\ loop \in Nat /\ message \in Nat /\ measured \in Nat

Settled == {"done", "error"}

(* Notification to t is under way: posted, or handled and not yet seen.    *)
Notified(t) == pending[t] = 1 \/ received[t] = 1

(* The client has been woken and has not answered yet.                     *)
ClientBusy == pc["client"] = "notify"

(* The round trips the client has answered.                                *)
Seen == Count - loop

(* The two places a notification is in never hold one each, and while a    *)
(* thread may send, the receiver has none: no notification is merged with  *)
(* another one, though both the bit and the flag would merge them.         *)
NothingMerged ==
  /\ \A t \in Threads : ~(pending[t] = 1 /\ received[t] = 1)
  /\ pc["client"] = "notify" => ~Notified("server")
  /\ pc["server"] = "loop" => ~Notified("client")

(* At most one of the two notifications is under way, and the rounds agree *)
(* on who has it, as long as no call was refused; results are printed only *)
(* when every message was measured.                                        *)
Rounds ==
  /\ TypeOK /\ NothingMerged
  /\ measured = message
  /\ pc["server"] = "done" => measured = Count
  /\ pc["server"] \in {"spin", "clear"} =>
       \/ /\ Notified("client") /\ ~Notified("server") /\ ~ClientBusy
          /\ Seen = message
       \/ /\ ~Notified("client") /\ ~Notified("server") /\ ClientBusy
          /\ Seen = message
       \/ /\ ~Notified("client") /\ Notified("server") /\ ~ClientBusy
          /\ Seen = message + 1
  /\ pc["server"] = "benchmark" =>
       /\ ~Notified("client") /\ ~Notified("server") /\ ~ClientBusy
       /\ Seen = message + 1
  /\ pc["server"] \notin {"spin", "clear", "benchmark", "error"} =>
       /\ ~Notified("client") /\ ~Notified("server") /\ ~ClientBusy
       /\ Seen = message

(* The two threads set each other up without an order between them: if the *)
(* kernel refuses nothing, no sender is registered before its receiver     *)
(* exists, and no interrupt is sent without a route.                       *)
SetupSafe == ~callsFail => \A t \in Threads : pc[t] # "error"

(* The benchmark ends: the setup of the two threads cannot wait in a       *)
(* circle, a notification sent before the peer has enabled interrupts is   *)
(* not lost, and neither is one that arrives between the end of a spin and *)
(* the clearing of its flag.                                               *)
Terminates == <>(pc["server"] \in Settled)
=============================================================================
