--------------------------- MODULE UintrfdProofs ---------------------------
(***************************************************************************)
(* The user-interrupt benchmarks for every -c.                             *)
(*                                                                         *)
(* The two-way one: no notification is merged with another one, the rounds *)
(* of the two threads agree, and the set-up of the two threads needs no    *)
(* order between them.  The ring with an interrupt as its doorbell,        *)
(* UintrPro.tla as Pro: no interrupt is ever sent.                         *)
(***************************************************************************)
EXTENDS UintrfdBi, TLAPS

(* Where a thread has its descriptor, and where it knows the peer's.       *)
HasFd   == {"peer", "sender", "stui", "loop", "spin", "clear", "notify",
            "benchmark"}
HasPeer == HasFd \ {"peer"}

(* The descriptors the threads rely on are there, and without a refusal    *)
(* the server, which does not look at the result, has its route too.       *)
Routes ==
  /\ \A t \in Threads :
       /\ pc[t] \in HasFd => fd[t] = 1
       /\ pc[t] \in HasPeer => fd[Peer(t)] = 1
  /\ ~callsFail /\ pc["server"] \in HasPeer \ {"sender"}
       => index["server"] = 1

(* What the flag and the loop counter say between two steps of a wait: a   *)
(* flag that ended a spin is still set, a client inside its loop body has  *)
(* a round to go.  A failure is the failure of both threads.               *)
Waits ==
  /\ \A t \in Threads : pc[t] = "clear" => received[t] = 1
  /\ pc["client"] \in {"spin", "clear", "notify"} => loop > 0
  /\ pc["client"] = "error" <=> pc["server"] = "error"
  /\ pc["server"] = "done" => pc["client"] = "done"

(* What every step preserves.                                              *)
RoundsInvariant == Rounds /\ SetupSafe /\ Routes /\ Waits

(* The state in which the two threads start satisfies the invariant.       *)
LEMMA InitRounds == Init => RoundsInvariant
  BY CountAssumption, RefusalsAssumption
  DEF Init, RoundsInvariant, Rounds, SetupSafe, Routes, Waits, TypeOK,
      NothingMerged, Notified, ClientBusy, Seen, Threads, Peer, HasFd, HasPeer

(* The set-up of a thread, with or without a refusal.                      *)
LEMMA SetupRounds ==
  ASSUME RoundsInvariant, NEW t \in Threads, Setup(t) \/ SetupFails(t)
  PROVE  RoundsInvariant'
<1> USE DEF RoundsInvariant, Rounds, SetupSafe, Routes, Waits, TypeOK,
            NothingMerged, Notified, ClientBusy, Seen, Threads, Peer, HasFd,
            HasPeer, counts, Goto, ProcessExits
<1>1. CASE Register(t)
  BY <1>1, CountAssumption DEF Register
<1>2. CASE RegisterFails(t)
  BY <1>2, CountAssumption DEF RegisterFails
<1>3. CASE PeerReady(t)
  BY <1>3, CountAssumption DEF PeerReady
<1>4. CASE RegisterSender(t)
  BY <1>4, CountAssumption DEF RegisterSender
<1>5. CASE RegisterSenderFails(t)
  BY <1>5, CountAssumption DEF RegisterSenderFails
<1>6. CASE Stui(t)
  BY <1>6, CountAssumption DEF Stui
<1> QED BY <1>1, <1>2, <1>3, <1>4, <1>5, <1>6 DEF Setup, SetupFails

(* Delivery of an interrupt moves the notification from the posted bit to  *)
(* the flag; the two halves of uintrfd_wait take it from there.            *)
LEMMA WaitRounds ==
  ASSUME RoundsInvariant, NEW t \in Threads, Handler(t) \/ Spin(t) \/ Clear(t)
  PROVE  RoundsInvariant'
<1> USE DEF RoundsInvariant, Rounds, SetupSafe, Routes, Waits, TypeOK,
            NothingMerged, Notified, ClientBusy, Seen, Threads, Peer, HasFd,
            HasPeer, counts, Goto
<1>1. CASE Handler(t)
  BY <1>1, CountAssumption DEF Handler
<1>2. CASE Spin(t)
  BY <1>2, CountAssumption DEF Spin
<1>3. CASE Clear(t)
  BY <1>3, CountAssumption DEF Clear
<1> QED BY <1>1, <1>2, <1>3

(* The two loops.                                                          *)
LEMMA LoopRounds ==
  ASSUME RoundsInvariant,
         \/ ClientLoop \/ ClientNotify
         \/ ServerNotify \/ ServerNotifyFaults
         \/ ServerBenchmark \/ ServerEvaluate
  PROVE  RoundsInvariant'
<1> USE DEF RoundsInvariant, Rounds, SetupSafe, Routes, Waits, TypeOK,
            NothingMerged, Notified, ClientBusy, Seen, Threads, Peer, HasFd,
            HasPeer, counts, Goto, ProcessExits, SendUipi
<1>1. CASE ClientLoop
  BY <1>1, CountAssumption DEF ClientLoop
<1>2. CASE ClientNotify
  BY <1>2, CountAssumption DEF ClientNotify
<1>3. CASE ServerNotify
  BY <1>3, CountAssumption DEF ServerNotify
<1>4. CASE ServerNotifyFaults
  BY <1>4, CountAssumption DEF ServerNotifyFaults
<1>5. CASE ServerBenchmark
  BY <1>5, CountAssumption DEF ServerBenchmark
<1>6. CASE ServerEvaluate
  BY <1>6, CountAssumption DEF ServerEvaluate
<1> QED BY <1>1, <1>2, <1>3, <1>4, <1>5, <1>6

(* The invariant holds in every state, for every number of messages, every *)
(* interleaving of the threads and every moment of delivery.               *)
THEOREM RoundsSafe == Spec => []RoundsInvariant
<1>1. RoundsInvariant /\ [Next]_vars => RoundsInvariant'
  <2> SUFFICES ASSUME RoundsInvariant, [Next]_vars PROVE RoundsInvariant'
    OBVIOUS
  <2>1. CASE \E t \in Threads : Setup(t) \/ SetupFails(t) \/ Handler(t)
    BY <2>1, SetupRounds, WaitRounds
  <2>2. CASE Client
    BY <2>2, WaitRounds, LoopRounds DEF Client, Threads
  <2>3. CASE Server
    BY <2>3, WaitRounds, LoopRounds DEF Server, Threads
  <2>4. CASE UNCHANGED vars
    BY <2>4 DEF RoundsInvariant, Rounds, SetupSafe, Routes, Waits, TypeOK,
                NothingMerged, Notified, ClientBusy, Seen, vars
  <2> QED BY <2>1, <2>2, <2>3, <2>4 DEF Next
<1> QED BY InitRounds, <1>1, PTL DEF Spec

(* No notification is merged with another one and the rounds of the two    *)
(* threads agree; the results printed are those of every message.          *)
THEOREM RoundsAgree == Spec => []Rounds
<1>1. RoundsInvariant => Rounds
  BY DEF RoundsInvariant
<1> QED BY RoundsSafe, <1>1, PTL

(* If the kernel refuses nothing, the set-up never fails: no sender is     *)
(* registered before its receiver, no interrupt is sent without a route.   *)
THEOREM SetupNeverFails == Spec => []SetupSafe
<1>1. RoundsInvariant => SetupSafe
  BY DEF RoundsInvariant
<1> QED BY RoundsSafe, <1>1, PTL

-----------------------------------------------------------------------------
(* Thread t can go on: it is not waiting, or what it waits for is there,   *)
(* for a spin a flag that is set or an interrupt that can be delivered.    *)
GoesOn(t) ==
  \/ pc[t] \notin {"peer", "spin"} \cup Settled
  \/ pc[t] = "peer" /\ fd[Peer(t)] = 1
  \/ pc[t] = "spin" /\ received[t] = 1
  \/ pc[t] = "spin" /\ pending[t] = 1 /\ uif[t] = 1

(* The two threads never wait for each other, neither in the set-up nor    *)
(* later.  This is the safety part of Terminates.                          *)
NotStuck == pc["server"] \in Settled \/ \E t \in Threads : GoesOn(t)

(* Delivery is enabled before a thread waits, and nobody stops early.      *)
Enabled ==
  /\ \A t \in Threads :
       pc[t] \in {"loop", "spin", "clear", "notify", "benchmark"} => uif[t] = 1
  /\ pc["client"] = "done" => loop = 0
  /\ pc["server"] \in {"spin", "clear", "benchmark"} => message < Count
  /\ pc["server"] \in {"register", "peer", "sender", "stui"} => message = 0

LEMMA EnabledStep ==
  ASSUME RoundsInvariant, Enabled, [Next]_vars
  PROVE  Enabled'
<1> USE CountAssumption
    DEF RoundsInvariant, Rounds, Waits, TypeOK, Enabled, Threads, Goto,
        ProcessExits, counts
<1>1. ASSUME NEW t \in Threads, Setup(t) \/ SetupFails(t) \/ Handler(t)
      PROVE  Enabled'
  BY <1>1 DEF Setup, SetupFails, Register, PeerReady, RegisterSender, Stui,
              RegisterFails, RegisterSenderFails, Handler
<1>2. CASE Client
  BY <1>2 DEF Client, Spin, Clear, ClientLoop, ClientNotify, SendUipi
<1>3. CASE Server
  BY <1>3 DEF Server, Spin, Clear, ServerNotify, ServerNotifyFaults,
              ServerBenchmark, ServerEvaluate, SendUipi, NothingMerged, Seen
<1>4. CASE UNCHANGED vars
  BY <1>4 DEF vars
<1> QED BY <1>1, <1>2, <1>3, <1>4 DEF Next

(* No interrupt is lost, whenever it is sent and delivered, and none is    *)
(* waited for that is not sent: no state of the two-way benchmark has both *)
(* threads waiting for ever.                                               *)
THEOREM NoDeadlock == Spec => []NotStuck
<1>1. Init => Enabled
  BY DEF Init, Enabled, Threads
<1>2. RoundsInvariant /\ Enabled => NotStuck
  <2> SUFFICES ASSUME RoundsInvariant, Enabled, pc["server"] \notin Settled,
                      \A t \in Threads : ~GoesOn(t)
               PROVE  FALSE
    BY DEF NotStuck
  <2> USE CountAssumption
      DEF RoundsInvariant, Rounds, Waits, Routes, TypeOK, Enabled, Threads,
          Peer, HasFd, HasPeer, GoesOn, Settled, Notified, ClientBusy, Seen
  <2>1. pc["server"] = "spin"
    <3>1. pc["server"] # "peer"
      <4>1. CASE pc["client"] \in HasFd
        BY <4>1
      <4>2. CASE pc["client"] \notin HasFd
        BY <4>2
      <4> QED BY <4>1, <4>2
    <3> QED BY <3>1
  <2>2. pc["client"] # "peer"
    BY <2>1
  <2>3. pc["client"] = "spin" \/ pc["client"] = "done"
    BY <2>1, <2>2
  <2> QED BY <2>1, <2>3
<1> QED BY RoundsSafe, EnabledStep, <1>1, <1>2, PTL DEF Spec

-----------------------------------------------------------------------------
(* The ring benchmark with a user interrupt as its doorbell, UintrPro.tla, *)
(* for every set of servers that earlier runs left waiting.                *)
CONSTANTS New, Old, Lates

VARIABLES late, bound, datagram, installed, uintrfd, ring, puts

Pro == INSTANCE UintrPro

(* The names of the processes differ.                                      *)
ProAssumption == New \notin Old /\ "client" \notin Old \cup {New}

(* No handler is ever installed, so every sender is refused and faults at  *)
(* its first message: nothing is posted and nobody waits for the ring.     *)
Silent ==
  /\ ~installed /\ ~pending
  /\ pc \in [Pro!Servers \cup {"client"} ->
              {"start", "bind", "recvmsg", "put", "notify", "spin", "killed",
               "stui", "loop", "error", "done"}]
  /\ index \in [Pro!Servers -> Int]
  /\ ring \in Nat /\ puts \in Nat
  /\ \A s \in Old : pc[s] \notin {"start", "bind"}
  /\ \A s \in Pro!Servers :
       pc[s] # "spin" /\ (pc[s] \in {"put", "notify"} => index[s] = -1)

LEMMA SilentStep ==
  ASSUME ProAssumption, Silent, [Pro!Next]_(Pro!vars)
  PROVE  Silent'
<1> USE DEF ProAssumption, Silent, Pro!Servers, Pro!Goto, Pro!client,
            Pro!socket, Pro!data
<1>1. CASE Pro!Client
  BY <1>1 DEF Pro!Client, Pro!ClientSend, Pro!ClientStui, Pro!ClientEvaluate
<1>2. CASE Pro!UiHandler
  BY <1>2 DEF Pro!UiHandler
<1>3. ASSUME NEW s \in Pro!Servers, Pro!Server(s)
      PROVE  Silent'
  <2>1. CASE Pro!ServerStart(s)
    BY <2>1 DEF Pro!ServerStart
  <2>2. CASE Pro!ServerBind(s)
    BY <2>2 DEF Pro!ServerBind
  <2>3. CASE Pro!ServerRegister(s)
    BY <2>3 DEF Pro!ServerRegister
  <2>4. CASE Pro!ServerPut(s)
    BY <2>4 DEF Pro!ServerPut
  <2>5. CASE Pro!ServerNotify(s)
    BY <2>5 DEF Pro!ServerNotify
  <2>6. CASE Pro!ServerSpin(s)
    BY <2>6 DEF Pro!ServerSpin
  <2> QED BY <1>3, <2>1, <2>2, <2>3, <2>4, <2>5, <2>6 DEF Pro!Server
<1>4. CASE UNCHANGED Pro!vars
  BY <1>4 DEF Pro!vars
<1> QED BY <1>1, <1>2, <1>3, <1>4 DEF Pro!Next

(* The client is never interrupted, and no server gets past the notify of  *)
(* its first message.                                                      *)
THEOREM ProSilent ==
  ASSUME ProAssumption
  PROVE  Pro!Spec => []Silent
<1>1. Pro!Init => Silent
  BY DEF Pro!Init, ProAssumption, Silent, Pro!Servers
<1> QED BY <1>1, SilentStep, PTL DEF Pro!Spec

(* A message is in the ring, and the server that would empty it anew has   *)
(* started already.                                                        *)
Full == puts > 0 /\ ring > 0 /\ pc[New] # "start"

(* What is put into the ring after the server has started is never taken   *)
(* out again: this is why Notified fails, whatever the schedule.           *)
THEOREM ProNeverEmptied ==
  ASSUME ProAssumption
  PROVE  Pro!Spec => [](Full => []Full)
<1>1. ASSUME Silent, Full, [Pro!Next]_(Pro!vars)
      PROVE  Full'
  <2> USE <1>1
      DEF ProAssumption, Silent, Full, Pro!Servers, Pro!Goto, Pro!client,
          Pro!socket, Pro!data
  <2>1. CASE Pro!Client
    BY <2>1 DEF Pro!Client, Pro!ClientSend, Pro!ClientStui, Pro!ClientEvaluate
  <2>2. ~Pro!UiHandler
    BY DEF Pro!UiHandler
  <2>3. ASSUME NEW s \in Pro!Servers, Pro!Server(s)
        PROVE  Full'
    <3>1. ~Pro!ServerStart(s) /\ ~Pro!ServerSpin(s)
      BY DEF Pro!ServerStart, Pro!ServerSpin
    <3>2. CASE Pro!ServerBind(s) \/ Pro!ServerRegister(s)
      BY <3>2 DEF Pro!ServerBind, Pro!ServerRegister
    <3>3. CASE Pro!ServerPut(s)
      BY <3>3 DEF Pro!ServerPut
    <3>4. CASE Pro!ServerNotify(s)
      BY <3>4 DEF Pro!ServerNotify
    <3> QED BY <2>3, <3>1, <3>2, <3>3, <3>4 DEF Pro!Server
  <2>4. CASE UNCHANGED Pro!vars
    BY <2>4 DEF Pro!vars
  <2> QED BY <2>1, <2>2, <2>3, <2>4 DEF Pro!Next
<1> QED BY <1>1, ProSilent, PTL DEF Pro!Spec
=============================================================================
