----------------------------- MODULE ShmProofs -----------------------------
(***************************************************************************)
(* The three benchmarks on shared memory.                                  *)
(*                                                                         *)
(* Client and server of Shm.tla take turns for any number of rounds, if no *)
(* earlier run left a server or an unanswered request behind; they never   *)
(* wait for each other.  The benchmark with a condition variable, of       *)
(* ShmSync.tla, measures one message at most.                              *)
(***************************************************************************)
EXTENDS Shm, ShmSync, TLAPS

(* The first part of Turns, which holds with leftovers too.                *)
Frame == TypeOK /\ Placed /\ Together

(* The second part.                                                        *)
InStep ==
  /\ cpc # "wait" => spc[New] \notin {"now", "write", "notify"}
  /\ \A f \in Objects : guard[f] = "s" => cpc = "wait" /\ f = cfile
  /\ spc[New] \in {"now", "write", "notify"} => guard[cfile] = "s"
  /\ spc[New] = "write" => now[New] = requests
  /\ spc[New] = "notify" => stamp[cfile] = requests
  /\ cpc = "wait" /\ guard[cfile] # "s" =>
       guard[cfile] = "c" /\ stamp[cfile] = requests
  /\ cpc = "read" => stamp[cfile] = requests
  /\ cpc = "benchmark" => single_start = requests

LEMMA TurnsParts == Turns <=> Frame /\ (Clean => InStep)
  BY DEF Turns, Frame, InStep

LEMMA InitTurns == Init => Turns
<1> SUFFICES ASSUME Init PROVE Turns
  OBVIOUS
<1> USE ShmAssumption DEF Init, Objects, Servers, Found, NoStamp
<1>1. TypeOK
  BY DEF TypeOK
<1>2. Placed /\ Together
  BY DEF Placed, Together
<1>3. Clean => InStep
  BY DEF Clean, InStep
<1> QED BY <1>1, <1>2, <1>3, TurnsParts DEF Frame

-----------------------------------------------------------------------------
(* The set-up of the server keeps both parts.                              *)
LEMMA SetupTurns ==
  ASSUME Turns, Setup
  PROVE  Turns'
<1> USE ShmAssumption, TurnsParts
    DEF Frame, TypeOK, Placed, Together, Objects, Servers, setting, names,
        shared, server, client
<1>1. CASE ServerOpen
  <2>1. Frame'
    BY <1>1 DEF ServerOpen, Open, Opened, Refused, NoStamp
  <2>2. Clean' => InStep'
    BY <1>1 DEF ServerOpen, Clean, InStep
  <2> QED BY <2>1, <2>2 DEF Turns, InStep
<1>2. CASE ServerRefused
  <2>1. Frame'
    BY <1>2 DEF ServerRefused, NoStamp
  <2>2. Clean' => InStep'
    BY <1>2 DEF ServerRefused, Clean, InStep
  <2> QED BY <2>1, <2>2 DEF Turns, InStep
<1>3. CASE ServerExtend
  <2>1. Frame'
    BY <1>3 DEF ServerExtend, NoStamp
  <2>2. Clean' => InStep'
    BY <1>3 DEF ServerExtend, Clean, InStep
  <2> QED BY <2>1, <2>2 DEF Turns, InStep
<1> QED BY <1>1, <1>2, <1>3 DEF Setup

(* The loop of a server keeps the first part whoever runs it, and the      *)
(* second one too: in a clean run it is the new server.                    *)
LEMMA LoopTurns ==
  ASSUME Turns, NEW s \in Servers, Loop(s)
  PROVE  Turns'
<1> USE ShmAssumption, TurnsParts
    DEF Frame, TypeOK, Placed, Together, Objects, Servers, setting, names,
        shared, server, client
<1>1. Frame'
  <2>1. CASE ServerWait(s)
    BY <2>1 DEF ServerWait, NoStamp
  <2>2. CASE ServerNow(s)
    BY <2>2 DEF ServerNow, NoStamp
  <2>3. CASE ServerWrite(s)
    BY <2>3 DEF ServerWrite, NoStamp
  <2>4. CASE ServerNotify(s)
    BY <2>4 DEF ServerNotify, NoStamp
  <2> QED BY <2>1, <2>2, <2>3, <2>4 DEF Loop
<1>2. ASSUME Clean' PROVE InStep'
  <2>1. Clean /\ InStep
    BY <1>2 DEF Clean, Loop, ServerWait, ServerNow, ServerWrite, ServerNotify
  <2>2. s = New
    BY <2>1 DEF Clean, Loop, ServerWait, ServerNow, ServerWrite, ServerNotify
  <2>3. cpc = "wait" => sfile[New] = cfile \/ spc[New] \in {"gone", "open", "error"}
    BY DEF Placed, Together
  <2> USE <2>1, <2>2, <2>3 DEF InStep
  <2>4. CASE ServerWait(s)
    BY <2>4 DEF ServerWait
  <2>5. CASE ServerNow(s)
    BY <2>5 DEF ServerNow
  <2>6. CASE ServerWrite(s)
    BY <2>6 DEF ServerWrite
  <2>7. CASE ServerNotify(s)
    BY <2>7 DEF ServerNotify
  <2> QED BY <2>4, <2>5, <2>6, <2>7 DEF Loop
<1> QED BY <1>1, <1>2 DEF Turns, InStep

(* Every step of the client keeps both parts.                              *)
LEMMA ClientTurns ==
  ASSUME Turns, Client
  PROVE  Turns'
<1> USE ShmAssumption, TurnsParts
    DEF Frame, TypeOK, Placed, Together, Objects, Servers, setting, names,
        shared, server, client
<1>1. Frame'
  <2>1. CASE ClientOpen
    BY <2>1 DEF ClientOpen, Open, Opened, NoStamp
  <2>2. CASE ClientRefused
    BY <2>2 DEF ClientRefused, NoStamp
  <2>3. CASE ClientTimeUp \/ ClientContinue \/ ClientFaults \/ ClientWait
    BY <2>3 DEF ClientTimeUp, ClientContinue, ClientFaults, ClientWait, NoStamp
  <2>4. CASE ClientNotify
    BY <2>4 DEF ClientNotify, NoStamp
  <2>5. CASE ClientRead
    BY <2>5 DEF ClientRead, NoStamp
  <2>6. CASE ClientBenchmark
    BY <2>6 DEF ClientBenchmark, NoStamp
  <2>7. CASE ClientEvaluate
    BY <2>7 DEF ClientEvaluate, NoStamp
  <2> QED BY <2>1, <2>2, <2>3, <2>4, <2>5, <2>6, <2>7 DEF Client
<1>2. ASSUME Clean' PROVE InStep'
  <2>1. Clean /\ InStep
    BY <1>2 DEF Clean, Client, ClientOpen, ClientRefused, ClientTimeUp,
       ClientContinue, ClientFaults, ClientWait, ClientNotify, ClientRead,
       ClientBenchmark, ClientEvaluate
  <2> USE <2>1 DEF InStep
  <2>2. CASE ClientOpen \/ ClientRefused
    BY <2>2 DEF ClientOpen, ClientRefused
  <2>3. CASE ClientTimeUp \/ ClientContinue \/ ClientFaults \/ ClientWait
    BY <2>3 DEF ClientTimeUp, ClientContinue, ClientFaults, ClientWait
  <2>4. CASE ClientNotify
    BY <2>4 DEF ClientNotify
  <2>5. CASE ClientRead
    BY <2>5 DEF ClientRead
  <2>6. CASE ClientBenchmark
    BY <2>6 DEF ClientBenchmark
  <2>7. CASE ClientEvaluate
    BY <2>7 DEF ClientEvaluate
  <2> QED BY <2>2, <2>3, <2>4, <2>5, <2>6, <2>7 DEF Client
<1> QED BY <1>1, <1>2 DEF Turns, InStep

-----------------------------------------------------------------------------
(* Client and server take turns for ever, and meet on one object.          *)
THEOREM ShmTurns == Spec => []Turns
<1>1. Init => Turns
  BY InitTurns
<1>2. Turns /\ [Next]_vars => Turns'
  <2> SUFFICES ASSUME Turns, [Next]_vars PROVE Turns'
    OBVIOUS
  <2>1. CASE Client
    BY <2>1, ClientTurns
  <2>2. CASE Setup
    BY <2>2, SetupTurns
  <2>3. CASE \E s \in Servers : Loop(s)
    BY <2>3, LoopTurns
  <2>4. CASE UNCHANGED vars
    BY <2>4 DEF Turns, TypeOK, Placed, Together, Clean, vars, setting, names,
       shared, server, client
  <2> QED BY <2>1, <2>2, <2>3, <2>4 DEF Next
<1> QED BY <1>1, <1>2, PTL DEF Spec

(* In a clean run every measured round trip subtracts the timestamp that   *)
(* was taken for it.                                                       *)
THEOREM ShmFresh == Spec => []Fresh
<1>1. Turns => Fresh
  BY DEF Turns, Fresh
<1> QED BY ShmTurns, <1>1, PTL

(* In a clean run the timestamp is never written while it is read.         *)
THEOREM ShmRaceFree == Spec => []NoRace
<1>1. Turns => NoRace
  BY DEF Turns, NoRace, Placed, Clean, Servers
<1> QED BY ShmTurns, <1>1, PTL
-----------------------------------------------------------------------------
(* What is known of the run from what it found: an object of the right     *)
(* length stays so, and only in a clean run does the client fault.  With a *)
(* segment that is too short neither process gets further than to open it. *)
Leftover ==
  /\ old # {} => found \in {"zero", "s", "c"}
  /\ found \in {"zero", "s", "c"} => made >= 1 /\ long[1] = 1
  /\ cpc = "killed" => Clean
  /\ Refused => spc[New] \in {"open", "error"} /\ cpc \in {"open", "error"}

LEMMA LeftoverStep ==
  ASSUME Turns, Leftover, [Next]_vars
  PROVE  Leftover'
<1> USE ShmAssumption
    DEF Turns, TypeOK, Placed, Together, Leftover, Clean, Refused, Objects,
        Servers, Found, setting, names, shared, server, client
<1>1. CASE ClientFaults
  <2>1. cfile = 1 /\ long[1] = 0
    BY <1>1 DEF ClientFaults
  <2> QED BY <1>1, <2>1 DEF ClientFaults
<1>2. CASE ClientOpen \/ ClientRefused
  BY <1>2 DEF ClientOpen, Open, Opened, ClientRefused
<1>3. CASE ClientTimeUp \/ ClientContinue \/ ClientNotify
  BY <1>3 DEF ClientTimeUp, ClientContinue, ClientNotify
<1>4. CASE ClientWait \/ ClientRead \/ ClientBenchmark \/ ClientEvaluate
  BY <1>4 DEF ClientWait, ClientRead, ClientBenchmark, ClientEvaluate
<1>5. CASE Setup
  BY <1>5 DEF Setup, ServerOpen, Open, Opened, ServerRefused, ServerExtend
<1>6. ASSUME NEW s \in Servers, Loop(s)
      PROVE  Leftover'
  BY <1>6 DEF Loop, ServerWait, ServerNow, ServerWrite, ServerNotify
<1>7. CASE UNCHANGED vars
  BY <1>7 DEF vars
<1> QED BY <1>1, <1>2, <1>3, <1>4, <1>5, <1>6, <1>7 DEF Next, Client

(* While the client waits, its request or an answer to it is there, and    *)
(* the server of this run has the client's object open or will open it.    *)
NotStuck ==
  cpc = "wait" =>
    /\ guard[cfile] \in {"s", "c"}
    /\ spc[New] # "error"
    /\ spc[New] # "open" => sfile[New] = cfile

(* The client and the server of this run never wait for each other or on   *)
(* different objects, whatever other servers do to the guard: the safety   *)
(* part of Answered.                                                       *)
THEOREM NoDeadlock == Spec => []NotStuck
<1> DEFINE Asked == /\ cpc = "wait" => guard[cfile] \in {"s", "c"}
                    /\ spc[New] # "gone"
                    /\ spc[New] = "error" => Refused
<1>1. Init => Asked /\ Leftover
  BY ShmAssumption DEF Init, Leftover, Clean, Refused, Found, Objects, Servers
<1>2. ASSUME Turns, Asked, [Next]_vars
      PROVE  Asked'
  <2> USE ShmAssumption
      DEF Turns, TypeOK, Placed, Together, Refused, Objects, Servers, setting,
          names, shared, server, client
  <2>1. CASE Client
    BY <1>2, <2>1
    DEF Client, ClientOpen, ClientRefused, ClientTimeUp, ClientContinue,
        ClientNotify, ClientFaults, ClientWait, ClientRead, ClientBenchmark,
        ClientEvaluate
  <2>2. CASE Setup
    BY <1>2, <2>2 DEF Setup, ServerOpen, ServerRefused, ServerExtend
  <2>3. ASSUME NEW s \in Servers, Loop(s)
        PROVE  Asked'
    BY <1>2, <2>3 DEF Loop, ServerWait, ServerNow, ServerWrite, ServerNotify
  <2>4. CASE UNCHANGED vars
    BY <1>2, <2>4 DEF vars
  <2> QED BY <1>2, <2>1, <2>2, <2>3, <2>4 DEF Next
<1>3. ASSUME Turns, Asked, Leftover
      PROVE  NotStuck
  <2>1. cpc = "wait" => spc[New] # "error"
    BY <1>3 DEF Leftover, Refused
  <2>2. cpc = "wait" /\ spc[New] # "open" => sfile[New] = cfile
    BY <1>3, <2>1 DEF Turns, TypeOK, Placed, Together, Objects, Servers
  <2> QED BY <1>3, <2>1, <2>2 DEF NotStuck
<1> QED BY <1>1, <1>2, <1>3, ShmTurns, LeftoverStep, PTL DEF Spec

(* The server of this run spins on the file its client died of.            *)
Spinning == cpc = "killed" /\ spc[New] = "wait" /\ name = sfile[New]

(* Both processes were turned away.                                        *)
TurnedAway == spc[New] = "error" /\ cpc = "error"

(* A server whose client has died of a file too short spins for ever, and  *)
(* the file stays; processes that were turned away stay away, and no other *)
(* end of a run with too short a segment is possible.  This is the safety  *)
(* part of Stranded.                                                       *)
THEOREM StrandedForEver ==
  Spec => /\ []Leftover
          /\ [](Spinning => []Spinning)
          /\ [](TurnedAway => []TurnedAway)
<1>1. Init => Leftover
  BY ShmAssumption DEF Init, Leftover, Clean, Refused, Objects, Found, Servers
<1>2. ASSUME Turns, Leftover, [Next]_vars
      PROVE  (Spinning => Spinning') /\ (TurnedAway => TurnedAway')
  <2> USE <1>2, ShmAssumption
      DEF Turns, TypeOK, Placed, Together, Leftover, Clean, Objects, Servers,
          Spinning, TurnedAway, setting, names, shared, server, client
  <2>1. CASE Client
    BY <2>1 DEF Client, ClientOpen, ClientRefused, ClientTimeUp,
                ClientContinue, ClientNotify, ClientFaults, ClientWait,
                ClientRead, ClientBenchmark, ClientEvaluate
  <2>2. CASE Setup
    BY <2>2 DEF Setup, ServerOpen, ServerRefused, ServerExtend
  <2>3. ASSUME NEW s \in Servers, Loop(s)
        PROVE  (Spinning => Spinning') /\ (TurnedAway => TurnedAway')
    BY <2>3 DEF Loop, ServerWait, ServerNow, ServerWrite, ServerNotify
  <2>4. CASE UNCHANGED vars
    BY <2>4 DEF vars
  <2> QED BY <2>1, <2>2, <2>3, <2>4 DEF Next
<1> QED BY <1>1, <1>2, ShmTurns, LeftoverStep, PTL DEF Spec

-----------------------------------------------------------------------------
(***************************************************************************)
(* The benchmark with a condition variable, ShmSync.tla: for every number  *)
(* of messages and every size at most one message is measured.             *)
(***************************************************************************)
(* What the command line and the platform give.                            *)
Given == count \in Nat /\ size \in Nat /\ spurious \in BOOLEAN

(* Between the begin of a wait and the use of what it waited for.          *)
InWait == {"lock", "cond_wait", "waiting", "relock", "copy"}

(* The client may yet unlock a mutex that is not its own: it has not       *)
(* initialized it, or is about to hand it back to the condition variable.  *)
CanFree == pc["client"] \in {"create", "init", "cond_wait"}

(* A signal only wakes who waits.                                          *)
Waiters == \A p \in waiting : pc[p] = "waiting"

(* How far a process has come by the place it is at.                       *)
Positions ==
  /\ pc["server"] \notin {"start", "done"}
  /\ pc["client"] \notin {"cleanup", "crashed", "aborted"}
  /\ pc["server"] \in {"create", "init", "cond_init", "error", "segv"} =>
       message = -1
  /\ pc["server"] \in {"loop", "copy", "cleanup", "crashed", "aborted"} =>
       message # -1
  /\ measured = (IF message = -1 THEN 0 ELSE message)
  /\ pc["client"] \in InWait => left > 0
  /\ message # -1 /\ pc["server"] \in InWait => count > 0
  /\ message = 1 => count > 0

(* After its first wait the server holds the mutex.  It can be freed once, *)
(* by a client that initializes it late or begins to wait without it; then *)
(* the client has no way left to free it a second time.                    *)
HeldOnce ==
  /\ message <= 1
  /\ message = 0 => pc["server"] \in {"loop", "aborted"} \cup InWait
  /\ message = 0 /\ pc["server"] \in {"loop", "lock", "waiting", "relock"} =>
       \/ mutex = "server" /\ pc["server"] \in {"loop", "lock"}
       \/ /\ mutex # "server"
          /\ pc["client"] \notin {"create", "init"}
          /\ pc["client"] = "cond_wait" => mutex = "client"
  /\ message = 0 /\ pc["server"] \in {"cond_wait", "copy"} =>
       mutex = "server" /\ ~CanFree
  /\ message = 1 =>
       /\ spurious /\ mutex = "server" /\ ~CanFree
       /\ pc["server"] \in {"loop", "lock", "cleanup", "crashed"}

(* Without spurious wake-ups only the client's first signal wakes the      *)
(* server, and by then the client is past its initialization.              *)
OnlySignals ==
  ~spurious =>
    /\ message = -1 => pc["client"] \notin {"relock", "copy"}
    /\ message = -1 /\ pc["server"] = "relock" =>
         /\ pc["client"] \notin {"create", "init", "cond_init", "start"}
         /\ pc["client"] = "cond_wait" => mutex = "client"
    /\ message = 0 =>
         /\ mutex = "server" /\ ~CanFree
         /\ pc["server"] \in {"loop", "lock", "aborted"}

(* What every step preserves.                                              *)
SyncInvariant ==
  /\ Given /\ Measured /\ Waiters /\ Positions /\ HeldOnce /\ OnlySignals

LEMMA InitSync ==
  ASSUME SyncInit
  PROVE  SyncInvariant
<1> USE SyncAssumption DEF SyncInit, Procs, Gone
<1>1. Given /\ Measured
  BY DEF Given, Measured, SyncTypeOK
<1>2. Waiters /\ Positions /\ HeldOnce /\ OnlySignals
  BY DEF Waiters, Positions, HeldOnce, OnlySignals, InWait
<1> QED BY <1>1, <1>2 DEF SyncInvariant

(* The set-up, and the steps of a wait.                                    *)
LEMMA WaitSync ==
  ASSUME SyncInvariant, NEW p \in Procs,
         Sync(p) \/ Spurious(p)
  PROVE  SyncInvariant'
<1> USE SyncAssumption
    DEF SyncInvariant, Given, Measured, SyncTypeOK, Waiters, Positions,
        HeldOnce, OnlySignals, InWait, CanFree, Procs, Gone, Goto, options,
        sync, counts
<1>1. CASE CreateSegment(p)
  BY <1>1 DEF CreateSegment
<1>2. CASE InitFaults(p)
  BY <1>2 DEF InitFaults
<1>3. CASE InitMutex(p)
  BY <1>3 DEF InitMutex
<1>4. CASE InitCondition(p)
  <2> waiting' \subseteq waiting
    BY <1>4 DEF InitCondition
  <2>1. CASE p = "server"
    BY <1>4, <2>1 DEF InitCondition
  <2>2. CASE p = "client"
    BY <1>4, <2>2 DEF InitCondition
  <2> QED BY <2>1, <2>2
<1>5. CASE Lock(p)
  BY <1>5 DEF Lock
<1>6. CASE CondWait(p)
  BY <1>6 DEF CondWait
<1>7. CASE Relock(p)
  BY <1>7 DEF Relock
<1>8. CASE Spurious(p)
  BY <1>8 DEF Spurious
<1> QED
  BY <1>1, <1>2, <1>3, <1>4, <1>5, <1>6, <1>7, <1>8 DEF Sync

(* sync_notify moves p on, and wakes at most one process, which waits.     *)
LEMMA NotifyWakes ==
  ASSUME SyncInvariant, NEW p \in Procs, NEW q \in Procs, p # q,
         NEW l, pc[p] # "waiting", Notify(p, l)
  PROVE  /\ pc' = [pc EXCEPT ![p] = l, ![q] = pc'[q]]
         /\ pc'[q] = pc[q] \/ (pc[q] = "waiting" /\ pc'[q] = "relock")
         /\ waiting' \subseteq waiting
         /\ q \in waiting' => pc'[q] = "waiting"
<1> USE DEF SyncInvariant, Waiters, Measured, SyncTypeOK, Procs
<1>1. CASE waiting = {} /\ Goto(p, l) /\ UNCHANGED waiting
  BY <1>1 DEF Goto
<1>2. CASE \E w \in waiting :
             /\ pc' = [pc EXCEPT ![p] = l, ![w] = "relock"]
             /\ waiting' = waiting \ {w}
  <2>1. \A w \in waiting : w = q
    OBVIOUS
  <2> QED BY <1>2, <2>1
<1> QED BY <1>1, <1>2 DEF Notify

(* The loops of server and client.                                         *)
LEMMA LoopSync ==
  ASSUME SyncInvariant,
         \/ ServerOffer \/ ServerRead
         \/ ServerEvaluate \/ ServerCleanup
         \/ ClientStart \/ ClientLoop \/ ClientCopy
  PROVE  SyncInvariant'
<1> USE SyncAssumption
    DEF SyncInvariant, Given, Measured, SyncTypeOK, Waiters, Positions,
        HeldOnce, OnlySignals, InWait, CanFree, Procs, Gone, Goto, options,
        sync, counts
<1>1. CASE ServerOffer
  <2>1. Notify("server", "lock") /\ pc["server"] # "waiting"
    BY <1>1 DEF ServerOffer
  <2>2. /\ pc' = [pc EXCEPT !["server"] = "lock", !["client"] = pc'["client"]]
        /\ \/ pc'["client"] = pc["client"]
           \/ pc["client"] = "waiting" /\ pc'["client"] = "relock"
        /\ waiting' \subseteq waiting
        /\ "client" \in waiting' => pc'["client"] = "waiting"
    BY <2>1, NotifyWakes
  <2> QED BY <1>1, <2>2 DEF ServerOffer
<1>2. CASE ServerRead
  <2>1. Notify("server", "loop") /\ pc["server"] # "waiting"
    BY <1>2 DEF ServerRead
  <2>2. /\ pc' = [pc EXCEPT !["server"] = "loop", !["client"] = pc'["client"]]
        /\ \/ pc'["client"] = pc["client"]
           \/ pc["client"] = "waiting" /\ pc'["client"] = "relock"
        /\ waiting' \subseteq waiting
        /\ "client" \in waiting' => pc'["client"] = "waiting"
    BY <2>1, NotifyWakes
  <2> QED BY <1>2, <2>2 DEF ServerRead
<1>3. CASE ServerEvaluate
  BY <1>3 DEF ServerEvaluate
<1>4. CASE ServerCleanup
  BY <1>4 DEF ServerCleanup
<1>5. CASE ClientStart
  <2>1. Notify("client", "loop") /\ pc["client"] # "waiting"
    BY <1>5 DEF ClientStart
  <2>2. /\ pc' = [pc EXCEPT !["client"] = "loop", !["server"] = pc'["server"]]
        /\ \/ pc'["server"] = pc["server"]
           \/ pc["server"] = "waiting" /\ pc'["server"] = "relock"
        /\ waiting' \subseteq waiting
        /\ "server" \in waiting' => pc'["server"] = "waiting"
    BY <2>1, NotifyWakes
  <2> QED BY <1>5, <2>2 DEF ClientStart
<1>6. CASE ClientLoop
  BY <1>6 DEF ClientLoop
<1>7. CASE ClientCopy
  <2>1. Notify("client", "loop") /\ pc["client"] # "waiting"
    BY <1>7 DEF ClientCopy
  <2>2. /\ pc' = [pc EXCEPT !["client"] = "loop", !["server"] = pc'["server"]]
        /\ \/ pc'["server"] = pc["server"]
           \/ pc["server"] = "waiting" /\ pc'["server"] = "relock"
        /\ waiting' \subseteq waiting
        /\ "server" \in waiting' => pc'["server"] = "waiting"
    BY <2>1, NotifyWakes
  <2> QED BY <1>7, <2>2 DEF ClientCopy
<1> QED BY <1>1, <1>2, <1>3, <1>4, <1>5, <1>6, <1>7

LEMMA SyncStep ==
  ASSUME SyncInvariant, [SyncNext]_syncVars
  PROVE  SyncInvariant'
<1>1. CASE UNCHANGED syncVars
  BY <1>1
  DEF SyncInvariant, Given, Measured, SyncTypeOK, Waiters, Positions,
      HeldOnce, OnlySignals, CanFree, syncVars, options, sync,
      counts
<1>2. CASE SyncNext
  BY <1>2, WaitSync, LoopSync
  DEF SyncNext, SyncServer, SyncClient, Procs
<1> QED BY <1>1, <1>2

LEMMA SyncAlways == SyncSpec => []SyncInvariant
  BY InitSync, SyncStep, PTL DEF SyncSpec

(* However many messages are asked for, the server measures one at most,   *)
(* and that only if pthread_cond_wait returned without a signal; results   *)
(* are printed for one message only.                                       *)
THEOREM MeasuredSafe == SyncSpec => []Measured
<1>1. SyncInvariant => Measured
  BY DEF SyncInvariant
<1> QED BY <1>1, SyncAlways, PTL

-----------------------------------------------------------------------------
(* The server waits in pthread_mutex_lock for the mutex its own earlier    *)
(* sync_wait locked, and the client is past every step that frees it.      *)
LockedOut == pc["server"] = "lock" /\ mutex = "server" /\ ~CanFree

(* Once it is there the server waits for ever: no step of either process,  *)
(* and no spurious wake-up, lets it go on.  This is the safety part of     *)
(* Deadlocked.                                                             *)
THEOREM LockedOutForEver ==
  SyncSpec => [](LockedOut => []LockedOut)
<1>1. ASSUME SyncInvariant, LockedOut, [SyncNext]_syncVars
      PROVE  LockedOut'
  <2> USE <1>1 DEF LockedOut, CanFree, options, sync, counts,
                   Goto, SyncInvariant, Waiters, Measured,
                   SyncTypeOK, Procs, Gone
  <2>1. CASE UNCHANGED syncVars
    BY <2>1 DEF syncVars
  <2>2. ASSUME NEW p \in Procs, Sync(p) \/ Spurious(p)
        PROVE  LockedOut'
    BY <2>2
    DEF Sync, Spurious, CreateSegment, InitFaults,
        InitMutex, InitCondition, Lock, CondWait,
        Relock
  <2>3. CASE ClientStart
    BY <2>3 DEF ClientStart, Notify
  <2>4. CASE ClientLoop
    BY <2>4 DEF ClientLoop
  <2>5. CASE ClientCopy
    BY <2>5 DEF ClientCopy, Notify
  <2>6. ~(\/ ServerOffer \/ ServerRead
          \/ ServerEvaluate \/ ServerCleanup)
    BY DEF ServerOffer, ServerRead, ServerEvaluate,
           ServerCleanup
  <2> QED
    BY <2>1, <2>2, <2>3, <2>4, <2>5, <2>6
    DEF SyncNext, SyncServer, SyncClient
<1> QED BY <1>1, SyncAlways, PTL DEF SyncSpec
=============================================================================
