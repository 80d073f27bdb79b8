------------------------------ MODULE ShmSync ------------------------------
(***************************************************************************)
(* The shared-memory benchmark with a mutex and a condition variable in    *)
(* the segment (source/shm-sync).  Both processes initialize the two, at   *)
(* any time; sync_wait returns with the mutex locked and nothing unlocks   *)
(* it; a signal that nobody waits for is lost.                             *)
(*                                                                         *)
(* Initializing a mutex or a condition variable in use is undefined: who   *)
(* waits on the condition variable may be forgotten or not.  The contents  *)
(* of the memory are left out.                                             *)
(***************************************************************************)
EXTENDS Integers

CONSTANTS
  Counts, Sizes, \* the values -c and -s are given
  Founds,        \* bytes of the segment an earlier run left under the key,
                 \* 0 if there is none; source/shm uses the same key
  Spuriouses,    \* whether a wait may return without a signal
  SyncSize, Page \* sizeof(struct Sync) and the size of a page

ASSUME SyncAssumption ==
  /\ Counts \subseteq Nat /\ Sizes \subseteq Nat /\ Founds \subseteq Nat
  /\ Spuriouses \subseteq BOOLEAN
  /\ SyncSize \in Nat \ {0} /\ Page \in Nat \ {0}

VARIABLES
  count, size, spurious, \* the setting
  segment,   \* bytes of the segment under the key
  mutex,     \* who locked it last, or "free"
  waiting,   \* whom a signal may wake
  pc,        \* where each process is
  message,   \* of the server; -1 before its first wait is over
  left,      \* args->count of the client
  measured   \* bench.count

options  == <<count, size, spurious>>
sync     == <<mutex, waiting>>
counts   == <<message, left, measured>>
syncVars == <<options, segment, sync, pc, counts>>

Procs == {"server", "client"}

Gone == {"error", "segv", "aborted", "crashed", "done"}

Goto(p, l) == pc' = [pc EXCEPT ![p] = l]

SyncInit ==
  /\ count \in Counts /\ size \in Sizes /\ spurious \in Spuriouses
  /\ segment \in Founds
  /\ mutex = "free" /\ waiting = {}
  /\ pc = [p \in Procs |-> "create"]
  /\ message = -1 /\ left = count /\ measured = 0

-----------------------------------------------------------------------------
(* create_segment: a segment that is there must be large enough.           *)
CreateSegment(p) ==
  /\ pc[p] = "create"
  /\ IF segment # 0 /\ segment < size + SyncSize
     THEN Goto(p, "error") /\ UNCHANGED segment
     ELSE Goto(p, "init") /\ segment' = IF segment = 0 THEN size + SyncSize
                                        ELSE segment
  /\ UNCHANGED <<options, sync, counts>>

(* The address of the struct Sync: size structs, not size bytes, past the  *)
(* beginning of a segment that ends at a page.                             *)
Overruns ==
  SyncSize * size + SyncSize > ((segment + Page - 1) \div Page) * Page

(* init_sync past the end of the segment.                                  *)
InitFaults(p) ==
  /\ pc[p] = "init"
  /\ Overruns
  /\ Goto(p, "segv")
  /\ UNCHANGED <<options, segment, sync, counts>>

InitMutex(p) ==
  /\ pc[p] = "init"
  /\ ~Overruns
  /\ mutex' = "free"
  /\ Goto(p, "cond_init")
  /\ UNCHANGED <<options, segment, waiting, counts>>

InitCondition(p) ==
  /\ pc[p] = "cond_init"
  /\ waiting' \in {{}, waiting}
  /\ Goto(p, IF p = "server" THEN "lock" ELSE "start")
  /\ UNCHANGED <<options, segment, mutex, counts>>

(* sync_wait: pthread_mutex_lock, also by a process that has it already.   *)
Lock(p) ==
  /\ pc[p] = "lock"
  /\ mutex = "free"
  /\ mutex' = p
  /\ Goto(p, "cond_wait")
  /\ UNCHANGED <<options, segment, waiting, counts>>

(* pthread_cond_wait unlocks and waits.                                    *)
CondWait(p) ==
  /\ pc[p] = "cond_wait"
  /\ mutex' = "free"
  /\ waiting' = waiting \cup {p}
  /\ Goto(p, "waiting")
  /\ UNCHANGED <<options, segment, counts>>

(* It returns without a signal, as POSIX allows it to.                     *)
Spurious(p) ==
  /\ pc[p] = "waiting"
  /\ spurious
  /\ waiting' = waiting \ {p}
  /\ Goto(p, "relock")
  /\ UNCHANGED <<options, segment, mutex, counts>>

(* Mutant: sync_wait unlocks the mutex before it returns.                  *)
RelockUnlocks(p) ==
  /\ pc[p] = "relock"
  /\ mutex = "free"
  /\ Goto(p, IF p = "server" /\ message = -1 THEN "loop" ELSE "copy")
  /\ message' = IF p = "server" /\ message = -1 THEN 0 ELSE message
  /\ UNCHANGED <<options, segment, sync, left, measured>>

(* It locks the mutex again and sync_wait returns.                         *)
Relock(p) ==
  /\ pc[p] = "relock"
  /\ mutex = "free"
  /\ mutex' = p
  /\ Goto(p, IF p = "server" /\ message = -1 THEN "loop" ELSE "copy")
  /\ message' = IF p = "server" /\ message = -1 THEN 0 ELSE message
  /\ UNCHANGED <<options, segment, waiting, left, measured>>

(* sync_notify by p, which goes on at l: one of those who wait, if any.    *)
Notify(p, l) ==
  \/ /\ waiting = {}
     /\ Goto(p, l)
     /\ UNCHANGED waiting
  \/ \E w \in waiting :
       /\ pc' = [pc EXCEPT ![p] = l, ![w] = "relock"]
       /\ waiting' = waiting \ {w}

-----------------------------------------------------------------------------
(* The loop of the server: write and notify, wait, read and notify.        *)
ServerOffer ==
  /\ pc["server"] = "loop"
  /\ message < count
  /\ Notify("server", "lock")
  /\ UNCHANGED <<options, segment, mutex, counts>>

ServerRead ==
  /\ pc["server"] = "copy"
  /\ Notify("server", "loop")
  /\ measured' = measured + 1 /\ message' = message + 1
  /\ UNCHANGED <<options, segment, mutex, left>>

(* evaluate, which asserts that there were messages.                       *)
ServerEvaluate ==
  /\ pc["server"] = "loop"
  /\ message >= count
  /\ Goto("server", IF count > 0 THEN "cleanup" ELSE "aborted")
  /\ UNCHANGED <<options, segment, sync, counts>>

(* cleanup detaches and removes the segment, then destroys the mutex in    *)
(* memory that is no longer there.                                         *)
ServerCleanup ==
  /\ pc["server"] = "cleanup"
  /\ segment' = 0
  /\ Goto("server", "crashed")
  /\ UNCHANGED <<options, sync, counts>>

ClientStart ==
  /\ pc["client"] = "start"
  /\ Notify("client", "loop")
  /\ UNCHANGED <<options, segment, mutex, counts>>

ClientLoop ==
  /\ pc["client"] = "loop"
  /\ Goto("client", IF left > 0 THEN "lock" ELSE "done")
  /\ UNCHANGED <<options, segment, sync, counts>>

(* Read, write back and notify.                                            *)
ClientCopy ==
  /\ pc["client"] = "copy"
  /\ Notify("client", "loop")
  /\ left' = left - 1
  /\ UNCHANGED <<options, segment, mutex, message, measured>>

Sync(p) ==
  \/ CreateSegment(p) \/ InitFaults(p) \/ InitMutex(p) \/ InitCondition(p)
  \/ Lock(p) \/ CondWait(p) \/ Relock(p)

SyncServer ==
  \/ Sync("server") \/ ServerOffer \/ ServerRead
  \/ ServerEvaluate \/ ServerCleanup

SyncClient == Sync("client") \/ ClientStart \/ ClientLoop \/ ClientCopy

SyncNext == SyncClient \/ SyncServer \/ \E p \in Procs : Spurious(p)

SyncSpec == SyncInit /\ [][SyncNext]_syncVars

(* A process that can go on is scheduled.  No wait ends by itself.         *)
FairSyncSpec == SyncSpec /\ WF_syncVars(SyncClient) /\ WF_syncVars(SyncServer)

-----------------------------------------------------------------------------
(* The values each variable holds.                                         *)
SyncTypeOK ==
  /\ mutex \in Procs \cup {"free"} /\ waiting \subseteq Procs
  /\ pc \in [Procs -> {"create", "init", "cond_init", "start", "loop", "lock",
                       "cond_wait", "waiting", "relock", "copy", "cleanup"}
                      \cup Gone]
  /\ segment \in Nat
  /\ message \in Nat \cup {-1} /\ left \in 0..count /\ measured \in Nat

(* Without a spurious wake-up nothing is ever measured, and with one a     *)
(* single message at most: the second sync_wait of the server meets the    *)
(* mutex its first one left locked.  Results are printed for -c 1 only.    *)
Measured ==
  /\ SyncTypeOK
  /\ measured <= (IF spurious THEN 1 ELSE 0)
  /\ pc["server"] \in {"cleanup", "crashed"} => count = 1 /\ measured = 1

(* With two messages or more the server waits for ever for a mutex or for  *)
(* a signal, unless it could not be set up at all.                         *)
Deadlocked ==
  count > 1 =>
    <>[](pc["server"] \in {"lock", "waiting", "relock", "error", "segv"})
=============================================================================
