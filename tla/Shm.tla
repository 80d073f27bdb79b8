-------------------------------- MODULE Shm --------------------------------
(***************************************************************************)
(* The shared-memory and the memory-mapped file benchmark (source/shm,     *)
(* source/mmap): client and server spin on one guard byte of a System V    *)
(* segment or of a mapped file.  The client stores 's', the server answers *)
(* with a timestamp in the bytes behind the guard and stores 'c', and the  *)
(* client subtracts the timestamp from the clock.                          *)
(*                                                                         *)
(* The processes meet by name: the key of the segment, or /tmp/mmap.  A    *)
(* segment is never removed and cannot grow; the file is made long enough  *)
(* by the server only and is removed by a client that ends.  A server      *)
(* never leaves its loop.  So a run may find what an earlier one left: the *)
(* object, a guard byte in any state and servers that still spin on it.    *)
(*                                                                         *)
(* The clock is abstracted to the number of requests the client has made:  *)
(* a timestamp says between which two requests now() was called.  The      *)
(* eight bytes of the timestamp lie in one cache line and are copied by    *)
(* one move, so each memcpy is one step.                                   *)
(***************************************************************************)
EXTENDS Integers

CONSTANTS
  Methods,    \* the benchmarks run: a subset of {"shm", "mmap"}
  New,        \* the server this run starts
  Old,        \* servers of earlier runs
  MaxRounds   \* bound: round trips before the client's time is up

ASSUME ShmAssumption ==
  /\ Methods \subseteq {"shm", "mmap"}
  /\ New \notin Old
  /\ MaxRounds \in Nat

VARIABLES
  method, found, old, \* the setting: what the name leads to, who spins on it
  name,         \* the object the name leads to, 0 if none
  made,         \* how many objects there have been
  long,         \* per object: whether it holds guard and timestamp
  guard, stamp, \* per object: byte 0, and bytes 1 to 8
  sfile, spc, now, \* per server: its object, where it is, its timestamp
  cfile, cpc,   \* the client's object, where the client is
  cnt,          \* cnt of the client's main
  single_start, \* bench->single_start
  requests      \* history: how often the client stored 's'

setting == <<method, found, old>>
names   == <<name, made, long>>
shared  == <<guard, stamp>>
server  == <<sfile, spc, now>>
client  == <<cfile, cpc, cnt, single_start, requests>>
vars    == <<setting, names, shared, server, client>>

Servers == {New} \cup Old

Objects == 1..2

(* What a timestamp field holds before anything is written to it.          *)
NoStamp == -1

(* The name leads nowhere; to an object of the right length, with its      *)
(* guard; or to one too short: an empty file, or a segment of a run with a *)
(* smaller -s.                                                             *)
Found == {"nothing", "short", "zero", "s", "c"}

(* A server that still runs has made its file long enough.                 *)
Init ==
  /\ method \in Methods /\ found \in Found /\ old \in SUBSET Old
  /\ old # {} => found \in {"zero", "s", "c"}
  /\ made = (IF found = "nothing" THEN 0 ELSE 1) /\ name = made
  /\ long = [f \in Objects |-> IF f <= made /\ found # "short" THEN 1 ELSE 0]
  /\ guard = [f \in Objects |-> IF long[f] = 1 THEN found ELSE "zero"]
  /\ stamp = [f \in Objects |-> NoStamp]
  /\ sfile = [s \in Servers |-> IF s \in old THEN 1 ELSE 0]
  /\ spc = [s \in Servers |-> IF s = New THEN "open"
                              ELSE IF s \in old THEN "wait" ELSE "gone"]
  /\ now = [s \in Servers |-> NoStamp]
  /\ cfile = 0 /\ cpc = "open" /\ cnt = 0
  /\ single_start = NoStamp
  /\ requests = 0

-----------------------------------------------------------------------------
(* shmget with IPC_CREAT, or open with O_CREAT: the object the name leads  *)
(* to, or a new one.  A new segment has its length at once, a file not.    *)
Opened == IF name # 0 THEN name ELSE made + 1

Open ==
  /\ name' = Opened
  /\ made' = IF name # 0 THEN made ELSE made + 1
  /\ long' = IF name = 0 /\ method = "shm" THEN [long EXCEPT ![Opened] = 1]
             ELSE long

(* A segment that is too short cannot be had: shmget fails, throw.         *)
Refused == method = "shm" /\ found = "short"

(* Mutant: the server insists on creating the object.                      *)
ServerOpenExcl ==
  /\ spc[New] = "open"
  /\ IF name # 0
     THEN spc' = [spc EXCEPT ![New] = "error"] /\ UNCHANGED <<names, sfile>>
     ELSE /\ Open
          /\ sfile' = [sfile EXCEPT ![New] = Opened]
          /\ spc' = [spc EXCEPT ![New] = "extend"]
  /\ UNCHANGED <<setting, shared, now, client>>

ServerOpen ==
  /\ spc[New] = "open"
  /\ ~Refused
  /\ Open
  /\ sfile' = [sfile EXCEPT ![New] = Opened]
  /\ spc' = [spc EXCEPT ![New] = IF method = "shm" THEN "wait" ELSE "extend"]
  /\ UNCHANGED <<setting, shared, now, client>>

ServerRefused ==
  /\ spc[New] = "open"
  /\ Refused
  /\ spc' = [spc EXCEPT ![New] = "error"]
  /\ UNCHANGED <<setting, names, shared, sfile, now, client>>

(* make_space writes a byte behind the ones used, and mmap.                *)
ServerExtend ==
  /\ spc[New] = "extend"
  /\ long' = [long EXCEPT ![sfile[New]] = 1]
  /\ spc' = [spc EXCEPT ![New] = "wait"]
  /\ UNCHANGED <<setting, name, made, shared, sfile, now, client>>

(* Mutant: the server does not wait for a request.                         *)
ServerWaitNot(s) ==
  /\ spc[s] = "wait"
  /\ spc' = [spc EXCEPT ![s] = "now"]
  /\ UNCHANGED <<setting, names, shared, sfile, now, client>>

(* shm_wait or mmap_wait of the server sees 's'.                           *)
ServerWait(s) ==
  /\ spc[s] = "wait"
  /\ guard[sfile[s]] = "s"
  /\ spc' = [spc EXCEPT ![s] = "now"]
  /\ UNCHANGED <<setting, names, shared, sfile, now, client>>

ServerNow(s) ==
  /\ spc[s] = "now"
  /\ now' = [now EXCEPT ![s] = requests]
  /\ spc' = [spc EXCEPT ![s] = "write"]
  /\ UNCHANGED <<setting, names, shared, sfile, client>>

(* Mutant: the guard is handed over before the timestamp is in place.      *)
ServerWriteLate(s) ==
  /\ spc[s] = "write"
  /\ guard' = [guard EXCEPT ![sfile[s]] = "c"]
  /\ spc' = [spc EXCEPT ![s] = "notify"]
  /\ UNCHANGED <<setting, names, stamp, sfile, now, client>>

(* The timestamp goes behind the guard.                                    *)
ServerWrite(s) ==
  /\ spc[s] = "write"
  /\ stamp' = [stamp EXCEPT ![sfile[s]] = now[s]]
  /\ spc' = [spc EXCEPT ![s] = "notify"]
  /\ UNCHANGED <<setting, names, guard, sfile, now, client>>

(* Mutant: the server goes on without handing the guard back.              *)
ServerNotifyLost(s) ==
  /\ spc[s] = "notify"
  /\ spc' = [spc EXCEPT ![s] = "wait"]
  /\ UNCHANGED <<setting, names, shared, sfile, now, client>>

(* shm_notify or mmap_notify of the server; the loop starts over.          *)
ServerNotify(s) ==
  /\ spc[s] = "notify"
  /\ guard' = [guard EXCEPT ![sfile[s]] = "c"]
  /\ spc' = [spc EXCEPT ![s] = "wait"]
  /\ UNCHANGED <<setting, names, stamp, sfile, now, client>>

Loop(s) == ServerWait(s) \/ ServerNow(s) \/ ServerWrite(s) \/ ServerNotify(s)

Setup == ServerOpen \/ ServerRefused \/ ServerExtend

-----------------------------------------------------------------------------
ClientOpen ==
  /\ cpc = "open"
  /\ ~Refused
  /\ Open
  /\ cfile' = Opened
  /\ cpc' = "check"
  /\ UNCHANGED <<setting, shared, server, cnt, single_start, requests>>

ClientRefused ==
  /\ cpc = "open"
  /\ Refused
  /\ cpc' = "error"
  /\ UNCHANGED <<setting, names, shared, server, cfile, cnt, single_start, requests>>

(* The head of the client's loop: gettimeofday ends it at any time.        *)
ClientTimeUp ==
  /\ cpc = "check"
  /\ cpc' = "evaluate"
  /\ UNCHANGED <<setting, names, shared, server, cfile, cnt, single_start, requests>>

ClientContinue ==
  /\ cpc = "check"
  /\ cnt < MaxRounds
  /\ cpc' = "notify"
  /\ UNCHANGED <<setting, names, shared, server, cfile, cnt, single_start, requests>>

ClientNotify ==
  /\ cpc = "notify"
  /\ long[cfile] = 1
  /\ guard' = [guard EXCEPT ![cfile] = "s"]
  /\ requests' = requests + 1
  /\ cpc' = "wait"
  /\ UNCHANGED <<setting, names, stamp, server, cfile, cnt, single_start>>

(* A store past the end of the file: SIGBUS.                               *)
ClientFaults ==
  /\ cpc = "notify"
  /\ long[cfile] = 0
  /\ cpc' = "killed"
  /\ UNCHANGED <<setting, names, shared, server, cfile, cnt, single_start, requests>>

(* Mutant: the client reads without waiting for 'c'.                       *)
ClientWaitNot ==
  /\ cpc = "wait"
  /\ cpc' = "read"
  /\ UNCHANGED <<setting, names, shared, server, cfile, cnt, single_start, requests>>

(* shm_wait or mmap_wait of the client sees 'c'.                           *)
ClientWait ==
  /\ cpc = "wait"
  /\ guard[cfile] = "c"
  /\ cpc' = "read"
  /\ UNCHANGED <<setting, names, shared, server, cfile, cnt, single_start, requests>>

ClientRead ==
  /\ cpc = "read"
  /\ single_start' = stamp[cfile]
  /\ cpc' = "benchmark"
  /\ UNCHANGED <<setting, names, shared, server, cfile, cnt, requests>>

(* benchmark(bench) and cnt++ : bench->count and cnt advance together.     *)
ClientBenchmark ==
  /\ cpc = "benchmark"
  /\ cnt' = cnt + 1
  /\ cpc' = "check"
  /\ UNCHANGED <<setting, names, shared, server, cfile, single_start, requests>>

(* evaluate, remove("/tmp/mmap") in the one benchmark, and exit.           *)
ClientEvaluate ==
  /\ cpc = "evaluate"
  /\ cpc' = "done"
  /\ name' = IF method = "mmap" THEN 0 ELSE name
  /\ UNCHANGED <<setting, made, long, shared, server, cfile, cnt, single_start, requests>>

Client ==
  \/ ClientOpen \/ ClientRefused \/ ClientTimeUp \/ ClientContinue
  \/ ClientNotify \/ ClientFaults \/ ClientWait \/ ClientRead
  \/ ClientBenchmark \/ ClientEvaluate

Next == Client \/ Setup \/ \E s \in Servers : Loop(s)

Spec == Init /\ [][Next]_vars

(* Both processes spin: neither ever blocks, so the scheduler runs each.   *)
Fairness ==
  WF_vars(Client) /\ WF_vars(Setup) /\ \A s \in Servers : WF_vars(Loop(s))

FairSpec == Spec /\ Fairness

-----------------------------------------------------------------------------
(* The values each variable holds.                                         *)
TypeOK ==
  /\ method \in {"shm", "mmap"} /\ found \in Found /\ old \subseteq Old
  /\ made \in 0..2 /\ name \in 0..made
  /\ long \in [Objects -> {0, 1}]
  /\ guard \in [Objects -> {"zero", "s", "c"}]
  /\ stamp \in [Objects -> Nat \cup {NoStamp}]
  /\ sfile \in [Servers -> 0..2] /\ cfile \in 0..2
  /\ spc \in [Servers -> {"gone", "open", "error", "extend", "wait", "now",
                          "write", "notify"}]
  /\ now \in [Servers -> Nat \cup {NoStamp}]
  /\ cpc \in {"open", "error", "check", "notify", "killed", "wait", "read",
              "benchmark", "evaluate", "done"}
  /\ cnt \in Nat
  /\ single_start \in Nat \cup {NoStamp}
  /\ requests \in Nat

(* No earlier run left a server or an unanswered request behind.           *)
Clean == old = {} /\ found # "s"

(* The timestamp benchmark() subtracts from the clock was taken for this   *)
(* message, after the client's last request, if the run is a clean one.    *)
Fresh == Clean /\ cpc = "benchmark" => single_start = requests

(* No server writes the timestamp while the client reads it, in a clean    *)
(* run: outside the guard nothing keeps the two memcpy calls apart.        *)
NoRace == Clean /\ cpc = "read" => \A s \in Servers : spc[s] # "write"

(* A client that asks is answered: guard never keeps it spinning for ever, *)
(* whoever came first and whatever earlier runs left.                      *)
Answered == (cpc = "wait") ~> (cpc = "read")

(* Who has opened what: a second object is made only after the client has  *)
(* removed the name of the first, and only by a server that comes then.    *)
Placed ==
  /\ \A s \in Servers :
       spc[s] \notin {"gone", "open", "error"} => sfile[s] \in Objects
  /\ \A s \in Old \ old : spc[s] = "gone"
  /\ cpc \notin {"open", "error"} => cfile \in Objects
  /\ spc[New] = "open" => made <= 1
  /\ cpc # "done" => name = made /\ made <= 1

(* As long as the client runs, its server has the same object open as the  *)
(* client, whichever of them created it.                                   *)
Together ==
  /\ cfile # 0 /\ cpc # "done" => name = cfile
  /\ sfile[New] # 0 /\ cpc # "done" => name = sfile[New]

(* Whose turn it is: in a clean run, the guard and the two program         *)
(* counters move in step on the one object.                                *)
Turns ==
  /\ TypeOK /\ Placed /\ Together
  /\ Clean =>
       /\ cpc # "wait" => spc[New] \notin {"now", "write", "notify"}
       /\ \A f \in Objects :
            guard[f] = "s" => cpc = "wait" /\ f = cfile
       /\ spc[New] \in {"now", "write", "notify"} => guard[cfile] = "s"
       /\ spc[New] = "write" => now[New] = requests
       /\ spc[New] = "notify" => stamp[cfile] = requests
       /\ cpc = "wait" /\ guard[cfile] # "s" =>
            guard[cfile] = "c" /\ stamp[cfile] = requests
       /\ cpc = "read" => stamp[cfile] = requests
       /\ cpc = "benchmark" => single_start = requests

(* A client that is quicker than its server dies of its first store into   *)
(* the file.  The file stays, and the server spins on it for ever: that is *)
(* what the next run finds.  A segment that is too short, left by a run    *)
(* with a smaller -s, turns both processes away.                           *)
Stranded ==
  /\ (cpc = "killed") ~> [](spc[New] = "wait" /\ name = sfile[New])
  /\ Refused => <>[](spc[New] = "error" /\ cpc = "error")
=============================================================================
