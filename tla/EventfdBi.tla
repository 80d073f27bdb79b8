----------------------------- MODULE EventfdBi -----------------------------
(***************************************************************************)
(* The two-way eventfd benchmark (source/eventfd/eventfd-bi.c): parent     *)
(* (server) and forked child (client) bounce a token through ONE eventfd.  *)
(* The client writes SERVER_TOKEN and waits for CLIENT_TOKEN, the server   *)
(* the other way round.  read() takes the whole counter, so either process *)
(* may take the token meant for the other; eventfd_wait then writes it     *)
(* back and reads again.  write() ADDS to the counter: two tokens in it    *)
(* would be a sum that nobody waits for.                                   *)
(***************************************************************************)
EXTENDS Integers

CONSTANT Count  \* args->count, the same in both processes after fork

ASSUME CountAssumption == Count \in Nat \ {0}

VARIABLES
  counter,  \* the 64-bit value stored in the eventfd
  pc,       \* where each process is
  stored,   \* the local of each process' eventfd_wait
  left,     \* args->count of the child, counted down
  message,  \* message of server_communicate
  measured  \* bench.count

vars == <<counter, pc, stored, left, message, measured>>

SERVER_TOKEN == 1
CLIENT_TOKEN == 2

Procs == {"client", "server"}

(* The token eventfd_wait is called with, and where it returns to.         *)
Wanted(p) == IF p = "client" THEN CLIENT_TOKEN ELSE SERVER_TOKEN
Waited(p) == IF p = "client" THEN "next" ELSE "notify"

(* After fork: the child starts its loop, the parent sets up bench.        *)
Init ==
  /\ counter = 0
  /\ pc = [p \in Procs |-> "loop"]
  /\ stored = [p \in Procs |-> 0]
  /\ left = Count
  /\ message = 0
  /\ measured = 0

-----------------------------------------------------------------------------
(* Mutant: whatever was read is taken for the wanted token.                *)
ReadAny(p) ==
  /\ pc[p] = "read"
  /\ counter > 0
  /\ stored' = [stored EXCEPT ![p] = counter]
  /\ counter' = 0
  /\ pc' = [pc EXCEPT ![p] = Waited(p)]
  /\ UNCHANGED <<left, message, measured>>

(* read() in eventfd_wait: blocks on 0, else takes the value and resets it.*)
Read(p) ==
  /\ pc[p] = "read"
  /\ counter > 0
  /\ stored' = [stored EXCEPT ![p] = counter]
  /\ counter' = 0
  /\ pc' = [pc EXCEPT ![p] = IF counter = Wanted(p) THEN Waited(p)
                             ELSE "writeback"]
  /\ UNCHANGED <<left, message, measured>>

(* Mutant: a token that was not wanted is dropped.                         *)
WriteBackNot(p) ==
  /\ pc[p] = "writeback"
  /\ pc' = [pc EXCEPT ![p] = "read"]
  /\ UNCHANGED <<counter, stored, left, message, measured>>

(* The write() that puts back a token meant for the other process.         *)
WriteBack(p) ==
  /\ pc[p] = "writeback"
  /\ counter' = counter + stored[p]
  /\ pc' = [pc EXCEPT ![p] = "read"]
  /\ UNCHANGED <<stored, left, message, measured>>

(* The head of the client's loop and eventfd_notify.                       *)
ClientNotify ==
  /\ pc["client"] = "loop"
  /\ left > 0
  /\ counter' = counter + SERVER_TOKEN
  /\ pc' = [pc EXCEPT !["client"] = "read"]
  /\ UNCHANGED <<stored, left, message, measured>>

(* --args->count.                                                          *)
ClientNext ==
  /\ pc["client"] = "next"
  /\ left' = left - 1
  /\ pc' = [pc EXCEPT !["client"] = "loop"]
  /\ UNCHANGED <<counter, stored, message, measured>>

(* The loop ends; close and exit.                                          *)
ClientExit ==
  /\ pc["client"] = "loop"
  /\ left <= 0
  /\ pc' = [pc EXCEPT !["client"] = "done"]
  /\ UNCHANGED <<counter, stored, left, message, measured>>

(* The head of the server's loop: bench.single_start = now().              *)
ServerStart ==
  /\ pc["server"] = "loop"
  /\ message < Count
  /\ pc' = [pc EXCEPT !["server"] = "read"]
  /\ UNCHANGED <<counter, stored, left, message, measured>>

ServerNotify ==
  /\ pc["server"] = "notify"
  /\ counter' = counter + CLIENT_TOKEN
  /\ pc' = [pc EXCEPT !["server"] = "benchmark"]
  /\ UNCHANGED <<stored, left, message, measured>>

(* benchmark(&bench) and ++message.                                        *)
ServerBenchmark ==
  /\ pc["server"] = "benchmark"
  /\ measured' = measured + 1
  /\ message' = message + 1
  /\ pc' = [pc EXCEPT !["server"] = "loop"]
  /\ UNCHANGED <<counter, stored, left>>

(* Mutant: the last message is not waited for.                             *)
ServerEvaluateEarly ==
  /\ pc["server"] = "loop"
  /\ message >= Count - 1
  /\ pc' = [pc EXCEPT !["server"] = "done"]
  /\ UNCHANGED <<counter, stored, left, message, measured>>

(* The loop ends; evaluate and exit.                                       *)
ServerEvaluate ==
  /\ pc["server"] = "loop"
  /\ message >= Count
  /\ pc' = [pc EXCEPT !["server"] = "done"]
  /\ UNCHANGED <<counter, stored, left, message, measured>>

Wait(p) == Read(p) \/ WriteBack(p)

Client == Wait("client") \/ ClientNotify \/ ClientNext \/ ClientExit

Server ==
  \/ Wait("server") \/ ServerStart \/ ServerNotify
  \/ ServerBenchmark \/ ServerEvaluate

Next == Client \/ Server

Spec == Init /\ [][Next]_vars

(* The scheduler runs a process that can go on.  Nothing stops a process   *)
(* from being the first to read its own token again and again.             *)
FairSpec == Spec /\ WF_vars(Client) /\ WF_vars(Server)

-----------------------------------------------------------------------------
(* The values each variable holds.                                         *)
TypeOK ==
  /\ counter \in Nat
  /\ pc \in [Procs -> {"loop", "read", "writeback", "notify", "next",
                       "benchmark", "done"}]
  /\ pc["client"] \notin {"notify", "benchmark"} /\ pc["server"] # "next"
  /\ stored \in [Procs -> Nat]
  /\ left \in Nat /\ message \in Nat /\ measured \in Nat

(* The server owes an answer: it has taken SERVER_TOKEN.                   *)
Owed == pc["server"] = "notify"

(* Token t is in the counter, or with a process about to write it back.    *)
TokenIs(t) ==
  \/ counter = t
  \/ \E p \in Procs : pc[p] = "writeback" /\ stored[p] = t

NoToken == counter = 0 /\ \A p \in Procs : pc[p] # "writeback"

(* At most one token exists: a token in the counter is in nobody's hands,  *)
(* and no two processes hold one.  So the counter is never a sum of tokens,*)
(* which no eventfd_wait could ever match.                                 *)
OneToken ==
  /\ counter \in {0, SERVER_TOKEN, CLIENT_TOKEN}
  /\ counter # 0 => \A p \in Procs : pc[p] # "writeback"
  /\ ~(pc["client"] = "writeback" /\ pc["server"] = "writeback")

(* The round trips the server has answered, and those the client has seen  *)
(* answered.                                                               *)
Answered == message + (IF pc["server"] = "benchmark" THEN 1 ELSE 0)
Seen     == Count - left

(* Rounds agree: while the client waits, its request is under way or with  *)
(* the server, or the answer is under way, and the server's count says     *)
(* which; while the client does not wait there is no token.                *)
Lockstep ==
  /\ measured = message
  /\ message <= Count
  /\ pc["server"] \notin {"loop", "done"} => message < Count
  /\ pc["client"] \notin {"loop", "done"} => left > 0
  /\ pc["client"] \in {"read", "writeback"} =>
       \/ Answered = Seen /\ Owed /\ NoToken
       \/ Answered = Seen /\ ~Owed /\ TokenIs(SERVER_TOKEN)
       \/ Answered = Seen + 1 /\ ~Owed /\ TokenIs(CLIENT_TOKEN)
  /\ pc["client"] = "next" => Answered = Seen + 1 /\ ~Owed /\ NoToken
  /\ pc["client"] \in {"loop", "done"} => Answered = Seen /\ ~Owed /\ NoToken

(* A server that evaluates has measured every message, and the token it    *)
(* leaves behind is at most the client's last answer.                      *)
Complete ==
  pc["server"] = "done" => measured = Count /\ counter # SERVER_TOKEN

(* What every step preserves.                                              *)
TokenInvariant == TypeOK /\ OneToken /\ Lockstep

(* The benchmark ends, unless a process keeps taking the token that is not *)
(* for it: no deadlock, and no other way to run for ever.                  *)
Progress ==
  \/ <>(\A p \in Procs : pc[p] = "done")
  \/ []<><<\E p \in Procs : WriteBack(p)>>_vars
=============================================================================
