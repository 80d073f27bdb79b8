--------------------------------- MODULE Mq ---------------------------------
(***************************************************************************)
(* The message queue benchmark (source/mq).  The server creates the queue, *)
(* tells the client so with one SIGUSR2 (server_once, client_once) and     *)
(* answers each CLIENT_MESSAGE with a SERVER_MESSAGE that holds its clock. *)
(*                                                                         *)
(* The queue is found by its key and nothing removes it: the server's loop *)
(* is endless.  A later run finds the servers of earlier ones still        *)
(* receiving, each with the -s it was started with, and a reply for each   *)
(* client that was killed while it waited; or, if the server was killed    *)
(* before its client (results/bench.sh), no server but a request.  Earlier *)
(* servers are in another process group and get no signals.                *)
(*                                                                         *)
(* now() is abstracted to the number of requests made in this run, so that *)
(* a reply found at the start holds a number below 1.  The payload of a    *)
(* request is abstracted to its length.                                    *)
(***************************************************************************)
EXTENDS Integers, Sequences, SequencesExt, FiniteSetsExt

CONSTANTS
  OldServers, \* servers of earlier runs
  Size,       \* args->size of this run
  OldSizes,   \* what args->size may have been in earlier runs
  Sleeps,     \* whether usleep(1000) outlasts the other side's set-up
  Stales,     \* how many replies an earlier run may have left in the queue
  Capacity,   \* how many messages the queue holds (msg_qbytes)
  MaxRounds   \* bound: round trips before the client's time is up

ASSUME MqAssumption ==
  /\ "server" \notin OldServers
  /\ Sleeps \subseteq BOOLEAN
  /\ Size \in Nat \ {0} /\ OldSizes \subseteq Nat \ {0}
  /\ Capacity \in Nat /\ MaxRounds \in Nat
  /\ Stales \subseteq 0..Capacity

VARIABLES
  sleepEnough, stale, \* the setting: the replies found,
  unserved,     \* the length of the request found, 0 if there is none,
  attached,     \* and the old servers that still run
  size,         \* per server: its args->size
  exists,       \* msgget with the key finds a queue
  queue,        \* the messages in it
  spc, stamp,   \* per server: where it is, its timestamp
  cpc, pending, \* the client: where it is, whether SIGUSR2 is pending
  single_start, \* bench.single_start
  cnt,          \* cnt of the client's main
  requests      \* history: how often the client has sent a message

setting == <<sleepEnough, stale, unserved, attached, size>>
client  == <<cpc, pending, single_start, cnt, requests>>
server  == <<spc, stamp>>
vars    == <<setting, exists, queue, server, client>>

CLIENT_MESSAGE == "client"
SERVER_MESSAGE == "server"

(* data is the length of a request, the timestamp in a reply.              *)
Message(type, data) == [type |-> type, data |-> data]

Servers == {"server"} \cup OldServers

(* The first message of a type, and the queue without it.                  *)
Has(type) == \E i \in DOMAIN queue : queue[i].type = type
First(type) == Min({i \in DOMAIN queue : queue[i].type = type})

(* Where the client's SIGUSR2 stays pending; where it kills the client; the*)
(* parent's handler swallows it before exec.                               *)
Blocks == cpc \notin {"forked", "default", "handler", "killed", "error", "done"}
Kills  == cpc \in {"default", "handler"}

(* How many messages the run finds in the queue.                           *)
Found == stale + (IF unserved # 0 THEN 1 ELSE 0)

(* Past the forks.  A queue exists if an earlier run left something, and a *)
(* server of an earlier run would have taken the request.                  *)
Init ==
  /\ sleepEnough \in Sleeps /\ stale \in Stales
  /\ unserved \in {0} \cup OldSizes
  /\ Found <= Capacity
  /\ attached \in SUBSET OldServers
  /\ unserved # 0 => attached = {}
  /\ size \in [Servers -> {Size} \cup OldSizes]
  /\ \A s \in Servers \ attached : size[s] = Size
  /\ exists \in BOOLEAN
  /\ Found > 0 \/ attached # {} => exists
  /\ queue = [i \in 1..Found |-> IF i <= stale
                                 THEN Message(SERVER_MESSAGE, i - stale)
                                 ELSE Message(CLIENT_MESSAGE, unserved)]
  /\ spc = [s \in Servers |-> IF s = "server" THEN "forked"
                              ELSE IF s \in attached THEN "msgrcv" ELSE "none"]
  /\ stamp = [s \in Servers |-> 0]
  /\ cpc = "forked" /\ pending = 0
  /\ single_start = 0 /\ cnt = 0 /\ requests = 0

-----------------------------------------------------------------------------
(* execv, parse_arguments, then msgget with IPC_CREAT.                     *)
ServerMsgget ==
  /\ spc["server"] = "forked"
  /\ exists' = TRUE
  /\ spc' = [spc EXCEPT !["server"] = "usleep"]
  /\ UNCHANGED <<setting, queue, stamp, client>>

(* Mutant: server_once does not sleep after its set-up.                    *)
ServerUsleepNot ==
  /\ spc["server"] = "usleep"
  /\ spc' = [spc EXCEPT !["server"] = "notify"]
  /\ UNCHANGED <<setting, exists, queue, stamp, client>>

(* server_once: setup_server_signals with its usleep(1000).                *)
ServerUsleep ==
  /\ spc["server"] = "usleep"
  /\ sleepEnough => Blocks
  /\ spc' = [spc EXCEPT !["server"] = "notify"]
  /\ UNCHANGED <<setting, exists, queue, stamp, client>>

(* server_once: notify_client, the only signal of the program.             *)
ServerNotify ==
  /\ spc["server"] = "notify"
  /\ spc' = [spc EXCEPT !["server"] = "msgrcv"]
  /\ cpc' = IF Kills THEN "killed" ELSE cpc
  /\ pending' = IF Blocks THEN 1 ELSE pending
  /\ UNCHANGED <<setting, exists, queue, stamp, single_start, cnt, requests>>

(* msgrcv of a CLIENT_MESSAGE with room for args->size bytes.  A longer    *)
(* message stays in the queue (E2BIG), a shorter one is taken; the server  *)
(* throws either way.                                                      *)
ServerReceive(s) ==
  /\ spc[s] = "msgrcv"
  /\ Has(CLIENT_MESSAGE)
  /\ LET first == First(CLIENT_MESSAGE)
         length == queue[first].data
     IN  /\ queue' = IF length > size[s] THEN queue ELSE RemoveAt(queue, first)
         /\ spc' = [spc EXCEPT ![s] = IF length > size[s] THEN "toobig"
                                     ELSE IF length < size[s] THEN "short"
                                     ELSE "now"]
  /\ UNCHANGED <<setting, exists, stamp, client>>

ServerNow(s) ==
  /\ spc[s] = "now"
  /\ stamp' = [stamp EXCEPT ![s] = requests]
  /\ spc' = [spc EXCEPT ![s] = "msgsnd"]
  /\ UNCHANGED <<setting, exists, queue, client>>

(* Mutant: the type of the message received is sent back.                  *)
ServerSendWrongType(s) ==
  /\ spc[s] = "msgsnd"
  /\ Len(queue) < Capacity
  /\ queue' = Append(queue, Message(CLIENT_MESSAGE, stamp[s]))
  /\ spc' = [spc EXCEPT ![s] = "msgrcv"]
  /\ UNCHANGED <<setting, exists, stamp, client>>

(* msgsnd with IPC_NOWAIT; the server throws if there is no room.          *)
ServerSend(s) ==
  /\ spc[s] = "msgsnd"
  /\ IF Len(queue) < Capacity
     THEN /\ queue' = Append(queue, Message(SERVER_MESSAGE, stamp[s]))
          /\ spc' = [spc EXCEPT ![s] = "msgrcv"]
     ELSE /\ spc' = [spc EXCEPT ![s] = "full"]
          /\ UNCHANGED queue
  /\ UNCHANGED <<setting, exists, stamp, client>>

Loop(s) == ServerReceive(s) \/ ServerNow(s) \/ ServerSend(s)

Server == ServerMsgget \/ ServerUsleep \/ ServerNotify \/ Loop("server")

-----------------------------------------------------------------------------
(* execv, then client_once: handler, mask, and usleep(1000).               *)
ClientSetup ==
  /\ \/ cpc = "forked" /\ cpc' = "default"
     \/ cpc = "default" /\ cpc' = "handler"
     \/ cpc = "handler" /\ cpc' = "usleep"
     \/ cpc = "usleep" /\ cpc' = "sigwait"
  /\ UNCHANGED <<setting, exists, queue, server, pending, single_start, cnt, requests>>

(* client_once: wait_for_signal.                                           *)
ClientSigwait ==
  /\ cpc = "sigwait"
  /\ pending = 1
  /\ pending' = 0
  /\ cpc' = "msgget"
  /\ UNCHANGED <<setting, exists, queue, server, single_start, cnt, requests>>

(* msgget without IPC_CREAT.                                               *)
ClientMsgget ==
  /\ cpc = "msgget"
  /\ cpc' = IF exists THEN "check" ELSE "error"
  /\ UNCHANGED <<setting, exists, queue, server, pending, single_start, cnt, requests>>

(* The head of the loop (see TimedClient); evaluate and exit.              *)
ClientCheck ==
  /\ cpc = "check"
  /\ \/ cnt < MaxRounds /\ cpc' = "msgsnd"
     \/ cpc' = "done"
  /\ UNCHANGED <<setting, exists, queue, server, pending, single_start, cnt, requests>>

(* msgsnd, which waits for room.                                           *)
ClientSend ==
  /\ cpc = "msgsnd"
  /\ Len(queue) < Capacity
  /\ queue' = Append(queue, Message(CLIENT_MESSAGE, Size))
  /\ requests' = requests + 1
  /\ cpc' = "msgrcv"
  /\ UNCHANGED <<setting, exists, server, pending, single_start, cnt>>

(* Mutant: any message is received, of whatever type.                      *)
ClientReceiveAny ==
  /\ cpc = "msgrcv"
  /\ queue # << >>
  /\ single_start' = Head(queue).data
  /\ queue' = Tail(queue)
  /\ cpc' = "benchmark"
  /\ UNCHANGED <<setting, exists, server, pending, cnt, requests>>

(* Mutant: msgrcv with IPC_NOWAIT, its failure not looked at.              *)
ClientReceiveNowait ==
  /\ cpc = "msgrcv"
  /\ ~Has(SERVER_MESSAGE)
  /\ cpc' = "benchmark"
  /\ UNCHANGED <<setting, exists, queue, server, pending, single_start, cnt, requests>>

(* msgrcv of a SERVER_MESSAGE.                                             *)
ClientReceive ==
  /\ cpc = "msgrcv"
  /\ Has(SERVER_MESSAGE)
  /\ single_start' = queue[First(SERVER_MESSAGE)].data
  /\ queue' = RemoveAt(queue, First(SERVER_MESSAGE))
  /\ cpc' = "benchmark"
  /\ UNCHANGED <<setting, exists, server, pending, cnt, requests>>

(* benchmark(bench), cnt++.                                                *)
ClientBenchmark ==
  /\ cpc = "benchmark"
  /\ cnt' = cnt + 1
  /\ cpc' = "check"
  /\ UNCHANGED <<setting, exists, queue, server, pending, single_start, requests>>

Client ==
  \/ ClientSetup \/ ClientSigwait \/ ClientMsgget
  \/ ClientCheck \/ ClientSend \/ ClientReceive \/ ClientBenchmark

Next == Client \/ Server \/ \E s \in OldServers : Loop(s)

Spec == Init /\ [][Next]_vars

(* A process that can go on is scheduled, and a sleep ends.                *)
FairSpec ==
  /\ Spec /\ WF_vars(Client) /\ WF_vars(Server)
  /\ \A s \in OldServers : WF_vars(Loop(s))

-----------------------------------------------------------------------------
(* The values each variable holds.                                         *)
TypeOK ==
  /\ sleepEnough \in BOOLEAN /\ exists \in BOOLEAN
  /\ stale \in Nat /\ unserved \in Nat
  /\ attached \subseteq OldServers /\ size \in [Servers -> Nat]
  /\ queue \in Seq([type : {CLIENT_MESSAGE, SERVER_MESSAGE}, data : Int])
  /\ spc \in [Servers -> {"none", "forked", "usleep", "notify", "msgrcv", "now",
                          "msgsnd", "toobig", "short", "full"}]
  /\ stamp \in [Servers -> Int]
  /\ cpc \in {"forked", "default", "handler", "usleep", "sigwait", "msgget",
              "check", "msgsnd", "msgrcv", "benchmark", "killed", "error", "done"}
  /\ pending \in {0, 1}
  /\ single_start \in Int /\ cnt \in Nat /\ requests \in Nat

(* Nothing goes wrong in the handshake if the server's sleep outlasts the  *)
(* client's set-up: the signal does not kill the client, and when it comes *)
(* the queue is there.  The client never finds no queue.                   *)
Handshake ==
  /\ cpc = "killed" => ~sleepEnough
  /\ cpc \in {"msgget", "check", "msgsnd", "msgrcv", "benchmark"} => exists
  /\ cpc # "error"

(* Every request is in the queue, with a server, lost with a server that   *)
(* threw, or answered: at any time there are as many of them as the client *)
(* waits for, plus what was found.  A server throws only for a request     *)
(* that is not as long as its own -s, or if the one request that was found *)
(* filled the queue; a queue full of replies is never written to.          *)
Backlog ==
  /\ TypeOK
  /\ Len(queue) + Cardinality({s \in Servers :
                                 spc[s] \in {"now", "msgsnd", "short", "full"}})
       = Found + (IF cpc = "msgrcv" THEN 1 ELSE 0)
  /\ \A s \in Servers :
       /\ spc[s] = "toobig" => size[s] < Size \/ size[s] < unserved
       /\ spc[s] = "short" => size[s] > Size \/ unserved \in 1..(size[s] - 1)
       /\ spc[s] = "full" => unserved # 0 /\ Found = Capacity
  /\ stale = Capacity => requests = 0

(* With an empty queue at the start every measurement begins at its own    *)
(* request, whoever answers.  Replies that were found shift all later ones:*)
(* the first measurements use them, and with one server a measurement then *)
(* begins up to Found requests too early, to the end of the run.           *)
Lag ==
  cpc = "benchmark" =>
    /\ Found = 0 => single_start = requests
    /\ requests <= stale => single_start = requests - stale
    /\ attached = {} => single_start \in (requests - Found)..requests

(* What was found takes nothing from the client: no old server waits for   *)
(* longer requests than this run's, and the request that was found has     *)
(* this run's length and left room for an answer.                          *)
Harmless ==
  /\ \A s \in attached : size[s] <= Size
  /\ unserved # 0 => unserved = Size /\ Found < Capacity

(* The client gets the queue if the server's sleep was long enough.  If    *)
(* what was found is harmless, every request then brings a reply, an old   *)
(* one or its own, although old servers with a smaller -s die of it.       *)
Answered ==
  /\ sleepEnough => <>(cpc = "check")
  /\ Harmless => (cpc = "msgrcv" ~> cpc = "benchmark")
=============================================================================
