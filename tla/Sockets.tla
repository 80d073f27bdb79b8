------------------------------ MODULE Sockets ------------------------------
(***************************************************************************)
(* The TCP and the domain socket benchmark (source/tcp, source/domain) on  *)
(* common/sockets.c: the client sends a message of -s bytes, the server    *)
(* receives it and sends back eight bytes, a timestamp.                    *)
(*                                                                         *)
(* The domain client waits for one signal that says the server listens.    *)
(* The TCP client does not wait at all, and neither TCP process notices    *)
(* that connect, bind or listen failed: the code compares with 1.  So a    *)
(* TCP server that nobody reached waits in accept for ever, and the next   *)
(* run finds it there, on the port.                                        *)
(*                                                                         *)
(* Lengths are counted in units of eight bytes.  A message arrives in      *)
(* pieces of Segment units at most.  now() is abstracted to the number of  *)
(* requests the client has made.                                           *)
(***************************************************************************)
EXTENDS Integers

CONSTANTS
  Methods,   \* the benchmarks run: a subset of {"tcp", "domain"}
  Sizes,     \* the values -s is given, in units
  Segment,   \* the most that arrives at once
  MaxRounds  \* bound: round trips before the client's time is up

ASSUME SocketsAssumption ==
  /\ Methods \subseteq {"tcp", "domain"}
  /\ Sizes \subseteq Nat \ {0}
  /\ Segment \in Nat \ {0} /\ MaxRounds \in Nat

VARIABLES
  method, busy, size, \* the setting: -b and -s
  sleepEnough,        \* usleep(1000) outlasts the other side's set-up
  listener,           \* the server on the port or path, or "none"
  bound,              \* whether the new server's bind did what it should
  conn,               \* the server the client is connected to, or "none"
  arrived, flight,    \* units the server can read, units on their way
  reply,              \* the timestamp the client can read, or NoStamp
  spc, timestamp,     \* per server
  errno,              \* per process: whether it is EAGAIN
  cpc, pending,       \* the client, and whether its SIGUSR2 is pending
  single_start, cnt,  \* of the client's main
  requests,           \* history: messages sent
  lost                \* history: the server dropped a part of a message

setting == <<method, busy, size, sleepEnough>>
port    == <<listener, bound, conn>>
wire    == <<arrived, flight, reply>>
server  == <<spc, errno, timestamp>>
client  == <<cpc, pending, single_start, cnt, requests>>
vars    == <<setting, port, wire, server, client, lost>>

(* The server of this run, and one of an earlier run.                      *)
Servers == {"new", "old"}
Processes == Servers \cup {"client"}

NoStamp == -1

Smaller(a, b) == IF a < b THEN a ELSE b

(* An old server may be left in accept.  Only TCP's matters: the domain    *)
(* server starts with taking its path away from any other.                 *)
Init ==
  /\ method \in Methods /\ size \in Sizes
  /\ busy \in BOOLEAN
  /\ sleepEnough \in (IF method = "domain" THEN BOOLEAN ELSE {TRUE})
  /\ listener \in (IF method = "tcp" THEN {"none", "old"} ELSE {"none"})
  /\ bound = FALSE /\ conn = "none"
  /\ arrived = 0 /\ flight = 0 /\ reply = NoStamp
  /\ spc = [s \in Servers |-> IF s = "new" THEN "bind"
                              ELSE IF s = listener THEN "accept" ELSE "gone"]
  /\ errno = [p \in Processes |-> "other"]
  /\ timestamp = [s \in Servers |-> NoStamp]
  /\ cpc = (IF method = "tcp" THEN "connect" ELSE "forked")
  /\ pending = 0 /\ single_start = NoStamp /\ cnt = 0 /\ requests = 0
  /\ lost = FALSE

(* The client's server is at l.                                            *)
PeerAt(l) == \E s \in Servers : conn = s /\ spc[s] = l

SGoto(s, l) == spc' = [spc EXCEPT ![s] = l]

-----------------------------------------------------------------------------
(* socket, SO_REUSEADDR and bind: it fails while somebody listens on the   *)
(* port, which is not noticed.  The domain server removes the path first.  *)
ServerBind ==
  /\ spc["new"] = "bind"
  /\ bound' = (method = "domain" \/ listener = "none")
  /\ SGoto("new", "listen")
  /\ UNCHANGED <<setting, listener, conn, wire, errno, timestamp, client, lost>>

(* listen: on the address bound, or on a port of the kernel's choice.      *)
ServerListen ==
  /\ spc["new"] = "listen"
  /\ listener' = IF bound THEN "new" ELSE listener
  /\ SGoto("new", IF method = "domain" THEN "once" ELSE "accept")
  /\ UNCHANGED <<setting, bound, conn, wire, errno, timestamp, client, lost>>

(* server_once(NOTIFY): kill(0, SIGUSR2) kills a client between exec and   *)
(* its sigprocmask; before exec the parent's handler swallows it.          *)
ServerOnce ==
  /\ spc["new"] = "once"
  /\ sleepEnough => cpc = "sigwait"
  /\ SGoto("new", "accept")
  /\ pending' = IF cpc = "sigwait" THEN 1 ELSE 0
  /\ cpc' = IF cpc \in {"default", "handler"} THEN "killed" ELSE cpc
  /\ UNCHANGED <<setting, port, wire, errno, timestamp, single_start, cnt, requests, lost>>

(* Mutant: the listening socket is made non-blocking too.                  *)
ServerAcceptNonblock(s) ==
  /\ spc[s] = "accept"
  /\ conn = s \/ busy
  /\ listener' = IF listener = s THEN "none" ELSE listener
  /\ SGoto(s, IF conn = s THEN "receive" ELSE "error")
  /\ UNCHANGED <<setting, bound, conn, wire, errno, timestamp, client, lost>>

(* accept takes the client from the backlog; the listener is closed.       *)
ServerAccept(s) ==
  /\ spc[s] = "accept"
  /\ conn = s
  /\ listener' = IF listener = s THEN "none" ELSE listener
  /\ SGoto(s, "receive")
  /\ UNCHANGED <<setting, bound, conn, wire, errno, timestamp, client, lost>>

(* Mutant: the message must be longer than was asked for.                  *)
ServerReceiveMore(s) ==
  /\ spc[s] = "receive"
  /\ arrived > size
  /\ arrived' = 0
  /\ SGoto(s, "now")
  /\ UNCHANGED <<setting, port, flight, reply, errno, timestamp, client, lost>>

(* recv of receive gets the whole message.                                 *)
ServerReceive(s) ==
  /\ spc[s] = "receive"
  /\ arrived = size
  /\ arrived' = 0
  /\ SGoto(s, "now")
  /\ UNCHANGED <<setting, port, flight, reply, errno, timestamp, client, lost>>

(* Mutant: nothing there yet is an error.                                  *)
ServerAgainFails(s) ==
  /\ spc[s] = "receive"
  /\ busy /\ arrived = 0 /\ cpc # "done" /\ errno[s] # "EAGAIN"
  /\ SGoto(s, "error")
  /\ UNCHANGED <<setting, port, wire, errno, timestamp, client, lost>>

(* A non-blocking recv finds nothing: EAGAIN, once more.                   *)
ServerAgain(s) ==
  /\ spc[s] = "receive"
  /\ busy /\ arrived = 0 /\ cpc # "done" /\ errno[s] # "EAGAIN"
  /\ errno' = [errno EXCEPT ![s] = "EAGAIN"]
  /\ UNCHANGED <<setting, port, wire, spc, timestamp, client, lost>>

(* recv gets less than was asked for: receive fails, unless errno still    *)
(* says EAGAIN from an earlier call.  Then it starts all over.             *)
ServerShort(s) ==
  /\ spc[s] = "receive"
  /\ arrived \in 1..(size - 1)
  /\ arrived' = 0
  /\ IF busy /\ errno[s] = "EAGAIN"
     THEN lost' = TRUE /\ UNCHANGED spc
     ELSE SGoto(s, "error") /\ UNCHANGED lost
  /\ UNCHANGED <<setting, port, flight, reply, errno, timestamp, client>>

(* The client has closed its end: recv returns 0, which is short too, and  *)
(* after an EAGAIN receive calls it again and again.                       *)
ServerEOF(s) ==
  /\ spc[s] = "receive"
  /\ conn = s /\ cpc = "done"
  /\ ~(busy /\ errno[s] = "EAGAIN")
  /\ SGoto(s, "error")
  /\ UNCHANGED <<setting, port, wire, errno, timestamp, client, lost>>

ServerNow(s) ==
  /\ spc[s] = "now"
  /\ timestamp' = [timestamp EXCEPT ![s] = requests]
  /\ SGoto(s, "send")
  /\ UNCHANGED <<setting, port, wire, errno, client, lost>>

(* send of eight bytes.  The domain server compares its result with -s.    *)
ServerSend(s) ==
  /\ spc[s] = "send"
  /\ reply' = timestamp[s]
  /\ SGoto(s, IF method = "domain" /\ size > 1 THEN "throw" ELSE "receive")
  /\ UNCHANGED <<setting, port, arrived, flight, errno, timestamp, client, lost>>

(* It throws, with the answer sent.                                        *)
ServerThrow(s) ==
  /\ spc[s] = "throw"
  /\ SGoto(s, "error")
  /\ UNCHANGED <<setting, port, wire, errno, timestamp, client, lost>>

Serve(s) ==
  \/ ServerAccept(s) \/ ServerReceive(s) \/ ServerAgain(s) \/ ServerShort(s)
  \/ ServerEOF(s) \/ ServerNow(s) \/ ServerSend(s) \/ ServerThrow(s)

Setup == ServerBind \/ ServerListen \/ ServerOnce

(* More of the message arrives.                                            *)
Deliver ==
  /\ flight > 0
  /\ arrived' = arrived + Smaller(flight, Segment)
  /\ flight' = flight - Smaller(flight, Segment)
  /\ UNCHANGED <<setting, port, reply, server, client, lost>>

-----------------------------------------------------------------------------
(* exec, then the two halves of setup_signals in client_once(WAIT).        *)
ClientSetup ==
  /\ \/ cpc = "forked" /\ cpc' = "default"
     \/ cpc = "default" /\ cpc' = "handler"
     \/ cpc = "handler" /\ cpc' = "sigwait"
  /\ UNCHANGED <<setting, port, wire, server, pending, single_start, cnt, requests, lost>>

ClientSigwait ==
  /\ cpc = "sigwait"
  /\ pending = 1
  /\ pending' = 0
  /\ cpc' = "connect"
  /\ UNCHANGED <<setting, port, wire, server, single_start, cnt, requests, lost>>

(* connect; the connection waits in the backlog for accept.                *)
ClientConnect ==
  /\ cpc = "connect"
  /\ listener # "none"
  /\ conn' = listener
  /\ cpc' = "check"
  /\ UNCHANGED <<setting, listener, bound, wire, server, pending, single_start, cnt, requests, lost>>

(* Nobody listens on the port: connect fails, which is not noticed.        *)
ClientRefused ==
  /\ cpc = "connect"
  /\ listener = "none" /\ method = "tcp"
  /\ cpc' = "check"
  /\ UNCHANGED <<setting, port, wire, server, pending, single_start, cnt, requests, lost>>

(* The head of the loop (see TimedClient); evaluate, close and exit.       *)
ClientCheck ==
  /\ cpc = "check"
  /\ \/ cnt < MaxRounds /\ cpc' = "send"
     \/ cpc' = "done"
  /\ UNCHANGED <<setting, port, wire, server, pending, single_start, cnt, requests, lost>>

(* No connection, or nobody at its other end.                              *)
Broken == conn = "none" \/ PeerAt("error")

(* send.  A non-blocking one may keep what does not fit into the buffer,   *)
(* and its result is not looked at.                                        *)
ClientSend ==
  /\ cpc = "send"
  /\ ~Broken
  /\ arrived' = Smaller(size, Segment)
  /\ \/ flight' = size - Smaller(size, Segment)
     \/ busy /\ flight' = 0
  /\ requests' = requests + 1
  /\ cpc' = "wait"
  /\ UNCHANGED <<setting, port, reply, server, pending, single_start, cnt, lost>>

(* send into a broken connection: SIGPIPE.                                 *)
ClientPipe ==
  /\ cpc = "send"
  /\ Broken
  /\ cpc' = "killed"
  /\ UNCHANGED <<setting, port, wire, server, pending, single_start, cnt, requests, lost>>

ClientReceive ==
  /\ cpc = "wait"
  /\ reply # NoStamp
  /\ single_start' = reply
  /\ reply' = NoStamp
  /\ cpc' = "benchmark"
  /\ UNCHANGED <<setting, port, arrived, flight, server, pending, cnt, requests, lost>>

(* A non-blocking recv finds nothing: EAGAIN, once more.                   *)
ClientAgain ==
  /\ cpc = "wait"
  /\ busy /\ reply = NoStamp /\ ~PeerAt("error")
  /\ errno["client"] # "EAGAIN"
  /\ errno' = [errno EXCEPT !["client"] = "EAGAIN"]
  /\ UNCHANGED <<setting, port, wire, spc, timestamp, client, lost>>

(* The server is gone and a part of the message has come to it unread:     *)
(* recv fails with ECONNRESET and the client throws; a blocking send that  *)
(* is still writing a long message gets SIGPIPE.                           *)
ClientReset ==
  /\ cpc = "wait"
  /\ reply = NoStamp
  /\ PeerAt("error") /\ arrived > 0
  /\ \/ cpc' = "error"
     \/ ~busy /\ size > Segment /\ cpc' = "killed"
  /\ UNCHANGED <<setting, port, wire, server, pending, single_start, cnt, requests, lost>>

(* The server is gone and read all that came to it: recv returns 0, which  *)
(* is short, and after an EAGAIN receive calls it again and again.         *)
ClientEOF ==
  /\ cpc = "wait"
  /\ reply = NoStamp
  /\ PeerAt("error") /\ arrived = 0
  /\ ~(busy /\ errno["client"] = "EAGAIN")
  /\ cpc' = "error"
  /\ UNCHANGED <<setting, port, wire, server, pending, single_start, cnt, requests, lost>>

ClientBenchmark ==
  /\ cpc = "benchmark"
  /\ cnt' = cnt + 1
  /\ cpc' = "check"
  /\ UNCHANGED <<setting, port, wire, server, pending, single_start, requests, lost>>

Client ==
  \/ ClientSetup \/ ClientSigwait \/ ClientConnect \/ ClientRefused
  \/ ClientCheck \/ ClientSend \/ ClientPipe \/ ClientReceive
  \/ ClientAgain \/ ClientReset \/ ClientEOF \/ ClientBenchmark

Next == Client \/ Setup \/ Deliver \/ \E s \in Servers : Serve(s)

Spec == Init /\ [][Next]_vars

(* A process that can go on is scheduled, a sleep ends, and what was sent  *)
(* on this machine arrives.                                                *)
FairSpec ==
  /\ Spec
  /\ WF_vars(Client) /\ WF_vars(Setup) /\ WF_vars(Deliver)
  /\ \A s \in Servers : WF_vars(Serve(s))

-----------------------------------------------------------------------------
(* The values each variable holds.                                         *)
TypeOK ==
  /\ listener \in Servers \cup {"none"} /\ conn \in Servers \cup {"none"}
  /\ bound \in BOOLEAN /\ pending \in {0, 1} /\ lost \in BOOLEAN
  /\ arrived \in 0..size /\ flight \in 0..size
  /\ reply \in Nat \cup {NoStamp} /\ single_start \in Nat \cup {NoStamp}
  /\ spc \in [Servers -> {"gone", "bind", "listen", "once", "accept",
                          "receive", "now", "send", "throw", "error"}]
  /\ errno \in [Processes -> {"other", "EAGAIN"}]
  /\ timestamp \in [Servers -> Nat \cup {NoStamp}]
  /\ cpc \in {"forked", "default", "handler", "sigwait", "connect", "check",
              "send", "wait", "benchmark", "killed", "error", "done"}
  /\ cnt \in Nat /\ requests \in Nat

(* Messages arrive whole, and the domain server's comparison holds.        *)
Fits == size <= Segment /\ (method = "domain" => size <= 1)

(* Every timestamp measured was taken for the last request; once connected *)
(* with a length that fits, neither side gives up before the client is     *)
(* done.  The client reached the new server or, on a port that was taken,  *)
(* the old one.                                                            *)
Works ==
  /\ TypeOK
  /\ cpc = "benchmark" => single_start = requests
  /\ conn # "none" /\ Fits /\ cpc # "done" =>
       cpc \notin {"error", "killed"} /\ ~PeerAt("error") /\ ~lost
  /\ conn = "new" => bound

(* The server gave up with nothing left to read, and the client takes the  *)
(* end of the connection for an EAGAIN of an earlier call.                 *)
Deserted ==
  /\ cpc = "wait" /\ reply = NoStamp
  /\ PeerAt("error") /\ arrived = 0 /\ flight = 0
  /\ busy /\ errno["client"] = "EAGAIN"

(* A request that fits is answered.  Any request is answered or fails, if  *)
(* the sockets block.  Under busy waiting the server may lose a part of    *)
(* it, and then both sides spin for ever; or the server gives up, and a    *)
(* client that was quicker than it spins alone.                            *)
Answered ==
  /\ (cpc = "wait" /\ Fits) ~> (cpc = "benchmark")
  /\ (cpc = "wait" /\ ~busy) ~> (cpc # "wait")
  /\ lost ~> [](cpc = "wait" /\ PeerAt("receive"))
  /\ Deserted ~> [](cpc = "wait")

(* A domain socket client that is connected measures until it is done      *)
(* (README.md).                                                            *)
Measures == method = "domain" /\ conn # "none" => cpc \notin {"error", "killed"}

(* How a run leaves the server.  It waits in accept for ever if its client *)
(* was killed before the connection was made, or still waits for a signal  *)
(* that came too early, or if its bind failed; a server whose client is    *)
(* done ends, or spins if it is busy waiting and was once quicker than it. *)
Aftermath ==
  /\ (cpc = "killed" /\ conn = "none") ~> [](spc["new"] = "accept")
  /\ (spc["new"] = "accept" /\ cpc = "forked") ~>
       [](spc["new"] = "accept" /\ cpc = "sigwait")
  /\ (spc["new"] = "listen" /\ ~bound) ~> [](spc["new"] = "accept")
  /\ (cpc = "done" /\ conn # "none") ~>
       PeerAt("error") \/ [](busy /\ PeerAt("receive"))
=============================================================================
