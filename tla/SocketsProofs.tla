--------------------------- MODULE SocketsProofs ---------------------------
(***************************************************************************)
(* The TCP and domain socket benchmarks for every -s, every size of a      *)
(* segment and every number of rounds: a measurement uses the timestamp of *)
(* its own request, a length that fits never makes a side give up, and a   *)
(* domain socket benchmark with longer messages measures once at most.     *)
(***************************************************************************)
EXTENDS Sockets, TLAPS

(* The settings, which no step changes.                                    *)
SettingOK ==
  /\ method \in {"tcp", "domain"}
  /\ busy \in BOOLEAN /\ sleepEnough \in BOOLEAN
  /\ size \in Nat \ {0}

(* A server gets past accept only with the client of this run, and a       *)
(* client is connected only to a server that has come to accept.           *)
Served == {"receive", "now", "send", "throw", "error"}

Connection ==
  /\ \A s \in Servers :
       /\ spc[s] \in Served => conn = s
       /\ conn = s => spc[s] \in Served \cup {"accept"}
       /\ listener = s => spc[s] \in {"once", "accept"}
  /\ spc["old"] \notin {"bind", "listen", "once"}
  /\ listener = "new" \/ conn = "new" => bound
  /\ cpc \in {"forked", "default", "handler", "sigwait", "connect"} =>
       conn = "none"

(* The domain client connects only after the server's signal.              *)
SignalFirst ==
  /\ method = "domain" /\ spc["new"] \in {"bind", "listen", "once"} =>
       cpc \in {"forked", "default", "handler", "sigwait"} /\ pending = 0
  /\ spc["new"] = "once" => method = "domain"

Empty == arrived = 0 /\ flight = 0

(* There is one request at a time: while the client does not wait nothing  *)
(* is under way; while it waits, a part of the request is, or its server   *)
(* has all of it and takes its time, or the answer is under way.           *)
OneRequest ==
  /\ arrived + flight <= size
  /\ cpc \in {"killed", "error"} => conn = "none" \/ PeerAt("error")
  /\ cpc \notin {"wait", "killed", "error"} =>
       /\ Empty /\ reply = NoStamp
       /\ ~PeerAt("now") /\ ~PeerAt("send")
  /\ cpc = "wait" =>
       /\ conn # "none"
       /\ \/ reply = NoStamp /\ ~PeerAt("now") /\ ~PeerAt("send")
          \/ reply = NoStamp /\ Empty /\ PeerAt("now")
          \/ /\ reply = NoStamp /\ Empty /\ PeerAt("send")
             /\ \A s \in Servers : conn = s => timestamp[s] = requests
          \/ /\ reply = requests /\ Empty
             /\ PeerAt("receive") \/ PeerAt("throw") \/ PeerAt("error")

(* A message that fits is in one piece, so no part of it is ever dropped.  *)
OnePiece == size <= Segment => flight = 0 /\ arrived \in {0, size} /\ ~lost

(* A domain server that finds more than eight bytes asked for is on its    *)
(* way out with its first answer: a second request is never taken.         *)
FirstIsLast ==
  /\ PeerAt("throw") => method = "domain" /\ size > 1
  /\ method = "domain" /\ size > 1 =>
       /\ cnt > 0 \/ cpc = "benchmark" \/ reply # NoStamp =>
            PeerAt("throw") \/ PeerAt("error")
       /\ cnt > 0 => cnt = 1 /\ cpc # "benchmark" /\ reply = NoStamp

(* What every step preserves.                                              *)
SocketInvariant ==
  /\ SettingOK /\ Works
  /\ Connection /\ SignalFirst
  /\ OneRequest /\ OnePiece /\ FirstIsLast

(* The state in which the processes start satisfies the invariant.         *)
LEMMA InitSocket == Init => SocketInvariant
<1> SUFFICES ASSUME Init PROVE SocketInvariant
  OBVIOUS
<1> USE DEF Servers, Processes, NoStamp
<1>1. /\ SettingOK
      /\ listener \in {"none", "old"}
      /\ cpc \in {"connect", "forked"}
      /\ spc \in [Servers -> {"bind", "accept", "gone"}] /\ spc["new"] = "bind"
      /\ listener = "old" => spc["old"] = "accept"
      /\ method = "domain" => cpc = "forked"
  BY SocketsAssumption DEF Init, SettingOK
<1>2. Works
  <2>1. TypeOK
    <3>1. /\ errno \in [Processes -> {"other", "EAGAIN"}]
          /\ timestamp \in [Servers -> Nat \cup {NoStamp}]
      BY DEF Init
    <3>2. spc \in [Servers -> {"gone", "bind", "listen", "once", "accept",
                              "receive", "now", "send", "throw", "error"}]
      BY <1>1
    <3>3. arrived \in 0..size /\ flight \in 0..size
      BY <1>1 DEF Init, SettingOK
    <3>4. bound \in BOOLEAN /\ lost \in BOOLEAN
      BY DEF Init
    <3> QED BY <1>1, <3>1, <3>2, <3>3, <3>4 DEF Init, TypeOK
  <2> QED BY <1>1, <2>1 DEF Init, Works
<1>3. Connection /\ SignalFirst
  BY <1>1 DEF Init, Connection, Served, SignalFirst
<1>4. OneRequest /\ OnePiece /\ FirstIsLast
  BY <1>1 DEF Init, SettingOK, OneRequest, Empty, OnePiece, FirstIsLast,
              PeerAt
<1> QED BY <1>1, <1>2, <1>3, <1>4 DEF SocketInvariant

(* The server's set-up.                                                    *)
LEMMA SetupSocket ==
  ASSUME SocketInvariant, Setup
  PROVE  SocketInvariant'
<1> USE DEF SocketInvariant, SettingOK, Works, TypeOK, Fits, Connection,
            Served, SignalFirst, OneRequest, Empty, OnePiece, FirstIsLast,
            PeerAt, Servers, Processes, NoStamp, Smaller, SGoto,
            setting, port, wire, server, client
<1>1. CASE ServerBind
  BY <1>1, SocketsAssumption DEF ServerBind
<1>2. CASE ServerListen
  BY <1>2, SocketsAssumption DEF ServerListen
<1>3. CASE ServerOnce
  BY <1>3, SocketsAssumption DEF ServerOnce
<1> QED BY <1>1, <1>2, <1>3 DEF Setup

(* A server's accept, and its receive in all its outcomes.                 *)
LEMMA ReceiveSocket ==
  ASSUME SocketInvariant, NEW s \in Servers,
         \/ ServerAccept(s) \/ ServerReceive(s) \/ ServerAgain(s)
         \/ ServerShort(s) \/ ServerEOF(s)
  PROVE  SocketInvariant'
<1> USE DEF SocketInvariant, SettingOK, Works, TypeOK, Fits, Connection,
            Served, SignalFirst, OneRequest, Empty, OnePiece, FirstIsLast,
            PeerAt, Servers, Processes, NoStamp, Smaller, SGoto,
            setting, port, wire, server, client
<1>1. CASE ServerAccept(s)
  BY <1>1, SocketsAssumption DEF ServerAccept
<1>2. CASE ServerReceive(s)
  BY <1>2, SocketsAssumption DEF ServerReceive
<1>3. CASE ServerAgain(s)
  BY <1>3, SocketsAssumption DEF ServerAgain
<1>4. CASE ServerShort(s)
  <2>1. /\ conn = s /\ cpc = "wait" /\ reply = NoStamp /\ ~Fits
        /\ size > Segment
    BY <1>4, SocketsAssumption DEF ServerShort
  <2>2. CASE busy /\ errno[s] = "EAGAIN"
    BY <1>4, <2>1, <2>2, SocketsAssumption DEF ServerShort
  <2>3. CASE ~(busy /\ errno[s] = "EAGAIN")
    BY <1>4, <2>1, <2>3, SocketsAssumption DEF ServerShort
  <2> QED BY <2>2, <2>3
<1>5. CASE ServerEOF(s)
  BY <1>5, SocketsAssumption DEF ServerEOF
<1> QED BY <1>1, <1>2, <1>3, <1>4, <1>5

(* A server's answer.                                                      *)
LEMMA AnswerSocket ==
  ASSUME SocketInvariant, NEW s \in Servers,
         ServerNow(s) \/ ServerSend(s) \/ ServerThrow(s)
  PROVE  SocketInvariant'
<1> USE DEF SocketInvariant, SettingOK, Works, TypeOK, Fits, Connection,
            Served, SignalFirst, OneRequest, Empty, OnePiece, FirstIsLast,
            PeerAt, Servers, Processes, NoStamp, Smaller, SGoto,
            setting, port, wire, server, client
<1>1. CASE ServerNow(s)
  BY <1>1, SocketsAssumption DEF ServerNow
<1>2. CASE ServerSend(s)
  BY <1>2, SocketsAssumption DEF ServerSend
<1>3. CASE ServerThrow(s)
  BY <1>3, SocketsAssumption DEF ServerThrow
<1> QED BY <1>1, <1>2, <1>3

(* A part of a message arrives.                                            *)
LEMMA DeliverSocket ==
  ASSUME SocketInvariant, Deliver
  PROVE  SocketInvariant'
<1> USE DEF SocketInvariant, SettingOK, Works, TypeOK, Fits, Connection,
            Served, SignalFirst, OneRequest, Empty, OnePiece, FirstIsLast,
            PeerAt, Servers, Processes, NoStamp, Smaller, SGoto,
            setting, port, wire, server, client
<1>1. CASE Deliver
  BY <1>1, SocketsAssumption DEF Deliver
<1> QED BY <1>1

(* The client up to its connection.                                        *)
LEMMA ConnectSocket ==
  ASSUME SocketInvariant, \/ ClientSetup \/ ClientSigwait
                                 \/ ClientConnect \/ ClientRefused
  PROVE  SocketInvariant'
<1> USE DEF SocketInvariant, SettingOK, Works, TypeOK, Fits, Connection,
            Served, SignalFirst, OneRequest, Empty, OnePiece, FirstIsLast,
            PeerAt, Servers, Processes, NoStamp, Smaller, SGoto,
            setting, port, wire, server, client
<1>1. CASE ClientSetup
  BY <1>1, SocketsAssumption DEF ClientSetup
<1>2. CASE ClientSigwait
  BY <1>2, SocketsAssumption DEF ClientSigwait
<1>3. CASE ClientConnect
  <2>1. PICK s \in Servers :
          conn = "none" /\ conn' = s /\ listener = s /\ spc[s] = "accept"
    BY <1>3 DEF ClientConnect
  <2> QED BY <1>3, <2>1, SocketsAssumption DEF ClientConnect
<1>4. CASE ClientRefused
  BY <1>4, SocketsAssumption DEF ClientRefused
<1> QED BY <1>1, <1>2, <1>3, <1>4

(* The client's loop.                                                      *)
LEMMA LoopSocket ==
  ASSUME SocketInvariant, \/ ClientCheck \/ ClientSend \/ ClientPipe
                                 \/ ClientReceive \/ ClientAgain
                                 \/ ClientReset \/ ClientEOF
                                 \/ ClientBenchmark
  PROVE  SocketInvariant'
<1> USE DEF SocketInvariant, SettingOK, Works, TypeOK, Fits, Connection,
            Served, SignalFirst, OneRequest, Empty, OnePiece, FirstIsLast,
            PeerAt, Servers, Processes, NoStamp, Smaller, SGoto,
            setting, port, wire, server, client
<1>1. CASE ClientCheck
  BY <1>1, SocketsAssumption DEF ClientCheck
<1>2. CASE ClientSend
  BY <1>2, SocketsAssumption DEF ClientSend, Broken
<1>3. CASE ClientPipe
  BY <1>3, SocketsAssumption DEF ClientPipe, Broken
<1>4. CASE ClientReceive
  BY <1>4, SocketsAssumption DEF ClientReceive
<1>5. CASE ClientReset
  BY <1>5, SocketsAssumption DEF ClientReset
<1>6. CASE ClientBenchmark
  BY <1>6, SocketsAssumption DEF ClientBenchmark
<1>7. CASE ClientAgain
  BY <1>7, SocketsAssumption DEF ClientAgain
<1>8. CASE ClientEOF
  BY <1>8, SocketsAssumption DEF ClientEOF
<1> QED BY <1>1, <1>2, <1>3, <1>4, <1>5, <1>6, <1>7, <1>8

(* The invariant holds in every state, whichever server the client met.    *)
THEOREM SocketSafe == Spec => []SocketInvariant
<1>1. SocketInvariant /\ [Next]_vars => SocketInvariant'
  <2> SUFFICES ASSUME SocketInvariant, [Next]_vars PROVE SocketInvariant'
    OBVIOUS
  <2>1. CASE Client
    BY <2>1, ConnectSocket, LoopSocket DEF Client
  <2>2. CASE Setup
    BY <2>2, SetupSocket
  <2>3. CASE Deliver
    BY <2>3, DeliverSocket
  <2>4. CASE \E s \in Servers : Serve(s)
    BY <2>4, ReceiveSocket, AnswerSocket DEF Serve
  <2>5. CASE UNCHANGED vars
    BY <2>5 DEF SocketInvariant, SettingOK, Works, TypeOK, Fits, Connection,
                SignalFirst, OneRequest, Empty, OnePiece, FirstIsLast, PeerAt,
                vars, setting, port, wire, server, client
  <2> QED BY <2>1, <2>2, <2>3, <2>4, <2>5 DEF Next
<1> QED BY InitSocket, <1>1, PTL DEF Spec

(* Every timestamp measured was taken for the last request, and neither    *)
(* side gives up before the client is done if the length fits.             *)
THEOREM SocketWorks == Spec => []Works
<1>1. SocketInvariant => Works
  BY DEF SocketInvariant
<1> QED BY SocketSafe, <1>1, PTL

(* The domain server compares the result of an eight-byte send with -s.    *)
GivesUp == method = "domain" /\ size > 1 => cnt <= 1

(* With more than eight bytes the domain socket benchmark measures one     *)
(* round trip at most, whatever README.md promises (see Measures).         *)
THEOREM SocketGivesUp == Spec => []GivesUp
<1>1. SocketInvariant => GivesUp
  BY DEF SocketInvariant, Works, TypeOK, FirstIsLast, GivesUp
<1> QED BY SocketSafe, <1>1, PTL

-----------------------------------------------------------------------------
(* The client's server takes an earlier EAGAIN for the reason of a short   *)
(* recv, and starts over.                                                  *)
Repeats ==
  \E s \in Servers : conn = s /\ spc[s] = "receive" /\ errno[s] = "EAGAIN"

(* A message of which a part was dropped never becomes whole; one that     *)
(* fits is there as a whole when the server comes to receive it.           *)
Pieces ==
  /\ lost => /\ busy /\ cpc = "wait" /\ reply = NoStamp
             /\ arrived + flight < size
             /\ Repeats
  /\ /\ Fits /\ cpc = "wait" /\ reply = NoStamp
     /\ PeerAt("accept") \/ PeerAt("receive")
     => arrived = size

LEMMA PiecesStep ==
  ASSUME SocketInvariant, Pieces, [Next]_vars
  PROVE  Pieces' /\ (lost => lost')
<1> USE SocketsAssumption
    DEF SocketInvariant, SettingOK, Works, TypeOK, Fits, Connection, Served,
        OneRequest, Empty, OnePiece, FirstIsLast, PeerAt, Servers, Processes,
        NoStamp, Smaller, SGoto, Pieces, Repeats, setting, port, wire, server, client
<1>1. CASE Client
  <2>1. CASE ClientSetup \/ ClientSigwait \/ ClientConnect \/ ClientRefused
    BY <2>1 DEF ClientSetup, ClientSigwait, ClientConnect, ClientRefused
  <2>2. CASE ClientCheck \/ ClientPipe \/ ClientBenchmark
    BY <2>2 DEF ClientCheck, ClientPipe, ClientBenchmark
  <2>3. CASE ClientSend
    BY <2>3 DEF ClientSend, Broken
  <2>4. CASE ClientReceive \/ ClientReset \/ ClientEOF
    BY <2>4 DEF ClientReceive, ClientReset, ClientEOF
  <2>5. CASE ClientAgain
    BY <2>5 DEF ClientAgain
  <2> QED BY <1>1, <2>1, <2>2, <2>3, <2>4, <2>5 DEF Client
<1>2. CASE Setup
  BY <1>2 DEF Setup, ServerBind, ServerListen, ServerOnce
<1>3. CASE Deliver
  BY <1>3 DEF Deliver
<1>4. ASSUME NEW s \in Servers, Serve(s)
      PROVE  Pieces' /\ (lost => lost')
  <2>1. CASE ServerAccept(s)
    BY <2>1 DEF ServerAccept
  <2>2. CASE ServerReceive(s)
    BY <2>2 DEF ServerReceive
  <2>3. CASE ServerAgain(s)
    BY <2>3 DEF ServerAgain
  <2>4. CASE ServerShort(s)
    BY <2>4 DEF ServerShort
  <2>5. CASE ServerEOF(s)
    BY <2>5 DEF ServerEOF
  <2>6. CASE ServerNow(s)
    BY <2>6 DEF ServerNow
  <2>7. CASE ServerSend(s)
    BY <2>7 DEF ServerSend
  <2>8. CASE ServerThrow(s)
    BY <2>8 DEF ServerThrow
  <2> QED BY <1>4, <2>1, <2>2, <2>3, <2>4, <2>5, <2>6, <2>7, <2>8 DEF Serve
<1>5. CASE UNCHANGED vars
  BY <1>5 DEF vars
<1> QED BY <1>1, <1>2, <1>3, <1>4, <1>5 DEF Next

(* A request that fits is never stuck on its way: it is complete whenever  *)
(* the server is about to receive it.  One that lost a part under busy     *)
(* waiting is never answered, and both sides spin from then on: the safety *)
(* part of Answered.                                                       *)
THEOREM PiecesSafe ==
  Spec => []Pieces /\ [](lost => [](cpc = "wait" /\ PeerAt("receive")))
<1>1. Init => Pieces
  BY DEF Init, Pieces
<1>2. Pieces /\ lost => cpc = "wait" /\ PeerAt("receive")
  BY DEF Pieces, Repeats, PeerAt
<1> QED BY SocketSafe, PiecesStep, <1>1, <1>2, PTL DEF Spec

(* The server of this run waits in accept for a client that was killed     *)
(* before it connected, or never heard of the server's signal, or on a     *)
(* port of the kernel's choice because its bind failed.                    *)
Abandoned ==
  /\ spc["new"] = "accept"
  /\ \/ cpc = "killed" /\ conn = "none"
     \/ cpc \in {"forked", "default", "handler", "sigwait"} /\ pending = 0
     \/ ~bound

(* The client is done and its server calls recv again and again.           *)
Haunted == cpc = "done" /\ busy /\ Repeats

(* Nothing that can still happen brings such a server a client, or makes   *)
(* it leave its loop, or makes a deserted client leave its own: this is    *)
(* the safety part of Aftermath and of the last part of Answered.          *)
THEOREM AbandonedForEver ==
  Spec => /\ [](Abandoned => []Abandoned)
          /\ [](Haunted => []Haunted)
          /\ [](Deserted => []Deserted)
<1> DEFINE Stay == /\ Abandoned => Abandoned'
                   /\ Haunted => Haunted'
                   /\ Deserted => Deserted'
<1>1. ASSUME SocketInvariant, [Next]_vars PROVE Stay
  <2> USE <1>1
      DEF SocketInvariant, SettingOK, Works, TypeOK, Connection, Served,
          OneRequest, Empty, PeerAt, Servers, Processes, NoStamp, SGoto,
          Abandoned, Haunted, Deserted, Repeats,
          setting, port, wire, server, client
  <2>1. CASE Client
    <3>1. CASE ClientSetup \/ ClientSigwait \/ ClientConnect \/ ClientRefused
      BY <3>1 DEF ClientSetup, ClientSigwait, ClientConnect, ClientRefused
    <3>2. CASE \/ ClientCheck \/ ClientSend \/ ClientPipe \/ ClientReceive
               \/ ClientBenchmark
      BY <3>2 DEF ClientCheck, ClientSend, ClientPipe, ClientReceive,
                  ClientBenchmark, Broken
    <3>3. CASE ClientAgain
      BY <3>3 DEF ClientAgain
    <3>4. CASE ClientReset \/ ClientEOF
      BY <3>4 DEF ClientReset, ClientEOF
    <3> QED BY <2>1, <3>1, <3>2, <3>3, <3>4 DEF Client
  <2>2. CASE Setup
    BY <2>2 DEF Setup, ServerBind, ServerListen, ServerOnce
  <2>3. CASE Deliver
    BY <2>3 DEF Deliver
  <2>4. ASSUME NEW s \in Servers, Serve(s) PROVE Stay
    BY <2>4 DEF Serve, ServerAccept, ServerReceive, ServerAgain, ServerShort,
                ServerEOF, ServerNow, ServerSend, ServerThrow
  <2>5. CASE UNCHANGED vars
    BY <2>5 DEF vars
  <2> QED BY <2>1, <2>2, <2>3, <2>4, <2>5 DEF Next
<1> QED BY <1>1, SocketSafe, PTL DEF Spec
=============================================================================
