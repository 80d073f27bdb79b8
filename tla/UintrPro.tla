------------------------------ MODULE UintrPro ------------------------------
(***************************************************************************)
(* The ring benchmark with a user interrupt as its doorbell                *)
(* (source/uintr-pro), as the code stands: the server puts a timestamp     *)
(* into the ring, interrupts the client and spins until the ring is empty; *)
(* the client's handler is to take it out.  The client hands its uintrfd   *)
(* to the server over a datagram socket, but creates none and registers no *)
(* handler: the descriptor it sends is the 0 of a global.                  *)
(*                                                                         *)
(* A server of an earlier run may still wait for its client, on a socket   *)
(* whose name the new server takes away.  The ring is that of Kfifo with   *)
(* 4096 bytes, of which 8 are used at a time.                              *)
(***************************************************************************)
EXTENDS Integers

CONSTANTS
  New, Old,  \* the server of this run, and those of earlier runs
  Lates      \* (Booleans) whether the client starts in the last tenth of a second

VARIABLES
  late,      \* the tenth-of-a-second loop never ends (see TimedClient)
  pc,        \* where each process is
  bound,     \* the server whose socket is called process_b, or "none"
  datagram,  \* the servers that have the client's message
  installed, \* the client has a user-interrupt handler
  uintrfd,   \* uintrfd_client of the client
  index,     \* uipi_index of each server
  uif,       \* the client's user-interrupt flag
  pending,   \* an interrupt is posted to the client (hardware)
  ring,      \* kfifo_len, in messages of 8 bytes
  puts       \* the messages put into the ring

client == <<late, installed, uintrfd, uif>>
socket == <<bound, datagram>>
data   == <<ring, puts>>
vars   == <<client, socket, data, pc, index, pending>>

Servers == Old \cup {New}

Goto(p, l) == pc' = [pc EXCEPT ![p] = l]

(* The globals are zero; an earlier server sits in recvmsg, and the last   *)
(* one of them has the name.                                               *)
Init ==
  /\ late \in Lates
  /\ \E waits \in SUBSET Old :
       pc = [p \in Servers \cup {"client"} |->
               IF p \in waits THEN "recvmsg"
               ELSE IF p \in Old THEN "killed" ELSE "start"]
  /\ bound \in {s \in Old : pc[s] = "recvmsg"} \cup {"none"}
  /\ bound = "none" => \A s \in Old : pc[s] # "recvmsg"
  /\ datagram = {}
  /\ installed = FALSE /\ uintrfd = 0 /\ uif = FALSE
  /\ index = [s \in Servers |-> 0]
  /\ pending = FALSE
  /\ ring \in {0, 1} /\ (ring = 1 => \E s \in Old : pc[s] = "killed")
  /\ puts = 0

-----------------------------------------------------------------------------
(* main attaches the segment, with whatever it holds, and __kfifo_init     *)
(* empties the ring.                                                       *)
ServerStart(s) ==
  /\ pc[s] = "start"
  /\ ring' = 0
  /\ Goto(s, "bind")
  /\ UNCHANGED <<client, socket, puts, index, pending>>

(* setup_server: unlink and bind.                                          *)
ServerBind(s) ==
  /\ pc[s] = "bind"
  /\ bound' = s
  /\ Goto(s, "recvmsg")
  /\ UNCHANGED <<client, datagram, data, index, pending>>

(* recvmsg, and uintr_register_sender, which refuses a descriptor that is  *)
(* no uintrfd.  Nobody looks at the result.                                *)
ServerRegister(s) ==
  /\ pc[s] = "recvmsg" /\ s \in datagram
  /\ datagram' = datagram \ {s}
  /\ index' = [index EXCEPT ![s] = IF installed /\ uintrfd # 0 THEN 0 ELSE -1]
  /\ Goto(s, "put")
  /\ UNCHANGED <<client, bound, data, pending>>

(* now and __kfifo_in.                                                     *)
ServerPut(s) ==
  /\ pc[s] = "put"
  /\ ring' = ring + 1 /\ puts' = puts + 1
  /\ Goto(s, "notify")
  /\ UNCHANGED <<client, socket, index, pending>>

(* uintrfd_notify: _senduipi faults on an index that is none.              *)
ServerNotify(s) ==
  /\ pc[s] = "notify"
  /\ IF index[s] < 0 THEN Goto(s, "killed") /\ UNCHANGED pending
     ELSE Goto(s, "spin") /\ pending' = TRUE
  /\ UNCHANGED <<client, socket, data, index>>

(* The spin until the client has emptied the ring.                         *)
ServerSpin(s) ==
  /\ pc[s] = "spin"
  /\ ring = 0
  /\ Goto(s, "put")
  /\ UNCHANGED <<client, socket, data, index, pending>>

-----------------------------------------------------------------------------
(* main attaches the segment; then sendmsg to whoever has the name now.    *)
(* Without such a socket, or with one nobody has open, the client gives up.*)
ClientSend ==
  /\ pc["client"] = "start"
  /\ IF bound = "none" \/ (bound \in Servers /\ pc[bound] = "killed")
     THEN Goto("client", "error") /\ UNCHANGED datagram
     ELSE Goto("client", "stui") /\ datagram' = datagram \cup {bound}
  /\ UNCHANGED <<client, bound, data, index, pending>>

ClientStui ==
  /\ pc["client"] = "stui"
  /\ uif' = TRUE
  /\ Goto("client", "loop")
  /\ UNCHANGED <<late, installed, uintrfd, socket, data, index, pending>>

(* Delivery: ui_handler takes out what the ring holds.  It needs a handler *)
(* that was registered, and none is.                                       *)
UiHandler ==
  /\ pc["client"] = "loop"
  /\ installed /\ uif /\ pending
  /\ pending' = FALSE
  /\ ring' = 0
  /\ UNCHANGED <<client, socket, puts, pc, index>>

(* The loop counts and ends after a tenth of a second, then evaluate and   *)
(* destroy_client.  Nobody has called benchmark.                           *)
ClientEvaluate ==
  /\ pc["client"] = "loop"
  /\ ~late
  /\ Goto("client", "done")
  /\ installed' = FALSE
  /\ UNCHANGED <<late, uintrfd, uif, socket, data, index, pending>>

Server(s) ==
  \/ ServerStart(s) \/ ServerBind(s) \/ ServerRegister(s)
  \/ ServerPut(s) \/ ServerNotify(s) \/ ServerSpin(s)

Client == ClientSend \/ ClientStui \/ ClientEvaluate

Next == Client \/ UiHandler \/ \E s \in Servers : Server(s)

Spec == Init /\ [][Next]_vars

(* Every process that can go on is scheduled, and a posted interrupt is    *)
(* delivered to a thread that has them enabled.                            *)
FairSpec ==
  /\ Spec
  /\ WF_vars(Client) /\ WF_vars(UiHandler)
  /\ \A s \in Servers : WF_vars(Server(s))

-----------------------------------------------------------------------------
(* The client is notified of what the server puts into the ring and takes  *)
(* it out, as source/uintr-pro/server.c:109 says of its call: unless the   *)
(* client has gone, a ring that was filled is emptied again.               *)
Notified ==
  (puts > 0 /\ ring > 0) ~> (ring = 0 \/ pc["client"] \in {"error", "done"})
=============================================================================
