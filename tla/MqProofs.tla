------------------------------ MODULE MqProofs ------------------------------
(***************************************************************************)
(* The message queue benchmark for any number of servers of earlier runs,  *)
(* messages left in the queue, message sizes and rounds: the handshake is  *)
(* safe, when a server throws, and how far a measurement can be off.       *)
(***************************************************************************)
EXTENDS Mq, FiniteSetTheorems, SequenceTheorems, WellFoundedInduction, TLAPS

Messages == [type : {CLIENT_MESSAGE, SERVER_MESSAGE}, data : Int]

(* The servers that have taken a request and not answered it, the ones     *)
(* that never will included.                                               *)
Owes  == {"now", "msgsnd", "short", "full"}
Owing == {s \in Servers : spc[s] \in Owes}

(* 1 while the client waits for a reply; how many it has received.         *)
Waiting == IF cpc = "msgrcv" THEN 1 ELSE 0
Taken   == requests - Waiting

(* The settings: what was found was in a queue of this capacity, this      *)
(* run's server has this run's -s, and earlier servers that are not        *)
(* attached do nothing.                                                    *)
SettingOK ==
  /\ Found <= Capacity
  /\ size["server"] = Size
  /\ \A s \in OldServers : s \notin attached => spc[s] = "none"
  /\ spc["server"] # "none"

(* Every request has this run's length or that of the one that was found.  *)
Lengths ==
  \A i \in 1..Len(queue) :
    queue[i].type = CLIENT_MESSAGE =>
      queue[i].data = Size \/ (unserved # 0 /\ queue[i].data = unserved)

(* A queue that was found full of replies stays as it is.                  *)
Jammed ==
  stale = Capacity =>
    /\ requests = 0 /\ Owing = {} /\ cpc # "msgrcv"
    /\ \A i \in 1..Len(queue) : queue[i].type = SERVER_MESSAGE

(* The server signals once, after it has created the queue.                *)
Started ==
  /\ spc["server"] # "forked" => exists
  /\ spc["server"] \in {"forked", "usleep", "notify"} =>
       /\ cpc \in {"forked", "default", "handler", "usleep", "sigwait"}
       /\ pending = 0
  /\ sleepEnough /\ spc["server"] = "notify" => cpc \in {"usleep", "sigwait"}

(* What every step preserves, of the handshake and of the backlog.         *)
QueueInvariant ==
  /\ SettingOK /\ Lengths /\ Jammed /\ Started /\ Handshake
  /\ Backlog /\ IsFiniteSet(Owing)

(* No reply is from the future, and with an empty queue at the start every *)
(* reply is for the request under way.                                     *)
Stamps ==
  /\ cpc = "msgrcv" => requests > 0
  /\ \A s \in Servers : stamp[s] <= requests
  /\ \A i \in 1..Len(queue) :
       queue[i].type = SERVER_MESSAGE => queue[i].data <= requests
  /\ Found = 0 =>
       /\ \A s \in Servers : spc[s] = "msgsnd" => stamp[s] = requests
       /\ \A i \in 1..Len(queue) :
            queue[i].type = SERVER_MESSAGE => queue[i].data = requests

(* The replies that were found are the front of the queue until the client *)
(* has taken them all.                                                     *)
OldFirst ==
  \A i \in 1..(stale - Taken) :
    /\ i <= Len(queue)
    /\ queue[i] = Message(SERVER_MESSAGE, Taken + i - stale)

(* 1 for each reply in a queue, 0 for each request.                        *)
Kinds(q) ==
  [i \in 1..Len(q) |-> IF q[i].type = SERVER_MESSAGE THEN 1 ELSE 0]

(* r[i] is the number of ones among the first i of n.  That it grows by 0  *)
(* or 1 a place is said of any two places, so that it can be used without  *)
(* induction.                                                              *)
Counts(n, e, r) ==
  /\ r[0] = 0
  /\ \A i \in 1..n : r[i] = r[i - 1] + e[i]
  /\ \A i \in 0..n : \A j \in 0..n :
       i <= j => r[i] <= r[j] /\ r[j] - r[i] <= j - i

(* r[i] is the number of replies among the first i messages.               *)
Ranks(q, r) == Counts(Len(q), Kinds(q), r)

(* With one server the replies are in the order of the requests: the n-th  *)
(* one the client is going to receive is at most Found requests behind.    *)
InOrder ==
  attached = {} =>
    \E r \in [0..Len(queue) -> Nat] :
      /\ Ranks(queue, r)
      /\ \A i \in 1..Len(queue) :
           queue[i].type = SERVER_MESSAGE =>
             queue[i].data >= Taken + r[i] - Found
      /\ spc["server"] = "msgsnd" =>
           stamp["server"] >= Taken + r[Len(queue)] + 1 - Found

(* What every step preserves, of the timestamps.                           *)
LagInvariant == Stamps /\ OldFirst /\ InOrder /\ Lag

-----------------------------------------------------------------------------
(* A non-empty set of positions has a first one.                           *)
LEMMA FirstExists ==
  ASSUME NEW T, T \subseteq Nat, T # {}
  PROVE  Min(T) \in T /\ \A y \in T : Min(T) <= y
<1>1. \A x, y \in Nat : y < x => <<y, x>> \in OpToRel(<, Nat)
  BY DEF OpToRel
<1>2. PICK x \in T : \A y \in T : <<y, x>> \notin OpToRel(<, Nat)
  BY NatLessThanWellFounded, WFMin
<1>3. \A y \in T : ~(y < x)
  BY <1>1, <1>2, Zenon
<1>4. \A y \in T : x <= y
  BY <1>3
<1> QED BY <1>4 DEF Min

(* Taking out one element.                                                 *)
LEMMA RemoveAtIs ==
  ASSUME NEW S, NEW q \in Seq(S), NEW k \in 1..Len(q)
  PROVE  /\ RemoveAt(q, k) \in Seq(S)
         /\ Len(RemoveAt(q, k)) = Len(q) - 1
         /\ \A i \in 1..(Len(q) - 1) :
              RemoveAt(q, k)[i] = IF i < k THEN q[i] ELSE q[i + 1]
<1> DEFINE a == SubSeq(q, 1, k - 1)
           b == SubSeq(q, k + 1, Len(q))
<1>0. Len(q) \in Nat /\ \A i \in 1..Len(q) : q[i] \in S
  BY LenProperties, ElementOfSeq
<1>1. /\ a \in Seq(S) /\ Len(a) = k - 1
      /\ \A i \in 1..(k - 1) : a[i] = q[i]
  <2>1. \A i \in 1..(k - 1) : q[i] \in S
    BY <1>0
  <2> QED BY <2>1, <1>0, SubSeqProperties
<1>2. /\ b \in Seq(S) /\ Len(b) = Len(q) - k
      /\ \A i \in 1..(Len(q) - k) : b[i] = q[k + i]
  <2>1. \A i \in (k + 1)..Len(q) : q[i] \in S
    BY <1>0
  <2>2. k + 1 \in Int /\ Len(q) \in Int
    BY <1>0
  <2>3. /\ b \in Seq(S)
        /\ Len(b) = IF k + 1 <= Len(q) THEN Len(q) - (k + 1) + 1 ELSE 0
        /\ \A i \in 1..(Len(q) - (k + 1) + 1) : b[i] = q[k + 1 + i - 1]
    BY <2>1, <2>2, SubSeqProperties
  <2> QED BY <2>3, <1>0
<1> HIDE DEF a, b
<1>3. /\ a \o b \in Seq(S) /\ Len(a \o b) = Len(q) - 1
      /\ \A i \in 1..(Len(q) - 1) :
           (a \o b)[i] = IF i < k THEN a[i] ELSE b[i - (k - 1)]
  <2>1. /\ a \o b \in Seq(S) /\ Len(a \o b) = Len(a) + Len(b)
        /\ \A i \in 1..(Len(a) + Len(b)) :
             (a \o b)[i] = IF i <= Len(a) THEN a[i] ELSE b[i - Len(a)]
    BY <1>1, <1>2, ConcatProperties
  <2> QED BY <2>1, <1>0, <1>1, <1>2
<1>4. \A i \in 1..(Len(q) - 1) :
        (a \o b)[i] = IF i < k THEN q[i] ELSE q[i + 1]
  BY <1>0, <1>1, <1>2, <1>3
<1>5. RemoveAt(q, k) = a \o b
  BY DEF RemoveAt, a, b
<1> QED BY <1>3, <1>4, <1>5

(* A type that is in the queue has a first message.                        *)
LEMMA FirstIs ==
  ASSUME NEW type, TypeOK, Has(type)
  PROVE  /\ First(type) \in 1..Len(queue)
         /\ queue[First(type)].type = type
         /\ \A i \in 1..Len(queue) : queue[i].type = type => First(type) <= i
<1> DEFINE T == {i \in DOMAIN queue : queue[i].type = type}
<1>1. DOMAIN queue = 1..Len(queue) /\ Len(queue) \in Nat
  BY LenProperties DEF TypeOK
<1>2. T \subseteq Nat /\ T # {}
  BY <1>1 DEF Has
<1>3. Min(T) \in T /\ \A y \in T : Min(T) <= y
  <2> HIDE DEF T
  <2> QED BY <1>2, FirstExists
<1> QED BY <1>1, <1>3 DEF First

(* Messages taken out of the queue.                                        *)
LEMMA TakeOut ==
  ASSUME NEW type, TypeOK, Has(type)
  PROVE  /\ RemoveAt(queue, First(type)) \in Seq(Messages)
         /\ Len(RemoveAt(queue, First(type))) = Len(queue) - 1
         /\ \A i \in 1..(Len(queue) - 1) :
              RemoveAt(queue, First(type))[i] =
                IF i < First(type) THEN queue[i] ELSE queue[i + 1]
<1>1. queue \in Seq(Messages) /\ First(type) \in 1..Len(queue)
  BY FirstIs DEF TypeOK, Messages
<1> QED BY <1>1, RemoveAtIs

(* The lengths of the messages that are left.                              *)
LEMMA LengthsRemove ==
  ASSUME Lengths, Len(queue) \in Nat, NEW k \in 1..Len(queue),
         unserved' = unserved, Len(queue') = Len(queue) - 1,
         \A i \in 1..(Len(queue) - 1) :
           queue'[i] = IF i < k THEN queue[i] ELSE queue[i + 1]
  PROVE  Lengths'
<1> SUFFICES ASSUME NEW i \in 1..(Len(queue) - 1),
                    queue'[i].type = CLIENT_MESSAGE
             PROVE  \/ queue'[i].data = Size
                    \/ unserved # 0 /\ queue'[i].data = unserved
  BY DEF Lengths
<1>1. i \in 1..Len(queue) /\ i + 1 \in 1..Len(queue)
  OBVIOUS
<1>2. \E j \in 1..Len(queue) : queue'[i] = queue[j]
  BY <1>1
<1> QED BY <1>2 DEF Lengths

(* A message put at the end of the queue.                                  *)
LEMMA PutIn ==
  ASSUME TypeOK, NEW m \in Messages
  PROVE  /\ Append(queue, m) \in Seq(Messages)
         /\ Len(Append(queue, m)) = Len(queue) + 1
         /\ \A i \in 1..(Len(queue) + 1) :
              Append(queue, m)[i] = IF i <= Len(queue) THEN queue[i] ELSE m
<1>1. queue \in Seq(Messages) /\ Len(queue) \in Nat
  BY LenProperties DEF TypeOK, Messages
<1> QED BY <1>1

(* A server that takes a request, and one that has answered it.            *)
LEMMA OwingStep ==
  ASSUME TypeOK, IsFiniteSet(Owing), NEW s \in Servers, NEW l,
         spc' = [spc EXCEPT ![s] = l]
  PROVE  /\ IsFiniteSet(Owing') /\ Cardinality(Owing') \in Nat
         /\ Cardinality(Owing) \in Nat
         /\ s \notin Owing /\ l \in Owes =>
              Cardinality(Owing') = Cardinality(Owing) + 1
         /\ s \in Owing /\ l \in Owes =>
              Cardinality(Owing') = Cardinality(Owing)
         /\ s \in Owing /\ l \notin Owes =>
              /\ Cardinality(Owing) > 0
              /\ Cardinality(Owing') = Cardinality(Owing) - 1
         /\ s \notin Owing /\ l \notin Owes =>
              Cardinality(Owing') = Cardinality(Owing)
<1>1. CASE l \in Owes
  <2>1. Owing' = Owing \cup {s}
    BY <1>1 DEF Owing, TypeOK
  <2> QED BY <1>1, <2>1, FS_AddElement, FS_CardinalityType
<1>2. CASE l \notin Owes
  <2>1. Owing' = Owing \ {s}
    BY <1>2 DEF Owing, TypeOK
  <2>2. /\ IsFiniteSet(Owing')
        /\ Cardinality(Owing') = IF s \in Owing
              THEN Cardinality(Owing) - 1 ELSE Cardinality(Owing)
    BY <2>1, FS_RemoveElement
  <2>3. Cardinality(Owing) \in Nat /\ Cardinality(Owing') \in Nat
    BY <2>2, FS_CardinalityType
  <2> QED BY <1>2, <2>2, <2>3
<1> QED BY <1>1, <1>2

(* Backlog in the words of this module: the count, and who may throw.      *)
Tally == Len(queue) + Cardinality(Owing) = Found + Waiting

Throws(s) ==
  /\ spc[s] = "toobig" => size[s] < Size \/ size[s] < unserved
  /\ spc[s] = "short" => size[s] > Size \/ unserved \in 1..(size[s] - 1)
  /\ spc[s] = "full" => unserved # 0 /\ Found = Capacity

LEMMA BacklogIs ==
  Backlog <=> /\ TypeOK /\ Tally
              /\ \A s \in Servers : Throws(s)
              /\ stale = Capacity => requests = 0
  BY DEF Backlog, Tally, Owing, Owes, Waiting, Throws

(* What the proofs below use of the invariant.                             *)
LEMMA Facts ==
  ASSUME QueueInvariant
  PROVE  /\ TypeOK /\ Tally /\ Found \in Nat /\ stale <= Found
         /\ Found = stale => unserved = 0
         /\ Capacity \in Nat /\ Found <= Capacity
         /\ queue \in Seq(Messages) /\ Len(queue) \in Nat
         /\ stale \in Nat /\ requests \in Nat /\ Waiting \in {0, 1}
         /\ Taken \in Int /\ Taken = requests - Waiting
         /\ Cardinality(Owing) \in Nat
         /\ \A i \in 1..Len(queue) : queue[i].data \in Int
         /\ \A s \in Servers : stamp[s] \in Int
         /\ "server" \in Servers
<1>1. TypeOK /\ Tally /\ Waiting \in {0, 1}
  BY BacklogIs DEF QueueInvariant, Waiting
<1>2. /\ queue \in Seq(Messages) /\ stale \in Nat /\ requests \in Nat
      /\ stamp \in [Servers -> Int]
  BY <1>1 DEF TypeOK, Messages
<1>3. Len(queue) \in Nat /\ \A i \in 1..Len(queue) : queue[i] \in Messages
  BY <1>2, LenProperties, ElementOfSeq
<1>4. \A i \in 1..Len(queue) : queue[i].data \in Int
  BY <1>3 DEF Messages
<1>5. Cardinality(Owing) \in Nat
  BY FS_CardinalityType DEF QueueInvariant
<1>6. Taken \in Int /\ Taken = requests - Waiting
  BY <1>1, <1>2 DEF Taken
<1>7. \A s \in Servers : stamp[s] \in Int
  BY <1>2
<1>8. Found \in Nat /\ stale <= Found /\ (Found = stale => unserved = 0)
  BY <1>2 DEF Found
<1>9. Capacity \in Nat /\ Found <= Capacity
  BY MqAssumption DEF QueueInvariant, SettingOK
<1> QED BY <1>1, <1>2, <1>3, <1>4, <1>5, <1>6, <1>7, <1>8, <1>9 DEF Servers

(* The state past the forks satisfies the invariant.                       *)
LEMMA InitQueue == Init => QueueInvariant
<1> SUFFICES ASSUME Init PROVE QueueInvariant
  OBVIOUS
<1>1. /\ stale \in Nat /\ unserved \in Nat /\ Found \in Nat /\ stale <= Found
      /\ Found <= Capacity /\ Capacity \in Nat /\ "server" \in Servers
      /\ "server" \notin OldServers /\ OldServers \subseteq Servers
      /\ sleepEnough \in BOOLEAN /\ Size \in Nat
  BY MqAssumption DEF Init, Servers, Found
<1>2. /\ queue = [i \in 1..Found |-> IF i <= stale
                    THEN Message(SERVER_MESSAGE, i - stale)
                    ELSE Message(CLIENT_MESSAGE, unserved)]
      /\ cpc = "forked" /\ requests = 0
  BY DEF Init
<1>3. queue \in Seq(Messages) /\ Len(queue) = Found
  <2>1. \A i \in 1..Found : /\ Message(SERVER_MESSAGE, i - stale) \in Messages
                            /\ Message(CLIENT_MESSAGE, unserved) \in Messages
    BY <1>1 DEF Message, Messages
  <2>2. queue \in [1..Found -> Messages]
    BY <1>2, <2>1
  <2> QED BY <1>1, <2>2
<1>4. /\ spc \in [Servers -> {"forked", "msgrcv", "none"}]
      /\ spc["server"] = "forked"
      /\ \A s \in OldServers : s \notin attached => spc[s] = "none"
  BY <1>1 DEF Init
<1>5. Owing = {} /\ IsFiniteSet(Owing) /\ Cardinality(Owing) = 0
  <2>1. Owing = {}
    BY <1>4 DEF Owing, Owes
  <2> QED BY <2>1, FS_EmptySet
<1>6. size \in [Servers -> Nat] /\ size["server"] = Size
  <2>1. {Size} \cup OldSizes \subseteq Nat
    BY <1>1, MqAssumption
  <2>2. size \in [Servers -> Nat]
    BY <2>1 DEF Init
  <2>3. "server" \in Servers \ attached
    BY <1>1 DEF Init
  <2> QED BY <2>2, <2>3 DEF Init
<1>7. TypeOK
  <2>1. spc \in [Servers -> {"none", "forked", "usleep", "notify", "msgrcv",
                             "now", "msgsnd", "toobig", "short", "full"}]
    BY <1>4
  <2>2. stamp \in [Servers -> Int]
    BY DEF Init
  <2> QED BY <1>1, <1>3, <1>6, <2>1, <2>2 DEF Init, TypeOK, Messages
<1>8. Backlog
  <2>1. Tally /\ \A s \in Servers : Throws(s)
    BY <1>1, <1>2, <1>3, <1>4, <1>5 DEF Tally, Waiting, Throws
  <2> QED BY <1>2, <1>7, <2>1, BacklogIs
<1>9. SettingOK /\ Started /\ Handshake
  BY <1>1, <1>4, <1>6 DEF Init, SettingOK, Started, Handshake
<1>10. \A i \in 1..Len(queue) :
         /\ i <= stale => queue[i].type = SERVER_MESSAGE
         /\ ~(i <= stale) => queue[i].data = unserved /\ unserved # 0
  <2> TAKE i \in 1..Len(queue)
  <2>1. i \in 1..Found
    BY <1>3
  <2>2. ~(i <= stale) => unserved # 0
    BY <1>1, <2>1 DEF Found
  <2>3. queue[i] = IF i <= stale THEN Message(SERVER_MESSAGE, i - stale)
                   ELSE Message(CLIENT_MESSAGE, unserved)
    BY <1>2, <2>1
  <2> QED BY <2>2, <2>3 DEF Message
<1>11. Lengths
  BY <1>10 DEF Lengths, CLIENT_MESSAGE, SERVER_MESSAGE
<1>12. Jammed
  <2>1. stale = Capacity => \A i \in 1..Len(queue) : i <= stale
    BY <1>1, <1>3
  <2> QED BY <2>1, <1>2, <1>5, <1>10 DEF Jammed
<1> QED BY <1>5, <1>8, <1>9, <1>11, <1>12 DEF QueueInvariant

(* The client's steps that leave the queue alone.                          *)
LEMMA ClientQuietQueue ==
  ASSUME QueueInvariant,
         \/ ClientSetup \/ ClientSigwait \/ ClientMsgget
         \/ ClientCheck \/ ClientBenchmark
  PROVE  QueueInvariant'
<1>1. /\ UNCHANGED <<setting, exists, queue, server, requests>>
      /\ cpc # "msgrcv" /\ cpc' # "msgrcv"
  BY DEF ClientSetup, ClientSigwait, ClientMsgget, ClientCheck, ClientBenchmark
<1>2. Owing' = Owing /\ Found' = Found
  BY <1>1 DEF Owing, server, Found, setting
<1>3. TypeOK'
  BY <1>1 DEF QueueInvariant, Backlog, TypeOK, setting, server, ClientSetup,
              ClientSigwait, ClientMsgget, ClientCheck, ClientBenchmark
<1>4. Backlog'
  <2>1. Tally' /\ \A s \in Servers : Throws(s)'
    BY <1>1, <1>2, BacklogIs
    DEF QueueInvariant, Tally, Waiting, Throws, setting, server
  <2>2. (stale = Capacity => requests = 0)'
    BY <1>1 DEF QueueInvariant, Backlog, setting
  <2> QED BY <1>3, <2>1, <2>2
          DEF Backlog, Tally, Owing, Owes, Waiting, Throws
<1>5. SettingOK' /\ Lengths' /\ Jammed' /\ IsFiniteSet(Owing')
  BY <1>1, <1>2 DEF QueueInvariant, SettingOK, Lengths, Jammed, setting, server
<1>6. Started' /\ Handshake'
  BY <1>1 DEF QueueInvariant, Backlog, TypeOK, Started, Handshake, setting,
              server, ClientSetup, ClientSigwait, ClientMsgget, ClientCheck,
              ClientBenchmark
<1> QED BY <1>4, <1>5, <1>6 DEF QueueInvariant

(* msgsnd and msgrcv of the client.                                        *)
LEMMA ClientQueue ==
  ASSUME QueueInvariant, ClientSend \/ ClientReceive
  PROVE  QueueInvariant'
<1> USE DEF QueueInvariant
<1>1. /\ UNCHANGED <<setting, exists, server, pending>> /\ TypeOK
      /\ Owing' = Owing /\ Found' = Found /\ Cardinality(Owing) \in Nat
      /\ Len(queue) \in Nat /\ stale \in Nat /\ Found \in Nat
      /\ Tally /\ queue \in Seq(Messages)
  <2>1. UNCHANGED <<setting, exists, server, pending>>
    BY DEF ClientSend, ClientReceive
  <2>2. Owing' = Owing /\ Found' = Found
    BY <2>1 DEF Owing, Found, server, setting
  <2> QED BY <2>1, <2>2, Facts
<1>2. stale # Capacity
  <2> SUFFICES ASSUME stale = Capacity PROVE FALSE
    OBVIOUS
  <2>1. cpc # "msgrcv" /\ Owing = {}
    BY DEF Jammed
  <2>2. Len(queue) = Found
    BY <2>1, <1>1, FS_EmptySet DEF Tally, Waiting
  <2>3. Found = Capacity /\ Capacity \in Nat
    BY Facts
  <2> QED BY <2>1, <2>2, <2>3 DEF ClientSend, ClientReceive
<1>3. /\ queue' \in Seq(Messages)
      /\ Len(queue') + Cardinality(Owing') = Found' + Waiting'
      /\ requests' \in Nat /\ single_start' \in Int
      /\ Lengths'
  <2>1. CASE ClientSend
    <3> DEFINE m == Message(CLIENT_MESSAGE, Size)
    <3>1. m \in Messages /\ m.data = Size
      BY MqAssumption DEF Message, Messages
    <3>2. queue' = Append(queue, m)
      BY <2>1 DEF ClientSend
    <3> HIDE DEF m
    <3>3. /\ queue' \in Seq(Messages) /\ Len(queue') = Len(queue) + 1
          /\ \A i \in 1..(Len(queue) + 1) :
               queue'[i] = IF i <= Len(queue) THEN queue[i] ELSE m
      BY <3>1, <3>2, <1>1, PutIn
    <3>4. requests' \in Nat /\ single_start' \in Int
      BY <2>1, <1>1 DEF ClientSend, TypeOK
    <3>5. Waiting = 0 /\ Waiting' = 1 /\ unserved' = unserved
      BY <2>1, <1>1 DEF ClientSend, Waiting, setting
    <3>6. Lengths'
      <4> SUFFICES ASSUME NEW i \in 1..Len(queue'),
                          queue'[i].type = CLIENT_MESSAGE
                   PROVE  \/ queue'[i].data = Size
                          \/ unserved # 0 /\ queue'[i].data = unserved
        BY <3>5 DEF Lengths
      <4>1. CASE i \in 1..Len(queue)
        BY <4>1, <3>3, <1>1 DEF Lengths
      <4>2. CASE i = Len(queue) + 1
        BY <4>2, <3>1, <3>3, <1>1
      <4> QED BY <4>1, <4>2, <3>3, <1>1
    <3> QED BY <3>3, <3>4, <3>5, <3>6, <1>1 DEF Tally
  <2>2. CASE ClientReceive
    <3> DEFINE k == First(SERVER_MESSAGE)
    <3>1. k \in 1..Len(queue) /\ queue[k] \in Messages
      <4>1. k \in 1..Len(queue)
        BY <2>2, <1>1, FirstIs DEF ClientReceive
      <4> QED BY <1>1, <4>1, ElementOfSeq
    <3>2. /\ queue' \in Seq(Messages) /\ Len(queue') = Len(queue) - 1
          /\ \A i \in 1..(Len(queue) - 1) :
               queue'[i] = IF i < k THEN queue[i] ELSE queue[i + 1]
      BY <2>2, <1>1, TakeOut DEF ClientReceive
    <3>3. single_start' \in Int /\ requests' \in Nat /\ unserved' = unserved
      BY <2>2, <3>1, <1>1 DEF ClientReceive, Messages, TypeOK, setting
    <3>4. Lengths'
      BY <3>1, <3>2, <3>3, <1>1, LengthsRemove
    <3>5. Waiting = 1 /\ Waiting' = 0
      BY <2>2 DEF ClientReceive, Waiting
    <3>6. Len(queue) + Cardinality(Owing) = Found + 1
      BY <3>5, <1>1 DEF Tally
    <3>7. Len(queue') + Cardinality(Owing') = Found' + Waiting'
      <4>1. Len(queue') = Len(queue) - 1 /\ Owing' = Owing /\ Found' = Found
        BY <3>2, <1>1
      <4>2. /\ Len(queue) \in Int /\ Cardinality(Owing) \in Int
            /\ Found \in Int
        BY <1>1
      <4>3. (Len(queue) - 1) + Cardinality(Owing) = Found + 0
        BY <3>6, <4>2
      <4> QED BY <3>5, <4>1, <4>3
    <3> QED BY <3>2, <3>3, <3>4, <3>7
  <2> QED BY <2>1, <2>2
<1>4. TypeOK'
  BY <1>1, <1>3
  DEF TypeOK, Messages, setting, server, ClientSend, ClientReceive
<1>5. Backlog'
  <2>1. \A s \in Servers : Throws(s)'
    BY <1>1, BacklogIs DEF Throws, server, setting
  <2>2. (stale = Capacity => requests = 0)'
    BY <1>1, <1>2 DEF setting
  <2> QED BY <1>3, <1>4, <2>1, <2>2 DEF Backlog, Owing, Owes, Waiting, Throws
<1>6. SettingOK' /\ Jammed' /\ IsFiniteSet(Owing')
  BY <1>1, <1>2 DEF SettingOK, Jammed, setting, server
<1>7. Started' /\ Handshake'
  BY <1>1 DEF Started, Handshake, setting, server, ClientSend, ClientReceive
<1> QED BY <1>3, <1>5, <1>6, <1>7

(* The server's set-up and its one signal.                                 *)
LEMMA ServerSetupQueue ==
  ASSUME QueueInvariant, ServerMsgget \/ ServerUsleep \/ ServerNotify
  PROVE  QueueInvariant'
<1> USE DEF QueueInvariant
<1>1. /\ TypeOK /\ Tally /\ "server" \in Servers
      /\ UNCHANGED <<setting, queue, stamp, single_start, cnt, requests>>
      /\ "server" \notin OldServers
  BY BacklogIs, MqAssumption
  DEF ServerMsgget, ServerUsleep, ServerNotify, client, Servers
<1>2. PICK l \in {"usleep", "notify", "msgrcv"} :
        spc' = [spc EXCEPT !["server"] = l]
  BY DEF ServerMsgget, ServerUsleep, ServerNotify
<1>3. "server" \notin Owing /\ l \notin Owes
  BY DEF ServerMsgget, ServerUsleep, ServerNotify, Owing, Owes
<1>4. /\ IsFiniteSet(Owing') /\ Cardinality(Owing') = Cardinality(Owing)
      /\ Owing' = Owing /\ Found' = Found
  <2>1. Owing' = Owing
    BY <1>1, <1>2, <1>3 DEF Owing, TypeOK
  <2> QED BY <1>1, <2>1 DEF Found, setting
<1>5. /\ cpc' \in {cpc, "killed"} /\ pending' \in {0, 1} /\ exists' \in BOOLEAN
      /\ cpc # "msgrcv"
  BY <1>1 DEF ServerMsgget, ServerUsleep, ServerNotify, client, TypeOK, Started
<1>6. TypeOK'
  <2>1. spc' \in [Servers -> {"none", "forked", "usleep", "notify", "msgrcv",
                              "now", "msgsnd", "toobig", "short", "full"}]
    BY <1>1, <1>2 DEF TypeOK
  <2> QED BY <1>1, <1>5, <2>1 DEF TypeOK, setting
<1>7. Backlog'
  <2>1. Tally'
    BY <1>1, <1>4, <1>5 DEF Tally, Waiting
  <2>2. \A s \in Servers : Throws(s)'
    BY <1>1, <1>2, <1>4, BacklogIs DEF Throws, TypeOK, setting
  <2>3. (stale = Capacity => requests = 0)'
    BY <1>1 DEF Backlog, setting
  <2> QED BY <1>6, <2>1, <2>2, <2>3
          DEF Backlog, Tally, Owing, Owes, Waiting, Throws
<1>8. SettingOK' /\ Lengths' /\ Jammed'
  BY <1>1, <1>2, <1>4, <1>5
  DEF SettingOK, Lengths, Jammed, setting, TypeOK
<1>9. Started' /\ Handshake'
  <2>1. CASE ServerMsgget
    BY <2>1, <1>1 DEF ServerMsgget, Started, Handshake, client, setting, TypeOK
  <2>2. CASE ServerUsleep
    BY <2>2, <1>1
    DEF ServerUsleep, Started, Handshake, client, setting, TypeOK, Blocks
  <2>3. CASE ServerNotify
    BY <2>3, <1>1
    DEF ServerNotify, Started, Handshake, client, setting, TypeOK, Kills
  <2> QED BY <2>1, <2>2, <2>3
<1> QED BY <1>4, <1>7, <1>8, <1>9

(* A step of a server's loop.  l is where it leads; the rest is what the   *)
(* step has to keep.                                                       *)
LoopKeeps(s, l) ==
  /\ spc' = [spc EXCEPT ![s] = l]
  /\ queue' \in Seq(Messages) /\ stamp' \in [Servers -> Int]
  /\ Len(queue') + Cardinality(Owing') = Found + Waiting
  /\ IsFiniteSet(Owing')
  /\ Lengths' /\ Throws(s)' /\ stale # Capacity

(* msgrcv of a server: it throws at a request of another length only.      *)
LEMMA ReceiveKeeps ==
  ASSUME QueueInvariant, NEW s \in Servers, ServerReceive(s)
  PROVE  \E l \in {"now", "toobig", "short"} : LoopKeeps(s, l)
<1> USE DEF QueueInvariant
<1> DEFINE k == First(CLIENT_MESSAGE)
           m == queue[k].data
           l == IF m > size[s] THEN "toobig"
                ELSE IF m < size[s] THEN "short" ELSE "now"
<1>1. /\ TypeOK /\ Tally /\ Len(queue) \in Nat /\ queue \in Seq(Messages)
      /\ Found \in Nat /\ Waiting \in {0, 1} /\ Cardinality(Owing) \in Nat
  BY Facts
<1>2. /\ spc' = [spc EXCEPT ![s] = l] /\ spc[s] = "msgrcv"
      /\ queue' = IF m > size[s] THEN queue ELSE RemoveAt(queue, k)
      /\ stamp' \in [Servers -> Int] /\ Has(CLIENT_MESSAGE)
      /\ unserved' = unserved /\ size' = size /\ Found' = Found
      /\ l \in {"now", "toobig", "short"}
  BY <1>1 DEF ServerReceive, TypeOK, Found, setting
<1>3. /\ k \in 1..Len(queue) /\ queue[k].type = CLIENT_MESSAGE
      /\ m \in Int /\ size[s] \in Nat /\ unserved \in Nat
      /\ m = Size \/ (unserved # 0 /\ m = unserved)
  <2>1. k \in 1..Len(queue) /\ queue[k].type = CLIENT_MESSAGE
    BY <1>1, <1>2, FirstIs
  <2>2. m \in Int
    BY <2>1, Facts
  <2> QED BY <2>1, <2>2, <1>1 DEF Lengths, TypeOK
<1>4. stale # Capacity
  BY <1>3 DEF Jammed, CLIENT_MESSAGE, SERVER_MESSAGE
<1>5. s \notin Owing
  BY <1>2 DEF Owing, Owes
<1> HIDE DEF k, m
<1>6. Throws(s)'
  <2>1. spc'[s] = l
    BY <1>1, <1>2 DEF TypeOK
  <2>2. Size \in Nat
    BY MqAssumption
  <2> QED BY <2>1, <2>2, <1>2, <1>3 DEF Throws
<1>7. CASE m > size[s]
  <2>1. queue' = queue /\ l \notin Owes
    BY <1>2, <1>7 DEF Owes
  <2>2. /\ IsFiniteSet(Owing') /\ Cardinality(Owing') = Cardinality(Owing)
    BY <2>1, <1>1, <1>2, <1>5, OwingStep
  <2>3. Lengths'
    BY <2>1, <1>2 DEF Lengths
  <2> QED BY <2>1, <2>2, <2>3, <1>1, <1>2, <1>4, <1>6 DEF LoopKeeps, Tally
<1>8. CASE ~(m > size[s])
  <2>1. queue' = RemoveAt(queue, k) /\ l \in Owes
    BY <1>2, <1>8 DEF Owes
  <2>2. /\ queue' \in Seq(Messages) /\ Len(queue') = Len(queue) - 1
        /\ \A i \in 1..(Len(queue) - 1) :
             queue'[i] = IF i < k THEN queue[i] ELSE queue[i + 1]
    BY <2>1, <1>1, <1>2, TakeOut DEF k
  <2>3. IsFiniteSet(Owing') /\ Cardinality(Owing') = Cardinality(Owing) + 1
    BY <2>1, <1>1, <1>2, <1>5, OwingStep
  <2>4. Lengths'
    BY <2>2, <1>1, <1>2, <1>3, LengthsRemove
  <2>5. Len(queue') + Cardinality(Owing') = Found + Waiting
    BY <2>2, <2>3, <1>1 DEF Tally
  <2> QED BY <2>2, <2>3, <2>4, <2>5, <1>2, <1>4, <1>6 DEF LoopKeeps
<1> QED BY <1>7, <1>8

(* now() of a server.                                                      *)
LEMMA NowKeeps ==
  ASSUME QueueInvariant, NEW s \in Servers, ServerNow(s)
  PROVE  LoopKeeps(s, "msgsnd")
<1> USE DEF QueueInvariant
<1>1. /\ TypeOK /\ Tally /\ queue \in Seq(Messages)
      /\ spc' = [spc EXCEPT ![s] = "msgsnd"] /\ spc[s] = "now"
      /\ queue' = queue /\ unserved' = unserved
  BY Facts DEF ServerNow, setting
<1>2. s \in Owing /\ stale # Capacity /\ "msgsnd" \in Owes
  BY <1>1 DEF Owing, Owes, Jammed
<1>3. IsFiniteSet(Owing') /\ Cardinality(Owing') = Cardinality(Owing)
  BY <1>1, <1>2, OwingStep
<1>4. stamp' \in [Servers -> Int] /\ Lengths'
  BY <1>1 DEF ServerNow, TypeOK, Lengths
<1>5. Throws(s)'
  BY <1>1 DEF Throws, TypeOK
<1> QED BY <1>1, <1>2, <1>3, <1>4, <1>5 DEF LoopKeeps, Tally

(* msgsnd of a server: it has room for its answer, unless the request that *)
(* was found filled the queue.                                             *)
LEMMA SendKeeps ==
  ASSUME QueueInvariant, NEW s \in Servers, ServerSend(s)
  PROVE  \E l \in {"msgrcv", "full"} : LoopKeeps(s, l)
<1> USE DEF QueueInvariant
<1>1. /\ TypeOK /\ Tally /\ queue \in Seq(Messages) /\ Len(queue) \in Nat
      /\ Found \in Nat /\ stale \in Nat /\ stale <= Found
      /\ Found <= Capacity /\ Capacity \in Nat /\ Waiting \in {0, 1}
      /\ (stale < Found => unserved # 0)
      /\ stamp' = stamp /\ unserved' = unserved /\ Found' = Found
      /\ spc[s] = "msgsnd"
  BY Facts DEF ServerSend, setting, Found
<1>2. s \in Owing /\ stale # Capacity /\ Cardinality(Owing) \in Nat \ {0}
  <2>1. s \in Owing /\ stale # Capacity
    BY <1>1 DEF Owing, Owes, Jammed
  <2> QED BY <2>1, FS_EmptySet, FS_CardinalityType
<1>3. CASE Len(queue) < Capacity
  <2> DEFINE m == Message(SERVER_MESSAGE, stamp[s])
  <2>1. /\ spc' = [spc EXCEPT ![s] = "msgrcv"] /\ queue' = Append(queue, m)
        /\ "msgrcv" \notin Owes
    BY <1>3 DEF ServerSend, Owes
  <2>2. m \in Messages /\ m.type # CLIENT_MESSAGE /\ stamp' \in [Servers -> Int]
    BY <1>1 DEF Message, Messages, TypeOK, CLIENT_MESSAGE, SERVER_MESSAGE
  <2> HIDE DEF m
  <2>3. /\ queue' \in Seq(Messages) /\ Len(queue') = Len(queue) + 1
        /\ \A i \in 1..(Len(queue) + 1) :
             queue'[i] = IF i <= Len(queue) THEN queue[i] ELSE m
    BY <2>1, <2>2, <1>1, PutIn
  <2>4. IsFiniteSet(Owing') /\ Cardinality(Owing') = Cardinality(Owing) - 1
    BY <2>1, <1>1, <1>2, OwingStep
  <2>5. Lengths'
    <3> SUFFICES ASSUME NEW i \in 1..Len(queue'), queue'[i].type = CLIENT_MESSAGE
                 PROVE  \/ queue'[i].data = Size
                        \/ unserved # 0 /\ queue'[i].data = unserved
      BY <1>1 DEF Lengths
    <3>1. i \in 1..Len(queue) /\ queue'[i] = queue[i]
      BY <2>2, <2>3, <1>1
    <3> QED BY <3>1 DEF Lengths
  <2>6. Throws(s)'
    BY <2>1, <1>1 DEF Throws, TypeOK
  <2>7. Len(queue') + Cardinality(Owing') = Found + Waiting
    BY <2>3, <2>4, <1>1, <1>2 DEF Tally
  <2> QED BY <2>1, <2>2, <2>3, <2>4, <2>5, <2>6, <2>7, <1>2 DEF LoopKeeps
<1>4. CASE ~(Len(queue) < Capacity)
  <2>1. /\ spc' = [spc EXCEPT ![s] = "full"] /\ queue' = queue
        /\ "full" \in Owes
    BY <1>4 DEF ServerSend, Owes
  <2>2. Found = Capacity
    BY <1>1, <1>2, <1>4 DEF Tally
  <2>3. unserved # 0
    BY <1>1, <1>2, <2>2
  <2>4. IsFiniteSet(Owing') /\ Cardinality(Owing') = Cardinality(Owing)
    BY <2>1, <1>1, <1>2, OwingStep
  <2>5. Throws(s)' /\ Lengths' /\ stamp' \in [Servers -> Int]
    BY <2>1, <2>2, <2>3, <1>1 DEF Throws, Lengths, TypeOK
  <2> QED BY <2>1, <2>4, <2>5, <1>1, <1>2 DEF LoopKeeps, Tally
<1> QED BY <1>3, <1>4

(* The loop of a server, of this run or an earlier one.                    *)
LEMMA LoopQueue ==
  ASSUME QueueInvariant, NEW s \in Servers, Loop(s)
  PROVE  QueueInvariant'
<1> USE DEF QueueInvariant
<1>1. TypeOK /\ UNCHANGED <<setting, exists, client>> /\ Found' = Found
  BY BacklogIs DEF Loop, ServerReceive, ServerNow, ServerSend, setting, Found
<1>2. Waiting' = Waiting
  BY <1>1 DEF Waiting, client
<1>3. PICK l \in {"msgrcv", "now", "msgsnd", "toobig", "short", "full"} :
        LoopKeeps(s, l)
  <2>1. CASE ServerReceive(s)
    BY <2>1, ReceiveKeeps
  <2>2. CASE ServerNow(s)
    BY <2>2, NowKeeps
  <2>3. CASE ServerSend(s)
    BY <2>3, SendKeeps
  <2> QED BY <2>1, <2>2, <2>3 DEF Loop
<1>4. TypeOK'
  <2>1. spc' \in [Servers -> {"none", "forked", "usleep", "notify", "msgrcv",
                              "now", "msgsnd", "toobig", "short", "full"}]
    BY <1>1, <1>3 DEF TypeOK, LoopKeeps
  <2> QED BY <1>1, <1>3, <2>1 DEF TypeOK, Messages, setting, client, LoopKeeps
<1>5. Backlog'
  <2>1. Tally'
    BY <1>1, <1>2, <1>3 DEF Tally, LoopKeeps
  <2>2. ASSUME NEW t \in Servers, t # s PROVE Throws(t)'
    BY <2>2, <1>1, <1>3, BacklogIs DEF Throws, LoopKeeps, TypeOK, setting
  <2>3. \A t \in Servers : Throws(t)'
    BY <2>2, <1>3 DEF LoopKeeps
  <2>4. (stale = Capacity => requests = 0)'
    BY <1>1, <1>3 DEF LoopKeeps, setting
  <2> QED BY <1>4, <2>1, <2>3, <2>4
          DEF Backlog, Tally, Owing, Owes, Waiting, Throws
<1>6. spc[s] \in {"msgrcv", "now", "msgsnd"}
  BY DEF Loop, ServerReceive, ServerNow, ServerSend
<1>7. SettingOK' /\ Jammed'
  BY <1>1, <1>3, <1>6
  DEF SettingOK, Jammed, setting, LoopKeeps, TypeOK, Servers
<1>8. Started' /\ Handshake'
  BY <1>1, <1>3, <1>6
  DEF Started, Handshake, setting, client, TypeOK, Servers, LoopKeeps
<1> QED BY <1>3, <1>5, <1>7, <1>8 DEF LoopKeeps

(* The invariant of the handshake and the backlog holds in every state.    *)
THEOREM QueueSafe == Spec => []QueueInvariant
<1>1. QueueInvariant /\ [Next]_vars => QueueInvariant'
  <2> SUFFICES ASSUME QueueInvariant, [Next]_vars PROVE QueueInvariant'
    OBVIOUS
  <2>1. CASE Client
    BY <2>1, ClientQuietQueue, ClientQueue DEF Client
  <2>2. CASE Server
    BY <2>2, ServerSetupQueue, LoopQueue DEF Server, Servers
  <2>3. CASE \E s \in OldServers : Loop(s)
    BY <2>3, LoopQueue DEF Servers
  <2>4. CASE UNCHANGED vars
    <3>1. Owing' = Owing /\ Found' = Found
      BY <2>4 DEF Owing, vars, server, Found, setting
    <3> QED
      BY <2>4, <3>1
      DEF QueueInvariant, SettingOK, Lengths, Jammed, Started, Handshake,
          Backlog, TypeOK, vars, setting, server, client
  <2> QED BY <2>1, <2>2, <2>3, <2>4 DEF Next
<1> QED BY InitQueue, <1>1, PTL DEF Spec

(* The signal of a server whose sleep was long enough kills nobody, and    *)
(* no client looks for a queue that is not there.                          *)
THEOREM HandshakeSafe == Spec => []Handshake
<1>1. QueueInvariant => Handshake
  BY DEF QueueInvariant
<1> QED BY QueueSafe, <1>1, PTL

(* No request is lost but with a server that throws, and a server throws   *)
(* only for a request of another length than its -s or for a queue that    *)
(* the request found filled, whatever the sizes of the earlier runs.       *)
THEOREM BacklogSafe == Spec => []Backlog
<1>1. QueueInvariant => Backlog
  BY DEF QueueInvariant
<1> QED BY QueueSafe, <1>1, PTL

(* The client's msgsnd finds room unless the queue was found full.  If     *)
(* what was found is harmless, then while the client waits for a reply one *)
(* is in the queue, or a server works on one, or the server of this run is *)
(* there to take a request that is.                                        *)
NotStuck ==
  /\ cpc = "msgsnd" /\ Found < Capacity => Len(queue) < Capacity
  /\ Harmless /\ cpc = "msgrcv" =>
       \/ Has(SERVER_MESSAGE)
       \/ \E s \in Servers : spc[s] \in {"now", "msgsnd"}
       \/ Has(CLIENT_MESSAGE) /\ spc["server"] = "msgrcv"

(* Of what was found only a full queue, an old server with a larger -s and *)
(* a request of another length can make the client wait for ever: the      *)
(* safety part of Answered.                                                *)
THEOREM NoDeadlock == Spec => []NotStuck
<1>1. QueueInvariant => NotStuck
  <2> SUFFICES ASSUME QueueInvariant PROVE NotStuck
    OBVIOUS
  <2>1. /\ Tally /\ queue \in Seq(Messages) /\ Len(queue) \in Nat
        /\ Found \in Nat /\ Capacity \in Nat /\ Cardinality(Owing) \in Nat
        /\ TypeOK /\ "server" \in Servers
    BY Facts
  <2>2. ASSUME cpc = "msgsnd", Found < Capacity PROVE Len(queue) < Capacity
    BY <2>1, <2>2 DEF Tally, Waiting
  <2>3. ASSUME Harmless
        PROVE  /\ \A s \in Servers : spc[s] \notin {"short", "full"}
               /\ spc["server"] # "toobig"
    <3>1. \A s \in Servers : Throws(s)
      BY BacklogIs DEF QueueInvariant
    <3>2. Size \in Nat /\ unserved \in Nat /\ \A s \in Servers : size[s] \in Nat
      BY <2>1, MqAssumption DEF TypeOK
    <3>3. spc["server"] # "toobig"
      BY <2>1, <2>3, <3>1, <3>2
      DEF Throws, Harmless, QueueInvariant, SettingOK
    <3>4. ASSUME NEW s \in Servers, spc[s] \in {"short", "full"} PROVE FALSE
      <4>1. size[s] <= Size
        BY <2>3, <3>2, <3>4
        DEF Harmless, QueueInvariant, SettingOK, Servers
      <4>2. CASE spc[s] = "full"
        BY <4>2, <2>1, <2>3, <3>1 DEF Throws, Harmless
      <4>3. CASE spc[s] = "short"
        BY <4>1, <4>3, <2>3, <3>1, <3>2 DEF Throws, Harmless
      <4> QED BY <3>4, <4>2, <4>3
    <3> QED BY <3>3, <3>4
  <2>4. ASSUME Harmless, cpc = "msgrcv", Owing = {}
        PROVE  \/ Has(SERVER_MESSAGE)
               \/ Has(CLIENT_MESSAGE) /\ spc["server"] = "msgrcv"
    <3>1. Len(queue) > 0
      BY <2>1, <2>4, FS_EmptySet DEF Tally, Waiting
    <3>2. 1 \in DOMAIN queue /\ queue[1] \in Messages
      BY <2>1, <3>1
    <3>3. spc["server"] = "msgrcv"
      BY <2>1, <2>3, <2>4
      DEF QueueInvariant, Started, SettingOK, TypeOK, Owing, Owes
    <3> QED BY <3>2, <3>3 DEF Has, Messages
  <2> QED BY <2>2, <2>3, <2>4 DEF NotStuck, Owing, Owes
<1> QED BY QueueSafe, <1>1, PTL

-----------------------------------------------------------------------------
(* The count over one place more.                                          *)
LEMMA CountsAppend ==
  ASSUME NEW n \in Nat, NEW e \in [1..n -> {0, 1}],
         NEW f \in [1..(n + 1) -> {0, 1}],
         \A i \in 1..n : f[i] = e[i],
         NEW r \in [0..n -> Nat], Counts(n, e, r)
  PROVE  \E t \in [0..(n + 1) -> Nat] :
           /\ Counts(n + 1, f, t)
           /\ \A i \in 0..n : t[i] = r[i]
           /\ t[n + 1] = r[n] + f[n + 1]
<1>a. r[0] = 0
  BY DEF Counts
<1>b. \A i \in 1..n : r[i] = r[i - 1] + e[i]
  BY DEF Counts
<1>c. \A i \in 0..n : \A j \in 0..n :
        i <= j => r[i] <= r[j] /\ r[j] - r[i] <= j - i
  BY DEF Counts
<1>d. 0 \in 0..n /\ \A i \in 0..n : r[i] \in Nat
  OBVIOUS
<1> DEFINE t == [i \in 0..(n + 1) |-> IF i <= n THEN r[i] ELSE r[n] + f[n + 1]]
<1>1. f[n + 1] \in {0, 1} /\ n \in 0..n /\ r[n] \in Nat
  OBVIOUS
<1>2. t \in [0..(n + 1) -> Nat]
  BY <1>1
<1>3. \A i \in 0..n : t[i] = r[i]
  OBVIOUS
<1>4. t[n + 1] = r[n] + f[n + 1]
  OBVIOUS
<1> HIDE DEF t
<1>5. Counts(n + 1, f, t)
  <2>1. t[0] = 0
    BY <1>3, <1>a, <1>d
  <2>2. ASSUME NEW i \in 1..(n + 1) PROVE t[i] = t[i - 1] + f[i]
    <3>1. CASE i = n + 1
      BY <3>1, <1>3, <1>4
    <3>2. CASE i \in 1..n
      <4>1. i \in 0..n /\ i - 1 \in 0..n
        BY <3>2
      <4> QED BY <3>2, <4>1, <1>3, <1>b
    <3> QED BY <3>1, <3>2
  <2>3. ASSUME NEW i \in 0..(n + 1), NEW j \in 0..(n + 1), i <= j
        PROVE  t[i] <= t[j] /\ t[j] - t[i] <= j - i
    <3>1. CASE j \in 0..n
      <4>1. i \in 0..n
        BY <3>1, <2>3
      <4> QED BY <3>1, <4>1, <2>3, <1>3, <1>c
    <3>2. CASE j = n + 1 /\ i \in 0..n
      <4>1. r[i] <= r[n] /\ r[n] - r[i] <= n - i /\ r[i] \in Nat
        BY <3>2, <1>1, <1>c, <1>d
      <4> QED BY <3>2, <4>1, <1>1, <1>3, <1>4
    <3>3. CASE i = n + 1 /\ j = n + 1
      BY <3>3, <1>1, <1>4
    <3> QED BY <3>1, <3>2, <3>3, <2>3
  <2> QED BY <2>1, <2>2, <2>3 DEF Counts
<1> QED BY <1>2, <1>3, <1>4, <1>5

(* The count without the k-th place.                                       *)
LEMMA CountsRemove ==
  ASSUME NEW n \in Nat, NEW k \in 1..n, NEW e \in [1..n -> {0, 1}],
         NEW f \in [1..(n - 1) -> {0, 1}],
         \A i \in 1..(n - 1) : f[i] = IF i < k THEN e[i] ELSE e[i + 1],
         NEW r \in [0..n -> Nat], Counts(n, e, r)
  PROVE  \E t \in [0..(n - 1) -> Nat] :
           /\ Counts(n - 1, f, t)
           /\ \A i \in 0..(n - 1) : t[i] = IF i < k THEN r[i] ELSE r[i + 1] - e[k]
           /\ t[n - 1] = r[n] - e[k]
<1>a. r[0] = 0
  BY DEF Counts
<1>b. \A i \in 1..n : r[i] = r[i - 1] + e[i]
  BY DEF Counts
<1>c. \A i \in 0..n : \A j \in 0..n :
        i <= j => r[i] <= r[j] /\ r[j] - r[i] <= j - i
  BY DEF Counts
<1>d. 0 \in 0..n /\ \A i \in 0..n : r[i] \in Nat
  OBVIOUS
<1> DEFINE d == e[k]
           t == [i \in 0..(n - 1) |-> IF i < k THEN r[i] ELSE r[i + 1] - d]
<1>1. /\ d \in {0, 1} /\ k \in 0..n /\ k - 1 \in 0..n
      /\ r[k] \in Nat /\ r[k - 1] \in Nat /\ r[k] = r[k - 1] + d
  BY <1>b, <1>d
<1>f. d \in Int /\ 0 <= d /\ d <= 1 /\ r[k] \in Int /\ d <= r[k]
  BY <1>1
<1>2. \A i \in 0..(n - 1) : t[i] = IF i < k THEN r[i] ELSE r[i + 1] - d
  OBVIOUS
<1>3. \A i \in 0..(n - 1) :
        i + 1 \in 0..n /\ i \in 0..n /\ r[i] \in Nat /\ r[i + 1] \in Nat
  OBVIOUS
<1>4. \A i \in k..(n - 1) : r[k] <= r[i + 1]
  <2> TAKE i \in k..(n - 1)
  <2>1. i + 1 \in 0..n /\ k <= i + 1
    OBVIOUS
  <2> QED BY <1>1, <2>1, <1>c
<1>5. t \in [0..(n - 1) -> Nat]
  <2> HIDE DEF d
  <2> SUFFICES ASSUME NEW i \in 0..(n - 1)
               PROVE  (IF i < k THEN r[i] ELSE r[i + 1] - d) \in Nat
    OBVIOUS
  <2>1. CASE i < k
    BY <2>1, <1>3
  <2>2. CASE i >= k
    <3>1. i \in k..(n - 1)
      BY <2>2
    <3>2. r[k] <= r[i + 1] /\ r[i + 1] \in Nat
      BY <3>1, <1>3, <1>4
    <3>3. r[i + 1] - d \in Nat
      BY <3>2, <1>f
    <3> QED BY <2>2, <3>3
  <2> QED BY <2>1, <2>2
<1> HIDE DEF d, t
<1>6. \A i \in 1..(n - 1) : t[i] = t[i - 1] + f[i]
  <2> TAKE i \in 1..(n - 1)
  <2>0. i \in 0..(n - 1) /\ i - 1 \in 0..(n - 1) /\ i \in 1..n /\ i + 1 \in 1..n
    OBVIOUS
  <2>1. CASE i < k
    BY <2>1, <2>0, <1>2, <1>b
  <2>2. CASE i >= k
    <3>1. t[i] = r[i + 1] - d /\ f[i] = e[i + 1] /\ r[i + 1] = r[i] + e[i + 1]
      BY <2>2, <2>0, <1>2, <1>b
    <3>2. t[i - 1] = r[i] - d
      <4>1. CASE i = k
        BY <4>1, <2>0, <1>1, <1>2
      <4>2. CASE i > k
        BY <4>2, <2>0, <1>2
      <4> QED BY <2>2, <4>1, <4>2
    <3>3. e[i + 1] \in Int /\ r[i] \in Int /\ d \in Int
      BY <2>0, <1>3, <1>f
    <3>4. (r[i] + e[i + 1]) - d = (r[i] - d) + e[i + 1]
      BY <3>3
    <3> QED BY <3>1, <3>2, <3>4
  <2> QED BY <2>1, <2>2
<1>7. \A i \in 0..(n - 1) : \A j \in 0..(n - 1) :
        i <= j => t[i] <= t[j] /\ t[j] - t[i] <= j - i
  <2> SUFFICES ASSUME NEW i \in 0..(n - 1), NEW j \in 0..(n - 1), i <= j
               PROVE  t[i] <= t[j] /\ t[j] - t[i] <= j - i
    OBVIOUS
  <2>1. CASE j < k
    <3>1. t[i] = r[i] /\ t[j] = r[j]
      BY <2>1, <1>2
    <3> QED BY <3>1, <1>3, <1>c
  <2>2. CASE i < k /\ j >= k
    <3>1. t[i] = r[i] /\ t[j] = r[j + 1] - d
      BY <2>2, <1>2
    <3>2. r[i] \in Nat /\ r[i] <= r[k - 1] /\ r[k - 1] - r[i] <= (k - 1) - i
      <4>1. i <= k - 1
        BY <2>2
      <4> QED BY <4>1, <1>1, <1>3, <1>c
    <3>3. r[j + 1] \in Nat /\ r[k] <= r[j + 1] /\ r[j + 1] - r[k] <= (j + 1) - k
      <4>1. k <= j + 1
        BY <2>2
      <4> QED BY <4>1, <1>1, <1>3, <1>c
    <3>4. /\ r[i] <= r[j + 1] - d /\ (r[j + 1] - d) - r[i] <= j - i
      <4>1. r[k] = r[k - 1] + d
        BY <1>1
      <4>2. \A ri, rp, rk, rj, x \in Int :
              /\ rk = rp + x /\ ri <= rp /\ rp - ri <= (k - 1) - i
              /\ rk <= rj /\ rj - rk <= (j + 1) - k
              => ri <= rj - x /\ (rj - x) - ri <= j - i
        OBVIOUS
      <4>3. r[i] \in Int /\ r[k - 1] \in Int /\ r[k] \in Int /\ r[j + 1] \in Int
        BY <3>2, <3>3, <1>1
      <4> QED BY <4>1, <4>2, <4>3, <3>2, <3>3, <1>f, Zenon
    <3> QED BY <3>1, <3>4
  <2>3. CASE i >= k
    <3>1. t[i] = r[i + 1] - d /\ t[j] = r[j + 1] - d
      BY <2>3, <1>2
    <3>2. /\ r[i + 1] \in Nat /\ r[j + 1] \in Nat /\ r[i + 1] <= r[j + 1]
          /\ r[j + 1] - r[i + 1] <= (j + 1) - (i + 1)
      <4>1. i + 1 <= j + 1 /\ i + 1 \in 0..n /\ j + 1 \in 0..n
        OBVIOUS
      <4> QED BY <4>1, <1>3, <1>c
    <3>3. /\ r[i + 1] - d <= r[j + 1] - d
          /\ (r[j + 1] - d) - (r[i + 1] - d) <= j - i
      BY <3>2, <1>f
    <3> QED BY <3>1, <3>3
  <2> QED BY <2>1, <2>2, <2>3
<1>8. t[0] = 0
  BY <1>2, <1>a, <1>d
<1>9. t[n - 1] = r[n] - d
  <2>1. n - 1 \in 0..(n - 1)
    OBVIOUS
  <2>2. CASE k = n
    BY <2>1, <2>2, <1>1, <1>2
  <2>3. CASE k < n
    BY <2>1, <2>3, <1>2
  <2> QED BY <2>2, <2>3
<1>10. Counts(n - 1, f, t)
  BY <1>6, <1>7, <1>8 DEF Counts
<1> QED BY <1>2, <1>5, <1>9, <1>10 DEF d

(* The ranks in a queue with one message more.                             *)
LEMMA RanksAppend ==
  ASSUME NEW q \in Seq(Messages), NEW m \in Messages,
         NEW r \in [0..Len(q) -> Nat], Ranks(q, r)
  PROVE  \E t \in [0..Len(Append(q, m)) -> Nat] :
           /\ Ranks(Append(q, m), t)
           /\ \A i \in 0..Len(q) : t[i] = r[i]
           /\ t[Len(q) + 1] =
                r[Len(q)] + (IF m.type = SERVER_MESSAGE THEN 1 ELSE 0)
<1> DEFINE e == Kinds(q)
           f == Kinds(Append(q, m))
<1>1. /\ Len(q) \in Nat /\ Len(Append(q, m)) = Len(q) + 1
      /\ \A i \in 1..Len(q) : Append(q, m)[i] = q[i]
      /\ Append(q, m)[Len(q) + 1] = m
  BY LenProperties
<1>2. e \in [1..Len(q) -> {0, 1}]
  BY <1>1 DEF Kinds
<1>3. /\ f \in [1..(Len(q) + 1) -> {0, 1}]
      /\ \A i \in 1..(Len(q) + 1) :
           f[i] = IF Append(q, m)[i].type = SERVER_MESSAGE THEN 1 ELSE 0
  BY <1>1 DEF Kinds
<1>4. /\ \A i \in 1..Len(q) : f[i] = e[i]
      /\ f[Len(q) + 1] = IF m.type = SERVER_MESSAGE THEN 1 ELSE 0
  BY <1>1, <1>3 DEF Kinds
<1>5. Counts(Len(q), e, r)
  BY DEF Ranks
<1> HIDE DEF e, f
<1>6. \E t \in [0..(Len(q) + 1) -> Nat] :
        /\ Counts(Len(q) + 1, f, t)
        /\ \A i \in 0..Len(q) : t[i] = r[i]
        /\ t[Len(q) + 1] = r[Len(q)] + f[Len(q) + 1]
  BY <1>1, <1>2, <1>3, <1>4, <1>5, CountsAppend
<1> QED BY <1>1, <1>4, <1>6, Zenon DEF Ranks, f

(* The ranks in a queue without its k-th message.                          *)
LEMMA RanksRemove ==
  ASSUME NEW q \in Seq(Messages), NEW k \in 1..Len(q),
         NEW d, d = IF q[k].type = SERVER_MESSAGE THEN 1 ELSE 0,
         NEW r \in [0..Len(q) -> Nat], Ranks(q, r)
  PROVE  /\ r[k] = r[k - 1] + d /\ r[k - 1] \in Nat
         /\ \E t \in [0..Len(RemoveAt(q, k)) -> Nat] :
              /\ Ranks(RemoveAt(q, k), t)
              /\ \A i \in 0..(Len(q) - 1) :
                   t[i] = IF i < k THEN r[i] ELSE r[i + 1] - d
              /\ t[Len(q) - 1] = r[Len(q)] - d
<1> DEFINE p == RemoveAt(q, k)
           e == Kinds(q)
           f == Kinds(p)
<1>1. /\ Len(q) \in Nat /\ p \in Seq(Messages) /\ Len(p) = Len(q) - 1
      /\ \A i \in 1..(Len(q) - 1) : p[i] = IF i < k THEN q[i] ELSE q[i + 1]
  BY RemoveAtIs, LenProperties
<1> HIDE DEF p
<1>2. /\ e \in [1..Len(q) -> {0, 1}]
      /\ \A i \in 1..Len(q) :
           e[i] = IF q[i].type = SERVER_MESSAGE THEN 1 ELSE 0
  BY <1>1 DEF Kinds
<1>3. /\ f \in [1..(Len(q) - 1) -> {0, 1}]
      /\ \A i \in 1..(Len(q) - 1) :
           f[i] = IF p[i].type = SERVER_MESSAGE THEN 1 ELSE 0
  BY <1>1 DEF Kinds
<1> HIDE DEF e, f
<1>4. \A i \in 1..(Len(q) - 1) : f[i] = IF i < k THEN e[i] ELSE e[i + 1]
  <2> TAKE i \in 1..(Len(q) - 1)
  <2>1. i \in 1..Len(q) /\ i + 1 \in 1..Len(q)
    BY <1>1
  <2> QED BY <2>1, <1>1, <1>2, <1>3
<1>5. Counts(Len(q), e, r) /\ e[k] = d
  BY <1>2 DEF Ranks, e
<1>6. r[k] = r[k - 1] + d /\ r[k - 1] \in Nat
  <2>1. k - 1 \in 0..Len(q)
    BY <1>1
  <2> QED BY <2>1, <1>5 DEF Counts
<1>7. \E t \in [0..(Len(q) - 1) -> Nat] :
        /\ Counts(Len(q) - 1, f, t)
        /\ \A i \in 0..(Len(q) - 1) :
             t[i] = IF i < k THEN r[i] ELSE r[i + 1] - e[k]
        /\ t[Len(q) - 1] = r[Len(q)] - e[k]
  <2>1. /\ Len(q) \in Nat /\ e \in [1..Len(q) -> {0, 1}]
        /\ f \in [1..(Len(q) - 1) -> {0, 1}] /\ Counts(Len(q), e, r)
    BY <1>1, <1>2, <1>3, <1>5
  <2> QED BY <2>1, <1>4, CountsRemove, Zenon
<1> QED BY <1>1, <1>5, <1>6, <1>7, Zenon DEF Ranks, f, p

-----------------------------------------------------------------------------
(* With no earlier server attached, the one that runs is this run's.       *)
LEMMA OneServer ==
  ASSUME QueueInvariant, attached = {}, NEW s \in Servers, Loop(s)
  PROVE  s = "server"
<1>1. spc[s] # "none"
  BY DEF Loop, ServerReceive, ServerNow, ServerSend
<1> QED BY <1>1 DEF QueueInvariant, SettingOK, Servers

(* The messages that are found satisfy the invariant: the replies come     *)
(* first, the i-th has rank i, and a request has the rank of the last.     *)
LEMMA InitLag == Init => LagInvariant
<1> SUFFICES ASSUME Init PROVE LagInvariant
  OBVIOUS
<1>1. QueueInvariant
  BY InitQueue
<1>2. /\ stale \in Nat /\ Found \in Nat /\ stale <= Found /\ Found <= stale + 1
      /\ Waiting = 0 /\ Taken = 0 /\ requests = 0 /\ Len(queue) = Found
      /\ \A i \in 1..Found :
           queue[i] = IF i <= stale THEN Message(SERVER_MESSAGE, i - stale)
                      ELSE Message(CLIENT_MESSAGE, unserved)
      /\ cpc = "forked" /\ "server" \in Servers
  <2>1. stale \in Nat /\ Found \in Nat /\ stale <= Found /\ "server" \in Servers
    BY <1>1, Facts
  <2>2. Found <= stale + 1
    BY <2>1 DEF Found
  <2> QED BY <2>1, <2>2 DEF Init, Waiting, Taken
<1>3. \A i \in 1..Found :
        IF i <= stale
        THEN queue[i].type = SERVER_MESSAGE /\ queue[i].data = i - stale
        ELSE queue[i].type # SERVER_MESSAGE
  BY <1>2 DEF Message, CLIENT_MESSAGE, SERVER_MESSAGE
<1>4. \A s \in Servers : stamp[s] = 0 /\ spc[s] # "msgsnd"
  BY DEF Init
<1>5. Stamps
  BY <1>2, <1>3, <1>4 DEF Stamps
<1>6. OldFirst
  BY <1>2 DEF OldFirst
<1>7. InOrder
  <2> DEFINE r == [i \in 0..Found |-> IF i <= stale THEN i ELSE stale]
             e == Kinds(queue)
  <2>1. \A i \in 1..Found : e[i] = IF i <= stale THEN 1 ELSE 0
    BY <1>2, <1>3 DEF Kinds
  <2>2. /\ r \in [0..Found -> Nat]
        /\ \A i \in 0..Found : r[i] = IF i <= stale THEN i ELSE stale
    BY <1>2
  <2> HIDE DEF r, e
  <2>3. r[0] = 0
    BY <1>2, <2>2
  <2>4. \A i \in 1..Found : r[i] = r[i - 1] + e[i]
    <3> TAKE i \in 1..Found
    <3>1. i \in 0..Found /\ i - 1 \in 0..Found
      BY <1>2
    <3> QED BY <3>1, <1>2, <2>1, <2>2
  <2>5. \A i \in 0..Found : \A j \in 0..Found :
          i <= j => r[i] <= r[j] /\ r[j] - r[i] <= j - i
    BY <1>2, <2>2
  <2>6. Ranks(queue, r)
    BY <1>2, <2>3, <2>4, <2>5 DEF Ranks, Counts, e
  <2>7. \A i \in 1..Len(queue) : queue[i].type = SERVER_MESSAGE =>
          queue[i].data >= Taken + r[i] - Found
    <3> SUFFICES ASSUME NEW i \in 1..Found, queue[i].type = SERVER_MESSAGE
                 PROVE  queue[i].data >= Taken + r[i] - Found
      BY <1>2
    <3>1. i <= stale /\ queue[i].data = i - stale
      BY <1>3
    <3>2. r[i] = i
      BY <3>1, <1>2, <2>2
    <3> QED BY <3>1, <3>2, <1>2
  <2> QED BY <1>2, <1>4, <2>2, <2>6, <2>7 DEF InOrder
<1>8. Lag
  BY <1>2 DEF Lag
<1> QED BY <1>5, <1>6, <1>7, <1>8 DEF LagInvariant

(* The steps that touch neither messages nor timestamps.                   *)
LEMMA QuietLag ==
  ASSUME LagInvariant,
         UNCHANGED <<setting, queue, stamp, requests, single_start>>,
         cpc' = "msgrcv" <=> cpc = "msgrcv",
         cpc' = "benchmark" => cpc = "benchmark",
         \A s \in Servers : spc'[s] = "msgsnd" => spc[s] = "msgsnd"
  PROVE  LagInvariant'
<1>1. /\ stale' = stale /\ Found' = Found /\ attached' = attached /\ queue' = queue
      /\ stamp' = stamp /\ requests' = requests /\ Taken' = Taken
      /\ single_start' = single_start /\ "server" \in Servers
  BY DEF setting, Found, Taken, Waiting, Servers
<1>2. Stamps'
  BY <1>1 DEF LagInvariant, Stamps
<1>3. OldFirst'
  BY <1>1 DEF LagInvariant, OldFirst
<1>4. InOrder'
  BY <1>1 DEF LagInvariant, InOrder
<1>5. Lag'
  BY <1>1 DEF LagInvariant, Lag
<1> QED BY <1>2, <1>3, <1>4, <1>5 DEF LagInvariant

(* A server reads the clock: fewer replies are in front of its own than    *)
(* requests were made.                                                     *)
LEMMA ServerNowLag ==
  ASSUME QueueInvariant, LagInvariant, NEW s \in Servers, ServerNow(s)
  PROVE  LagInvariant'
<1>1. /\ stale' = stale /\ Found' = Found /\ attached' = attached /\ queue' = queue
      /\ requests' = requests /\ Taken' = Taken /\ cpc' = cpc
      /\ single_start' = single_start
  BY DEF ServerNow, setting, Found, client, Taken, Waiting
<1>2. /\ stamp' = [stamp EXCEPT ![s] = requests]
      /\ spc' = [spc EXCEPT ![s] = "msgsnd"]
      /\ TypeOK /\ requests \in Nat
  BY Facts DEF ServerNow
<1>3. /\ \A t \in Servers : stamp'[t] = IF t = s THEN requests ELSE stamp[t]
      /\ \A t \in Servers : spc'[t] = IF t = s THEN "msgsnd" ELSE spc[t]
  BY <1>2 DEF TypeOK
<1>4. Stamps'
  BY <1>1, <1>2, <1>3 DEF LagInvariant, Stamps, TypeOK
<1>5. OldFirst' /\ Lag'
  BY <1>1 DEF LagInvariant, OldFirst, Lag
<1>6. InOrder'
  <2> SUFFICES ASSUME attached = {}
               PROVE  \E r \in [0..Len(queue) -> Nat] :
                        /\ Ranks(queue, r)
                        /\ \A i \in 1..Len(queue) :
                             queue[i].type = SERVER_MESSAGE =>
                               queue[i].data >= Taken + r[i] - Found
                        /\ spc'["server"] = "msgsnd" =>
                             stamp'["server"] >= Taken + r[Len(queue)] + 1 - Found
    BY <1>1 DEF InOrder
  <2>1. s = "server"
    BY OneServer DEF Loop
  <2>2. PICK r \in [0..Len(queue) -> Nat] :
          /\ Ranks(queue, r)
          /\ \A i \in 1..Len(queue) :
               queue[i].type = SERVER_MESSAGE =>
                 queue[i].data >= Taken + r[i] - Found
    BY DEF LagInvariant, InOrder
  <2>3. s \in Owing
    BY DEF ServerNow, Owing, Owes
  <2>4. /\ Cardinality(Owing) \in Nat \ {0}
        /\ Len(queue) + Cardinality(Owing) = Found + Waiting
        /\ Taken = requests - Waiting /\ Waiting \in {0, 1}
        /\ Found \in Nat /\ Len(queue) \in Nat
    <3>1. Cardinality(Owing) # 0
      BY <2>3, FS_EmptySet DEF QueueInvariant
    <3> QED BY <3>1, Facts DEF Tally
  <2>5. r[Len(queue)] \in Nat /\ r[Len(queue)] <= Len(queue)
    <3>1. /\ 0 \in 0..Len(queue) /\ Len(queue) \in 0..Len(queue)
          /\ 0 <= Len(queue)
      BY <2>4
    <3>2. r[0] = 0 /\ r[Len(queue)] - r[0] <= Len(queue) - 0
      BY <2>2, <3>1 DEF Ranks, Counts
    <3>3. r[Len(queue)] \in Nat
      BY <3>1
    <3> QED BY <3>2, <3>3, <2>4
  <2>6. requests >= Taken + r[Len(queue)] + 1 - Found
    BY <1>2, <2>4, <2>5
  <2>7. stamp'["server"] = requests
    BY <2>1, <1>3
  <2> QED BY <2>2, <2>6, <2>7
<1> QED BY <1>4, <1>5, <1>6 DEF LagInvariant

(* A server's answer is the newest reply in the queue.                     *)
LEMMA ServerPutLag ==
  ASSUME QueueInvariant, LagInvariant, NEW s \in Servers, ServerSend(s),
         Len(queue) < Capacity
  PROVE  LagInvariant'
<1> DEFINE m == Message(SERVER_MESSAGE, stamp[s])
<1>1. /\ stale' = stale /\ Found' = Found /\ attached' = attached /\ stamp' = stamp
      /\ requests' = requests /\ Taken' = Taken /\ cpc' = cpc
      /\ single_start' = single_start /\ spc[s] = "msgsnd"
  BY DEF ServerSend, setting, Found, client, Taken, Waiting
<1>2. /\ TypeOK /\ queue \in Seq(Messages) /\ Len(queue) \in Nat
      /\ stale \in Nat /\ Found \in Nat /\ requests \in Nat /\ Taken \in Int
      /\ \A i \in 1..Len(queue) : queue[i].data \in Int
      /\ \A t \in Servers : stamp[t] \in Int
  BY Facts
<1>3. queue' = Append(queue, m) /\ spc' = [spc EXCEPT ![s] = "msgrcv"]
  BY DEF ServerSend
<1>4. /\ m \in Messages /\ m.type = SERVER_MESSAGE /\ m.data = stamp[s]
  BY <1>2 DEF Message, Messages
<1>5. \A t \in Servers : spc'[t] = IF t = s THEN "msgrcv" ELSE spc[t]
  BY <1>2, <1>3 DEF TypeOK
<1> HIDE DEF m
<1>6. /\ Len(queue') = Len(queue) + 1
      /\ \A i \in 1..(Len(queue) + 1) :
           queue'[i] = IF i <= Len(queue) THEN queue[i] ELSE m
  BY <1>2, <1>3, <1>4, PutIn
<1>7. Stamps'
  <2>1. /\ stamp[s] <= requests
        /\ Found = 0 => stamp[s] = requests
    BY <1>1 DEF LagInvariant, Stamps
  <2>2. /\ cpc' = "msgrcv" => requests' > 0
        /\ \A t \in Servers : stamp'[t] <= requests'
        /\ Found' = 0 =>
             \A t \in Servers : spc'[t] = "msgsnd" => stamp'[t] = requests'
    BY <1>1, <1>5 DEF LagInvariant, Stamps
  <2>3. ASSUME NEW i \in 1..Len(queue'), queue'[i].type = SERVER_MESSAGE
        PROVE  /\ queue'[i].data <= requests'
               /\ Found' = 0 => queue'[i].data = requests'
    <3>1. CASE i \in 1..Len(queue)
      BY <3>1, <2>3, <1>1, <1>2, <1>6 DEF LagInvariant, Stamps
    <3>2. CASE i = Len(queue) + 1
      <4>1. queue'[i] = m
        BY <3>2, <1>2, <1>6
      <4> QED BY <4>1, <2>1, <1>1, <1>4
    <3> QED BY <3>1, <3>2, <1>2, <1>6
  <2> QED BY <2>2, <2>3 DEF Stamps
<1>8. OldFirst'
  <2> SUFFICES ASSUME NEW i \in 1..(stale - Taken)
               PROVE  /\ i <= Len(queue')
                      /\ queue'[i] = Message(SERVER_MESSAGE, Taken + i - stale)
    BY <1>1 DEF OldFirst
  <2>1. i <= Len(queue) /\ queue[i] = Message(SERVER_MESSAGE, Taken + i - stale)
    BY DEF LagInvariant, OldFirst
  <2>2. i \in 1..Len(queue)
    BY <2>1, <1>2
  <2> QED BY <2>1, <2>2, <1>2, <1>6
<1>9. InOrder'
  <2> SUFFICES ASSUME attached = {}
               PROVE  \E t \in [0..Len(queue') -> Nat] :
                        /\ Ranks(queue', t)
                        /\ \A i \in 1..Len(queue') :
                             queue'[i].type = SERVER_MESSAGE =>
                               queue'[i].data >= Taken + t[i] - Found
                        /\ spc'["server"] # "msgsnd"
    BY <1>1 DEF InOrder
  <2>1. s = "server"
    BY OneServer DEF Loop
  <2>2. PICK r \in [0..Len(queue) -> Nat] :
          /\ Ranks(queue, r)
          /\ \A i \in 1..Len(queue) :
               queue[i].type = SERVER_MESSAGE =>
                 queue[i].data >= Taken + r[i] - Found
          /\ stamp["server"] >= Taken + r[Len(queue)] + 1 - Found
    BY <2>1, <1>1 DEF LagInvariant, InOrder
  <2>3. PICK t \in [0..Len(queue') -> Nat] :
          /\ Ranks(queue', t)
          /\ \A i \in 0..Len(queue) : t[i] = r[i]
          /\ t[Len(queue) + 1] = r[Len(queue)] + 1
    BY <2>2, <1>2, <1>3, <1>4, RanksAppend
  <2>4. ASSUME NEW i \in 1..Len(queue'), queue'[i].type = SERVER_MESSAGE
        PROVE  queue'[i].data >= Taken + t[i] - Found
    <3>1. CASE i \in 1..Len(queue)
      <4>1. queue'[i] = queue[i] /\ t[i] = r[i]
        BY <3>1, <1>2, <1>6, <2>3
      <4> QED BY <3>1, <4>1, <2>2, <2>4
    <3>2. CASE i = Len(queue) + 1
      <4>1. queue'[i] = m /\ t[i] = r[Len(queue)] + 1
        BY <3>2, <1>2, <1>6, <2>3
      <4>2. r[Len(queue)] \in Nat /\ stamp[s] \in Int
        BY <1>2
      <4>3. stamp[s] >= Taken + (r[Len(queue)] + 1) - Found
        BY <4>2, <2>1, <2>2, <1>2
      <4> QED BY <4>1, <4>3, <1>4
    <3> QED BY <3>1, <3>2, <1>2, <1>6
  <2>5. spc'["server"] # "msgsnd"
    BY <2>1, <1>5
  <2> QED BY <2>3, <2>4, <2>5
<1>10. Lag'
  BY <1>1 DEF LagInvariant, Lag
<1> QED BY <1>7, <1>8, <1>9, <1>10 DEF LagInvariant

(* A server that finds no room leaves the queue as it is.                  *)
LEMMA ServerSendLag ==
  ASSUME QueueInvariant, LagInvariant, NEW s \in Servers, ServerSend(s)
  PROVE  LagInvariant'
<1>1. CASE Len(queue) < Capacity
  BY <1>1, ServerPutLag
<1>2. CASE ~(Len(queue) < Capacity)
  <2>1. /\ UNCHANGED <<setting, queue, stamp, requests, single_start, cpc>>
        /\ spc' = [spc EXCEPT ![s] = "full"]
    BY <1>2 DEF ServerSend, client
  <2>2. \A t \in Servers : spc'[t] = "msgsnd" => spc[t] = "msgsnd"
    BY <2>1, Facts DEF TypeOK
  <2> QED BY <2>1, <2>2, QuietLag
<1> QED BY <1>1, <1>2

(* A server takes the first request: no reply loses its place.             *)
LEMMA ServerTakeLag ==
  ASSUME QueueInvariant, LagInvariant, NEW s \in Servers, ServerReceive(s),
         queue' = RemoveAt(queue, First(CLIENT_MESSAGE)),
         NEW l, l # "msgsnd", spc' = [spc EXCEPT ![s] = l]
  PROVE  LagInvariant'
<1> DEFINE k == First(CLIENT_MESSAGE)
<1>1. /\ stale' = stale /\ Found' = Found /\ attached' = attached /\ stamp' = stamp
      /\ requests' = requests /\ Taken' = Taken /\ cpc' = cpc
      /\ single_start' = single_start
      /\ queue' = RemoveAt(queue, k)
  BY DEF ServerReceive, setting, Found, client, Taken, Waiting
<1>2. /\ TypeOK /\ queue \in Seq(Messages) /\ Len(queue) \in Nat
      /\ stale \in Nat /\ Found \in Nat /\ requests \in Nat /\ Taken \in Int
      /\ \A i \in 1..Len(queue) : queue[i].data \in Int
  BY Facts
<1>3. k \in 1..Len(queue) /\ queue[k].type # SERVER_MESSAGE
  BY <1>2, FirstIs DEF ServerReceive, CLIENT_MESSAGE, SERVER_MESSAGE
<1>4. /\ Len(queue') = Len(queue) - 1
      /\ \A i \in 1..(Len(queue) - 1) :
           queue'[i] = IF i < k THEN queue[i] ELSE queue[i + 1]
  BY <1>1, <1>2, TakeOut DEF ServerReceive
<1>5. \A t \in Servers : spc'[t] = "msgsnd" => spc[t] = "msgsnd"
  BY <1>2 DEF TypeOK
<1> HIDE DEF k
<1>6. Stamps'
  <2>1. ASSUME NEW i \in 1..Len(queue')
        PROVE  \E j \in 1..Len(queue) : queue'[i] = queue[j]
    <3>1. /\ i \in 1..(Len(queue) - 1)
          /\ i \in 1..Len(queue) /\ i + 1 \in 1..Len(queue)
      BY <1>2, <1>4
    <3> QED BY <3>1, <1>4
  <2>2. \A i \in 1..Len(queue') :
          queue'[i].type = SERVER_MESSAGE =>
            /\ queue'[i].data <= requests
            /\ Found = 0 => queue'[i].data = requests
    BY <2>1 DEF LagInvariant, Stamps
  <2> QED BY <2>2, <1>1, <1>5 DEF LagInvariant, Stamps
<1>7. OldFirst'
  <2> SUFFICES ASSUME NEW i \in 1..(stale - Taken)
               PROVE  /\ i <= Len(queue')
                      /\ queue'[i] = Message(SERVER_MESSAGE, Taken + i - stale)
    BY <1>1 DEF OldFirst
  <2>1. \A j \in 1..(stale - Taken) :
          /\ j <= Len(queue)
          /\ queue[j] = Message(SERVER_MESSAGE, Taken + j - stale)
    BY DEF LagInvariant, OldFirst
  <2>2. k \notin 1..(stale - Taken)
    <3>1. \A x : Message(SERVER_MESSAGE, x).type = SERVER_MESSAGE
      BY DEF Message
    <3> QED BY <3>1, <2>1, <1>3, Zenon
  <2>3. i < k /\ i \in 1..(Len(queue) - 1)
    BY <2>2, <1>2, <1>3
  <2> QED BY <2>1, <2>3, <1>2, <1>4
<1>8. InOrder'
  <2> SUFFICES ASSUME attached = {}
               PROVE  \E t \in [0..Len(queue') -> Nat] :
                        /\ Ranks(queue', t)
                        /\ \A i \in 1..Len(queue') :
                             queue'[i].type = SERVER_MESSAGE =>
                               queue'[i].data >= Taken + t[i] - Found
                        /\ spc'["server"] = "msgsnd" =>
                             stamp["server"] >= Taken + t[Len(queue')] + 1 - Found
    BY <1>1 DEF InOrder
  <2>1. PICK r \in [0..Len(queue) -> Nat] :
          /\ Ranks(queue, r)
          /\ \A i \in 1..Len(queue) :
               queue[i].type = SERVER_MESSAGE =>
                 queue[i].data >= Taken + r[i] - Found
          /\ spc["server"] = "msgsnd" =>
               stamp["server"] >= Taken + r[Len(queue)] + 1 - Found
    BY DEF LagInvariant, InOrder
  <2>2. PICK t \in [0..Len(queue') -> Nat] :
          /\ Ranks(queue', t)
          /\ \A i \in 0..(Len(queue) - 1) :
               t[i] = IF i < k THEN r[i] ELSE r[i + 1] - 0
          /\ t[Len(queue) - 1] = r[Len(queue)] - 0
    <3> DEFINE d == IF queue[k].type = SERVER_MESSAGE THEN 1 ELSE 0
    <3>1. d = 0 /\ d = IF queue[k].type = SERVER_MESSAGE THEN 1 ELSE 0
      BY <1>3
    <3> HIDE DEF d
    <3>2. queue \in Seq(Messages) /\ k \in 1..Len(queue) /\ Ranks(queue, r)
      BY <2>1, <1>2, <1>3
    <3>3. \E t \in [0..Len(RemoveAt(queue, k)) -> Nat] :
            /\ Ranks(RemoveAt(queue, k), t)
            /\ \A i \in 0..(Len(queue) - 1) :
                 t[i] = IF i < k THEN r[i] ELSE r[i + 1] - d
            /\ t[Len(queue) - 1] = r[Len(queue)] - d
      BY <3>1, <3>2, RanksRemove
    <3> QED BY <3>1, <3>3, <1>1, Zenon
  <2>3. ASSUME NEW i \in 1..Len(queue'), queue'[i].type = SERVER_MESSAGE
        PROVE  queue'[i].data >= Taken + t[i] - Found
    <3>1. /\ i \in 0..(Len(queue) - 1) /\ i \in 1..(Len(queue) - 1)
          /\ i \in 1..Len(queue) /\ i + 1 \in 1..Len(queue)
          /\ i + 1 \in 0..Len(queue)
      BY <1>2, <1>4
    <3>2. CASE i < k
      <4>1. queue'[i] = queue[i] /\ t[i] = r[i]
        BY <3>1, <3>2, <1>4, <2>2
      <4> QED BY <4>1, <3>1, <2>1, <2>3
    <3>3. CASE i >= k
      <4>1. queue'[i] = queue[i + 1] /\ t[i] = r[i + 1]
        <5>1. r[i + 1] \in Nat /\ ~(i < k)
          BY <3>1, <3>3, <1>2, <1>3
        <5> QED BY <3>1, <5>1, <1>4, <2>2
      <4> QED BY <4>1, <3>1, <2>1, <2>3
    <3> QED BY <3>2, <3>3, <1>2, <1>3
  <2>4. t[Len(queue')] = r[Len(queue)]
    <3>1. r[Len(queue)] \in Nat
      BY <1>2
    <3> QED BY <3>1, <2>2, <1>4
  <2>5. "server" \in Servers
    BY DEF Servers
  <2> QED BY <2>1, <2>2, <2>3, <2>4, <2>5, <1>5
<1>9. Lag'
  BY <1>1 DEF LagInvariant, Lag
<1> QED BY <1>6, <1>7, <1>8, <1>9 DEF LagInvariant

(* A server to which the first request is too long leaves the queue as it  *)
(* is.                                                                     *)
LEMMA ServerReceiveLag ==
  ASSUME QueueInvariant, LagInvariant, NEW s \in Servers, ServerReceive(s)
  PROVE  LagInvariant'
<1>1. PICK l \in {"now", "toobig", "short"} : spc' = [spc EXCEPT ![s] = l]
  BY DEF ServerReceive
<1>2. \/ queue' = queue
      \/ queue' = RemoveAt(queue, First(CLIENT_MESSAGE))
  BY DEF ServerReceive
<1>3. CASE queue' = queue
  <2>1. UNCHANGED <<setting, queue, stamp, requests, single_start, cpc>>
    BY <1>3 DEF ServerReceive, client
  <2>2. \A t \in Servers : spc'[t] = "msgsnd" => spc[t] = "msgsnd"
    BY <1>1, Facts DEF TypeOK
  <2> QED BY <2>1, <2>2, QuietLag
<1>4. CASE queue' = RemoveAt(queue, First(CLIENT_MESSAGE))
  BY <1>1, <1>4, ServerTakeLag
<1> QED BY <1>2, <1>3, <1>4

(* The client's request: nothing is unanswered from before if the queue    *)
(* was empty at the start.                                                 *)
LEMMA ClientSendLag ==
  ASSUME QueueInvariant, LagInvariant, ClientSend
  PROVE  LagInvariant'
<1> DEFINE m == Message(CLIENT_MESSAGE, Size)
<1>1. /\ stale' = stale /\ Found' = Found /\ attached' = attached /\ stamp' = stamp
      /\ spc' = spc /\ cpc = "msgsnd" /\ cpc' = "msgrcv"
      /\ queue' = Append(queue, m) /\ requests' = requests + 1
  BY DEF ClientSend, setting, Found, server
<1>2. /\ TypeOK /\ queue \in Seq(Messages) /\ Len(queue) \in Nat
      /\ stale \in Nat /\ Found \in Nat /\ requests \in Nat /\ Taken \in Int
      /\ \A i \in 1..Len(queue) : queue[i].data \in Int
      /\ \A t \in Servers : stamp[t] \in Int
  BY Facts
<1>3. Waiting = 0 /\ Taken' = Taken
  BY <1>1, <1>2 DEF Waiting, Taken
<1>4. m \in Messages /\ m.type # SERVER_MESSAGE
  BY MqAssumption DEF Message, Messages, CLIENT_MESSAGE, SERVER_MESSAGE
<1> HIDE DEF m
<1>5. /\ Len(queue') = Len(queue) + 1
      /\ \A i \in 1..(Len(queue) + 1) :
           queue'[i] = IF i <= Len(queue) THEN queue[i] ELSE m
  BY <1>1, <1>2, <1>4, PutIn
<1>6. \A i \in 1..Len(queue') : queue'[i].type = SERVER_MESSAGE =>
        i \in 1..Len(queue) /\ queue'[i] = queue[i]
  BY <1>2, <1>4, <1>5
<1>7. Found = 0 => Len(queue) = 0 /\ Owing = {}
  <2>1. /\ Len(queue) + Cardinality(Owing) = Found
        /\ Cardinality(Owing) \in Nat
    BY <1>2, <1>3, Facts DEF Tally
  <2>2. Found = 0 => Len(queue) = 0 /\ Cardinality(Owing) = 0
    BY <2>1, <1>2
  <2> QED BY <2>2, FS_EmptySet DEF QueueInvariant
<1>8. Stamps'
  <2>1. requests' > 0 /\ \A t \in Servers : stamp[t] <= requests'
    BY <1>1, <1>2 DEF LagInvariant, Stamps
  <2>2. ASSUME NEW i \in 1..Len(queue'), queue'[i].type = SERVER_MESSAGE
        PROVE  queue'[i].data <= requests' /\ Found # 0
    <3>1. i \in 1..Len(queue) /\ queue'[i] = queue[i]
      BY <2>2, <1>6
    <3>2. queue[i].data <= requests /\ queue[i].data \in Int
      BY <3>1, <2>2, <1>2 DEF LagInvariant, Stamps
    <3>3. Found # 0
      BY <3>1, <1>7
    <3> QED BY <3>1, <3>2, <3>3, <1>1, <1>2
  <2>3. Found = 0 => \A t \in Servers : spc[t] # "msgsnd"
    BY <1>7 DEF Owing, Owes
  <2> QED BY <2>1, <2>2, <2>3, <1>1 DEF Stamps
<1>9. OldFirst'
  <2> SUFFICES ASSUME NEW i \in 1..(stale - Taken)
               PROVE  /\ i <= Len(queue')
                      /\ queue'[i] = Message(SERVER_MESSAGE, Taken + i - stale)
    BY <1>1, <1>3 DEF OldFirst
  <2>1. i <= Len(queue) /\ queue[i] = Message(SERVER_MESSAGE, Taken + i - stale)
    BY DEF LagInvariant, OldFirst
  <2>2. i \in 1..Len(queue)
    BY <2>1, <1>2
  <2> QED BY <2>1, <2>2, <1>2, <1>5
<1>10. InOrder'
  <2> SUFFICES ASSUME attached = {}
               PROVE  \E t \in [0..Len(queue') -> Nat] :
                        /\ Ranks(queue', t)
                        /\ \A i \in 1..Len(queue') :
                             queue'[i].type = SERVER_MESSAGE =>
                               queue'[i].data >= Taken + t[i] - Found
                        /\ spc["server"] = "msgsnd" =>
                             stamp["server"] >= Taken + t[Len(queue')] + 1 - Found
    BY <1>1, <1>3 DEF InOrder
  <2>1. PICK r \in [0..Len(queue) -> Nat] :
          /\ Ranks(queue, r)
          /\ \A i \in 1..Len(queue) :
               queue[i].type = SERVER_MESSAGE =>
                 queue[i].data >= Taken + r[i] - Found
          /\ spc["server"] = "msgsnd" =>
               stamp["server"] >= Taken + r[Len(queue)] + 1 - Found
    BY DEF LagInvariant, InOrder
  <2>2. PICK t \in [0..Len(queue') -> Nat] :
          /\ Ranks(queue', t)
          /\ \A i \in 0..Len(queue) : t[i] = r[i]
          /\ t[Len(queue) + 1] = r[Len(queue)] + 0
    BY <2>1, <1>1, <1>2, <1>4, RanksAppend
  <2>3. \A i \in 1..Len(queue') :
          queue'[i].type = SERVER_MESSAGE =>
            queue'[i].data >= Taken + t[i] - Found
    <3>1. \A i \in 1..Len(queue) : t[i] = r[i]
      BY <2>2, <1>2
    <3> QED BY <3>1, <2>1, <1>6
  <2>4. t[Len(queue')] = r[Len(queue)]
    <3>1. r[Len(queue)] \in Nat
      BY <1>2
    <3> QED BY <3>1, <2>2, <1>5
  <2> QED BY <2>1, <2>2, <2>3, <2>4
<1>11. Lag'
  BY <1>1 DEF Lag
<1> QED BY <1>8, <1>9, <1>10, <1>11 DEF LagInvariant

(* The client takes the first reply: while old ones are left, the oldest   *)
(* of these, and every other reply moves up by one.                        *)
LEMMA ClientReceiveLag ==
  ASSUME QueueInvariant, LagInvariant, ClientReceive
  PROVE  LagInvariant'
<1> DEFINE k == First(SERVER_MESSAGE)
<1>1. /\ stale' = stale /\ Found' = Found /\ attached' = attached /\ stamp' = stamp
      /\ spc' = spc /\ cpc = "msgrcv" /\ cpc' = "benchmark"
      /\ queue' = RemoveAt(queue, k) /\ requests' = requests
      /\ single_start' = queue[k].data
  BY DEF ClientReceive, setting, Found, server
<1>2. /\ TypeOK /\ queue \in Seq(Messages) /\ Len(queue) \in Nat
      /\ stale \in Nat /\ Found \in Nat /\ requests \in Nat /\ Taken \in Int
      /\ \A i \in 1..Len(queue) : queue[i].data \in Int
      /\ \A t \in Servers : stamp[t] \in Int
      /\ "server" \in Servers
  BY Facts
<1>3. Taken = requests - 1 /\ Taken' = Taken + 1
  BY <1>1, <1>2 DEF Waiting, Taken
<1>4. /\ k \in 1..Len(queue) /\ queue[k].type = SERVER_MESSAGE
      /\ \A i \in 1..Len(queue) : queue[i].type = SERVER_MESSAGE => k <= i
  BY <1>2, FirstIs DEF ClientReceive
<1>5. /\ Len(queue') = Len(queue) - 1
      /\ \A i \in 1..(Len(queue) - 1) :
           queue'[i] = IF i < k THEN queue[i] ELSE queue[i + 1]
  BY <1>1, <1>2, TakeOut DEF ClientReceive
<1> HIDE DEF k
<1>6. stale > Taken => k = 1 /\ queue[1].data = Taken + 1 - stale
  <2> SUFFICES ASSUME stale > Taken
               PROVE  k = 1 /\ queue[1].data = Taken + 1 - stale
    OBVIOUS
  <2>1. 1 \in 1..(stale - Taken)
    BY <1>2
  <2>2. 1 <= Len(queue) /\ queue[1] = Message(SERVER_MESSAGE, Taken + 1 - stale)
    BY <2>1 DEF LagInvariant, OldFirst
  <2>3. queue[1].type = SERVER_MESSAGE /\ queue[1].data = Taken + 1 - stale
    BY <2>2 DEF Message
  <2>4. 1 \in 1..Len(queue)
    BY <2>2, <1>2
  <2>5. k <= 1
    BY <2>3, <2>4, <1>4
  <2> QED BY <2>3, <2>5, <1>2, <1>4
<1>7. Stamps'
  <2>1. ASSUME NEW i \in 1..Len(queue')
        PROVE  \E j \in 1..Len(queue) : queue'[i] = queue[j]
    <3>1. /\ i \in 1..(Len(queue) - 1)
          /\ i \in 1..Len(queue) /\ i + 1 \in 1..Len(queue)
      BY <1>2, <1>5
    <3> QED BY <3>1, <1>5
  <2>2. \A i \in 1..Len(queue') :
          queue'[i].type = SERVER_MESSAGE =>
            /\ queue'[i].data <= requests
            /\ Found = 0 => queue'[i].data = requests
    BY <2>1 DEF LagInvariant, Stamps
  <2> QED BY <2>2, <1>1 DEF LagInvariant, Stamps
<1>8. OldFirst'
  <2> SUFFICES ASSUME NEW i \in 1..(stale - (Taken + 1))
               PROVE  /\ i <= Len(queue')
                      /\ queue'[i] = Message(SERVER_MESSAGE, (Taken + 1) + i - stale)
    BY <1>1, <1>3 DEF OldFirst
  <2>1. i + 1 \in 1..(stale - Taken) /\ stale > Taken
    BY <1>2
  <2>2. /\ i + 1 <= Len(queue)
        /\ queue[i + 1] = Message(SERVER_MESSAGE, Taken + (i + 1) - stale)
    BY <2>1 DEF LagInvariant, OldFirst
  <2>3. i \in 1..(Len(queue) - 1) /\ ~(i < k)
    BY <2>1, <2>2, <1>2, <1>6
  <2>4. queue'[i] = queue[i + 1] /\ i <= Len(queue')
    BY <2>3, <1>2, <1>5
  <2>5. Taken + (i + 1) - stale = (Taken + 1) + i - stale
    BY <1>2
  <2> QED BY <2>2, <2>4, <2>5
<1>9. ASSUME attached = {}
      PROVE  /\ queue[k].data >= requests - Found
             /\ \E t \in [0..Len(queue') -> Nat] :
                  /\ Ranks(queue', t)
                  /\ \A i \in 1..Len(queue') :
                       queue'[i].type = SERVER_MESSAGE =>
                         queue'[i].data >= (Taken + 1) + t[i] - Found
                  /\ spc["server"] = "msgsnd" =>
                       stamp["server"] >= (Taken + 1) + t[Len(queue')] + 1 - Found
  <2>1. PICK r \in [0..Len(queue) -> Nat] :
          /\ Ranks(queue, r)
          /\ \A i \in 1..Len(queue) :
               queue[i].type = SERVER_MESSAGE =>
                 queue[i].data >= Taken + r[i] - Found
          /\ spc["server"] = "msgsnd" =>
               stamp["server"] >= Taken + r[Len(queue)] + 1 - Found
    BY <1>9 DEF LagInvariant, InOrder
  <2>2. /\ r[k] = r[k - 1] + 1 /\ r[k - 1] \in Nat
        /\ \E t \in [0..Len(queue') -> Nat] :
             /\ Ranks(queue', t)
             /\ \A i \in 0..(Len(queue) - 1) :
                  t[i] = IF i < k THEN r[i] ELSE r[i + 1] - 1
             /\ t[Len(queue) - 1] = r[Len(queue)] - 1
    <3> DEFINE d == IF queue[k].type = SERVER_MESSAGE THEN 1 ELSE 0
    <3>1. d = 1 /\ d = IF queue[k].type = SERVER_MESSAGE THEN 1 ELSE 0
      BY <1>4
    <3> HIDE DEF d
    <3>2. queue \in Seq(Messages) /\ k \in 1..Len(queue) /\ Ranks(queue, r)
      BY <2>1, <1>2, <1>4
    <3>3. /\ r[k] = r[k - 1] + d /\ r[k - 1] \in Nat
          /\ \E t \in [0..Len(RemoveAt(queue, k)) -> Nat] :
               /\ Ranks(RemoveAt(queue, k), t)
               /\ \A i \in 0..(Len(queue) - 1) :
                    t[i] = IF i < k THEN r[i] ELSE r[i + 1] - d
               /\ t[Len(queue) - 1] = r[Len(queue)] - d
      BY <3>1, <3>2, RanksRemove
    <3>4. queue' = RemoveAt(queue, k)
      BY <1>1
    <3> QED BY <3>1, <3>3, <3>4, Zenon
  <2>3. queue[k].data >= requests - Found
    <3>1. queue[k].data >= Taken + r[k] - Found /\ queue[k].data \in Int
      BY <2>1, <1>2, <1>4
    <3>2. \A d, p, f, c, n \in Int :
            d >= p + c - f /\ c >= 1 /\ p = n - 1 => d >= n - f
      OBVIOUS
    <3>3. Taken \in Int /\ Found \in Int /\ requests \in Int
      BY <1>2
    <3>4. r[k] \in Int /\ r[k] >= 1
      BY <2>2
    <3> QED BY <3>1, <3>2, <3>3, <3>4, <1>3, Zenon
  <2>4. PICK t \in [0..Len(queue') -> Nat] :
          /\ Ranks(queue', t)
          /\ \A i \in 0..(Len(queue) - 1) :
               t[i] = IF i < k THEN r[i] ELSE r[i + 1] - 1
          /\ t[Len(queue) - 1] = r[Len(queue)] - 1
    BY <2>2
  <2>5. ASSUME NEW i \in 1..Len(queue'), queue'[i].type = SERVER_MESSAGE
        PROVE  queue'[i].data >= (Taken + 1) + t[i] - Found
    <3>1. /\ i \in 0..(Len(queue) - 1) /\ i \in 1..(Len(queue) - 1)
          /\ i \in 1..Len(queue) /\ i + 1 \in 1..Len(queue)
          /\ i + 1 \in 0..Len(queue)
      BY <1>2, <1>5
    <3>2. ~(i < k)
      <4>1. i < k => queue[i].type = SERVER_MESSAGE
        BY <3>1, <2>5, <1>5
      <4>2. i < k => k <= i
        BY <4>1, <3>1, <1>4
      <4> QED BY <4>2, <1>2, <1>4
    <3>3. queue'[i] = queue[i + 1] /\ t[i] = r[i + 1] - 1
      BY <3>1, <3>2, <1>5, <2>4
    <3>4. queue[i + 1].data >= Taken + r[i + 1] - Found
      BY <3>1, <3>3, <2>1, <2>5
    <3>5. r[i + 1] \in Nat /\ queue[i + 1].data \in Int
      BY <3>1, <1>2
    <3>6. queue[i + 1].data >= (Taken + 1) + (r[i + 1] - 1) - Found
      <4>1. \A d, p, f, c \in Int : d >= p + c - f => d >= (p + 1) + (c - 1) - f
        OBVIOUS
      <4>2. Taken \in Int /\ Found \in Int /\ r[i + 1] \in Int
        BY <3>5, <1>2
      <4> QED BY <3>4, <3>5, <4>1, <4>2, Zenon
    <3> QED BY <3>3, <3>6
  <2>6. ASSUME spc["server"] = "msgsnd"
        PROVE  stamp["server"] >= (Taken + 1) + t[Len(queue')] + 1 - Found
    <3>1. /\ t[Len(queue')] = r[Len(queue)] - 1 /\ r[Len(queue)] \in Nat
          /\ stamp["server"] \in Int
      BY <2>4, <1>2, <1>5
    <3>2. stamp["server"] >= Taken + r[Len(queue)] + 1 - Found
      BY <2>1, <2>6
    <3>3. stamp["server"] >= (Taken + 1) + (r[Len(queue)] - 1) + 1 - Found
      BY <3>1, <3>2, <1>2
    <3> QED BY <3>1, <3>3
  <2> QED BY <2>3, <2>4, <2>5, <2>6
<1>10. InOrder'
  BY <1>1, <1>3, <1>9 DEF InOrder
<1>11. Lag'
  <2>1. /\ queue[k].data <= requests
        /\ Found = 0 => queue[k].data = requests
    BY <1>4 DEF LagInvariant, Stamps
  <2>2. requests <= stale => queue[k].data = requests - stale
    BY <1>2, <1>3, <1>6
  <2>3. attached = {} => queue[k].data \in (requests - Found)..requests
    <3>1. queue[k].data \in Int
      BY <1>2, <1>4
    <3> QED BY <3>1, <2>1, <1>2, <1>9
  <2> QED BY <2>1, <2>2, <2>3, <1>1 DEF Lag
<1> QED BY <1>7, <1>8, <1>10, <1>11 DEF LagInvariant

(* No measurement is off by more than the messages that were found allow:  *)
(* none with an empty queue, by exactly stale while the replies last, and  *)
(* by at most Found to the end with one server.                            *)
THEOREM LagSafe == Spec => []Lag
<1>1. QueueInvariant /\ LagInvariant /\ [Next]_vars => LagInvariant'
  <2> SUFFICES ASSUME QueueInvariant, LagInvariant, [Next]_vars
               PROVE  LagInvariant'
    OBVIOUS
  <2>0. TypeOK /\ "server" \in Servers
    BY Facts
  <2>1. ASSUME NEW s \in Servers, Loop(s) PROVE LagInvariant'
    BY <2>1, ServerReceiveLag, ServerNowLag, ServerSendLag DEF Loop
  <2>2. CASE ClientSend
    BY <2>2, ClientSendLag
  <2>3. CASE ClientReceive
    BY <2>3, ClientReceiveLag
  <2>4. CASE \/ ClientSetup \/ ClientSigwait \/ ClientMsgget
             \/ ClientCheck \/ ClientBenchmark
    <3>1. /\ UNCHANGED <<setting, queue, stamp, requests, single_start>>
          /\ spc' = spc /\ cpc # "msgrcv" /\ cpc' # "msgrcv"
          /\ cpc' # "benchmark"
      BY <2>4 DEF ClientSetup, ClientSigwait, ClientMsgget, ClientCheck,
                  ClientBenchmark, server
    <3> QED BY <3>1, QuietLag
  <2>5. CASE ServerMsgget \/ ServerUsleep \/ ServerNotify
    <3>1. UNCHANGED <<setting, queue, stamp, requests, single_start>>
      BY <2>5 DEF ServerMsgget, ServerUsleep, ServerNotify, client
    <3>2. /\ cpc' = "msgrcv" <=> cpc = "msgrcv"
          /\ cpc' = "benchmark" => cpc = "benchmark"
      BY <2>5 DEF ServerMsgget, ServerUsleep, ServerNotify, client, Kills
    <3>3. \A s \in Servers : spc'[s] = "msgsnd" => spc[s] = "msgsnd"
      BY <2>5, <2>0 DEF ServerMsgget, ServerUsleep, ServerNotify, TypeOK
    <3> QED BY <3>1, <3>2, <3>3, QuietLag
  <2>6. CASE UNCHANGED vars
    <3>1. /\ UNCHANGED <<setting, queue, stamp, requests, single_start>>
          /\ spc' = spc /\ cpc' = cpc
      BY <2>6 DEF vars, server, client
    <3> QED BY <3>1, QuietLag
  <2> QED BY <2>0, <2>1, <2>2, <2>3, <2>4, <2>5, <2>6
          DEF Next, Client, Server, Servers
<1>2. LagInvariant => Lag
  BY DEF LagInvariant
<1> QED BY InitLag, QueueSafe, <1>1, <1>2, PTL DEF Spec
=============================================================================
