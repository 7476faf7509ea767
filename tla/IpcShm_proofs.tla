---------------------------- MODULE IpcShm_proofs ----------------------------
(***************************************************************************)
(* For any clients, queue size, message ids and bounds, with servers and   *)
(* clients dying and starting in between: variables have their types, a    *)
(* modal call returns the reply to its own request, the server knows the   *)
(* clients connected to it, a client that has left has nothing under way,  *)
(* and no receiver thread runs without its queue.                          *)
(*                                                                         *)
(* The argument is about what is under way of a client's connection: its   *)
(* requests in the server's queue, the reply the server is about to send,  *)
(* and the replies in its own queue.  What has the id of the modal call is *)
(* that call or its reply, nothing follows it, and each promise that is    *)
(* waited for has its request or its reply there.                          *)
(***************************************************************************)
EXTENDS IpcShm, TLAPS

-----------------------------------------------------------------------------
(* Facts about sequences, and about _ipcEndpoints. *)

LEMMA RangeOfSeq ==
  ASSUME NEW S, NEW s \in Seq(S) PROVE Range(s) \subseteq S
BY DEF Range

LEMMA SeqOps ==
  ASSUME NEW S, NEW s \in Seq(S)
  PROVE  /\ \A x \in S : Append(s, x) \in Seq(S) /\ Len(Append(s, x)) = Len(s) + 1
         /\ s # <<>> => /\ Head(s) \in S /\ Tail(s) \in Seq(S)
                        /\ Len(Tail(s)) = Len(s) - 1 /\ Len(s) > 0
OBVIOUS

LEMMA Registered ==
  ASSUME NEW n, NEW q,
         endpoints' = [i \in DOMAIN endpoints \cup {n} |->
                         IF i = n THEN q ELSE endpoints[i]]
  PROVE  /\ DOMAIN endpoints' = DOMAIN endpoints \cup {n} /\ endpoints'[n] = q
         /\ \A i \in DOMAIN endpoints : i # n => endpoints'[i] = endpoints[i]
         /\ Range(endpoints') \subseteq Range(endpoints) \cup {q}
BY DEF Range

LEMMA Removed ==
  ASSUME NEW id, endpoints' = Restrict(endpoints, DOMAIN endpoints \ {id})
  PROVE  /\ DOMAIN endpoints' = DOMAIN endpoints \ {id}
         /\ \A i \in DOMAIN endpoints : i # id => endpoints'[i] = endpoints[i]
         /\ Range(endpoints') \subseteq Range(endpoints)
BY DEF Range, Restrict

LEMMA OneMore ==
  ASSUME NEW n \in Nat \ {0}, NEW S, S \subseteq 1..n - 1
  PROVE  S \cup {n} \subseteq 1..n + 1 - 1
OBVIOUS

-----------------------------------------------------------------------------
(* Types. *)

LEMMA InitTypeOK == Init => TypeOK
<1> SUFFICES ASSUME Init PROVE TypeOK
  OBVIOUS
<1>1. DOMAIN endpoints = {} /\ Range(endpoints) = {} /\ nextId = 1
  BY DEF Init, Range
<1>2. /\ server \in ServerPc /\ outbox = {} /\ server # "sending"
      /\ stopFlag \in BOOLEAN /\ queueExists \in BOOLEAN
  BY DEF Init, ServerPc
<1>5. epoch \in 0..MaxStarts
  BY BoundAssumption DEF Init
<1>6. serverQueue \in Seq(Message) /\ Len(serverQueue) <= QueueSize
  BY BoundAssumption DEF Init
<1>3. /\ replies \in [Queue -> Seq(Reply)]
      /\ \A q \in Queue : Len(replies[q]) <= QueueSize
  BY BoundAssumption DEF Init
<1>4. /\ caller \in [Client -> CallerPc]
      /\ call \in [Client -> SUBSET Message] /\ future \in [Client -> SUBSET Reply]
      /\ attached \in [Client -> 0..MaxStarts] /\ conn \in [Client -> 0..MaxConnects]
      /\ queueOpen \in [Client -> BOOLEAN] /\ clientId \in [Client -> Nat]
      /\ receiver \in [Client -> {"off", "starting", "running"}]
      /\ promises \in [Client -> [Ids -> {"none", "invalid", "valid", "set"}]]
      /\ serial \in [Client -> 0..2]
  BY BoundAssumption DEF Init, CallerPc
<1>. QED  BY <1>1, <1>2, <1>3, <1>4, <1>5, <1>6 DEF TypeOK, ServerTypeOK, QueuesTypeOK, ClientsTypeOK

LEMMA SendReplyTypeOK ==
  ASSUME TypeOK, SendReply PROVE TypeOK'
<1>1. PICK o \in outbox :
       /\ Len(replies[endpoints[o.to]]) < QueueSize
       /\ replies' = [replies EXCEPT ![endpoints[o.to]] = Append(@, o.reply)]
       /\ endpoints' = IF o.reply.op = "disconnect"
                         THEN Restrict(endpoints, DOMAIN endpoints \ {o.to})
                         ELSE endpoints
  BY DEF SendReply
<1> DEFINE q == endpoints[o.to]
<1>2. o.to \in DOMAIN endpoints /\ o.reply \in Reply
  BY DEF TypeOK, ServerTypeOK, QueuesTypeOK, ClientsTypeOK
<1>3. q \in Queue
  BY <1>2 DEF TypeOK, ServerTypeOK, QueuesTypeOK, ClientsTypeOK, Range
<1>4. DOMAIN endpoints' \subseteq DOMAIN endpoints /\ Range(endpoints') \subseteq Range(endpoints)
  BY <1>1 DEF Restrict, Range
<1>5. replies' \in [Queue -> Seq(Reply)] /\ \A p \in Queue : Len(replies'[p]) <= QueueSize
  <2>1. replies[q] \in Seq(Reply) /\ Len(replies[q]) < QueueSize
    BY <1>1, <1>3 DEF TypeOK, ServerTypeOK, QueuesTypeOK, ClientsTypeOK
  <2>2. Append(replies[q], o.reply) \in Seq(Reply)
        /\ Len(Append(replies[q], o.reply)) <= QueueSize
    BY <2>1, <1>2, BoundAssumption, SeqOps
  <2>3. replies' = [replies EXCEPT ![q] = Append(replies[q], o.reply)]
    BY <1>1, Zenon
  <2> HIDE DEF q
  <2>. QED  BY <2>2, <2>3 DEF TypeOK, ServerTypeOK, QueuesTypeOK, ClientsTypeOK
<1>6. server' = "receiving" /\ outbox' = {}
       /\ UNCHANGED <<stopFlag, epoch, queueExists, nextId, serverQueue, clientVars>>
  BY DEF SendReply
<1>. QED
  BY <1>4, <1>5, <1>6 DEF TypeOK, ServerTypeOK, QueuesTypeOK, ClientsTypeOK, clientVars, ServerPc

(* What becomes of a request that the server takes: it is dropped, or a
   client that wants no answer is forgotten, or a reply is on its way. *)
Sending(id, r) == outbox' = {[to |-> id, reply |-> r]} /\ server' = "sending"

Dropped(m) ==
  /\ NoReply /\ UNCHANGED <<endpoints, nextId>>
  /\ m.op = "ping" => m.clientId \notin DOMAIN endpoints

Forgotten(m) ==
  /\ NoReply /\ UNCHANGED nextId
  /\ m.op = "disconnect"
  /\ endpoints' = Restrict(endpoints, DOMAIN endpoints \ {m.clientId})

Replied(m) ==
  /\ m.op # "connect" /\ m.clientId \in DOMAIN endpoints
  /\ \E status \in ReplyStatus :
       Sending(m.clientId, ReplyTo(m, m.clientId, status))
  /\ UNCHANGED <<endpoints, nextId>>

Accepted(m) ==
  /\ m.op = "connect"
  /\ endpoints' = [i \in DOMAIN endpoints \cup {nextId} |->
                     IF i = nextId THEN m.from ELSE endpoints[i]]
  /\ nextId' = nextId + 1
  /\ Sending(nextId, ReplyTo(m, nextId, "Ok"))

LEMMA HandleCases ==
  ASSUME TypeOK, Handle, NEW m, m = Head(serverQueue)
  PROVE  /\ m \in Message /\ serverQueue # <<>> /\ serverQueue' = Tail(serverQueue)
         /\ server = "receiving" /\ outbox = {}
         /\ UNCHANGED <<stopFlag, epoch, queueExists, replies, clientVars>>
         /\ Dropped(m) \/ Forgotten(m) \/ Replied(m) \/ Accepted(m)
<1>1. /\ m \in Message /\ serverQueue # <<>> /\ serverQueue' = Tail(serverQueue)
      /\ server = "receiving" /\ outbox = {}
      /\ UNCHANGED <<stopFlag, epoch, queueExists, replies, clientVars>>
  BY SeqOps DEF Handle, TypeOK, ServerTypeOK, QueuesTypeOK, ClientsTypeOK
<1>2. \/ m.op = "connect" /\ ClientConnect(m)
      \/ m.op = "disconnect" /\ ClientDisconnect(m)
      \/ m.op = "ping" /\ Ping(m)
      \/ m.op = "request" /\ DeviceRequest(m)
  BY DEF Handle
<1>3. CASE m.op = "connect" /\ ClientConnect(m)
  <2>1. CASE m.outdated
    <3>1. 0 \notin DOMAIN endpoints
      BY DEF TypeOK, ServerTypeOK, QueuesTypeOK, ClientsTypeOK
    <3>. QED  BY <1>1, <1>3, <2>1, <3>1 DEF ClientConnect, sendReply, Dropped, NoReply
  <2>2. CASE ~m.outdated
    <3> DEFINE more == [i \in DOMAIN endpoints \cup {nextId} |->
                          IF i = nextId THEN m.from ELSE endpoints[i]]
    <3>1. endpoints' = more /\ nextId' = nextId + 1
          /\ sendReply(endpoints', nextId, ReplyTo(m, nextId, "Ok"))
      BY <1>3, <2>2, Zenon DEF ClientConnect
    <3>2. nextId \in DOMAIN endpoints'
      BY <3>1
    <3>. QED  BY <1>1, <1>3, <3>1, <3>2, Zenon DEF sendReply, Accepted, Sending
  <2>. QED  BY <2>1, <2>2
<1>4. CASE m.op = "disconnect" /\ ClientDisconnect(m)
  BY <1>1, <1>4 DEF ClientDisconnect, sendReply, NoReply, Dropped, Forgotten, Replied,
                    Sending, ReplyStatus
<1>5. CASE m.op = "ping" /\ Ping(m)
  BY <1>1, <1>5 DEF Ping, sendReply, NoReply, Dropped, Replied, Sending, ReplyStatus
<1>6. CASE m.op = "request" /\ DeviceRequest(m)
  BY <1>1, <1>6 DEF DeviceRequest, sendReply, NoReply, Dropped, Replied, Sending,
                    ReplyStatus
<1>. QED  BY <1>1, <1>2, <1>3, <1>4, <1>5, <1>6

LEMMA HandleTypeOK ==
  ASSUME TypeOK, Handle PROVE TypeOK'
<1> DEFINE m == Head(serverQueue)
<1>1. /\ m \in Message /\ serverQueue # <<>> /\ serverQueue' = Tail(serverQueue)
      /\ server = "receiving" /\ outbox = {}
      /\ UNCHANGED <<stopFlag, epoch, queueExists, replies, clientVars>>
      /\ Dropped(m) \/ Forgotten(m) \/ Replied(m) \/ Accepted(m)
  BY HandleCases
<1>2. serverQueue' \in Seq(Message) /\ Len(serverQueue') <= QueueSize
  BY <1>1, SeqOps, BoundAssumption DEF TypeOK, ServerTypeOK, QueuesTypeOK, ClientsTypeOK
<1> HIDE DEF m
<1>3. /\ DOMAIN endpoints \subseteq 1..nextId - 1 /\ Range(endpoints) \subseteq Queue
      /\ nextId \in Nat \ {0} /\ m.from \in Queue /\ m.clientId \in Nat
  BY <1>1 DEF TypeOK, ServerTypeOK, QueuesTypeOK, ClientsTypeOK, Message
<1> DEFINE Numbered ==
             /\ DOMAIN endpoints' \subseteq 1..nextId' - 1
             /\ Range(endpoints') \subseteq Queue /\ nextId' \in Nat \ {0}
           Posted ==
             /\ outbox' \subseteq [to : DOMAIN endpoints', reply : Reply]
             /\ (server' = "sending") <=> (outbox' # {})
             /\ server' \in ServerPc
<1>4. ASSUME NEW id \in Nat, NEW status \in ReplyStatus
      PROVE  ReplyTo(m, id, status) \in Reply
  BY <1>1 DEF ReplyTo, Reply, Message
<1>5. ASSUME Dropped(m) PROVE Numbered /\ Posted
  BY <1>3, <1>5 DEF Dropped, NoReply, ServerPc
<1>6. ASSUME Forgotten(m) PROVE Numbered /\ Posted
  <2>1. DOMAIN endpoints' \subseteq DOMAIN endpoints
        /\ Range(endpoints') \subseteq Range(endpoints) /\ nextId' = nextId
    BY <1>6, Removed DEF Forgotten
  <2>3. Numbered
    BY <1>3, <2>1
  <2>2. Posted
    BY <1>6 DEF Forgotten, NoReply, ServerPc
  <2>. QED  BY <2>2, <2>3
<1>7. ASSUME Replied(m) PROVE Numbered /\ Posted
  BY <1>3, <1>4, <1>7 DEF Replied, Sending, ServerPc
<1>8. ASSUME Accepted(m) PROVE Numbered /\ Posted
  <2>1. DOMAIN endpoints' = DOMAIN endpoints \cup {nextId}
        /\ Range(endpoints') \subseteq Range(endpoints) \cup {m.from}
    BY <1>8, Registered DEF Accepted
  <2>2. nextId' = nextId + 1 /\ nextId \in DOMAIN endpoints'
        /\ outbox' = {[to |-> nextId, reply |-> ReplyTo(m, nextId, "Ok")]}
        /\ server' = "sending"
    BY <1>8, <2>1 DEF Accepted, Sending
  <2>4. Numbered
    BY <1>3, <2>1, <2>2, OneMore
  <2>5. ReplyTo(m, nextId, "Ok") \in Reply
    BY <1>3, <1>4 DEF ReplyStatus
  <2>3. Posted
    BY <2>2, <2>5 DEF ServerPc
  <2>. QED  BY <2>4, <2>3
<1>9. Numbered /\ Posted
  BY <1>1, <1>5, <1>6, <1>7, <1>8
<1>. QED
  BY <1>1, <1>2, <1>9 DEF TypeOK, ServerTypeOK, QueuesTypeOK, ClientsTypeOK, clientVars

(* A connected client has a queue of its own, which its messages name. *)
HasQueue == \A c \in Client : attached[c] # 0 => conn[c] # 0

(* The bound of the model on the server's starts. *)
StartsBound == server = "starting" => epoch < MaxStarts

TInv == TypeOK /\ HasQueue /\ StartsBound

LEMMA DrawnIds == ASSUME NEW c PROVE Drawn(c) \subseteq MessageId
BY DEF Drawn

LEMMA NewMessageType ==
  ASSUME TypeOK, NEW c \in Client, NEW op \in Op, NEW m \in Ids,
         NEW k \in 1..MaxConnects, NEW s \in 0..2
  PROVE  NewMessage(c, op, m, k, s) \in Message
BY DEF TypeOK, ServerTypeOK, QueuesTypeOK, ClientsTypeOK, NewMessage, Message, Queue

LEMMA OnePromise ==
  ASSUME ClientsTypeOK, NEW c \in Client, NEW m \in Ids,
         NEW e \in {"none", "invalid", "valid", "set"}
  PROVE  [promises EXCEPT ![c][m] = e]
           \in [Client -> [Ids -> {"none", "invalid", "valid", "set"}]]
BY DEF ClientsTypeOK

LEMMA BeginModalTypeOK ==
  ASSUME TypeOK, NEW c \in Client, NEW op \in Op, NEW k \in 1..MaxConnects,
         BeginModal(c, op, k)
  PROVE  /\ caller' \in [Client -> CallerPc] /\ call' \in [Client -> SUBSET Message]
         /\ future' \in [Client -> SUBSET Reply] /\ serial' \in [Client -> 0..2]
         /\ promises' \in [Client -> [Ids -> {"none", "invalid", "valid", "set"}]]
<1> DEFINE s == (serial[c] + 1) % 3
<1>1. s \in 0..2
  <2>1. serial[c] \in 0..2
    BY DEF TypeOK, ClientsTypeOK
  <2>2. serial[c] = 0 \/ serial[c] = 1 \/ serial[c] = 2
    BY <2>1
  <2>. QED  BY <2>2
<1>2. PICK m \in Drawn(c) :
        /\ serial' = [serial EXCEPT ![c] = s]
        /\ call' = [call EXCEPT ![c] = {NewMessage(c, op, m, k, s)}]
        /\ future' = [future EXCEPT ![c] = {}]
        /\ \/ /\ promises' = [promises EXCEPT ![c][m] = "valid"]
              /\ caller' = [caller EXCEPT ![c] = "send"]
           \/ /\ caller' = [caller EXCEPT ![c] = "send broken"]
              /\ UNCHANGED promises
  BY Zenon DEF BeginModal
<1> HIDE DEF s
<1>3. NewMessage(c, op, m, k, s) \in Message
  BY <1>1, DrawnIds, NewMessageType DEF Ids
<1>4. m \in Ids
  BY DrawnIds DEF Ids
<1>5. promises' \in [Client -> [Ids -> {"none", "invalid", "valid", "set"}]]
  <2>1. ClientsTypeOK
    BY DEF TypeOK
  <2>2. [promises EXCEPT ![c][m] = "valid"]
          \in [Client -> [Ids -> {"none", "invalid", "valid", "set"}]]
    BY <2>1, <1>4, OnePromise
  <2>. QED  BY <1>2, <2>1, <2>2 DEF ClientsTypeOK
<1>6. caller' \in [Client -> CallerPc]
  BY <1>2 DEF TypeOK, ClientsTypeOK, CallerPc
<1>. QED  BY <1>1, <1>2, <1>3, <1>5, <1>6 DEF TypeOK, ClientsTypeOK

LEMMA NextTInv == TInv /\ [Next]_vars => TInv'
<1> SUFFICES ASSUME TypeOK, HasQueue, StartsBound, [Next]_vars
             PROVE  TypeOK' /\ HasQueue' /\ StartsBound'
  BY DEF TInv
<1> DEFINE Goal == ServerTypeOK' /\ QueuesTypeOK' /\ ClientsTypeOK' /\ HasQueue' /\ StartsBound'
<1>0. ServerTypeOK /\ QueuesTypeOK /\ ClientsTypeOK /\ HasQueue /\ StartsBound
  BY DEF TypeOK
<1>a. ASSUME UNCHANGED serverVars PROVE ServerTypeOK' /\ StartsBound'
  BY <1>0, <1>a DEF ServerTypeOK, StartsBound, serverVars
<1>b. ASSUME UNCHANGED <<serverQueue, replies>> PROVE QueuesTypeOK'
  BY <1>0, <1>b DEF QueuesTypeOK
<1>c. ASSUME UNCHANGED clientVars PROVE ClientsTypeOK' /\ HasQueue'
  BY <1>0, <1>c DEF ClientsTypeOK, HasQueue, clientVars
<1>1. ASSUME Start PROVE Goal
  <2>1. /\ server' = "starting" /\ stopFlag' = FALSE /\ endpoints' = <<>>
        /\ nextId' = 1 /\ outbox' = {} /\ epoch' = epoch /\ queueExists' = queueExists
        /\ epoch < MaxStarts
    BY <1>1 DEF Start
  <2>2. DOMAIN endpoints' = {} /\ Range(endpoints') = {}
    BY <2>1 DEF Range
  <2>3. ServerTypeOK' /\ StartsBound'
    <3>1. server' \in ServerPc /\ server' # "sending" /\ stopFlag' \in BOOLEAN
      BY <2>1 DEF ServerPc
    <3>2. epoch' \in 0..MaxStarts /\ queueExists' \in BOOLEAN
      BY <1>0, <2>1 DEF ServerTypeOK
    <3>. QED  BY <2>1, <2>2, <3>1, <3>2 DEF ServerTypeOK, StartsBound
  <2>. QED  BY <1>1, <2>3, <1>b, <1>c DEF Start
<1>2. ASSUME Shutdown PROVE Goal
  <2>1. ServerTypeOK' /\ StartsBound'
    BY <1>0, <1>2 DEF Shutdown, ServerTypeOK, StartsBound
  <2>. QED  BY <1>2, <2>1, <1>b, <1>c DEF Shutdown
<1>3. ASSUME ServerDies PROVE Goal
  <2>1. ServerTypeOK' /\ StartsBound'
    BY <1>0, <1>3 DEF ServerDies, ServerTypeOK, StartsBound, ServerPc
  <2>. QED  BY <1>3, <2>1, <1>b, <1>c DEF ServerDies
<1>4. ASSUME CreateQueue PROVE Goal
  <2>1. epoch' \in 0..MaxStarts
    BY <1>0, <1>4, BoundAssumption DEF CreateQueue, ServerTypeOK, StartsBound
  <2>2. /\ server = "starting" /\ server' = "receiving" /\ queueExists' = TRUE
        /\ UNCHANGED <<stopFlag, endpoints, nextId, outbox>>
    BY <1>4 DEF CreateQueue
  <2>3. ServerTypeOK' /\ StartsBound'
    BY <1>0, <2>1, <2>2 DEF ServerTypeOK, StartsBound, ServerPc
  <2>4. QueuesTypeOK'
    BY <1>0, <1>4, BoundAssumption DEF CreateQueue, QueuesTypeOK
  <2>. QED  BY <1>4, <2>3, <2>4, <1>c DEF CreateQueue
<1>5. ASSUME Stop PROVE Goal
  <2>1. ServerTypeOK' /\ StartsBound'
    BY <1>0, <1>5 DEF Stop, ServerTypeOK, StartsBound, ServerPc
  <2>2. QueuesTypeOK'
    BY <1>0, <1>5, BoundAssumption DEF Stop, QueuesTypeOK
  <2>. QED  BY <1>5, <2>1, <2>2, <1>c DEF Stop
<1>6. ASSUME Handle PROVE Goal
  <2>1. server' # "starting"
    BY <1>6, HandleCases
    DEF Dropped, Forgotten, Replied, Accepted, NoReply, Sending
  <2>. QED  BY <1>6, <2>1, <1>c, HandleTypeOK DEF Handle, TypeOK, StartsBound
<1>7. ASSUME SendReply PROVE Goal
  BY <1>7, <1>c, SendReplyTypeOK DEF SendReply, TypeOK, StartsBound
<1>8. ASSUME NEW c \in Client, ReceiverStarts(c) PROVE Goal
  <2>1. ClientsTypeOK' /\ HasQueue'
    BY <1>0, <1>8 DEF ReceiverStarts, ClientsTypeOK, HasQueue
  <2>. QED  BY <1>8, <2>1, <1>a, <1>b DEF ReceiverStarts
<1>9. ASSUME NEW c \in Client, Receive(c) PROVE Goal
  <2> DEFINE q == ThisQueue(c)
             r == Head(replies[q])
             entry == promises[c][r.messageId]
             next == CASE entry = "valid" -> "set"
                       [] entry = "invalid" -> "none"
                       [] OTHER -> entry
  <2>1. q \in Queue /\ replies[q] # <<>> /\ replies[q] \in Seq(Reply)
        /\ Len(replies[q]) <= QueueSize
    BY <1>0, <1>9, BoundAssumption
    DEF Receive, QueuesTypeOK, ClientsTypeOK, ThisQueue, Queue
  <2>2. r \in Reply /\ Tail(replies[q]) \in Seq(Reply) /\ Len(Tail(replies[q])) <= QueueSize
    BY <2>1, BoundAssumption, SeqOps
  <2>3. /\ replies' = [replies EXCEPT ![q] = Tail(replies[q])]
        /\ promises' = [promises EXCEPT ![c][r.messageId] = next]
        /\ future' = IF entry = "valid" THEN [future EXCEPT ![c] = {r}] ELSE future
        /\ UNCHANGED <<serverVars, serverQueue, caller, call, attached, conn,
                       queueOpen, clientId, receiver, serial>>
    BY <1>9, Zenon DEF Receive
  <2>4. r.messageId \in Ids
    BY <2>2 DEF Reply
  <2>5. next \in {"none", "invalid", "valid", "set"}
    BY <1>0, <2>4 DEF ClientsTypeOK
  <2> HIDE DEF q, r, next, entry
  <2>6. QueuesTypeOK'
    BY <1>0, <2>1, <2>2, <2>3 DEF QueuesTypeOK
  <2>7. ClientsTypeOK' /\ HasQueue'
    BY <1>0, <2>2, <2>3, <2>4, <2>5 DEF ClientsTypeOK, HasQueue
  <2>. QED  BY <2>3, <2>6, <2>7, <1>a
<1>10. ASSUME NEW c \in Client, ReceiverStops(c) PROVE Goal
  <2>1. ClientsTypeOK' /\ HasQueue'
    <3>1. "idle" \in CallerPc /\ 0 \in 0..MaxStarts
      BY BoundAssumption DEF CallerPc
    <3>. QED  BY <1>0, <1>10, <3>1 DEF ReceiverStops, ClientsTypeOK, HasQueue
  <2>. QED  BY <1>10, <2>1, <1>a, <1>b DEF ReceiverStops
<1>11. ASSUME NEW c \in Client, Send(c) PROVE Goal
  <2>1. QueuesTypeOK'
    <3>1. CASE UNCHANGED serverQueue
      BY <1>11, <3>1, <1>b DEF Send
    <3>2. ASSUME Len(serverQueue) < QueueSize, NEW m \in call[c],
                 serverQueue' = Append(serverQueue, m)
          PROVE  QueuesTypeOK'
      <4>1. m \in Message /\ UNCHANGED replies
        BY <1>0, <1>11, <3>2 DEF Send, ClientsTypeOK
      <4>2. serverQueue' \in Seq(Message) /\ Len(serverQueue') = Len(serverQueue) + 1
        BY <1>0, <3>2, <4>1, SeqOps DEF QueuesTypeOK
      <4>. QED  BY <1>0, <3>2, <4>1, <4>2, BoundAssumption DEF QueuesTypeOK
    <3>. QED  BY <1>11, <3>1, <3>2 DEF Send, Enqueued
  <2>2. ClientsTypeOK' /\ HasQueue'
    <3> DEFINE next == CASE caller[c] = "send" -> "wait"
                         [] caller[c] = "send broken" -> "broken"
                         [] caller[c] = "post" -> "idle"
    <3>1. next \in CallerPc
      BY <1>11 DEF Send, CallerPc
    <3>2. caller' = [caller EXCEPT ![c] = next]
          /\ call' \in {[call EXCEPT ![c] = {}], call}
          /\ UNCHANGED <<attached, conn, queueOpen, clientId, receiver, promises, future, serial>>
      BY <1>11, Zenon DEF Send
    <3> HIDE DEF next
    <3>3. call' \in [Client -> SUBSET Message]
      BY <1>0, <3>2 DEF ClientsTypeOK
    <3>4. caller' \in [Client -> CallerPc]
      BY <1>0, <3>1, <3>2 DEF ClientsTypeOK
    <3>. QED  BY <1>0, <3>2, <3>3, <3>4 DEF ClientsTypeOK, HasQueue
  <2>. QED  BY <1>11, <2>1, <2>2, <1>a DEF Send
<1>12. ASSUME NEW c \in Client, Return(c) PROVE Goal
  <2>1. PICK m \in call[c], r \in future[c] :
          LET refused == m.op = "connect" /\ r.status # "Ok" IN
          /\ promises' = [promises EXCEPT ![c][m.messageId] = "none"]
          /\ clientId' = IF m.op = "connect"
                           THEN [clientId EXCEPT ![c] = r.clientId] ELSE clientId
          /\ attached' = IF refused THEN [attached EXCEPT ![c] = 0] ELSE attached
          /\ queueOpen' = IF refused THEN [queueOpen EXCEPT ![c] = FALSE] ELSE queueOpen
          /\ caller' = [caller EXCEPT ![c] = IF m.op = "disconnect" THEN "join" ELSE "idle"]
    BY <1>12, Zenon DEF Return
  <2>2. m \in Message /\ r \in Reply
    BY <1>0 DEF ClientsTypeOK
  <2>3. m.messageId \in Ids /\ r.clientId \in Nat
    BY <2>2 DEF Message, Reply
  <2>4. ClientsTypeOK' /\ HasQueue'
    <3>1. clientId' \in [Client -> Nat]
      BY <1>0, <2>1, <2>3 DEF ClientsTypeOK
    <3>2. attached' \in [Client -> 0..MaxStarts] /\ queueOpen' \in [Client -> BOOLEAN]
      BY <1>0, <2>1, BoundAssumption DEF ClientsTypeOK
    <3>3. \A d \in Client : attached'[d] # 0 => attached[d] # 0
      BY <1>0, <2>1 DEF ClientsTypeOK
    <3>4. caller' \in [Client -> CallerPc]
      BY <1>0, <2>1 DEF ClientsTypeOK, CallerPc
    <3>5. promises' \in [Client -> [Ids -> {"none", "invalid", "valid", "set"}]]
      BY <1>0, <2>1, <2>3 DEF ClientsTypeOK
    <3>6. call' \in [Client -> SUBSET Message] /\ future' \in [Client -> SUBSET Reply]
      BY <1>0, <1>12 DEF Return, ClientsTypeOK
    <3>7. UNCHANGED <<conn, receiver, serial>>
      BY <1>12 DEF Return
    <3>. QED
      BY <1>0, <3>1, <3>2, <3>3, <3>4, <3>5, <3>6, <3>7 DEF ClientsTypeOK, HasQueue
  <2>. QED  BY <1>12, <2>4, <1>a, <1>b DEF Return
<1>13. ASSUME NEW c \in Client, ReturnBroken(c) PROVE Goal
  <2>1. ClientsTypeOK' /\ HasQueue'
    BY <1>0, <1>13 DEF ReturnBroken, ClientsTypeOK, HasQueue, CallerPc
  <2>. QED  BY <1>13, <2>1, <1>a, <1>b DEF ReturnBroken
<1>14. ASSUME NEW c \in Client, Connect(c) PROVE Goal
  <2>1. /\ epoch \in 0..MaxStarts /\ conn[c] + 1 \in 1..MaxConnects
        /\ conn[c] + 1 \in 0..MaxConnects /\ conn[c] + 1 # 0 /\ "connect" \in Op
    BY <1>0, <1>14, BoundAssumption DEF Connect, ServerTypeOK, ClientsTypeOK, Op
  <2>2. /\ attached' = [attached EXCEPT ![c] = epoch]
        /\ conn' = [conn EXCEPT ![c] = @ + 1]
        /\ queueOpen' = [queueOpen EXCEPT ![c] = TRUE]
        /\ receiver' = [receiver EXCEPT ![c] = "starting"]
        /\ BeginModal(c, "connect", conn[c] + 1)
        /\ UNCHANGED <<serverVars, serverQueue, replies, clientId>>
    BY <1>14 DEF Connect
  <2>3. /\ caller' \in [Client -> CallerPc] /\ call' \in [Client -> SUBSET Message]
        /\ future' \in [Client -> SUBSET Reply] /\ serial' \in [Client -> 0..2]
        /\ promises' \in [Client -> [Ids -> {"none", "invalid", "valid", "set"}]]
    BY <2>1, <2>2, BeginModalTypeOK
  <2>4. ClientsTypeOK' /\ HasQueue'
    BY <1>0, <2>1, <2>2, <2>3 DEF ClientsTypeOK, HasQueue
  <2>. QED  BY <2>2, <2>4, <1>a, <1>b
<1>15. ASSUME NEW c \in Client, NEW op \in {"disconnect", "ping", "request"}, Modal(c, op)
       PROVE  Goal
  <2>1. conn[c] \in 1..MaxConnects /\ op \in Op
    BY <1>0, <1>15, BoundAssumption DEF Modal, ClientsTypeOK, HasQueue, Op
  <2>2. /\ BeginModal(c, op, conn[c])
        /\ UNCHANGED <<serverVars, serverQueue, replies, attached, conn, queueOpen,
                       clientId, receiver>>
    BY <1>15 DEF Modal
  <2>3. /\ caller' \in [Client -> CallerPc] /\ call' \in [Client -> SUBSET Message]
        /\ future' \in [Client -> SUBSET Reply] /\ serial' \in [Client -> 0..2]
        /\ promises' \in [Client -> [Ids -> {"none", "invalid", "valid", "set"}]]
    BY <2>1, <2>2, BeginModalTypeOK
  <2>4. ClientsTypeOK' /\ HasQueue'
    BY <1>0, <2>2, <2>3 DEF ClientsTypeOK, HasQueue
  <2>. QED  BY <2>2, <2>4, <1>a, <1>b
<1>16. ASSUME NEW c \in Client, NEW op \in {"ping", "request"}, NEW m \in Ids,
              NonModal(c, op, m)
       PROVE  Goal
  <2> DEFINE new == NewMessage(c, op, m, conn[c], serial[c])
  <2>1. new \in Message
    <3>1. conn[c] \in 1..MaxConnects /\ op \in Op /\ serial[c] \in 0..2
      BY <1>0, <1>16, BoundAssumption DEF NonModal, ClientsTypeOK, HasQueue, Op
    <3>. QED  BY <3>1, NewMessageType
  <2>2. /\ caller' = [caller EXCEPT ![c] = "post"]
        /\ call' = [call EXCEPT ![c] = {new}]
        /\ \/ promises' = [promises EXCEPT ![c][m] = "invalid"]
           \/ promises' = promises
        /\ UNCHANGED <<serverVars, serverQueue, replies, attached, conn, queueOpen,
                       clientId, receiver, future, serial>>
    BY <1>16, Zenon DEF NonModal
  <2> HIDE DEF new
  <2>4. ClientsTypeOK' /\ HasQueue'
    <3>1. promises' \in [Client -> [Ids -> {"none", "invalid", "valid", "set"}]]
      <4>1. [promises EXCEPT ![c][m] = "invalid"]
              \in [Client -> [Ids -> {"none", "invalid", "valid", "set"}]]
        BY <1>0, OnePromise
      <4>. QED  BY <1>0, <2>2, <4>1 DEF ClientsTypeOK
    <3>2. caller' \in [Client -> CallerPc] /\ call' \in [Client -> SUBSET Message]
      BY <1>0, <2>1, <2>2 DEF ClientsTypeOK, CallerPc
    <3>. QED  BY <1>0, <2>2, <3>1, <3>2 DEF ClientsTypeOK, HasQueue
  <2>. QED  BY <2>2, <2>4, <1>a, <1>b
<1>17. ASSUME NEW c \in Client, ClientDies(c) PROVE Goal
  <2>1. ClientsTypeOK' /\ HasQueue'
    <3>1. /\ "idle" \in CallerPc /\ 0 \in 0..MaxStarts /\ 0 \in Nat
          /\ [m \in Ids |-> "none"] \in [Ids -> {"none", "invalid", "valid", "set"}]
      BY BoundAssumption DEF CallerPc
    <3>. QED  BY <1>0, <1>17, <3>1 DEF ClientDies, ClientsTypeOK, HasQueue
  <2>. QED  BY <1>17, <2>1, <1>a, <1>b DEF ClientDies
<1>18. ASSUME UNCHANGED vars PROVE Goal
  BY <1>18, <1>a, <1>b, <1>c DEF vars
<1>19. 0 \in Ids /\ \A c \in Client : Drawn(c) \subseteq Ids
  BY DrawnIds DEF Ids
<1>20. Goal
  <2> HIDE DEF Goal
  <2>1. CASE Next
    BY <2>1, <1>1, <1>2, <1>3, <1>4, <1>5, <1>6, <1>7, <1>8, <1>9, <1>10, <1>11, <1>12,
       <1>13, <1>14, <1>15, <1>16, <1>17, <1>19 DEF Next, ServerThread, ClientThreads
  <2>. QED  BY <2>1, <1>18
<1>. QED  BY <1>20 DEF TypeOK

-----------------------------------------------------------------------------
(* The premise of all that follows TypeOK: no message id is drawn again while
   a message of the client with that id is under way.  It holds if ids are
   drawn fresh, which random 32 bits make all but certain; and for any ids if
   clients only make modal calls, or post only what is sent under id 0. *)
IdsDistinct ==
  DrawsFresh \/ ("reply" \notin Posts /\ (0 \notin MessageId \/ Posts = {}))

Up == server \in {"receiving", "sending"}
Live(c) == Up /\ attached[c] = epoch
Knows(c, id) == id \in DOMAIN endpoints /\ endpoints[id] = ThisQueue(c)

(* What is under way of a client's present connection: requests it has sent,
   the reply that sendReply has to send, replies it has not received. *)
Asked(c) == {m \in Range(serverQueue) : m.from = ThisQueue(c)}
Answering(c) == {r \in {o.reply : o \in outbox} : r.from = ThisQueue(c)}
Answered(c) == Range(replies[ThisQueue(c)])
UnderWay(c) == Asked(c) \cup Answering(c) \cup Answered(c)

(* It has the id of the modal call. *)
Awaited(c, x) == promises[c][x.messageId] \in {"valid", "set"}

(* Queues and names. *)
UpHasQueue == (Up => queueExists) /\ (queueExists => epoch # 0)

NewQueuesUnused ==
  \A q \in Queue : q[2] > conn[q[1]] =>
    /\ \A m \in Range(serverQueue) : m.from # q
    /\ replies[q] = <<>>
    /\ \A id \in DOMAIN endpoints : endpoints[id] # q

(* Nobody has an id that is another's, or still to be given. *)
Routed ==
  Up => \A m \in Range(serverQueue) : m.op # "connect" =>
          /\ m.clientId < nextId
          /\ m.clientId \in DOMAIN endpoints => endpoints[m.clientId] = m.from

(* Replies go where the requests came from, one at a time; only an accepted
   connection is answered. *)
RepliesRouted ==
  /\ \A o, p \in outbox : o = p
  /\ \A o \in outbox : /\ o.reply.from = endpoints[o.to] /\ o.reply.clientId = o.to
                       /\ o.reply.op = "connect" => o.reply.status = "Ok"
  /\ \A q \in Queue : \A r \in Range(replies[q]) :
       r.from = q /\ (r.op = "connect" => r.status = "Ok")

(* Of a client that is not connected. *)
Detached(c) ==
  /\ caller[c] = "idle" /\ call[c] = {} /\ future[c] = {}
  /\ receiver[c] = "off"
  /\ \A i \in Ids : promises[c][i] = "none"

(* Of one that is: its call, its promise and its future agree. *)
CallInv(c) ==
  /\ queueOpen[c] /\ attached[c] <= epoch
  /\ caller[c] \in {"idle", "join"} => call[c] = {}
  /\ caller[c] # "wait" => future[c] = {}
  /\ \A m, n \in call[c] : m = n
  /\ \A m \in call[c] :
       /\ m.from = ThisQueue(c) /\ m.clientId = clientId[c]
       /\ m.op = "connect" => caller[c] \in {"send", "wait"}
       /\ caller[c] = "post" => m.op \in {"ping", "request"}
       /\ caller[c] \in {"send", "wait"} => Awaited(c, m)
  /\ \A i \in Ids :
       /\ promises[c][i] \in {"valid", "set"} =>
            caller[c] \in {"send", "wait"} /\ \E m \in call[c] : m.messageId = i
       /\ promises[c][i] = "set" => future[c] # {}

(* Nothing follows the modal call, which is sent once: its reply is the last. *)
Ordered(c) ==
  \A i, j \in 1..Len(serverQueue) :
    i < j /\ serverQueue[i].from = ThisQueue(c) /\ serverQueue[j].from = ThisQueue(c)
      => ~Awaited(c, serverQueue[i])

CallIsLast(c) ==
  /\ Ordered(c)
  /\ \A x \in Answering(c) : Awaited(c, x) => Asked(c) = {}
  /\ \A i \in 1..Len(replies[ThisQueue(c)]) : Awaited(c, replies[ThisQueue(c)][i]) =>
       i = Len(replies[ThisQueue(c)]) /\ Answering(c) = {} /\ Asked(c) = {}
  /\ future[c] # {} \/ caller[c] = "join" => UnderWay(c) = {}
  /\ caller[c] = "send" => \A x \in UnderWay(c) : ~Awaited(c, x)

(* What has the id of the call is the call, or the reply to it. *)
OwnAnswer(c) ==
  /\ \A m \in call[c], x \in UnderWay(c) :
       Awaited(c, x) => x.op = m.op /\ x.serial = m.serial
  /\ \A m \in call[c], r \in future[c] :
       r.op = m.op /\ r.from = m.from /\ r.serial = m.serial
  /\ \A r \in future[c] : r.op = "connect" => r.status = "Ok"

(* Under the server it is connected to the client is known, from the answer
   to its connection to that of its disconnection. *)
Known(c) ==
  /\ Asked(c) \cup Answering(c) # {} => attached[c] = epoch
  /\ \A x \in Asked(c) : x.op # "connect" => x.clientId = clientId[c]
  /\ Live(c) =>
       /\ caller[c] \notin {"send broken", "broken"}
       /\ \A x \in UnderWay(c) : x.op \in {"connect", "disconnect"} => Awaited(c, x)
       /\ \A x \in Answering(c) \cup Answered(c) \cup future[c] :
            x.op = "connect" => Knows(c, x.clientId)
       /\ \/ caller[c] \in {"idle", "post"}
          \/ \E m \in call[c] : \/ m.op \in {"ping", "request"}
                                \/ m.op = "disconnect" /\ caller[c] = "send"
          \/ \E x \in Asked(c) : x.op # "connect"
          => Knows(c, clientId[c])

(* A promise that nobody waits for has its ping under way, and before the
   reply to a modal call. *)
PostsAnswered(c) ==
  /\ Live(c) => \A i \in Ids : promises[c][i] = "invalid" =>
       \/ caller[c] = "post" /\ \E m \in call[c] : m.messageId = i /\ m.op = "ping"
       \/ \E x \in UnderWay(c) : x.messageId = i /\ x.op = "ping"
  /\ (\E x \in Answered(c) : Awaited(c, x)) =>
       \A i \in Ids : promises[c][i] = "invalid" => \E y \in Answered(c) : y.messageId = i
  /\ future[c] # {} \/ caller[c] = "join" => \A i \in Ids : promises[c][i] # "invalid"

(* Where ids may be drawn again, none that may be drawn is under way when a
   call begins. *)
Quiet(c) ==
  ~DrawsFresh =>
    /\ caller[c] \notin {"send broken", "broken"}
    /\ \A i \in Ids : promises[c][i] # "invalid"
    /\ caller[c] \in {"idle", "post"} =>
         \A x \in UnderWay(c) \cup call[c] : x.messageId \notin MessageId

Attached(c) ==
  CallInv(c) /\ CallIsLast(c) /\ OwnAnswer(c) /\ Known(c) /\ PostsAnswered(c) /\ Quiet(c)

ClientInv(c) == IF attached[c] = 0 THEN Detached(c) ELSE Attached(c)

ServerInv == UpHasQueue /\ NewQueuesUnused /\ Routed /\ RepliesRouted

IInv == TInv /\ ServerInv /\ \A c \in Client : ClientInv(c)

-----------------------------------------------------------------------------
LEMMA Elements ==
  ASSUME NEW S, NEW s \in Seq(S)
  PROVE  /\ \A x \in S : Range(Append(s, x)) = Range(s) \cup {x}
         /\ s # <<>> => Range(s) = {Head(s)} \cup Range(Tail(s))
         /\ Range(s) = {s[i] : i \in 1..Len(s)}
<1>1. ASSUME NEW x \in S PROVE Range(Append(s, x)) = Range(s) \cup {x}
  <2>1. DOMAIN Append(s, x) = 1..Len(s) + 1 /\ DOMAIN s = 1..Len(s)
    OBVIOUS
  <2>2. \A i \in 1..Len(s) : Append(s, x)[i] = s[i]
    OBVIOUS
  <2>3. Append(s, x)[Len(s) + 1] = x
    OBVIOUS
  <2>. QED  BY <2>1, <2>2, <2>3 DEF Range
<1>2. ASSUME s # <<>> PROVE Range(s) = {Head(s)} \cup Range(Tail(s))
  <2>1. Len(s) \in Nat \ {0} /\ DOMAIN s = 1..Len(s) /\ DOMAIN Tail(s) = 1..Len(s) - 1
        /\ Head(s) = s[1]
    BY <1>2
  <2>2. \A i \in 1..Len(s) - 1 : Tail(s)[i] = s[i + 1]
    BY <1>2
  <2>3. ASSUME NEW x \in Range(s) PROVE x = Head(s) \/ x \in Range(Tail(s))
    <3>1. PICK i \in 1..Len(s) : x = s[i]
      BY <2>1 DEF Range
    <3>2. CASE i = 1
      BY <3>1, <3>2, <2>1
    <3>3. CASE i # 1
      <4>1. i - 1 \in 1..Len(s) - 1 /\ (i - 1) + 1 = i
        BY <3>1, <3>3, <2>1
      <4>2. x = Tail(s)[i - 1]
        BY <3>1, <2>2, <4>1
      <4>. QED  BY <2>1, <4>1, <4>2 DEF Range
    <3>. QED  BY <3>2, <3>3
  <2>4. Head(s) \in Range(s)
    BY <2>1 DEF Range
  <2>5. ASSUME NEW x \in Range(Tail(s)) PROVE x \in Range(s)
    <3>1. PICK i \in 1..Len(s) - 1 : x = Tail(s)[i]
      BY <2>1 DEF Range
    <3>2. i + 1 \in 1..Len(s) /\ x = s[i + 1]
      BY <2>1, <2>2, <3>1
    <3>. QED  BY <2>1, <3>2 DEF Range
  <2>. QED  BY <2>3, <2>4, <2>5
<1>3. Range(s) = {s[i] : i \in 1..Len(s)}
  <2>1. DOMAIN s = 1..Len(s)
    OBVIOUS
  <2>. QED  BY <2>1 DEF Range
<1>. QED  BY <1>1, <1>2, <1>3

-----------------------------------------------------------------------------
(* What a step leaves of a client that takes no part in it: its variables,
   its replies, and, as long as its server is up, what it has under way. *)
Apart(c) ==
  /\ UNCHANGED <<caller[c], call[c], attached[c], conn[c], queueOpen[c], clientId[c],
                 promises[c], future[c], replies[ThisQueue(c)]>>
  /\ attached[c] = 0 => UNCHANGED receiver[c]
  /\ Asked(c)' \subseteq Asked(c) /\ Answering(c)' \subseteq Answering(c)
  /\ Ordered(c) => Ordered(c)'
  /\ epoch' >= epoch /\ (Asked(c)' \cup Answering(c)' # {} => epoch' = epoch)
  /\ attached[c] # 0 /\ attached[c] <= epoch /\ Live(c)' =>
       /\ Live(c) /\ Asked(c)' = Asked(c) /\ Answering(c)' = Answering(c)
       /\ \A id : Knows(c, id) => Knows(c, id)'

LEMMA ApartKeeps ==
  ASSUME TypeOK, TypeOK', NEW c \in Client, ClientInv(c), Apart(c)
  PROVE  ClientInv(c)'
<1>1. CASE attached[c] = 0
  BY <1>1 DEF Apart, ClientInv, Detached
<1>2. CASE attached[c] # 0
  <2>1. /\ UNCHANGED <<caller[c], call[c], attached[c], conn[c], queueOpen[c],
                       clientId[c], promises[c], future[c], replies[ThisQueue(c)]>>
        /\ ThisQueue(c)' = ThisQueue(c) /\ Answered(c)' = Answered(c)
        /\ \A x : Awaited(c, x)' <=> Awaited(c, x)
        /\ UnderWay(c)' \subseteq UnderWay(c)
        /\ Asked(c)' \subseteq Asked(c) /\ Answering(c)' \subseteq Answering(c)
    BY DEF Apart, ThisQueue, Answered, Awaited, UnderWay
  <2>2. CallInv(c) /\ CallIsLast(c) /\ OwnAnswer(c) /\ Known(c) /\ PostsAnswered(c)
        /\ Quiet(c)
    BY <1>2 DEF ClientInv, Attached
  <2>3. attached[c] <= epoch /\ epoch' >= epoch /\ epoch \in Nat /\ attached[c] \in Nat
    BY <2>2 DEF CallInv, Apart, TypeOK, ServerTypeOK, ClientsTypeOK
  <2>4. Live(c)' =>
       /\ Live(c) /\ Asked(c)' = Asked(c) /\ Answering(c)' = Answering(c)
       /\ UnderWay(c)' = UnderWay(c)
       /\ \A id : Knows(c, id) => Knows(c, id)'
    BY <1>2, <2>1, <2>3 DEF Apart, UnderWay
  <2>5. CallInv(c)'
    <3>1. attached[c]' <= epoch'
      <4>1. epoch' \in Nat /\ attached[c]' = attached[c]
        BY <2>1 DEF TypeOK, ServerTypeOK
      <4>. QED  BY <4>1, <2>2, <2>3 DEF CallInv
    <3>3. queueOpen[c] /\ UNCHANGED queueOpen[c]
      BY <2>1, <2>2 DEF CallInv
    <3>4. queueOpen[c]'
      BY <3>3, Zenon
    <3>2. \A m \in call[c]' : Awaited(c, m)' <=> Awaited(c, m)
      BY <2>1
    <3>. QED  BY <2>1, <2>2, <3>1, <3>2, <3>4 DEF CallInv
  <2>6. CallIsLast(c)'
    BY <2>1, <2>2 DEF CallIsLast, Apart
  <2>7. OwnAnswer(c)'
    BY <2>1, <2>2 DEF OwnAnswer
  <2>8. Known(c)'
    <3>1. Asked(c)' \cup Answering(c)' # {} => attached[c]' = epoch'
      BY <2>1, <2>2 DEF Known, Apart
    <3>2. \A x \in Asked(c)' : x.op # "connect" => x.clientId = clientId[c]'
      BY <2>1, <2>2 DEF Known
    <3>. QED  BY <2>1, <2>2, <2>4, <3>1, <3>2 DEF Known
  <2>9. PostsAnswered(c)'
    BY <2>1, <2>2, <2>4 DEF PostsAnswered
  <2>10. Quiet(c)'
    BY <2>1, <2>2 DEF Quiet
  <2>. QED
    BY <1>2, <2>1, <2>5, <2>6, <2>7, <2>8, <2>9, <2>10 DEF ClientInv, Attached
<1>. QED  BY <1>1, <1>2

-----------------------------------------------------------------------------
(* The steps of the server by which no message moves. *)
LEMMA ServerAlone ==
  ASSUME TInv, ServerInv, TypeOK',
         Start \/ Shutdown \/ ServerDies \/ CreateQueue \/ Stop
  PROVE  ServerInv' /\ \A c \in Client : Apart(c)
<1>1. /\ UNCHANGED <<replies, clientVars>>
      /\ serverQueue' = serverQueue \/ serverQueue' = <<>>
      /\ endpoints' = endpoints \/ endpoints' = <<>>
      /\ outbox' = {} \/ UNCHANGED <<outbox, endpoints>>
      /\ epoch \in Nat
  BY DEF Start, Shutdown, ServerDies, CreateQueue, Stop, TInv, TypeOK, ServerTypeOK
<1>2. \/ /\ epoch' = epoch /\ (Up' => Up /\ UNCHANGED <<serverQueue, endpoints, outbox>>)
         /\ queueExists' = queueExists \/ ~Up'
         /\ nextId' = nextId \/ ~Up'
      \/ epoch' = epoch + 1 /\ serverQueue' = <<>> /\ outbox' = {} /\ queueExists'
  BY DEF Start, Shutdown, ServerDies, CreateQueue, Stop, Up, TInv, TypeOK, ServerTypeOK
<1>3. Range(serverQueue') \subseteq Range(serverQueue)
      /\ \A id \in DOMAIN endpoints' : id \in DOMAIN endpoints /\ endpoints'[id] = endpoints[id]
  BY <1>1 DEF Range
<1>4. UpHasQueue' /\ Routed'
  <2>1. UpHasQueue'
    BY DEF Start, Shutdown, ServerDies, CreateQueue, Stop, Up, ServerInv, UpHasQueue, TInv,
           TypeOK, ServerTypeOK
  <2>2. Routed'
    BY <1>1, <1>2, <1>3 DEF ServerInv, Routed, Range, Up
  <2>. QED  BY <2>1, <2>2
<1>5. NewQueuesUnused' /\ RepliesRouted'
  <2>1. NewQueuesUnused'
    BY <1>1, <1>3 DEF ServerInv, NewQueuesUnused, clientVars
  <2>2. RepliesRouted'
    BY <1>1 DEF ServerInv, RepliesRouted
  <2>. QED  BY <2>1, <2>2
<1>6. ASSUME NEW c \in Client PROVE Apart(c)
  <2>1. /\ UNCHANGED <<caller[c], call[c], attached[c], conn[c], queueOpen[c],
                       clientId[c], promises[c], future[c], receiver[c],
                       replies[ThisQueue(c)]>>
        /\ ThisQueue(c)' = ThisQueue(c)
    BY <1>1 DEF clientVars, ThisQueue
  <2>2. Asked(c)' \subseteq Asked(c) /\ Answering(c)' \subseteq Answering(c)
    BY <1>1, <1>3, <2>1 DEF Asked, Answering
  <2>3. Ordered(c) => Ordered(c)'
    BY <1>1, <2>1 DEF Ordered, Awaited
  <2>4. epoch' >= epoch /\ (Asked(c)' \cup Answering(c)' # {} => epoch' = epoch)
    BY <1>1, <1>2 DEF Asked, Answering, Range
  <2>5. attached[c] # 0 /\ attached[c] <= epoch /\ Live(c)' =>
       /\ Live(c) /\ Asked(c)' = Asked(c) /\ Answering(c)' = Answering(c)
       /\ \A id : Knows(c, id) => Knows(c, id)'
    BY <1>1, <1>2, <2>1 DEF Live, Asked, Answering, Knows
  <2>. QED  BY <2>1, <2>2, <2>3, <2>4, <2>5 DEF Apart
<1>. QED  BY <1>4, <1>5, <1>6 DEF ServerInv

(* The server takes a request: its reply is like it, and no client is
   forgotten but for its own disconnection. *)
Alike(r, m) ==
  r.from = m.from /\ r.op = m.op /\ r.serial = m.serial /\ r.messageId = m.messageId

Kept(q, disconnects) ==
  \A id \in DOMAIN endpoints : endpoints[id] # q \/ ~disconnects =>
    id \in DOMAIN endpoints' /\ endpoints'[id] = endpoints[id]

LEMMA HandleSteps ==
  ASSUME TInv, ServerInv, TypeOK', Handle, NEW m, m = Head(serverQueue)
  PROVE  /\ m \in Range(serverQueue) /\ Range(serverQueue) = {m} \cup Range(serverQueue')
         /\ \A o \in outbox' : Alike(o.reply, m)
         /\ m.op = "ping" /\ m.clientId \in DOMAIN endpoints => outbox' # {}
         /\ Kept(m.from, m.op = "disconnect")
         /\ ServerInv'
<1>1. /\ m \in Message /\ serverQueue # <<>> /\ serverQueue' = Tail(serverQueue)
      /\ server = "receiving" /\ outbox = {}
      /\ UNCHANGED <<stopFlag, epoch, queueExists, replies, clientVars>>
      /\ Dropped(m) \/ Forgotten(m) \/ Replied(m) \/ Accepted(m)
  BY HandleCases DEF TInv
<1>2. Range(serverQueue) = {m} \cup Range(serverQueue')
  BY <1>1, Elements DEF TInv, TypeOK, QueuesTypeOK
<1>3. /\ DOMAIN endpoints \subseteq 1..nextId - 1 /\ nextId \in Nat \ {0}
      /\ m.clientId \in Nat /\ m.from \in Queue
  BY <1>1 DEF TInv, TypeOK, ServerTypeOK, Message
<1>4. nextId \notin DOMAIN endpoints
  BY <1>3
<1>5. Up /\ Up' /\ UpHasQueue'
  BY <1>1 DEF ServerInv, Up, UpHasQueue, Dropped, Forgotten, Replied, Accepted, NoReply,
              Sending
<1>6. m.op # "connect" => /\ m.clientId < nextId
                          /\ m.clientId \in DOMAIN endpoints => endpoints[m.clientId] = m.from
  BY <1>2, <1>5 DEF ServerInv, Routed
<1>7. m.from[2] <= conn[m.from[1]]
  <2>1. ~(m.from[2] > conn[m.from[1]])
    BY <1>2, <1>3 DEF ServerInv, NewQueuesUnused
  <2>2. m.from[2] \in Nat /\ conn[m.from[1]] \in Nat
    BY <1>3, BoundAssumption DEF Queue, TInv, TypeOK, ClientsTypeOK
  <2>. QED  BY <2>1, <2>2
<1> DEFINE Goal ==
      /\ \A o, p \in outbox' : o = p
      /\ \A o \in outbox' : /\ Alike(o.reply, m) /\ o.reply.clientId = o.to
                            /\ m.from = endpoints'[o.to]
                            /\ o.reply.op = "connect" => o.reply.status = "Ok"
      /\ m.op = "ping" /\ m.clientId \in DOMAIN endpoints => outbox' # {}
      /\ Kept(m.from, m.op = "disconnect")
      /\ nextId' \in {nextId, nextId + 1}
      /\ \A id \in DOMAIN endpoints' :
           \/ id \in DOMAIN endpoints /\ endpoints'[id] = endpoints[id]
           \/ id = nextId /\ endpoints'[id] = m.from
<1>8. ASSUME NEW id, NEW status
      PROVE  /\ Alike(ReplyTo(m, id, status), m) /\ ReplyTo(m, id, status).clientId = id
             /\ ReplyTo(m, id, status).status = status
  BY DEF Alike, ReplyTo
<1>9. ASSUME Dropped(m) PROVE Goal
  BY <1>1, <1>9 DEF Dropped, NoReply, Kept
<1>10. ASSUME Forgotten(m) PROVE Goal
  <2>1. /\ DOMAIN endpoints' = DOMAIN endpoints \ {m.clientId}
        /\ \A id \in DOMAIN endpoints : id # m.clientId => endpoints'[id] = endpoints[id]
    BY <1>10, Removed DEF Forgotten
  <2>2. outbox' = {} /\ nextId' = nextId /\ m.op = "disconnect"
    BY <1>10 DEF Forgotten, NoReply
  <2>. QED  BY <2>1, <2>2, <1>6 DEF Kept
<1>11. ASSUME Replied(m) PROVE Goal
  <2>1. PICK status \in ReplyStatus :
          outbox' = {[to |-> m.clientId, reply |-> ReplyTo(m, m.clientId, status)]}
    BY <1>11 DEF Replied, Sending
  <2>2. m.op # "connect" /\ m.clientId \in DOMAIN endpoints
        /\ UNCHANGED <<endpoints, nextId>>
    BY <1>11 DEF Replied
  <2>. QED  BY <2>1, <2>2, <1>6, <1>8 DEF Kept, Alike
<1>12. ASSUME Accepted(m) PROVE Goal
  <2>1. /\ DOMAIN endpoints' = DOMAIN endpoints \cup {nextId} /\ endpoints'[nextId] = m.from
        /\ \A id \in DOMAIN endpoints : id # nextId => endpoints'[id] = endpoints[id]
    BY <1>12, Registered DEF Accepted
  <2>2. outbox' = {[to |-> nextId, reply |-> ReplyTo(m, nextId, "Ok")]}
        /\ m.op = "connect" /\ nextId' = nextId + 1
    BY <1>12 DEF Accepted, Sending
  <2>. QED  BY <2>1, <2>2, <1>4, <1>8 DEF Kept
<1>13. Goal
  BY <1>1, <1>9, <1>10, <1>11, <1>12
<1>14. NewQueuesUnused'
  BY <1>1, <1>2, <1>7, <1>13 DEF ServerInv, NewQueuesUnused, clientVars
<1>15. Routed'
  <2> SUFFICES ASSUME NEW x \in Range(serverQueue'), x.op # "connect"
               PROVE  /\ x.clientId < nextId'
                      /\ x.clientId \in DOMAIN endpoints' => endpoints'[x.clientId] = x.from
    BY DEF Routed
  <2>1. /\ x.clientId < nextId
        /\ x.clientId \in DOMAIN endpoints => endpoints[x.clientId] = x.from
    BY <1>2, <1>5 DEF ServerInv, Routed
  <2>2. x.clientId \in Nat
    <3>1. x \in Message
      BY <1>2, RangeOfSeq DEF TInv, TypeOK, QueuesTypeOK
    <3>. QED  BY <3>1 DEF Message
  <2>. QED  BY <1>3, <1>13, <2>1, <2>2
<1>16. RepliesRouted'
  BY <1>1, <1>13 DEF ServerInv, RepliesRouted, Alike
<1>. QED  BY <1>2, <1>5, <1>13, <1>14, <1>15, <1>16 DEF ServerInv

LEMMA SendReplySteps ==
  ASSUME TInv, ServerInv, TypeOK', SendReply
  PROVE  \E o \in outbox : LET r == o.reply IN
         /\ outbox = {o} /\ outbox' = {}
         /\ replies' = [replies EXCEPT ![r.from] = Append(replies[r.from], r)]
         /\ UNCHANGED <<serverQueue, epoch, clientVars>> /\ Up /\ Up'
         /\ Kept(r.from, r.op = "disconnect")
         /\ ServerInv'
<1>1. PICK o \in outbox :
       /\ replies' = [replies EXCEPT ![endpoints[o.to]] = Append(@, o.reply)]
       /\ endpoints' = IF o.reply.op = "disconnect"
                         THEN Restrict(endpoints, DOMAIN endpoints \ {o.to})
                         ELSE endpoints
  BY DEF SendReply
<1> DEFINE r == o.reply
<1>2. /\ server = "sending" /\ server' = "receiving" /\ outbox' = {}
      /\ UNCHANGED <<stopFlag, epoch, queueExists, nextId, serverQueue, clientVars>>
  BY DEF SendReply
<1>3. o.to \in DOMAIN endpoints /\ r \in Reply /\ r.from = endpoints[o.to] /\ outbox = {o}
      /\ (r.op = "connect" => r.status = "Ok")
  BY DEF TInv, TypeOK, ServerTypeOK, ServerInv, RepliesRouted
<1>4. r.from \in Queue /\ replies[r.from] \in Seq(Reply)
  BY <1>3 DEF Reply, TInv, TypeOK, QueuesTypeOK
<1> DEFINE s == Append(replies[r.from], r)
<1>5. replies' = [replies EXCEPT ![r.from] = s]
  BY <1>1, <1>3, Zenon
<1>6. Range(s) = Range(replies[r.from]) \cup {r}
  BY <1>3, <1>4, Elements
<1> HIDE DEF s
<1>7. \A q \in Queue : replies'[q] = IF q = r.from THEN s ELSE replies[q]
  BY <1>5 DEF TInv, TypeOK, QueuesTypeOK
<1>8. /\ DOMAIN endpoints' \subseteq DOMAIN endpoints
      /\ \A id \in DOMAIN endpoints : id # o.to \/ r.op # "disconnect" =>
           id \in DOMAIN endpoints' /\ endpoints'[id] = endpoints[id]
      /\ \A id \in DOMAIN endpoints' : endpoints'[id] = endpoints[id]
  <2>1. CASE r.op = "disconnect"
    <3>1. endpoints' = Restrict(endpoints, DOMAIN endpoints \ {o.to})
      BY <1>1, <2>1
    <3>2. /\ DOMAIN endpoints' = DOMAIN endpoints \ {o.to}
          /\ \A id \in DOMAIN endpoints : id # o.to => endpoints'[id] = endpoints[id]
      BY <3>1, Removed
    <3>. QED  BY <2>1, <3>2
  <2>2. CASE r.op # "disconnect"
    BY <1>1, <2>2
  <2>. QED  BY <2>1, <2>2
<1>9. Kept(r.from, r.op = "disconnect")
  BY <1>3, <1>8 DEF Kept
<1>10. Up /\ Up' /\ UpHasQueue'
  BY <1>2 DEF ServerInv, Up, UpHasQueue
<1>11. Routed'
  BY <1>2, <1>8, <1>10 DEF ServerInv, Routed
<1>12. RepliesRouted'
  BY <1>2, <1>3, <1>6, <1>7 DEF ServerInv, RepliesRouted
<1>13. NewQueuesUnused'
  <2> SUFFICES ASSUME NEW q \in Queue, q[2] > conn[q[1]]
               PROVE  /\ \A m \in Range(serverQueue) : m.from # q
                      /\ replies'[q] = <<>>
                      /\ \A id \in DOMAIN endpoints' : endpoints'[id] # q
    BY <1>2 DEF NewQueuesUnused, clientVars
  <2>1. /\ \A m \in Range(serverQueue) : m.from # q
        /\ replies[q] = <<>>
        /\ \A id \in DOMAIN endpoints : endpoints[id] # q
    BY DEF ServerInv, NewQueuesUnused
  <2>. QED  BY <1>3, <1>7, <1>8, <2>1
<1>14. replies' = [replies EXCEPT ![r.from] = Append(replies[r.from], r)]
  BY <1>5 DEF s
<1>. QED  BY <1>2, <1>3, <1>9, <1>10, <1>11, <1>12, <1>13, <1>14 DEF ServerInv

LEMMA OrderedTail ==
  ASSUME TypeOK, NEW c, serverQueue # <<>>, serverQueue' = Tail(serverQueue),
         UNCHANGED <<ThisQueue(c), promises[c]>>, Ordered(c)
  PROVE  /\ Ordered(c)'
         /\ Head(serverQueue).from = ThisQueue(c) /\ Awaited(c, Head(serverQueue)) =>
              \A x \in Range(serverQueue') : x.from # ThisQueue(c)
<1>1. /\ Len(serverQueue) \in Nat \ {0} /\ Len(serverQueue') = Len(serverQueue) - 1
      /\ Head(serverQueue) = serverQueue[1]
      /\ \A i \in 1..Len(serverQueue) - 1 : serverQueue'[i] = serverQueue[i + 1]
      /\ DOMAIN serverQueue' = 1..Len(serverQueue) - 1
  BY DEF TypeOK, QueuesTypeOK
<1>2. Ordered(c)'
  <2> SUFFICES ASSUME NEW i \in 1..Len(serverQueue'), NEW j \in 1..Len(serverQueue'),
                      i < j, serverQueue'[i].from = ThisQueue(c),
                      serverQueue'[j].from = ThisQueue(c)
               PROVE  ~Awaited(c, serverQueue'[i])
    BY DEF Ordered, Awaited
  <2>1. /\ i + 1 \in 1..Len(serverQueue) /\ j + 1 \in 1..Len(serverQueue) /\ i + 1 < j + 1
        /\ serverQueue'[i] = serverQueue[i + 1] /\ serverQueue'[j] = serverQueue[j + 1]
    BY <1>1
  <2>. QED  BY <2>1 DEF Ordered
<1>3. ASSUME Head(serverQueue).from = ThisQueue(c), Awaited(c, Head(serverQueue)),
             NEW x \in Range(serverQueue')
      PROVE  x.from # ThisQueue(c)
  <2>1. PICK i \in 1..Len(serverQueue) - 1 : x = serverQueue'[i]
    BY <1>1 DEF Range
  <2>2. 1 \in 1..Len(serverQueue) /\ i + 1 \in 1..Len(serverQueue) /\ 1 < i + 1
        /\ x = serverQueue[i + 1]
    BY <1>1, <2>1
  <2>. QED  BY <1>1, <1>3, <2>2 DEF Ordered
<1>. QED  BY <1>2, <1>3

(* A step of the server with a message of another client, or of an earlier
   connection. *)
LEMMA ServerForOthers ==
  ASSUME TInv, ServerInv, TypeOK', NEW c \in Client, NEW q,
         q # ThisQueue(c),
         UNCHANGED clientVars, epoch' = epoch,
         replies'[ThisQueue(c)] = replies[ThisQueue(c)],
         \/ serverQueue' = serverQueue
         \/ /\ serverQueue # <<>> /\ Head(serverQueue).from = q
            /\ serverQueue' = Tail(serverQueue),
         \A o \in outbox \cup outbox' : o.reply.from = q,
         Up /\ Up', NEW gone, Kept(q, gone)
  PROVE  Apart(c)
<1>1. /\ UNCHANGED <<caller[c], call[c], attached[c], conn[c], queueOpen[c],
                     clientId[c], promises[c], future[c], receiver[c]>>
      /\ ThisQueue(c)' = ThisQueue(c) /\ epoch \in Nat
  BY DEF clientVars, ThisQueue, TInv, TypeOK, ServerTypeOK
<1>2. Answering(c) = {} /\ Answering(c)' = {}
  BY <1>1 DEF Answering
<1>3. Asked(c)' = Asked(c)
  <2>1. CASE serverQueue' = serverQueue
    BY <2>1, <1>1 DEF Asked
  <2>2. CASE serverQueue # <<>> /\ Head(serverQueue).from = q /\ serverQueue' = Tail(serverQueue)
    <3>1. Range(serverQueue) = {Head(serverQueue)} \cup Range(serverQueue')
      BY <2>2, Elements DEF TInv, TypeOK, QueuesTypeOK
    <3>. QED  BY <2>2, <3>1, <1>1 DEF Asked
  <2>. QED  BY <2>1, <2>2
<1>4. Ordered(c) => Ordered(c)'
  <2>1. CASE serverQueue' = serverQueue
    BY <2>1, <1>1 DEF Ordered, Awaited
  <2>2. CASE serverQueue # <<>> /\ serverQueue' = Tail(serverQueue)
    BY <2>2, <1>1, OrderedTail DEF TInv
  <2>. QED  BY <2>1, <2>2
<1>5. \A id : Knows(c, id) => Knows(c, id)'
  BY <1>1 DEF Knows, Kept
<1>. QED  BY <1>1, <1>2, <1>3, <1>4, <1>5 DEF Apart, Live

(* A client's disconnection under way is its call. *)
LEMMA DisconnectIsCall ==
  ASSUME TypeOK, NEW c \in Client, Attached(c), Live(c),
         NEW x \in UnderWay(c), x.op = "disconnect", x.messageId \in Ids
  PROVE  /\ Awaited(c, x) /\ caller[c] = "wait" /\ future[c] = {}
         /\ \A n \in call[c] : n.op = "disconnect"
         /\ \A y \in UnderWay(c) : y.op # "connect"
<1>1. Awaited(c, x)
  BY DEF Attached, Known
<1>2. caller[c] \in {"send", "wait"} /\ \E n \in call[c] : n.messageId = x.messageId
  BY <1>1 DEF Attached, CallInv, Awaited
<1>3. \A n \in call[c] : n.op = "disconnect"
  BY <1>1 DEF Attached, OwnAnswer
<1>4. caller[c] = "wait" /\ future[c] = {}
  BY <1>1, <1>2 DEF Attached, CallIsLast
<1>5. \A y \in UnderWay(c) : y.op # "connect"
  BY <1>2, <1>3 DEF Attached, Known, OwnAnswer
<1>. QED  BY <1>1, <1>3, <1>4, <1>5

LEMMA HandleOwn ==
  ASSUME TInv, ServerInv, TypeOK', Handle, NEW c \in Client,
         attached[c] # 0, Attached(c), Head(serverQueue).from = ThisQueue(c)
  PROVE  Attached(c)'
<1> DEFINE m == Head(serverQueue)
<1>1. /\ m \in Message /\ serverQueue # <<>> /\ serverQueue' = Tail(serverQueue)
      /\ server = "receiving" /\ outbox = {} /\ server' \in {"receiving", "sending"}
      /\ UNCHANGED <<stopFlag, epoch, queueExists, replies, clientVars>>
  BY HandleCases
  DEF TInv, Dropped, Forgotten, Replied, Accepted, NoReply, Sending
<1>2. /\ m \in Range(serverQueue) /\ Range(serverQueue) = {m} \cup Range(serverQueue')
      /\ \A o \in outbox' : Alike(o.reply, m)
      /\ m.op = "ping" /\ m.clientId \in DOMAIN endpoints => outbox' # {}
      /\ Kept(m.from, m.op = "disconnect")
      /\ ServerInv'
  BY HandleSteps
<1> HIDE DEF m
<1>3. /\ UNCHANGED <<caller[c], call[c], attached[c], conn[c], queueOpen[c],
                     clientId[c], promises[c], future[c], receiver[c],
                     replies[ThisQueue(c)]>>
      /\ ThisQueue(c)' = ThisQueue(c) /\ Answered(c)' = Answered(c)
      /\ \A x : Awaited(c, x)' <=> Awaited(c, x)
  BY <1>1 DEF clientVars, ThisQueue, Answered, Awaited
<1>4. m.from = ThisQueue(c)
  BY DEF m
<1>5. /\ Asked(c) = {m} \cup Asked(c)' /\ Answering(c) = {}
      /\ m \in Asked(c) /\ m \in UnderWay(c) /\ m.messageId \in Ids
      /\ \A y \in Answering(c)' : Alike(y, m)
      /\ m.op = "ping" /\ m.clientId \in DOMAIN endpoints => Answering(c)' # {}
  <2>1. Asked(c) = {m} \cup Asked(c)' /\ Answering(c) = {}
    BY <1>1, <1>2, <1>3, <1>4 DEF Asked, Answering
  <2>2. \A y \in Answering(c)' : Alike(y, m)
    BY <1>2 DEF Answering
  <2>3. m.op = "ping" /\ m.clientId \in DOMAIN endpoints => Answering(c)' # {}
    BY <1>2, <1>3, <1>4 DEF Answering, Alike
  <2>. QED  BY <1>1, <2>1, <2>2, <2>3 DEF UnderWay, Message
<1>6. /\ UnderWay(c)' = Asked(c)' \cup Answering(c)' \cup Answered(c)
      /\ UnderWay(c) = Asked(c) \cup Answered(c)
  BY <1>3, <1>5 DEF UnderWay
<1>7. Live(c) /\ Live(c)'
  <2>1. attached[c] = epoch
    BY <1>5 DEF Attached, Known
  <2>. QED  BY <1>1, <1>3, <2>1 DEF Live, Up
<1>8. /\ Ordered(c)' /\ (Awaited(c, m) => Asked(c)' = {})
  <2>1. UNCHANGED <<ThisQueue(c), promises[c]>> /\ Ordered(c) /\ TypeOK
    BY <1>3 DEF Attached, CallIsLast, TInv
  <2>2. /\ Ordered(c)'
        /\ m.from = ThisQueue(c) /\ Awaited(c, m) =>
             \A x \in Range(serverQueue') : x.from # ThisQueue(c)
    BY <1>1, <2>1, OrderedTail DEF m
  <2>. QED  BY <1>3, <1>4, <2>2 DEF Asked
<1>9. CallInv(c)'
  BY <1>1, <1>3 DEF Attached, CallInv
<1>10. CallIsLast(c)'
  BY <1>3, <1>5, <1>6, <1>8 DEF Attached, CallIsLast, Alike, Awaited
<1>11. OwnAnswer(c)'
  BY <1>3, <1>5, <1>6 DEF Attached, OwnAnswer, Alike, Awaited
<1>12. Known(c)'
  <2>1. /\ attached[c] = epoch /\ \A x \in Asked(c) : x.op # "connect" => x.clientId = clientId[c]
        /\ caller[c] \notin {"send broken", "broken"}
        /\ \A x \in UnderWay(c) : x.op \in {"connect", "disconnect"} => Awaited(c, x)
    BY <1>7 DEF Attached, Known, Live
  <2>2. \A x \in UnderWay(c)' : x.op \in {"connect", "disconnect"} => Awaited(c, x)'
    BY <2>1, <1>3, <1>5, <1>6 DEF Alike, Awaited
  <2>3. \A y \in Answering(c)' : y.op = "connect" => Knows(c, y.clientId)'
    <3> SUFFICES ASSUME NEW o \in outbox', o.reply.from = ThisQueue(c)
                 PROVE  Knows(c, o.reply.clientId)'
      BY <1>3 DEF Answering
    <3>1. o.to \in DOMAIN endpoints'
      BY DEF TypeOK, ServerTypeOK
    <3>2. o.reply.from = endpoints'[o.to] /\ o.reply.clientId = o.to
      BY <1>2 DEF ServerInv, RepliesRouted
    <3>. QED  BY <1>3, <3>1, <3>2 DEF Knows
  <2> DEFINE Speaks ==
        \/ caller[c] \in {"idle", "post"}
        \/ \E n \in call[c] : \/ n.op \in {"ping", "request"}
                              \/ n.op = "disconnect" /\ caller[c] = "send"
        \/ \E x \in Asked(c) : x.op # "connect"
  <2>4. /\ \A x \in Answered(c) \cup future[c] : x.op = "connect" => Knows(c, x.clientId)'
        /\ Speaks' => Knows(c, clientId[c])'
    <3>1. CASE m.op = "disconnect"
      <4>1. /\ Awaited(c, m) /\ caller[c] = "wait" /\ future[c] = {}
            /\ \A n \in call[c] : n.op = "disconnect"
            /\ \A y \in UnderWay(c) : y.op # "connect"
        BY <1>5, <1>7, <3>1, DisconnectIsCall DEF TInv
      <4>2. Asked(c)' = {}
        BY <4>1, <1>8
      <4>. QED  BY <4>1, <4>2, <1>3, <1>6
    <3>2. CASE m.op # "disconnect"
      <4>1. \A id : Knows(c, id) => Knows(c, id)'
        BY <3>2, <1>2, <1>3 DEF Knows, Kept
      <4>2. /\ \A x \in Answered(c) \cup future[c] : x.op = "connect" => Knows(c, x.clientId)
            /\ Speaks => Knows(c, clientId[c])
        BY <1>7 DEF Attached, Known
      <4>. QED  BY <4>1, <4>2, <1>3, <1>5
    <3>. QED  BY <3>1, <3>2
  <2>. QED  BY <1>1, <1>3, <1>5, <2>1, <2>2, <2>3, <2>4 DEF Known
<1>13. PostsAnswered(c)'
  <2>1. ASSUME NEW i \in Ids, promises[c][i] = "invalid",
               NEW x \in UnderWay(c), x.messageId = i, x.op = "ping"
        PROVE  \E y \in UnderWay(c)' : y.messageId = i /\ y.op = "ping"
    <3>1. CASE x = m
      <4>1. Knows(c, clientId[c]) /\ m.clientId = clientId[c]
        BY <1>5, <1>7, <2>1, <3>1 DEF Attached, Known
      <4>. QED  BY <1>5, <1>6, <2>1, <3>1, <4>1 DEF Knows, Alike
    <3>2. CASE x # m
      BY <1>5, <1>6, <2>1, <3>2
    <3>. QED  BY <3>1, <3>2
  <2>. QED  BY <1>3, <1>7, <2>1 DEF Attached, PostsAnswered
<1>14. Quiet(c)'
  BY <1>3, <1>5, <1>6 DEF Attached, Quiet, Alike
<1>. QED  BY <1>9, <1>10, <1>11, <1>12, <1>13, <1>14 DEF Attached

LEMMA SendReplyOwn ==
  ASSUME TInv, ServerInv, TypeOK', NEW c \in Client, attached[c] # 0, Attached(c),
         SendReply, NEW o \in outbox, outbox = {o}, outbox' = {}, o.reply.from = ThisQueue(c),
         replies' = [replies EXCEPT ![o.reply.from] = Append(replies[o.reply.from], o.reply)],
         UNCHANGED <<serverQueue, epoch, clientVars>>, Up, Up',
         Kept(o.reply.from, o.reply.op = "disconnect")
  PROVE  Attached(c)'
<1> DEFINE r == o.reply
           q == ThisQueue(c)
<1>1. /\ UNCHANGED <<caller[c], call[c], attached[c], conn[c], queueOpen[c],
                     clientId[c], promises[c], future[c], receiver[c], ThisQueue(c)>>
      /\ \A x : Awaited(c, x)' <=> Awaited(c, x)
  BY DEF clientVars, ThisQueue, Awaited
<1>2. /\ r \in Reply /\ r.messageId \in Ids /\ r.from = q
      /\ q \in Queue /\ replies[q] \in Seq(Reply)
  BY DEF TInv, TypeOK, ServerTypeOK, QueuesTypeOK, Reply
<1> HIDE DEF q
<1>3. /\ replies'[q] = Append(replies[q], r)
      /\ Range(replies'[q]) = Range(replies[q]) \cup {r}
      /\ Len(replies'[q]) = Len(replies[q]) + 1 /\ Len(replies[q]) \in Nat
      /\ replies'[q][Len(replies[q]) + 1] = r
      /\ \A i \in 1..Len(replies[q]) : replies'[q][i] = replies[q][i]
  <2>1. replies'[q] = Append(replies[q], r)
    BY <1>2 DEF TInv, TypeOK, QueuesTypeOK
  <2>. QED  BY <1>2, <2>1, Elements
<1> HIDE DEF r
<1>4. /\ Asked(c)' = Asked(c) /\ Answering(c) = {r} /\ Answering(c)' = {}
      /\ Answered(c)' = Answered(c) \cup {r}
      /\ UnderWay(c)' = UnderWay(c) /\ r \in UnderWay(c)
  <2>1. Asked(c)' = Asked(c) /\ Answering(c) = {r} /\ Answering(c)' = {}
    BY <1>1 DEF Asked, Answering, r
  <2>2. Answered(c)' = Answered(c) \cup {r}
    BY <1>1, <1>3 DEF Answered, q
  <2>. QED  BY <2>1, <2>2 DEF UnderWay
<1>5. Live(c) /\ Live(c)'
  <2>1. attached[c] = epoch
    BY <1>4 DEF Attached, Known
  <2>. QED  BY <1>1, <2>1 DEF Live
<1>6. CallInv(c)'
  BY <1>1 DEF Attached, CallInv
<1>7. CallIsLast(c)'
  <2>1. Ordered(c)'
    BY <1>1 DEF Attached, CallIsLast, Ordered
  <2>2. ASSUME NEW i \in 1..Len(replies'[q]), Awaited(c, replies'[q][i])
        PROVE  i = Len(replies'[q]) /\ Asked(c) = {}
    <3>1. i \notin 1..Len(replies[q])
      BY <1>3, <1>4, <2>2 DEF Attached, CallIsLast, q
    <3>2. i = Len(replies[q]) + 1
      BY <1>3, <2>2, <3>1
    <3>. QED  BY <1>3, <1>4, <2>2, <3>2 DEF Attached, CallIsLast
  <2>. QED  BY <1>1, <1>4, <2>1, <2>2 DEF Attached, CallIsLast, q
<1>8. OwnAnswer(c)'
  BY <1>1, <1>4 DEF Attached, OwnAnswer
<1>9. Known(c)'
  <2>1. /\ attached[c] = epoch /\ \A x \in Asked(c) : x.op # "connect" => x.clientId = clientId[c]
        /\ caller[c] \notin {"send broken", "broken"}
        /\ \A x \in UnderWay(c) : x.op \in {"connect", "disconnect"} => Awaited(c, x)
    BY <1>5 DEF Attached, Known, Live
  <2> DEFINE Speaks ==
        \/ caller[c] \in {"idle", "post"}
        \/ \E n \in call[c] : \/ n.op \in {"ping", "request"}
                              \/ n.op = "disconnect" /\ caller[c] = "send"
        \/ \E x \in Asked(c) : x.op # "connect"
  <2>2. /\ \A x \in {r} \cup Answered(c) \cup future[c] :
             x.op = "connect" => Knows(c, x.clientId)'
        /\ Speaks' => Knows(c, clientId[c])'
    <3>1. CASE r.op = "disconnect"
      <4>1. /\ Awaited(c, r) /\ caller[c] = "wait" /\ future[c] = {}
            /\ \A n \in call[c] : n.op = "disconnect"
            /\ \A y \in UnderWay(c) : y.op # "connect"
        BY <1>2, <1>4, <1>5, <3>1, DisconnectIsCall DEF TInv
      <4>2. Asked(c)' = {}
        BY <4>1, <1>4 DEF Attached, CallIsLast
      <4>. QED  BY <4>1, <4>2, <1>1, <1>4, <3>1 DEF UnderWay
    <3>2. CASE r.op # "disconnect"
      <4>1. \A id : Knows(c, id) => Knows(c, id)'
        BY <3>2, <1>1, <1>2 DEF Knows, Kept, r
      <4>2. /\ \A x \in {r} \cup Answered(c) \cup future[c] :
                 x.op = "connect" => Knows(c, x.clientId)
            /\ Speaks => Knows(c, clientId[c])
        BY <1>4, <1>5 DEF Attached, Known
      <4>. QED  BY <4>1, <4>2, <1>1, <1>4
    <3>. QED  BY <3>1, <3>2
  <2>. QED  BY <1>1, <1>4, <2>1, <2>2 DEF Known
<1>10. PostsAnswered(c)'
  <2>1. ASSUME NEW x \in Answered(c)', Awaited(c, x), NEW i \in Ids, promises[c][i] = "invalid"
        PROVE  \E y \in Answered(c)' : y.messageId = i
    <3>1. x = r
      <4> SUFFICES ASSUME x \in Answered(c) PROVE FALSE
        BY <1>4
      <4>1. PICK j \in 1..Len(replies[q]) : x = replies[q][j]
        BY <1>2, Elements DEF Answered, q
      <4>. QED  BY <1>4, <2>1, <4>1 DEF Attached, CallIsLast, q
    <3>2. Asked(c) = {}
      BY <1>4, <2>1, <3>1 DEF Attached, CallIsLast
    <3>3. caller[c] # "post"
      BY <1>2, <2>1, <3>1 DEF Attached, CallInv, Awaited
    <3>4. \E y \in UnderWay(c) : y.messageId = i
      BY <1>5, <2>1, <3>3 DEF Attached, PostsAnswered
    <3>. QED  BY <1>4, <3>2, <3>4 DEF UnderWay
  <2>. QED  BY <1>1, <1>4, <1>5, <2>1 DEF Attached, PostsAnswered
<1>11. Quiet(c)'
  BY <1>1, <1>4 DEF Attached, Quiet
<1>. QED  BY <1>6, <1>7, <1>8, <1>9, <1>10, <1>11 DEF Attached

-----------------------------------------------------------------------------
(* The steps of clients: what one does leaves the others, and the server,
   as they were, but for a request in the server's queue. *)
Posting(c, op, m) ==
  \/ "silent" \in Posts /\ op \in {"ping", "request"} /\ m = 0
  \/ "reply" \in Posts /\ op = "ping" /\ m \in Drawn(c)

LEMMA ClientApart ==
  ASSUME TypeOK, NEW d \in Client, UNCHANGED serverVars, UNCHANGED ThisQueue(d),
         UNCHANGED <<caller[d], call[d], attached[d], conn[d], queueOpen[d], clientId[d],
                     promises[d], future[d], replies[ThisQueue(d)]>>,
         attached[d] = 0 => UNCHANGED receiver[d],
         serverQueue' = serverQueue
           \/ \E m \in Message : /\ m.from # ThisQueue(d)
                                 /\ serverQueue' = Append(serverQueue, m)
  PROVE  Apart(d)
<1>1. UNCHANGED <<server, epoch, endpoints, outbox>> /\ epoch \in Nat
  BY DEF serverVars, TypeOK, ServerTypeOK
<1>2. serverQueue \in Seq(Message)
  BY DEF TypeOK, QueuesTypeOK
<1>3. Answering(d)' = Answering(d) /\ \A id : Knows(d, id)' <=> Knows(d, id)
  BY <1>1 DEF Answering, Knows
<1>4. Asked(d)' = Asked(d)
  <2>1. CASE serverQueue' = serverQueue
    BY <2>1 DEF Asked
  <2>2. ASSUME NEW m \in Message, m.from # ThisQueue(d), serverQueue' = Append(serverQueue, m)
        PROVE  Asked(d)' = Asked(d)
    <3>1. Range(serverQueue') = Range(serverQueue) \cup {m}
      BY <1>2, <2>2, Elements
    <3>. QED  BY <2>2, <3>1 DEF Asked
  <2>. QED  BY <2>1, <2>2
<1>5. Ordered(d) => Ordered(d)'
  <2>1. CASE serverQueue' = serverQueue
    BY <2>1 DEF Ordered, Awaited
  <2>2. ASSUME NEW m \in Message, m.from # ThisQueue(d),
               serverQueue' = Append(serverQueue, m), Ordered(d)
        PROVE  Ordered(d)'
    <3>1. /\ Len(serverQueue) \in Nat /\ Len(serverQueue') = Len(serverQueue) + 1
          /\ serverQueue'[Len(serverQueue) + 1] = m
          /\ \A i \in 1..Len(serverQueue) : serverQueue'[i] = serverQueue[i]
      BY <1>2, <2>2
    <3> SUFFICES ASSUME NEW i \in 1..Len(serverQueue'), NEW j \in 1..Len(serverQueue'),
                        i < j, serverQueue'[i].from = ThisQueue(d),
                        serverQueue'[j].from = ThisQueue(d)
                 PROVE  ~Awaited(d, serverQueue'[i])
      BY DEF Ordered, Awaited
    <3>2. j # Len(serverQueue) + 1 /\ i # Len(serverQueue) + 1
      BY <2>2, <3>1
    <3>3. i \in 1..Len(serverQueue) /\ j \in 1..Len(serverQueue)
      <4>1. i \in 1..Len(serverQueue) + 1 /\ j \in 1..Len(serverQueue) + 1
        BY <3>1
      <4>2. Len(serverQueue) \in Nat
        BY <3>1
      <4>. QED  BY <3>2, <4>1, <4>2
    <3>. QED  BY <2>2, <3>1, <3>3 DEF Ordered
  <2>. QED  BY <2>1, <2>2
<1>6. Live(d)' <=> Live(d)
  BY <1>1 DEF Live, Up
<1>. QED  BY <1>1, <1>3, <1>4, <1>5, <1>6 DEF Apart

LEMMA ServerInvKept ==
  ASSUME TInv, ServerInv, TypeOK', UNCHANGED serverVars,
         \A c \in Client : conn'[c] >= conn[c],
         \A q \in Queue : \/ replies'[q] = replies[q]
                          \/ replies[q] # <<>> /\ replies'[q] = Tail(replies[q]),
         serverQueue' = serverQueue
           \/ \E m \in Message :
                /\ serverQueue' = Append(serverQueue, m)
                /\ m.from[2] <= conn[m.from[1]]
                /\ Up /\ m.op # "connect" =>
                     /\ m.clientId < nextId
                     /\ m.clientId \in DOMAIN endpoints => endpoints[m.clientId] = m.from
  PROVE  ServerInv'
<1>1. UNCHANGED <<server, epoch, endpoints, outbox, nextId, queueExists>>
  BY DEF serverVars
<1>2. /\ serverQueue \in Seq(Message)
      /\ \A q \in Queue : replies[q] \in Seq(Reply)
      /\ \A c \in Client : conn[c] \in Nat /\ conn'[c] \in Nat
  BY BoundAssumption DEF TInv, TypeOK, QueuesTypeOK, ClientsTypeOK
<1>3. \/ Range(serverQueue') = Range(serverQueue)
      \/ \E m \in Message :
           /\ Range(serverQueue') = Range(serverQueue) \cup {m}
           /\ m.from[2] <= conn[m.from[1]]
           /\ Up /\ m.op # "connect" =>
                /\ m.clientId < nextId
                /\ m.clientId \in DOMAIN endpoints => endpoints[m.clientId] = m.from
  <2>1. \A m \in Message : serverQueue' = Append(serverQueue, m) =>
          Range(serverQueue') = Range(serverQueue) \cup {m}
    BY <1>2, Elements
  <2>. QED  BY <2>1
<1>4. \A q \in Queue : /\ Range(replies'[q]) \subseteq Range(replies[q])
                       /\ replies[q] = <<>> => replies'[q] = <<>>
  <2> SUFFICES ASSUME NEW q \in Queue
               PROVE  /\ Range(replies'[q]) \subseteq Range(replies[q])
                      /\ replies[q] = <<>> => replies'[q] = <<>>
    OBVIOUS
  <2>. QED  BY <1>2, Elements
<1>5. UpHasQueue'
  BY <1>1 DEF ServerInv, UpHasQueue, Up
<1>6. Routed'
  BY <1>1, <1>3 DEF ServerInv, Routed, Up
<1>7. RepliesRouted'
  BY <1>1, <1>4 DEF ServerInv, RepliesRouted
<1>8. NewQueuesUnused'
  <2> SUFFICES ASSUME NEW q \in Queue, q[2] > conn'[q[1]]
               PROVE  /\ \A m \in Range(serverQueue') : m.from # q
                      /\ replies'[q] = <<>>
                      /\ \A id \in DOMAIN endpoints : endpoints[id] # q
    BY <1>1 DEF NewQueuesUnused
  <2>1. q[1] \in Client /\ q[2] \in Nat
    BY BoundAssumption DEF Queue
  <2>2. q[2] > conn[q[1]]
    BY <1>2, <2>1
  <2>3. /\ \A m \in Range(serverQueue) : m.from # q
        /\ replies[q] = <<>>
        /\ \A id \in DOMAIN endpoints : endpoints[id] # q
    BY <2>2 DEF ServerInv, NewQueuesUnused
  <2>4. \A m : m.from[2] <= conn[m.from[1]] => m.from # q
    BY <1>2, <2>1, <2>2
  <2>. QED  BY <1>3, <1>4, <2>3, <2>4
<1>. QED  BY <1>5, <1>6, <1>7, <1>8 DEF ServerInv

ClientStep(c) ==
  \/ ClientThreads(c) \/ Connect(c) \/ ClientDies(c)
  \/ \E op \in {"disconnect", "ping", "request"} : Modal(c, op)
  \/ \E op \in Op, m \in Ids : Posting(c, op, m) /\ NonModal(c, op, m)

LEMMA OthersApart ==
  ASSUME TInv, NEW c \in Client, NEW d \in Client, d # c, ClientInv(c), ClientStep(c)
  PROVE  Apart(d)
<1> DEFINE Others ==
      /\ UNCHANGED <<caller[d], call[d], attached[d], conn[d], queueOpen[d], clientId[d],
                     promises[d], future[d], receiver[d]>>
      /\ UNCHANGED serverVars
           Queues == UNCHANGED <<serverQueue, replies>>
<1>1. TypeOK /\ ClientsTypeOK /\ QueuesTypeOK
  BY DEF TInv, TypeOK
<1>2. ThisQueue(d) # ThisQueue(c) /\ ThisQueue(c)[1] = c
  BY DEF ThisQueue
<1>3. ASSUME Others, Queues PROVE Apart(d)
  <2>1. ThisQueue(d)' = ThisQueue(d)
    BY <1>3 DEF ThisQueue
  <2>. QED  BY <1>1, <1>3, <2>1, ClientApart
<1>4. ASSUME ReceiverStarts(c) PROVE Others /\ Queues
  BY <1>1, <1>4 DEF ReceiverStarts, ClientsTypeOK
<1>5. ASSUME ReceiverStops(c) PROVE Others /\ Queues
  BY <1>1, <1>5 DEF ReceiverStops, ClientsTypeOK
<1>6. ASSUME ReturnBroken(c) PROVE Others /\ Queues
  BY <1>1, <1>6 DEF ReturnBroken, ClientsTypeOK
<1>7. ASSUME ClientDies(c) PROVE Others /\ Queues
  BY <1>1, <1>7 DEF ClientDies, ClientsTypeOK
<1>8. ASSUME Return(c) PROVE Others /\ Queues
  <2>1. PICK m \in call[c], r \in future[c] :
         LET refused == m.op = "connect" /\ r.status # "Ok" IN
         /\ promises' = [promises EXCEPT ![c][m.messageId] = "none"]
         /\ clientId' = IF m.op = "connect"
                          THEN [clientId EXCEPT ![c] = r.clientId] ELSE clientId
         /\ attached' = IF refused THEN [attached EXCEPT ![c] = 0] ELSE attached
         /\ queueOpen' = IF refused THEN [queueOpen EXCEPT ![c] = FALSE] ELSE queueOpen
         /\ caller' = [caller EXCEPT ![c] = IF m.op = "disconnect" THEN "join" ELSE "idle"]
    BY <1>8 DEF Return
  <2>2. /\ UNCHANGED <<serverVars, serverQueue, replies, conn, receiver>>
        /\ call' = [call EXCEPT ![c] = {}] /\ future' = [future EXCEPT ![c] = {}]
    BY <1>8 DEF Return
  <2>. QED  BY <1>1, <2>1, <2>2 DEF ClientsTypeOK
<1>9. ASSUME NEW op, NEW k, BeginModal(c, op, k)
      PROVE  UNCHANGED <<caller[d], call[d], promises[d], future[d]>>
  BY <1>1, <1>9 DEF BeginModal, ClientsTypeOK
<1>10. ASSUME Connect(c) PROVE Others /\ Queues
  BY <1>1, <1>9, <1>10 DEF Connect, ClientsTypeOK
<1>11. ASSUME NEW op, Modal(c, op) PROVE Others /\ Queues
  BY <1>1, <1>9, <1>11 DEF Modal, ClientsTypeOK
<1>12. ASSUME NEW op, NEW m, NonModal(c, op, m) PROVE Others /\ Queues
  BY <1>1, <1>12 DEF NonModal, ClientsTypeOK
<1>13. ASSUME Receive(c) PROVE Apart(d)
  <2>1. Others /\ serverQueue' = serverQueue
    BY <1>1, <1>13 DEF Receive, ClientsTypeOK
  <2>2. ThisQueue(d)' = ThisQueue(d)
    BY <2>1 DEF ThisQueue
  <2>3. replies'[ThisQueue(d)] = replies[ThisQueue(d)]
    BY <1>1, <1>2, <1>13 DEF Receive, QueuesTypeOK
  <2>. QED  BY <1>1, <2>1, <2>2, <2>3, ClientApart
<1>14. ASSUME Send(c) PROVE Apart(d)
  <2>1. Others /\ replies' = replies
    BY <1>1, <1>14 DEF Send, ClientsTypeOK
  <2>2. ThisQueue(d)' = ThisQueue(d)
    BY <2>1 DEF ThisQueue
  <2>3. caller[c] # "idle"
    BY <1>14 DEF Send
  <2>4. \A m \in call[c] : m \in Message /\ m.from = ThisQueue(c)
    BY <1>1, <2>3 DEF ClientInv, Detached, Attached, CallInv, ClientsTypeOK
  <2>5. serverQueue' = serverQueue
          \/ \E m \in call[c] : serverQueue' = Append(serverQueue, m)
    BY <1>14 DEF Send, Enqueued
  <2>6. serverQueue' = serverQueue
          \/ \E m \in Message : /\ m.from # ThisQueue(d)
                                /\ serverQueue' = Append(serverQueue, m)
    BY <1>2, <2>4, <2>5
  <2>. QED  BY <1>1, <2>1, <2>2, <2>6, ClientApart
<1>. QED
  BY <1>3, <1>4, <1>5, <1>6, <1>7, <1>8, <1>10, <1>11, <1>12, <1>13, <1>14
  DEF ClientStep, ClientThreads

(* What a client's own steps do to it. *)
LEMMA OwnTypes ==
  ASSUME TInv, NEW c \in Client, attached[c] # 0
  PROVE  /\ ThisQueue(c) \in Queue /\ replies[ThisQueue(c)] \in Seq(Reply)
         /\ \A x \in UnderWay(c) \cup call[c] : x.messageId \in Ids
         /\ \A i \in 1..Len(serverQueue) : serverQueue[i].messageId \in Ids
         /\ \A x \in UnderWay(c) \cup call[c] : x.op \in Op
<1>1. conn[c] \in 1..MaxConnects
  BY BoundAssumption DEF TInv, TypeOK, ClientsTypeOK, HasQueue
<1>2. ThisQueue(c) \in Queue /\ replies[ThisQueue(c)] \in Seq(Reply)
  BY <1>1 DEF ThisQueue, Queue, TInv, TypeOK, QueuesTypeOK
<1>3. Asked(c) \subseteq Message /\ \A i \in 1..Len(serverQueue) : serverQueue[i] \in Message
  BY RangeOfSeq DEF Asked, TInv, TypeOK, QueuesTypeOK
<1>4. Answering(c) \subseteq Reply
  BY DEF Answering, TInv, TypeOK, ServerTypeOK
<1>5. Answered(c) \subseteq Reply
  BY <1>2, RangeOfSeq DEF Answered
<1>6. call[c] \subseteq Message
  BY DEF TInv, TypeOK, ClientsTypeOK
<1>. QED  BY <1>2, <1>3, <1>4, <1>5, <1>6 DEF UnderWay, Message, Reply

LEMMA NoMessageMoves ==
  ASSUME NEW c \in Client, UNCHANGED <<serverVars, serverQueue, replies, conn>>
  PROVE  /\ UNCHANGED <<ThisQueue(c), Asked(c), Answering(c), Answered(c), UnderWay(c)>>
         /\ UNCHANGED <<Up, epoch, endpoints>>
         /\ \A id : Knows(c, id)' <=> Knows(c, id)
<1>1. UNCHANGED <<Up, epoch, endpoints, outbox>> /\ ThisQueue(c)' = ThisQueue(c)
  BY DEF serverVars, Up, ThisQueue
<1>2. UNCHANGED <<Asked(c), Answering(c), Answered(c)>>
  BY <1>1 DEF Asked, Answering, Answered
<1>. QED  BY <1>1, <1>2 DEF UnderWay, Knows

LEMMA DetachedKept ==
  ASSUME TInv, NEW c \in Client, attached[c] # 0, Attached(c),
         ReceiverStops(c) \/ ClientDies(c)
  PROVE  attached'[c] = 0 /\ Detached(c)'
<1>1. ClientsTypeOK
  BY DEF TInv, TypeOK
<1>2. CASE ReceiverStops(c)
  <2>1. /\ caller' = [caller EXCEPT ![c] = "idle"] /\ UNCHANGED <<call, future, promises>>
        /\ attached' = [attached EXCEPT ![c] = 0]
        /\ receiver' = [receiver EXCEPT ![c] = "off"] /\ caller[c] = "join"
    BY <1>2 DEF ReceiverStops
  <2>2. call[c] = {} /\ future[c] = {} /\ \A i \in Ids : promises[c][i] \notin {"valid", "set"}
    BY <2>1 DEF Attached, CallInv
  <2>3. \A i \in Ids : promises[c][i] # "invalid"
    BY <2>1 DEF Attached, PostsAnswered
  <2>4. \A i \in Ids : promises[c][i] = "none"
    BY <1>1, <2>2, <2>3 DEF ClientsTypeOK
  <2>. QED  BY <1>1, <2>1, <2>2, <2>4 DEF Detached, ClientsTypeOK
<1>3. CASE ClientDies(c)
  <2>1. /\ caller' = [caller EXCEPT ![c] = "idle"] /\ call' = [call EXCEPT ![c] = {}]
        /\ attached' = [attached EXCEPT ![c] = 0]
        /\ receiver' = [receiver EXCEPT ![c] = "off"]
        /\ promises' = [promises EXCEPT ![c] = [m \in Ids |-> "none"]]
        /\ future' = [future EXCEPT ![c] = {}]
    BY <1>3 DEF ClientDies
  <2>. QED  BY <1>1, <2>1 DEF Detached, ClientsTypeOK
<1>. QED  BY <1>2, <1>3

LEMMA ReceiveOwn ==
  ASSUME TInv, ServerInv, NEW c \in Client, attached[c] # 0, Attached(c), Receive(c)
  PROVE  Attached(c)'
<1> DEFINE q == ThisQueue(c)
           r == Head(replies[q])
           id == r.messageId
           entry == promises[c][id]
<1>1. /\ replies[q] # <<>> /\ replies' = [replies EXCEPT ![q] = Tail(replies[q])]
      /\ promises' = [promises EXCEPT ![c][id] =
                        CASE entry = "valid" -> "set"
                          [] entry = "invalid" -> "none"
                          [] OTHER -> entry]
      /\ future' = IF entry = "valid" THEN [future EXCEPT ![c] = {r}] ELSE future
      /\ UNCHANGED <<serverVars, serverQueue, caller, call, attached, conn,
                     queueOpen, clientId, receiver, serial>>
  BY DEF Receive
<1>2. /\ q \in Queue /\ replies[q] \in Seq(Reply) /\ TypeOK /\ ClientsTypeOK
      /\ \A x \in UnderWay(c) \cup call[c] : x.messageId \in Ids
      /\ \A i \in 1..Len(serverQueue) : serverQueue[i].messageId \in Ids
  BY OwnTypes DEF TInv, TypeOK
<1> HIDE DEF q
<1>3. /\ replies'[q] = Tail(replies[q]) /\ Range(replies[q]) = {r} \cup Range(replies'[q])
      /\ Len(replies[q]) \in Nat \ {0} /\ Len(replies'[q]) = Len(replies[q]) - 1
      /\ r = replies[q][1] /\ r \in Reply
      /\ \A i \in 1..Len(replies[q]) - 1 : replies'[q][i] = replies[q][i + 1]
  <2>1. replies'[q] = Tail(replies[q])
    BY <1>1, <1>2 DEF TypeOK, QueuesTypeOK
  <2>2. Range(replies[q]) = {r} \cup Range(Tail(replies[q]))
    BY <1>1, <1>2, Elements
  <2>3. \A s \in Seq(Reply) : s # <<>> =>
          /\ Len(s) \in Nat \ {0} /\ Len(Tail(s)) = Len(s) - 1
          /\ Head(s) = s[1] /\ Head(s) \in Reply
          /\ \A i \in 1..Len(s) - 1 : Tail(s)[i] = s[i + 1]
    OBVIOUS
  <2>. QED  BY <1>1, <1>2, <2>1, <2>2, <2>3
<1> HIDE DEF r
<1>4. /\ UNCHANGED <<caller[c], call[c], attached[c], conn[c], queueOpen[c], clientId[c]>>
      /\ UNCHANGED <<Up, epoch, endpoints, outbox>> /\ ThisQueue(c)' = q
  BY <1>1, <1>2 DEF ClientsTypeOK, serverVars, Up, ThisQueue, q
<1>5. /\ Asked(c)' = Asked(c) /\ Answering(c)' = Answering(c)
      /\ Answered(c) = {r} \cup Answered(c)' /\ Answered(c)' = Range(replies'[q])
      /\ UnderWay(c) = {r} \cup UnderWay(c)'
      /\ \A i : Knows(c, i)' <=> Knows(c, i)
      /\ Live(c)' <=> Live(c)
  <2>1. Asked(c)' = Asked(c) /\ Answering(c)' = Answering(c)
    BY <1>1, <1>4 DEF Asked, Answering, q
  <2>2. Answered(c) = {r} \cup Answered(c)' /\ Answered(c)' = Range(replies'[q])
    BY <1>3, <1>4 DEF Answered, q
  <2>3. (\A i : Knows(c, i)' <=> Knows(c, i)) /\ (Live(c)' <=> Live(c))
    BY <1>4 DEF Knows, Live, q
  <2>. QED  BY <2>1, <2>2, <2>3 DEF UnderWay
<1>6. id \in Ids /\ future[c] = {} /\ caller[c] # "join" /\ r.from = q
      /\ (r.op = "connect" => r.status = "Ok")
  <2>1. id \in Ids /\ future[c] = {} /\ caller[c] # "join"
    BY <1>2, <1>5 DEF Attached, CallIsLast
  <2>. QED  BY <1>2, <1>3, <2>1 DEF ServerInv, RepliesRouted
<1> HIDE DEF id
<1>7. entry \in {"none", "invalid", "valid"}
  BY <1>2, <1>6 DEF ClientsTypeOK, Attached, CallInv
<1>8. CASE entry = "valid"
  <2>1. /\ \A i \in Ids : promises'[c][i] = IF i = id THEN "set" ELSE promises[c][i]
        /\ future'[c] = {r}
    <3>1. promises' = [promises EXCEPT ![c][id] = "set"] /\ future' = [future EXCEPT ![c] = {r}]
      BY <1>1, <1>8
    <3>. QED  BY <1>2, <3>1 DEF ClientsTypeOK
  <2>2. Awaited(c, r) /\ r \in Answered(c)
    BY <1>5, <1>8 DEF Awaited, id
  <2>3. 1 = Len(replies[q]) /\ Answering(c) = {} /\ Asked(c) = {}
    <3>1. \A i \in 1..Len(replies[q]) : Awaited(c, replies[q][i]) =>
            i = Len(replies[q]) /\ Answering(c) = {} /\ Asked(c) = {}
      BY DEF Attached, CallIsLast, q
    <3>2. 1 \in 1..Len(replies[q])
      BY <1>3
    <3>3. Awaited(c, replies[q][1])
      BY <1>3, <2>2
    <3>. QED  BY <3>1, <3>2, <3>3
  <2>4. caller[c] = "wait"
    <3>1. caller[c] \in {"send", "wait"}
      BY <1>6, <1>8 DEF Attached, CallInv
    <3>. QED  BY <1>5, <2>2, <3>1 DEF Attached, CallIsLast
  <2>5. UnderWay(c)' = {} /\ Asked(c)' = {} /\ Answering(c)' = {} /\ Answered(c)' = {}
    <3>1. \A s \in Seq(Reply) : Len(s) = 0 => Range(s) = {}
      BY DEF Range
    <3>2. replies'[q] \in Seq(Reply) /\ Len(replies'[q]) = 0
      BY <1>1, <1>2, <1>3, <2>3
    <3>. QED  BY <1>5, <2>3, <3>1, <3>2 DEF UnderWay
  <2>6. CallInv(c)'
    <3>1. \A m \in call[c] : Awaited(c, m)'
      BY <1>2, <2>1, <2>4 DEF Attached, CallInv, Awaited
    <3>2. \A i \in Ids : promises'[c][i] \in {"valid", "set"} => promises[c][i] \in {"valid", "set"}
      BY <1>8, <2>1
    <3>3. queueOpen[c] /\ UNCHANGED queueOpen[c]
      BY <1>4 DEF Attached, CallInv
    <3>4. queueOpen[c]'
      BY <3>3, Zenon
    <3>. QED  BY <1>4, <2>1, <2>4, <3>1, <3>2, <3>4 DEF Attached, CallInv, q
  <2>7. CallIsLast(c)'
    <3>1. Ordered(c)'
      <4>1. \A i \in 1..Len(serverQueue) : serverQueue[i].from # q
        BY <1>2, <2>3, Elements DEF Asked, q, TypeOK, QueuesTypeOK
      <4>. QED  BY <1>1, <1>4, <4>1 DEF Ordered
    <3>2. Len(replies'[q]) = 0
      BY <1>3, <2>3
    <3>. QED  BY <1>4, <2>4, <2>5, <3>1, <3>2 DEF CallIsLast
  <2>8. OwnAnswer(c)'
    <3>1. \A m \in call[c] : r.op = m.op /\ r.serial = m.serial /\ m.from = q
      BY <1>5, <2>2 DEF Attached, OwnAnswer, CallInv, q
    <3>. QED  BY <1>4, <1>6, <2>1, <2>5, <3>1 DEF OwnAnswer
  <2>9. Known(c)'
    BY <1>4, <1>5, <2>1, <2>2, <2>5 DEF Attached, Known
  <2>10. PostsAnswered(c)'
    <3>1. \A i \in Ids : promises[c][i] # "invalid"
      <4>1. \A y \in Answered(c) : y = r
        <5>1. \A s \in Seq(Reply) : Len(s) = 1 => \A y \in Range(s) : y = s[1]
          BY DEF Range
        <5>. QED  BY <1>2, <1>3, <2>3, <5>1 DEF Answered, q
      <4>. QED  BY <1>8, <2>2, <4>1 DEF Attached, PostsAnswered, id
    <3>. QED  BY <2>1, <3>1 DEF PostsAnswered
  <2>11. Quiet(c)'
    BY <1>4, <2>1, <2>4 DEF Attached, Quiet
  <2>. QED  BY <2>6, <2>7, <2>8, <2>9, <2>10, <2>11 DEF Attached
<1>9. CASE entry \in {"none", "invalid"}
  <2>1. /\ \A i \in Ids : promises'[c][i] = IF i = id THEN "none" ELSE promises[c][i]
        /\ future'[c] = future[c]
    <3>1. promises' = [promises EXCEPT ![c][id] = "none"] /\ future' = future
      BY <1>1, <1>9
    <3>. QED  BY <1>2, <3>1 DEF ClientsTypeOK
  <2>2. \A x : x.messageId \in Ids => (Awaited(c, x)' <=> Awaited(c, x))
    BY <1>9, <2>1 DEF Awaited
  <2>3. /\ \A x \in UnderWay(c) \cup call[c] : Awaited(c, x)' <=> Awaited(c, x)
        /\ \A i \in 1..Len(serverQueue) : Awaited(c, serverQueue[i])' <=> Awaited(c, serverQueue[i])
    BY <1>2, <1>1, <2>2
  <2>4. CallInv(c)'
    <3>2. \A i \in Ids : /\ promises'[c][i] \in {"valid", "set"} => promises[c][i] \in {"valid", "set"}
                         /\ promises'[c][i] = "set" => promises[c][i] = "set"
      BY <2>1
    <3>3. queueOpen[c] /\ UNCHANGED queueOpen[c]
      BY <1>4 DEF Attached, CallInv
    <3>4. queueOpen[c]'
      BY <3>3, Zenon
    <3>. QED  BY <1>4, <2>1, <2>3, <3>2, <3>4 DEF Attached, CallInv, q
  <2>5. CallIsLast(c)'
    <3>1. Ordered(c)'
      BY <1>1, <1>4, <2>3 DEF Attached, CallIsLast, Ordered, q
    <3>2. ASSUME NEW i \in 1..Len(replies'[q]), promises'[c][replies'[q][i].messageId] \in {"valid", "set"}
          PROVE  i = Len(replies'[q]) /\ Answering(c) = {} /\ Asked(c) = {}
      <4>1. i + 1 \in 1..Len(replies[q]) /\ replies'[q][i] = replies[q][i + 1] /\ i \in Nat
        BY <1>3
      <4>2. replies[q][i + 1] \in UnderWay(c)
        BY <1>2, <4>1, Elements DEF UnderWay, Answered, q
      <4>3. Awaited(c, replies[q][i + 1])
        <5>1. replies[q][i + 1].messageId \in Ids
          BY <1>2, <4>2
        <5>. QED  BY <1>9, <2>1, <3>2, <4>1, <5>1 DEF Awaited
      <4>4. \A j \in 1..Len(replies[q]) : Awaited(c, replies[q][j]) =>
              j = Len(replies[q]) /\ Answering(c) = {} /\ Asked(c) = {}
        BY DEF Attached, CallIsLast, q
      <4>5. i + 1 = Len(replies[q]) /\ Answering(c) = {} /\ Asked(c) = {}
        BY <4>1, <4>3, <4>4
      <4>6. Len(replies'[q]) = Len(replies[q]) - 1 /\ i \in Nat
        BY <1>3, <4>1
      <4>7. i = Len(replies'[q])
        BY <4>5, <4>6
      <4>. QED  BY <4>5, <4>7
    <3>3. \A x \in UnderWay(c)' : x \in UnderWay(c)
      BY <1>5
    <3>4. /\ \A x \in Answering(c)' : Awaited(c, x)' => Asked(c)' = {}
          /\ caller[c]' = "send" => \A x \in UnderWay(c)' : ~Awaited(c, x)'
      BY <1>4, <1>5, <2>3 DEF Attached, CallIsLast, UnderWay
    <3>5. \A i \in 1..Len(replies'[q]) : Awaited(c, replies[q][i])' =>
            i = Len(replies'[q]) /\ Answering(c) = {} /\ Asked(c) = {}
      BY <3>2, <1>4 DEF Awaited, q
    <3>. QED  BY <1>4, <1>5, <1>6, <2>1, <3>1, <3>4, <3>5 DEF CallIsLast, q
  <2>6. OwnAnswer(c)'
    BY <1>4, <1>5, <1>6, <2>1, <2>3 DEF Attached, OwnAnswer
  <2>7. Known(c)'
    BY <1>4, <1>5, <2>1, <2>3 DEF Attached, Known
  <2>8. PostsAnswered(c)'
    <3>1. ASSUME NEW i \in Ids, promises'[c][i] = "invalid"
          PROVE  promises[c][i] = "invalid" /\ i # id
      BY <2>1, <3>1
    <3>2. ASSUME Live(c), NEW i \in Ids, promises'[c][i] = "invalid"
          PROVE  \/ caller[c] = "post" /\ \E m \in call[c] : m.messageId = i /\ m.op = "ping"
                 \/ \E x \in UnderWay(c)' : x.messageId = i /\ x.op = "ping"
      BY <1>5, <3>1, <3>2 DEF Attached, PostsAnswered, id
    <3>3. ASSUME NEW x \in Answered(c)', Awaited(c, x)', NEW i \in Ids, promises'[c][i] = "invalid"
          PROVE  \E y \in Answered(c)' : y.messageId = i
      <4>1. x \in Answered(c) /\ Awaited(c, x)
        BY <1>5, <2>3, <3>3 DEF UnderWay
      <4>. QED  BY <1>5, <3>1, <3>3, <4>1 DEF Attached, PostsAnswered, id
    <3>. QED  BY <1>4, <1>5, <1>6, <2>1, <3>2, <3>3 DEF PostsAnswered
  <2>9. Quiet(c)'
    BY <1>4, <1>5, <2>1 DEF Attached, Quiet
  <2>. QED  BY <2>4, <2>5, <2>6, <2>7, <2>8, <2>9 DEF Attached
<1>. QED  BY <1>7, <1>8, <1>9

LEMMA SendSteps ==
  ASSUME TInv, ServerInv, NEW c \in Client, attached[c] # 0, Attached(c), Send(c)
  PROVE  \E N \in SUBSET call[c] :
           /\ \/ N = {} /\ serverQueue' = serverQueue
              \/ \E m \in call[c] : N = {m} /\ serverQueue' = Append(serverQueue, m)
           /\ N # {} => attached[c] = epoch
           /\ Live(c) => N = call[c]
<1>1. /\ IF Reached(c)
           THEN \E m \in call[c] : serverQueue' = Append(serverQueue, m)
           ELSE UNCHANGED serverQueue
  BY DEF Send, Enqueued
<1>2. CASE Reached(c)
  <2>1. PICK m \in call[c] : serverQueue' = Append(serverQueue, m)
    BY <1>1, <1>2
  <2>2. call[c] = {m}
    BY DEF Attached, CallInv
  <2>. QED  BY <1>2, <2>1, <2>2 DEF Reached
<1>3. CASE ~Reached(c)
  <2>1. ~Live(c)
    BY <1>3 DEF Reached, Live, ServerInv, UpHasQueue
  <2>. QED  BY <1>1, <1>3, <2>1
<1>. QED  BY <1>2, <1>3

LEMMA SendOwn ==
  ASSUME TInv, ServerInv, NEW c \in Client, attached[c] # 0, Attached(c), Send(c)
  PROVE  Attached(c)'
<1> DEFINE q == ThisQueue(c)
<1>1. PICK N \in SUBSET call[c] :
        /\ \/ N = {} /\ serverQueue' = serverQueue
           \/ \E m \in call[c] : N = {m} /\ serverQueue' = Append(serverQueue, m)
        /\ N # {} => attached[c] = epoch
        /\ Live(c) => N = call[c]
  BY SendSteps
<1>2. /\ caller[c] \in {"send", "send broken", "post"}
      /\ caller' = [caller EXCEPT ![c] = CASE @ = "send" -> "wait"
                                           [] @ = "send broken" -> "broken"
                                           [] @ = "post" -> "idle"]
      /\ call' = IF caller[c] = "post" THEN [call EXCEPT ![c] = {}] ELSE call
      /\ UNCHANGED <<serverVars, replies, attached, conn, queueOpen, clientId,
                     receiver, promises, future, serial>>
  BY DEF Send
<1>3. /\ q \in Queue /\ TypeOK /\ ClientsTypeOK
      /\ \A x \in UnderWay(c) \cup call[c] : x.messageId \in Ids /\ x.op \in Op
      /\ \A i \in 1..Len(serverQueue) : serverQueue[i].messageId \in Ids
      /\ serverQueue \in Seq(Message) /\ call[c] \subseteq Message
  BY OwnTypes DEF TInv, TypeOK, QueuesTypeOK, ClientsTypeOK
<1>4. /\ caller[c] = "send" => caller'[c] = "wait" /\ call'[c] = call[c]
      /\ caller[c] = "send broken" => caller'[c] = "broken" /\ call'[c] = call[c]
      /\ caller[c] = "post" => caller'[c] = "idle" /\ call'[c] = {}
  BY <1>2, <1>3 DEF ClientsTypeOK
<1>5. /\ UNCHANGED <<attached[c], conn[c], queueOpen[c], clientId[c], promises[c], future[c],
                     replies[q], epoch, outbox, endpoints>>
      /\ ThisQueue(c)' = q /\ Answering(c)' = Answering(c) /\ Answered(c)' = Answered(c)
      /\ \A x : Awaited(c, x)' <=> Awaited(c, x)
      /\ \A i : Knows(c, i)' <=> Knows(c, i)
      /\ Live(c)' <=> Live(c)
      /\ call'[c] \subseteq call[c]
  BY <1>2, <1>4
  DEF serverVars, ThisQueue, q, Answering, Answered, Awaited, Knows, Live, Up
<1>6. /\ \A m \in call[c] : m.from = q /\ m.clientId = clientId[c]
      /\ future[c] = {} /\ \A m, n \in call[c] : m = n
  BY <1>2 DEF Attached, CallInv, q
<1> HIDE DEF q
<1>7. Asked(c)' = Asked(c) \cup N
  <2>1. CASE N = {} /\ serverQueue' = serverQueue
    BY <1>5, <2>1 DEF Asked, q
  <2>2. ASSUME NEW m \in call[c], N = {m}, serverQueue' = Append(serverQueue, m)
        PROVE  Asked(c)' = Asked(c) \cup N
    <3>1. Range(serverQueue') = Range(serverQueue) \cup {m}
      BY <1>3, <2>2, Elements
    <3>. QED  BY <1>5, <1>6, <2>2, <3>1 DEF Asked, q
  <2>. QED  BY <1>1, <2>1, <2>2
<1>8. UnderWay(c)' = UnderWay(c) \cup N
  BY <1>5, <1>7 DEF UnderWay
<1>9. \A x \in UnderWay(c) : ~Awaited(c, x)
  <2>1. CASE caller[c] = "send"
    BY <2>1 DEF Attached, CallIsLast
  <2>2. CASE caller[c] \notin {"send", "wait"}
    BY <2>2, <1>3 DEF Attached, CallInv, Awaited
  <2>. QED  BY <1>2, <2>1, <2>2
<1>10. CallInv(c)'
  <2>1. queueOpen[c] /\ UNCHANGED queueOpen[c] /\ attached[c] <= epoch
    BY <1>5 DEF Attached, CallInv
  <2>2. queueOpen[c]'
    BY <2>1, Zenon
  <2>3. /\ \A m \in call[c] :
             /\ m.op = "connect" => caller[c] \in {"send", "wait"}
             /\ caller[c] \in {"send", "wait"} => Awaited(c, m)
        /\ \A i \in Ids :
             /\ promises[c][i] \in {"valid", "set"} =>
                  caller[c] \in {"send", "wait"} /\ \E m \in call[c] : m.messageId = i
             /\ promises[c][i] = "set" => future[c] # {}
    BY DEF Attached, CallInv
  <2>. QED  BY <1>2, <1>4, <1>5, <1>6, <2>1, <2>2, <2>3 DEF CallInv, q
<1>11. CallIsLast(c)'
  <2>1. ASSUME NEW i \in 1..Len(serverQueue'), NEW j \in 1..Len(serverQueue'), i < j,
               serverQueue'[i].from = q, serverQueue'[j].from = q
        PROVE  ~Awaited(c, serverQueue'[i])
    <3>1. i \in 1..Len(serverQueue) /\ serverQueue'[i] = serverQueue[i]
      <4>1. Len(serverQueue) \in Nat /\
            \/ serverQueue' = serverQueue
            \/ /\ Len(serverQueue') = Len(serverQueue) + 1
               /\ \A k \in 1..Len(serverQueue) : serverQueue'[k] = serverQueue[k]
        BY <1>1, <1>3
      <4>. QED  BY <2>1, <4>1
    <3>2. serverQueue[i] \in UnderWay(c)
      BY <1>3, <2>1, <3>1, Elements DEF UnderWay, Asked, q
    <3>. QED  BY <1>9, <3>1, <3>2
  <2>2. Ordered(c)'
    BY <1>5, <2>1 DEF Ordered, Awaited, q
  <2>3. \A i \in 1..Len(replies[q]) : ~Awaited(c, replies[q][i])
    <3>1. replies[q] \in Seq(Reply)
      BY <1>3 DEF TypeOK, QueuesTypeOK
    <3>. QED  BY <1>9, <3>1, Elements DEF UnderWay, Answered, q
  <2>4. \A x \in Answering(c) : ~Awaited(c, x)
    BY <1>9 DEF UnderWay
  <2>5. \A i \in 1..Len(replies[ThisQueue(c)])' : ~Awaited(c, replies[ThisQueue(c)][i])'
    BY <1>5, <2>3 DEF Awaited, q
  <2>6. caller'[c] \notin {"join", "send"}
    BY <1>2, <1>4
  <2>. QED  BY <1>5, <1>6, <2>2, <2>4, <2>5, <2>6 DEF CallIsLast
<1>12. OwnAnswer(c)'
  BY <1>1, <1>5, <1>6, <1>8, <1>9 DEF OwnAnswer
<1>13. Known(c)'
  <2>1. Asked(c)' \cup Answering(c)' # {} => attached[c]' = epoch'
    BY <1>1, <1>5, <1>7 DEF Attached, Known
  <2>2. \A x \in Asked(c)' : x.op # "connect" => x.clientId = clientId[c]'
    BY <1>5, <1>6, <1>7 DEF Attached, Known
  <2>3. ASSUME Live(c)
        PROVE  /\ caller'[c] \notin {"send broken", "broken"}
               /\ \A x \in UnderWay(c)' : x.op \in {"connect", "disconnect"} => Awaited(c, x)
               /\ \A x \in Answering(c) \cup Answered(c) \cup future[c] :
                    x.op = "connect" => Knows(c, x.clientId)
               /\ caller[c] \notin {"send broken", "broken"}
    <3>1. \A m \in call[c] : m.op \in {"connect", "disconnect"} => Awaited(c, m)
      BY <1>2, <2>3 DEF Attached, Known, CallInv
    <3>. QED  BY <1>2, <1>4, <1>8, <2>3, <3>1 DEF Attached, Known
  <2>4. ASSUME Live(c),
               \/ caller'[c] \in {"idle", "post"}
               \/ \E m \in call'[c] : \/ m.op \in {"ping", "request"}
                                      \/ m.op = "disconnect" /\ caller'[c] = "send"
               \/ \E x \in Asked(c)' : x.op # "connect"
        PROVE  Knows(c, clientId[c])
    <3>1. CASE caller[c] = "post"
      BY <2>4, <3>1 DEF Attached, Known
    <3>2. CASE caller[c] # "post"
      <4>1. caller[c] = "send" /\ caller'[c] = "wait"
        BY <1>2, <1>4, <2>3, <2>4, <3>2
      <4>2. (\E m \in call[c] : m.op # "connect") \/ \E x \in Asked(c) : x.op # "connect"
        BY <1>1, <1>5, <1>7, <2>4, <4>1
      <4>3. \A m \in call[c] : m.op \in {"connect", "disconnect", "ping", "request"}
        BY <1>3 DEF Op
      <4>. QED  BY <2>4, <4>1, <4>2, <4>3 DEF Attached, Known
    <3>. QED  BY <3>1, <3>2
  <2>. QED  BY <1>5, <2>1, <2>2, <2>3, <2>4 DEF Known
<1>14. PostsAnswered(c)'
  <2>1. \A x \in Answered(c) : ~Awaited(c, x)
    BY <1>9 DEF UnderWay
  <2>2. ASSUME Live(c), NEW i \in Ids, promises[c][i] = "invalid"
        PROVE  \E x \in UnderWay(c)' : x.messageId = i /\ x.op = "ping"
    BY <1>1, <1>8, <2>2 DEF Attached, PostsAnswered
  <2>3. caller'[c] # "join"
    BY <1>2, <1>4
  <2>. QED  BY <1>5, <1>6, <2>1, <2>2, <2>3 DEF PostsAnswered
<1>15. Quiet(c)'
  <2> SUFFICES ASSUME ~DrawsFresh
               PROVE  /\ caller'[c] \notin {"send broken", "broken"}
                      /\ \A i \in Ids : promises[c][i] # "invalid"
                      /\ caller'[c] \in {"idle", "post"} =>
                           \A x \in UnderWay(c)' \cup call'[c] : x.messageId \notin MessageId
    BY <1>5 DEF Quiet
  <2>1. /\ caller[c] \notin {"send broken", "broken"}
        /\ \A i \in Ids : promises[c][i] # "invalid"
        /\ caller[c] \in {"idle", "post"} =>
             \A x \in UnderWay(c) \cup call[c] : x.messageId \notin MessageId
    BY DEF Attached, Quiet
  <2>. QED  BY <1>2, <1>4, <1>8, <2>1
<1>. QED  BY <1>10, <1>11, <1>12, <1>13, <1>14, <1>15 DEF Attached

LEMMA ReturnOwn ==
  ASSUME TInv, ServerInv, NEW c \in Client, attached[c] # 0, Attached(c), Return(c)
  PROVE  attached'[c] # 0 /\ Attached(c)'
<1>1. PICK m \in call[c], r \in future[c] :
        LET refused == m.op = "connect" /\ r.status # "Ok" IN
        /\ promises' = [promises EXCEPT ![c][m.messageId] = "none"]
        /\ clientId' = IF m.op = "connect"
                         THEN [clientId EXCEPT ![c] = r.clientId] ELSE clientId
        /\ attached' = IF refused THEN [attached EXCEPT ![c] = 0] ELSE attached
        /\ queueOpen' = IF refused THEN [queueOpen EXCEPT ![c] = FALSE] ELSE queueOpen
        /\ caller' = [caller EXCEPT ![c] = IF m.op = "disconnect" THEN "join" ELSE "idle"]
  BY DEF Return
<1>2. /\ caller[c] = "wait"
      /\ call' = [call EXCEPT ![c] = {}] /\ future' = [future EXCEPT ![c] = {}]
      /\ UNCHANGED <<serverVars, serverQueue, replies, conn, receiver, serial>>
  BY DEF Return
<1>3. /\ UnderWay(c) = {} /\ r.op = m.op /\ (r.op = "connect" => r.status = "Ok")
      /\ call[c] = {m}
  BY DEF Attached, CallInv, CallIsLast, OwnAnswer
<1>4. /\ UNCHANGED <<attached, queueOpen>>
      /\ clientId' = IF m.op = "connect" THEN [clientId EXCEPT ![c] = r.clientId] ELSE clientId
  BY <1>1, <1>3
<1>5. ClientsTypeOK /\ m.messageId \in Ids /\ m.op \in Op
  BY OwnTypes DEF TInv, TypeOK
<1>6. /\ call'[c] = {} /\ future'[c] = {} /\ caller'[c] \in {"join", "idle"}
      /\ caller'[c] = "idle" => m.op # "disconnect"
      /\ m.op = "connect" => clientId'[c] = r.clientId
      /\ m.op # "connect" => clientId'[c] = clientId[c]
  BY <1>1, <1>2, <1>4, <1>5 DEF ClientsTypeOK
<1>7. \A i \in Ids : promises'[c][i] = "none"
  <2>1. \A i \in Ids : promises'[c][i] = IF i = m.messageId THEN "none" ELSE promises[c][i]
    BY <1>1, <1>5 DEF ClientsTypeOK
  <2>2. \A i \in Ids : promises[c][i] \in {"valid", "set"} => i = m.messageId
    BY <1>3 DEF Attached, CallInv
  <2>3. \A i \in Ids : promises[c][i] # "invalid"
    BY DEF Attached, PostsAnswered
  <2>. QED  BY <1>5, <2>1, <2>2, <2>3 DEF ClientsTypeOK
<1>8. /\ UNCHANGED <<ThisQueue(c), UnderWay(c), Up, epoch>>
      /\ Asked(c)' = {} /\ Answering(c)' = {} /\ Answered(c)' = {} /\ UnderWay(c)' = {}
      /\ \A id : Knows(c, id)' <=> Knows(c, id)
  BY <1>2, <1>3, NoMessageMoves DEF UnderWay
<1>9. CallInv(c)'
  <2>1. queueOpen[c] /\ UNCHANGED queueOpen /\ attached[c] <= epoch
    BY <1>4 DEF Attached, CallInv
  <2>2. queueOpen'[c]
    BY <2>1, Zenon
  <2>3. UNCHANGED <<attached, epoch>>
    BY <1>4, <1>8
  <2>. QED  BY <1>6, <1>7, <2>1, <2>2, <2>3 DEF CallInv
<1>10. CallIsLast(c)'
  <2>1. \A i \in 1..Len(serverQueue) : serverQueue[i].from # ThisQueue(c)
    BY <1>3, Elements DEF UnderWay, Asked, TInv, TypeOK, QueuesTypeOK
  <2>2. Ordered(c)'
    BY <1>2, <1>8, <2>1 DEF Ordered
  <2>3. Len(replies[ThisQueue(c)]) = 0
    <3>1. replies[ThisQueue(c)] \in Seq(Reply)
      BY OwnTypes
    <3>2. Range(replies[ThisQueue(c)]) = {}
      BY <1>3 DEF UnderWay, Answered
    <3>3. replies[ThisQueue(c)] = <<>>
      BY <3>1, <3>2, Elements
    <3>. QED  BY <3>3
  <2>4. Len(replies[ThisQueue(c)])' = 0
    BY <1>2, <1>8, <2>3
  <2>. QED  BY <1>6, <1>8, <2>2, <2>4 DEF CallIsLast
<1>11. OwnAnswer(c)'
  BY <1>6 DEF OwnAnswer
<1>12. Known(c)'
  <2>1. ASSUME Live(c), caller'[c] = "idle" PROVE Knows(c, clientId'[c])
    BY <1>2, <1>3, <1>5, <1>6, <2>1 DEF Attached, Known, Op
  <2>2. Live(c)' <=> Live(c)
    BY <1>4, <1>8 DEF Live
  <2>. QED  BY <1>6, <1>8, <2>1, <2>2 DEF Known
<1>13. PostsAnswered(c)'
  BY <1>7, <1>8 DEF PostsAnswered
<1>14. Quiet(c)'
  BY <1>6, <1>7, <1>8 DEF Quiet
<1>. QED  BY <1>4, <1>9, <1>10, <1>11, <1>12, <1>13, <1>14 DEF Attached

LEMMA ReturnBrokenOwn ==
  ASSUME TInv, ServerInv, NEW c \in Client, attached[c] # 0, Attached(c), ReturnBroken(c)
  PROVE  Attached(c)'
<1>1. /\ caller[c] = "broken" /\ caller' = [caller EXCEPT ![c] = "idle"]
      /\ call' = [call EXCEPT ![c] = {}]
      /\ UNCHANGED <<serverVars, serverQueue, replies, attached, conn, queueOpen,
                     clientId, receiver, promises, future, serial>>
  BY DEF ReturnBroken
<1>2. caller'[c] = "idle" /\ call'[c] = {}
  BY <1>1 DEF TInv, TypeOK, ClientsTypeOK
<1>3. /\ UNCHANGED <<ThisQueue(c), Asked(c), Answering(c), Answered(c), UnderWay(c)>>
      /\ UNCHANGED <<Up, epoch, endpoints>>
  BY <1>1, NoMessageMoves
<1>4. ~Live(c) /\ ~Live(c)'
  BY <1>1, <1>3 DEF Attached, Known, Live
<1>5. \A x : Awaited(c, x)' <=> Awaited(c, x)
  BY <1>1 DEF Awaited
<1>6. CallInv(c)'
  <2>1. queueOpen[c] /\ UNCHANGED <<queueOpen, attached, epoch, future, promises>>
        /\ attached[c] <= epoch
    BY <1>1, <1>3 DEF Attached, CallInv
  <2>2. queueOpen'[c]
    BY <2>1, Zenon
  <2>3. future[c] = {} /\ \A i \in Ids : promises[c][i] \notin {"valid", "set"}
    BY <1>1 DEF Attached, CallInv
  <2>. QED  BY <1>2, <2>1, <2>2, <2>3 DEF CallInv
<1>7. CallIsLast(c)'
  <2>1. Ordered(c)'
    BY <1>1, <1>3, <1>5 DEF Attached, CallIsLast, Ordered
  <2>. QED  BY <1>1, <1>2, <1>3, <1>5, <2>1 DEF Attached, CallIsLast
<1>8. OwnAnswer(c)'
  BY <1>1, <1>2 DEF Attached, OwnAnswer
<1>9. Known(c)'
  BY <1>1, <1>3, <1>4 DEF Attached, Known
<1>10. PostsAnswered(c)'
  BY <1>1, <1>2, <1>3, <1>4, <1>5 DEF Attached, PostsAnswered
<1>11. Quiet(c)'
  BY <1>1 DEF Attached, Quiet
<1>. QED  BY <1>6, <1>7, <1>8, <1>9, <1>10, <1>11 DEF Attached

(* An id that is drawn is not under way. *)
LEMMA FreshDraw ==
  ASSUME TInv, NEW c \in Client, attached[c] # 0, Attached(c), caller[c] = "idle",
         NEW id \in Drawn(c)
  PROVE  \A x \in UnderWay(c) : x.messageId # id
<1>1. conn[c] # 0
  BY DEF TInv, HasQueue
<1>2. CASE DrawsFresh
  <2>1. id \notin {x.messageId : x \in InFlight(c)}
    BY <1>1, <1>2 DEF Drawn
  <2>2. UnderWay(c) \subseteq InFlight(c)
    BY DEF UnderWay, InFlight, Asked, Answering, Answered, ThisQueue
  <2>. QED  BY <2>1, <2>2
<1>3. CASE ~DrawsFresh
  BY <1>3, DrawnIds DEF Attached, Quiet
<1>. QED  BY <1>2, <1>3

(* What a caller that begins a call starts from. *)
LEMMA IdleCaller ==
  ASSUME TInv, NEW c \in Client, attached[c] # 0, Attached(c), caller[c] = "idle"
  PROVE  /\ call[c] = {} /\ future[c] = {}
         /\ \A i \in Ids : promises[c][i] \in {"none", "invalid"}
         /\ \A x \in UnderWay(c) : ~Awaited(c, x)
         /\ Live(c) => /\ Knows(c, clientId[c])
                       /\ \A x \in UnderWay(c) : x.op \notin {"connect", "disconnect"}
                       /\ \A i \in Ids : promises[c][i] = "invalid" =>
                            \E x \in UnderWay(c) : x.messageId = i /\ x.op = "ping"
<1>1. call[c] = {} /\ future[c] = {} /\ \A i \in Ids : promises[c][i] \in {"none", "invalid"}
  BY DEF Attached, CallInv, TInv, TypeOK, ClientsTypeOK
<1>2. \A x \in UnderWay(c) : ~Awaited(c, x)
  BY <1>1, OwnTypes DEF Awaited
<1>. QED  BY <1>1, <1>2 DEF Attached, Known, PostsAnswered

(* The ways a modal call begins. *)
LEMMA BeginModalSteps ==
  ASSUME TInv, NEW c \in Client, NEW op, NEW k, BeginModal(c, op, k)
  PROVE  \E m \in Drawn(c), s \in 0..2 :
           /\ m \in Ids /\ future'[c] = {} /\ call'[c] = {NewMessage(c, op, m, k, s)}
           /\ \/ /\ promises[c][m] = "none" /\ caller'[c] = "send"
                 /\ \A i \in Ids : promises'[c][i] = IF i = m THEN "valid" ELSE promises[c][i]
              \/ promises[c][m] # "none" /\ caller'[c] = "send broken" /\ UNCHANGED promises
<1>1. ClientsTypeOK
  BY DEF TInv, TypeOK
<1> DEFINE s == (serial[c] + 1) % 3
<1>2. s \in 0..2
  <2>1. serial[c] = 0 \/ serial[c] = 1 \/ serial[c] = 2
    BY <1>1 DEF ClientsTypeOK
  <2>. QED  BY <2>1
<1>3. PICK m \in Drawn(c) :
        /\ call' = [call EXCEPT ![c] = {NewMessage(c, op, m, k, s)}]
        /\ future' = [future EXCEPT ![c] = {}]
        /\ \/ /\ promises[c][m] = "none"
              /\ promises' = [promises EXCEPT ![c][m] = "valid"]
              /\ caller' = [caller EXCEPT ![c] = "send"]
           \/ /\ promises[c][m] # "none"
              /\ caller' = [caller EXCEPT ![c] = "send broken"]
              /\ UNCHANGED promises
  BY Zenon DEF BeginModal
<1> HIDE DEF s
<1>4. m \in Ids
  BY DrawnIds DEF Ids
<1>5. future'[c] = {} /\ call'[c] = {NewMessage(c, op, m, k, s)}
  BY <1>1, <1>3 DEF ClientsTypeOK
<1>6. \/ /\ promises[c][m] = "none" /\ caller'[c] = "send"
         /\ \A i \in Ids : promises'[c][i] = IF i = m THEN "valid" ELSE promises[c][i]
      \/ promises[c][m] # "none" /\ caller'[c] = "send broken" /\ UNCHANGED promises
  <2>1. ASSUME promises' = [promises EXCEPT ![c][m] = "valid"]
        PROVE  \A i \in Ids : promises'[c][i] = IF i = m THEN "valid" ELSE promises[c][i]
    BY <1>1, <1>4, <2>1 DEF ClientsTypeOK
  <2>2. \A pc : caller' = [caller EXCEPT ![c] = pc] => caller'[c] = pc
    BY <1>1 DEF ClientsTypeOK
  <2>. QED  BY <1>3, <2>1, <2>2
<1>. QED  BY <1>2, <1>4, <1>5, <1>6

LEMMA ModalOwn ==
  ASSUME TInv, ServerInv, NEW c \in Client, Attached(c),
         NEW op \in {"disconnect", "ping", "request"}, Modal(c, op)
  PROVE  Attached(c)'
<1>1. /\ caller[c] = "idle" /\ attached[c] # 0 /\ BeginModal(c, op, conn[c])
      /\ UNCHANGED <<serverVars, serverQueue, replies, attached, conn, queueOpen,
                     clientId, receiver>>
  BY DEF Modal
<1>2. PICK m \in Drawn(c), s \in 0..2 :
        /\ m \in Ids /\ future'[c] = {} /\ call'[c] = {NewMessage(c, op, m, conn[c], s)}
        /\ \/ /\ promises[c][m] = "none" /\ caller'[c] = "send"
              /\ \A i \in Ids : promises'[c][i] = IF i = m THEN "valid" ELSE promises[c][i]
           \/ promises[c][m] # "none" /\ caller'[c] = "send broken" /\ UNCHANGED promises
  BY <1>1, BeginModalSteps
<1> DEFINE n == NewMessage(c, op, m, conn[c], s)
<1>3. /\ n.op = op /\ n.messageId = m /\ n.from = ThisQueue(c) /\ n.clientId = clientId[c]
      /\ call'[c] = {n}
  BY <1>2 DEF NewMessage, ThisQueue
<1> HIDE DEF n
<1>4. /\ call[c] = {} /\ future[c] = {}
      /\ \A i \in Ids : promises[c][i] \in {"none", "invalid"}
      /\ \A x \in UnderWay(c) : ~Awaited(c, x)
      /\ Live(c) => /\ Knows(c, clientId[c])
                    /\ \A x \in UnderWay(c) : x.op \notin {"connect", "disconnect"}
                    /\ \A i \in Ids : promises[c][i] = "invalid" =>
                         \E x \in UnderWay(c) : x.messageId = i /\ x.op = "ping"
  BY <1>1, IdleCaller
<1>5. \A x \in UnderWay(c) : x.messageId # m /\ x.messageId \in Ids
  BY <1>1, FreshDraw, OwnTypes
<1>6. /\ UNCHANGED <<ThisQueue(c), Asked(c), Answering(c), Answered(c), UnderWay(c)>>
      /\ UNCHANGED <<Up, epoch, endpoints>>
      /\ \A id : Knows(c, id)' <=> Knows(c, id)
      /\ Live(c)' <=> Live(c)
  <2>1. /\ UNCHANGED <<ThisQueue(c), Asked(c), Answering(c), Answered(c), UnderWay(c)>>
        /\ UNCHANGED <<Up, epoch, endpoints>>
        /\ \A id : Knows(c, id)' <=> Knows(c, id)
    BY <1>1, NoMessageMoves
  <2>. QED  BY <1>1, <2>1 DEF Live
<1>7. \A x \in UnderWay(c) : promises'[c][x.messageId] \notin {"valid", "set"}
  BY <1>2, <1>4, <1>5
<1>8. \A x \in UnderWay(c)' : ~Awaited(c, x)'
  BY <1>6, <1>7 DEF Awaited
<1>9. CallInv(c)'
  <2>1. queueOpen[c] /\ UNCHANGED <<queueOpen, attached, clientId, epoch>> /\ attached[c] <= epoch
    BY <1>1, <1>6 DEF Attached, CallInv
  <2>2. queueOpen'[c]
    BY <2>1, Zenon
  <2>3. \A i \in Ids : promises'[c][i] \in {"valid", "set"} =>
          caller'[c] = "send" /\ i = m /\ promises'[c][i] = "valid"
    BY <1>2, <1>4
  <2>4. caller'[c] = "send" => promises'[c][m] = "valid"
    BY <1>2
  <2>5. caller'[c] \in {"send", "send broken"}
    BY <1>2
  <2>6. \A x \in call[c]' : Awaited(c, x)' <=> promises'[c][m] \in {"valid", "set"}
    BY <1>3 DEF Awaited
  <2>. QED  BY <1>2, <1>3, <1>6, <2>1, <2>2, <2>3, <2>4, <2>5, <2>6 DEF CallInv
<1>10. CallIsLast(c)'
  <2>1. \A i \in 1..Len(serverQueue) : serverQueue[i].from = ThisQueue(c) =>
          serverQueue[i] \in UnderWay(c)
    BY Elements DEF UnderWay, Asked, TInv, TypeOK, QueuesTypeOK
  <2>2. Ordered(c)'
    BY <1>1, <1>6, <1>7, <2>1 DEF Ordered, Awaited
  <2>3. \A i \in 1..Len(replies[ThisQueue(c)]) : replies[ThisQueue(c)][i] \in UnderWay(c)
    BY <1>1, OwnTypes, Elements DEF UnderWay, Answered
  <2>4. \A i \in 1..Len(replies[ThisQueue(c)])' : ~Awaited(c, replies[ThisQueue(c)][i])'
    BY <1>1, <1>6, <1>7, <2>3 DEF Awaited
  <2>5. \A x \in Answering(c)' : ~Awaited(c, x)'
    BY <1>8 DEF UnderWay
  <2>. QED  BY <1>2, <1>8, <2>2, <2>4, <2>5 DEF CallIsLast
<1>11. OwnAnswer(c)'
  BY <1>2, <1>8 DEF OwnAnswer
<1>12. Known(c)'
  <2>1. Live(c) => caller'[c] = "send"
    BY <1>2, <1>4, <1>5
  <2>2. /\ Asked(c) \cup Answering(c) # {} => attached[c] = epoch
        /\ \A x \in Asked(c) : x.op # "connect" => x.clientId = clientId[c]
        /\ Live(c) => \A x \in Answering(c) \cup Answered(c) : x.op = "connect" => Knows(c, x.clientId)
    BY DEF Attached, Known
  <2>. QED  BY <1>1, <1>2, <1>4, <1>6, <2>1, <2>2 DEF Known
<1>13. PostsAnswered(c)'
  <2>1. \A i \in Ids : promises'[c][i] = "invalid" => promises[c][i] = "invalid"
    BY <1>2
  <2>2. \A x \in Answered(c)' : ~Awaited(c, x)'
    BY <1>8 DEF UnderWay
  <2>3. Live(c) => \A i \in Ids : promises'[c][i] = "invalid" =>
          \E x \in UnderWay(c) : x.messageId = i /\ x.op = "ping"
    BY <1>4, <2>1
  <2>4. future'[c] = {} /\ caller'[c] # "join"
    BY <1>2
  <2>. QED  BY <1>6, <2>2, <2>3, <2>4 DEF PostsAnswered
<1>14. Quiet(c)'
  <2>1. ~DrawsFresh => \A i \in Ids : promises[c][i] # "invalid"
    BY DEF Attached, Quiet
  <2>. QED  BY <1>2, <1>4, <2>1 DEF Quiet
<1>. QED  BY <1>9, <1>10, <1>11, <1>12, <1>13, <1>14 DEF Attached

LEMMA ConnectOwn ==
  ASSUME TInv, ServerInv, NEW c \in Client, ClientInv(c), Connect(c)
  PROVE  attached'[c] # 0 /\ Attached(c)'
<1>1. /\ caller[c] = "idle" /\ attached[c] = 0 /\ queueExists /\ conn[c] < MaxConnects
      /\ attached' = [attached EXCEPT ![c] = epoch]
      /\ conn' = [conn EXCEPT ![c] = @ + 1]
      /\ queueOpen' = [queueOpen EXCEPT ![c] = TRUE]
      /\ BeginModal(c, "connect", conn[c] + 1)
      /\ UNCHANGED <<serverVars, serverQueue, replies, clientId>>
  BY DEF Connect
<1>2. /\ Detached(c) /\ ClientsTypeOK /\ epoch \in Nat
  BY <1>1 DEF ClientInv, TInv, TypeOK, ServerTypeOK
<1> DEFINE k == conn[c] + 1
           q == <<c, k>>
<1>3. PICK m \in Drawn(c), s \in 0..2 :
        /\ m \in Ids /\ future'[c] = {} /\ call'[c] = {NewMessage(c, "connect", m, k, s)}
        /\ \/ /\ promises[c][m] = "none" /\ caller'[c] = "send"
              /\ \A i \in Ids : promises'[c][i] = IF i = m THEN "valid" ELSE promises[c][i]
           \/ promises[c][m] # "none" /\ caller'[c] = "send broken" /\ UNCHANGED promises
  BY <1>1, BeginModalSteps
<1>4. /\ caller'[c] = "send"
      /\ \A i \in Ids : promises'[c][i] = IF i = m THEN "valid" ELSE "none"
  BY <1>2, <1>3 DEF Detached
<1>5. k \in 1..MaxConnects /\ q \in Queue /\ k > conn[c] /\ q[1] = c /\ q[2] = k
  BY <1>1, <1>2, BoundAssumption DEF ClientsTypeOK, Queue
<1>6. attached'[c] = epoch /\ conn'[c] = k /\ ThisQueue(c)' = q /\ epoch' = epoch /\ epoch # 0
  BY <1>1, <1>2 DEF ClientsTypeOK, ThisQueue, serverVars, ServerInv, UpHasQueue
<1>7. queueOpen'[c]
  BY <1>1, <1>2 DEF ClientsTypeOK
<1>8. /\ \A x \in Range(serverQueue) : x.from # q
      /\ replies[q] = <<>>
      /\ \A id \in DOMAIN endpoints : endpoints[id] # q
  BY <1>5 DEF ServerInv, NewQueuesUnused
<1> HIDE DEF q, k
<1>9. Asked(c)' = {} /\ Answering(c)' = {} /\ Answered(c)' = {} /\ UnderWay(c)' = {}
  <2>1. Asked(c)' = {}
    BY <1>1, <1>6, <1>8 DEF Asked
  <2>2. Answering(c)' = {}
    <3>1. \A o \in outbox : o.to \in DOMAIN endpoints /\ o.reply.from = endpoints[o.to]
      BY DEF ServerInv, RepliesRouted, TInv, TypeOK, ServerTypeOK
    <3>2. outbox' = outbox
      BY <1>1 DEF serverVars
    <3>. QED  BY <1>6, <1>8, <3>1, <3>2 DEF Answering
  <2>3. Answered(c)' = {}
    BY <1>1, <1>6, <1>8 DEF Answered, Range
  <2>. QED  BY <2>1, <2>2, <2>3 DEF UnderWay
<1> DEFINE n == NewMessage(c, "connect", m, k, s)
<1>10. /\ n.op = "connect" /\ n.messageId = m /\ n.from = q /\ n.clientId = clientId[c]
       /\ call'[c] = {n}
  BY <1>3 DEF NewMessage, q
<1> HIDE DEF n
<1>11. CallInv(c)'
  <2>1. \A x \in call'[c] : promises'[c][x.messageId] \in {"valid", "set"}
    BY <1>3, <1>4, <1>10
  <2>2. clientId' = clientId /\ attached'[c] <= epoch'
    BY <1>1, <1>2, <1>6
  <2>3. \A x \in call[c]' : Awaited(c, x)'
    BY <2>1 DEF Awaited
  <2>. QED  BY <1>3, <1>4, <1>6, <1>7, <1>10, <2>2, <2>3 DEF CallInv
<1>12. CallIsLast(c)'
  <2>1. Ordered(c)'
    <3>1. \A i \in 1..Len(serverQueue) : serverQueue[i].from # q
      BY <1>8, Elements DEF TInv, TypeOK, QueuesTypeOK
    <3>. QED  BY <1>1, <1>6, <3>1 DEF Ordered
  <2>2. Len(replies[ThisQueue(c)])' = 0
    BY <1>1, <1>6, <1>8
  <2>. QED  BY <1>4, <1>9, <2>1, <2>2 DEF CallIsLast
<1>13. OwnAnswer(c)' /\ PostsAnswered(c)' /\ Quiet(c)'
  BY <1>3, <1>4, <1>9 DEF OwnAnswer, PostsAnswered, Quiet
<1>14. Known(c)'
  BY <1>3, <1>4, <1>9, <1>10 DEF Known
<1>. QED  BY <1>6, <1>11, <1>12, <1>13, <1>14 DEF Attached

LEMMA NonModalOwn ==
  ASSUME IdsDistinct, TInv, ServerInv, NEW c \in Client, Attached(c),
         NEW op, NEW m \in Ids, Posting(c, op, m), NonModal(c, op, m)
  PROVE  Attached(c)'
<1> DEFINE n == NewMessage(c, op, m, conn[c], serial[c])
<1>1. /\ caller[c] = "idle" /\ attached[c] # 0
      /\ caller' = [caller EXCEPT ![c] = "post"] /\ call' = [call EXCEPT ![c] = {n}]
      /\ promises' = IF m # 0 /\ promises[c][m] = "none"
                       THEN [promises EXCEPT ![c][m] = "invalid"] ELSE promises
      /\ UNCHANGED <<serverVars, serverQueue, replies, attached, conn, queueOpen,
                     clientId, receiver, future, serial>>
  BY DEF NonModal
<1>2. /\ n.op = op /\ n.messageId = m /\ n.from = ThisQueue(c) /\ n.clientId = clientId[c]
      /\ op \in {"ping", "request"} /\ (m # 0 => op = "ping")
  BY DEF NewMessage, ThisQueue, Posting
<1> HIDE DEF n
<1>3. ClientsTypeOK
  BY DEF TInv, TypeOK
<1>4. /\ caller'[c] = "post" /\ call'[c] = {n}
      /\ \A i \in Ids : \/ promises'[c][i] = promises[c][i]
                        \/ m # 0 /\ i = m /\ promises'[c][i] = "invalid"
  <2>1. caller'[c] = "post" /\ call'[c] = {n}
    BY <1>1, <1>3 DEF ClientsTypeOK
  <2>2. CASE m # 0 /\ promises[c][m] = "none"
    <3>1. promises' = [promises EXCEPT ![c][m] = "invalid"]
      BY <1>1, <2>2
    <3>2. \A i \in Ids : promises'[c][i] = IF i = m THEN "invalid" ELSE promises[c][i]
      BY <1>3, <3>1 DEF ClientsTypeOK
    <3>. QED  BY <2>1, <2>2, <3>2
  <2>3. CASE ~(m # 0 /\ promises[c][m] = "none")
    BY <1>1, <2>1, <2>3
  <2>. QED  BY <2>2, <2>3
<1>5. /\ call[c] = {} /\ future[c] = {}
      /\ \A i \in Ids : promises[c][i] \in {"none", "invalid"}
      /\ \A x \in UnderWay(c) : ~Awaited(c, x)
      /\ Live(c) => /\ Knows(c, clientId[c])
                    /\ \A x \in UnderWay(c) : x.op \notin {"connect", "disconnect"}
                    /\ \A i \in Ids : promises[c][i] = "invalid" =>
                         \E x \in UnderWay(c) : x.messageId = i /\ x.op = "ping"
  BY <1>1, IdleCaller
<1>6. /\ UNCHANGED <<ThisQueue(c), Asked(c), Answering(c), Answered(c), UnderWay(c)>>
      /\ UNCHANGED <<Up, epoch, endpoints>>
      /\ \A id : Knows(c, id)' <=> Knows(c, id)
      /\ Live(c)' <=> Live(c)
  <2>1. /\ UNCHANGED <<ThisQueue(c), Asked(c), Answering(c), Answered(c), UnderWay(c)>>
        /\ UNCHANGED <<Up, epoch, endpoints>>
        /\ \A id : Knows(c, id)' <=> Knows(c, id)
    BY <1>1, NoMessageMoves
  <2>. QED  BY <1>1, <2>1 DEF Live
<1>7. /\ \A i \in Ids : promises'[c][i] \in {"none", "invalid"}
      /\ \A x \in UnderWay(c) : promises'[c][x.messageId] \notin {"valid", "set"}
  <2>1. \A i \in Ids : promises'[c][i] \in {"none", "invalid"}
    BY <1>4, <1>5
  <2>. QED  BY <1>1, <2>1, OwnTypes
<1>8. \A x \in UnderWay(c)' : ~Awaited(c, x)'
  BY <1>6, <1>7 DEF Awaited
<1>9. CallInv(c)'
  <2>1. queueOpen[c] /\ UNCHANGED <<queueOpen, attached, clientId, epoch>> /\ attached[c] <= epoch
    BY <1>1, <1>6 DEF Attached, CallInv
  <2>2. queueOpen'[c]
    BY <2>1, Zenon
  <2>3. future'[c] = {}
    BY <1>1, <1>5
  <2>. QED  BY <1>2, <1>4, <1>6, <1>7, <2>1, <2>2, <2>3 DEF CallInv
<1>10. CallIsLast(c)'
  <2>1. \A i \in 1..Len(serverQueue) : serverQueue[i].from = ThisQueue(c) =>
          serverQueue[i] \in UnderWay(c)
    BY Elements DEF UnderWay, Asked, TInv, TypeOK, QueuesTypeOK
  <2>2. Ordered(c)'
    BY <1>1, <1>6, <1>7, <2>1 DEF Ordered, Awaited
  <2>3. \A i \in 1..Len(replies[ThisQueue(c)]) : replies[ThisQueue(c)][i] \in UnderWay(c)
    BY <1>1, OwnTypes, Elements DEF UnderWay, Answered
  <2>4. \A i \in 1..Len(replies[ThisQueue(c)])' : ~Awaited(c, replies[ThisQueue(c)][i])'
    BY <1>1, <1>6, <1>7, <2>3 DEF Awaited
  <2>5. \A x \in Answering(c)' : ~Awaited(c, x)'
    BY <1>8 DEF UnderWay
  <2>. QED  BY <1>1, <1>4, <1>5, <1>8, <2>2, <2>4, <2>5 DEF CallIsLast
<1>11. OwnAnswer(c)'
  BY <1>1, <1>5, <1>8 DEF OwnAnswer
<1>12. Known(c)'
  <2>1. /\ Asked(c) \cup Answering(c) # {} => attached[c] = epoch
        /\ \A x \in Asked(c) : x.op # "connect" => x.clientId = clientId[c]
        /\ Live(c) => \A x \in Answering(c) \cup Answered(c) : x.op = "connect" => Knows(c, x.clientId)
    BY DEF Attached, Known
  <2>. QED  BY <1>1, <1>4, <1>5, <1>6, <2>1 DEF Known
<1>13. PostsAnswered(c)'
  <2>1. \A x \in Answered(c)' : ~Awaited(c, x)'
    BY <1>8 DEF UnderWay
  <2>2. ASSUME Live(c), NEW i \in Ids, promises'[c][i] = "invalid"
        PROVE  \/ \E x \in call'[c] : x.messageId = i /\ x.op = "ping"
               \/ \E x \in UnderWay(c) : x.messageId = i /\ x.op = "ping"
    BY <1>2, <1>4, <1>5, <2>2
  <2>. QED  BY <1>1, <1>4, <1>5, <1>6, <2>1, <2>2 DEF PostsAnswered
<1>14. Quiet(c)'
  <2> SUFFICES ASSUME ~DrawsFresh PROVE Quiet(c)'
    BY DEF Quiet
  <2>1. m = 0 /\ 0 \notin MessageId
    BY DEF IdsDistinct, Posting
  <2>2. /\ \A i \in Ids : promises[c][i] # "invalid"
        /\ \A x \in UnderWay(c) : x.messageId \notin MessageId
    BY <1>1 DEF Attached, Quiet
  <2>. QED  BY <1>2, <1>4, <1>6, <2>1, <2>2 DEF Quiet
<1>. QED  BY <1>9, <1>10, <1>11, <1>12, <1>13, <1>14 DEF Attached

-----------------------------------------------------------------------------
(* The invariant holds initially and every step keeps it. *)
LEMMA InitTInv == Init => TInv
<1> SUFFICES ASSUME Init PROVE TInv
  OBVIOUS
<1>1. HasQueue /\ StartsBound
  BY DEF Init, HasQueue, StartsBound
<1>. QED  BY <1>1, InitTypeOK DEF TInv

LEMMA InitIInv == Init => IInv
<1> SUFFICES ASSUME Init PROVE IInv
  OBVIOUS
<1>1. ServerInv
  BY DEF Init, ServerInv, UpHasQueue, Up, NewQueuesUnused, Routed, RepliesRouted, Range
<1>2. \A c \in Client : ClientInv(c)
  BY DEF Init, ClientInv, Detached
<1>. QED  BY <1>1, <1>2, InitTInv DEF IInv

LEMMA ServerSteps ==
  ASSUME TInv, ServerInv, \A c \in Client : ClientInv(c), TypeOK',
         Handle \/ SendReply
  PROVE  ServerInv' /\ \A c \in Client : ClientInv(c)'
<1>0. TypeOK
  BY DEF TInv
<1>1. ASSUME Handle PROVE ServerInv' /\ \A c \in Client : ClientInv(c)'
  <2> DEFINE m == Head(serverQueue)
  <2>1. /\ m \in Message /\ serverQueue # <<>> /\ serverQueue' = Tail(serverQueue)
        /\ server = "receiving" /\ outbox = {} /\ server' \in {"receiving", "sending"}
        /\ UNCHANGED <<stopFlag, epoch, queueExists, replies, clientVars>>
    BY <1>1, HandleCases
    DEF TInv, Dropped, Forgotten, Replied, Accepted, NoReply, Sending
  <2>2. /\ \A o \in outbox' : Alike(o.reply, m)
        /\ Kept(m.from, m.op = "disconnect") /\ ServerInv'
        /\ m \in Range(serverQueue)
    BY <1>1, HandleSteps
  <2> DEFINE q == m.from
  <2>3. Up /\ Up'
    BY <2>1 DEF Up
  <2>4. \A o \in outbox \cup outbox' : o.reply.from = q
    BY <2>1, <2>2 DEF Alike
  <2>5. ASSUME NEW c \in Client, q # ThisQueue(c) PROVE ClientInv(c)'
    <3>1. replies'[ThisQueue(c)] = replies[ThisQueue(c)]
      BY <2>1
    <3>2. \/ serverQueue' = serverQueue
          \/ /\ serverQueue # <<>> /\ Head(serverQueue).from = q
             /\ serverQueue' = Tail(serverQueue)
      BY <2>1
    <3>3. UNCHANGED clientVars /\ epoch' = epoch
      BY <2>1
    <3> DEFINE gone == m.op = "disconnect"
    <3>4. Kept(q, gone)
      BY <2>2
    <3>5. Apart(c)
      <4> HIDE DEF gone, q
      <4>. QED  BY <2>3, <2>4, <2>5, <3>1, <3>2, <3>3, <3>4, ServerForOthers
    <3>. QED  BY <1>0, <3>5, ApartKeeps
  <2>6. ASSUME NEW c \in Client, q = ThisQueue(c) PROVE ClientInv(c)'
    <3>1. CASE attached[c] # 0
      <4>1. Attached(c)
        BY <3>1 DEF ClientInv
      <4>2. Attached(c)'
        BY <1>1, <2>6, <3>1, <4>1, HandleOwn
      <4>. QED  BY <2>1, <3>1, <4>2 DEF ClientInv, clientVars
    <3>2. CASE attached[c] = 0
      BY <2>1, <3>2 DEF ClientInv, Detached, clientVars
    <3>. QED  BY <3>1, <3>2
  <2>. QED  BY <2>2, <2>5, <2>6
<1>2. ASSUME SendReply PROVE ServerInv' /\ \A c \in Client : ClientInv(c)'
  <2>1. PICK o \in outbox :
         /\ outbox = {o} /\ outbox' = {}
         /\ replies' = [replies EXCEPT ![o.reply.from] = Append(replies[o.reply.from], o.reply)]
         /\ UNCHANGED <<serverQueue, epoch, clientVars>> /\ Up /\ Up'
         /\ Kept(o.reply.from, o.reply.op = "disconnect")
         /\ ServerInv'
    BY <1>2, SendReplySteps
  <2> DEFINE q == o.reply.from
             gone == o.reply.op = "disconnect"
  <2>2. ASSUME NEW c \in Client, q # ThisQueue(c) PROVE ClientInv(c)'
    <3>1. replies'[ThisQueue(c)] = replies[ThisQueue(c)]
      BY <2>1, <2>2
    <3>2. Kept(q, gone)
      BY <2>1
    <3>3. \A p \in outbox \cup outbox' : p.reply.from = q
      BY <2>1
    <3>4. UNCHANGED clientVars /\ epoch' = epoch /\ Up /\ Up'
      BY <2>1
    <3>5. \/ serverQueue' = serverQueue
          \/ /\ serverQueue # <<>> /\ Head(serverQueue).from = q
             /\ serverQueue' = Tail(serverQueue)
      BY <2>1
    <3>6. Apart(c)
      <4> HIDE DEF q, gone
      <4>. QED  BY <2>2, <3>1, <3>2, <3>3, <3>4, <3>5, ServerForOthers
    <3>. QED  BY <1>0, <3>6, ApartKeeps
  <2>3. ASSUME NEW c \in Client, q = ThisQueue(c) PROVE ClientInv(c)'
    <3>1. CASE attached[c] # 0
      <4>1. Attached(c)
        BY <3>1 DEF ClientInv
      <4>2. Attached(c)'
        BY <1>2, <2>1, <2>3, <3>1, <4>1, SendReplyOwn
      <4>. QED  BY <2>1, <3>1, <4>2 DEF ClientInv, clientVars
    <3>2. CASE attached[c] = 0
      BY <2>1, <3>2 DEF ClientInv, Detached, clientVars
    <3>. QED  BY <3>1, <3>2
  <2>. QED  BY <2>1, <2>2, <2>3
<1>. QED  BY <1>1, <1>2

LEMMA ClientKeepsServerInv ==
  ASSUME TInv, ServerInv, NEW c \in Client, ClientInv(c), TypeOK', ClientStep(c)
  PROVE  ServerInv'
<1>1. TypeOK /\ ClientsTypeOK /\ QueuesTypeOK /\ UNCHANGED serverVars
  BY DEF TInv, TypeOK, ClientStep, ClientThreads, ReceiverStarts, Receive, ReceiverStops, Send,
         Return, ReturnBroken, Connect, ClientDies, Modal, NonModal
<1>2. \A d \in Client : conn'[d] >= conn[d]
  <2>1. conn' = conn \/ conn' = [conn EXCEPT ![c] = @ + 1]
    BY DEF ClientStep, ClientThreads, ReceiverStarts, Receive, ReceiverStops, Send,
           Return, ReturnBroken, Connect, ClientDies, Modal, NonModal
  <2>2. \A d \in Client : conn[d] \in Nat
    BY <1>1, BoundAssumption DEF ClientsTypeOK
  <2>. QED  BY <1>1, <2>1, <2>2 DEF ClientsTypeOK
<1>3. \A q \in Queue : \/ replies'[q] = replies[q]
                       \/ replies[q] # <<>> /\ replies'[q] = Tail(replies[q])
  <2>1. CASE Receive(c)
    <3>1. /\ replies[ThisQueue(c)] # <<>>
          /\ replies' = [replies EXCEPT ![ThisQueue(c)] = Tail(@)]
      BY <2>1 DEF Receive
    <3>. QED  BY <1>1, <3>1 DEF QueuesTypeOK
  <2>2. CASE replies' = replies
    BY <2>2
  <2>3. Receive(c) \/ replies' = replies
    BY DEF ClientStep, ClientThreads, ReceiverStarts, ReceiverStops, Send,
           Return, ReturnBroken, Connect, ClientDies, Modal, NonModal
  <2>. QED  BY <2>1, <2>2, <2>3
<1>4. serverQueue' = serverQueue
        \/ \E m \in Message :
             /\ serverQueue' = Append(serverQueue, m)
             /\ m.from[2] <= conn[m.from[1]]
             /\ Up /\ m.op # "connect" =>
                  /\ m.clientId < nextId
                  /\ m.clientId \in DOMAIN endpoints => endpoints[m.clientId] = m.from
  <2>1. CASE serverQueue' = serverQueue
    BY <2>1
  <2>2. CASE Send(c) /\ serverQueue' # serverQueue
    <3>1. caller[c] \in {"send", "send broken", "post"}
      BY <2>2 DEF Send
    <3>2. attached[c] # 0 /\ Attached(c)
      BY <3>1 DEF ClientInv, Detached
    <3>3. PICK m \in call[c] : serverQueue' = Append(serverQueue, m) /\ attached[c] = epoch
      BY <2>2, <3>2, SendSteps
    <3>4. m \in Message /\ m.from = ThisQueue(c) /\ m.clientId = clientId[c]
      BY <1>1, <3>2 DEF ClientsTypeOK, Attached, CallInv
    <3>5. m.from[2] <= conn[m.from[1]]
      <4>1. conn[c] \in Nat
        BY <1>1, BoundAssumption DEF ClientsTypeOK
      <4>2. m.from[2] = conn[c] /\ m.from[1] = c
        BY <3>4 DEF ThisQueue
      <4>. QED  BY <4>1, <4>2
    <3>6. ASSUME Up, m.op # "connect"
          PROVE  /\ m.clientId < nextId
                 /\ m.clientId \in DOMAIN endpoints => endpoints[m.clientId] = m.from
      <4>1. Live(c)
        BY <3>3, <3>6 DEF Live
      <4>2. \/ caller[c] = "post"
            \/ m.op \in {"ping", "request"}
            \/ m.op = "disconnect" /\ caller[c] = "send"
        <5>1. m.op \in {"connect", "disconnect", "ping", "request"}
          BY <3>4 DEF Message, Op
        <5>2. caller[c] # "send broken"
          BY <3>2, <4>1 DEF Attached, Known
        <5>. QED  BY <3>1, <3>6, <5>1, <5>2
      <4>3. Knows(c, clientId[c])
        BY <3>2, <4>1, <4>2 DEF Attached, Known
      <4>4. DOMAIN endpoints \subseteq 1..nextId - 1 /\ nextId \in Nat
        BY <1>1 DEF TypeOK, ServerTypeOK
      <4>5. m.clientId < nextId
        <5>1. m.clientId \in 1..nextId - 1
          BY <3>4, <4>3, <4>4 DEF Knows
        <5>. QED  BY <4>4, <5>1
      <4>. QED  BY <3>4, <4>3, <4>5 DEF Knows
    <3>. QED  BY <3>3, <3>4, <3>5, <3>6
  <2>3. Send(c) \/ serverQueue' = serverQueue
    BY DEF ClientStep, ClientThreads, ReceiverStarts, Receive, ReceiverStops,
           Return, ReturnBroken, Connect, ClientDies, Modal, NonModal
  <2>. QED  BY <2>1, <2>2, <2>3
<1>. QED  BY <1>1, <1>2, <1>3, <1>4, ServerInvKept

LEMMA ClientKeepsItself ==
  ASSUME IdsDistinct, TInv, ServerInv, NEW c \in Client, ClientInv(c), TypeOK', ClientStep(c)
  PROVE  ClientInv(c)'
<1>1. ClientsTypeOK /\ TypeOK
  BY DEF TInv, TypeOK
<1>2. ASSUME attached[c] # 0 \/ caller[c] # "idle" \/ receiver[c] # "off"
      PROVE  attached[c] # 0 /\ Attached(c)
  BY <1>2 DEF ClientInv, Detached
<1>3. ASSUME attached'[c] = attached[c], attached[c] # 0, Attached(c)' PROVE ClientInv(c)'
  BY <1>3 DEF ClientInv
<1>4. CASE ReceiverStarts(c)
  <2>1. attached[c] # 0 /\ ThisQueue(c)' = ThisQueue(c)
    BY <1>2, <1>4 DEF ReceiverStarts, ThisQueue
  <2>2. Apart(c)
    BY <1>1, <1>4, <2>1, ClientApart DEF ReceiverStarts
  <2>. QED  BY <1>1, <2>2, ApartKeeps
<1>5. CASE Receive(c)
  BY <1>2, <1>3, <1>5, ReceiveOwn DEF Receive
<1>6. CASE ReceiverStops(c) \/ ClientDies(c)
  <2>1. attached[c] # 0 /\ Attached(c)
    BY <1>2, <1>6 DEF ReceiverStops, ClientDies
  <2>2. attached'[c] = 0 /\ Detached(c)'
    BY <1>6, <2>1, DetachedKept
  <2>. QED  BY <2>2 DEF ClientInv
<1>7. CASE Send(c)
  BY <1>2, <1>3, <1>7, SendOwn DEF Send
<1>8. CASE Return(c)
  <2>1. attached[c] # 0 /\ Attached(c)
    BY <1>2, <1>8 DEF Return
  <2>2. attached'[c] # 0 /\ Attached(c)'
    BY <1>8, <2>1, ReturnOwn
  <2>. QED  BY <2>2 DEF ClientInv
<1>9. CASE ReturnBroken(c)
  BY <1>2, <1>3, <1>9, ReturnBrokenOwn DEF ReturnBroken
<1>10. CASE Connect(c)
  <2>1. attached'[c] # 0 /\ Attached(c)'
    BY <1>10, ConnectOwn
  <2>. QED  BY <2>1 DEF ClientInv
<1>11. ASSUME NEW op \in {"disconnect", "ping", "request"}, Modal(c, op)
       PROVE  ClientInv(c)'
  BY <1>2, <1>3, <1>11, ModalOwn DEF Modal
<1>12. ASSUME NEW op \in Op, NEW m \in Ids, Posting(c, op, m), NonModal(c, op, m)
       PROVE  ClientInv(c)'
  BY <1>2, <1>3, <1>12, NonModalOwn DEF NonModal
<1>. QED
  BY <1>4, <1>5, <1>6, <1>7, <1>8, <1>9, <1>10, <1>11, <1>12 DEF ClientStep, ClientThreads

LEMMA NextIInv == IdsDistinct /\ IInv /\ [Next]_vars => IInv'
<1> SUFFICES ASSUME IdsDistinct, TInv, ServerInv, \A c \in Client : ClientInv(c),
                    [Next]_vars
             PROVE  IInv'
  BY DEF IInv
<1>1. TInv' /\ TypeOK' /\ TypeOK
  BY NextTInv DEF TInv
<1> DEFINE Goal == ServerInv' /\ \A c \in Client : ClientInv(c)'
<1>2. ASSUME Start \/ Shutdown \/ ServerDies \/ CreateQueue \/ Stop PROVE Goal
  BY <1>1, <1>2, ServerAlone, ApartKeeps
<1>3. ASSUME Handle \/ SendReply PROVE Goal
  BY <1>1, <1>3, ServerSteps
<1>4. ASSUME NEW c \in Client, ClientStep(c) PROVE Goal
  <2>1. ServerInv' /\ ClientInv(c)'
    BY <1>1, <1>4, ClientKeepsServerInv, ClientKeepsItself
  <2>2. ASSUME NEW d \in Client, d # c PROVE ClientInv(d)'
    BY <1>1, <1>4, <2>2, OthersApart, ApartKeeps
  <2>. QED  BY <2>1, <2>2
<1>5. CASE UNCHANGED vars
  <2>1. UNCHANGED <<server, queueExists, epoch, outbox, endpoints, nextId, serverQueue, replies,
                    clientVars>>
    BY <1>5 DEF vars, serverVars
  <2>2. ServerInv'
    BY <2>1 DEF ServerInv, UpHasQueue, Up, NewQueuesUnused, Routed, RepliesRouted, clientVars
  <2>3. ASSUME NEW c \in Client PROVE ClientInv(c)'
    <3>1. Apart(c)
      BY <1>1, <1>5, ClientApart DEF vars, clientVars, ThisQueue
    <3>. QED  BY <1>1, <3>1, ApartKeeps
  <2>. QED  BY <1>1, <2>2, <2>3 DEF IInv
<1>6. ASSUME Next PROVE Goal
  <2>1. \/ Start \/ Shutdown \/ ServerDies \/ CreateQueue \/ Stop
        \/ Handle \/ SendReply
        \/ \E c \in Client : ClientStep(c)
    <3>1. ASSUME NEW c \in Client, NEW op \in {"ping", "request"}, "silent" \in Posts,
                 NonModal(c, op, 0)
          PROVE  ClientStep(c)
      BY <3>1 DEF ClientStep, Posting, Op, Ids
    <3>2. ASSUME NEW c \in Client, NEW m \in Drawn(c), "reply" \in Posts,
                 NonModal(c, "ping", m)
          PROVE  ClientStep(c)
      BY <3>2, DrawnIds DEF ClientStep, Posting, Op, Ids
    <3>. QED  BY <1>6, <3>1, <3>2 DEF Next, ServerThread, ClientStep
  <2>. QED  BY <1>2, <1>3, <1>4, <2>1
<1>. QED  BY <1>1, <1>5, <1>6 DEF IInv

-----------------------------------------------------------------------------
(* Every variable has a value of its type, the queues keep to their bound,
   and the server blocks in a send only for a client it knows (sendReply):
   for any clients, ids and queue size, with or without IdsDistinct. *)
THEOREM TypeCorrect == Spec => []TypeOK
<1>1. TInv => TypeOK
  BY DEF TInv
<1>. QED  BY InitTInv, NextTInv, <1>1, PTL DEF Spec

(* The inductive invariant holds, when no id is drawn again while a message
   that has it is under way. *)
THEOREM Invariance == IdsDistinct => (Spec => []IInv)
<1> SUFFICES ASSUME IdsDistinct PROVE Spec => []IInv
  OBVIOUS
<1>1. IInv /\ [Next]_vars => IInv'
  BY NextIInv
<1>. QED  BY InitIInv, <1>1, PTL DEF Spec

(* What a modal call returns is the reply to its own request, however many
   replies to calls that nobody waits for are in the queue, and whatever
   became of servers and earlier connections (the receiver thread finds the
   promise by messageId alone). *)
THEOREM CallsAnswered == IdsDistinct => (Spec => []AnswersOwnCall)
<1>1. IInv => AnswersOwnCall
  BY DEF IInv, ClientInv, Detached, Attached, OwnAnswer, AnswersOwnCall
<1>. QED  BY Invariance, <1>1, PTL

(* The server knows the clients that are connected to it, by the ids they
   have, so that their requests are answered and not dropped. *)
THEOREM KnownClients == IdsDistinct => (Spec => []ConnectedIsKnown)
<1>1. IInv => ConnectedIsKnown
  <2> SUFFICES ASSUME IInv, NEW c \in Client, attached[c] = epoch,
                      server \in {"receiving", "sending"},
                      caller[c] \in {"idle", "post"}
                        \/ \E m \in call[c] : m.op \in {"ping", "request"}
               PROVE  Knows(c, clientId[c])
    BY DEF ConnectedIsKnown, Knows
  <2>1. attached[c] # 0 /\ Live(c)
    BY DEF IInv, ServerInv, UpHasQueue, Up, Live
  <2>2. Attached(c)
    BY <2>1 DEF IInv, ClientInv
  <2>. QED  BY <2>1, <2>2 DEF Attached, Known
<1>. QED  BY Invariance, <1>1, PTL

(* A client that has the reply to its disconnection has had every other: no
   reply is left in its queue, and no promise in its map. *)
THEOREM QueuesEmptied == IdsDistinct => (Spec => []NothingLeftBehind)
<1>1. IInv => NothingLeftBehind
  <2> SUFFICES ASSUME IInv, NEW c \in Client, caller[c] = "join"
               PROVE  /\ replies[ThisQueue(c)] = <<>>
                      /\ \A m \in Ids : promises[c][m] = "none"
    BY DEF NothingLeftBehind
  <2>1. attached[c] # 0 /\ Attached(c) /\ TInv
    BY DEF IInv, ClientInv, Detached
  <2>2. Range(replies[ThisQueue(c)]) = {}
    BY <2>1 DEF Attached, CallIsLast, UnderWay, Answered
  <2>3. replies[ThisQueue(c)] = <<>>
    BY <2>1, <2>2, OwnTypes, Elements
  <2>4. \A m \in Ids : promises[c][m] \notin {"valid", "set", "invalid"}
    BY <2>1 DEF Attached, CallInv, PostsAnswered
  <2>5. \A m \in Ids : promises[c][m] \in {"none", "invalid", "valid", "set"}
    BY <2>1 DEF TInv, TypeOK, ClientsTypeOK
  <2>. QED  BY <2>3, <2>4, <2>5
<1>. QED  BY Invariance, <1>1, PTL

(* No receiver thread runs without its queue, which a connection that is
   refused would delete: the refusal never reaches the client. *)
THEOREM ReceiversHaveQueues == IdsDistinct => (Spec => []ReceiverHasQueue)
<1>1. IInv => ReceiverHasQueue
  BY DEF IInv, ClientInv, Detached, Attached, CallInv, ReceiverHasQueue
<1>. QED  BY Invariance, <1>1, PTL
=============================================================================
