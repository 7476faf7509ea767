------------------------------- MODULE IpcShm -------------------------------
(***************************************************************************)
(* Requests and replies between overlays and the driver over message       *)
(* queues in shared memory: the server thread of IpcShmCommunicator, and   *)
(* the caller and the receiver thread of each VRMotionCompensation client. *)
(*                                                                         *)
(* A modal call enters a promise under a random message id, sends its      *)
(* request into the server's queue and waits, with no timeout, until the   *)
(* receiver thread finds the promise of a reply.  Both queues are bounded  *)
(* and senders block.  Clients and the server may die at any point; the    *)
(* queues outlive them, and a server that starts replaces its queue, so    *)
(* that a client may be attached to one nobody reads any more.  What the   *)
(* device requests do in the driver is in MotionCompensation.              *)
(***************************************************************************)
EXTENDS Naturals, Sequences, FiniteSets, Functions

CONSTANTS Client,
          Outdated,     \* clients with another IPC_PROTOCOL_VERSION
          MessageId,    \* what _ipcRandomDist may draw
          Posts,        \* what clients send without waiting
          DrawsFresh,   \* it never draws an id that is in flight
          QueueSize,    \* bound of each queue (100)
          MaxConnects,  \* bound: connections a client makes
          MaxStarts     \* bound: times the server starts

ASSUME ClientAssumption == Outdated \subseteq Client
ASSUME MessageIdAssumption == MessageId \subseteq Nat
ASSUME DrawsFreshAssumption == DrawsFresh \in BOOLEAN
ASSUME PostsAssumption == Posts \subseteq {"reply", "silent"}
ASSUME BoundAssumption ==
  /\ QueueSize \in Nat \ {0}
  /\ MaxConnects \in Nat
  /\ MaxStarts \in Nat

VARIABLES server, stopFlag,       \* the server thread, _ipcThreadStopFlag
          epoch, queueExists,     \* which server queue there is, if any
          serverQueue,
          endpoints, nextId,      \* _ipcEndpoints, _ipcClientIdNext
          outbox,                 \* the reply sendReply has to send
          replies,                \* the queue of each connection
          caller, call,           \* each client's thread, and its request
          attached, conn,         \* _ipcServerQueue, _ipcClientQueueName
          queueOpen,              \* _ipcClientQueue is not null
          clientId, receiver,     \* m_clientId, the receiver thread
          promises, future,       \* _ipcPromiseMap, the caller's future
          serial                  \* history: numbers a client's modal calls

serverVars == <<server, stopFlag, epoch, queueExists, endpoints, nextId, outbox>>
clientVars == <<caller, call, attached, conn, queueOpen, clientId, receiver,
                promises, future, serial>>
vars == <<serverVars, serverQueue, replies, clientVars>>

Queue == Client \X (1..MaxConnects)
Op == {"connect", "disconnect", "ping", "request"}
Ids == MessageId \cup {0}

(* from and serial are history: who sent the request, in which call.  The
   queue name in a connect request is from, too. *)
Message == [op : Op, messageId : Ids, clientId : Nat, outdated : BOOLEAN,
            from : Queue, serial : 0..2]
ReplyStatus == {"Ok", "InvalidId", "InvalidVersion"}
Reply == [op : Op, messageId : Ids, clientId : Nat, status : ReplyStatus,
          from : Queue, serial : 0..2]

ThisQueue(c) == <<c, conn[c]>>

Init ==
  /\ server = "off" /\ stopFlag = FALSE
  /\ epoch = 0 /\ queueExists = FALSE
  /\ serverQueue = <<>>
  /\ endpoints = <<>> /\ nextId = 1
  /\ outbox = {}
  /\ replies = [q \in Queue |-> <<>>]
  /\ caller = [c \in Client |-> "idle"]
  /\ call = [c \in Client |-> {}]
  /\ attached = [c \in Client |-> 0]
  /\ conn = [c \in Client |-> 0]
  /\ queueOpen = [c \in Client |-> FALSE]
  /\ clientId = [c \in Client |-> 0]
  /\ receiver = [c \in Client |-> "off"]
  /\ promises = [c \in Client |-> [m \in Ids |-> "none"]]
  /\ future = [c \in Client |-> {}]
  /\ serial = [c \in Client |-> 0]

-----------------------------------------------------------------------------
(* The server.  It starts in a new process. *)

Start ==
  /\ server = "off" /\ epoch < MaxStarts
  /\ server' = "starting" /\ stopFlag' = FALSE
  /\ endpoints' = <<>> /\ nextId' = 1 /\ outbox' = {}
  /\ UNCHANGED <<epoch, queueExists, serverQueue, replies, clientVars>>

(* Bug: a starting server opens the queue a dead one left instead of
   replacing it. *)
CreateQueueOrOpen ==
  /\ server = "starting"
  /\ server' = "receiving"
  /\ IF queueExists THEN UNCHANGED <<epoch, queueExists, serverQueue>>
                    ELSE epoch' = epoch + 1 /\ queueExists' = TRUE /\ serverQueue' = <<>>
  /\ UNCHANGED <<stopFlag, endpoints, nextId, outbox, replies, clientVars>>

CreateQueue ==
  /\ server = "starting"
  /\ server' = "receiving"
  /\ epoch' = epoch + 1 /\ queueExists' = TRUE
  /\ serverQueue' = <<>>
  /\ UNCHANGED <<stopFlag, endpoints, nextId, outbox, replies, clientVars>>

(* shutdown, which does nothing if the thread has not marked itself running;
   a starting thread may have or not. *)
Shutdown ==
  /\ server # "off" /\ ~stopFlag
  /\ stopFlag' = TRUE
  /\ UNCHANGED <<server, epoch, queueExists, endpoints, nextId, outbox,
                 serverQueue, replies, clientVars>>

Stop ==
  /\ server = "receiving" /\ stopFlag
  /\ server' = "off" /\ queueExists' = FALSE
  /\ serverQueue' = <<>>
  /\ UNCHANGED <<stopFlag, epoch, endpoints, nextId, outbox, replies, clientVars>>

(* The server process dies; the queue stays, with what is in it. *)
ServerDies ==
  /\ server # "off"
  /\ server' = "off" /\ outbox' = {}
  /\ UNCHANGED <<stopFlag, epoch, queueExists, endpoints, nextId, serverQueue,
                 replies, clientVars>>

(* sendReply looks the client up and drops the reply if it does not know it. *)
sendReply(ends, id, reply) ==
  IF id \in DOMAIN ends
    THEN outbox' = {[to |-> id, reply |-> reply]} /\ server' = "sending"
    ELSE outbox' = {} /\ server' = "receiving"

ReplyTo(m, id, status) ==
  [op |-> m.op, messageId |-> m.messageId, clientId |-> id, status |-> status,
   from |-> m.from, serial |-> m.serial]

NoReply == outbox' = {} /\ server' = "receiving"

(* Bug: a refused client is told so, which it does not survive. *)
ClientConnectAnswering(m) ==
  /\ endpoints' = [i \in DOMAIN endpoints \cup {nextId} |->
                     IF i = nextId THEN m.from ELSE endpoints[i]]
  /\ nextId' = nextId + 1
  /\ sendReply(endpoints', nextId,
       ReplyTo(m, nextId, IF m.outdated THEN "InvalidVersion" ELSE "Ok"))

(* Bug: the client id is not incremented, and the entry overwritten. *)
ClientConnectSameId(m) ==
  /\ IF m.outdated THEN NoReply /\ UNCHANGED endpoints
       ELSE /\ endpoints' = [i \in DOMAIN endpoints \cup {nextId} |->
                               IF i = nextId THEN m.from ELSE endpoints[i]]
            /\ sendReply(endpoints', nextId, ReplyTo(m, nextId, "Ok"))
  /\ UNCHANGED nextId

(* A client has made its queue before it asks, so that opening it succeeds. *)
ClientConnect(m) ==
  IF m.outdated
    THEN /\ sendReply(endpoints, 0, ReplyTo(m, 0, "InvalidVersion"))
         /\ UNCHANGED <<endpoints, nextId>>
    ELSE /\ endpoints' = [i \in DOMAIN endpoints \cup {nextId} |->
                            IF i = nextId THEN m.from ELSE endpoints[i]]
         /\ nextId' = nextId + 1
         /\ sendReply(endpoints', nextId, ReplyTo(m, nextId, "Ok"))

(* A known client is forgotten once its reply is sent, or at once if it
   wants none; an unknown one gets no answer. *)
ClientDisconnect(m) ==
  /\ IF m.messageId # 0
       THEN /\ sendReply(endpoints, m.clientId, ReplyTo(m, m.clientId, "Ok"))
            /\ UNCHANGED endpoints
       ELSE NoReply /\ endpoints' = Restrict(endpoints, DOMAIN endpoints \ {m.clientId})
  /\ UNCHANGED nextId

(* A ping is answered even if its message id says not to. *)
Ping(m) ==
  /\ sendReply(endpoints, m.clientId, ReplyTo(m, m.clientId, "Ok"))
  /\ UNCHANGED <<endpoints, nextId>>

(* Bug: a request that fails is not answered. *)
DeviceRequestIfOk(m) ==
  /\ \/ m.messageId # 0 /\ sendReply(endpoints, m.clientId, ReplyTo(m, m.clientId, "Ok"))
     \/ NoReply
  /\ UNCHANGED <<endpoints, nextId>>

(* What the driver does is in MotionCompensation; InvalidId stands for every
   error status. *)
DeviceRequest(m) ==
  /\ IF m.messageId # 0
       THEN \E status \in {"Ok", "InvalidId"} :
              sendReply(endpoints, m.clientId, ReplyTo(m, m.clientId, status))
       ELSE NoReply
  /\ UNCHANGED <<endpoints, nextId>>

Handle ==
  /\ server = "receiving" /\ ~stopFlag
  /\ serverQueue # <<>>
  /\ serverQueue' = Tail(serverQueue)
  /\ LET m == Head(serverQueue) IN
       \/ m.op = "connect" /\ ClientConnect(m)
       \/ m.op = "disconnect" /\ ClientDisconnect(m)
       \/ m.op = "ping" /\ Ping(m)
       \/ m.op = "request" /\ DeviceRequest(m)
  /\ UNCHANGED <<stopFlag, epoch, queueExists, replies, clientVars>>

(* The blocking send of sendReply, and after it the end of the handler. *)
SendReply ==
  /\ server = "sending"
  /\ \E o \in outbox :
       /\ Len(replies[endpoints[o.to]]) < QueueSize
       /\ replies' = [replies EXCEPT ![endpoints[o.to]] = Append(@, o.reply)]
       /\ endpoints' = IF o.reply.op = "disconnect"
                         THEN Restrict(endpoints, DOMAIN endpoints \ {o.to})
                         ELSE endpoints
  /\ server' = "receiving" /\ outbox' = {}
  /\ UNCHANGED <<stopFlag, epoch, queueExists, nextId, serverQueue, clientVars>>

-----------------------------------------------------------------------------
(* The client's receiver thread. *)

ReceiverStarts(c) ==
  /\ receiver[c] = "starting"
  /\ receiver' = [receiver EXCEPT ![c] = "running"]
  /\ UNCHANGED <<serverVars, serverQueue, replies, caller, call, attached, conn,
                 queueOpen, clientId, promises, future, serial>>

(* A promise is fulfilled; an entry nobody waits for is erased; a reply
   without an entry, or to a promise that is already fulfilled, is dropped. *)
Receive(c) ==
  /\ receiver[c] = "running"
  /\ conn[c] # 0 /\ replies[ThisQueue(c)] # <<>>
  /\ replies' = [replies EXCEPT ![ThisQueue(c)] = Tail(@)]
  /\ LET r == Head(replies[ThisQueue(c)])
         entry == promises[c][r.messageId] IN
       /\ promises' = [promises EXCEPT ![c][r.messageId] =
                         CASE entry = "valid" -> "set"
                           [] entry = "invalid" -> "none"
                           [] OTHER -> entry]
       /\ future' = IF entry = "valid" THEN [future EXCEPT ![c] = {r}] ELSE future
  /\ UNCHANGED <<serverVars, serverQueue, caller, call, attached, conn,
                 queueOpen, clientId, receiver, serial>>

(* At the top of its loop the thread finds _ipcThreadStop set; the caller
   has been waiting for that, and deletes the queues. *)
ReceiverStops(c) ==
  /\ caller[c] = "join" /\ receiver[c] = "running"
  /\ receiver' = [receiver EXCEPT ![c] = "off"]
  /\ caller' = [caller EXCEPT ![c] = "idle"]
  /\ attached' = [attached EXCEPT ![c] = 0]
  /\ queueOpen' = [queueOpen EXCEPT ![c] = FALSE]
  /\ UNCHANGED <<serverVars, serverQueue, replies, call, conn, clientId,
                 promises, future, serial>>

-----------------------------------------------------------------------------
(* The client's caller. *)

NewMessage(c, op, m, k, s) ==
  [op |-> op, messageId |-> m, clientId |-> clientId[c],
   outdated |-> c \in Outdated, from |-> <<c, k>>, serial |-> s]

(* The ids that may be drawn: any, or any but those of the client's messages
   still under way, which 32 random bits make all but certain. *)
InFlight(c) ==
  {m \in Range(serverQueue) : m.from[1] = c}
    \cup {o.reply : o \in outbox} \cup Range(replies[ThisQueue(c)])

Drawn(c) ==
  IF DrawsFresh /\ conn[c] # 0
    THEN MessageId \ {m.messageId : m \in InFlight(c)} ELSE MessageId

(* A modal call inserts its promise before it sends.  If the id is taken
   the new promise is dropped instead, and its future will throw. *)
BeginModal(c, op, k) ==
  LET s == (serial[c] + 1) % 3 IN
  \E m \in Drawn(c) :
    /\ serial' = [serial EXCEPT ![c] = s]
    /\ call' = [call EXCEPT ![c] = {NewMessage(c, op, m, k, s)}]
    /\ future' = [future EXCEPT ![c] = {}]
    /\ IF promises[c][m] = "none"
         THEN /\ promises' = [promises EXCEPT ![c][m] = "valid"]
              /\ caller' = [caller EXCEPT ![c] = "send"]
         ELSE /\ caller' = [caller EXCEPT ![c] = "send broken"]
              /\ UNCHANGED promises

(* connect: open the server's queue, create one's own under a new name,
   start the receiver thread, send. *)
Connect(c) ==
  /\ caller[c] = "idle" /\ attached[c] = 0
  /\ queueExists /\ conn[c] < MaxConnects
  /\ attached' = [attached EXCEPT ![c] = epoch]
  /\ conn' = [conn EXCEPT ![c] = @ + 1]
  /\ queueOpen' = [queueOpen EXCEPT ![c] = TRUE]
  /\ receiver' = [receiver EXCEPT ![c] = "starting"]
  /\ BeginModal(c, "connect", conn[c] + 1)
  /\ UNCHANGED <<serverVars, serverQueue, replies, clientId>>

Modal(c, op) ==
  /\ caller[c] = "idle" /\ attached[c] # 0
  /\ BeginModal(c, op, conn[c])
  /\ UNCHANGED <<serverVars, serverQueue, replies, attached, conn, queueOpen,
                 clientId, receiver>>

(* Without waiting: a ping with a reply, whose entry nobody waits for, or
   any request with the message id 0. *)
NonModal(c, op, m) ==
  /\ caller[c] = "idle" /\ attached[c] # 0
  /\ caller' = [caller EXCEPT ![c] = "post"]
  /\ call' = [call EXCEPT ![c] = {NewMessage(c, op, m, conn[c], serial[c])}]
  /\ promises' = IF m # 0 /\ promises[c][m] = "none"
                   THEN [promises EXCEPT ![c][m] = "invalid"] ELSE promises
  /\ UNCHANGED <<serverVars, serverQueue, replies, attached, conn, queueOpen,
                 clientId, receiver, future, serial>>

(* Bug: a request is put before the others. *)
EnqueuedFirst(q, m) == <<m>> \o q

(* All messages have one priority, so that a queue is first in, first out. *)
Enqueued(q, m) == Append(q, m)

(* Into the server's queue, when there is room, or into one that nobody
   reads any more. *)
Reached(c) == attached[c] = epoch /\ queueExists

Send(c) ==
  /\ caller[c] \in {"send", "send broken", "post"}
  /\ IF Reached(c)
       THEN /\ Len(serverQueue) < QueueSize
            /\ \E m \in call[c] : serverQueue' = Enqueued(serverQueue, m)
       ELSE UNCHANGED serverQueue
  /\ caller' = [caller EXCEPT ![c] = CASE @ = "send" -> "wait"
                                       [] @ = "send broken" -> "broken"
                                       [] @ = "post" -> "idle"]
  /\ call' = IF caller[c] = "post" THEN [call EXCEPT ![c] = {}] ELSE call
  /\ UNCHANGED <<serverVars, replies, attached, conn, queueOpen, clientId,
                 receiver, promises, future, serial>>

(* future.get returns.  A connection takes its client id; one that is
   refused deletes the queues, but not the thread; a disconnection goes on
   to stop the thread, and the client id it takes, from a field its reply does
   not fill, is not used; an error status is thrown to the caller of the call. *)
Return(c) ==
  /\ caller[c] = "wait"
  /\ \E m \in call[c], r \in future[c] :
       LET refused == m.op = "connect" /\ r.status # "Ok" IN
       /\ promises' = [promises EXCEPT ![c][m.messageId] = "none"]
       /\ clientId' = IF m.op = "connect"
                        THEN [clientId EXCEPT ![c] = r.clientId] ELSE clientId
       /\ attached' = IF refused THEN [attached EXCEPT ![c] = 0] ELSE attached
       /\ queueOpen' = IF refused THEN [queueOpen EXCEPT ![c] = FALSE] ELSE queueOpen
       /\ caller' = [caller EXCEPT ![c] = IF m.op = "disconnect" THEN "join" ELSE "idle"]
  /\ call' = [call EXCEPT ![c] = {}]
  /\ future' = [future EXCEPT ![c] = {}]
  /\ UNCHANGED <<serverVars, serverQueue, replies, conn, receiver, serial>>

(* future.get throws broken_promise. *)
ReturnBroken(c) ==
  /\ caller[c] = "broken"
  /\ caller' = [caller EXCEPT ![c] = "idle"]
  /\ call' = [call EXCEPT ![c] = {}]
  /\ UNCHANGED <<serverVars, serverQueue, replies, attached, conn, queueOpen,
                 clientId, receiver, promises, future, serial>>

(* The client's process dies; what it has sent remains. *)
ClientDies(c) ==
  /\ attached[c] # 0
  /\ caller' = [caller EXCEPT ![c] = "idle"]
  /\ call' = [call EXCEPT ![c] = {}]
  /\ attached' = [attached EXCEPT ![c] = 0]
  /\ queueOpen' = [queueOpen EXCEPT ![c] = FALSE]
  /\ clientId' = [clientId EXCEPT ![c] = 0]
  /\ receiver' = [receiver EXCEPT ![c] = "off"]
  /\ promises' = [promises EXCEPT ![c] = [m \in Ids |-> "none"]]
  /\ future' = [future EXCEPT ![c] = {}]
  /\ UNCHANGED <<serverVars, serverQueue, replies, conn, serial>>

ServerThread == CreateQueue \/ Stop \/ Handle \/ SendReply
ClientThreads(c) ==
  \/ ReceiverStarts(c) \/ Receive(c) \/ ReceiverStops(c)
  \/ Send(c) \/ Return(c) \/ ReturnBroken(c)

Next ==
  \/ Start \/ Shutdown \/ ServerDies
  \/ ServerThread
  \/ \E c \in Client :
       \/ ClientThreads(c)
       \/ Connect(c) \/ ClientDies(c)
       \/ \E op \in {"disconnect", "ping", "request"} : Modal(c, op)
       \/ "silent" \in Posts /\ \E op \in {"ping", "request"} : NonModal(c, op, 0)
       \/ "reply" \in Posts /\ \E m \in Drawn(c) : NonModal(c, "ping", m)

(* Threads that run go on running. *)
Fairness ==
  /\ WF_vars(ServerThread)
  /\ \A c \in Client :
       /\ WF_vars(Receive(c)) /\ WF_vars(ReceiverStarts(c))
       /\ WF_vars(ReceiverStops(c))
       /\ SF_vars(Send(c)) /\ WF_vars(Return(c)) /\ WF_vars(ReturnBroken(c))

Spec == Init /\ [][Next]_vars /\ Fairness

-----------------------------------------------------------------------------
ServerPc == {"off", "starting", "receiving", "sending"}
CallerPc == {"idle", "send", "send broken", "post", "wait", "broken", "join"}

ServerTypeOK ==
  /\ server \in ServerPc /\ stopFlag \in BOOLEAN
  /\ epoch \in 0..MaxStarts /\ queueExists \in BOOLEAN
  /\ DOMAIN endpoints \subseteq 1..nextId - 1 /\ Range(endpoints) \subseteq Queue
  /\ nextId \in Nat \ {0}
  /\ outbox \subseteq [to : DOMAIN endpoints, reply : Reply]
  /\ (server = "sending") <=> (outbox # {})

QueuesTypeOK ==
  /\ serverQueue \in Seq(Message) /\ Len(serverQueue) <= QueueSize
  /\ replies \in [Queue -> Seq(Reply)]
  /\ \A q \in Queue : Len(replies[q]) <= QueueSize

ClientsTypeOK ==
  /\ caller \in [Client -> CallerPc] /\ call \in [Client -> SUBSET Message]
  /\ attached \in [Client -> 0..MaxStarts] /\ conn \in [Client -> 0..MaxConnects]
  /\ queueOpen \in [Client -> BOOLEAN] /\ clientId \in [Client -> Nat]
  /\ receiver \in [Client -> {"off", "starting", "running"}]
  /\ promises \in [Client -> [Ids -> {"none", "invalid", "valid", "set"}]]
  /\ future \in [Client -> SUBSET Reply] /\ serial \in [Client -> 0..2]

(* Every variable has a value of its type, the queues keep to their bound,
   and the server blocks in a send only for a client it knows (sendReply). *)
TypeOK == ServerTypeOK /\ QueuesTypeOK /\ ClientsTypeOK

(* What a modal call returns is the reply to its own request: of its kind,
   sent on this connection, by this call; although message ids are random,
   clients die and connect again, and so does the server (_ipcPromiseMap,
   and the removal of the old queue in _ipcThreadFunc). *)
AnswersOwnCall ==
  \A c \in Client : \A m \in call[c], r \in future[c] :
    r.op = m.op /\ r.from = m.from /\ r.serial = m.serial

(* The receiver thread never runs without its queue, which connect, when
   refused, deletes without stopping the thread: it is safe only because the
   refusal is never delivered (vrmotioncompensation.cpp:140-157). *)
ReceiverHasQueue == \A c \in Client : receiver[c] # "off" => queueOpen[c]

(* While the server a client is connected to runs, it knows the client by
   its id and queue, so that no request can go unanswered for want of an
   endpoint (_ipcEndpoints and m_clientId). *)
ConnectedIsKnown ==
  \A c \in Client :
    /\ attached[c] = epoch /\ server \in {"receiving", "sending"}
    /\ caller[c] \in {"idle", "post"} \/ \E m \in call[c] : m.op \in {"ping", "request"}
    => clientId[c] \in DOMAIN endpoints /\ endpoints[clientId[c]] = ThisQueue(c)

(* When the reply to its disconnection is there, a client has had every
   other reply too: none is left in the queue it is about to delete, and
   nobody's promise remains (disconnect; the queues are first in, first
   out). *)
NothingLeftBehind ==
  \A c \in Client : caller[c] = "join" =>
    /\ replies[ThisQueue(c)] = <<>>
    /\ \A m \in Ids : promises[c][m] = "none"

(* A modal call of a client of the right version returns, unless the client
   dies or the server it is attached to stops or dies. *)
Served(c) == attached[c] = epoch /\ server \in {"receiving", "sending"} /\ ~stopFlag
Ends(c) == caller[c] = "wait" ~> caller[c] # "wait" \/ ~Served(c)
CallEnds == \A c \in Client \ Outdated : Ends(c)

(* "Wait for response" (vrmotioncompensation.cpp:133), which for a client of
   another version is to be an exception with the two versions. *)
RefusalIsReported == \A c \in Outdated : Ends(c)
=============================================================================
