---------------------------- MODULE MyUDPManager ----------------------------
(***************************************************************************)
(* The UDP link from the GUI: a receiver thread that runs boost::asio's    *)
(* event loop and stores each datagram in lastMessage, and the server's    *)
(* main thread, which polls it with getLastMessage() once per frame.  The  *)
(* two share lastMessage and messageAvail without any lock, so both sides  *)
(* are modelled one memory access at a time.                               *)
(*                                                                         *)
(* A datagram is its place in the order of arrival; 0 is the empty string  *)
(* (no message).  Assigning lastMessage and copying it both take time; a   *)
(* copy that overlaps an assignment is a data race, and what it returns is *)
(* neither datagram for sure: Torn.  What RunFrame() makes of it is open:   *)
(* json::parse() throws, which ends the server with both threads, or the   *)
(* string happens to be accepted.  Apart from that the accesses are taken  *)
(* one after another: messageAvail is a plain bool, and that each thread   *)
(* sees the other's writes in order is assumed of the build.               *)
(***************************************************************************)
EXTENDS Naturals, Sequences

CONSTANTS MaxDatagrams,    \* bound: datagrams that arrive in a behaviour
          SocketCapacity,  \* datagrams the operating system buffers
          Torn             \* what a copy that raced with an assignment yields

ASSUME MaxDatagramsAssumption == MaxDatagrams \in Nat
ASSUME SocketCapacityAssumption == SocketCapacity \in Nat
ASSUME TornAssumption == Torn \notin Nat

VARIABLES arrived,       \* datagrams that have reached this machine
          socket,        \* those the operating system holds for the receiver
          receiver,      \* where the receiver thread is
          recv_buffer,   \* the datagram async_receive_from delivered last
          lastMessage,
          messageAvail,
          reader,        \* where the main thread is in getLastMessage()
          overlapped,    \* an assignment ran during the copy in progress
          returned,      \* what the last finished getLastMessage() returned
          seen,          \* the last whole datagram it returned
          copies         \* how often it returned that datagram

receiverVars == <<receiver, recv_buffer, lastMessage>>
readerVars == <<reader, returned, seen, copies>>
vars == <<arrived, socket, receiverVars, messageAvail, overlapped, readerVars>>

NoMessage == 0

Datagram == 1 .. MaxDatagrams

ReceiverState ==
  {"starting", "armed", "assigning", "assigned", "stopped", "terminated"}

Init ==
  /\ arrived = 0
  /\ socket = <<>>
  /\ receiver = "starting"
  /\ recv_buffer = NoMessage
  /\ lastMessage = NoMessage
  /\ messageAvail = FALSE
  /\ reader = "idle"
  /\ overlapped = FALSE
  /\ returned = NoMessage
  /\ seen = NoMessage
  /\ copies = 0

(* An exception that leaves either thread ends the process. *)
Alive == receiver # "terminated" /\ reader # "thrown"

-----------------------------------------------------------------------------
(* The network and the operating system *)

(* UDP may drop any datagram, and does so when the socket is not bound yet *)
(* or its buffer is full.                                                  *)
Arrive ==
  /\ arrived < MaxDatagrams
  /\ arrived' = arrived + 1
  /\ \/ /\ Alive /\ receiver # "starting"
        /\ Len(socket) < SocketCapacity
        /\ socket' = Append(socket, arrived + 1)
     \/ UNCHANGED socket
  /\ UNCHANGED <<receiverVars, messageAvail, overlapped, readerVars>>

-----------------------------------------------------------------------------
(* The receiver thread *)

(* Receiver(): opens and binds the socket, arms the first receive, enters  *)
(* the event loop.                                                         *)
Open ==
  /\ receiver = "starting"
  /\ receiver' = "armed"
  /\ UNCHANGED <<arrived, socket, recv_buffer, lastMessage, messageAvail,
                 overlapped, readerVars>>

(* socket.bind() throws (the port is taken); the exception leaves the      *)
(* thread function, which terminates the process.                          *)
OpenFails ==
  /\ receiver = "starting"
  /\ receiver' = "terminated"
  /\ UNCHANGED <<arrived, socket, recv_buffer, lastMessage, messageAvail,
                 overlapped, readerVars>>

(* Bug: two receives are outstanding and their handlers run in any order.  *)
BeginAssignOutOfOrder ==
  /\ Alive /\ receiver = "armed"
  /\ \E i \in DOMAIN socket :
       /\ recv_buffer' = socket[i]
       /\ socket' = [j \in 1 .. Len(socket) - 1 |->
                       IF j < i THEN socket[j] ELSE socket[j + 1]]
  /\ receiver' = "assigning"
  /\ overlapped' = (reader = "copying")
  /\ UNCHANGED <<arrived, lastMessage, messageAvail, readerVars>>

(* handle_receive() is called with a datagram and starts to assign it to   *)
(* lastMessage.                                                            *)
BeginAssign ==
  /\ Alive /\ receiver = "armed"
  /\ socket # <<>>
  /\ recv_buffer' = Head(socket)
  /\ socket' = Tail(socket)
  /\ receiver' = "assigning"
  /\ overlapped' = (reader = "copying")
  /\ UNCHANGED <<arrived, lastMessage, messageAvail, readerVars>>

(* Bug: the datagram is appended to lastMessage instead of replacing it.   *)
EndAssignByAppending ==
  /\ Alive /\ receiver = "assigning"
  /\ lastMessage' = lastMessage + recv_buffer
  /\ receiver' = "assigned"
  /\ UNCHANGED <<arrived, socket, recv_buffer, messageAvail, overlapped,
                 readerVars>>

(* Bug: a message that was not taken yet is kept.                          *)
EndAssignUnlessPending ==
  /\ Alive /\ receiver = "assigning"
  /\ lastMessage' = IF messageAvail THEN lastMessage ELSE recv_buffer
  /\ receiver' = "assigned"
  /\ UNCHANGED <<arrived, socket, recv_buffer, messageAvail, overlapped,
                 readerVars>>

EndAssign ==
  /\ Alive /\ receiver = "assigning"
  /\ lastMessage' = recv_buffer
  /\ receiver' = "assigned"
  /\ UNCHANGED <<arrived, socket, recv_buffer, messageAvail, overlapped,
                 readerVars>>

(* ... sets the flag and, count being positive, arms the next receive.     *)
SetFlag ==
  /\ Alive /\ receiver = "assigned"
  /\ messageAvail' = TRUE
  /\ receiver' = "armed"
  /\ UNCHANGED <<arrived, socket, recv_buffer, lastMessage, overlapped,
                 readerVars>>

(* handle_receive() is called with an error, for instance for a datagram   *)
(* longer than recv_buffer: it returns without arming the next receive,    *)
(* and the event loop runs out of work and returns.                        *)
ReceiveError ==
  /\ Alive /\ receiver = "armed"
  /\ \/ socket # <<>> /\ socket' = Tail(socket)
     \/ UNCHANGED socket
  /\ receiver' = "stopped"
  /\ UNCHANGED <<arrived, recv_buffer, lastMessage, messageAvail, overlapped,
                 readerVars>>

-----------------------------------------------------------------------------
(* getLastMessage(), called by the main thread once per frame *)

(* if (client.messageAvail) ... else return "";                            *)
CheckFlag ==
  /\ Alive /\ reader = "idle"
  /\ IF messageAvail
     THEN reader' = "clearing" /\ UNCHANGED returned
     ELSE returned' = NoMessage /\ UNCHANGED reader
  /\ UNCHANGED <<arrived, socket, receiverVars, messageAvail, overlapped,
                 seen, copies>>

(* Bug: the flag stays up when the message is taken.                       *)
ClearFlagForgotten ==
  /\ reader = "clearing"
  /\ reader' = "cleared"
  /\ UNCHANGED <<arrived, socket, receiverVars, messageAvail, overlapped,
                 returned, seen, copies>>

(* messageAvail = false;                                                   *)
ClearFlag ==
  /\ reader = "clearing"
  /\ messageAvail' = FALSE
  /\ reader' = "cleared"
  /\ UNCHANGED <<arrived, socket, receiverVars, overlapped, returned, seen,
                 copies>>

(* return client.lastMessage; -- the copy begins                           *)
BeginCopy ==
  /\ reader = "cleared"
  /\ reader' = "copying"
  /\ overlapped' = (receiver = "assigning")
  /\ UNCHANGED <<arrived, socket, receiverVars, messageAvail, returned, seen,
                 copies>>

(* Bug: the flag is lowered after the copy instead of before it.           *)
ReturnMessageThenClear ==
  /\ reader = "copying"
  /\ overlapped' = FALSE
  /\ messageAvail' = FALSE
  /\ IF overlapped
     THEN /\ returned' = Torn
          /\ reader' \in {"idle", "thrown"}
          /\ UNCHANGED <<seen, copies>>
     ELSE /\ returned' = lastMessage
          /\ reader' = "idle"
          /\ seen' = lastMessage
          /\ copies' = IF lastMessage = seen THEN copies + 1 ELSE 1
  /\ UNCHANGED <<arrived, socket, receiverVars>>

(* ... and ends; RunFrame() goes on with the message, and a torn one may   *)
(* make it throw.                                                          *)
ReturnMessage ==
  /\ reader = "copying"
  /\ overlapped' = FALSE
  /\ IF overlapped
     THEN /\ returned' = Torn
          /\ reader' \in {"idle", "thrown"}
          /\ UNCHANGED <<seen, copies>>
     ELSE /\ returned' = lastMessage
          /\ reader' = "idle"
          /\ seen' = lastMessage
          /\ copies' = IF lastMessage = seen THEN copies + 1 ELSE 1
  /\ UNCHANGED <<arrived, socket, receiverVars, messageAvail>>

-----------------------------------------------------------------------------
HandleReceive == BeginAssign \/ EndAssign \/ SetFlag

Receiver == Open \/ OpenFails \/ HandleReceive \/ ReceiveError

GetLastMessage == CheckFlag \/ ClearFlag \/ BeginCopy \/ ReturnMessage

Next == Arrive \/ Receiver \/ GetLastMessage

(***************************************************************************)
(* The event loop handles what has been delivered, and the server calls    *)
(* RunFrame(), hence getLastMessage(), for as long as it runs: until an    *)
(* exception ends it.  Nothing makes datagrams arrive and nothing forces a *)
(* receive error.                                                          *)
(***************************************************************************)
Fairness ==
  /\ WF_vars(HandleReceive)
  /\ WF_vars(GetLastMessage)

Spec == Init /\ [][Next]_vars

FairSpec == Spec /\ Fairness

-----------------------------------------------------------------------------
TypeOK ==
  /\ arrived \in 0 .. MaxDatagrams
  /\ socket \in Seq(Datagram)
  /\ receiver \in ReceiverState
  /\ recv_buffer \in 0 .. MaxDatagrams
  /\ lastMessage \in 0 .. MaxDatagrams
  /\ messageAvail \in BOOLEAN
  /\ reader \in {"idle", "clearing", "cleared", "copying", "thrown"}
  /\ overlapped \in BOOLEAN
  /\ returned \in (0 .. MaxDatagrams) \cup {Torn}
  /\ seen \in 0 .. MaxDatagrams
  /\ copies \in Nat

(***************************************************************************)
(* The refinement mapping.  A datagram counts as stored from the moment    *)
(* its assignment begins.  The slot is pending while the flag is up, while *)
(* the receiver is on its way to raise it, and while the reader, having    *)
(* lowered it, is still copying.                                           *)
(***************************************************************************)
box == IF receiver = "assigning" THEN recv_buffer ELSE lastMessage

pending ==
  \/ messageAvail
  \/ receiver \in {"assigning", "assigned"}
  \/ reader \in {"cleared", "copying"}

M == INSTANCE Mailbox WITH Message <- Datagram, Empty <- NoMessage

(* The unsynchronised flag-and-string protocol of MyUDPClient and          *)
(* getLastMessage() behaves as the one-slot mailbox.                       *)
ImplementsMailbox == M!Spec

(* No update is lost between the two threads: when the flag is down and    *)
(* neither thread is about to touch the slot, the message in it is the     *)
(* last one getLastMessage() returned.                                     *)
NoLostUpdate == ~pending => seen = lastMessage

(* The frame loop never sees an older datagram after a newer one.          *)
NeverGoesBack == [][seen' >= seen]_vars

(* Without a lock a datagram may be returned more than once (the flag of   *)
(* the datagram before it, and its own flag, may each be consumed after it *)
(* was assigned), but never more than three times: a command of the GUI is *)
(* executed in at most three frames.                                       *)
BoundedRedelivery == copies <= 3

(* What the receiver has stored reaches the frame loop, or something newer *)
(* does, even when the receiver has stopped since: unless a torn copy ends *)
(* the server first.                                                       *)
StoredIsDelivered ==
  \A m \in Datagram :
    (lastMessage >= m) ~> (seen >= m \/ reader = "thrown")

(* What the operating system holds is stored, unless a receive error has   *)
(* silenced the receiver for good or a torn copy has ended the server.     *)
QueuedIsStored ==
  \A m \in Datagram :
    (\E i \in DOMAIN socket : socket[i] = m)
      ~> (lastMessage >= m \/ receiver = "stopped" \/ reader = "thrown")
=============================================================================
