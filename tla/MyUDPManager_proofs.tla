------------------------ MODULE MyUDPManager_proofs ------------------------
(***************************************************************************)
(* Proofs about the UDP link, for any number of datagrams and any size of  *)
(* the socket buffer.                                                      *)
(***************************************************************************)
EXTENDS MyUDPManager, TLAPS

(***************************************************************************)
(* Datagrams move from the network through the socket and recv_buffer to   *)
(* lastMessage and seen in the order in which they arrived.                *)
(***************************************************************************)
InOrder ==
  /\ \A i \in 1 .. Len(socket) : recv_buffer < socket[i] /\ socket[i] <= arrived
  /\ \A i, j \in 1 .. Len(socket) : i < j => socket[i] < socket[j]
  /\ recv_buffer <= arrived
  /\ seen <= lastMessage
  /\ IF receiver = "assigning"
     THEN lastMessage < recv_buffer
     ELSE lastMessage = recv_buffer

(***************************************************************************)
(* What the two threads know about the flag at each of their steps.        *)
(***************************************************************************)
FlagProtocol ==
  /\ reader = "clearing" => messageAvail
  /\ reader = "copying" /\ receiver = "assigning" => overlapped
  /\ reader = "copying" /\ overlapped
       => messageAvail \/ receiver \in {"assigning", "assigned"}
  /\ ~pending => seen = lastMessage

(***************************************************************************)
(* The reads that can still return lastMessage as it is now: one for the   *)
(* flag, one for a flag about to be raised, one for a read under way.      *)
(***************************************************************************)
ReadsLeft ==
  (IF messageAvail THEN 1 ELSE 0)
    + (IF receiver = "assigned" THEN 1 ELSE 0)
    + (IF reader \in {"cleared", "copying"} THEN 1 ELSE 0)

Budget == seen = lastMessage => copies + ReadsLeft <= 3

IInv == TypeOK /\ InOrder /\ FlagProtocol

(***************************************************************************)
(* Type correctness of the UDP link (receiver thread and getLastMessage).  *)
(***************************************************************************)
THEOREM TypeCorrect == Spec => []TypeOK
<1> USE MaxDatagramsAssumption DEF TypeOK, Datagram, NoMessage, ReceiverState,
                                   receiverVars, readerVars, Alive
<1>1. Init => TypeOK
  <2> SUFFICES ASSUME Init PROVE TypeOK
    OBVIOUS
  <2>1. socket \in Seq(Datagram)
    BY DEF Init
  <2>2. /\ 0 \in 0 .. MaxDatagrams
        /\ 0 \in Nat
    OBVIOUS
  <2>3. QED
    BY <2>1, <2>2 DEF Init
<1>2. TypeOK /\ [Next]_vars => TypeOK'
  <2> SUFFICES ASSUME TypeOK, [Next]_vars PROVE TypeOK'
    OBVIOUS
  <2>1. CASE Arrive
    BY <2>1 DEF Arrive
  <2>2. CASE Open
    BY <2>2 DEF Open
  <2>3. CASE OpenFails
    BY <2>3 DEF OpenFails
  <2>4. CASE BeginAssign
    <3>1. Head(socket) \in Datagram /\ Tail(socket) \in Seq(Datagram)
      BY <2>4 DEF BeginAssign
    <3>2. QED
      BY <2>4, <3>1 DEF BeginAssign
  <2>5. CASE EndAssign
    BY <2>5 DEF EndAssign
  <2>6. CASE SetFlag
    BY <2>6 DEF SetFlag
  <2>7. CASE ReceiveError
    BY <2>7 DEF ReceiveError
  <2>8. CASE CheckFlag
    BY <2>8 DEF CheckFlag
  <2>9. CASE ClearFlag
    BY <2>9 DEF ClearFlag
  <2>10. CASE BeginCopy
    BY <2>10 DEF BeginCopy
  <2>11. CASE ReturnMessage
    <3>1. CASE overlapped
      BY <2>11, <3>1 DEF ReturnMessage
    <3>2. CASE ~overlapped
      <4>1. returned' \in 0 .. MaxDatagrams
        BY <2>11, <3>2 DEF ReturnMessage
      <4>2. seen' \in 0 .. MaxDatagrams /\ copies' \in Nat
        BY <2>11, <3>2 DEF ReturnMessage
      <4>3. QED
        BY <2>11, <4>1, <4>2 DEF ReturnMessage
    <3>3. QED
      BY <3>1, <3>2
  <2>12. CASE UNCHANGED vars
    BY <2>12 DEF vars
  <2> QED
    BY <2>1, <2>2, <2>3, <2>4, <2>5, <2>6, <2>7, <2>8, <2>9, <2>10, <2>11,
       <2>12
    DEF Next, Receiver, HandleReceive, GetLastMessage
<1>3. QED
  BY <1>1, <1>2, PTL DEF Spec

(***************************************************************************)
(* The order of the datagrams and the flag protocol are inductive.         *)
(***************************************************************************)
LEMMA InitIInv == Init => InOrder /\ FlagProtocol
  BY DEF Init, InOrder, FlagProtocol, pending, NoMessage

LEMMA InOrderStep == TypeOK /\ InOrder /\ FlagProtocol /\ [Next]_vars => InOrder'
<1> SUFFICES ASSUME TypeOK, InOrder, FlagProtocol, [Next]_vars PROVE InOrder'
  OBVIOUS
<1> USE MaxDatagramsAssumption DEF TypeOK, InOrder, Datagram, receiverVars, readerVars
<1>1. CASE Arrive
  <2>1. CASE UNCHANGED socket
    BY <1>1, <2>1 DEF Arrive
  <2>2. CASE socket' = Append(socket, arrived + 1)
    <3>1. /\ Len(socket') = Len(socket) + 1
          /\ socket'[Len(socket) + 1] = arrived + 1
          /\ \A i \in 1 .. Len(socket) : socket'[i] = socket[i]
      BY <2>2
    <3>2. \A i \in 1 .. Len(socket') :
            recv_buffer < socket'[i] /\ socket'[i] <= arrived + 1
      BY <3>1
    <3>3. \A i, j \in 1 .. Len(socket') : i < j => socket'[i] < socket'[j]
      BY <3>1
    <3>4. QED
      BY <1>1, <3>2, <3>3 DEF Arrive
  <2>3. QED
    BY <1>1, <2>1, <2>2 DEF Arrive
<1>2. CASE BeginAssign
  <2>1. /\ Head(socket) = socket[1]
        /\ Len(Tail(socket)) = Len(socket) - 1
        /\ \A i \in 1 .. Len(Tail(socket)) : Tail(socket)[i] = socket[i + 1]
    BY <1>2 DEF BeginAssign
  <2>2. 1 \in 1 .. Len(socket)
    BY <1>2 DEF BeginAssign
  <2>3. \A i \in 1 .. Len(Tail(socket)) :
          Head(socket) < Tail(socket)[i] /\ Tail(socket)[i] <= arrived
    BY <2>1, <2>2
  <2>4. \A i, j \in 1 .. Len(Tail(socket)) :
          i < j => Tail(socket)[i] < Tail(socket)[j]
    BY <2>1
  <2>5. QED
    BY <1>2, <2>1, <2>2, <2>3, <2>4 DEF BeginAssign
<1>3. CASE ReceiveError
  <2>1. CASE UNCHANGED socket
    BY <1>3, <2>1 DEF ReceiveError
  <2>2. CASE socket # <<>> /\ socket' = Tail(socket)
    <3>1. /\ Len(Tail(socket)) = Len(socket) - 1
          /\ \A i \in 1 .. Len(Tail(socket)) : Tail(socket)[i] = socket[i + 1]
      BY <2>2
    <3>2. /\ \A i \in 1 .. Len(socket') :
               recv_buffer < socket'[i] /\ socket'[i] <= arrived
          /\ \A i, j \in 1 .. Len(socket') : i < j => socket'[i] < socket'[j]
      BY <2>2, <3>1
    <3>3. QED
      BY <1>3, <3>2 DEF ReceiveError
  <2>3. QED
    BY <1>3, <2>1, <2>2 DEF ReceiveError
<1>4. CASE Open \/ OpenFails
  BY <1>4 DEF Open, OpenFails
<1>5. CASE EndAssign
  BY <1>5 DEF EndAssign
<1>6. CASE SetFlag
  BY <1>6 DEF SetFlag
<1>7. CASE CheckFlag \/ ClearFlag \/ BeginCopy
  BY <1>7 DEF CheckFlag, ClearFlag, BeginCopy
<1>8. CASE ReturnMessage
  BY <1>8 DEF ReturnMessage
<1>9. CASE UNCHANGED vars
  BY <1>9 DEF vars
<1>10. QED
  BY <1>1, <1>2, <1>3, <1>4, <1>5, <1>6, <1>7, <1>8, <1>9
  DEF Next, Receiver, HandleReceive, GetLastMessage

LEMMA FlagProtocolStep ==
  TypeOK /\ FlagProtocol /\ [Next]_vars => FlagProtocol'
<1> SUFFICES ASSUME TypeOK, FlagProtocol, [Next]_vars PROVE FlagProtocol'
  OBVIOUS
<1> USE DEF TypeOK, FlagProtocol, pending, receiverVars, readerVars
<1>1. CASE Arrive
  BY <1>1 DEF Arrive
<1>2. CASE Open \/ OpenFails \/ ReceiveError
  BY <1>2 DEF Open, OpenFails, ReceiveError
<1>3. CASE BeginAssign
  BY <1>3 DEF BeginAssign
<1>4. CASE EndAssign
  BY <1>4 DEF EndAssign
<1>5. CASE SetFlag
  BY <1>5 DEF SetFlag
<1>6. CASE CheckFlag
  BY <1>6 DEF CheckFlag
<1>7. CASE ClearFlag
  BY <1>7 DEF ClearFlag
<1>8. CASE BeginCopy
  BY <1>8 DEF BeginCopy
<1>9. CASE ReturnMessage
  BY <1>9 DEF ReturnMessage
<1>10. CASE UNCHANGED vars
  BY <1>10 DEF vars
<1>11. QED
  BY <1>1, <1>2, <1>3, <1>4, <1>5, <1>6, <1>7, <1>8, <1>9, <1>10
  DEF Next, Receiver, HandleReceive, GetLastMessage

(* What is in socket, buffer and slot is in the order of its sending, and what
   is behind the reader has been seen, whatever receiver and reader do. *)
THEOREM Invariance == Spec => []IInv
<1>1. Init => InOrder /\ FlagProtocol
  BY InitIInv
<1>2. TypeOK /\ InOrder /\ FlagProtocol /\ [Next]_vars
        => (InOrder /\ FlagProtocol)'
  BY InOrderStep, FlagProtocolStep
<1>3. QED
  BY <1>1, <1>2, TypeCorrect, PTL DEF Spec, IInv

(***************************************************************************)
(* No update is lost between the receiver thread and getLastMessage().     *)
(***************************************************************************)
THEOREM UpdatesNotLost == Spec => []NoLostUpdate
<1>1. IInv => NoLostUpdate
  BY DEF IInv, FlagProtocol, NoLostUpdate
<1>2. QED
  BY <1>1, Invariance, PTL

(***************************************************************************)
(* getLastMessage() never returns an older datagram after a newer one.     *)
(***************************************************************************)
THEOREM ReadsInOrder == Spec => NeverGoesBack
<1>1. IInv /\ [Next]_vars => [seen' >= seen]_vars
  <2> SUFFICES ASSUME IInv, Next PROVE seen' >= seen
    BY DEF vars
  <2> USE DEF IInv, TypeOK, InOrder, receiverVars, readerVars
  <2>1. CASE ReturnMessage
    BY <2>1 DEF ReturnMessage
  <2>2. CASE CheckFlag \/ ClearFlag \/ BeginCopy
    BY <2>2 DEF CheckFlag, ClearFlag, BeginCopy
  <2>3. CASE Arrive \/ Receiver
    BY <2>3 DEF Arrive, Receiver, Open, OpenFails, HandleReceive, BeginAssign,
                EndAssign, SetFlag, ReceiveError
  <2>4. QED
    BY <2>1, <2>2, <2>3 DEF Next, GetLastMessage
<1>2. QED
  BY <1>1, Invariance, PTL DEF Spec, NeverGoesBack

(***************************************************************************)
(* Every datagram is returned at most three times.  The invariant counts   *)
(* the reads that can still return it against those that did.              *)
(***************************************************************************)
LEMMA BudgetStep ==
  /\ IInv /\ Budget /\ BoundedRedelivery
  /\ [Next]_vars
  => Budget' /\ BoundedRedelivery'
<1> SUFFICES ASSUME IInv, Budget, BoundedRedelivery, [Next]_vars
             PROVE  Budget' /\ BoundedRedelivery'
  OBVIOUS
<1> USE DEF IInv, TypeOK, InOrder, FlagProtocol, Budget, BoundedRedelivery,
            ReadsLeft, receiverVars, readerVars
<1>1. CASE Arrive
  BY <1>1 DEF Arrive
<1>2. CASE Open \/ OpenFails \/ ReceiveError
  BY <1>2 DEF Open, OpenFails, ReceiveError
<1>3. CASE BeginAssign
  BY <1>3 DEF BeginAssign
<1>4. CASE EndAssign
  BY <1>4 DEF EndAssign
<1>5. CASE SetFlag
  BY <1>5 DEF SetFlag
<1>6. CASE CheckFlag
  BY <1>6 DEF CheckFlag
<1>7. CASE ClearFlag
  BY <1>7 DEF ClearFlag
<1>8. CASE BeginCopy
  BY <1>8 DEF BeginCopy
<1>9. CASE ReturnMessage
  BY <1>9 DEF ReturnMessage
<1>10. CASE UNCHANGED vars
  BY <1>10 DEF vars
<1>11. QED
  BY <1>1, <1>2, <1>3, <1>4, <1>5, <1>6, <1>7, <1>8, <1>9, <1>10
  DEF Next, Receiver, HandleReceive, GetLastMessage

(* getLastMessage hands out no message more than BoundedRedelivery allows,
   although flag and message are written without a lock. *)
THEOREM RedeliveryBounded == Spec => []BoundedRedelivery
<1>1. Init => Budget /\ BoundedRedelivery
  BY DEF Init, Budget, BoundedRedelivery, ReadsLeft
<1>2. QED
  BY <1>1, BudgetStep, Invariance, PTL DEF Spec

(***************************************************************************)
(* The protocol implements the one-slot mailbox: beginning an assignment   *)
(* is Store, a copy that nothing overlapped is Read, every other step      *)
(* leaves the mailbox as it is.                                            *)
(***************************************************************************)
LEMMA MailboxStep == IInv /\ IInv' /\ [Next]_vars => [M!Next]_(M!vars)
<1> SUFFICES ASSUME IInv, IInv', [Next]_vars PROVE [M!Next]_(M!vars)
  OBVIOUS
<1> USE DEF IInv, TypeOK, FlagProtocol, M!vars, box, pending, receiverVars,
            readerVars
<1>1. CASE Arrive
  BY <1>1 DEF Arrive
<1>2. CASE Open \/ OpenFails \/ ReceiveError
  BY <1>2 DEF Open, OpenFails, ReceiveError
<1>3. CASE BeginAssign
  <2>1. Head(socket) \in Datagram
    BY <1>3 DEF BeginAssign
  <2>2. M!Store(Head(socket))
    BY <1>3 DEF BeginAssign, M!Store
  <2>3. QED
    BY <2>1, <2>2 DEF M!Next
<1>4. CASE EndAssign
  BY <1>4 DEF EndAssign
<1>5. CASE SetFlag
  BY <1>5 DEF SetFlag
<1>6. CASE CheckFlag
  BY <1>6 DEF CheckFlag
<1>7. CASE ClearFlag
  BY <1>7 DEF ClearFlag
<1>8. CASE BeginCopy
  BY <1>8 DEF BeginCopy
<1>9. CASE ReturnMessage
  <2>1. CASE overlapped
    BY <1>9, <2>1 DEF ReturnMessage
  <2>2. CASE ~overlapped
    <3>1. box = lastMessage /\ pending
      BY <1>9, <2>2 DEF ReturnMessage
    <3>2. M!Read
      BY <1>9, <2>2, <3>1 DEF ReturnMessage, M!Read
    <3>3. QED
      BY <3>2 DEF M!Next
  <2>3. QED
    BY <2>1, <2>2
<1>10. CASE UNCHANGED vars
  BY <1>10 DEF vars
<1>11. QED
  BY <1>1, <1>2, <1>3, <1>4, <1>5, <1>6, <1>7, <1>8, <1>9, <1>10
  DEF Next, Receiver, HandleReceive, GetLastMessage

(* The link implements Mailbox: each access to flag or message is a step of
   the mailbox or none. *)
THEOREM Refinement == Spec => ImplementsMailbox
<1>1. Init => M!Init
  BY DEF Init, M!Init, box, pending, NoMessage
<1>2. QED
  BY <1>1, MailboxStep, Invariance, PTL DEF Spec, ImplementsMailbox, M!Spec
=============================================================================
