------------------------------ MODULE Mailbox ------------------------------
(***************************************************************************)
(* What the UDP link promises to the driver's frame loop: a mailbox with   *)
(* one slot.  Storing a message overwrites the one before; a read hands    *)
(* out the message in the slot.  A read that races with the receiver may   *)
(* leave the slot pending, so that the message is handed out once more,    *)
(* but the slot stops being pending only when its message was handed out.  *)
(***************************************************************************)

CONSTANTS Message, Empty

VARIABLES box,      \* the message in the slot
          pending,  \* the slot holds something the reader has still to take
          seen      \* the last whole message handed out

vars == <<box, pending, seen>>

Init ==
  /\ box = Empty
  /\ pending = FALSE
  /\ seen = Empty

Store(m) ==
  /\ box' = m
  /\ pending' = TRUE
  /\ UNCHANGED seen

Read ==
  /\ pending
  /\ seen' = box
  /\ pending' \in BOOLEAN
  /\ UNCHANGED box

Next == Read \/ \E m \in Message : Store(m)

Spec == Init /\ [][Next]_vars

-----------------------------------------------------------------------------
(***************************************************************************)
(* A message that is no longer pending was handed out: the slot is never   *)
(* marked as read while it holds a message nobody has seen.                *)
(***************************************************************************)
NothingLost == ~pending => seen = box
=============================================================================
