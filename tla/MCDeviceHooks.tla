--------------------------- MODULE MCDeviceHooks ---------------------------
(***************************************************************************)
(* Two controllers of one class, and two host interfaces, the older        *)
(* forwarding to the newer.                                                *)
(***************************************************************************)
EXTENDS DeviceHooks

CONSTANTS d1, d2, c1

MCClassOf == [d \in Device |-> c1]
MCForward == [h \in Host |-> IF h + 1 \in Host THEN h + 1 ELSE 0]
MCEntryHost == [d \in Device |-> IF d = d1 THEN 4 ELSE 5]
=============================================================================
