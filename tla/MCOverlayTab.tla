----------------------------- MODULE MCOverlayTab -----------------------------
(* Two keys of different numbers, as Windows knows them: the code of the key
   XOR its modifiers. *)
EXTENDS OverlayTab, TLC

CONSTANTS k1, k2

Keys == {k1, k2}
Numbers == (k1 :> 67) @@ (k2 :> 68)
=============================================================================
