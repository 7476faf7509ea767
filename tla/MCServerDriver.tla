--------------------------- MODULE MCServerDriver ---------------------------
(***************************************************************************)
(* The driver under the GUI with two interactions, two positions of the    *)
(* sliders, one command button pressed and a pose of every device.         *)
(***************************************************************************)
EXTENDS ServerDriver
=============================================================================
