------------------------------ MODULE MCIpcShm ------------------------------
(* Overlays of this version, and one of an older version. *)
EXTENDS IpcShm

CONSTANTS old, new, newer
=============================================================================
