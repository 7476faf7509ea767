--------------------------- MODULE MCMyUDPManager ---------------------------
(***************************************************************************)
(* The UDP link with five datagrams and a socket that buffers two.  Three  *)
(* datagrams are the fewest that let one be returned three times; two more *)
(* overwrite it unread, and a full socket drops one.                       *)
(***************************************************************************)
EXTENDS MyUDPManager
=============================================================================
