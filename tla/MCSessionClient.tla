--------------------------- MODULE MCSessionClient --------------------------
(***************************************************************************)
(* The client against any peer: up to four requests over any number of     *)
(* connections, two unread frames, two interleaved callbacks.              *)
(***************************************************************************)
EXTENDS SessionClient
=============================================================================
