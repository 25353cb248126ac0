----------------------------- MODULE MCIpcSystem ----------------------------
(***************************************************************************)
(* One app and one engine, with room for few handshakes.                   *)
(***************************************************************************)
EXTENDS IpcSystem
=============================================================================
