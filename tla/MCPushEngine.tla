---------------------------- MODULE MCPushEngine ----------------------------
(***************************************************************************)
(* PushEngine on small instances.                                          *)
(***************************************************************************)
EXTENDS PushEngine
=============================================================================
