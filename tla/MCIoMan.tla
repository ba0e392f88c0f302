------------------------------ MODULE MCIoMan ------------------------------
(* IoMan for TLC. *)
EXTENDS IoMan
=============================================================================
