------------------------------ MODULE MCUdpFs ------------------------------
(* Instances of UdpFs for TLC.                                             *)
EXTENDS UdpFs
=============================================================================
