------------------------------ MODULE MCIT8951 ------------------------------
(* Instance of IT8951 for TLC.                                             *)
EXTENDS IT8951
=============================================================================
