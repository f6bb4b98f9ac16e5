------------------------------ MODULE MCGuard ------------------------------
(* A small instance of Guard for TLC; MCGuard.cfg gives the values.         *)
EXTENDS Guard
=============================================================================
