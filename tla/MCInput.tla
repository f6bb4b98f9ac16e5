------------------------------ MODULE MCInput ------------------------------
(* A small instance of InputManager for TLC; MCInput.cfg gives the values.  *)
EXTENDS InputManager
=============================================================================
