----------------------------- MODULE MCSystemUI -----------------------------
(* A small instance of SystemUI for TLC; MCSystemUI.cfg gives the values.    *)
EXTENDS SystemUI
=============================================================================
