---------------------------- MODULE MCOipesToken ----------------------------
(* A small instance of OipesToken; MCOipesToken.cfg gives the values.        *)
EXTENDS OipesToken
=============================================================================
