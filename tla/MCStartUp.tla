------------------------------ MODULE MCStartUp ------------------------------
(* StartUp on a small instance.                                             *)
EXTENDS StartUp
=============================================================================
