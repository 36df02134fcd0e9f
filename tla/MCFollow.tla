------------------------------ MODULE MCFollow ------------------------------
(* A small instance of Follow for TLC. *)
EXTENDS Follow
=============================================================================
