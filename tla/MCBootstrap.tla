----------------------------- MODULE MCBootstrap ------------------------------
(* Three instances for TLC. *)
EXTENDS Bootstrap

CONSTANTS i1, i2, i3
=============================================================================
