------------------------------ MODULE MCConsole ------------------------------
(***************************************************************************)
(* An instance of Console for TLC.                                         *)
(***************************************************************************)
EXTENDS Console

TickNames == <<"p01", "p02", "p03", "p04", "p05", "p06", "p07">>
==============================================================================
