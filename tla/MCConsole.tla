----------------------------- MODULE MCConsole ------------------------------
(***************************************************************************)
(* TLC instance of Console: one experiment with one instance, on the first *)
(* of the hosts.                                                           *)
(***************************************************************************)
EXTENDS Console

CONSTANTS h1

OneInstance == <<h1>>
=============================================================================
