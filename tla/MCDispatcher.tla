---------------------------- MODULE MCDispatcher ----------------------------
(***************************************************************************)
(* TLC instances of Dispatcher: which hosts each experiment targets.       *)
(***************************************************************************)
EXTENDS Dispatcher

CONSTANTS h1, h2

(* One instance on each of two hosts.                                       *)
TwoHosts == [e \in Experiment |-> <<h1, h2>>]

(* Every experiment runs one instance on the same host.                     *)
SharedHost == [e \in Experiment |-> <<h1>>]
=============================================================================
