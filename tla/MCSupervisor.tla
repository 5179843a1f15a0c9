---------------------------- MODULE MCSupervisor ----------------------------
(***************************************************************************)
(* TLC instances of Supervisor.  Ids are model values; the two-instance    *)
(* runs that check safety only are symmetric in them.                      *)
(***************************************************************************)
EXTENDS SupervisorInvariant, TLC

IdSymmetry == Permutations(Instance)
=============================================================================
