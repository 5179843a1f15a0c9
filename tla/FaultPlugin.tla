---------------------------- MODULE FaultPlugin ----------------------------
(***************************************************************************)
(* What the agent may believe of any fault plugin: one command at a time,  *)
(* an effect on the host at some moment of its run, and an exit code that  *)
(* does not lie about it.  PluginGate shows that the reference plugin,     *)
(* run by the agent, implements this specification; Supervisor assumes it. *)
(***************************************************************************)
EXTENDS InstanceMachine

VARIABLES
  live,     \* is the fault in effect on the host?
  running,  \* the command under way, or None
  said      \* <<command, disposition>> of the last command that exited

NothingSaid == <<None, None>>   \* nothing yet, or the command was killed

vars == <<live, running, said>>

Init ==
  /\ live = FALSE
  /\ running = None
  /\ said = NothingSaid

Begin(command) ==
  /\ running = None
  /\ running' = command
  /\ said' = NothingSaid
  /\ UNCHANGED live

Act ==
  /\ \/ running = "Inject" /\ live' = TRUE
     \/ running \in {"Abort", "Cleanup"} /\ live' = FALSE
  /\ UNCHANGED <<running, said>>

(* Exit 0 of inject means the fault is in effect; exit 20 of inject and     *)
(* exit 0 of a recovery command mean that it is not.                        *)
Truthful(command, disposition) ==
  /\ command = "Inject" /\ disposition = "Success" => live
  /\ command = "Inject" /\ disposition = "InjectFailed" => ~live
  /\ command \in {"Abort", "Cleanup"} /\ disposition = "Success" => ~live

Exit(disposition) ==
  /\ running # None
  /\ Truthful(running, disposition)
  /\ running' = None
  /\ said' = <<running, disposition>>
  /\ UNCHANGED live

(* Killed: nothing is said of the host.                                     *)
Break ==
  /\ running # None
  /\ running' = None
  /\ said' = NothingSaid
  /\ UNCHANGED live

Next ==
  \/ \E command \in Command : Begin(command)
  \/ Act
  \/ \E disposition \in Disposition : Exit(disposition)
  \/ Break

Spec == Init /\ [][Next]_vars
=============================================================================
