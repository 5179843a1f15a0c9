-------------------------- MODULE InstanceMachine --------------------------
(***************************************************************************)
(* The pure per-instance state machine of the agent, step(state, event) -> *)
(* (state, effects).  Constant-level operators only: the modules that run  *)
(* the machine (MachineAlone, Supervisor) own the variables.  Reasons and  *)
(* the install/runtime phase handed to a plugin are data no property tells *)
(* apart and are left out.                                                 *)
(***************************************************************************)
EXTENDS Sequences

None == "None"

StopCause == {"DurationElapsed", "OperatorAbort", "MasterLost", "Deadman"}
Command == {"Preflight", "Inject", "Abort", "Cleanup"}
Disposition == {"Success", "PreflightFailed", "InjectFailed", "RecoveryFailed", "Unexpected"}
Terminal == {"Done", "Aborted", "Error"}

(* The lifecycle state carried by an InstanceStatus frame. *)
WireState == {"Pending", "Preflight", "Injecting", "Active", "Recovering"} \cup Terminal

PreInject == {"Pending", "PreflightInstall", "PreflightRuntime", "WritingJournal"}
Kind == PreInject \cup {"Injecting", "Active", "Recovering"} \cup Terminal

(***************************************************************************)
(* A machine state.  stop belongs to the preflight, journal and inject     *)
(* states; current, remaining, outcome and retried to Recovering.          *)
(***************************************************************************)
MachineState ==
  {st \in [kind : Kind, stop : StopCause \cup {None},
           current : Command \cup {None}, remaining : {<< >>, <<"Cleanup">>},
           outcome : Terminal \cup {None}, retried : BOOLEAN] :
     st.kind = "Recovering" => st.current \in {"Abort", "Cleanup"} /\ st.outcome \in Terminal}

Plain(kind, stop) ==
  [kind |-> kind, stop |-> stop, current |-> None, remaining |-> << >>,
   outcome |-> None, retried |-> FALSE]

Recovering(current, remaining, outcome, retried) ==
  [kind |-> "Recovering", stop |-> None, current |-> current,
   remaining |-> remaining, outcome |-> outcome, retried |-> retried]

IsTerminal(st) == st.kind \in Terminal

InstanceState(st) == IF st.kind \in PreInject \ {"Pending"} THEN "Preflight" ELSE st.kind

(***************************************************************************)
(* Events and effects.                                                     *)
(***************************************************************************)
EventOf(type, command, disposition, cause) ==
  [type |-> type, command |-> command, disposition |-> disposition, cause |-> cause]

Plainly(type) == EventOf(type, None, None, None)
CommandFinished(c, d) == EventOf("CommandFinished", c, d, None)
InvocationFailed(c) == EventOf("InvocationFailed", c, None, None)
InvokeRejected(c) == EventOf("InvokeRejected", c, None, None)
StopRequested(c) == EventOf("StopRequested", None, None, c)

Event ==
  {Plainly(t) : t \in {"SetupOk", "SetupFailed", "JournalWritten", "JournalWriteFailed"}}
  \cup {CommandFinished(c, d) : c \in Command, d \in Disposition}
  \cup {InvocationFailed(c) : c \in Command}
  \cup {InvokeRejected(c) : c \in Command}
  \cup {StopRequested(c) : c \in StopCause}

EffectOf(type, state, command) == [type |-> type, state |-> state, command |-> command]

EmitStatus(s) == EffectOf("EmitStatus", s, None)
Invoke(c) == EffectOf("Invoke", None, c)
WriteJournal == EffectOf("WriteJournal", None, None)
RemoveJournal == EffectOf("RemoveJournal", None, None)
MarkTainted == EffectOf("MarkTainted", None, None)

Effect ==
  {EmitStatus(s) : s \in WireState} \cup {Invoke(c) : c \in Command}
  \cup {WriteJournal, RemoveJournal, MarkTainted}

-----------------------------------------------------------------------------
(***************************************************************************)
(* The transition function.                                                *)
(***************************************************************************)
Outcome(cause) ==
  CASE cause = "DurationElapsed" -> "Done"
    [] cause \in {"OperatorAbort", "MasterLost"} -> "Aborted"
    [] cause = "Deadman" -> "Error"

RecoverySteps(cause) ==
  IF cause = "DurationElapsed" THEN <<"Cleanup", << >> >> ELSE <<"Abort", <<"Cleanup">> >>

To(st, effects) == [state |-> st, effects |-> effects]
Ignore(st) == To(st, << >>)

(* Stopped before anything was journaled. *)
AbortedWith == To(Plain("Aborted", None), <<EmitStatus("Aborted")>>)

(* Stopped after the entry was written, with the host known to be untouched. *)
AbortedUnjournaled == To(Plain("Aborted", None), <<RemoveJournal, EmitStatus("Aborted")>>)

StartRecovery(cause) ==
  LET steps == RecoverySteps(cause)
  IN  To(Recovering(steps[1], steps[2], Outcome(cause), FALSE),
         <<EmitStatus("Recovering"), Invoke(steps[1])>>)

(* Mutant: replay begins without announcing it.                             *)
ReplayRecoverySilent(outcome) ==
  To(Recovering("Abort", <<"Cleanup">>, outcome, FALSE), <<Invoke("Abort")>>)

ReplayRecovery(outcome) ==
  To(Recovering("Abort", <<"Cleanup">>, outcome, FALSE),
     <<EmitStatus("Recovering"), Invoke("Abort")>>)

(* Mutant: the last stop wins.                                              *)
RecordStopLast(st, ev) == [st EXCEPT !.stop = ev.cause]

(* The first stop that arrives wins. *)
RecordStop(st, ev) == IF st.stop = None THEN [st EXCEPT !.stop = ev.cause] ELSE st

Succeeded(ev, c) ==
  ev.type = "CommandFinished" /\ ev.command = c /\ ev.disposition = "Success"

IsFailureOf(ev, c) ==
  /\ ev.type \in {"CommandFinished", "InvocationFailed", "InvokeRejected"}
  /\ ev.command = c
  /\ ~Succeeded(ev, c)

StepPending(st, ev) ==
  CASE ev.type = "SetupOk" ->
         To(Plain("PreflightInstall", None), <<EmitStatus("Preflight"), Invoke("Preflight")>>)
    [] ev.type \in {"SetupFailed", "StopRequested"} -> AbortedWith
    [] OTHER -> Ignore(st)

StepPreflight(st, ev) ==
  CASE ev.type = "StopRequested" -> Ignore(RecordStop(st, ev))
    [] Succeeded(ev, "Preflight") /\ st.stop # None -> AbortedWith
    [] Succeeded(ev, "Preflight") /\ st.stop = None /\ st.kind = "PreflightInstall" ->
         To(Plain("PreflightRuntime", None), <<Invoke("Preflight")>>)
    [] Succeeded(ev, "Preflight") /\ st.stop = None /\ st.kind = "PreflightRuntime" ->
         To(Plain("WritingJournal", None), <<WriteJournal>>)
    [] IsFailureOf(ev, "Preflight") -> AbortedWith
    [] OTHER -> Ignore(st)

(* Mutant: a stop that arrived during the write is forgotten.               *)
StepWritingJournalHasty(st, ev) ==
  CASE ev.type = "JournalWritten" ->
         To(Plain("Injecting", None), <<EmitStatus("Injecting"), Invoke("Inject")>>)
    [] ev.type = "JournalWriteFailed" -> AbortedWith
    [] OTHER -> Ignore(st)

(* Mutant: a failed write is absorbed like an out-of-band event.            *)
StepWritingJournalDeaf(st, ev) ==
  CASE ev.type = "StopRequested" -> Ignore(RecordStop(st, ev))
    [] ev.type = "JournalWritten" /\ st.stop # None -> AbortedUnjournaled
    [] ev.type = "JournalWritten" /\ st.stop = None ->
         To(Plain("Injecting", None), <<EmitStatus("Injecting"), Invoke("Inject")>>)
    [] OTHER -> Ignore(st)

StepWritingJournal(st, ev) ==
  CASE ev.type = "StopRequested" -> Ignore(RecordStop(st, ev))
    [] ev.type = "JournalWritten" /\ st.stop # None -> AbortedUnjournaled
    [] ev.type = "JournalWritten" /\ st.stop = None ->
         To(Plain("Injecting", None), <<EmitStatus("Injecting"), Invoke("Inject")>>)
    [] ev.type = "JournalWriteFailed" -> AbortedWith
    [] OTHER -> Ignore(st)

(* Mutant: a failed inject invocation counts as refused.                    *)
StepInjectingTrusting(st, ev) ==
  CASE ev.type = "StopRequested" -> Ignore(RecordStop(st, ev))
    [] Succeeded(ev, "Inject") ->
         IF st.stop # None THEN StartRecovery(st.stop)
         ELSE To(Plain("Active", None), <<EmitStatus("Active")>>)
    [] IsFailureOf(ev, "Inject") -> AbortedUnjournaled
    [] OTHER -> Ignore(st)

(* Exit 20 and a refused invocation leave the host untouched; every other   *)
(* failure leaves it unknown and is recovered as a dead-man stop.           *)
StepInjecting(st, ev) ==
  LET finished == ev.type = "CommandFinished" /\ ev.command = "Inject"
  IN  CASE ev.type = "StopRequested" -> Ignore(RecordStop(st, ev))
        [] finished /\ ev.disposition = "Success" ->
             IF st.stop # None THEN StartRecovery(st.stop)
             ELSE To(Plain("Active", None), <<EmitStatus("Active")>>)
        [] finished /\ ev.disposition = "InjectFailed" -> AbortedUnjournaled
        [] finished /\ ev.disposition \notin {"Success", "InjectFailed"} -> StartRecovery("Deadman")
        [] ev.type = "InvocationFailed" -> StartRecovery("Deadman")
        [] ev.type = "InvokeRejected" -> AbortedUnjournaled
        [] OTHER -> Ignore(st)

StepActive(st, ev) ==
  IF ev.type = "StopRequested" THEN StartRecovery(ev.cause) ELSE Ignore(st)

(* Mutants: quarantine left out; the entry dropped before the quarantine;   *)
(* a retry for ever; a retry recorded but not asked for.                    *)
RecoveryFailureUntainted(st) ==
  IF st.retried
  THEN To(Plain("Error", None), <<RemoveJournal, EmitStatus("Error")>>)
  ELSE To([st EXCEPT !.retried = TRUE], <<Invoke(st.current)>>)

RecoveryFailureReordered(st) ==
  IF st.retried
  THEN To(Plain("Error", None), <<RemoveJournal, MarkTainted, EmitStatus("Error")>>)
  ELSE To([st EXCEPT !.retried = TRUE], <<Invoke(st.current)>>)

RecoveryFailureEndless(st) == To(st, <<Invoke(st.current)>>)

RecoveryFailureIdle(st) ==
  IF st.retried
  THEN To(Plain("Error", None), <<MarkTainted, RemoveJournal, EmitStatus("Error")>>)
  ELSE Ignore([st EXCEPT !.retried = TRUE])

(* One idempotent retry, then quarantine. *)
RecoveryFailure(st) ==
  IF st.retried
  THEN To(Plain("Error", None), <<MarkTainted, RemoveJournal, EmitStatus("Error")>>)
  ELSE To([st EXCEPT !.retried = TRUE], <<Invoke(st.current)>>)

RecoverySuccess(st) ==
  IF st.remaining = << >>
  THEN To(Plain(st.outcome, None), <<RemoveJournal, EmitStatus(st.outcome)>>)
  ELSE To(Recovering(Head(st.remaining), Tail(st.remaining), st.outcome, FALSE),
          <<Invoke(Head(st.remaining))>>)

StepRecovering(st, ev) ==
  CASE ev.type = "StopRequested" /\ ev.cause = "Deadman" ->
         Ignore([st EXCEPT !.outcome = "Error"])
    [] Succeeded(ev, st.current) -> RecoverySuccess(st)
    [] IsFailureOf(ev, st.current) -> RecoveryFailure(st)
    [] OTHER -> Ignore(st)

Step(st, ev) ==
  CASE st.kind = "Pending" -> StepPending(st, ev)
    [] st.kind \in {"PreflightInstall", "PreflightRuntime"} -> StepPreflight(st, ev)
    [] st.kind = "WritingJournal" -> StepWritingJournal(st, ev)
    [] st.kind = "Injecting" -> StepInjecting(st, ev)
    [] st.kind = "Active" -> StepActive(st, ev)
    [] st.kind = "Recovering" -> StepRecovering(st, ev)
    [] st.kind \in Terminal -> Ignore(st)
=============================================================================
