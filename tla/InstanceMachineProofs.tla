----------------------- MODULE InstanceMachineProofs -----------------------
(***************************************************************************)
(* What step returns, for every state and event: the facts the proofs of   *)
(* the modules that run the machine rest on.                               *)
(***************************************************************************)
EXTENDS InstanceMachine, Integers, TLAPS

(* Every event of the vocabulary is a record of the four fields.            *)
LEMMA EventFields ==
  ASSUME NEW ev \in Event
  PROVE  /\ ev.command \in Command \cup {None}
         /\ ev.disposition \in Disposition \cup {None}
         /\ ev.type = "StopRequested" => ev.cause \in StopCause
         /\ ev.type # "StopRequested" => ev.cause = None
<1>1. CASE \E t \in {"SetupOk", "SetupFailed", "JournalWritten", "JournalWriteFailed"} :
             ev = Plainly(t)
  BY <1>1 DEF Plainly, EventOf
<1>2. CASE \E c \in Command, d \in Disposition : ev = CommandFinished(c, d)
  BY <1>2 DEF CommandFinished, EventOf
<1>3. CASE \E c \in Command : ev = InvocationFailed(c) \/ ev = InvokeRejected(c)
  BY <1>3 DEF InvocationFailed, InvokeRejected, EventOf
<1>4. CASE \E c \in StopCause : ev = StopRequested(c)
  BY <1>4 DEF StopRequested, EventOf
<1> QED
  BY <1>1, <1>2, <1>3, <1>4 DEF Event

(* Every effect is a record whose fields depend on its type.                *)
LEMMA EffectFields ==
  ASSUME NEW effect \in Effect
  PROVE  /\ effect.type \in {"EmitStatus", "Invoke", "WriteJournal", "RemoveJournal", "MarkTainted"}
         /\ effect.type = "EmitStatus" => effect = EmitStatus(effect.state) /\ effect.state \in WireState
         /\ effect.type = "Invoke" => effect = Invoke(effect.command) /\ effect.command \in Command
         /\ effect.type = "RemoveJournal" => effect = RemoveJournal
         /\ effect.type = "WriteJournal" => effect = WriteJournal
         /\ effect.type = "MarkTainted" => effect = MarkTainted
<1>1. CASE \E s \in WireState : effect = EmitStatus(s)
  BY <1>1 DEF EmitStatus, EffectOf
<1>2. CASE \E c \in Command : effect = Invoke(c)
  BY <1>2 DEF Invoke, EffectOf
<1>3. CASE effect \in {WriteJournal, RemoveJournal, MarkTainted}
  BY <1>3 DEF WriteJournal, RemoveJournal, MarkTainted, EffectOf
<1> QED
  BY <1>1, <1>2, <1>3 DEF Effect

(* A state without recovery bookkeeping is well formed.                     *)
LEMMA PlainType ==
  ASSUME NEW kind \in Kind \ {"Recovering"}, NEW stop \in StopCause \cup {None}
  PROVE  Plain(kind, stop) \in MachineState
  BY DEF Plain, MachineState, Kind, Terminal, None

(* Recovery starts in a well-formed state, whatever the cause.              *)
LEMMA StartRecoveryType ==
  ASSUME NEW cause \in StopCause
  PROVE  \E c \in {"Abort", "Cleanup"}, rest \in {<< >>, <<"Cleanup">>}, o \in Terminal :
           StartRecovery(cause) = To(Recovering(c, rest, o, FALSE),
                                     <<EmitStatus("Recovering"), Invoke(c)>>)
<1>1. /\ RecoverySteps(cause)[1] \in {"Abort", "Cleanup"}
      /\ RecoverySteps(cause)[2] \in {<< >>, <<"Cleanup">>}
  BY DEF RecoverySteps
<1>2. Outcome(cause) \in Terminal
  BY DEF Outcome, StopCause, Terminal
<1> QED
  BY <1>1, <1>2 DEF StartRecovery

(* Recovering states are well formed.                                       *)
LEMMA RecoveringType ==
  ASSUME NEW c \in {"Abort", "Cleanup"}, NEW rest \in {<< >>, <<"Cleanup">>},
         NEW o \in Terminal, NEW retried \in BOOLEAN
  PROVE  Recovering(c, rest, o, retried) \in MachineState
  BY DEF Recovering, MachineState, Kind, Command, Terminal, None

-----------------------------------------------------------------------------
(***************************************************************************)
(* The transition function as a table: every step is absorbed (the kind of *)
(* the state stays, nothing is asked for) or is one of the moves below.    *)
(***************************************************************************)
Absorbed(st, r) ==
  /\ r.effects = << >>
  /\ r.state \in MachineState
  /\ r.state.kind = st.kind
  /\ r.state.current = st.current

PreInjectMove(st, ev, r) ==
  \/ st.kind \in PreInject /\ r = AbortedWith
  \/ /\ st.kind = "Pending" /\ ev.type = "SetupOk"
     /\ r = To(Plain("PreflightInstall", None),
               <<EmitStatus("Preflight"), Invoke("Preflight")>>)
  \/ /\ st.kind = "PreflightInstall" /\ Succeeded(ev, "Preflight")
     /\ r = To(Plain("PreflightRuntime", None), <<Invoke("Preflight")>>)
  \/ /\ st.kind = "PreflightRuntime" /\ Succeeded(ev, "Preflight")
     /\ r = To(Plain("WritingJournal", None), <<WriteJournal>>)
  \/ /\ st.kind = "WritingJournal" /\ ev.type = "JournalWritten" /\ st.stop # None
     /\ r = AbortedUnjournaled
  \/ /\ st.kind = "WritingJournal" /\ ev.type = "JournalWritten" /\ st.stop = None
     /\ r = To(Plain("Injecting", None), <<EmitStatus("Injecting"), Invoke("Inject")>>)

(* What tells the machine that inject never touched the host.               *)
Untouched(ev) ==
  \/ ev.type = "InvokeRejected"
  \/ ev.type = "CommandFinished" /\ ev.command = "Inject" /\ ev.disposition = "InjectFailed"

InjectMove(st, ev, r) ==
  /\ st.kind = "Injecting"
  /\ ev.type # "StopRequested"
  /\ \/ r = To(Plain("Active", None), <<EmitStatus("Active")>>)
     \/ Untouched(ev) /\ r = AbortedUnjournaled
     \/ \E cause \in StopCause : r = StartRecovery(cause)

RecoveryMove(st, ev, r) ==
  \/ /\ st.kind = "Active" /\ ev.type = "StopRequested"
     /\ r = StartRecovery(ev.cause)
  \/ /\ st.kind = "Recovering" /\ Succeeded(ev, st.current) /\ st.remaining = << >>
     /\ r = To(Plain(st.outcome, None), <<RemoveJournal, EmitStatus(st.outcome)>>)
  \/ /\ st.kind = "Recovering" /\ Succeeded(ev, st.current)
     /\ r = To(Recovering("Cleanup", << >>, st.outcome, FALSE), <<Invoke("Cleanup")>>)
  \/ /\ st.kind = "Recovering" /\ IsFailureOf(ev, st.current) /\ ~st.retried
     /\ r = To([st EXCEPT !.retried = TRUE], <<Invoke(st.current)>>)
  \/ /\ st.kind = "Recovering" /\ IsFailureOf(ev, st.current) /\ st.retried
     /\ r = To(Plain("Error", None), <<MarkTainted, RemoveJournal, EmitStatus("Error")>>)

(* A state that records a stop stays well formed.                           *)
LEMMA RecordStopAbsorbed ==
  ASSUME NEW st \in MachineState, NEW ev \in Event, ev.type = "StopRequested"
  PROVE  Absorbed(st, Ignore(RecordStop(st, ev)))
<1>1. ev.cause \in StopCause
  BY EventFields
<1> QED
  BY <1>1 DEF Absorbed, Ignore, To, RecordStop, MachineState

(* The table is complete.                                                   *)
LEMMA StepCases ==
  ASSUME NEW st \in MachineState, NEW ev \in Event
  PROVE  \/ Absorbed(st, Step(st, ev))
         \/ PreInjectMove(st, ev, Step(st, ev))
         \/ InjectMove(st, ev, Step(st, ev))
         \/ RecoveryMove(st, ev, Step(st, ev))
<1>0. Absorbed(st, Ignore(st))
  BY DEF Absorbed, Ignore, To
<1>1. CASE st.kind = "Pending"
  <2>1. Step(st, ev) = StepPending(st, ev)
    BY <1>1 DEF Step, Terminal
  <2> QED
    BY <1>0, <1>1, <2>1 DEF StepPending, PreInjectMove, PreInject
<1>2. CASE st.kind \in {"PreflightInstall", "PreflightRuntime"}
  <2>1. Step(st, ev) = StepPreflight(st, ev)
    BY <1>2 DEF Step, Terminal
  <2> QED
    BY <1>0, <1>2, <2>1, RecordStopAbsorbed DEF StepPreflight, PreInjectMove, PreInject
<1>3. CASE st.kind = "WritingJournal"
  <2>1. Step(st, ev) = StepWritingJournal(st, ev)
    BY <1>3 DEF Step, Terminal
  <2> QED
    BY <1>0, <1>3, <2>1, RecordStopAbsorbed DEF StepWritingJournal, PreInjectMove, PreInject
<1>4. CASE st.kind = "Injecting"
  <2>1. Step(st, ev) = StepInjecting(st, ev)
    BY <1>4 DEF Step, Terminal
  <2>2. st.stop \in StopCause \cup {None} /\ "Deadman" \in StopCause
    BY DEF MachineState, StopCause
  <2> QED
    BY <1>0, <1>4, <2>1, <2>2, RecordStopAbsorbed DEF StepInjecting, InjectMove, Untouched
<1>5. CASE st.kind = "Active"
  <2>1. Step(st, ev) = StepActive(st, ev)
    BY <1>5 DEF Step, Terminal
  <2> QED
    BY <1>0, <1>5, <2>1 DEF StepActive, RecoveryMove
<1>6. CASE st.kind = "Recovering"
  <2>1. Step(st, ev) = StepRecovering(st, ev)
    BY <1>6 DEF Step, Terminal
  <2>2. CASE ev.type = "StopRequested" /\ ev.cause = "Deadman"
    <3>1. Absorbed(st, Ignore([st EXCEPT !.outcome = "Error"]))
      BY <1>6 DEF Absorbed, Ignore, To, MachineState, Terminal
    <3> QED
      BY <2>1, <2>2, <3>1 DEF StepRecovering, Succeeded, IsFailureOf
  <2>3. CASE ~(ev.type = "StopRequested" /\ ev.cause = "Deadman") /\ Succeeded(ev, st.current)
    <3>1. st.remaining \in {<< >>, <<"Cleanup">>}
      BY DEF MachineState
    <3>2. Step(st, ev) = RecoverySuccess(st)
      BY <2>1, <2>3 DEF StepRecovering, Succeeded, IsFailureOf
    <3>3. CASE st.remaining = << >>
      BY <1>6, <2>3, <3>2, <3>3 DEF RecoverySuccess, RecoveryMove
    <3>4. CASE st.remaining = <<"Cleanup">>
      <4>1. Head(st.remaining) = "Cleanup" /\ Tail(st.remaining) = << >>
        BY <3>4
      <4>2. st.remaining # << >>
        BY <3>4
      <4> QED
        BY <1>6, <2>3, <3>2, <4>1, <4>2 DEF RecoverySuccess, RecoveryMove
    <3> QED
      BY <3>1, <3>3, <3>4
  <2>4. CASE IsFailureOf(ev, st.current)
    <3>1. Step(st, ev) = RecoveryFailure(st)
      BY <2>1, <2>4 DEF StepRecovering, Succeeded, IsFailureOf
    <3> QED
      BY <1>6, <2>4, <3>1 DEF RecoveryFailure, RecoveryMove
  <2> QED
    BY <1>0, <2>1, <2>2, <2>3, <2>4 DEF StepRecovering
<1>7. CASE st.kind \in Terminal
  BY <1>0, <1>7 DEF Step, Terminal
<1> QED
  BY <1>1, <1>2, <1>3, <1>4, <1>5, <1>6, <1>7 DEF MachineState, Kind, PreInject

(* Every status and command the table names is an effect.                   *)
LEMMA EffectTypes ==
  /\ \A s \in WireState : EmitStatus(s) \in Effect
  /\ \A c \in Command : Invoke(c) \in Effect
  /\ {WriteJournal, RemoveJournal, MarkTainted} \subseteq Effect
  BY DEF Effect

(* A step ends in a well-formed state and asks for effects only.  About:    *)
(* step, total over every state and event.                                  *)
THEOREM StepType ==
  ASSUME NEW st \in MachineState, NEW ev \in Event
  PROVE  /\ Step(st, ev).state \in MachineState
         /\ Step(st, ev).effects \in Seq(Effect)
<1> DEFINE r == Step(st, ev)
<1> SUFFICES r.state \in MachineState /\ r.effects \in Seq(Effect)
  OBVIOUS
<1> HIDE DEF r
<1>0. ASSUME NEW s \in MachineState, NEW a \in Effect, NEW b \in Effect, NEW c \in Effect,
             r \in {To(s, <<a>>), To(s, <<a, b>>), To(s, <<a, b, c>>)}
      PROVE  r.state \in MachineState /\ r.effects \in Seq(Effect)
  <2>1. <<a>> \in Seq(Effect) /\ <<a, b>> \in Seq(Effect) /\ <<a, b, c>> \in Seq(Effect)
    OBVIOUS
  <2>2. PICK e \in {<<a>>, <<a, b>>, <<a, b, c>>} : r = To(s, e)
    BY <1>0
  <2>3. r.state = s /\ r.effects = e
    BY <2>2 DEF To
  <2> QED
    BY <2>1, <2>3
<1>a. \A kind \in Kind \ {"Recovering"} : Plain(kind, None) \in MachineState
  BY PlainType
<1>b. /\ WriteJournal \in Effect /\ RemoveJournal \in Effect /\ MarkTainted \in Effect
      /\ \A s \in {"Preflight", "Injecting", "Active", "Recovering"} \cup Terminal :
           EmitStatus(s) \in Effect
      /\ \A c \in Command : Invoke(c) \in Effect
  BY EffectTypes DEF WireState
<1>1. CASE Absorbed(st, r)
  BY <1>1 DEF Absorbed
<1>2. CASE PreInjectMove(st, ev, r)
  <2>1. CASE r \in {AbortedWith, AbortedUnjournaled}
    BY <1>0, <1>a, <1>b, <2>1 DEF AbortedWith, AbortedUnjournaled, Kind, Terminal
  <2>2. CASE \/ r = To(Plain("PreflightInstall", None), <<EmitStatus("Preflight"), Invoke("Preflight")>>)
             \/ r = To(Plain("PreflightRuntime", None), <<Invoke("Preflight")>>)
    BY <1>0, <1>a, <1>b, <2>2 DEF Kind, PreInject, Command
  <2>3. CASE r = To(Plain("WritingJournal", None), <<WriteJournal>>)
    BY <1>0, <1>a, <1>b, <2>3 DEF Kind, PreInject
  <2>4. CASE r = To(Plain("Injecting", None), <<EmitStatus("Injecting"), Invoke("Inject")>>)
    BY <1>0, <1>a, <1>b, <2>4 DEF Kind, Command
  <2> QED
    BY <1>2, <2>1, <2>2, <2>3, <2>4 DEF PreInjectMove
<1>3. ASSUME NEW cause \in StopCause, r = StartRecovery(cause)
      PROVE  r.state \in MachineState /\ r.effects \in Seq(Effect)
  <2>1. PICK c \in {"Abort", "Cleanup"}, rest \in {<< >>, <<"Cleanup">>}, o \in Terminal :
          r = To(Recovering(c, rest, o, FALSE), <<EmitStatus("Recovering"), Invoke(c)>>)
    BY <1>3, StartRecoveryType
  <2>2. Recovering(c, rest, o, FALSE) \in MachineState
    BY RecoveringType
  <2>3. EmitStatus("Recovering") \in Effect /\ Invoke(c) \in Effect
    BY <1>b DEF Command
  <2> QED
    BY <1>0, <2>1, <2>2, <2>3
<1>4. CASE InjectMove(st, ev, r)
  <2>1. CASE r = To(Plain("Active", None), <<EmitStatus("Active")>>)
    BY <1>0, <1>a, <1>b, <2>1 DEF Kind, Terminal
  <2>2. CASE r = AbortedUnjournaled
    BY <1>0, <1>a, <1>b, <2>2 DEF AbortedUnjournaled, Kind, Terminal
  <2> QED
    BY <1>3, <1>4, <2>1, <2>2 DEF InjectMove
<1>5. CASE RecoveryMove(st, ev, r)
  <2>2. CASE st.kind = "Active"
    BY <1>3, <1>5, <2>2, EventFields DEF RecoveryMove
  <2>3. CASE st.kind = "Recovering"
    <3>1. st.outcome \in Terminal /\ st.current \in {"Abort", "Cleanup"}
      BY <2>3 DEF MachineState
    <3>2. CASE r = To(Plain(st.outcome, None), <<RemoveJournal, EmitStatus(st.outcome)>>)
      BY <1>0, <1>a, <1>b, <3>1, <3>2 DEF Kind, Terminal
    <3>3. CASE r = To(Recovering("Cleanup", << >>, st.outcome, FALSE), <<Invoke("Cleanup")>>)
      <4>1. Recovering("Cleanup", << >>, st.outcome, FALSE) \in MachineState
        BY <3>1, RecoveringType
      <4> QED
        BY <1>0, <1>b, <3>3, <4>1 DEF Command
    <3>4. CASE r = To([st EXCEPT !.retried = TRUE], <<Invoke(st.current)>>)
      <4>1. [st EXCEPT !.retried = TRUE] \in MachineState
        BY DEF MachineState
      <4> QED
        BY <1>0, <1>b, <3>1, <3>4, <4>1 DEF Command
    <3>5. CASE r = To(Plain("Error", None), <<MarkTainted, RemoveJournal, EmitStatus("Error")>>)
      BY <1>0, <1>a, <1>b, <3>5 DEF Kind, Terminal
    <3> QED
      BY <1>5, <2>3, <3>2, <3>3, <3>4, <3>5 DEF RecoveryMove
  <2> QED
    BY <1>5, <2>2, <2>3 DEF RecoveryMove
<1> QED
  BY <1>1, <1>2, <1>4, <1>5, StepCases DEF r
=============================================================================
