-------------------------- MODULE PluginGateProofs --------------------------
(***************************************************************************)
(* Proofs of what PluginGate promises, for any catalogs, manifests and     *)
(* programs, any number of files replaced, stops, crashes and changes of   *)
(* the directory.                                                          *)
(***************************************************************************)
EXTENDS PluginGate, InstanceMachineProofs

(***************************************************************************)
(* The inductive invariant.  First, what the task has still to do follows  *)
(* from the state of the machine; a gate that is not at rest belongs to    *)
(* setup or to the one effect left.                                        *)
(***************************************************************************)
TaskFits(s, t) ==
  \/ s.kind = "Pending" /\ t = << >>
  \/ /\ s.kind = "PreflightInstall"
     /\ t \in {<<EmitStatus("Preflight"), Invoke("Preflight")>>, <<Invoke("Preflight")>>}
  \/ s.kind = "PreflightRuntime" /\ t = <<Invoke("Preflight")>>
  \/ s.kind = "WritingJournal" /\ t = <<WriteJournal>>
  \/ /\ s.kind = "Injecting"
     /\ t \in {<<EmitStatus("Injecting"), Invoke("Inject")>>, <<Invoke("Inject")>>}
  \/ s.kind = "Active" /\ t \in {<<EmitStatus("Active")>>, << >>}
  \/ /\ s.kind = "Recovering"
     /\ t \in {<<EmitStatus("Recovering"), Invoke(s.current)>>, <<Invoke(s.current)>>}
  \/ /\ s.kind \in Terminal
     /\ t \in {<<MarkTainted, RemoveJournal, EmitStatus(s.kind)>>,
               <<RemoveJournal, EmitStatus(s.kind)>>, <<EmitStatus(s.kind)>>, << >>}

GateFits ==
  gate.at # "rest" =>
    /\ agent = "running"
    /\ \/ gate.purpose = "Setup" /\ st.kind = "Pending" /\ gate.at \in {"manifest", "program"}
       \/ gate.purpose \in Command /\ todo = <<Invoke(gate.purpose)>>

Placed ==
  /\ IF agent = "running" THEN TaskFits(st, todo) ELSE todo = << >>
  /\ GateFits
  /\ agent = "idle" => st.kind = "Pending"

(***************************************************************************)
(* Second, the files: the order is one the master's catalog allows, and    *)
(* until a file is replaced the agent's copy is the one ordered.           *)
(***************************************************************************)
Allowed(o) ==
  \E e \in catalog, def \in Definition :
    /\ o = OrderOf(e, def) /\ e.manifest.version = o.version
    /\ ValidParams(e.manifest.schema, def.params)
    /\ ~(def.duration > e.manifest.max)

(* As long as no file was replaced, every command resolves.                 *)
Trusted ==
  replaced.files = 0 =>
    /\ PathSafe(order.version) /\ Parses(shelf.manifest) /\ shelf.program # Absent
    /\ Digest(shelf.manifest, shelf.program) = order.digest

(* As long as the directory kept its mode, the marker can come and go.      *)
Ready == modes = 0 => order.path = "absolute" /\ dir = "writable"

FilesFit ==
  /\ IF agent = "idle" THEN denied = None ELSE Allowed(order)
  /\ gate.at \notin {"rest", "manifest"} => gate.seen \in Manifest
  /\ replaced.files = 0 => shelf.program # Garbled
  /\ gate.at \notin {"rest", "manifest"} /\ replaced.files = 0 =>
       PathSafe(order.version) /\ Parses(shelf.manifest) /\ gate.seen = shelf.manifest
  /\ gate.at = "spawn" /\ ~replaced.since => Digest(gate.seen, shelf.program) = order.digest
  /\ RanAsOrdered
  /\ ValidationAgrees
  /\ journal \/ st.kind \notin {"Pending"} \cup Terminal => Trusted

DirectoryFits ==
  /\ gate.at = "probe" => order.path = "absolute"
  /\ gate.at = "exiting" /\ gate.purpose = "Preflight" /\ gate.code = 0 => Ready
  /\ \/ journal
     \/ st.kind \in {"PreflightRuntime", "WritingJournal", "Injecting", "Active", "Recovering"}
     => Ready

(***************************************************************************)
(* Third, the marker: exit codes are true of it, and it is only there      *)
(* while the entry is, or the quarantine, or the quarantine comes first.   *)
(***************************************************************************)
ExitsTrue ==
  gate.at = "exiting" =>
    /\ gate.purpose = "Inject" /\ gate.code = 0 => marker # "absent"
    /\ gate.purpose = "Inject" /\ gate.code = 20 => marker = "absent"
    /\ gate.purpose \in {"Abort", "Cleanup"} /\ gate.code = 0 => marker = "absent"

MarksNext(t) == t # << >> /\ Head(t) = MarkTainted

MarkerFits ==
  /\ st.kind \in PreInject => marker = "absent" /\ ~journal
  /\ st.kind \in {"Injecting", "Active", "Recovering"} => journal
  /\ agent = "running" /\ st.kind = "Injecting" /\ marker # "absent" => gate.at = "exiting"
  /\ agent = "running" /\ st.kind \in Terminal /\ marker # "absent" =>
       tainted \/ unwritten \/ MarksNext(todo)
  /\ MarkerAccounted
  /\ ExitsTrue

(***************************************************************************)
(* Fourth, the quarantine: a recovery command fails only for a cause.      *)
(***************************************************************************)
Cause == replaced.files > 0 \/ modes > 0 \/ killed

CauseFits ==
  /\ st.kind = "Recovering" /\ st.retried => Cause
  /\ MarksNext(todo) => Cause
  /\ gate.at = "exiting" /\ gate.purpose \in {"Abort", "Cleanup"} /\ gate.code # 0 => Cause
  /\ tainted => Cause

GateInv == TypeOK /\ Placed /\ FilesFit /\ DirectoryFits /\ MarkerFits /\ CauseFits

-----------------------------------------------------------------------------
(***************************************************************************)
(* The machine, asked for a command and given its answer.                  *)
(***************************************************************************)
AsksFor(s, c) ==
  \/ s.kind \in {"PreflightInstall", "PreflightRuntime"} /\ c = "Preflight"
  \/ s.kind = "Injecting" /\ c = "Inject"
  \/ s.kind = "Recovering" /\ c = s.current

Answers(c) ==
  {CommandFinished(c, d) : d \in Disposition} \cup {InvocationFailed(c), InvokeRejected(c)}

(* Effects of different kinds differ, and so do their fields.               *)
LEMMA EffectsDiffer ==
  /\ \A c, d : Invoke(c) = Invoke(d) => c = d
  /\ \A c, s : Invoke(c) # EmitStatus(s)
  /\ \A c : Invoke(c) \notin {WriteJournal, RemoveJournal, MarkTainted}
  /\ \A s : EmitStatus(s) \notin {WriteJournal, RemoveJournal, MarkTainted}
  /\ WriteJournal \notin {RemoveJournal, MarkTainted} /\ RemoveJournal # MarkTainted
<1>1. /\ \A c : Invoke(c).type = "Invoke" /\ Invoke(c).command = c
      /\ \A s : EmitStatus(s).type = "EmitStatus"
      /\ WriteJournal.type = "WriteJournal"
      /\ RemoveJournal.type = "RemoveJournal"
      /\ MarkTainted.type = "MarkTainted"
  BY DEF Invoke, EmitStatus, WriteJournal, RemoveJournal, MarkTainted, EffectOf
<1> QED
  BY <1>1

(* Answers are events, and tell success from failure.                       *)
LEMMA AnswerFields ==
  ASSUME NEW c \in Command, NEW ev \in Answers(c)
  PROVE  /\ ev \in Event
         /\ ev.command = c
         /\ ev.type \in {"CommandFinished", "InvocationFailed", "InvokeRejected"}
         /\ ev.type = "CommandFinished" =>
              ev = CommandFinished(c, ev.disposition) /\ ev.disposition \in Disposition
         /\ ev.type = "InvocationFailed" => ev = InvocationFailed(c)
         /\ ev.type = "InvokeRejected" => ev = InvokeRejected(c)
         /\ Succeeded(ev, c) <=> ev = CommandFinished(c, "Success")
         /\ IsFailureOf(ev, c) <=> ev # CommandFinished(c, "Success")
<1>1. /\ \A d : /\ CommandFinished(c, d).type = "CommandFinished"
                 /\ CommandFinished(c, d).command = c
                 /\ CommandFinished(c, d).disposition = d
      /\ InvocationFailed(c).type = "InvocationFailed" /\ InvocationFailed(c).command = c
      /\ InvokeRejected(c).type = "InvokeRejected" /\ InvokeRejected(c).command = c
  BY DEF CommandFinished, InvocationFailed, InvokeRejected, EventOf
<1>2. ev \in Event
  BY DEF Answers, Event
<1> QED
  BY <1>1, <1>2 DEF Answers, Succeeded, IsFailureOf

(* What an answer does to the state that asked.                             *)
PreflightAnswered(s, ev, r) ==
  /\ s.kind \in {"PreflightInstall", "PreflightRuntime"}
  /\ \/ r = AbortedWith
     \/ /\ ev = CommandFinished("Preflight", "Success") /\ s.kind = "PreflightInstall"
        /\ r = To(Plain("PreflightRuntime", None), <<Invoke("Preflight")>>)
     \/ /\ ev = CommandFinished("Preflight", "Success") /\ s.kind = "PreflightRuntime"
        /\ r = To(Plain("WritingJournal", None), <<WriteJournal>>)

InjectAnswered(s, ev, r) ==
  /\ s.kind = "Injecting"
  /\ \/ r = To(Plain("Active", None), <<EmitStatus("Active")>>)
     \/ \E cause \in StopCause : r = StartRecovery(cause)
     \/ /\ ev \in {CommandFinished("Inject", "InjectFailed"), InvokeRejected("Inject")}
        /\ r = AbortedUnjournaled

RecoveryAnswered(s, ev, r) ==
  /\ s.kind = "Recovering"
  /\ \/ /\ ev = CommandFinished(s.current, "Success")
        /\ \/ r = To(Plain(s.outcome, None), <<RemoveJournal, EmitStatus(s.outcome)>>)
           \/ r = To(Recovering("Cleanup", << >>, s.outcome, FALSE), <<Invoke("Cleanup")>>)
     \/ /\ ev # CommandFinished(s.current, "Success")
        /\ \/ r = To([s EXCEPT !.retried = TRUE], <<Invoke(s.current)>>)
           \/ /\ s.retried
              /\ r = To(Plain("Error", None),
                        <<MarkTainted, RemoveJournal, EmitStatus("Error")>>)

(* What the machine does with each answer to the command it asked for.      *)
LEMMA AnswerSteps ==
  ASSUME NEW s \in MachineState, NEW c \in Command, AsksFor(s, c), NEW ev \in Answers(c)
  PROVE  \/ PreflightAnswered(s, ev, Step(s, ev))
         \/ InjectAnswered(s, ev, Step(s, ev))
         \/ RecoveryAnswered(s, ev, Step(s, ev))
<1> USE AnswerFields
<1>1. CASE s.kind \in {"PreflightInstall", "PreflightRuntime"}
  <2>1. Step(s, ev) = StepPreflight(s, ev) /\ c = "Preflight"
    BY <1>1 DEF Step, Terminal, AsksFor
  <2>2. CASE ev = CommandFinished("Preflight", "Success")
    <3>1. Succeeded(ev, "Preflight") /\ ev.type # "StopRequested"
      BY <2>1, <2>2
    <3> QED
      BY <1>1, <2>1, <2>2, <3>1 DEF StepPreflight, PreflightAnswered, IsFailureOf
  <2>3. CASE ev # CommandFinished("Preflight", "Success")
    <3>1. ~Succeeded(ev, "Preflight") /\ IsFailureOf(ev, "Preflight") /\ ev.type # "StopRequested"
      BY <2>1, <2>3
    <3> QED
      BY <1>1, <2>1, <3>1 DEF StepPreflight, PreflightAnswered
  <2> QED
    BY <2>2, <2>3
<1>2. CASE s.kind = "Injecting"
  <2>1. Step(s, ev) = StepInjecting(s, ev) /\ c = "Inject"
    BY <1>2 DEF Step, Terminal, AsksFor
  <2>2. s.stop \in StopCause \cup {None} /\ "Deadman" \in StopCause
    BY DEF MachineState, StopCause
  <2> QED
    BY <1>2, <2>1, <2>2 DEF StepInjecting, InjectAnswered
<1>3. CASE s.kind = "Recovering"
  <2>1. Step(s, ev) = StepRecovering(s, ev) /\ c = s.current
    BY <1>3 DEF Step, Terminal, AsksFor
  <2>2. CASE ev = CommandFinished(c, "Success")
    <3>1. Step(s, ev) = RecoverySuccess(s)
      BY <2>1, <2>2 DEF StepRecovering
    <3>2. s.remaining \in {<< >>, <<"Cleanup">>}
      BY DEF MachineState
    <3>3. CASE s.remaining = << >>
      BY <1>3, <2>1, <2>2, <3>1, <3>3 DEF RecoverySuccess, RecoveryAnswered
    <3>4. CASE s.remaining = <<"Cleanup">>
      <4>1. Head(s.remaining) = "Cleanup" /\ Tail(s.remaining) = << >> /\ s.remaining # << >>
        BY <3>4
      <4> QED
        BY <1>3, <2>1, <2>2, <3>1, <4>1 DEF RecoverySuccess, RecoveryAnswered
    <3> QED
      BY <3>2, <3>3, <3>4
  <2>3. CASE ev # CommandFinished(c, "Success")
    <3>1. Step(s, ev) = RecoveryFailure(s)
      BY <2>1, <2>3 DEF StepRecovering
    <3> QED
      BY <1>3, <2>1, <2>3, <3>1 DEF RecoveryFailure, RecoveryAnswered
  <2> QED
    BY <2>2, <2>3
<1> QED
  BY <1>1, <1>2, <1>3 DEF AsksFor

(* An operator's abort during a command is recorded or absorbed.            *)
LEMMA StopSteps ==
  ASSUME NEW s \in MachineState, NEW c \in Command, AsksFor(s, c)
  PROVE  LET r == Step(s, StopRequested("OperatorAbort")).state
         IN  r \in MachineState /\ r.kind = s.kind /\ r.current = s.current
             /\ r.retried = s.retried
<1> DEFINE ev == StopRequested("OperatorAbort")
<1>1. /\ ev \in Event /\ ev.type = "StopRequested" /\ ev.cause = "OperatorAbort"
      /\ "OperatorAbort" \in StopCause
  BY DEF StopRequested, EventOf, Event, StopCause
<1> HIDE DEF ev
<1>2. Step(s, ev).state \in MachineState
  BY <1>1, StepType
<1>3. CASE s.kind \in {"PreflightInstall", "PreflightRuntime", "Injecting"}
  <2>1. Step(s, ev) \in {StepPreflight(s, ev), StepInjecting(s, ev)}
    BY <1>3 DEF Step, Terminal
  <2>2. /\ StepPreflight(s, ev) = Ignore(RecordStop(s, ev))
        /\ StepInjecting(s, ev) = Ignore(RecordStop(s, ev))
    BY <1>1 DEF StepPreflight, StepInjecting, Succeeded, IsFailureOf
  <2> QED
    BY <1>1, <1>2, <2>1, <2>2 DEF Ignore, To, RecordStop, ev, MachineState
<1>4. CASE s.kind = "Recovering"
  <2>1. Step(s, ev) = StepRecovering(s, ev)
    BY <1>4 DEF Step, Terminal
  <2>2. StepRecovering(s, ev) = Ignore(s)
    BY <1>1 DEF StepRecovering, Succeeded, IsFailureOf
  <2> QED
    BY <1>2, <2>1, <2>2 DEF Ignore, To, ev
<1> QED
  BY <1>3, <1>4 DEF AsksFor

-----------------------------------------------------------------------------
(***************************************************************************)
(* The task.                                                               *)
(***************************************************************************)
(* A state the machine goes to owes what the step asks for.                 *)
LEMMA MovesFit ==
  /\ TaskFits(AbortedWith.state, AbortedWith.effects)
  /\ TaskFits(AbortedUnjournaled.state, AbortedUnjournaled.effects)
  /\ \A cause \in StopCause :
       /\ TaskFits(StartRecovery(cause).state, StartRecovery(cause).effects)
       /\ StartRecovery(cause).state.kind = "Recovering"
       /\ ~StartRecovery(cause).state.retried
       /\ StartRecovery(cause).effects # << >>
<1>1. AbortedWith.state.kind = "Aborted" /\ AbortedWith.effects = <<EmitStatus("Aborted")>>
  BY DEF AbortedWith, To, Plain
<1>2. /\ AbortedUnjournaled.state.kind = "Aborted"
      /\ AbortedUnjournaled.effects = <<RemoveJournal, EmitStatus("Aborted")>>
  BY DEF AbortedUnjournaled, To, Plain
<1>3. ASSUME NEW cause \in StopCause
      PROVE  /\ TaskFits(StartRecovery(cause).state, StartRecovery(cause).effects)
             /\ StartRecovery(cause).state.kind = "Recovering"
             /\ ~StartRecovery(cause).state.retried
             /\ StartRecovery(cause).effects # << >>
  <2>1. PICK c \in {"Abort", "Cleanup"}, rest \in {<< >>, <<"Cleanup">>}, o \in Terminal :
          StartRecovery(cause) = To(Recovering(c, rest, o, FALSE),
                                    <<EmitStatus("Recovering"), Invoke(c)>>)
    BY StartRecoveryType
  <2>2. /\ StartRecovery(cause).effects = <<EmitStatus("Recovering"), Invoke(c)>>
        /\ StartRecovery(cause).state.kind = "Recovering"
        /\ StartRecovery(cause).state.current = c
        /\ ~StartRecovery(cause).state.retried
    BY <2>1 DEF To, Recovering
  <2> QED
    BY <2>2 DEF TaskFits
<1> QED
  BY <1>1, <1>2, <1>3 DEF TaskFits, Terminal

(* An answer leaves the task with what the new state owes, and nothing      *)
(* else; of an end it depends on the answer whether it is quarantined.      *)
LEMMA AnswerFits ==
  ASSUME NEW s \in MachineState, NEW c \in Command, AsksFor(s, c), NEW ev \in Answers(c)
  PROVE  /\ TaskFits(Step(s, ev).state, Step(s, ev).effects)
         /\ Step(s, ev).effects # << >>
         /\ Step(s, ev).state.kind # "Pending"
<1> DEFINE r == Step(s, ev)
<1> SUFFICES TaskFits(r.state, r.effects) /\ r.effects # << >> /\ r.state.kind # "Pending"
  OBVIOUS
<1>1. PreflightAnswered(s, ev, r) \/ InjectAnswered(s, ev, r) \/ RecoveryAnswered(s, ev, r)
  BY AnswerSteps
<1> HIDE DEF r
<1>2. CASE PreflightAnswered(s, ev, r)
  <2>1. CASE r = AbortedWith
    BY <2>1, MovesFit DEF AbortedWith, To, Plain
  <2>2. CASE r = To(Plain("PreflightRuntime", None), <<Invoke("Preflight")>>)
    BY <2>2 DEF To, Plain, TaskFits
  <2>3. CASE r = To(Plain("WritingJournal", None), <<WriteJournal>>)
    BY <2>3 DEF To, Plain, TaskFits
  <2> QED
    BY <1>2, <2>1, <2>2, <2>3 DEF PreflightAnswered
<1>3. CASE InjectAnswered(s, ev, r)
  <2>1. CASE r = To(Plain("Active", None), <<EmitStatus("Active")>>)
    BY <2>1 DEF To, Plain, TaskFits
  <2>2. CASE \E cause \in StopCause : r = StartRecovery(cause)
    BY <2>2, MovesFit
  <2>3. CASE r = AbortedUnjournaled
    BY <2>3, MovesFit DEF AbortedUnjournaled, To, Plain
  <2> QED
    BY <1>3, <2>1, <2>2, <2>3 DEF InjectAnswered
<1>4. CASE RecoveryAnswered(s, ev, r)
  <2>a. s.outcome \in Terminal
    BY <1>4 DEF RecoveryAnswered, MachineState
  <2>1. CASE r = To(Plain(s.outcome, None), <<RemoveJournal, EmitStatus(s.outcome)>>)
    BY <2>1, <2>a DEF To, Plain, TaskFits, Terminal
  <2>2. CASE r = To(Recovering("Cleanup", << >>, s.outcome, FALSE), <<Invoke("Cleanup")>>)
    BY <2>2 DEF To, Recovering, TaskFits
  <2>3. CASE r = To([s EXCEPT !.retried = TRUE], <<Invoke(s.current)>>)
    <3>1. r.state.kind = "Recovering" /\ r.state.current = s.current
      BY <1>4, <2>3 DEF To, RecoveryAnswered, MachineState
    <3> QED
      BY <2>3, <3>1 DEF To, TaskFits
  <2>4. CASE r = To(Plain("Error", None), <<MarkTainted, RemoveJournal, EmitStatus("Error")>>)
    BY <2>4 DEF To, Plain, TaskFits, Terminal
  <2> QED
    BY <1>4, <2>1, <2>2, <2>3, <2>4 DEF RecoveryAnswered
<1> QED
  BY <1>1, <1>2, <1>3, <1>4

(* The head of what is left tells what is left.                             *)
LEMMA Heads ==
  ASSUME NEW s, NEW t, TaskFits(s, t), t # << >>
  PROVE  /\ \A c : Head(t) = Invoke(c) => t = <<Invoke(c)>> /\ AsksFor(s, c)
         /\ Head(t) = WriteJournal => t = <<WriteJournal>> /\ s.kind = "WritingJournal"
         /\ \A w : Head(t) = EmitStatus(w) => TaskFits(s, Tail(t)) /\ ~MarksNext(Tail(t))
         /\ Head(t) \in {MarkTainted, RemoveJournal} =>
              TaskFits(s, Tail(t)) /\ s.kind \in Terminal /\ ~MarksNext(Tail(t))
<1> USE EffectsDiffer
<1>0. ASSUME NEW a, NEW b, NEW c
      PROVE  /\ Head(<<a>>) = a /\ Tail(<<a>>) = << >>
             /\ Head(<<a, b>>) = a /\ Tail(<<a, b>>) = <<b>>
             /\ Head(<<a, b, c>>) = a /\ Tail(<<a, b, c>>) = <<b, c>>
  OBVIOUS
<1>1. CASE s.kind \in {"PreflightInstall", "PreflightRuntime"} /\ t = <<Invoke("Preflight")>>
  BY <1>0, <1>1 DEF AsksFor
<1>2. CASE s.kind = "PreflightInstall" /\ t = <<EmitStatus("Preflight"), Invoke("Preflight")>>
  BY <1>0, <1>2 DEF TaskFits, MarksNext
<1>3. CASE s.kind = "WritingJournal" /\ t = <<WriteJournal>>
  BY <1>3
<1>4. CASE s.kind = "Injecting" /\ t = <<Invoke("Inject")>>
  BY <1>0, <1>4 DEF AsksFor
<1>5. CASE s.kind = "Injecting" /\ t = <<EmitStatus("Injecting"), Invoke("Inject")>>
  BY <1>0, <1>5 DEF TaskFits, MarksNext
<1>6. CASE s.kind = "Active" /\ t = <<EmitStatus("Active")>>
  BY <1>0, <1>6 DEF TaskFits, MarksNext
<1>7. CASE s.kind = "Recovering" /\ t = <<Invoke(s.current)>>
  BY <1>0, <1>7 DEF AsksFor
<1>8. CASE s.kind = "Recovering" /\ t = <<EmitStatus("Recovering"), Invoke(s.current)>>
  BY <1>0, <1>8 DEF TaskFits, MarksNext
<1>9. CASE s.kind \in Terminal /\ t = <<MarkTainted, RemoveJournal, EmitStatus(s.kind)>>
  BY <1>0, <1>9 DEF TaskFits, MarksNext
<1>10. CASE s.kind \in Terminal /\ t = <<RemoveJournal, EmitStatus(s.kind)>>
  BY <1>0, <1>10 DEF TaskFits, MarksNext
<1>11. CASE s.kind \in Terminal /\ t = <<EmitStatus(s.kind)>>
  BY <1>0, <1>11 DEF TaskFits, MarksNext
<1> QED
  BY <1>1, <1>2, <1>3, <1>4, <1>5, <1>6, <1>7, <1>8, <1>9, <1>10, <1>11 DEF TaskFits

(***************************************************************************)
(* How what is under way ends: setup with its verdict, a command with an   *)
(* answer to the state that asked for it.                                  *)
(***************************************************************************)
Concludes(ev) ==
  /\ gate.at # "rest" /\ Conclude(ev)
  /\ \/ gate.purpose = "Setup" /\ ev \in {Plainly("SetupOk"), Plainly("SetupFailed")}
     \/ gate.purpose \in Command /\ ev \in Answers(gate.purpose)

(* A gate that is busy with a command serves the task that asked for it.    *)
LEMMA Asked ==
  ASSUME TypeOK, Placed, gate.at # "rest", gate.purpose \in Command
  PROVE  /\ agent = "running"
         /\ todo = <<Invoke(gate.purpose)>> /\ Tail(todo) = << >>
         /\ AsksFor(st, gate.purpose)
<1>1. agent = "running" /\ todo = <<Invoke(gate.purpose)>> /\ TaskFits(st, todo)
  BY DEF Placed, GateFits, Command
<1>2. todo # << >> /\ Head(todo) = Invoke(gate.purpose) /\ Tail(todo) = << >>
  BY <1>1
<1> QED
  BY <1>1, <1>2, Heads

(* What the machine does with the answer to its setup.                      *)
LEMMA SetupSteps ==
  ASSUME NEW s \in MachineState, s.kind = "Pending"
  PROVE  /\ Step(s, Plainly("SetupOk")) =
              To(Plain("PreflightInstall", None), <<EmitStatus("Preflight"), Invoke("Preflight")>>)
         /\ Step(s, Plainly("SetupFailed")) = AbortedWith
<1>1. \A ev : Step(s, ev) = StepPending(s, ev)
  BY DEF Step, Terminal
<1>2. Plainly("SetupOk").type = "SetupOk" /\ Plainly("SetupFailed").type = "SetupFailed"
  BY DEF Plainly, EventOf
<1> QED
  BY <1>1, <1>2 DEF StepPending

(* Whatever ends, the task then owes what its new state asks for.           *)
LEMMA ConcludesTask ==
  ASSUME TypeOK, Placed, NEW ev, Concludes(ev), UNCHANGED agent
  PROVE  /\ st' = Step(st, ev).state /\ todo' = Step(st, ev).effects /\ gate' = NoGate
         /\ st' \in MachineState /\ todo' \in Seq(Effect)
         /\ Placed'
<1>1. ev \in Event /\ st \in MachineState
  <2>1. CASE ev \in {Plainly("SetupOk"), Plainly("SetupFailed")}
    BY <2>1 DEF Event, TypeOK
  <2> QED
    BY <2>1, AnswerFields DEF Concludes, TypeOK
<1>2. Step(st, ev).state \in MachineState /\ Step(st, ev).effects \in Seq(Effect)
  BY <1>1, StepType
<1>3. /\ st' = Step(st, ev).state /\ todo' = Step(st, ev).effects /\ gate' = NoGate
      /\ agent = "running"
  <2>1. \A t \in Seq(Effect) : << >> \o t = t
    OBVIOUS
  <2>2. CASE gate.purpose = "Setup"
    BY <1>2, <2>1, <2>2 DEF Concludes, Conclude, Deliver, Placed, GateFits
  <2>3. CASE gate.purpose \in Command
    <3>1. gate.purpose # "Setup" /\ Tail(todo) = << >> /\ agent = "running"
      BY <2>3, Asked DEF Concludes, Command
    <3> QED
      BY <1>2, <2>1, <3>1 DEF Concludes, Conclude, Deliver
  <2> QED
    BY <2>2, <2>3 DEF Concludes
<1>4. TaskFits(st', todo') /\ gate'.at = "rest" /\ agent' = "running"
  <2>1. CASE gate.purpose = "Setup" /\ ev \in {Plainly("SetupOk"), Plainly("SetupFailed")}
    <3>1. st.kind = "Pending"
      BY <2>1 DEF Concludes, Placed, GateFits, Command
    <3>2. \/ Step(st, ev) = AbortedWith
          \/ Step(st, ev) = To(Plain("PreflightInstall", None),
                               <<EmitStatus("Preflight"), Invoke("Preflight")>>)
      BY <1>1, <2>1, <3>1, SetupSteps
    <3>3. TaskFits(Step(st, ev).state, Step(st, ev).effects)
      BY <3>2, MovesFit DEF To, Plain, TaskFits
    <3> QED
      BY <1>3, <3>3 DEF NoGate, Gate
  <2>2. CASE gate.purpose \in Command /\ ev \in Answers(gate.purpose)
    BY <1>1, <1>3, <2>2, Asked, AnswerFits DEF Concludes, NoGate, Gate
  <2> QED
    BY <2>1, <2>2 DEF Concludes
<1> QED
  BY <1>2, <1>3, <1>4 DEF Placed, GateFits

(* Refused: the order, or the command.                                      *)
Refuses ==
  /\ \/ gate.purpose = "Setup" /\ Concludes(Plainly("SetupFailed")) /\ denied' = "Unresolved"
     \/ /\ gate.purpose \in Command
        /\ Concludes(InvokeRejected(gate.purpose)) /\ UNCHANGED denied
  /\ UNCHANGED <<denier, replaced>>

(* A step that finds no file refuses the invocation.                        *)
LEMMA UnresolvedRefuses ==
  ASSUME TypeOK, Placed, Unresolved, gate.at # "rest"
  PROVE  Refuses
<1>1. \A c \in Command : InvokeRejected(c) \in Answers(c)
  BY DEF Answers
<1>2. CASE gate.purpose = "Setup"
  BY <1>2 DEF Unresolved, Concludes, Refuses
<1>3. CASE gate.purpose \in Command
  <2>1. gate.purpose # "Setup"
    BY <1>3 DEF Command
  <2> QED
    BY <1>1, <1>3, <2>1 DEF Unresolved, Concludes, Refuses
<1> QED
  BY <1>2, <1>3 DEF Placed, GateFits

(* What reading and hashing lead to.                                        *)
LEMMA ManifestRead ==
  ASSUME TypeOK, Placed, ReadManifest
  PROVE  \/ /\ UNCHANGED <<st, todo, denied, denier, replaced>>
            /\ PathSafe(order.version) /\ Parses(shelf.manifest)
            /\ gate' = [gate EXCEPT !.at = "program", !.seen = shelf.manifest]
         \/ ~(PathSafe(order.version) /\ Parses(shelf.manifest)) /\ Refuses
  BY UnresolvedRefuses DEF ReadManifest

(* The three ways the check of the program ends (digest_gate,               *)
(* resolve_gated_manifest).                                                 *)
LEMMA ProgramHashed ==
  ASSUME TypeOK, Placed, HashProgram
  PROVE  \/ /\ Verified /\ gate.purpose = "Setup" /\ denied' = SetupDenial(gate.seen, order)
            /\ denier' = IF denied' = None THEN Absent ELSE gate.seen
            /\ Concludes(Plainly(IF denied' = None THEN "SetupOk" ELSE "SetupFailed"))
            /\ UNCHANGED replaced
         \/ /\ Verified /\ gate.purpose \in Command
            /\ gate' = [gate EXCEPT !.at = "spawn"]
            /\ replaced' = [replaced EXCEPT !.since = FALSE]
            /\ UNCHANGED <<st, todo, denied, denier>>
         \/ ~Verified /\ Refuses
<1>1. gate.at # "rest"
  BY DEF HashProgram
<1>2. CASE Verified /\ gate.purpose = "Setup" /\ Setup
  <2>1. \/ Plainly(IF denied' = None THEN "SetupOk" ELSE "SetupFailed") = Plainly("SetupOk")
        \/ Plainly(IF denied' = None THEN "SetupOk" ELSE "SetupFailed") = Plainly("SetupFailed")
    OBVIOUS
  <2> QED
    BY <1>1, <1>2, <2>1 DEF Setup, Concludes
<1>3. CASE Verified /\ gate.purpose # "Setup"
  <2>1. gate.purpose \in Command
    BY <1>1, <1>3 DEF Placed, GateFits
  <2> QED
    BY <1>3, <2>1 DEF HashProgram
<1>4. CASE ~Verified
  BY <1>1, <1>4, UnresolvedRefuses DEF HashProgram
<1> QED
  BY <1>2, <1>3, <1>4 DEF HashProgram

(* What spawning and running lead to.                                       *)
LEMMA ProcessConcludes ==
  ASSUME TypeOK, Placed
  PROVE  /\ IsRunning \/ gate.at = "spawn" => gate.purpose \in Command
         /\ Spawn =>
              \/ /\ shelf.program \in Program /\ said' = NothingSaid /\ UNCHANGED <<st, todo>>
                 /\ gate' = [gate EXCEPT !.at = "started", !.image = shelf.program]
              \/ /\ TriesAgain /\ gate' = [gate EXCEPT !.tries = @ + 1]
                 /\ UNCHANGED <<st, todo, said>>
              \/ /\ shelf.program \notin Program /\ UNCHANGED said
                 /\ Concludes(InvocationFailed(gate.purpose))
         /\ ProcessExits => Concludes(CommandFinished(gate.purpose, DispositionOf(gate.code)))
         /\ ProcessKilled => Concludes(InvocationFailed(gate.purpose))
<1>1. IsRunning \/ gate.at = "spawn" => gate.purpose \in Command /\ gate.at # "rest"
  BY DEF Placed, GateFits, Command, IsRunning, ProcessAt
<1>2. gate.purpose \in Command => InvocationFailed(gate.purpose) \in Answers(gate.purpose)
  BY DEF Answers
<1>3. ASSUME gate.purpose \in Command
      PROVE  CommandFinished(gate.purpose, DispositionOf(gate.code)) \in Answers(gate.purpose)
  <2>1. DispositionOf(gate.code) \in Disposition
    BY DEF DispositionOf, Disposition, TypeOK, Code
  <2> QED
    BY <2>1 DEF Answers
<1> QED
  BY <1>1, <1>2, <1>3
  DEF Spawn, ProcessExits, ProcessKilled, Concludes, IsRunning, ProcessAt

-----------------------------------------------------------------------------
(***************************************************************************)
(* Types and places.                                                       *)
(***************************************************************************)
GateType ==
  [at : {"rest", "manifest", "program", "spawn"} \cup ProcessAt,
   purpose : Command \cup {"Setup", None},
   seen : Manifest \cup {Absent}, image : Program \cup {Absent},
   tries : 0..SpawnRetries, code : Code]

(* A gate at rest is a gate.                                                *)
LEMMA NoGateType == NoGate \in GateType
  BY BoundsAssumption DEF NoGate, Gate, GateType, Code

(* The types at the start.                                                  *)
LEMMA TypeInit == Init => TypeOK /\ Placed
<1> SUFFICES ASSUME Init
             PROVE  TypeOK /\ Placed
  OBVIOUS
<1>1. Plain("Pending", None) \in MachineState /\ Plain("Pending", None).kind = "Pending"
  BY PlainType DEF Plain, Kind, PreInject, Terminal
<1>2. << >> \in Seq(Effect) /\ NoGate.at = "rest"
  BY DEF NoGate, Gate
<1>3. Placed
  BY <1>1, <1>2 DEF Init, Placed, GateFits, TaskFits
<1>4. /\ modes \in 0..MaxModes /\ stops \in 0..MaxStops /\ crashes \in 0..MaxCrashes
      /\ replaced \in [files : 0..MaxInstalls, since : BOOLEAN]
  BY BoundsAssumption DEF Init
<1> QED
  BY <1>1, <1>2, <1>3, <1>4, NoGateType DEF Init, TypeOK, GateType

(* An order keeps the types.                                                *)
LEMMA SubmitType ==
  ASSUME TypeOK, Placed, Submit
  PROVE  TypeOK' /\ Placed'
<1>1. /\ agent = "idle" /\ st.kind = "Pending" /\ todo = << >> /\ agent' = "running"
      /\ gate' = [NoGate EXCEPT !.at = "manifest", !.purpose = "Setup"]
      /\ UNCHANGED <<catalog, shelf, st, todo, journal, tainted, hostVars, histVars,
                     replaced>>
  BY DEF Submit, Placed
<1>2. gate' \in GateType /\ gate'.at = "manifest" /\ gate'.purpose = "Setup"
  BY <1>1, NoGateType DEF GateType
<1>3. \E e \in catalog, def \in Definition : order' = OrderOf(e, def)
  BY DEF Submit, Entries
<1>4. Placed'
  BY <1>1, <1>2 DEF Placed, GateFits, TaskFits
<1> QED
  BY <1>1, <1>2, <1>3, <1>4 DEF TypeOK, GateType, hostVars, histVars

(* The steps of the gate before a process runs keep the types.              *)
LEMMA GateTypes ==
  ASSUME TypeOK, Placed, ReadManifest \/ HashProgram \/ Spawn
  PROVE  TypeOK' /\ Placed'
<1> USE DEF hostVars, histVars
<1>1. CASE ReadManifest
  <2>a. /\ gate.at = "manifest"
        /\ UNCHANGED <<catalog, order, shelf, agent, journal, tainted, hostVars, said, modes,
                       stops, crashes, killed, unwritten>>
    BY <1>1 DEF ReadManifest
  <2>1. CASE /\ UNCHANGED <<st, todo, denied, denier, replaced>>
             /\ Parses(shelf.manifest)
             /\ gate' = [gate EXCEPT !.at = "program", !.seen = shelf.manifest]
    <3>1. gate' \in GateType
      BY <2>1 DEF TypeOK, GateType, Parses, Files
    <3>2. Placed'
      BY <2>a, <2>1 DEF Placed, GateFits, TypeOK
    <3> QED
      BY <2>a, <2>1, <3>1, <3>2 DEF TypeOK, GateType
  <2>2. CASE Refuses
    <3>1. /\ st' \in MachineState /\ todo' \in Seq(Effect) /\ gate' = NoGate /\ Placed'
      BY <2>a, <2>2, ConcludesTask DEF Refuses
    <3> QED
      BY <2>a, <2>2, <3>1, NoGateType DEF TypeOK, GateType, Refuses
  <2> QED
    BY <1>1, <2>1, <2>2, ManifestRead
<1>2. CASE HashProgram
  <2>a. /\ gate.at = "program"
        /\ UNCHANGED <<catalog, order, shelf, agent, journal, tainted, hostVars, said, modes,
                       stops, crashes, killed, unwritten>>
    BY <1>2 DEF HashProgram
  <2>1. CASE /\ denied' = SetupDenial(gate.seen, order) /\ UNCHANGED replaced
             /\ denier' = IF denied' = None THEN Absent ELSE gate.seen
             /\ Concludes(Plainly(IF denied' = None THEN "SetupOk" ELSE "SetupFailed"))
    <3>1. /\ st' \in MachineState /\ todo' \in Seq(Effect) /\ gate' = NoGate /\ Placed'
      BY <2>a, <2>1, ConcludesTask
    <3>2. /\ denied' \in {None, "Unresolved", "Params", "Duration"}
          /\ denier' \in Manifest \cup {Absent}
      BY <2>1 DEF SetupDenial, None, TypeOK
    <3> QED
      BY <2>a, <2>1, <3>1, <3>2, NoGateType DEF TypeOK, GateType
  <2>2. CASE /\ gate.purpose \in Command /\ gate' = [gate EXCEPT !.at = "spawn"]
             /\ replaced' = [replaced EXCEPT !.since = FALSE]
             /\ UNCHANGED <<st, todo, denied, denier>>
    <3>1. gate' \in GateType /\ replaced' \in [files : 0..MaxInstalls, since : BOOLEAN]
      BY <2>2 DEF TypeOK, GateType
    <3>2. Placed'
      BY <2>a, <2>2 DEF Placed, GateFits, TypeOK, Command
    <3> QED
      BY <2>a, <2>2, <3>1, <3>2 DEF TypeOK, GateType
  <2>3. CASE Refuses
    <3>1. /\ st' \in MachineState /\ todo' \in Seq(Effect) /\ gate' = NoGate /\ Placed'
      BY <2>a, <2>3, ConcludesTask DEF Refuses
    <3> QED
      BY <2>a, <2>3, <3>1, NoGateType DEF TypeOK, GateType, Refuses
  <2> QED
    BY <1>2, <2>1, <2>2, <2>3, ProgramHashed
<1>3. CASE Spawn
  <2>a. /\ gate.at = "spawn" /\ gate.purpose \in Command
        /\ UNCHANGED <<catalog, order, shelf, agent, journal, tainted, hostVars, denied, denier, modes,
                       stops, crashes, killed, unwritten, replaced>>
    BY <1>3, ProcessConcludes DEF Spawn
  <2>1. CASE /\ shelf.program \in Program /\ said' = NothingSaid /\ UNCHANGED <<st, todo>>
             /\ gate' = [gate EXCEPT !.at = "started", !.image = shelf.program]
    <3>1. gate' \in GateType
      BY <2>1 DEF TypeOK, GateType, ProcessAt
    <3>2. Placed'
      BY <2>a, <2>1 DEF Placed, GateFits, TypeOK, Command
    <3> QED
      BY <2>a, <2>1, <3>1, <3>2 DEF TypeOK, GateType
  <2>2. CASE TriesAgain /\ gate' = [gate EXCEPT !.tries = @ + 1] /\ UNCHANGED <<st, todo, said>>
    <3>a. gate \in GateType /\ gate.tries \in 0..SpawnRetries /\ SpawnRetries \in Nat
      BY BoundsAssumption DEF TypeOK, GateType
    <3>b. gate.tries < SpawnRetries
      BY <2>2 DEF TriesAgain
    <3>c. gate.tries + 1 \in 0..SpawnRetries
      BY <3>a, <3>b
    <3>1. gate' \in GateType
      BY <2>2, <3>a, <3>c DEF GateType
    <3>2. Placed'
      BY <2>a, <2>2 DEF Placed, GateFits, TypeOK
    <3> QED
      BY <2>a, <2>2, <3>1, <3>2 DEF TypeOK, GateType
  <2>3. CASE UNCHANGED said /\ Concludes(InvocationFailed(gate.purpose))
    <3>1. /\ st' \in MachineState /\ todo' \in Seq(Effect) /\ gate' = NoGate /\ Placed'
      BY <2>a, <2>3, ConcludesTask
    <3> QED
      BY <2>a, <2>3, <3>1, NoGateType DEF TypeOK, GateType
  <2> QED
    BY <1>3, <2>1, <2>2, <2>3, ProcessConcludes
<1> QED
  BY <1>1, <1>2, <1>3

(* A quarantine is recorded, or the record could not be written.            *)
Marked == (tainted' = TRUE /\ unwritten' = FALSE) \/ (UNCHANGED tainted /\ unwritten' = TRUE)

(* One effect performed, case by case.                                      *)
LEMMA Performed ==
  ASSUME TypeOK, Placed, Perform
  PROVE  /\ agent = "running" /\ gate.at = "rest" /\ todo # << >> /\ TaskFits(st, todo)
         /\ UNCHANGED <<catalog, order, shelf, agent, hostVars, denied, denier, said, modes, stops,
                        crashes, killed, replaced>>
         /\ \/ \E c \in Command :
                 /\ todo = <<Invoke(c)>> /\ AsksFor(st, c)
                 /\ gate' = [NoGate EXCEPT !.at = "manifest", !.purpose = c]
                 /\ UNCHANGED <<st, todo, journal, tainted, unwritten>>
            \/ /\ \E s \in WireState : Head(todo) = EmitStatus(s)
               /\ todo' = Tail(todo) /\ TaskFits(st, todo') /\ ~MarksNext(todo')
               /\ UNCHANGED <<st, gate, journal, tainted, unwritten>>
            \/ /\ st.kind = "WritingJournal" /\ UNCHANGED <<gate, tainted, unwritten>>
               /\ \/ /\ journal' = TRUE
                     /\ \/ /\ st' = Plain("Injecting", None)
                           /\ todo' = <<EmitStatus("Injecting"), Invoke("Inject")>>
                        \/ st' = Plain("Aborted", None) /\ todo' = <<RemoveJournal, EmitStatus("Aborted")>>
                  \/ /\ UNCHANGED journal
                     /\ st' = Plain("Aborted", None) /\ todo' = <<EmitStatus("Aborted")>>
            \/ /\ Head(todo) = RemoveJournal /\ st.kind \in Terminal
               /\ journal' \in {FALSE, journal} /\ todo' = Tail(todo)
               /\ TaskFits(st, todo') /\ ~MarksNext(todo')
               /\ UNCHANGED <<st, gate, tainted, unwritten>>
            \/ /\ MarksNext(todo) /\ st.kind \in Terminal /\ Marked
               /\ todo' = Tail(todo)
               /\ TaskFits(st, todo') /\ ~MarksNext(todo')
               /\ UNCHANGED <<st, gate, journal>>
<1>1. /\ agent = "running" /\ gate.at = "rest" /\ todo # << >> /\ TaskFits(st, todo)
      /\ UNCHANGED <<catalog, order, shelf, agent, hostVars, denied, denier, said, modes, stops,
                     crashes, killed, replaced>>
  BY DEF Perform, Performs, Placed
<1>2. st \in MachineState /\ todo \in Seq(Effect)
  BY DEF TypeOK
<1>3. ASSUME NEW c \in Command, Performs(Invoke(c)),
             gate' = [NoGate EXCEPT !.at = "manifest", !.purpose = c],
             UNCHANGED <<st, todo, journal, tainted, unwritten>>
      PROVE  todo = <<Invoke(c)>> /\ AsksFor(st, c)
  BY <1>1, <1>3, Heads DEF Performs
<1>4. ASSUME NEW s \in WireState, Performs(EmitStatus(s)), todo' = Tail(todo)
      PROVE  Head(todo) = EmitStatus(s) /\ TaskFits(st, todo') /\ ~MarksNext(todo')
  BY <1>1, <1>4, Heads DEF Performs
<1>5. ASSUME Performs(WriteJournal), NEW ev \in {Plainly("JournalWritten"), Plainly("JournalWriteFailed")},
             Deliver(ev, Tail(todo))
      PROVE  /\ st.kind = "WritingJournal"
             /\ ev = Plainly("JournalWritten") =>
                  \/ /\ st' = Plain("Injecting", None)
                     /\ todo' = <<EmitStatus("Injecting"), Invoke("Inject")>>
                  \/ st' = Plain("Aborted", None) /\ todo' = <<RemoveJournal, EmitStatus("Aborted")>>
             /\ ev = Plainly("JournalWriteFailed") =>
                  st' = Plain("Aborted", None) /\ todo' = <<EmitStatus("Aborted")>>
  <2>1. todo = <<WriteJournal>> /\ st.kind = "WritingJournal"
    BY <1>1, <1>5, Heads DEF Performs
  <2>2. Tail(todo) = << >>
    BY <2>1
  <2>3. ev \in Event
    BY DEF Event
  <2>4. st' = Step(st, ev).state /\ todo' = Step(st, ev).effects
    <3>1. \A t \in Seq(Effect) : << >> \o t = t
      OBVIOUS
    <3> QED
      BY <1>2, <1>5, <2>2, <2>3, <3>1, StepType DEF Deliver
  <2>5. Step(st, ev) = StepWritingJournal(st, ev)
    BY <2>1 DEF Step, Terminal
  <2>6. /\ Plainly("JournalWritten").type = "JournalWritten"
        /\ Plainly("JournalWriteFailed").type = "JournalWriteFailed"
    BY DEF Plainly, EventOf
  <2>7. CASE ev = Plainly("JournalWritten")
    <3>1. Step(st, ev) \in {To(Plain("Injecting", None), <<EmitStatus("Injecting"), Invoke("Inject")>>),
                            AbortedUnjournaled}
      BY <2>5, <2>6, <2>7 DEF StepWritingJournal
    <3> QED
      BY <2>1, <2>4, <2>6, <2>7, <3>1 DEF To, AbortedUnjournaled
  <2>8. CASE ev = Plainly("JournalWriteFailed")
    <3>1. Step(st, ev) = AbortedWith
      BY <2>5, <2>6, <2>8 DEF StepWritingJournal
    <3> QED
      BY <2>1, <2>4, <2>6, <2>8, <3>1 DEF To, AbortedWith
  <2> QED
    BY <2>7, <2>8
<1>6. ASSUME Performs(RemoveJournal) \/ Performs(MarkTainted), todo' = Tail(todo)
      PROVE  st.kind \in Terminal /\ TaskFits(st, todo') /\ ~MarksNext(todo')
  BY <1>1, <1>6, Heads DEF Performs
<1>7. CASE \E c \in Command : /\ Performs(Invoke(c))
                              /\ gate' = [NoGate EXCEPT !.at = "manifest", !.purpose = c]
                              /\ UNCHANGED <<st, todo, journal, tainted, unwritten>>
  BY <1>1, <1>3, <1>7
<1>8. CASE /\ \E s \in WireState : Performs(EmitStatus(s))
           /\ todo' = Tail(todo) /\ UNCHANGED <<st, gate, journal, tainted, unwritten>>
  BY <1>1, <1>4, <1>8
<1>9. CASE /\ Performs(WriteJournal) /\ UNCHANGED <<gate, tainted, unwritten>>
           /\ \/ journal' = TRUE /\ Deliver(Plainly("JournalWritten"), Tail(todo))
              \/ UNCHANGED journal /\ Deliver(Plainly("JournalWriteFailed"), Tail(todo))
  BY <1>1, <1>5, <1>9
<1>10. CASE /\ Performs(RemoveJournal) /\ journal' \in {FALSE, journal} /\ todo' = Tail(todo)
            /\ UNCHANGED <<st, gate, tainted, unwritten>>
  BY <1>1, <1>6, <1>10 DEF Performs
<1>11. CASE Performs(MarkTainted) /\ Marked /\ todo' = Tail(todo) /\ UNCHANGED <<st, gate, journal>>
  BY <1>1, <1>6, <1>11 DEF Performs, MarksNext
<1> QED
  BY <1>7, <1>8, <1>9, <1>10, <1>11 DEF Perform, Marked

(* An effect performed keeps the types.                                     *)
LEMMA PerformType ==
  ASSUME TypeOK, Placed, Perform
  PROVE  TypeOK' /\ Placed'
<1> USE DEF hostVars, histVars
<1>1. /\ agent = "running" /\ gate.at = "rest" /\ todo # << >> /\ TaskFits(st, todo)
      /\ UNCHANGED <<catalog, order, shelf, agent, hostVars, denied, denier, said, modes, stops,
                     crashes, killed, replaced>>
  BY Performed
<1>2. todo \in Seq(Effect) /\ Tail(todo) \in Seq(Effect)
  BY <1>1 DEF TypeOK
<1>3. /\ st' \in MachineState /\ todo' \in Seq(Effect) /\ gate' \in GateType
      /\ {journal', tainted', unwritten'} \subseteq BOOLEAN /\ Placed'
  <2>1. ASSUME NEW c \in Command, todo = <<Invoke(c)>>,
               gate' = [NoGate EXCEPT !.at = "manifest", !.purpose = c],
               UNCHANGED <<st, todo, journal, tainted, unwritten>>
        PROVE  /\ st' \in MachineState /\ todo' \in Seq(Effect) /\ gate' \in GateType
               /\ {journal', tainted', unwritten'} \subseteq BOOLEAN /\ Placed'
    <3>1. gate' \in GateType /\ gate'.purpose = c
      BY <2>1, NoGateType DEF GateType
    <3> QED
      BY <1>1, <2>1, <3>1 DEF TypeOK, Placed, GateFits
  <2>2. CASE todo' = Tail(todo) /\ TaskFits(st, todo') /\ UNCHANGED <<st, gate>>
             /\ journal' \in {FALSE, journal} /\ (UNCHANGED <<tainted, unwritten>> \/ Marked)
    BY <1>1, <1>2, <2>2 DEF Marked, TypeOK, Placed, GateFits, GateType
  <2>3. CASE /\ UNCHANGED <<gate, tainted, unwritten>> /\ (UNCHANGED journal \/ journal' = TRUE)
             /\ \/ /\ st' = Plain("Injecting", None)
                   /\ todo' = <<EmitStatus("Injecting"), Invoke("Inject")>>
                \/ /\ st' = Plain("Aborted", None)
                   /\ todo' \in {<<RemoveJournal, EmitStatus("Aborted")>>, <<EmitStatus("Aborted")>>}
    <3>1. st' \in MachineState
      BY <2>3, PlainType DEF Kind, PreInject, Terminal
    <3>2. todo' \in Seq(Effect)
      <4>1. /\ RemoveJournal \in Effect /\ EmitStatus("Aborted") \in Effect
            /\ EmitStatus("Injecting") \in Effect /\ Invoke("Inject") \in Effect
        BY EffectTypes DEF WireState, Terminal, Command
      <4>2. ASSUME NEW a \in Effect, NEW b \in Effect
            PROVE  <<a, b>> \in Seq(Effect) /\ <<b>> \in Seq(Effect)
        OBVIOUS
      <4> QED
        BY <2>3, <4>1, <4>2
    <3>3. TaskFits(st', todo')
      BY <2>3 DEF TaskFits, Plain, Terminal
    <3> QED
      BY <1>1, <2>3, <3>1, <3>2, <3>3 DEF TypeOK, Placed, GateFits, GateType
  <2> QED
    BY <2>1, <2>2, <2>3, Performed
<1> QED
  BY <1>1, <1>3 DEF TypeOK, GateType

(* The task, the process and the host: the other steps.                     *)
LEMMA StopTypes ==
  ASSUME TypeOK, Placed, StopActive \/ StopDuringRun
  PROVE  TypeOK' /\ Placed'
<1> USE DEF hostVars, histVars
<1>1. CASE StopActive
  <2>1. PICK cause \in StopCause : Deliver(StopRequested(cause), << >>)
    BY <1>1 DEF StopActive
  <2>2. /\ agent = "running" /\ st.kind = "Active" /\ todo = << >> /\ gate.at = "rest"
        /\ UNCHANGED <<catalog, order, shelf, agent, gate, journal, tainted, hostVars, histVars,
                       replaced>>
    BY <1>1 DEF StopActive, Placed, GateFits, Command
  <2>3. StopRequested(cause) \in Event /\ st \in MachineState
    BY DEF Event, TypeOK
  <2>4. Step(st, StopRequested(cause)) = StartRecovery(cause)
    BY <2>2 DEF Step, StepActive, StopRequested, EventOf, Terminal
  <2>5. /\ st' = StartRecovery(cause).state /\ todo' = StartRecovery(cause).effects
        /\ st' \in MachineState /\ todo' \in Seq(Effect)
    <3>1. \A t \in Seq(Effect) : << >> \o t = t
      OBVIOUS
    <3> QED
      BY <2>1, <2>3, <2>4, <3>1, StepType DEF Deliver
  <2> QED
    BY <2>2, <2>5, MovesFit DEF TypeOK, GateType, Placed, GateFits
<1>2. CASE StopDuringRun
  <2>1. /\ gate.at # "rest" /\ gate.purpose \in Command /\ stops < MaxStops /\ stops' = stops + 1
        /\ st' = Step(st, StopRequested("OperatorAbort")).state
        /\ UNCHANGED <<catalog, order, shelf, agent, todo, gate, journal, tainted, hostVars,
                       denied, denier, said, modes, crashes, killed, unwritten, replaced>>
    BY <1>2, ProcessConcludes DEF StopDuringRun, IsRunning, ProcessAt
  <2>2. /\ agent = "running" /\ todo = <<Invoke(gate.purpose)>> /\ AsksFor(st, gate.purpose)
    BY <2>1, Asked
  <2>3. st' \in MachineState /\ st'.kind = st.kind /\ st'.current = st.current
    BY <2>1, <2>2, StopSteps DEF TypeOK
  <2>4. stops' \in 0..MaxStops
    BY <2>1, BoundsAssumption DEF TypeOK
  <2>5. TaskFits(st', todo')
    BY <2>1, <2>2, <2>3 DEF Placed, TaskFits
  <2>6. gate.purpose # "Setup"
    BY <2>1 DEF Command
  <2> QED
    BY <2>1, <2>2, <2>3, <2>4, <2>5, <2>6 DEF TypeOK, GateType, Placed, GateFits
<1> QED
  BY <1>1, <1>2

(* A step of the process touches the gate and the host only.                *)
LEMMA ProcessSteps ==
  ASSUME TypeOK, Placed, Process
  PROVE  /\ IsRunning /\ gate.purpose \in Command
         /\ UNCHANGED <<catalog, order, shelf, machineVars, histVars, replaced>>
         /\ \E at \in ProcessAt, code \in Code : gate' = [gate EXCEPT !.at = at, !.code = code]
         /\ gate'.at \in {"probe", "written", "exiting"} /\ gate'.purpose = gate.purpose
         /\ gate'.seen = gate.seen /\ gate'.image = gate.image
         /\ dir' \in Modes /\ marker' \in {"absent", "present"}
<1>1. /\ IsRunning /\ UNCHANGED <<catalog, order, shelf, machineVars, histVars, replaced>>
  BY DEF Process, PreflightDir, PreflightProbe, WriteTemp, Persist, Revert, Runs, OnHost,
         IsRunning, ProcessAt
<1>2. gate.purpose \in Command
  BY <1>1, ProcessConcludes
<1>3. dir' \in Modes /\ marker' \in {"absent", "present"}
  BY DEF Process, PreflightDir, PreflightProbe, WriteTemp, Persist, Revert, TypeOK, Modes,
         hostVars
<1>4. \/ \E code \in Code : gate' = [gate EXCEPT !.at = "exiting", !.code = code]
      \/ gate' = [gate EXCEPT !.at = "probe"]
      \/ gate' = [gate EXCEPT !.at = "written"]
  BY DEF Process, PreflightDir, PreflightProbe, WriteTemp, Persist, Revert, Exiting, Code
<1>5. gate \in GateType
  BY DEF TypeOK, GateType
<1>6. gate.code \in Code /\ gate = [gate EXCEPT !.code = gate.code]
  BY <1>5 DEF GateType
<1>7. \E at \in ProcessAt, code \in Code : gate' = [gate EXCEPT !.at = at, !.code = code]
  <2>1. CASE \E code \in Code : gate' = [gate EXCEPT !.at = "exiting", !.code = code]
    BY <2>1 DEF ProcessAt
  <2>2. ASSUME NEW at \in {"probe", "written"}, gate' = [gate EXCEPT !.at = at]
        PROVE  gate' = [gate EXCEPT !.at = at, !.code = gate.code]
    BY <1>5, <2>2 DEF GateType
  <2> QED
    BY <1>4, <1>6, <2>1, <2>2 DEF ProcessAt
<1>8. /\ gate'.at \in {"probe", "written", "exiting"} /\ gate'.purpose = gate.purpose
      /\ gate'.seen = gate.seen /\ gate'.image = gate.image
  <2>1. CASE \E code \in Code : gate' = [gate EXCEPT !.at = "exiting", !.code = code]
    BY <1>5, <2>1 DEF GateType
  <2>2. CASE gate' = [gate EXCEPT !.at = "probe"]
    BY <1>5, <2>2 DEF GateType
  <2>3. CASE gate' = [gate EXCEPT !.at = "written"]
    BY <1>5, <2>3 DEF GateType
  <2> QED
    BY <1>4, <2>1, <2>2, <2>3
<1> QED
  BY <1>1, <1>2, <1>3, <1>7, <1>8

(* The steps and the ends of the process keep the types.                    *)
LEMMA ProcessTypes ==
  ASSUME TypeOK, Placed, Process \/ ProcessExits \/ ProcessKilled
  PROVE  TypeOK' /\ Placed'
<1> USE DEF hostVars, histVars, machineVars
<1>1. CASE Process
  <2>1. gate' \in GateType
    BY <1>1, ProcessSteps DEF TypeOK, GateType
  <2>2. Placed'
    BY <1>1, ProcessSteps DEF Placed, GateFits, IsRunning, ProcessAt, Command
  <2>3. /\ UNCHANGED <<catalog, order, shelf, agent, st, todo, journal, tainted, denied, denier, said,
                       modes, stops, crashes, killed, unwritten, replaced>>
        /\ dir' \in Modes /\ marker' \in {"absent", "present"}
    BY <1>1, ProcessSteps
  <2> QED
    BY <2>1, <2>2, <2>3 DEF TypeOK, GateType
<1>2. CASE ProcessExits
  <2>1. /\ Concludes(CommandFinished(gate.purpose, DispositionOf(gate.code)))
        /\ said' = <<gate.purpose, DispositionOf(gate.code)>> /\ gate.purpose \in Command
        /\ UNCHANGED <<catalog, order, shelf, agent, journal, tainted, hostVars, denied, denier, modes,
                       stops, crashes, killed, unwritten, replaced>>
    BY <1>2, ProcessConcludes DEF ProcessExits, IsRunning, ProcessAt
  <2>2. DispositionOf(gate.code) \in Disposition
    BY DEF DispositionOf, Disposition, TypeOK, Code
  <2>3. said' \in Command \X Disposition
    BY <2>1, <2>2
  <2>4. st' \in MachineState /\ todo' \in Seq(Effect) /\ gate' = NoGate /\ Placed'
    BY <2>1, ConcludesTask
  <2> QED
    BY <2>1, <2>3, <2>4, NoGateType DEF TypeOK, GateType
<1>3. CASE ProcessKilled
  <2>1. /\ Concludes(InvocationFailed(gate.purpose)) /\ said' = NothingSaid /\ killed' = TRUE
        /\ UNCHANGED <<catalog, order, shelf, agent, journal, tainted, hostVars, denied, denier, modes,
                       stops, crashes, unwritten, replaced>>
    BY <1>3, ProcessConcludes DEF ProcessKilled
  <2>2. st' \in MachineState /\ todo' \in Seq(Effect) /\ gate' = NoGate /\ Placed'
    BY <2>1, ConcludesTask
  <2> QED
    BY <2>1, <2>2, NoGateType DEF TypeOK, GateType
<1> QED
  BY <1>1, <1>2, <1>3

(* What an installed file may be.                                           *)
LEMMA InstallSteps ==
  ASSUME TypeOK, Install
  PROVE  /\ order # Absent /\ shelf' \in Files
         /\ replaced'.files = replaced.files + 1 /\ replaced'.since
         /\ replaced' \in [files : 0..MaxInstalls, since : BOOLEAN]
         /\ UNCHANGED <<catalog, order, machineVars, gate, hostVars, histVars>>
<1>1. PICK files \in Files : Installed(files)
  BY DEF Install, TypeOK, Files
<1>2. replaced.files < MaxInstalls /\ replaced' = [files |-> replaced.files + 1, since |-> TRUE]
  BY <1>1 DEF Installed
<1>3. replaced' \in [files : 0..MaxInstalls, since : BOOLEAN]
  BY <1>2, BoundsAssumption DEF TypeOK
<1> QED
  BY <1>1, <1>2, <1>3 DEF Installed

(* The steps of the host and of its administrator keep the types.           *)
LEMMA WorldTypes ==
  ASSUME TypeOK, Placed, Install \/ ChangeMode \/ Crash \/ Restart \/ UNCHANGED vars
  PROVE  TypeOK' /\ Placed'
<1> USE DEF hostVars, histVars, machineVars
<1>1. CASE Install
  BY <1>1, InstallSteps DEF TypeOK, GateType, Placed, GateFits
<1>2. CASE ChangeMode
  <2>1. /\ dir' \in Modes /\ modes' = modes + 1 /\ modes < MaxModes
        /\ UNCHANGED <<catalog, order, shelf, machineVars, gate, marker, denied, denier, said, stops,
                       crashes, killed, unwritten, replaced>>
    BY <1>2 DEF ChangeMode, Modes
  <2>2. modes' \in 0..MaxModes
    BY <2>1, BoundsAssumption DEF TypeOK
  <2> QED
    BY <2>1, <2>2 DEF TypeOK, GateType, Placed, GateFits
<1>3. CASE Crash
  <2>1. /\ crashes < MaxCrashes /\ crashes' = crashes + 1 /\ agent' = "down"
        /\ gate' = NoGate /\ todo' = << >> /\ said' \in {NothingSaid, said}
        /\ UNCHANGED <<catalog, order, shelf, st, journal, tainted, hostVars, denied, denier, modes,
                       stops, killed, unwritten, replaced>>
    BY <1>3 DEF Crash
  <2>2. crashes' \in 0..MaxCrashes
    BY <2>1, BoundsAssumption DEF TypeOK
  <2>3. gate'.at = "rest" /\ << >> \in Seq(Effect)
    BY <2>1 DEF NoGate, Gate
  <2> QED
    BY <2>1, <2>2, <2>3, NoGateType DEF TypeOK, GateType, Placed, GateFits
<1>4. CASE Restart
  <2>1. /\ agent = "down" /\ gate.at = "rest" /\ todo = << >>
        /\ UNCHANGED <<catalog, order, shelf, gate, journal, tainted, hostVars, histVars, replaced>>
    BY <1>4 DEF Restart, Placed, GateFits
  <2>2. CASE ~journal /\ agent' = "forgot" /\ UNCHANGED <<st, todo>>
    BY <2>1, <2>2 DEF TypeOK, GateType, Placed, GateFits
  <2>3. ASSUME NEW outcome \in {"Aborted", "Error"}, agent' = "running",
               st' = ReplayRecovery(outcome).state, todo' = ReplayRecovery(outcome).effects
        PROVE  TypeOK' /\ Placed'
    <3>1. /\ st' = Recovering("Abort", <<"Cleanup">>, outcome, FALSE)
          /\ todo' = <<EmitStatus("Recovering"), Invoke("Abort")>>
      BY <2>3 DEF ReplayRecovery, To
    <3>2. st' \in MachineState
      BY <3>1, RecoveringType DEF Terminal
    <3>3. EmitStatus("Recovering") \in Effect /\ Invoke("Abort") \in Effect
      BY EffectTypes DEF WireState, Command
    <3>4. todo' \in Seq(Effect)
      BY <3>1, <3>3
    <3>5. TaskFits(st', todo')
      BY <3>1 DEF TaskFits, Recovering
    <3> QED
      BY <2>1, <2>3, <3>2, <3>4, <3>5 DEF TypeOK, GateType, Placed, GateFits
  <2> QED
    BY <1>4, <2>2, <2>3 DEF Restart
<1>5. CASE UNCHANGED vars
  BY <1>5 DEF vars, TypeOK, GateType, Placed, GateFits
<1> QED
  BY <1>1, <1>2, <1>3, <1>4, <1>5

(* Every step keeps the types.                                              *)
LEMMA TypeStep ==
  ASSUME TypeOK, Placed, [Next]_vars
  PROVE  TypeOK' /\ Placed'
  BY SubmitType, GateTypes, PerformType, StopTypes, ProcessTypes, WorldTypes DEF Next

-----------------------------------------------------------------------------
(***************************************************************************)
(* How the gate moves.                                                     *)
(***************************************************************************)
(* Events that are told apart.                                              *)
LEMMA EventsDiffer ==
  /\ Plainly("SetupOk") # Plainly("SetupFailed")
  /\ \A c, d, e : CommandFinished(c, d) = CommandFinished(c, e) => d = e
  /\ \A b, c, d : CommandFinished(c, d) \notin {InvocationFailed(b), InvokeRejected(b)}
  /\ \A b, c : InvocationFailed(c) # InvokeRejected(b)
  /\ \A c : InvokeRejected(c) # Plainly("SetupOk") /\ InvokeRejected(c) # Plainly("SetupFailed")
  /\ \A c, d : CommandFinished(c, d) # Plainly("SetupFailed")
<1>1. /\ \A c, d : /\ CommandFinished(c, d).type = "CommandFinished"
                    /\ CommandFinished(c, d).disposition = d
      /\ \A c : /\ InvocationFailed(c).type = "InvocationFailed"
                /\ InvokeRejected(c).type = "InvokeRejected"
      /\ \A t : Plainly(t).type = t
  BY DEF CommandFinished, InvocationFailed, InvokeRejected, Plainly, EventOf
<1> QED
  BY <1>1

(* How setup and each command end, and where that leaves the machine.       *)
SetupEnds(ev) ==
  /\ gate.purpose = "Setup" /\ st.kind = "Pending" /\ ~MarksNext(todo')
  /\ \/ ev = Plainly("SetupOk") /\ st'.kind = "PreflightInstall"
     \/ st'.kind = "Aborted"

PreflightEnds(ev) ==
  /\ gate.purpose = "Preflight" /\ st.kind \in {"PreflightInstall", "PreflightRuntime"}
  /\ ~MarksNext(todo')
  /\ \/ st'.kind = "Aborted"
     \/ /\ ev = CommandFinished("Preflight", "Success")
        /\ st'.kind \in {"PreflightRuntime", "WritingJournal"}

InjectEnds(ev) ==
  /\ gate.purpose = "Inject" /\ st.kind = "Injecting" /\ ~MarksNext(todo')
  /\ \/ st'.kind = "Active"
     \/ st'.kind = "Recovering" /\ ~st'.retried
     \/ /\ ev \in {CommandFinished("Inject", "InjectFailed"), InvokeRejected("Inject")}
        /\ st'.kind = "Aborted"

RecoveryEnds(ev) ==
  /\ gate.purpose \in {"Abort", "Cleanup"} /\ st.kind = "Recovering"
  /\ \/ /\ ev = CommandFinished(gate.purpose, "Success") /\ ~MarksNext(todo')
        /\ st'.kind \in Terminal \/ (st'.kind = "Recovering" /\ ~st'.retried)
     \/ /\ ev # CommandFinished(gate.purpose, "Success")
        /\ \/ st'.kind = "Recovering" /\ ~MarksNext(todo')
           \/ st'.kind \in Terminal /\ MarksNext(todo') /\ st.retried

(* What an answer ends: the setup, a preflight, the injection or a          *)
(* recovery.                                                                *)
LEMMA Conclusions ==
  ASSUME TypeOK, Placed, NEW ev, Concludes(ev), UNCHANGED agent
  PROVE  /\ agent = "running" /\ gate' = NoGate /\ gate'.at = "rest" /\ gate.at # "rest"
         /\ SetupEnds(ev) \/ PreflightEnds(ev) \/ InjectEnds(ev) \/ RecoveryEnds(ev)
<1>1. /\ agent = "running" /\ gate' = NoGate /\ gate'.at = "rest" /\ gate.at # "rest"
      /\ st' = Step(st, ev).state /\ todo' = Step(st, ev).effects
  BY ConcludesTask DEF Concludes, Placed, GateFits, NoGate, Gate
<1>2. /\ \A c : ~MarksNext(<<Invoke(c)>>)
      /\ \A s : ~MarksNext(<<EmitStatus(s)>>)
      /\ \A s, c : ~MarksNext(<<EmitStatus(s), Invoke(c)>>)
      /\ \A s : ~MarksNext(<<RemoveJournal, EmitStatus(s)>>)
      /\ \A a, b : MarksNext(<<MarkTainted, a, b>>)
      /\ ~MarksNext(<<WriteJournal>>)
  <2>1. /\ \A a, b, c : Head(<<a>>) = a /\ Head(<<a, b>>) = a /\ Head(<<a, b, c>>) = a
        /\ \A a, b, c : <<a, b, c>> # << >>
    OBVIOUS
  <2> QED
    BY <2>1, EffectsDiffer DEF MarksNext
<1>3. st \in MachineState
  BY DEF TypeOK
<1>4. CASE gate.purpose = "Setup" /\ ev \in {Plainly("SetupOk"), Plainly("SetupFailed")}
  <2>1. st.kind = "Pending"
    BY <1>1, <1>4 DEF Placed, GateFits, Command
  <2>2. /\ ev = Plainly("SetupOk") => st'.kind = "PreflightInstall"
        /\ ev = Plainly("SetupFailed") => st'.kind = "Aborted"
        /\ ~MarksNext(todo')
    <3>1. \/ /\ ev = Plainly("SetupOk") /\ st' = Plain("PreflightInstall", None)
             /\ todo' = <<EmitStatus("Preflight"), Invoke("Preflight")>>
          \/ /\ ev = Plainly("SetupFailed") /\ st' = Plain("Aborted", None)
             /\ todo' = <<EmitStatus("Aborted")>>
      BY <1>1, <1>3, <1>4, <2>1, SetupSteps DEF To, AbortedWith
    <3> QED
      BY <1>2, <3>1, EventsDiffer DEF Plain
  <2> QED
    BY <1>1, <1>4, <2>1, <2>2 DEF SetupEnds
<1>5. CASE gate.purpose \in Command /\ ev \in Answers(gate.purpose)
  <2> DEFINE r == Step(st, ev)
  <2>1. AsksFor(st, gate.purpose)
    BY <1>1, <1>5, Asked
  <2>2. PreflightAnswered(st, ev, r) \/ InjectAnswered(st, ev, r) \/ RecoveryAnswered(st, ev, r)
    BY <1>3, <1>5, <2>1, AnswerSteps
  <2>3. st' = r.state /\ todo' = r.effects
    BY <1>1
  <2> HIDE DEF r
  <2>4. CASE PreflightAnswered(st, ev, r)
    <3>1. gate.purpose = "Preflight" /\ st.kind \in {"PreflightInstall", "PreflightRuntime"}
      BY <2>1, <2>4 DEF AsksFor, PreflightAnswered
    <3>2. CASE r = AbortedWith
      <4>1. st' = Plain("Aborted", None) /\ todo' = <<EmitStatus("Aborted")>>
        BY <2>3, <3>2 DEF To, AbortedWith
      <4> QED
        BY <1>1, <1>2, <1>3, <3>1, <3>2, <4>1 DEF PreflightEnds, Plain
    <3>3. CASE /\ ev = CommandFinished("Preflight", "Success")
               /\ \/ r = To(Plain("PreflightRuntime", None), <<Invoke("Preflight")>>)
                  \/ r = To(Plain("WritingJournal", None), <<WriteJournal>>)
      <4>1. \/ st' = Plain("PreflightRuntime", None) /\ todo' = <<Invoke("Preflight")>>
            \/ st' = Plain("WritingJournal", None) /\ todo' = <<WriteJournal>>
        BY <2>3, <3>3 DEF To
      <4> QED
        <5>1. st'.kind \in {"PreflightRuntime", "WritingJournal"} /\ ~MarksNext(todo')
          BY <1>2, <4>1 DEF Plain
        <5> QED
          BY <1>1, <3>1, <3>3, <5>1 DEF PreflightEnds
    <3> QED
      BY <1>1, <2>4, <3>2, <3>3 DEF PreflightAnswered
  <2>5. CASE InjectAnswered(st, ev, r)
    <3>1. gate.purpose = "Inject" /\ st.kind = "Injecting"
      BY <2>1, <2>5 DEF AsksFor, InjectAnswered
    <3>2. CASE r = To(Plain("Active", None), <<EmitStatus("Active")>>)
      <4>1. st' = Plain("Active", None) /\ todo' = <<EmitStatus("Active")>>
        BY <2>3, <3>2 DEF To
      <4> QED
        BY <1>1, <1>2, <1>3, <3>1, <3>2, <4>1 DEF InjectEnds, Plain
    <3>3. ASSUME NEW cause \in StopCause, r = StartRecovery(cause)
          PROVE  InjectEnds(ev)
      <4>1. PICK c \in {"Abort", "Cleanup"}, rest \in {<< >>, <<"Cleanup">>}, o \in Terminal :
              r = To(Recovering(c, rest, o, FALSE), <<EmitStatus("Recovering"), Invoke(c)>>)
        BY <3>3, StartRecoveryType
      <4>2. /\ st' = Recovering(c, rest, o, FALSE)
            /\ todo' = <<EmitStatus("Recovering"), Invoke(c)>>
        BY <2>3, <4>1 DEF To
      <4> QED
        BY <1>2, <3>1, <4>2 DEF InjectEnds, Recovering
    <3>4. CASE /\ ev \in {CommandFinished("Inject", "InjectFailed"), InvokeRejected("Inject")}
               /\ r = AbortedUnjournaled
      <4>1. st' = Plain("Aborted", None) /\ todo' = <<RemoveJournal, EmitStatus("Aborted")>>
        BY <2>3, <3>4 DEF To, AbortedUnjournaled
      <4> QED
        BY <1>1, <1>2, <1>3, <3>1, <3>4, <4>1 DEF InjectEnds, Plain
    <3> QED
      BY <1>1, <2>5, <3>2, <3>3, <3>4 DEF InjectAnswered
  <2>6. CASE RecoveryAnswered(st, ev, r)
    <3>1. /\ gate.purpose = st.current /\ st.kind = "Recovering" /\ st.outcome \in Terminal
          /\ gate.purpose \in {"Abort", "Cleanup"}
      BY <1>3, <2>1, <2>6 DEF AsksFor, RecoveryAnswered, MachineState
    <3>2. CASE r = To(Plain(st.outcome, None), <<RemoveJournal, EmitStatus(st.outcome)>>)
               /\ ev = CommandFinished(st.current, "Success")
      <4>1. st' = Plain(st.outcome, None) /\ todo' = <<RemoveJournal, EmitStatus(st.outcome)>>
        BY <2>3, <3>2 DEF To
      <4> QED
        BY <1>1, <1>2, <1>3, <3>1, <3>2, <4>1 DEF RecoveryEnds, Plain
    <3>3. CASE r = To(Recovering("Cleanup", << >>, st.outcome, FALSE), <<Invoke("Cleanup")>>)
               /\ ev = CommandFinished(st.current, "Success")
      <4>1. st' = Recovering("Cleanup", << >>, st.outcome, FALSE) /\ todo' = <<Invoke("Cleanup")>>
        BY <2>3, <3>3 DEF To
      <4> QED
        BY <1>1, <1>2, <1>3, <3>1, <3>3, <4>1 DEF RecoveryEnds, Recovering
    <3>4. CASE r = To([st EXCEPT !.retried = TRUE], <<Invoke(st.current)>>)
               /\ ev # CommandFinished(st.current, "Success")
      <4>1. st' = [st EXCEPT !.retried = TRUE] /\ todo' = <<Invoke(st.current)>>
        BY <2>3, <3>4 DEF To
      <4> QED
        BY <1>1, <1>2, <1>3, <3>1, <3>4, <4>1 DEF RecoveryEnds, MachineState
    <3>5. CASE /\ ev # CommandFinished(st.current, "Success") /\ st.retried
               /\ r = To(Plain("Error", None),
                         <<MarkTainted, RemoveJournal, EmitStatus("Error")>>)
      <4>1. st' = Plain("Error", None) /\ todo' = <<MarkTainted, RemoveJournal, EmitStatus("Error")>>
        BY <2>3, <3>5 DEF To
      <4> QED
        BY <1>1, <1>2, <1>3, <3>1, <3>5, <4>1 DEF RecoveryEnds, Plain, Terminal
    <3> QED
      BY <1>1, <2>6, <3>2, <3>3, <3>4, <3>5 DEF RecoveryAnswered
  <2> QED
    BY <2>2, <2>4, <2>5, <2>6
<1> QED
  BY <1>1, <1>4, <1>5 DEF Concludes

(***************************************************************************)
(* A step of the gate moves on, refuses, settles setup, or learns how the  *)
(* process ended.                                                          *)
(***************************************************************************)
Moves ==
  /\ gate.at # "rest" /\ UNCHANGED <<st, todo, denied, denier>>
  /\ \/ /\ gate.at = "manifest" /\ PathSafe(order.version) /\ Parses(shelf.manifest)
        /\ gate' = [gate EXCEPT !.at = "program", !.seen = shelf.manifest] /\ UNCHANGED replaced
     \/ /\ gate.at = "program" /\ Verified /\ gate' = [gate EXCEPT !.at = "spawn"]
        /\ replaced' = [replaced EXCEPT !.since = FALSE]
     \/ /\ gate.at = "spawn" /\ shelf.program \in Program
        /\ gate' = [gate EXCEPT !.at = "started", !.image = shelf.program] /\ UNCHANGED replaced
     \/ /\ gate.at = "spawn" /\ gate' = [gate EXCEPT !.tries = @ + 1] /\ UNCHANGED replaced

Rejects ==
  /\ \/ gate.at = "manifest" /\ ~(PathSafe(order.version) /\ Parses(shelf.manifest))
     \/ gate.at = "program" /\ ~Verified
  /\ Refuses

Settles ==
  /\ gate.at = "program" /\ Verified /\ gate.purpose = "Setup" /\ UNCHANGED replaced
  /\ denied' = SetupDenial(gate.seen, order)
  /\ denier' = IF denied' = None THEN Absent ELSE gate.seen
  /\ Concludes(Plainly(IF denied' = None THEN "SetupOk" ELSE "SetupFailed"))

Fails ==
  /\ gate.purpose \in Command /\ UNCHANGED <<denied, denier, replaced>>
  /\ killed' \/ (gate.at = "spawn" /\ shelf.program \notin Program)
  /\ Concludes(InvocationFailed(gate.purpose))

Exits ==
  /\ gate.purpose \in Command /\ gate.at = "exiting" /\ UNCHANGED <<denied, denier, replaced>>
  /\ Concludes(CommandFinished(gate.purpose, DispositionOf(gate.code)))

GateMoves == ReadManifest \/ HashProgram \/ Spawn \/ ProcessExits \/ ProcessKilled

(* What the steps of the gate leave alone, and what they do.                *)
LEMMA GateSteps ==
  ASSUME TypeOK, Placed, GateMoves
  PROVE  /\ UNCHANGED <<catalog, order, shelf, agent, journal, tainted, unwritten, hostVars, modes>>
         /\ replaced'.files = replaced.files /\ (killed => killed')
         /\ Moves \/ Rejects \/ Settles \/ Fails \/ Exits
<1> USE DEF hostVars
<1>0. replaced \in [files : 0..MaxInstalls, since : BOOLEAN]
  BY DEF TypeOK
<1>1. CASE ReadManifest
  BY <1>1, ManifestRead DEF ReadManifest, Moves, Rejects, Refuses
<1>2. CASE HashProgram
  BY <1>0, <1>2, ProgramHashed DEF HashProgram, Moves, Rejects, Settles, Refuses
<1>3. CASE Spawn
  BY <1>3, ProcessConcludes DEF Spawn, Moves, Fails
<1>4. CASE ProcessExits
  BY <1>4, ProcessConcludes DEF ProcessExits, Exits, IsRunning, ProcessAt
<1>5. CASE ProcessKilled
  BY <1>5, ProcessConcludes DEF ProcessKilled, Fails
<1> QED
  BY <1>1, <1>2, <1>3, <1>4, <1>5 DEF GateMoves

(* The event with which what is under way ends.                             *)
LEMMA GateEnds ==
  ASSUME TypeOK, Placed, GateMoves
  PROVE  \/ Moves
         \/ \E ev :
              /\ Concludes(ev)
              /\ \/ Rejects /\ ev \in {Plainly("SetupFailed"), InvokeRejected(gate.purpose)}
                 \/ Settles /\ (ev = Plainly("SetupOk") => denied' = None)
                    /\ ev \in {Plainly("SetupOk"), Plainly("SetupFailed")}
                 \/ Fails /\ ev = InvocationFailed(gate.purpose)
                 \/ /\ Exits /\ ev = CommandFinished(gate.purpose, DispositionOf(gate.code))
<1>1. Moves \/ Rejects \/ Settles \/ Fails \/ Exits
  BY GateSteps
<1>2. CASE Rejects
  BY <1>2 DEF Rejects, Refuses
<1>3. CASE Settles
  <2> DEFINE ev == Plainly(IF denied' = None THEN "SetupOk" ELSE "SetupFailed")
  <2>1. Concludes(ev) /\ ev \in {Plainly("SetupOk"), Plainly("SetupFailed")}
        /\ (ev = Plainly("SetupOk") => denied' = None)
    BY <1>3, EventsDiffer DEF Settles
  <2> QED
    BY <1>3, <2>1
<1>4. CASE Fails
  BY <1>4 DEF Fails
<1>5. CASE Exits
  BY <1>5 DEF Exits
<1> QED
  BY <1>1, <1>2, <1>3, <1>4, <1>5

-----------------------------------------------------------------------------
(***************************************************************************)
(* The files.                                                              *)
(***************************************************************************)
FilesAreTrusted == journal \/ st.kind \notin {"Pending"} \cup Terminal => Trusted

(* The gate is where a file or its digest has been looked at.               *)
GateTrusts ==
  /\ gate.at \notin {"rest", "manifest"} => gate.seen \in Manifest
  /\ gate.at \notin {"rest", "manifest"} /\ replaced.files = 0 =>
       PathSafe(order.version) /\ Parses(shelf.manifest) /\ gate.seen = shelf.manifest
  /\ gate.at = "spawn" /\ ~replaced.since => Digest(gate.seen, shelf.program) = order.digest
  /\ RanAsOrdered

(* What is known of the files at the start.                                 *)
LEMMA FilesInit == Init => FilesFit
  BY DEF Init, FilesFit, RanAsOrdered, ValidationAgrees, IsRunning, ProcessAt, NoGate, Gate, Files,
         Plain, None

(* An order finds the files as they are.                                    *)
LEMMA FilesSubmit ==
  ASSUME TypeOK, Placed, FilesFit, MarkerFits, Submit
  PROVE  FilesFit'
<1>1. /\ st.kind = "Pending" /\ ~journal /\ gate'.at = "manifest" /\ agent = "idle"
      /\ UNCHANGED <<catalog, shelf, st, journal, denied, denier, replaced>>
  BY DEF Submit, Placed, MarkerFits, PreInject, histVars, NoGate, Gate
<1>2. Allowed(order)'
  <2>1. PICK def \in Definition :
          /\ PluginFailures(catalog, def) = {}
          /\ \E e \in Entries(catalog, def.version) : order' = OrderOf(e, def)
    BY DEF Submit
  <2>2. PICK e \in Entries(catalog, def.version) : order' = OrderOf(e, def)
    BY <2>1
  <2>3. ValidParams(e.manifest.schema, def.params) /\ ~(def.duration > e.manifest.max)
    BY <2>1, <2>2 DEF PluginFailures
  <2>4. e \in catalog' /\ e.manifest.version = order'.version
    BY <1>1, <2>2 DEF Entries, OrderOf
  <2> QED
    BY <2>2, <2>3, <2>4 DEF Allowed
<1>3. agent' = "running" /\ denied' = None
  BY <1>1 DEF FilesFit, Submit
<1> QED
  BY <1>1, <1>2, <1>3 DEF FilesFit, RanAsOrdered, ValidationAgrees, IsRunning, ProcessAt, None

(* Two cuts of the same bytes: the shorter beginning is part of the longer. *)
LEMMA CutShorter ==
  ASSUME NEW S, NEW a \in Seq(S), NEW b \in Seq(S), NEW c \in Seq(S), NEW d \in Seq(S),
         a \o b = c \o d, Len(a) <= Len(c)
  PROVE  a = c \/ IsStrictPrefix(a, c)
<1>1. \A i \in 1..Len(a) : a[i] = c[i]
  <2>1. ASSUME NEW i \in 1..Len(a)
        PROVE  a[i] = c[i]
    <3>1. (a \o b)[i] = a[i]
      OBVIOUS
    <3>2. i \in 1..Len(c) /\ (c \o d)[i] = c[i]
      OBVIOUS
    <3> QED
      BY <3>1, <3>2
  <2> QED
    BY <2>1
<1>2. IsPrefix(a, c)
  <2>1. /\ SubSeq(a, 1, Len(a)) \in Seq(S) /\ Len(SubSeq(a, 1, Len(a))) = Len(a)
        /\ SubSeq(c, 1, Len(a)) \in Seq(S) /\ Len(SubSeq(c, 1, Len(a))) = Len(a)
    OBVIOUS
  <2>2. \A i \in 1..Len(a) : SubSeq(a, 1, Len(a))[i] = a[i] /\ SubSeq(c, 1, Len(a))[i] = c[i]
    OBVIOUS
  <2> QED
    BY <1>1, <2>1, <2>2 DEF IsPrefix
<1> QED
  BY <1>2 DEF IsStrictPrefix

(* Two files whose digests agree: the manifests are one, or cut elsewhere.  *)
LEMMA DigestsTell ==
  ASSUME NEW m \in Manifest, NEW n \in Manifest, NEW p, NEW q,
         p.bytes \in Seq(Chunk), q.bytes \in Seq(Chunk), Digest(m, p) = Digest(n, q)
  PROVE  m = n \/ Recut(m, n)
<1>1. /\ m.bytes \in Seq(Chunk) /\ n.bytes \in Seq(Chunk)
      /\ m.bytes = n.bytes => m = n
  BY FilesAssumption
<1>2. m.bytes \o p.bytes = n.bytes \o q.bytes
  BY DEF Digest
<1>3. Len(m.bytes) <= Len(n.bytes) \/ Len(n.bytes) <= Len(m.bytes)
  BY <1>1
<1>4. \/ m.bytes = n.bytes
      \/ IsStrictPrefix(m.bytes, n.bytes) \/ IsStrictPrefix(n.bytes, m.bytes)
  BY <1>1, <1>2, <1>3, CutShorter
<1> QED
  BY <1>1, <1>4 DEF Recut

(* What the master loaded are files.                                        *)
LEMMA LoadedAreFiles ==
  ASSUME TypeOK, NEW e \in catalog
  PROVE  e.manifest \in Manifest /\ e.program.bytes \in Seq(Chunk)
<1>1. PICK l \in Libraries : e \in l /\ Loads(e)
  BY DEF TypeOK, LoadCatalog
<1> QED
  BY <1>1, LibrariesAssumption, FilesAssumption DEF Loads, Parses

(* An order for the master's own copy is denied only by a manifest that is  *)
(* the master's, cut elsewhere.                                             *)
LEMMA SetupDeniesBlindly ==
  ASSUME TypeOK, Allowed(order), Verified, gate.seen \in Manifest,
         SetupDenial(gate.seen, order) # "None"
  PROVE  \E e \in Entries(catalog, order.version) :
           DigestOf(e) = order.digest /\ Recut(gate.seen, e.manifest)
<1>1. PICK e \in catalog, def \in Definition :
        /\ order = OrderOf(e, def) /\ e.manifest.version = order.version
        /\ ValidParams(e.manifest.schema, def.params)
        /\ ~(def.duration > e.manifest.max)
  BY DEF Allowed
<1>2. Digest(gate.seen, shelf.program) = Digest(e.manifest, e.program)
  BY <1>1 DEF Verified, OrderOf, DigestOf
<1>3. order.params = def.params /\ order.duration = def.duration /\ order.digest = DigestOf(e)
  BY <1>1 DEF OrderOf
<1>4. gate.seen # e.manifest
  BY <1>1, <1>3 DEF SetupDenial
<1>5. shelf.program.bytes \in Seq(Chunk)
  BY FilesAssumption DEF Verified, TypeOK, Files
<1>6. Recut(gate.seen, e.manifest)
  BY <1>2, <1>4, <1>5, LoadedAreFiles, DigestsTell
<1> QED
  BY <1>1, <1>3, <1>6 DEF Entries

(* The verdict stays what it was.                                           *)
LEMMA AgreesStill ==
  ASSUME ValidationAgrees, UNCHANGED <<catalog, order, denied, denier>>
  PROVE  ValidationAgrees'
  BY DEF ValidationAgrees

(* The steps of the gate keep what is known of the files.                   *)
LEMMA FilesGate ==
  ASSUME TypeOK, Placed, FilesFit, GateMoves
  PROVE  FilesFit'
<1>1. /\ UNCHANGED <<catalog, order, shelf, agent, journal>> /\ replaced'.files = replaced.files
  BY GateSteps
<1>2. Trusted => Trusted'
  BY <1>1 DEF Trusted
<1>3. gate \in GateType /\ replaced \in [files : 0..MaxInstalls, since : BOOLEAN]
  BY DEF TypeOK, GateType
<1>4. CASE Moves
  <2>1. UNCHANGED <<st, denied, denier>>
    BY <1>4 DEF Moves
  <2>2. GateTrusts'
    <3>1. CASE /\ gate.at = "manifest" /\ PathSafe(order.version) /\ Parses(shelf.manifest)
               /\ gate' = [gate EXCEPT !.at = "program", !.seen = shelf.manifest]
               /\ UNCHANGED replaced
      <4>1. shelf.manifest \in Manifest
        BY <3>1 DEF Parses, TypeOK, Files
      <4>2. gate'.at = "program" /\ gate'.seen = shelf.manifest
        BY <1>3, <3>1 DEF GateType
      <4> QED
        BY <1>1, <3>1, <4>1, <4>2 DEF GateTrusts, RanAsOrdered, IsRunning, ProcessAt
    <3>2. CASE /\ gate.at = "program" /\ Verified /\ gate' = [gate EXCEPT !.at = "spawn"]
               /\ replaced' = [replaced EXCEPT !.since = FALSE]
      <4>1. gate'.at = "spawn" /\ gate'.seen = gate.seen
        BY <1>3, <3>2 DEF GateType
      <4> QED
        BY <1>1, <3>2, <4>1 DEF FilesFit, GateTrusts, RanAsOrdered, IsRunning, ProcessAt, Verified
    <3>3. CASE /\ gate.at = "spawn" /\ shelf.program \in Program
               /\ gate' = [gate EXCEPT !.at = "started", !.image = shelf.program]
               /\ UNCHANGED replaced
      <4>1. gate'.at = "started" /\ gate'.seen = gate.seen /\ gate'.image = shelf.program
        BY <1>3, <3>3 DEF GateType
      <4> QED
        BY <1>1, <3>3, <4>1 DEF FilesFit, GateTrusts, RanAsOrdered, IsRunning, ProcessAt
    <3>4. CASE /\ gate.at = "spawn" /\ gate' = [gate EXCEPT !.tries = @ + 1]
               /\ UNCHANGED replaced
      <4>1. gate'.at = "spawn" /\ gate'.seen = gate.seen
        BY <1>3, <3>4 DEF GateType
      <4> QED
        BY <1>1, <3>4, <4>1 DEF FilesFit, GateTrusts, RanAsOrdered, IsRunning, ProcessAt
    <3> QED
      BY <1>4, <3>1, <3>2, <3>3, <3>4 DEF Moves
  <2> QED
    BY <1>1, <1>2, <2>1, <2>2, AgreesStill DEF FilesFit, GateTrusts, Allowed
<1>5. ASSUME NEW ev, Concludes(ev),
             \/ Rejects /\ ev \in {Plainly("SetupFailed"), InvokeRejected(gate.purpose)}
             \/ /\ Settles /\ (ev = Plainly("SetupOk") => denied' = None)
                /\ ev \in {Plainly("SetupOk"), Plainly("SetupFailed")}
             \/ Fails /\ ev = InvocationFailed(gate.purpose)
             \/ Exits /\ ev = CommandFinished(gate.purpose, DispositionOf(gate.code))
      PROVE  FilesFit'
  <2>1. agent = "running" /\ gate'.at = "rest"
    BY <1>1, <1>5, Conclusions
  <2>2. ValidationAgrees'
    <3>1. CASE Settles
      <4>1. SUFFICES ASSUME denied' \in {"Params", "Duration"}
                     PROVE  \E e \in Entries(catalog, order.version) :
                              DigestOf(e) = order.digest /\ Recut(denier', e.manifest)
        BY <1>1 DEF ValidationAgrees
      <4>2. SetupDenial(gate.seen, order) # "None" /\ denier' = gate.seen
        BY <3>1, <4>1 DEF Settles, None
      <4>3. gate.seen \in Manifest /\ Verified /\ Allowed(order)
        BY <2>1, <3>1 DEF Settles, FilesFit
      <4> QED
        BY <4>2, <4>3, SetupDeniesBlindly
    <3>2. CASE Rejects /\ gate.purpose = "Setup"
      <4>1. denied' = "Unresolved"
        BY <3>2 DEF Rejects, Refuses, Command
      <4> QED
        BY <4>1 DEF ValidationAgrees
    <3>3. CASE (Rejects /\ gate.purpose # "Setup") \/ Fails \/ Exits
      <4>1. UNCHANGED <<denied, denier>>
        BY <3>3 DEF Rejects, Refuses, Fails, Exits
      <4> QED
        BY <1>1, <4>1, AgreesStill DEF FilesFit
    <3> QED
      BY <1>5, <3>1, <3>2, <3>3
  <2>3. FilesAreTrusted'
    <3>1. CASE SetupEnds(ev) /\ ev = Plainly("SetupOk")
      <4>1. /\ Plainly("SetupOk") # Plainly("SetupFailed")
            /\ ev # InvokeRejected(gate.purpose)
            /\ ev # InvocationFailed(gate.purpose)
            /\ ev # CommandFinished(gate.purpose, DispositionOf(gate.code))
        BY <3>1 DEF Plainly, InvokeRejected, InvocationFailed, CommandFinished, EventOf
      <4>2. Settles
        BY <1>5, <3>1, <4>1
      <4>3. Trusted
        BY <4>2 DEF Settles, Verified, Trusted, FilesFit
      <4> QED
        BY <1>2, <4>3 DEF FilesAreTrusted
    <3>2. CASE SetupEnds(ev) /\ st'.kind = "Aborted"
      BY <1>1, <1>2, <3>2 DEF FilesAreTrusted, FilesFit, Terminal
    <3>3. CASE PreflightEnds(ev) \/ InjectEnds(ev) \/ RecoveryEnds(ev)
      BY <1>2, <3>3 DEF FilesAreTrusted, FilesFit, Terminal, PreflightEnds, InjectEnds, RecoveryEnds
    <3> QED
      BY <1>1, <1>5, <3>1, <3>2, <3>3, Conclusions DEF SetupEnds
  <2> QED
    BY <1>1, <2>1, <2>2, <2>3
    DEF FilesFit, FilesAreTrusted, Allowed, RanAsOrdered, IsRunning, ProcessAt
<1> QED
  BY <1>4, <1>5, GateEnds

(* So do the steps of the task.                                             *)
LEMMA FilesTask ==
  ASSUME TypeOK, Placed, FilesFit, Perform \/ StopActive \/ StopDuringRun
  PROVE  FilesFit'
<1> USE DEF histVars, hostVars
<1>1. CASE Perform
  <2>1. /\ gate.at = "rest" /\ gate'.at \in {"rest", "manifest"}
        /\ UNCHANGED <<catalog, order, shelf, agent, denied, denier, replaced>>
    BY <1>1, Performed DEF NoGate, Gate
  <2>2. \/ UNCHANGED st /\ (journal' => journal)
        \/ st.kind = "WritingJournal"
    BY <1>1, Performed DEF TypeOK
  <2>3. FilesAreTrusted'
    BY <2>1, <2>2 DEF FilesAreTrusted, FilesFit, Trusted, Terminal
  <2> QED
    BY <2>1, <2>3, AgreesStill
    DEF FilesFit, FilesAreTrusted, Allowed, RanAsOrdered, IsRunning, ProcessAt
<1>2. CASE StopActive
  <2>1. /\ st.kind = "Active"
        /\ UNCHANGED <<catalog, order, shelf, agent, gate, journal, denied, denier, replaced>>
    BY <1>2 DEF StopActive
  <2> QED
    BY <2>1, AgreesStill DEF FilesFit, Allowed, Trusted, Terminal, RanAsOrdered, IsRunning
<1>3. CASE StopDuringRun
  <2>1. gate.purpose \in Command /\ gate.at # "rest"
    BY <1>3, ProcessConcludes DEF StopDuringRun, IsRunning, ProcessAt
  <2>2. st'.kind = st.kind
    BY <1>3, <2>1, Asked, StopSteps DEF StopDuringRun, TypeOK
  <2>3. UNCHANGED <<catalog, order, shelf, agent, gate, journal, denied, denier, replaced>>
    BY <1>3 DEF StopDuringRun
  <2> QED
    BY <2>2, <2>3, AgreesStill DEF FilesFit, Allowed, Trusted, RanAsOrdered, IsRunning
<1> QED
  BY <1>1, <1>2, <1>3

(* So do the process, the host and its administrator.                       *)
LEMMA FilesWorld ==
  ASSUME TypeOK, Placed, FilesFit,
         Process \/ Install \/ ChangeMode \/ Crash \/ Restart \/ UNCHANGED vars
  PROVE  FilesFit'
<1> USE DEF histVars, hostVars, machineVars
<1>1. CASE Process
  <2>1. /\ IsRunning /\ UNCHANGED <<catalog, order, shelf, agent, st, journal, denied, denier, replaced>>
        /\ gate'.at \in {"probe", "written", "exiting"}
        /\ gate'.seen = gate.seen /\ gate'.image = gate.image
    BY <1>1, ProcessSteps
  <2> QED
    BY <2>1, AgreesStill DEF FilesFit, Allowed, Trusted, RanAsOrdered, IsRunning, ProcessAt
<1>2. CASE Install
  <2>1. /\ replaced'.files # 0 /\ replaced'.since
        /\ UNCHANGED <<catalog, order, agent, st, journal, gate, denied, denier>>
    BY <1>2, InstallSteps DEF TypeOK
  <2> QED
    BY <2>1, AgreesStill DEF FilesFit, Allowed, Trusted, RanAsOrdered, IsRunning
<1>3. CASE ChangeMode
  BY <1>3, AgreesStill DEF ChangeMode, FilesFit, Allowed, Trusted, RanAsOrdered, IsRunning
<1>4. CASE Crash
  <2>1. /\ agent = "running" /\ agent' = "down" /\ gate'.at = "rest"
        /\ UNCHANGED <<catalog, order, shelf, st, journal, denied, denier, replaced>>
    BY <1>4 DEF Crash, NoGate, Gate
  <2> QED
    BY <2>1, AgreesStill
    DEF FilesFit, Allowed, Trusted, RanAsOrdered, IsRunning, ProcessAt
<1>5. CASE Restart
  <2>1. /\ agent = "down" /\ agent' # "idle" /\ (journal \/ UNCHANGED st)
        /\ UNCHANGED <<catalog, order, shelf, gate, journal, denied, denier, replaced>>
    BY <1>5 DEF Restart
  <2> QED
    BY <2>1, AgreesStill DEF FilesFit, Allowed, Trusted, RanAsOrdered, IsRunning
<1>6. CASE UNCHANGED vars
  BY <1>6, AgreesStill DEF vars, FilesFit, Allowed, Trusted, RanAsOrdered, IsRunning
<1> QED
  BY <1>1, <1>2, <1>3, <1>4, <1>5, <1>6

(* Every step keeps what is known of the files.                             *)
LEMMA FilesStep ==
  ASSUME TypeOK, Placed, FilesFit, MarkerFits, [Next]_vars
  PROVE  FilesFit'
  BY FilesSubmit, FilesGate, FilesTask, FilesWorld DEF Next, GateMoves

-----------------------------------------------------------------------------
(***************************************************************************)
(* The directory.                                                          *)
(***************************************************************************)
(* Each exit code has a disposition of its own.                             *)
LEMMA ExitCodes ==
  ASSUME NEW code \in Code
  PROVE  /\ DispositionOf(code) = "Success" <=> code = 0
         /\ DispositionOf(code) = "InjectFailed" <=> code = 20
  BY DEF DispositionOf, Code

(* A command that succeeded has exited, with code 0; an inject that failed, *)
(* with code 20, unless it was refused before it ran.                       *)
LEMMA EndsOf ==
  ASSUME TypeOK, Placed, NEW ev, Concludes(ev), NEW c \in Command, gate.purpose = c,
         \/ Rejects /\ ev \in {Plainly("SetupFailed"), InvokeRejected(gate.purpose)}
         \/ /\ Settles /\ (ev = Plainly("SetupOk") => denied' = None)
            /\ ev \in {Plainly("SetupOk"), Plainly("SetupFailed")}
         \/ Fails /\ ev = InvocationFailed(gate.purpose)
         \/ Exits /\ ev = CommandFinished(gate.purpose, DispositionOf(gate.code))
  PROVE  /\ ev = CommandFinished(c, "Success") => Exits /\ gate.at = "exiting" /\ gate.code = 0
         /\ ev = CommandFinished(c, "InjectFailed") =>
              Exits /\ gate.at = "exiting" /\ gate.code = 20
         /\ ev = InvokeRejected(c) => Rejects
         /\ ev # CommandFinished(c, "Success") =>
              Rejects \/ Fails \/ (gate.at = "exiting" /\ gate.code # 0)
<1>1. gate.code \in Code /\ c # "Setup"
  BY DEF TypeOK, Command
<1>2. ~Settles
  BY <1>1 DEF Settles
<1>3. \A d : /\ CommandFinished(c, d).type = "CommandFinished"
             /\ CommandFinished(c, d).disposition = d
  BY DEF CommandFinished, EventOf
<1>4. /\ InvocationFailed(c).type = "InvocationFailed"
      /\ InvokeRejected(c).type = "InvokeRejected"
      /\ Plainly("SetupFailed").type = "SetupFailed"
  BY DEF InvocationFailed, InvokeRejected, Plainly, EventOf
<1>5. CASE Rejects /\ ev \in {Plainly("SetupFailed"), InvokeRejected(gate.purpose)}
  <2>1. gate.at # "exiting"
    BY <1>5 DEF Rejects
  <2> QED
    BY <1>3, <1>4, <1>5, <2>1 DEF Exits
<1>6. CASE Fails /\ ev = InvocationFailed(gate.purpose)
  <2>1. ev.type = "InvocationFailed"
    BY <1>4, <1>6
  <2> QED
    BY <1>3, <1>4, <1>6, <2>1
<1>7. CASE Exits /\ ev = CommandFinished(c, DispositionOf(gate.code))
  <2>1. gate.at = "exiting"
    BY <1>7 DEF Exits
  <2>2. ev.type = "CommandFinished" /\ ev.disposition = DispositionOf(gate.code)
    BY <1>3, <1>7
  <2> QED
    BY <1>1, <1>3, <1>4, <1>7, <2>1, <2>2, ExitCodes
<1> QED
  BY <1>2, <1>5, <1>6, <1>7

(* What is known of the runtime directory at the start.                     *)
LEMMA DirectoryInit == Init => DirectoryFits
  BY DEF Init, DirectoryFits, NoGate, Gate, Plain

(* The steps of the gate keep what is known of the directory.               *)
LEMMA DirectoryGate ==
  ASSUME TypeOK, Placed, DirectoryFits, GateMoves
  PROVE  DirectoryFits'
<1>1. UNCHANGED <<order, journal, dir, modes>>
  BY GateSteps DEF hostVars
<1>2. Ready => Ready'
  BY <1>1 DEF Ready
<1>3. CASE Moves
  <2>1. UNCHANGED st /\ gate'.at \in {"program", "spawn", "started"}
    BY <1>3 DEF Moves, TypeOK
  <2> QED
    BY <1>1, <1>2, <2>1 DEF DirectoryFits
<1>4. ASSUME NEW ev, Concludes(ev),
             \/ Rejects /\ ev \in {Plainly("SetupFailed"), InvokeRejected(gate.purpose)}
             \/ /\ Settles /\ (ev = Plainly("SetupOk") => denied' = None)
                /\ ev \in {Plainly("SetupOk"), Plainly("SetupFailed")}
             \/ Fails /\ ev = InvocationFailed(gate.purpose)
             \/ Exits /\ ev = CommandFinished(gate.purpose, DispositionOf(gate.code))
      PROVE  DirectoryFits'
  <2>1. /\ gate'.at = "rest"
        /\ SetupEnds(ev) \/ PreflightEnds(ev) \/ InjectEnds(ev) \/ RecoveryEnds(ev)
    BY <1>4, Conclusions, GateSteps
  <2>2. CASE SetupEnds(ev)
    BY <1>1, <1>2, <2>1, <2>2 DEF SetupEnds, DirectoryFits
  <2>3. CASE PreflightEnds(ev) /\ st'.kind = "Aborted"
    BY <1>1, <1>2, <2>1, <2>3 DEF DirectoryFits
  <2>4. CASE PreflightEnds(ev) /\ ev = CommandFinished("Preflight", "Success")
    <3>1. gate.at = "exiting" /\ gate.code = 0 /\ gate.purpose = "Preflight"
      BY <1>4, <2>4, EndsOf DEF PreflightEnds, Command
    <3> QED
      BY <1>2, <2>1, <3>1 DEF DirectoryFits
  <2>5. CASE InjectEnds(ev) \/ RecoveryEnds(ev)
    BY <1>2, <2>1, <2>5 DEF InjectEnds, RecoveryEnds, DirectoryFits
  <2> QED
    BY <2>1, <2>2, <2>3, <2>4, <2>5 DEF PreflightEnds
<1> QED
  BY <1>3, <1>4, GateEnds

(* So do the steps of the process.                                          *)
LEMMA DirectoryProcess ==
  ASSUME TypeOK, Placed, DirectoryFits, Process
  PROVE  DirectoryFits'
<1>1. UNCHANGED <<order, st, journal, modes>> /\ gate \in GateType
  BY ProcessSteps DEF machineVars, histVars, TypeOK, GateType
<1>2. CASE PreflightDir
  <2>1. /\ Ready => Ready'
        /\ gate'.at = "probe" => order.path = "absolute"
        /\ gate'.at = "exiting" => gate'.code # 0
    <3>1. CASE gate' = Exiting(10) /\ UNCHANGED dir
      BY <1>1, <3>1 DEF Exiting, Ready, GateType
    <3>2. CASE /\ order.path = "absolute" /\ gate' = [gate EXCEPT !.at = "probe"]
               /\ dir' = IF dir = "missing" THEN "writable" ELSE dir
      BY <1>1, <3>2 DEF Ready, GateType
    <3> QED
      BY <1>2, <3>1, <3>2 DEF PreflightDir
  <2> QED
    BY <1>1, <2>1 DEF DirectoryFits
<1>3. CASE PreflightProbe
  <2>1. gate.at = "probe" /\ dir' = dir /\ gate'.at = "exiting"
        /\ (gate'.code = 0 => dir = "writable")
    BY <1>1, <1>3 DEF PreflightProbe, Exiting, Runs, hostVars, GateType
  <2> QED
    BY <1>1, <2>1 DEF DirectoryFits, Ready
<1>4. CASE WriteTemp \/ Persist \/ Revert
  <2>1. dir' = dir /\ gate'.at # "probe" /\ gate'.purpose # "Preflight"
    BY <1>1, <1>4 DEF WriteTemp, Persist, Revert, Exiting, Runs, hostVars, GateType
  <2> QED
    BY <1>1, <2>1 DEF DirectoryFits, Ready
<1> QED
  BY <1>2, <1>3, <1>4 DEF Process

(* Every step keeps what is known of the directory.                         *)
LEMMA DirectoryStep ==
  ASSUME TypeOK, Placed, DirectoryFits, MarkerFits, [Next]_vars
  PROVE  DirectoryFits'
<1> USE DEF hostVars, histVars, machineVars
<1>1. CASE Submit
  BY <1>1 DEF Submit, Placed, MarkerFits, PreInject, DirectoryFits, NoGate, Gate
<1>2. CASE Perform
  <2>1. /\ gate.at = "rest" /\ gate'.at \in {"rest", "manifest"}
        /\ UNCHANGED <<order, dir, modes>>
    BY <1>2, Performed DEF NoGate, Gate
  <2>2. (UNCHANGED st /\ (journal' => journal)) \/ st.kind = "WritingJournal"
    BY <1>2, Performed DEF TypeOK
  <2> QED
    BY <2>1, <2>2 DEF DirectoryFits, Ready
<1>3. CASE StopActive
  BY <1>3 DEF StopActive, DirectoryFits, Ready
<1>4. CASE StopDuringRun
  <2>1. gate.purpose \in Command /\ gate.at # "rest"
    BY <1>4, ProcessConcludes DEF StopDuringRun, IsRunning, ProcessAt
  <2>2. st'.kind = st.kind
    BY <1>4, <2>1, Asked, StopSteps DEF StopDuringRun, TypeOK
  <2> QED
    BY <1>4, <2>2 DEF StopDuringRun, DirectoryFits, Ready
<1>5. CASE Install
  BY <1>5, InstallSteps DEF DirectoryFits, Ready
<1>6. CASE ChangeMode
  <2>1. modes' # 0
    BY <1>6 DEF ChangeMode, TypeOK
  <2> QED
    BY <1>6, <2>1 DEF ChangeMode, DirectoryFits, Ready
<1>7. CASE Crash
  BY <1>7 DEF Crash, DirectoryFits, Ready, NoGate, Gate
<1>8. CASE Restart
  <2>1. (journal \/ UNCHANGED st) /\ UNCHANGED <<order, gate, journal, dir, modes>>
    BY <1>8 DEF Restart
  <2> QED
    BY <2>1 DEF DirectoryFits, Ready
<1>9. CASE UNCHANGED vars
  BY <1>9 DEF vars, DirectoryFits, Ready
<1> QED
  BY <1>1, <1>2, <1>3, <1>4, <1>5, <1>6, <1>7, <1>8, <1>9, DirectoryGate, DirectoryProcess
  DEF Next, GateMoves

-----------------------------------------------------------------------------
(***************************************************************************)
(* The marker.                                                             *)
(***************************************************************************)
LEMMA MarkerInit == Init => MarkerFits
  BY DEF Init, MarkerFits, MarkerAccounted, ExitsTrue, NoGate, Gate, Plain, Terminal

(* The steps of the gate keep what is known of the marker.                  *)
LEMMA MarkerGate ==
  ASSUME TypeOK, Placed, MarkerFits, GateMoves
  PROVE  MarkerFits'
<1>1. UNCHANGED <<agent, journal, tainted, unwritten, marker>>
  BY GateSteps DEF hostVars
<1>2. CASE Moves
  <2>1. /\ UNCHANGED <<st, todo>> /\ gate.at # "exiting"
        /\ gate'.at \in {"program", "spawn", "started"}
    BY <1>2 DEF Moves, TypeOK
  <2> QED
    BY <1>1, <2>1 DEF MarkerFits, MarkerAccounted, ExitsTrue
<1>3. ASSUME NEW ev, Concludes(ev),
             \/ Rejects /\ ev \in {Plainly("SetupFailed"), InvokeRejected(gate.purpose)}
             \/ /\ Settles /\ (ev = Plainly("SetupOk") => denied' = None)
                /\ ev \in {Plainly("SetupOk"), Plainly("SetupFailed")}
             \/ Fails /\ ev = InvocationFailed(gate.purpose)
             \/ Exits /\ ev = CommandFinished(gate.purpose, DispositionOf(gate.code))
      PROVE  MarkerFits'
  <2>1. /\ agent = "running" /\ gate'.at = "rest"
        /\ SetupEnds(ev) \/ PreflightEnds(ev) \/ InjectEnds(ev) \/ RecoveryEnds(ev)
    BY <1>1, <1>3, Conclusions
  <2>2. CASE SetupEnds(ev) \/ PreflightEnds(ev)
    <3>1. marker = "absent" /\ ~journal
      BY <2>2 DEF SetupEnds, PreflightEnds, MarkerFits, PreInject
    <3>2. st'.kind \in {"PreflightInstall", "PreflightRuntime", "WritingJournal", "Aborted"}
      BY <2>2 DEF SetupEnds, PreflightEnds
    <3> QED
      BY <1>1, <2>1, <3>1, <3>2 DEF MarkerFits, MarkerAccounted, ExitsTrue
  <2>3. CASE InjectEnds(ev)
    <3>1. journal
      BY <2>3 DEF InjectEnds, MarkerFits
    <3>2. CASE st'.kind \in {"Active", "Recovering"}
      BY <1>1, <2>1, <3>1, <3>2
      DEF MarkerFits, MarkerAccounted, ExitsTrue, PreInject, Terminal
    <3>3. CASE /\ ev \in {CommandFinished("Inject", "InjectFailed"), InvokeRejected("Inject")}
               /\ st'.kind = "Aborted"
      <4>1. marker = "absent"
        <5>1. CASE ev = CommandFinished("Inject", "InjectFailed")
          <6>1. gate.at = "exiting" /\ gate.code = 20 /\ gate.purpose = "Inject"
            BY <1>3, <2>3, <5>1, EndsOf DEF InjectEnds, Command
          <6> QED
            BY <6>1 DEF MarkerFits, ExitsTrue
        <5>2. CASE ev = InvokeRejected("Inject")
          <6>1. Rejects
            BY <1>3, <2>3, <5>2, EndsOf DEF InjectEnds, Command
          <6>2. gate.at # "exiting" /\ st.kind = "Injecting"
            BY <2>3, <6>1 DEF InjectEnds, Rejects
          <6> QED
            BY <2>1, <6>2 DEF MarkerFits, TypeOK
        <5> QED
          BY <3>3, <5>1, <5>2
      <4> QED
        BY <1>1, <2>1, <3>1, <3>3, <4>1 DEF MarkerFits, MarkerAccounted, ExitsTrue, PreInject
    <3> QED
      BY <2>3, <3>2, <3>3 DEF InjectEnds
  <2>4. CASE RecoveryEnds(ev)
    <3>1. journal
      BY <2>4 DEF RecoveryEnds, MarkerFits
    <3>2. \/ marker = "absent" /\ st'.kind \in Terminal
          \/ st'.kind = "Recovering"
          \/ st'.kind \in Terminal /\ MarksNext(todo')
      <4>1. CASE ev = CommandFinished(gate.purpose, "Success")
        <5>1. gate.at = "exiting" /\ gate.code = 0 /\ gate.purpose \in {"Abort", "Cleanup"}
          BY <1>3, <2>4, <4>1, EndsOf DEF RecoveryEnds, Command
        <5> QED
          BY <2>4, <5>1 DEF RecoveryEnds, MarkerFits, ExitsTrue
      <4> QED
        BY <2>4, <4>1 DEF RecoveryEnds
    <3> QED
      BY <1>1, <2>1, <3>1, <3>2 DEF MarkerFits, MarkerAccounted, ExitsTrue, PreInject, Terminal
  <2> QED
    BY <2>1, <2>2, <2>3, <2>4
<1> QED
  BY <1>2, <1>3, GateEnds

(* A process runs in the state that asked for it.                           *)
LEMMA ProcessState ==
  ASSUME TypeOK, Placed, Process
  PROVE  /\ agent = "running" /\ gate \in GateType
         /\ PreflightDir \/ PreflightProbe =>
              gate.purpose = "Preflight" /\ st.kind \in {"PreflightInstall", "PreflightRuntime"}
         /\ WriteTemp \/ Persist => gate.purpose = "Inject" /\ st.kind = "Injecting"
         /\ Revert => gate.purpose \in {"Abort", "Cleanup"} /\ st.kind = "Recovering"
<1>1. gate.at # "rest" /\ gate.purpose \in Command
  BY ProcessSteps DEF IsRunning, ProcessAt
<1>2. agent = "running" /\ AsksFor(st, gate.purpose)
  BY <1>1, Asked
<1>3. st.kind = "Recovering" => st.current \in {"Abort", "Cleanup"}
  BY DEF TypeOK, MachineState
<1>4. gate \in GateType
  BY DEF TypeOK, GateType
<1> QED
  BY <1>2, <1>3, <1>4
  DEF AsksFor, PreflightDir, PreflightProbe, WriteTemp, Persist, Revert, Runs

(* The fields of a process about to exit.                                   *)
LEMMA ExitingFields ==
  ASSUME gate \in GateType, NEW code
  PROVE  /\ Exiting(code).at = "exiting" /\ Exiting(code).code = code
         /\ Exiting(code).purpose = gate.purpose
  BY DEF Exiting, GateType

(* The steps of the process keep what is known of the marker.               *)
LEMMA MarkerProcess ==
  ASSUME TypeOK, Placed, MarkerFits, Process
  PROVE  MarkerFits'
<1>1. /\ UNCHANGED <<agent, st, todo, journal, tainted, unwritten>>
      /\ agent = "running" /\ gate \in GateType
  BY ProcessSteps, ProcessState DEF machineVars, histVars
<1>2. CASE PreflightDir \/ PreflightProbe
  <2>1. gate.purpose = "Preflight" /\ st.kind \in {"PreflightInstall", "PreflightRuntime"}
    BY <1>2, ProcessState
  <2>2. marker' = marker /\ gate'.purpose = "Preflight"
    BY <1>2, <2>1, ProcessSteps DEF PreflightDir, PreflightProbe, hostVars
  <2> QED
    BY <1>1, <2>1, <2>2 DEF MarkerFits, MarkerAccounted, ExitsTrue, PreInject, Terminal
<1>3. CASE WriteTemp \/ Persist
  <2>1. st.kind = "Injecting" /\ journal /\ gate.purpose = "Inject"
    BY <1>3, ProcessState DEF MarkerFits
  <2>2. marker = "absent"
    BY <1>1, <1>3, <2>1 DEF MarkerFits, WriteTemp, Persist, Runs
  <2>3. \/ marker' = "absent" /\ gate' = [gate EXCEPT !.at = "written"]
        \/ marker' = "absent" /\ (gate' = Exiting(20) \/ gate' = Exiting(1))
        \/ marker' = "present" /\ gate' = Exiting(0)
    BY <1>3, <2>2 DEF WriteTemp, Persist, hostVars
  <2>4. \/ marker' = "absent" /\ gate'.at = "written"
        \/ marker' = "absent" /\ gate'.at = "exiting" /\ gate'.code # 0 /\ gate'.purpose = "Inject"
        \/ marker' = "present" /\ gate'.at = "exiting" /\ gate'.code = 0 /\ gate'.purpose = "Inject"
    <3>1. gate' = [gate EXCEPT !.at = "written"] => gate'.at = "written"
      BY <1>1 DEF GateType
    <3> QED
      BY <1>1, <2>1, <2>3, <3>1, ExitingFields
  <2> QED
    BY <1>1, <2>1, <2>4 DEF MarkerFits, MarkerAccounted, ExitsTrue, PreInject, Terminal
<1>4. CASE Revert
  <2>1. st.kind = "Recovering" /\ journal /\ gate.purpose \in {"Abort", "Cleanup"}
    BY <1>4, ProcessState DEF MarkerFits
  <2>2. /\ gate' \in {Exiting(0), Exiting(1), Exiting(30)}
        /\ gate' = Exiting(0) => marker' = "absent"
    <3>1. Exiting(0).code = 0 /\ Exiting(1).code = 1 /\ Exiting(30).code = 30
      BY <1>1 DEF Exiting, GateType
    <3> QED
      BY <1>4, <3>1 DEF Revert, NotThere
  <2>3. gate'.at = "exiting" /\ gate'.purpose # "Inject" /\ (gate'.code = 0 => marker' = "absent")
    BY <1>1, <2>1, <2>2 DEF Exiting, GateType
  <2> QED
    BY <1>1, <2>1, <2>3 DEF MarkerFits, MarkerAccounted, ExitsTrue, PreInject, Terminal
<1> QED
  BY <1>2, <1>3, <1>4 DEF Process

(* So does an effect performed.                                             *)
LEMMA MarkerPerform ==
  ASSUME TypeOK, Placed, MarkerFits, Perform
  PROVE  MarkerFits'
<1>1. /\ agent = "running" /\ gate.at = "rest" /\ UNCHANGED <<agent, marker>>
      /\ todo # << >>
  BY Performed DEF hostVars
<1>2. st.kind = "Injecting" => marker = "absent"
  BY <1>1 DEF MarkerFits, TypeOK
<1>3. CASE \E c \in Command :
             /\ gate' = [NoGate EXCEPT !.at = "manifest", !.purpose = c]
             /\ UNCHANGED <<st, todo, journal, tainted, unwritten>>
  <2>1. gate'.at = "manifest" /\ UNCHANGED <<st, todo, journal, tainted, unwritten>>
    BY <1>3 DEF NoGate, Gate
  <2> QED
    BY <1>1, <1>2, <2>1 DEF MarkerFits, MarkerAccounted, ExitsTrue
<1>4. CASE /\ \E s \in WireState : Head(todo) = EmitStatus(s)
           /\ UNCHANGED <<st, gate, journal, tainted, unwritten>>
  <2>1. ~MarksNext(todo)
    BY <1>4, EffectsDiffer DEF MarksNext
  <2> QED
    BY <1>1, <1>2, <1>4, <2>1 DEF MarkerFits, MarkerAccounted, ExitsTrue
<1>5. CASE /\ st.kind = "WritingJournal" /\ UNCHANGED <<gate, tainted, unwritten>>
           /\ \/ /\ journal' = TRUE
                 /\ st' \in {Plain("Injecting", None), Plain("Aborted", None)}
              \/ UNCHANGED journal /\ st' = Plain("Aborted", None)
  <2>1. marker = "absent" /\ gate'.at = "rest"
    BY <1>1, <1>5 DEF MarkerFits, PreInject
  <2>2. (st'.kind = "Injecting" /\ journal') \/ st'.kind = "Aborted"
    BY <1>5 DEF Plain
  <2> QED
    BY <1>1, <2>1, <2>2 DEF MarkerFits, MarkerAccounted, ExitsTrue, PreInject
<1>6. CASE /\ Head(todo) = RemoveJournal /\ st.kind \in Terminal
           /\ journal' \in {FALSE, journal} /\ UNCHANGED <<st, gate, tainted, unwritten>>
  <2>1. ~MarksNext(todo)
    BY <1>6, EffectsDiffer DEF MarksNext
  <2>2. marker # "absent" => tainted \/ unwritten
    BY <1>1, <1>6, <2>1 DEF MarkerFits
  <2> QED
    BY <1>1, <1>6, <2>2 DEF MarkerFits, MarkerAccounted, ExitsTrue, PreInject, Terminal
<1>7. CASE /\ MarksNext(todo) /\ st.kind \in Terminal
           /\ Marked /\ UNCHANGED <<st, gate, journal>>
  BY <1>1, <1>7 DEF Marked, MarkerFits, MarkerAccounted, ExitsTrue, PreInject, Terminal
<1> QED
  BY <1>3, <1>4, <1>5, <1>6, <1>7, Performed

(* Every step keeps what is known of the marker.                            *)
LEMMA MarkerStep ==
  ASSUME TypeOK, Placed, MarkerFits, [Next]_vars
  PROVE  MarkerFits'
<1> USE DEF hostVars, histVars, machineVars
<1>1. CASE Submit
  BY <1>1 DEF Submit, Placed, MarkerFits, MarkerAccounted, ExitsTrue, NoGate, Gate, PreInject,
              Terminal
<1>2. CASE StopActive
  <2>1. PICK cause \in StopCause : Deliver(StopRequested(cause), << >>)
    BY <1>2 DEF StopActive
  <2>2. Step(st, StopRequested(cause)) = StartRecovery(cause)
    BY <1>2 DEF StopActive, Step, StepActive, StopRequested, EventOf, Terminal
  <2>3. st'.kind = "Recovering" /\ journal
    BY <1>2, <2>1, <2>2, MovesFit DEF Deliver, StopActive, MarkerFits
  <2> QED
    BY <1>2, <2>3 DEF StopActive, MarkerFits, MarkerAccounted, ExitsTrue, PreInject, Terminal
<1>3. CASE StopDuringRun
  <2>1. gate.purpose \in Command /\ gate.at # "rest"
    BY <1>3, ProcessConcludes DEF StopDuringRun, IsRunning, ProcessAt
  <2>2. st'.kind = st.kind
    BY <1>3, <2>1, Asked, StopSteps DEF StopDuringRun, TypeOK
  <2> QED
    BY <1>3, <2>2 DEF StopDuringRun, MarkerFits, MarkerAccounted, ExitsTrue
<1>4. CASE Install
  BY <1>4, InstallSteps DEF MarkerFits, MarkerAccounted, ExitsTrue
<1>5. CASE ChangeMode
  BY <1>5 DEF ChangeMode, MarkerFits, MarkerAccounted, ExitsTrue
<1>6. CASE Crash
  BY <1>6 DEF Crash, MarkerFits, MarkerAccounted, ExitsTrue, NoGate, Gate
<1>7. CASE Restart
  <2>1. /\ gate.at = "rest" /\ UNCHANGED <<gate, journal, tainted, unwritten, marker>>
        /\ agent = "down"
    BY <1>7 DEF Restart, Placed, GateFits
  <2>2. CASE agent' = "forgot" /\ UNCHANGED st
    BY <2>1, <2>2 DEF MarkerFits, MarkerAccounted, ExitsTrue
  <2>3. CASE journal /\ \E outcome \in {"Aborted", "Error"} : st' = ReplayRecovery(outcome).state
    <3>1. st'.kind = "Recovering"
      BY <2>3 DEF ReplayRecovery, To, Recovering
    <3> QED
      BY <2>1, <2>3, <3>1 DEF MarkerFits, MarkerAccounted, ExitsTrue, PreInject, Terminal
  <2> QED
    BY <1>7, <2>2, <2>3 DEF Restart
<1>8. CASE UNCHANGED vars
  BY <1>8 DEF vars, MarkerFits, MarkerAccounted, ExitsTrue
<1> QED
  BY <1>1, <1>2, <1>3, <1>4, <1>5, <1>6, <1>7, <1>8, MarkerGate, MarkerProcess, MarkerPerform
  DEF Next, GateMoves

-----------------------------------------------------------------------------
(***************************************************************************)
(* The quarantine.                                                         *)
(***************************************************************************)
LEMMA CauseInit == Init => CauseFits
  BY DEF Init, CauseFits, NoGate, Gate, Plain, MarksNext

(* A command of recovery that the agent could not run had a cause.          *)
LEMMA RecoveryRefused ==
  ASSUME TypeOK, Placed, FilesFit, MarkerFits, CauseFits, gate.purpose \in {"Abort", "Cleanup"},
         gate.at # "rest"
  PROVE  /\ Rejects => Cause
         /\ gate.at = "spawn" /\ shelf.program \notin Program => Cause
<1>1. SUFFICES ASSUME replaced.files = 0
               PROVE  ~Rejects /\ (gate.at = "spawn" => shelf.program \in Program)
  BY DEF Cause, TypeOK
<1>2. st.kind = "Recovering"
  <2>1. AsksFor(st, gate.purpose)
    BY Asked DEF Command
  <2> QED
    BY <2>1 DEF AsksFor
<1>3. Trusted
  BY <1>2 DEF FilesFit, Terminal
<1>4. gate.at = "program" => Verified
  BY <1>1, <1>3 DEF Trusted, Verified, FilesFit
<1>5. shelf.program \in Program
  BY <1>1, <1>3 DEF Trusted, FilesFit, TypeOK, Files
<1> QED
  BY <1>1, <1>3, <1>4, <1>5 DEF Rejects, Trusted

(* The steps of the gate keep what is known of a quarantine.                *)
LEMMA CauseGate ==
  ASSUME TypeOK, Placed, FilesFit, MarkerFits, CauseFits, GateMoves
  PROVE  CauseFits'
<1>1. UNCHANGED <<modes, tainted>> /\ replaced'.files = replaced.files /\ (killed => killed')
  BY GateSteps
<1>2. Cause => Cause'
  BY <1>1 DEF Cause
<1>3. CASE Moves
  <2>1. UNCHANGED <<st, todo>> /\ gate'.at \in {"program", "spawn", "started"}
    BY <1>3 DEF Moves, TypeOK
  <2> QED
    BY <1>1, <1>2, <2>1 DEF CauseFits, MarksNext
<1>4. ASSUME NEW ev, Concludes(ev),
             \/ Rejects /\ ev \in {Plainly("SetupFailed"), InvokeRejected(gate.purpose)}
             \/ /\ Settles /\ (ev = Plainly("SetupOk") => denied' = None)
                /\ ev \in {Plainly("SetupOk"), Plainly("SetupFailed")}
             \/ Fails /\ ev = InvocationFailed(gate.purpose)
             \/ Exits /\ ev = CommandFinished(gate.purpose, DispositionOf(gate.code))
      PROVE  CauseFits'
  <2>1. /\ gate'.at = "rest" /\ gate.at # "rest"
        /\ SetupEnds(ev) \/ PreflightEnds(ev) \/ InjectEnds(ev) \/ RecoveryEnds(ev)
    BY <1>4, Conclusions, GateSteps
  <2>2. CASE SetupEnds(ev) \/ PreflightEnds(ev) \/ InjectEnds(ev)
    BY <1>1, <1>2, <2>1, <2>2 DEF SetupEnds, PreflightEnds, InjectEnds, CauseFits
  <2>3. CASE RecoveryEnds(ev) /\ ev = CommandFinished(gate.purpose, "Success")
    BY <1>1, <1>2, <2>1, <2>3 DEF RecoveryEnds, CauseFits, Terminal
  <2>4. CASE RecoveryEnds(ev) /\ ev # CommandFinished(gate.purpose, "Success")
    <3>1. Rejects \/ Fails \/ (gate.at = "exiting" /\ gate.code # 0)
      BY <1>4, <2>4, EndsOf DEF RecoveryEnds, Command
    <3>2. Cause'
      BY <1>2, <2>1, <2>4, <3>1, RecoveryRefused DEF Fails, Cause, CauseFits, RecoveryEnds
    <3> QED
      BY <2>1, <3>2 DEF CauseFits
  <2> QED
    BY <2>1, <2>2, <2>3, <2>4
<1> QED
  BY <1>3, <1>4, GateEnds

(* A recovery command fails only for a mode that changed.                   *)
LEMMA CauseProcess ==
  ASSUME TypeOK, Placed, DirectoryFits, MarkerFits, CauseFits, Process
  PROVE  CauseFits'
<1>1. /\ UNCHANGED <<st, todo, tainted, modes, killed, unwritten, replaced>> /\ gate \in GateType
      /\ gate'.purpose = gate.purpose
  BY ProcessSteps, ProcessState DEF machineVars, histVars
<1>2. Cause => Cause'
  BY <1>1 DEF Cause
<1>3. CASE PreflightDir \/ PreflightProbe \/ WriteTemp \/ Persist
  <2>1. gate'.purpose \notin {"Abort", "Cleanup"}
    BY <1>1, <1>3, ProcessState
  <2> QED
    BY <1>1, <1>2, <2>1 DEF CauseFits, MarksNext
<1>4. CASE Revert
  <2>1. Ready
    BY <1>4, ProcessState DEF DirectoryFits
  <2>2. gate'.code # 0 => Cause
    <3>1. SUFFICES ASSUME modes = 0
                   PROVE  gate' = Exiting(0)
      <4>1. modes # 0 => Cause
        BY DEF Cause, TypeOK
      <4> QED
        BY <1>1, <4>1, ExitingFields
    <3> QED
      BY <1>4, <2>1, <3>1 DEF Revert, Ready, Removable, NotThere
  <2> QED
    BY <1>1, <1>2, <2>2 DEF CauseFits, MarksNext
<1> QED
  BY <1>3, <1>4 DEF Process

(* Every step keeps what is known of a quarantine.                          *)
LEMMA CauseStep ==
  ASSUME TypeOK, Placed, FilesFit, DirectoryFits, MarkerFits, CauseFits, [Next]_vars
  PROVE  CauseFits'
<1> USE DEF hostVars, histVars, machineVars
<1>1. CASE Submit
  BY <1>1 DEF Submit, CauseFits, Cause, MarksNext, NoGate, Gate
<1>2. CASE Perform
  <2>1. /\ gate.at = "rest" /\ gate'.at # "exiting"
        /\ UNCHANGED <<replaced, modes, killed>>
    BY <1>2, Performed DEF NoGate, Gate
  <2>2. \/ UNCHANGED <<st, todo, tainted>>
        \/ UNCHANGED <<st, tainted>> /\ ~MarksNext(todo')
        \/ st'.kind # "Recovering" /\ ~MarksNext(todo') /\ UNCHANGED tainted
        \/ MarksNext(todo) /\ ~MarksNext(todo') /\ UNCHANGED st
    <3>1. /\ \A s, c : ~MarksNext(<<EmitStatus(s), Invoke(c)>>)
          /\ \A s : ~MarksNext(<<EmitStatus(s)>>) /\ ~MarksNext(<<RemoveJournal, EmitStatus(s)>>)
      <4>1. \A a, b : Head(<<a>>) = a /\ Head(<<a, b>>) = a
        OBVIOUS
      <4> QED
        BY <4>1, EffectsDiffer DEF MarksNext
    <3>2. CASE /\ st' \in {Plain("Injecting", None), Plain("Aborted", None)} /\ UNCHANGED tainted
               /\ todo' \in {<<EmitStatus("Injecting"), Invoke("Inject")>>,
                             <<RemoveJournal, EmitStatus("Aborted")>>, <<EmitStatus("Aborted")>>}
      <4>1. st'.kind # "Recovering"
        BY <3>2 DEF Plain
      <4>2. ~MarksNext(todo')
        BY <3>1, <3>2
      <4> QED
        BY <3>2, <4>1, <4>2
    <3>3. CASE \E c \in Command : UNCHANGED <<st, todo, journal, tainted>>
      BY <3>3
    <3>4. CASE ~MarksNext(todo') /\ UNCHANGED <<st, gate, tainted>>
      BY <3>4
    <3>5. CASE /\ st.kind = "WritingJournal" /\ UNCHANGED <<gate, tainted>>
               /\ \/ /\ journal' = TRUE
                     /\ \/ /\ st' = Plain("Injecting", None)
                           /\ todo' = <<EmitStatus("Injecting"), Invoke("Inject")>>
                        \/ /\ st' = Plain("Aborted", None)
                           /\ todo' = <<RemoveJournal, EmitStatus("Aborted")>>
                  \/ /\ UNCHANGED journal /\ st' = Plain("Aborted", None)
                     /\ todo' = <<EmitStatus("Aborted")>>
      BY <3>2, <3>5
    <3>6. CASE MarksNext(todo) /\ ~MarksNext(todo') /\ UNCHANGED <<st, gate, journal>>
      BY <3>6
    <3> QED
      BY <1>2, <3>3, <3>4, <3>5, <3>6, Performed
  <2> QED
    BY <2>1, <2>2 DEF CauseFits, Cause, MarksNext
<1>3. CASE StopActive
  <2>1. PICK cause \in StopCause : Deliver(StopRequested(cause), << >>)
    BY <1>3 DEF StopActive
  <2>2. Step(st, StopRequested(cause)) = StartRecovery(cause)
    BY <1>3 DEF StopActive, Step, StepActive, StopRequested, EventOf, Terminal
  <2>3. ~st'.retried
    BY <2>1, <2>2, MovesFit DEF Deliver
  <2>4. ~MarksNext(todo')
    <3>1. PICK c \in {"Abort", "Cleanup"}, rest \in {<< >>, <<"Cleanup">>}, o \in Terminal :
            StartRecovery(cause) = To(Recovering(c, rest, o, FALSE),
                                      <<EmitStatus("Recovering"), Invoke(c)>>)
      BY StartRecoveryType
    <3>2. todo' = <<EmitStatus("Recovering"), Invoke(c)>>
      BY <2>1, <2>2, <3>1 DEF Deliver, To
    <3> QED
      BY <3>2, EffectsDiffer DEF MarksNext
  <2> QED
    BY <1>3, <2>3, <2>4 DEF StopActive, CauseFits, Cause
<1>4. CASE StopDuringRun
  <2>1. gate.purpose \in Command /\ gate.at # "rest"
    BY <1>4, ProcessConcludes DEF StopDuringRun, IsRunning, ProcessAt
  <2>2. st'.kind = st.kind /\ st'.retried = st.retried
    BY <1>4, <2>1, Asked, StopSteps DEF StopDuringRun, TypeOK
  <2> QED
    BY <1>4, <2>2 DEF StopDuringRun, CauseFits, Cause, MarksNext
<1>5. CASE Install
  <2>1. Cause'
    BY <1>5, InstallSteps DEF Cause, TypeOK
  <2> QED
    BY <2>1 DEF CauseFits
<1>6. CASE ChangeMode
  <2>1. Cause'
    BY <1>6 DEF ChangeMode, Cause, TypeOK
  <2> QED
    BY <2>1 DEF CauseFits
<1>7. CASE Crash
  BY <1>7 DEF Crash, CauseFits, Cause, MarksNext, NoGate, Gate
<1>8. CASE Restart
  <2>1. /\ gate.at = "rest" /\ UNCHANGED <<gate, tainted, replaced, modes, killed, unwritten>>
    BY <1>8 DEF Restart, Placed, GateFits
  <2>2. CASE UNCHANGED <<st, todo>>
    BY <2>1, <2>2 DEF CauseFits, Cause, MarksNext
  <2>3. ASSUME NEW outcome, st' = ReplayRecovery(outcome).state,
               todo' = ReplayRecovery(outcome).effects
        PROVE  CauseFits'
    <3>1. ~st'.retried /\ todo' = <<EmitStatus("Recovering"), Invoke("Abort")>>
      BY <2>3 DEF ReplayRecovery, To, Recovering
    <3>2. ~MarksNext(todo')
      BY <3>1, EffectsDiffer DEF MarksNext
    <3> QED
      BY <2>1, <3>1, <3>2 DEF CauseFits, Cause
  <2> QED
    BY <1>8, <2>2, <2>3 DEF Restart
<1>9. CASE UNCHANGED vars
  BY <1>9 DEF vars, CauseFits, Cause, MarksNext
<1> QED
  BY <1>1, <1>2, <1>3, <1>4, <1>5, <1>6, <1>7, <1>8, <1>9, CauseGate, CauseProcess
  DEF Next, GateMoves

-----------------------------------------------------------------------------
(***************************************************************************)
(* The theorems.                                                           *)
(***************************************************************************)
LEMMA GateInit == Init => GateInv
  BY TypeInit, FilesInit, DirectoryInit, MarkerInit, CauseInit DEF GateInv

(* Every step keeps the invariant.                                          *)
LEMMA GateStep == GateInv /\ [Next]_vars => GateInv'
  BY TypeStep, FilesStep, DirectoryStep, MarkerStep, CauseStep DEF GateInv

(* The invariant holds in every reachable state.  About: resolution,        *)
(* machine, process and host taken together.                                *)
THEOREM GateInvariant == Spec => []GateInv
  BY GateInit, GateStep, PTL DEF Spec

(* The manifest read and the program run are together the bytes that were   *)
(* ordered unless a file was replaced after they were hashed, for any       *)
(* number of replacements.  About: the                                      *)
(* digest recomputed before every command in invoke_gated.                  *)
THEOREM RunsAsOrdered == Spec => []RanAsOrdered
<1>1. GateInv => RanAsOrdered
  BY DEF GateInv, FilesFit
<1> QED
  BY <1>1, GateInvariant, PTL

(* An order the master validated is denied for its parameters or duration   *)
(* only by a manifest of the same digest that is the master's cut off       *)
(* earlier or later, whatever the schemas.  About: validate_params shared   *)
(* by the two ends, and a digest over a plain concatenation.                *)
THEOREM OrdersValidated == Spec => []ValidationAgrees
<1>1. GateInv => ValidationAgrees
  BY DEF GateInv, FilesFit
<1> QED
  BY <1>1, GateInvariant, PTL

(* A marker on the host is journaled, or the host is quarantined, or the    *)
(* record of its quarantine could not be written, through any kills,        *)
(* crashes, replacements and removals that fail.  About: the exit codes of  *)
(* inject and revert, and what the machine concludes from each.             *)
THEOREM MarkersAccounted == Spec => []MarkerAccounted
<1>1. GateInv => MarkerAccounted
  BY DEF GateInv, MarkerFits
<1> QED
  BY <1>1, GateInvariant, PTL

(* Types are kept, and a quarantine has a cause outside the agent: a        *)
(* replaced file, a changed mode or a killed process.  About: the single    *)
(* retry of a recovery command, and the idempotent revert of noop-marker.   *)
THEOREM QuarantinesHaveCause == Spec => []GateSound
<1>1. GateInv => GateSound
  BY DEF GateInv, GateSound, CauseFits, Cause, QuarantineHasCause
<1> QED
  BY <1>1, GateInvariant, PTL

-----------------------------------------------------------------------------
(***************************************************************************)
(* The contract of a fault plugin: a process begins, acts at some moment,  *)
(* and exits truthfully or is killed; every other step leaves it alone.    *)
(***************************************************************************)
LEMMA ContractInit == Init => Contract!Init
  BY DEF Init, Contract!Init, IsRunning, ProcessAt, NoGate, Gate, None, Contract!None, NothingSaid,
         Contract!NothingSaid

(* What the contract sees of a step at which no process runs.               *)
LEMMA ContractIdle ==
  ASSUME ~IsRunning, ~IsRunning', UNCHANGED <<marker, said>>
  PROVE  UNCHANGED Contract!vars
  BY DEF Contract!vars, None

(* A step of the process is a step of the contract, or none.                *)
LEMMA ContractProcess ==
  ASSUME TypeOK, Placed, Process
  PROVE  Contract!Act \/ UNCHANGED Contract!vars
<1> DEFINE purpose == IF IsRunning THEN gate.purpose ELSE None
<1>1. IsRunning /\ IsRunning' /\ gate'.purpose = gate.purpose /\ UNCHANGED said
  BY ProcessSteps DEF IsRunning, ProcessAt, histVars
<1>2. UNCHANGED purpose /\ purpose = gate.purpose
  BY <1>1
<1>3. CASE UNCHANGED marker
  BY <1>1, <1>2, <1>3 DEF Contract!vars
<1>4. CASE Persist /\ marker' = "present"
  <2>1. purpose = "Inject"
    BY <1>2, <1>4, ProcessState
  <2> QED
    BY <1>1, <1>2, <1>4, <2>1 DEF Contract!Act
<1>5. CASE Revert /\ marker' = "absent"
  <2>1. purpose \in {"Abort", "Cleanup"}
    BY <1>2, <1>5, ProcessState
  <2> QED
    BY <1>1, <1>2, <1>5, <2>1 DEF Contract!Act
<1>6. UNCHANGED marker \/ (Persist /\ marker' = "present") \/ (Revert /\ marker' = "absent")
  BY DEF Process, PreflightDir, PreflightProbe, WriteTemp, Persist, Revert, hostVars
<1> QED
  BY <1>3, <1>4, <1>5, <1>6

(* A step of the gate is a step of the contract, or none.                   *)
LEMMA ContractGate ==
  ASSUME TypeOK, Placed, MarkerFits, GateMoves
  PROVE  Contract!Next \/ UNCHANGED Contract!vars
<1> DEFINE purpose == IF IsRunning THEN gate.purpose ELSE None
<1>1. UNCHANGED marker
  BY GateSteps DEF hostVars
<1>2. gate \in GateType
  BY DEF TypeOK, GateType
<1>3. ASSUME NEW ev, Concludes(ev)
      PROVE  ~IsRunning'
  BY <1>3 DEF Concludes, Conclude, NoGate, Gate, IsRunning, ProcessAt
<1>4. CASE ReadManifest
  <2>1. ~IsRunning /\ UNCHANGED said
    BY <1>4 DEF ReadManifest, IsRunning, ProcessAt
  <2>2. ~IsRunning'
    <3>1. [gate EXCEPT !.at = "program", !.seen = shelf.manifest].at = "program"
      BY <1>2 DEF GateType
    <3> QED
      BY <1>3, <1>4, <3>1, ManifestRead DEF Refuses, IsRunning, ProcessAt
  <2> QED
    BY <1>1, <2>1, <2>2, ContractIdle
<1>5. CASE HashProgram
  <2>1. ~IsRunning /\ UNCHANGED said
    BY <1>5 DEF HashProgram, IsRunning, ProcessAt
  <2>2. ~IsRunning'
    <3>1. [gate EXCEPT !.at = "spawn"].at = "spawn"
      BY <1>2 DEF GateType
    <3> QED
      BY <1>3, <1>5, <3>1, ProgramHashed DEF Refuses, IsRunning, ProcessAt
  <2> QED
    BY <1>1, <2>1, <2>2, ContractIdle
<1>6. CASE Spawn
  <2>1. ~IsRunning /\ gate.at = "spawn" /\ gate.purpose \in Command
    BY <1>6, ProcessConcludes DEF Spawn, IsRunning, ProcessAt
  <2>2. CASE /\ gate' = [gate EXCEPT !.at = "started", !.image = shelf.program]
             /\ said' = NothingSaid
    <3>1. IsRunning' /\ gate'.purpose = gate.purpose
      BY <1>2, <2>2 DEF GateType, IsRunning, ProcessAt
    <3>2. purpose = None /\ purpose' = gate.purpose
      BY <2>1, <3>1
    <3>3. Contract!Begin(gate.purpose)
      BY <1>1, <2>2, <3>2
      DEF Contract!Begin, Contract!None, None, NothingSaid, Contract!NothingSaid
    <3> QED
      BY <2>1, <3>3 DEF Contract!Next, Contract!Command, Command
  <2>3. CASE gate' = [gate EXCEPT !.tries = @ + 1] /\ UNCHANGED said
    <3>1. ~IsRunning'
      BY <1>2, <2>1, <2>3 DEF GateType, IsRunning, ProcessAt
    <3> QED
      BY <1>1, <2>1, <2>3, <3>1, ContractIdle
  <2>4. CASE UNCHANGED said /\ Concludes(InvocationFailed(gate.purpose))
    BY <1>1, <1>3, <2>1, <2>4, ContractIdle
  <2> QED
    BY <1>6, <2>2, <2>3, <2>4, ProcessConcludes
<1>7. CASE ProcessExits
  <2> DEFINE disposition == DispositionOf(gate.code)
  <2>1. /\ IsRunning /\ gate.at = "exiting" /\ gate.purpose \in Command
        /\ said' = <<gate.purpose, disposition>> /\ ~IsRunning'
    BY <1>3, <1>7, ProcessConcludes DEF ProcessExits, IsRunning, ProcessAt
  <2>2. purpose = gate.purpose /\ purpose' = None
    BY <2>1
  <2>3. disposition \in Disposition
    BY DEF DispositionOf, Disposition, TypeOK, Code
  <2>4. Contract!Truthful(gate.purpose, disposition)
    BY <2>1, ExitCodes DEF MarkerFits, ExitsTrue, Contract!Truthful, TypeOK
  <2> HIDE DEF disposition
  <2>5. Contract!Exit(disposition)
    BY <1>1, <2>1, <2>2, <2>4 DEF Contract!Exit, Contract!None, None, Command
  <2> QED
    BY <2>3, <2>5 DEF Contract!Next, Contract!Disposition, Disposition
<1>8. CASE ProcessKilled
  <2>1. /\ IsRunning /\ gate.purpose \in Command /\ ~IsRunning' /\ said' = NothingSaid
    BY <1>3, <1>8, ProcessConcludes DEF ProcessKilled
  <2>2. purpose = gate.purpose /\ purpose' = None
    BY <2>1
  <2>3. Contract!Break
    BY <1>1, <2>1, <2>2
    DEF Contract!Break, Contract!None, None, Command, NothingSaid, Contract!NothingSaid
  <2> QED
    BY <2>3 DEF Contract!Next
<1> QED
  BY <1>4, <1>5, <1>6, <1>7, <1>8 DEF GateMoves

(* Every step is a step of the contract, or none.                           *)
LEMMA ContractStep ==
  ASSUME GateInv, [Next]_vars
  PROVE  [Contract!Next]_(Contract!vars)
<1> USE DEF hostVars, histVars, machineVars
<1>0. TypeOK /\ Placed /\ MarkerFits
  BY DEF GateInv
<1>1. CASE Submit
  <2>1. gate.at = "rest" /\ gate'.at = "manifest" /\ UNCHANGED <<marker, said>>
    BY <1>0, <1>1 DEF Submit, Placed, GateFits, NoGate, Gate
  <2> QED
    BY <2>1, ContractIdle DEF IsRunning, ProcessAt
<1>2. CASE Perform
  <2>1. gate.at = "rest" /\ gate'.at \in {"rest", "manifest"} /\ UNCHANGED <<marker, said>>
    BY <1>0, <1>2, Performed DEF NoGate, Gate
  <2> QED
    BY <2>1, ContractIdle DEF IsRunning, ProcessAt
<1>3. CASE StopActive \/ StopDuringRun \/ Install \/ ChangeMode \/ Restart \/ UNCHANGED vars
  <2>1. UNCHANGED <<gate, marker, said>>
    BY <1>3 DEF StopActive, StopDuringRun, Install, Installed, ChangeMode, Restart, vars
  <2> QED
    BY <2>1 DEF Contract!vars, IsRunning
<1>4. CASE Crash
  <2>1. ~IsRunning' /\ UNCHANGED marker
    BY <1>4 DEF Crash, NoGate, Gate, IsRunning, ProcessAt
  <2>2. CASE IsRunning
    <3>1. gate.purpose # None /\ said' = NothingSaid
      BY <1>0, <1>4, <2>2, ProcessConcludes DEF Crash, Command, None
    <3>2. Contract!Break
      BY <2>1, <2>2, <3>1
      DEF Contract!Break, Contract!None, None, NothingSaid, Contract!NothingSaid
    <3> QED
      BY <3>2 DEF Contract!Next
  <2>3. CASE ~IsRunning
    BY <1>4, <2>1, <2>3, ContractIdle DEF Crash
  <2> QED
    BY <2>2, <2>3
<1> QED
  BY <1>0, <1>1, <1>2, <1>3, <1>4, ContractGate, ContractProcess
  DEF Next, GateMoves, Contract!Next

(* noop-marker, as the agent runs it, keeps the contract that Supervisor    *)
(* assumes of every plugin: an exit code never lies about the host.  About: *)
(* the exit-code table of the protocol against the commands of noop-marker. *)
THEOREM ThePluginKeepsItsContract == Spec => KeepsContract
<1>1. GateInv /\ [Next]_vars => [Contract!Next]_(Contract!vars)
  BY ContractStep
<1> QED
  BY <1>1, GateInvariant, ContractInit, PTL DEF Spec, KeepsContract, Contract!Spec
=============================================================================
