-------------------------- MODULE SupervisorProofs --------------------------
(***************************************************************************)
(* Theorems about the agent, for any set of instances and any bounds: its  *)
(* types, that no fault is stranded, that no task stands still, that what  *)
(* it tells is true, and that it implements FaultLifecycle.                *)
(***************************************************************************)
EXTENDS SupervisorInvariant, InstanceMachineProofs, FiniteSetTheorems, SequenceTheorems

(* The events the shell hands to the machine belong to its vocabulary.      *)
LEMMA EventTypes ==
  /\ \A t \in {"SetupOk", "SetupFailed", "JournalWritten", "JournalWriteFailed"} :
       Plainly(t) \in Event
  /\ \A c \in Command, d \in Disposition : CommandFinished(c, d) \in Event
  /\ \A c \in Command : InvocationFailed(c) \in Event /\ InvokeRejected(c) \in Event
  /\ \A c \in StopCause : StopRequested(c) \in Event
  BY DEF Event

(* One event through the machine leaves the task well typed.                *)
LEMMA AdvanceType ==
  ASSUME TypeOK, NEW i \in Instance, NEW ev \in Event, Advance(i, ev)
  PROVE  /\ mach' \in [Instance -> MachineState]
         /\ effects' \in [Instance -> Seq(Effect)]
         /\ pc' \in [Instance -> PC]
<1>1. mach[i] \in MachineState
  BY DEF TypeOK
<1>2. Step(mach[i], ev).state \in MachineState /\ Step(mach[i], ev).effects \in Seq(Effect)
  BY <1>1, StepType
<1> QED
  BY <1>2 DEF Advance, TypeOK, PC

(* So does the end of an effect, and its result.                            *)
LEMMA EffectDoneType ==
  ASSUME TypeOK, NEW i \in Instance, effects[i] # << >>, EffectDone(i)
  PROVE  effects' \in [Instance -> Seq(Effect)] /\ pc' \in [Instance -> PC]
<1>1. effects[i] \in Seq(Effect)
  BY DEF TypeOK
<1>2. Tail(effects[i]) \in Seq(Effect)
  BY <1>1
<1> QED
  BY <1>2 DEF EffectDone, TypeOK, PC

(* An answer joins the queue as a well-typed event.                         *)
LEMMA ResultType ==
  ASSUME TypeOK, NEW i \in Instance, NEW ev \in Event, Result(i, ev)
  PROVE  queue' \in [Instance -> Seq(Event)]
<1>1. queue[i] \in Seq(Event)
  BY DEF TypeOK
<1>2. Append(queue[i], ev) \in Seq(Event)
  BY <1>1
<1> QED
  BY <1>2 DEF Result, TypeOK

(* The command under way is a command.                                      *)
LEMMA RunningType ==
  ASSUME TypeOK, NEW i \in Instance, effects[i] # << >>, Head(effects[i]).type = "Invoke"
  PROVE  Head(effects[i]) = Invoke(Running(i)) /\ Running(i) \in Command
<1>1. effects[i] \in Seq(Effect)
  BY DEF TypeOK
<1>2. Head(effects[i]) \in Effect
  BY <1>1
<1> QED
  BY <1>2, EffectFields DEF Running

(* Stop requests in a queue can be counted.                                 *)
LEMMA StopsCounted ==
  ASSUME TypeOK, NEW i \in Instance
  PROVE  Cardinality(StopsQueued(i)) \in Nat
<1>1. Len(queue[i]) \in Nat
  BY DEF TypeOK
<1>2. IsFiniteSet(1..Len(queue[i]))
  BY <1>1, FS_Interval
<1>3. StopsQueued(i) \subseteq 1..Len(queue[i])
  BY DEF StopsQueued
<1> QED
  BY <1>2, <1>3, FS_Subset, FS_CardinalityType

(* A frame queued fits the channel.                                         *)
LEMMA QueuedType ==
  ASSUME TypeOK, Queued
  PROVE  out' \in 0..OutCap
  BY BoundsAssumption DEF TypeOK, Queued

-----------------------------------------------------------------------------
(***************************************************************************)
(* Type correctness.                                                       *)
(***************************************************************************)

(* Every step keeps the types and the bounds.                               *)
LEMMA TypeStep ==
  ASSUME TypeOK, \A i \in Instance : UnderWay(i), [Next]_vars
  PROVE  TypeOK'
<1>0. OutCap \in Nat /\ MaxLines \in Nat /\ MaxStops \in Nat /\ MaxRuns \in Nat /\ MaxCrashes \in Nat
  BY BoundsAssumption
<1> USE DEF taskVars, diskVars, sessionVars, boundVars, historyVars
<1>1. CASE UNCHANGED vars
  BY <1>1 DEF TypeOK, vars
<1>2. ASSUME NEW i \in Instance, RunFault(i) \/ AbortFault(i)
      PROVE  TypeOK'
  <2>1. CASE RunFault(i)
    <3>1. runs' \in [Instance -> 0..MaxRuns]
      BY <1>0, <2>1 DEF TypeOK, RunFault
    <3>2. pc' \in [Instance -> PC] /\ refused' \subseteq Instance
      BY <2>1 DEF TypeOK, RunFault, PC
    <3> QED
      BY <2>1, <3>1, <3>2 DEF TypeOK, RunFault
  <2>2. CASE AbortFault(i)
    <3>1. stopRx[i] \in 0..MaxStops /\ stopRx[i] + Cardinality(StopsQueued(i)) < MaxStops
      BY <2>2 DEF TypeOK, AbortFault
    <3>2. stopRx[i] + 1 \in 0..MaxStops
      BY <1>0, <3>1, StopsCounted
    <3> QED
      BY <2>2, <3>2 DEF TypeOK, AbortFault
  <2> QED
    BY <1>2, <2>1, <2>2
<1>3. ASSUME NEW c \in Clear, ClearTaint(c) \/ ClearTask(c)
      PROVE  TypeOK'
  <2>1. CASE ClearTaint(c)
    BY <2>1 DEF TypeOK, ClearTaint
  <2>2. CASE ClearRemove(c)
    BY <2>2 DEF TypeOK, ClearRemove
  <2>3. CASE ClearSend(c)
    <3>1. out' \in 0..OutCap
      BY <1>0, <2>3 DEF TypeOK, ClearSend
    <3>2. clear' \in [Clear -> {"unsent", "remove", "send", "done"}]
      BY <2>3 DEF TypeOK, ClearSend
    <3> QED
      BY <2>3, <3>1, <3>2 DEF TypeOK, ClearSend
  <2> QED
    BY <1>3, <2>1, <2>2, <2>3 DEF ClearTask
<1>4. ASSUME NEW i \in Instance, Task(i)
      PROVE  TypeOK'
  <2>1. CASE Announce(i)
    <3>1. reported' \in [Instance -> WireState \cup {None}] /\ pc' \in [Instance -> PC]
      BY <2>1 DEF TypeOK, Announce, PC, WireState
    <3> QED
      BY <2>1, <3>1, QueuedType DEF TypeOK, Announce
  <2>2. CASE Setup(i)
    BY <2>2, EventTypes DEF TypeOK, Setup, PC
  <2>3. CASE TakeEvent(i)
    <3>1. queue[i] \in Seq(Event) /\ queue[i] # << >>
      BY <2>3 DEF TypeOK, TakeEvent
    <3>2. Head(queue[i]) \in Event /\ Tail(queue[i]) \in Seq(Event)
      BY <3>1
    <3> QED
      BY <2>3, <3>2, AdvanceType DEF TypeOK, TakeEvent
  <2>4. CASE OperatorStops(i)
    <3>1. StopRequested("OperatorAbort") \in Event
      BY EventTypes DEF StopCause
    <3> QED
      <4>1. stopRx' \in [Instance -> 0..MaxStops]
        BY <1>0, <2>4 DEF TypeOK, OperatorStops
      <4> QED
        BY <2>4, <3>1, <4>1, AdvanceType DEF TypeOK, OperatorStops
  <2>5. ASSUME NEW cause \in StopCause \ {"OperatorAbort"}, TimerFires(i, cause)
        PROVE  TypeOK'
    <3>1. StopRequested(cause) \in Event
      BY EventTypes
    <3> QED
      BY <2>5, <3>1, AdvanceType DEF TypeOK, TimerFires
  <2>6. CASE Finish(i)
    <3>1. Fresh \in MachineState
      BY PlainType DEF Fresh, Kind, PreInject, Terminal
    <3> QED
      <4>1. pc' \in [Instance -> PC]
        BY <2>6 DEF TypeOK, Finish, PC
      <4>2. mach' \in [Instance -> MachineState]
        BY <2>6, <3>1 DEF TypeOK, Finish
      <4> QED
        BY <2>6, <4>1, <4>2 DEF TypeOK, Finish
  <2>7. CASE DoEmitStatus(i)
    <3>1. effects[i] \in Seq(Effect) /\ effects[i] # << >>
      BY <2>7 DEF TypeOK, DoEmitStatus, Performs
    <3>2. Head(effects[i]) \in Effect
      BY <3>1
    <3>3. Head(effects[i]).state \in WireState
      BY <2>7, <3>2, EffectFields DEF DoEmitStatus, Performs
    <3> QED
      <4>1. reported' \in [Instance -> WireState \cup {None}]
        BY <2>7, <3>3 DEF TypeOK, DoEmitStatus
      <4>2. pc' \in [Instance -> PC] /\ effects' \in [Instance -> Seq(Effect)]
        BY <2>7, <3>1, EffectDoneType DEF DoEmitStatus
      <4> QED
        BY <2>7, <4>1, <4>2, QueuedType DEF TypeOK, DoEmitStatus
  <2>8. CASE DoWriteJournal(i)
    BY <2>8, EffectDoneType, ResultType, EventTypes DEF TypeOK, DoWriteJournal, Performs
  <2>9. CASE DoRemoveJournal(i)
    BY <2>9, EffectDoneType DEF TypeOK, DoRemoveJournal, Performs
  <2>10. CASE DoMarkTainted(i)
    <3>1. pc' \in [Instance -> PC] /\ effects' \in [Instance -> Seq(Effect)]
      BY <2>10, EffectDoneType DEF TypeOK, DoMarkTainted, Performs, PC
    <3> QED
      BY <2>10, <3>1 DEF TypeOK, DoMarkTainted, Quarantine
  <2>11. CASE SendTaintFrame(i)
    <3>1. effects[i] # << >>
      BY <2>11 DEF SendTaintFrame, UnderWay
    <3> QED
      BY <2>11, <3>1, QueuedType, EffectDoneType DEF TypeOK, SendTaintFrame
  <2>12. CASE InvokeNotStarted(i)
    BY <2>12, EffectDoneType, ResultType, RunningType, EventTypes
    DEF TypeOK, InvokeNotStarted, Performs
  <2>13. CASE StartInvoke(i)
    BY <2>13 DEF TypeOK, StartInvoke, PC
  <2>14. CASE StopDuringRun(i)
    <3>1. queue[i] \in Seq(Event) /\ StopRequested("OperatorAbort") \in Event
      BY EventTypes DEF TypeOK, StopCause
    <3>2. <<StopRequested("OperatorAbort")>> \o queue[i] \in Seq(Event)
      BY <3>1
    <3>3. stopRx' \in [Instance -> 0..MaxStops]
      BY <1>0, <2>14 DEF TypeOK, StopDuringRun
    <3>4. queue' \in [Instance -> Seq(Event)]
      BY <2>14, <3>2 DEF TypeOK, StopDuringRun
    <3> QED
      BY <2>14, <3>3, <3>4 DEF TypeOK, StopDuringRun
  <2>15. CASE ForwardLine(i)
    <3>1. effects[i] # << >> /\ lines[i] > 0
      BY <2>15 DEF ForwardLine, UnderWay
    <3>2. lines' \in [Instance -> 0..MaxLines]
      BY <1>0, <2>15, <3>1 DEF TypeOK, ForwardLine
    <3>3. pc' \in [Instance -> PC] /\ effects' \in [Instance -> Seq(Effect)]
      <4>1. CASE lines[i] = 1
        BY <2>15, <3>1, <4>1, EffectDoneType DEF ForwardLine
      <4>2. CASE lines[i] # 1
        BY <2>15, <4>2 DEF TypeOK, ForwardLine
      <4> QED
        BY <4>1, <4>2
    <3> QED
      BY <2>15, <3>2, <3>3, QueuedType DEF TypeOK, ForwardLine
  <2> QED
    BY <1>4, <2>1, <2>2, <2>3, <2>4, <2>5, <2>6, <2>7, <2>8, <2>9, <2>10, <2>11, <2>12,
       <2>13, <2>14, <2>15 DEF Task
<1>5. ASSUME NEW i \in Instance, PluginActs(i)
      PROVE  TypeOK'
  BY <1>5 DEF TypeOK, PluginActs, LiveAfter
<1>6. ASSUME NEW i \in Instance, ProcessEnds(i)
      PROVE  TypeOK'
  <2>1. effects[i] # << >> /\ Running(i) \in Command
    BY <1>6, RunningType DEF ProcessEnds, UnderWay
  <2>2. ProcessResults(i) \subseteq Event
    BY <2>1, EventTypes DEF ProcessResults
  <2>3. queue' \in [Instance -> Seq(Event)]
    BY <1>6, <2>2, ResultType DEF ProcessEnds
  <2>4. lines' \in [Instance -> 0..MaxLines]
    BY <1>6 DEF TypeOK, ProcessEnds
  <2>5. pc' \in [Instance -> PC] /\ effects' \in [Instance -> Seq(Effect)]
    <3>1. CASE EffectDone(i)
      BY <2>1, <3>1, EffectDoneType
    <3>2. CASE pc' = [pc EXCEPT ![i] = "telemetry"] /\ UNCHANGED effects
      BY <3>2 DEF TypeOK, PC
    <3> QED
      BY <1>6, <3>1, <3>2 DEF ProcessEnds
  <2> QED
    BY <1>6, <2>3, <2>4, <2>5 DEF TypeOK, ProcessEnds
<1>7. ASSUME NEW i \in Instance, NEW command \in Command, OrphanActs(i, command)
      PROVE  TypeOK'
  BY <1>7 DEF TypeOK, OrphanActs, LiveAfter
<1>8. CASE Connect \/ Disconnect \/ Drain
  <2>1. CASE Connect \/ Disconnect
    BY <2>1 DEF TypeOK, Connect, Disconnect
  <2>2. CASE Drain
    BY <1>0, <2>2 DEF TypeOK, Drain
  <2> QED
    BY <1>8, <2>1, <2>2
<1>9. CASE Crash
  <2>1. Fresh \in MachineState /\ << >> \in Seq(Event) /\ << >> \in Seq(Effect)
    BY PlainType DEF Fresh, Kind, PreInject, Terminal
  <2>2. crashes' \in 0..MaxCrashes
    BY <1>0, <1>9 DEF TypeOK, Crash
  <2>3. orphans' \subseteq Instance \X Command
    <3>1. \A i \in Instance : pc[i] = "run" => Running(i) \in Command
      BY RunningType DEF UnderWay
    <3> QED
      BY <1>9, <3>1 DEF TypeOK, Crash
  <2>4. /\ pc' \in [Instance -> PC] /\ mach' \in [Instance -> MachineState]
        /\ queue' \in [Instance -> Seq(Event)] /\ effects' \in [Instance -> Seq(Effect)]
    BY <1>9, <2>1 DEF Crash, PC
  <2>5. /\ lines' \in [Instance -> 0..MaxLines] /\ stopRx' \in [Instance -> 0..MaxStops]
        /\ out' \in 0..OutCap
    BY <1>0, <1>9 DEF Crash
  <2>6. clear' \in [Clear -> {"unsent", "remove", "send", "done"}]
    BY <1>9 DEF TypeOK, Crash
  <2> QED
    BY <1>9, <2>2, <2>3, <2>4, <2>5, <2>6 DEF TypeOK, Crash
<1>10. CASE Restart
  BY <1>10 DEF TypeOK, Restart
<1>11. CASE Startup
  <2>1. CASE Serve
    BY <2>1 DEF TypeOK, Serve
  <2>2. ASSUME NEW i \in Instance, ReplayEntry(i)
        PROVE  TypeOK'
    <3>1. PICK outcome \in {"Aborted", "Error"} :
            /\ mach' = [mach EXCEPT ![i] = ReplayRecovery(outcome).state]
            /\ effects' = [effects EXCEPT ![i] = ReplayRecovery(outcome).effects]
      BY <2>2 DEF ReplayEntry
    <3>2. /\ ReplayRecovery(outcome).state \in MachineState
          /\ ReplayRecovery(outcome).effects \in Seq(Effect)
      <4>1. Recovering("Abort", <<"Cleanup">>, outcome, FALSE) \in MachineState
        BY RecoveringType DEF Terminal
      <4>2. <<EmitStatus("Recovering"), Invoke("Abort")>> \in Seq(Effect)
        BY EffectTypes DEF WireState, Command
      <4> QED
        BY <4>1, <4>2 DEF ReplayRecovery, To
    <3> QED
      BY <2>2, <3>1, <3>2 DEF TypeOK, ReplayEntry, PC
  <2>3. ASSUME NEW i \in Instance, ReplayUnreadable(i)
        PROVE  TypeOK'
    BY <2>3 DEF TypeOK, ReplayUnreadable, Quarantine
  <2> QED
    BY <1>11, <2>1, <2>2, <2>3 DEF Startup
<1> QED
  BY <1>1, <1>2, <1>3, <1>4, <1>5, <1>6, <1>7, <1>8, <1>9, <1>10, <1>11 DEF Next

(* Every step keeps the effects in step with where the task stands.         *)
LEMMA UnderWayStep ==
  ASSUME TypeOK, \A i \in Instance : UnderWay(i), [Next]_vars
  PROVE  \A i \in Instance : UnderWay(i)'
<1> SUFFICES ASSUME NEW j \in Instance
             PROVE  UnderWay(j)'
  OBVIOUS
<1> USE DEF taskVars, diskVars, sessionVars, boundVars, historyVars
<1>a. /\ pc \in [Instance -> PC] /\ effects \in [Instance -> Seq(Effect)]
      /\ lines \in [Instance -> 0..MaxLines] /\ MaxLines \in Nat
  BY BoundsAssumption DEF TypeOK
<1>b. UnderWay(j)
  OBVIOUS
<1>1. CASE UNCHANGED <<pc, effects, lines>>
  BY <1>b, <1>1 DEF UnderWay
<1>2. ASSUME NEW i \in Instance, EffectDone(i),
             UNCHANGED lines \/ \E n \in Int : lines' = [lines EXCEPT ![i] = n]
      PROVE  UnderWay(j)'
  <2>1. CASE i = j
    BY <1>2, <1>a, <2>1 DEF EffectDone, UnderWay
  <2>2. CASE i # j
    BY <1>2, <1>a, <1>b, <2>2 DEF EffectDone, UnderWay
  <2> QED
    BY <2>1, <2>2
<1>3. ASSUME NEW i \in Instance, NEW ev, Advance(i, ev), UNCHANGED lines
      PROVE  UnderWay(j)'
  BY <1>3, <1>a, <1>b DEF Advance, UnderWay
<1>4. ASSUME NEW i \in Instance, RunFault(i)
      PROVE  UnderWay(j)'
  BY <1>4, <1>a, <1>b DEF RunFault, UnderWay
<1>5. ASSUME NEW i \in Instance, Announce(i) \/ Setup(i) \/ Finish(i)
      PROVE  UnderWay(j)'
  BY <1>5, <1>a, <1>b DEF Announce, Setup, Finish, UnderWay
<1>6. ASSUME NEW i \in Instance,
             TakeEvent(i) \/ OperatorStops(i) \/ \E cause \in StopCause : TimerFires(i, cause)
      PROVE  UnderWay(j)'
  BY <1>3, <1>6 DEF TakeEvent, OperatorStops, TimerFires
<1>7. ASSUME NEW i \in Instance,
             DoEmitStatus(i) \/ DoWriteJournal(i) \/ DoRemoveJournal(i) \/ SendTaintFrame(i)
               \/ InvokeNotStarted(i)
      PROVE  UnderWay(j)'
  BY <1>2, <1>7
  DEF DoEmitStatus, DoWriteJournal, DoRemoveJournal, SendTaintFrame, InvokeNotStarted
<1>8. ASSUME NEW i \in Instance, DoMarkTainted(i)
      PROVE  UnderWay(j)'
  <2>1. CASE EffectDone(i)
    BY <1>2, <1>8, <2>1 DEF DoMarkTainted
  <2>2. CASE pc' = [pc EXCEPT ![i] = "taintFrame"] /\ UNCHANGED effects
    BY <1>8, <1>a, <1>b, <2>2 DEF DoMarkTainted, Performs, UnderWay
  <2> QED
    BY <1>8, <2>1, <2>2 DEF DoMarkTainted
<1>9. ASSUME NEW i \in Instance, StartInvoke(i)
      PROVE  UnderWay(j)'
  BY <1>9, <1>a, <1>b DEF StartInvoke, Performs, UnderWay
<1>10. ASSUME NEW i \in Instance, ForwardLine(i)
       PROVE  UnderWay(j)'
  <2>1. lines[i] > 0 /\ effects[i] # << >> /\ Head(effects[i]).type = "Invoke"
    BY <1>10 DEF ForwardLine, UnderWay
  <2>2. CASE lines[i] = 1
    <3>1. EffectDone(i) /\ lines' = [lines EXCEPT ![i] = 0] /\ 0 \in Int
      BY <1>10, <1>a, <2>2 DEF ForwardLine
    <3>2. \E m \in Int : lines' = [lines EXCEPT ![i] = m]
      BY <3>1
    <3> QED
      BY <1>2, <3>1, <3>2
  <2>3. CASE lines[i] > 1
    <3>1. lines' = [lines EXCEPT ![i] = lines[i] - 1] /\ lines[i] - 1 > 0
      BY <1>10, <1>a, <2>3 DEF ForwardLine
    <3>2. UNCHANGED <<pc, effects>>
      BY <1>10, <1>a, <2>3 DEF ForwardLine
    <3> QED
      BY <1>a, <1>b, <3>1, <3>2 DEF UnderWay
  <2> QED
    BY <1>a, <2>1, <2>2, <2>3
<1>11. ASSUME NEW i \in Instance, ProcessEnds(i)
       PROVE  UnderWay(j)'
  <2>1. effects[i] # << >> /\ Head(effects[i]).type = "Invoke"
    BY <1>11 DEF ProcessEnds, UnderWay
  <2>2. PICK n \in 0..MaxLines :
          /\ lines' = [lines EXCEPT ![i] = n]
          /\ IF n = 0 THEN EffectDone(i)
             ELSE pc' = [pc EXCEPT ![i] = "telemetry"] /\ UNCHANGED effects
    BY <1>11 DEF ProcessEnds
  <2>3. CASE n = 0
    <3>1. EffectDone(i) /\ lines' = [lines EXCEPT ![i] = 0] /\ 0 \in Int
      BY <2>2, <2>3
    <3>2. \E m \in Int : lines' = [lines EXCEPT ![i] = m]
      BY <3>1
    <3> QED
      BY <1>2, <3>1, <3>2
  <2>4. CASE n > 0
    <3>1. pc' = [pc EXCEPT ![i] = "telemetry"] /\ UNCHANGED effects
      BY <2>2, <2>4
    <3> QED
      BY <1>a, <1>b, <2>1, <2>2, <2>4, <3>1 DEF UnderWay
  <2> QED
    BY <1>a, <2>3, <2>4
<1>12. CASE Crash
  BY <1>12 DEF Crash, UnderWay
<1>13. ASSUME NEW i \in Instance, ReplayEntry(i)
       PROVE  UnderWay(j)'
  <2>1. PICK e : e # << >> /\ effects' = [effects EXCEPT ![i] = e]
    BY <1>13 DEF ReplayEntry, ReplayRecovery, To
  <2> QED
    BY <1>13, <1>a, <1>b, <2>1 DEF ReplayEntry, UnderWay
<1> QED
  <2>1. ASSUME NEW i \in Instance, Task(i)
        PROVE  UnderWay(j)'
    <3>1. CASE StopDuringRun(i)
      BY <1>1, <3>1 DEF StopDuringRun
    <3> QED
      BY <2>1, <3>1, <1>5, <1>6, <1>7, <1>8, <1>9, <1>10 DEF Task
  <2>2. ASSUME NEW i \in Instance, AbortFault(i) \/ PluginActs(i)
        PROVE  UnderWay(j)'
    BY <1>1, <2>2 DEF AbortFault, PluginActs
  <2>3. ASSUME NEW c \in Clear, ClearTaint(c) \/ ClearTask(c)
        PROVE  UnderWay(j)'
    BY <1>1, <2>3 DEF ClearTaint, ClearTask, ClearRemove, ClearSend
  <2>4. CASE Connect \/ Disconnect \/ Drain \/ Restart \/ Serve
    BY <1>1, <2>4 DEF Connect, Disconnect, Drain, Restart, Serve
  <2>5. ASSUME NEW i \in Instance, NEW command \in Command,
               OrphanActs(i, command) \/ ReplayUnreadable(i)
        PROVE  UnderWay(j)'
    BY <1>1, <2>5 DEF OrphanActs, ReplayUnreadable
  <2>6. CASE UNCHANGED vars
    BY <1>1, <2>6 DEF vars
  <2>7. ASSUME NEW i \in Instance, ReplayUnreadable(i)
        PROVE  UnderWay(j)'
    BY <1>1, <2>7 DEF ReplayUnreadable
  <2> QED
    BY <1>4, <1>11, <1>12, <1>13, <2>1, <2>2, <2>3, <2>4, <2>5, <2>6, <2>7 DEF Next, Startup

(* The initial state is well typed.                                         *)
LEMMA TypeInit == Init => TypeOK /\ \A i \in Instance : UnderWay(i)
<1> SUFFICES ASSUME Init PROVE TypeOK /\ \A i \in Instance : UnderWay(i)
  OBVIOUS
<1>1. Fresh \in MachineState /\ << >> \in Seq(Event) /\ << >> \in Seq(Effect)
  BY PlainType DEF Fresh, Kind, PreInject, Terminal
<1>2. OutCap \in Nat /\ MaxLines \in Nat /\ MaxStops \in Nat /\ MaxRuns \in Nat /\ MaxCrashes \in Nat
  BY BoundsAssumption
<1>3. /\ pc \in [Instance -> PC] /\ mach \in [Instance -> MachineState]
      /\ queue \in [Instance -> Seq(Event)] /\ effects \in [Instance -> Seq(Effect)]
  BY <1>1 DEF Init, PC
<1>5. /\ lines \in [Instance -> 0..MaxLines] /\ stopRx \in [Instance -> 0..MaxStops]
      /\ out \in 0..OutCap /\ runs \in [Instance -> 0..MaxRuns] /\ crashes \in 0..MaxCrashes
  BY <1>2 DEF Init
<1>6. TypeOK
  BY <1>3, <1>5 DEF Init, TypeOK
<1>4. \A i \in Instance : UnderWay(i)
  BY DEF Init, UnderWay
<1> QED
  BY <1>4, <1>6

(* The types and bounds of Supervisor hold in every behaviour, whatever     *)
(* fails: no effect, event or state outside the vocabulary is ever handed   *)
(* on, and no counter or channel passes its limit.  About: run_instance,    *)
(* apply_effect, send_out, replay_journal.                                  *)
THEOREM TypeCorrect == Spec => []TypeOK
<1> DEFINE Inv == TypeOK /\ \A i \in Instance : UnderWay(i)
<1>1. Init => Inv
  BY TypeInit
<1>2. Inv /\ [Next]_vars => Inv'
  BY TypeStep, UnderWayStep
<1>3. Inv => TypeOK
  OBVIOUS
<1> QED
  BY <1>1, <1>2, <1>3, PTL DEF Spec

-----------------------------------------------------------------------------
(***************************************************************************)
(* What a step of the machine means for the bookkeeping.                   *)
(***************************************************************************)

(* The effects of a step fit its state.                                     *)
EffectsOf(r) ==
  \A k \in 1..Len(r.effects) :
    /\ IsRequest(r.effects[k]) =>
         k = Len(r.effects) /\ ~IsTerminal(r.state) /\ r.state.kind # "Active"
    /\ r.effects[k] = Invoke("Inject") => r.state.kind = "Injecting"
    /\ r.effects[k].type = "RemoveJournal" => IsTerminal(r.state)

(* Lists of effects as step builds them: at most a notice, then a request.  *)
LEMMA EffectShapes ==
  /\ \A s : EmitStatus(s).type = "EmitStatus"
  /\ \A c : Invoke(c).type = "Invoke" /\ (Invoke(c) = Invoke("Inject") <=> c = "Inject")
  /\ WriteJournal.type = "WriteJournal" /\ RemoveJournal.type = "RemoveJournal"
  /\ MarkTainted.type = "MarkTainted"
  BY DEF EmitStatus, Invoke, WriteJournal, RemoveJournal, MarkTainted, EffectOf

(* What step asks for has that shape: a request comes last and only from a  *)
(* state that waits for its answer, a removal only on the way out.          *)
LEMMA StepEffects ==
  ASSUME NEW st \in MachineState, NEW ev \in Event
  PROVE  EffectsOf(Step(st, ev))
<1> DEFINE r == Step(st, ev)
<1> SUFFICES EffectsOf(r)
  OBVIOUS
<1> HIDE DEF r
<1>1. CASE r.effects = << >>
  BY <1>1 DEF EffectsOf
<1>2. ASSUME NEW s, NEW e, r = To(s, <<e>>), e.type \in {"EmitStatus", "Invoke", "WriteJournal"},
             IsRequest(e) => ~IsTerminal(s) /\ s.kind # "Active", e = Invoke("Inject") => s.kind = "Injecting"
      PROVE  EffectsOf(r)
  BY <1>2 DEF EffectsOf, To
<1>3. ASSUME NEW s, NEW w, NEW e, r = To(s, <<EmitStatus(w), e>>), e.type \in {"Invoke", "WriteJournal"},
             ~IsTerminal(s), s.kind # "Active", e = Invoke("Inject") => s.kind = "Injecting"
      PROVE  EffectsOf(r)
  BY <1>3, EffectShapes DEF EffectsOf, To, IsRequest
<1>4. ASSUME NEW s, NEW w, IsTerminal(s),
             \/ r = To(s, <<RemoveJournal, EmitStatus(w)>>)
             \/ r = To(s, <<MarkTainted, RemoveJournal, EmitStatus(w)>>)
      PROVE  EffectsOf(r)
  BY <1>4, EffectShapes DEF EffectsOf, To, IsRequest
<1>a. \A kind, stop : Plain(kind, stop).kind = kind
                        /\ (IsTerminal(Plain(kind, stop)) <=> kind \in Terminal)
  BY DEF Plain, IsTerminal
<1>b. \A kind \in {"PreflightInstall", "PreflightRuntime", "WritingJournal", "Injecting", "Active",
                   "Recovering"} : kind \notin Terminal
  BY DEF Terminal
<1>c. "Aborted" \in Terminal /\ "Error" \in Terminal
  BY DEF Terminal
<1>5. CASE Absorbed(st, r)
  BY <1>1, <1>5 DEF Absorbed
<1>6. CASE PreInjectMove(st, ev, r)
  <2>1. CASE r = AbortedWith
    BY <1>2, <1>a, <1>c, <2>1, EffectShapes DEF AbortedWith, IsRequest
  <2>2. CASE r = AbortedUnjournaled
    BY <1>4, <1>a, <1>c, <2>2 DEF AbortedUnjournaled
  <2>3. CASE r = To(Plain("PreflightInstall", None), <<EmitStatus("Preflight"), Invoke("Preflight")>>)
    BY <1>3, <1>a, <1>b, <2>3, EffectShapes
  <2>4. CASE r = To(Plain("PreflightRuntime", None), <<Invoke("Preflight")>>)
    BY <1>2, <1>a, <1>b, <2>4, EffectShapes
  <2>5. CASE r = To(Plain("WritingJournal", None), <<WriteJournal>>)
    <3>1. WriteJournal # Invoke("Inject")
      BY EffectShapes
    <3> QED
      BY <1>2, <1>a, <1>b, <2>5, <3>1, EffectShapes
  <2>6. CASE r = To(Plain("Injecting", None), <<EmitStatus("Injecting"), Invoke("Inject")>>)
    BY <1>3, <1>a, <1>b, <2>6, EffectShapes
  <2> QED
    BY <1>6, <2>1, <2>2, <2>3, <2>4, <2>5, <2>6 DEF PreInjectMove
<1>7. ASSUME NEW cause \in StopCause, r = StartRecovery(cause)
      PROVE  EffectsOf(r)
  <2>1. PICK c \in {"Abort", "Cleanup"}, rest \in {<< >>, <<"Cleanup">>}, o \in Terminal :
          r = To(Recovering(c, rest, o, FALSE), <<EmitStatus("Recovering"), Invoke(c)>>)
    BY <1>7, StartRecoveryType
  <2> QED
    <3> DEFINE s == Recovering(c, rest, o, FALSE)
    <3>1. ~IsTerminal(s) /\ s.kind # "Active" /\ Invoke(c).type = "Invoke" /\ Invoke(c) # Invoke("Inject")
      BY EffectShapes DEF Recovering, IsTerminal, Terminal
    <3> HIDE DEF s
    <3>2. r = To(s, <<EmitStatus("Recovering"), Invoke(c)>>)
      BY <2>1 DEF s
    <3> QED
      BY <1>3, <3>1, <3>2
<1>8. CASE InjectMove(st, ev, r)
  <2>1. CASE r = To(Plain("Active", None), <<EmitStatus("Active")>>)
    <3>1. EmitStatus("Active").type = "EmitStatus" /\ EmitStatus("Active") # Invoke("Inject")
      BY EffectShapes
    <3> QED
      BY <1>2, <2>1, <3>1 DEF IsRequest
  <2>2. CASE r = AbortedUnjournaled
    BY <1>4, <1>a, <1>c, <2>2 DEF AbortedUnjournaled
  <2> QED
    BY <1>7, <1>8, <2>1, <2>2 DEF InjectMove
<1>9. CASE RecoveryMove(st, ev, r)
  <2>1. CASE st.kind = "Active"
    BY <1>7, <1>9, <2>1, EventFields DEF RecoveryMove
  <2>2. CASE st.kind = "Recovering"
    <3>1. st.outcome \in Terminal /\ st.current \in {"Abort", "Cleanup"}
      BY <2>2 DEF MachineState
    <3>2. CASE r = To(Plain(st.outcome, None), <<RemoveJournal, EmitStatus(st.outcome)>>)
      BY <1>4, <1>a, <3>1, <3>2
    <3>3. CASE r = To(Recovering("Cleanup", << >>, st.outcome, FALSE), <<Invoke("Cleanup")>>)
      <4>1. /\ ~IsTerminal(Recovering("Cleanup", << >>, st.outcome, FALSE))
            /\ Recovering("Cleanup", << >>, st.outcome, FALSE).kind # "Active"
        BY <1>b DEF Recovering, IsTerminal
      <4> QED
        BY <1>2, <3>3, <4>1, EffectShapes
    <3>4. CASE r = To([st EXCEPT !.retried = TRUE], <<Invoke(st.current)>>)
      <4>1. /\ ~IsTerminal([st EXCEPT !.retried = TRUE])
            /\ [st EXCEPT !.retried = TRUE].kind # "Active"
        BY <1>b, <2>2 DEF IsTerminal, MachineState
      <4> QED
        BY <1>2, <3>1, <3>4, <4>1, EffectShapes
    <3>5. CASE r = To(Plain("Error", None), <<MarkTainted, RemoveJournal, EmitStatus("Error")>>)
      BY <1>4, <1>a, <1>c, <3>5
    <3> QED
      BY <1>9, <2>2, <3>2, <3>3, <3>4, <3>5 DEF RecoveryMove
  <2> QED
    BY <1>9, <2>1, <2>2 DEF RecoveryMove
<1> QED
  BY <1>5, <1>6, <1>8, <1>9, StepCases DEF r

(* Where a step leads from says why it may leave recovery out.              *)
LEMMA StepOrigins ==
  ASSUME NEW st \in MachineState, NEW ev \in Event, NEW r, r = Step(st, ev)
  PROVE  /\ r.effects # << >> => ~IsStop(ev) \/ st.kind = "Active" \/ IsTerminal(r.state)
         /\ r.state.kind = "Active" => st.kind = "Active" \/ ~IsStop(ev)
         /\ r.state.kind = "WritingJournal" => st.kind = "WritingJournal" \/ ~IsStop(ev)
         /\ r.state.kind = "Injecting" =>
              \/ st.kind = "Injecting" /\ r.effects = << >>
              \/ st.kind = "WritingJournal" /\ ev.type = "JournalWritten"
         /\ r.state.kind \in PreInject => st.kind \in PreInject
         /\ IsTerminal(r.state) =>
              \/ IsTerminal(st) /\ r.effects = << >>
              \/ st.kind \in PreInject
              \/ st.kind = "Injecting" /\ Untouched(ev)
              \/ ClaimsClean(ev)
              \/ r.effects # << >> /\ Head(r.effects).type = "MarkTainted"
<1>1. CASE Absorbed(st, r)
  BY <1>1 DEF Absorbed, IsTerminal
<1>2. CASE PreInjectMove(st, ev, r)
  BY <1>2 DEF PreInjectMove, AbortedWith, AbortedUnjournaled, Plain, To, IsTerminal, Terminal,
     PreInject, IsStop, Succeeded
<1>3. ASSUME NEW cause \in StopCause, r = StartRecovery(cause)
      PROVE  r.state.kind = "Recovering"
  BY <1>3, StartRecoveryType DEF Recovering, To
<1>4. CASE InjectMove(st, ev, r)
  BY <1>3, <1>4 DEF InjectMove, AbortedUnjournaled, Plain, To, IsTerminal, Terminal, PreInject, IsStop
<1>5. CASE RecoveryMove(st, ev, r)
  <2>1. CASE st.kind = "Active"
    BY <1>3, <1>5, <2>1, EventFields DEF RecoveryMove, IsTerminal, Terminal, PreInject
  <2>2. CASE st.kind = "Recovering"
    <3>1. st.outcome \in Terminal /\ st.current \in {"Abort", "Cleanup"}
      BY <2>2 DEF MachineState
    <3>2. ~IsStop(ev)
      BY <1>5, <2>2 DEF RecoveryMove, Succeeded, IsFailureOf, IsStop
    <3>3. CASE Succeeded(ev, st.current)
      <4>1. ClaimsClean(ev)
        BY <3>1, <3>3 DEF ClaimsClean, Succeeded
      <4>2. r.state.kind \in Terminal \cup {"Recovering"}
        BY <1>5, <2>2, <3>1, <3>3 DEF RecoveryMove, Plain, Recovering, To, IsFailureOf
      <4> QED
        BY <3>2, <4>1, <4>2 DEF Terminal, PreInject
    <3>4. CASE r = To([st EXCEPT !.retried = TRUE], <<Invoke(st.current)>>)
      <4>1. r.state.kind = "Recovering"
        BY <2>2, <3>4 DEF To, MachineState
      <4> QED
        BY <3>2, <4>1 DEF IsTerminal, Terminal, PreInject
    <3>5. CASE r = To(Plain("Error", None), <<MarkTainted, RemoveJournal, EmitStatus("Error")>>)
      <4>1. r.state.kind = "Error" /\ r.effects # << >> /\ Head(r.effects) = MarkTainted
        BY <3>5 DEF To, Plain
      <4> QED
        BY <3>2, <4>1, EffectShapes DEF IsTerminal, Terminal, PreInject
    <3> QED
      BY <1>5, <2>2, <3>3, <3>4, <3>5 DEF RecoveryMove
  <2> QED
    BY <1>5, <2>1, <2>2 DEF RecoveryMove
<1> QED
  BY <1>1, <1>2, <1>4, <1>5, StepCases

-----------------------------------------------------------------------------
(***************************************************************************)
(* The bookkeeping of a task, action by action.                            *)
(***************************************************************************)

(* What a step leaves alone for an instance it is not about.                *)
Bystander(j) ==
  /\ pc'[j] = pc[j] /\ mach'[j] = mach[j] /\ queue'[j] = queue[j] /\ effects'[j] = effects[j]
  /\ j \in live' => j \in live
  /\ j \in marked => j \in marked'
  /\ j \in journal => j \in journal'
  /\ agent' # "down" => agent # "down"
  /\ j \notin todo' => j \notin todo

(* A task nobody touched keeps its books.                                   *)
LEMMA BystanderKeeps ==
  ASSUME NEW j, TaskAccounted(j), Bystander(j)
  PROVE  TaskAccounted(j)'
<1>1. Placed(j)'
  BY DEF TaskAccounted, Bystander, Placed
<1>2. EffectsFit(j)'
  BY DEF TaskAccounted, Bystander, EffectsFit
<1>3. OneAnswer(j)'
  BY DEF TaskAccounted, Bystander, OneAnswer, Pending
<1>4. AnswersHold(j)'
  BY DEF TaskAccounted, Bystander, AnswersHold, Settled
<1>5. SettledWhenOut(j)'
  BY DEF TaskAccounted, Bystander, SettledWhenOut, Settled
<1> QED
  BY <1>1, <1>2, <1>3, <1>4, <1>5 DEF TaskAccounted

(* Stop requests answer nothing and claim nothing.                          *)
LEMMA StopsAreNotAnswers ==
  ASSUME NEW ev, IsStop(ev)
  PROVE  ~ClaimsClean(ev) /\ ev.type \notin {"JournalWritten", "InvokeRejected"}
  BY DEF IsStop, ClaimsClean

(* One event through the machine: q is what is left of the queue.           *)
LEMMA AdvanceKeeps ==
  ASSUME TypeOK, NEW i \in Instance, NEW ev \in Event, NEW q \in Seq(Event),
         UnderWay(i), TaskAccounted(i), pc[i] = "loop", Advance(i, ev),
         queue'[i] = q, UNCHANGED <<live, marked, journal, agent, todo>>,
         \A k, n \in 1..Len(q) : ~IsStop(q[k]) /\ ~IsStop(q[n]) => k = n,
         ~IsStop(ev) \/ mach[i].kind = "Active" => \A k \in 1..Len(q) : IsStop(q[k]),
         \A k \in 1..Len(q) : \E n \in 1..Len(queue[i]) : q[k] = queue[i][n],
         ev.type = "JournalWritten" /\ mach[i].kind = "WritingJournal" => i \in journal,
         ClaimsClean(ev) => i \notin live,
         ev.type = "InvokeRejected" /\ mach[i].kind = "Injecting" => Settled(i)
  PROVE  TaskAccounted(i)'
<1> DEFINE r == Step(mach[i], ev)
<1>1. mach[i] \in MachineState
  BY DEF TypeOK
<1>2. EffectsOf(r)
  BY <1>1, StepEffects
<1>3. /\ r.effects # << >> => ~IsStop(ev) \/ mach[i].kind = "Active" \/ IsTerminal(r.state)
      /\ r.state.kind = "Active" => mach[i].kind = "Active" \/ ~IsStop(ev)
      /\ r.state.kind = "WritingJournal" => mach[i].kind = "WritingJournal" \/ ~IsStop(ev)
      /\ r.state.kind = "Injecting" =>
           \/ mach[i].kind = "Injecting" /\ r.effects = << >>
           \/ mach[i].kind = "WritingJournal" /\ ev.type = "JournalWritten"
      /\ r.state.kind \in PreInject => mach[i].kind \in PreInject
      /\ IsTerminal(r.state) =>
           \/ IsTerminal(mach[i]) /\ r.effects = << >>
           \/ mach[i].kind \in PreInject
           \/ mach[i].kind = "Injecting" /\ Untouched(ev)
           \/ ClaimsClean(ev)
           \/ r.effects # << >> /\ Head(r.effects).type = "MarkTainted"
  BY <1>1, StepOrigins
<1>4. /\ mach'[i] = r.state
      /\ effects'[i] = r.effects
      /\ pc'[i] = IF r.effects = << >> THEN "loop" ELSE "apply"
  BY DEF Advance, TypeOK
<1> HIDE DEF r
<1>5. Placed(i)'
  BY <1>4 DEF Placed
<1>6. EffectsFit(i)'
  BY <1>2, <1>4 DEF EffectsOf, EffectsFit
<1>7. OneAnswer(i)'
  <2>1. Pending(i)' => r.effects # << >> /\ ~IsTerminal(r.state)
    BY <1>2, <1>4 DEF Pending, EffectsOf
  <2> QED
    BY <1>3, <1>4, <2>1 DEF OneAnswer
<1>8. AnswersHold(i)'
  <2> SUFFICES ASSUME NEW k \in 1..Len(q)
               PROVE  /\ q[k].type = "JournalWritten" /\ r.state.kind = "WritingJournal" => i \in journal
                      /\ ClaimsClean(q[k]) => i \notin live
                      /\ q[k].type = "InvokeRejected" /\ r.state.kind = "Injecting" => Settled(i)
    BY <1>4 DEF AnswersHold, Settled
  <2>1. CASE IsStop(q[k])
    BY <2>1, StopsAreNotAnswers
  <2>2. CASE ~IsStop(q[k])
    <3>1. IsStop(ev)
      BY <2>2
    <3>2. r.state.kind = "WritingJournal" => mach[i].kind = "WritingJournal"
      BY <1>3, <3>1
    <3>3. r.state.kind = "Injecting" => mach[i].kind = "Injecting"
      BY <1>3, <3>1 DEF IsStop
    <3> QED
      BY <3>2, <3>3 DEF TaskAccounted, AnswersHold
  <2> QED
    BY <2>1, <2>2
<1>9. SettledWhenOut(i)'
  <2>1. effects[i] = << >>
    BY DEF UnderWay
  <2>2. pc'[i] # "idle"
    BY <1>4
  <2>3. mach[i].kind \in PreInject => Settled(i)
    BY DEF TaskAccounted, SettledWhenOut
  <2>4. r.state.kind = "Injecting" => i \in journal
    BY <1>3 DEF TaskAccounted, SettledWhenOut
  <2>5. r.state.kind = "Injecting" /\ r.effects # << >> => Settled(i)
    BY <1>3, <2>3 DEF PreInject
  <2>6. IsTerminal(r.state) => Settled(i) \/ (r.effects # << >> /\ Head(r.effects).type = "MarkTainted")
    <3>1. mach[i].kind = "Injecting" /\ Untouched(ev) => Settled(i)
      BY DEF Untouched, ClaimsClean, Settled
    <3>2. IsTerminal(mach[i]) => Settled(i)
      BY <2>1 DEF TaskAccounted, SettledWhenOut
    <3> QED
      BY <1>3, <2>3, <3>1, <3>2 DEF Settled
  <2> QED
    BY <1>3, <1>4, <2>2, <2>3, <2>4, <2>5, <2>6 DEF SettledWhenOut, Settled
<1> QED
  BY <1>5, <1>6, <1>7, <1>8, <1>9 DEF TaskAccounted

(* The end of an effect that is no request.                                 *)
LEMMA EffectDoneKeeps ==
  ASSUME TypeOK, NEW i \in Instance, UnderWay(i), TaskAccounted(i),
         effects[i] # << >>, pc[i] \in {"apply", "taintFrame"}, EffectDone(i),
         queue'[i] = queue[i], mach'[i] = mach[i], UNCHANGED <<live, agent, todo>>,
         marked \subseteq marked',
         i \in journal /\ ~IsTerminal(mach[i]) => i \in journal',
         IsTerminal(mach[i]) => Settled(i)',
         pc[i] = "apply" \/ i \in marked'
  PROVE  TaskAccounted(i)'
<1>1. /\ effects'[i] = Tail(effects[i])
      /\ pc'[i] \in {"loop", "apply"}
  BY DEF EffectDone, TypeOK
<1>2. effects[i] \in Seq(Effect)
  BY DEF TypeOK
<1>3. /\ Len(Tail(effects[i])) = Len(effects[i]) - 1
      /\ \A k \in 1..Len(Tail(effects[i])) :
           Tail(effects[i])[k] = effects[i][k + 1] /\ k + 1 \in 1..Len(effects[i])
  BY <1>2
<1>4. Placed(i)'
  BY <1>1 DEF Placed
<1>5. EffectsFit(i)'
  BY <1>1, <1>3 DEF TaskAccounted, EffectsFit
<1>6. OneAnswer(i)'
  <2>1. Pending(i)' => Pending(i)
    BY <1>1, <1>3 DEF Pending
  <2> QED
    BY <2>1 DEF TaskAccounted, OneAnswer
<1>7. AnswersHold(i)'
  BY DEF TaskAccounted, AnswersHold, Settled, IsTerminal, Terminal
<1>8. SettledWhenOut(i)'
  BY <1>1 DEF TaskAccounted, SettledWhenOut, Settled, IsTerminal, Terminal
<1> QED
  BY <1>4, <1>5, <1>6, <1>7, <1>8 DEF TaskAccounted

(* A request gets its answer ev.                                            *)
LEMMA AnswerKeeps ==
  ASSUME TypeOK, NEW i \in Instance, NEW ev \in Event, UnderWay(i), TaskAccounted(i),
         effects[i] # << >>, IsRequest(Head(effects[i])), pc[i] \in {"apply", "run"},
         EffectDone(i) \/ (pc' = [pc EXCEPT ![i] = "telemetry"] /\ UNCHANGED effects),
         Result(i, ev), ~IsStop(ev),
         mach'[i] = mach[i], UNCHANGED <<live, agent, todo, marked>>,
         journal \subseteq journal',
         ev.type = "JournalWritten" => i \in journal',
         ClaimsClean(ev) => i \notin live,
         ev.type = "InvokeRejected" /\ mach[i].kind = "Injecting" => Settled(i)
  PROVE  TaskAccounted(i)'
<1>1. effects[i] \in Seq(Effect) /\ queue[i] \in Seq(Event)
  BY DEF TypeOK
<1>2. Head(effects[i]) = effects[i][1] /\ 1 \in 1..Len(effects[i])
  BY <1>1
<1>3. Len(effects[i]) = 1 /\ ~IsTerminal(mach[i]) /\ mach[i].kind # "Active" /\ Pending(i)
  BY <1>2 DEF TaskAccounted, EffectsFit, Pending
<1>4. Tail(effects[i]) = << >>
  <2>1. Tail(effects[i]) \in Seq(Effect) /\ Len(Tail(effects[i])) = 0
    BY <1>1, <1>3
  <2> QED
    BY <2>1, EmptySeq
<1>5. \/ pc'[i] = "loop" /\ effects'[i] = << >>
      \/ pc'[i] = "telemetry" /\ effects'[i] = effects[i]
  BY <1>4 DEF EffectDone, TypeOK
<1>6. /\ queue'[i] = Append(queue[i], ev)
      /\ Len(queue'[i]) = Len(queue[i]) + 1 /\ Len(queue[i]) \in Nat
      /\ queue'[i][Len(queue[i]) + 1] = ev
      /\ \A k \in 1..Len(queue[i]) : queue'[i][k] = queue[i][k] /\ IsStop(queue[i][k])
  BY <1>1, <1>3 DEF Result, TypeOK, TaskAccounted, OneAnswer
<1>7. \A k \in 1..Len(queue'[i]) : IsStop(queue'[i][k]) \/ queue'[i][k] = ev
  BY <1>6
<1>8. Placed(i)'
  BY <1>5 DEF Placed
<1>9. EffectsFit(i)'
  BY <1>5 DEF TaskAccounted, EffectsFit
<1>10. OneAnswer(i)'
  <2>1. ~Pending(i)'
    BY <1>5 DEF Pending
  <2>2. \A k \in 1..Len(queue'[i]) : ~IsStop(queue'[i][k]) => k = Len(queue[i]) + 1
    BY <1>6
  <2> QED
    BY <1>3, <2>1, <2>2 DEF OneAnswer
<1>11. AnswersHold(i)'
  BY <1>7, StopsAreNotAnswers DEF AnswersHold, Settled
<1>12. SettledWhenOut(i)'
  BY <1>3, <1>5 DEF TaskAccounted, SettledWhenOut, Settled, UnderWay
<1> QED
  BY <1>8, <1>9, <1>10, <1>11, <1>12 DEF TaskAccounted

(* The task an action is about keeps its books.                             *)
LEMMA OwnStep ==
  ASSUME Accounted, ~MarkMayFail, NEW i \in Instance,
         RunFault(i) \/ Task(i) \/ ProcessEnds(i) \/ PluginActs(i)
  PROVE  TaskAccounted(i)'
<1> USE DEF taskVars, diskVars, sessionVars, boundVars, historyVars
<1>a. TypeOK /\ UnderWay(i) /\ TaskAccounted(i) /\ ReplayOrder
  BY DEF Accounted
<1>b. /\ queue[i] \in Seq(Event) /\ effects[i] \in Seq(Effect) /\ mach[i] \in MachineState
      /\ pc \in [Instance -> PC] /\ mach \in [Instance -> MachineState]
      /\ queue \in [Instance -> Seq(Event)] /\ effects \in [Instance -> Seq(Effect)]
  BY <1>a DEF TypeOK
<1>c. ASSUME Bystander(i)
      PROVE  TaskAccounted(i)'
  BY <1>a, <1>c, BystanderKeeps
<1>d. Fresh.kind = "Pending" /\ Fresh.kind \in PreInject /\ ~IsTerminal(Fresh)
  BY DEF Fresh, Plain, PreInject, IsTerminal, Terminal
<1>1. CASE RunFault(i)
  <2>1. CASE pc[i] = "idle"
    <3>1. /\ pc'[i] = "announce" /\ mach'[i] = Fresh /\ queue'[i] = << >> /\ effects'[i] = << >>
          /\ UNCHANGED <<live, marked, journal, agent, todo>>
      BY <1>1, <1>a, <1>b, <2>1 DEF RunFault, TaskAccounted, Placed, UnderWay
    <3>2. Settled(i)'
      BY <1>1, <1>a, <2>1, <3>1 DEF RunFault, TaskAccounted, SettledWhenOut, Settled, ReplayOrder
    <3>3. Placed(i)' /\ EffectsFit(i)' /\ OneAnswer(i)' /\ AnswersHold(i)'
      BY <3>1 DEF Placed, EffectsFit, OneAnswer, Pending, AnswersHold
    <3>4. SettledWhenOut(i)'
      BY <1>d, <3>1, <3>2 DEF SettledWhenOut, Settled
    <3> QED
      BY <3>3, <3>4 DEF TaskAccounted
  <2>2. CASE pc[i] # "idle"
    BY <1>1, <1>c, <2>2 DEF RunFault, Bystander
  <2> QED
    BY <2>1, <2>2
<1>2. CASE Announce(i)
  <2>1. /\ pc'[i] = "setup" /\ mach'[i] = mach[i] /\ queue'[i] = queue[i] /\ effects'[i] = effects[i]
        /\ UNCHANGED <<live, marked, journal, agent, todo>>
    BY <1>2, <1>b DEF Announce
  <2> QED
    BY <1>2, <1>a, <2>1 DEF Announce, TaskAccounted, Placed, EffectsFit, OneAnswer, Pending, AnswersHold,
       SettledWhenOut, Settled
<1>3. CASE Setup(i)
  <2>1. PICK result \in {"SetupOk", "SetupFailed"} : queue' = [queue EXCEPT ![i] = <<Plainly(result)>>]
    BY <1>3 DEF Setup
  <2>2. /\ pc[i] = "setup" /\ mach[i] = Fresh /\ effects[i] = << >>
        /\ pc'[i] = "loop" /\ mach'[i] = mach[i] /\ effects'[i] = effects[i]
        /\ UNCHANGED <<live, marked, journal, agent, todo>>
    BY <1>3, <1>a, <1>b DEF Setup, TaskAccounted, Placed, UnderWay
  <2>3. \A k \in 1..Len(queue'[i]) : k = 1 /\ queue'[i][k] = Plainly(result)
    BY <1>b, <2>1
  <2>4. Plainly(result).type \in {"SetupOk", "SetupFailed"}
    BY DEF Plainly, EventOf
  <2>5. Placed(i)' /\ EffectsFit(i)'
    BY <2>2 DEF Placed, EffectsFit
  <2>6. OneAnswer(i)'
    BY <1>d, <2>2, <2>3 DEF OneAnswer, Pending
  <2>7. AnswersHold(i)'
    BY <2>3, <2>4 DEF AnswersHold, ClaimsClean
  <2>8. SettledWhenOut(i)'
    BY <1>a, <2>2 DEF TaskAccounted, SettledWhenOut, Settled
  <2> QED
    BY <2>5, <2>6, <2>7, <2>8 DEF TaskAccounted
<1>4. CASE TakeEvent(i)
  <2> DEFINE ev == Head(queue[i])
             q == Tail(queue[i])
  <2>1. /\ queue[i] # << >> /\ pc[i] = "loop" /\ Advance(i, ev) /\ queue'[i] = q
        /\ UNCHANGED <<live, marked, journal, agent, todo>>
    BY <1>4, <1>b DEF TakeEvent
  <2>2. /\ ev \in Event /\ q \in Seq(Event) /\ ev = queue[i][1] /\ 1 \in 1..Len(queue[i])
        /\ \A k \in 1..Len(q) : q[k] = queue[i][k + 1] /\ k + 1 \in 1..Len(queue[i]) /\ k + 1 # 1
    BY <1>b, <2>1
  <2>3. /\ \A k, n \in 1..Len(queue[i]) : ~IsStop(queue[i][k]) /\ ~IsStop(queue[i][n]) => k = n
        /\ mach[i].kind = "Active" => \A k \in 1..Len(queue[i]) : IsStop(queue[i][k])
    BY <1>a DEF TaskAccounted, OneAnswer
  <2>4. \A k, n \in 1..Len(q) : ~IsStop(q[k]) /\ ~IsStop(q[n]) => k = n
    BY <2>2, <2>3
  <2>5. ~IsStop(ev) \/ mach[i].kind = "Active" => \A k \in 1..Len(q) : IsStop(q[k])
    BY <2>2, <2>3
  <2>6. \A k \in 1..Len(q) : \E n \in 1..Len(queue[i]) : q[k] = queue[i][n]
    BY <2>2
  <2>7. /\ ev.type = "JournalWritten" /\ mach[i].kind = "WritingJournal" => i \in journal
        /\ ClaimsClean(ev) => i \notin live
        /\ ev.type = "InvokeRejected" /\ mach[i].kind = "Injecting" => Settled(i)
    BY <1>a, <2>2 DEF TaskAccounted, AnswersHold
  <2> HIDE DEF ev, q
  <2> QED
    BY <1>a, <2>1, <2>2, <2>4, <2>5, <2>6, <2>7, AdvanceKeeps
<1>5. ASSUME NEW cause \in StopCause, Waiting(i), Advance(i, StopRequested(cause)),
             UNCHANGED <<queue, live, marked, journal, agent, todo>>
      PROVE  TaskAccounted(i)'
  <2>1. StopRequested(cause) \in Event /\ IsStop(StopRequested(cause))
    BY EventTypes DEF StopRequested, EventOf, IsStop
  <2>2. queue'[i] = << >> /\ pc[i] = "loop"
    BY <1>5 DEF Waiting
  <2>3. PICK q \in Seq(Event) : q = << >> /\ Len(q) = 0
    BY EmptySeq
  <2>4. 1..Len(q) = {}
    BY <2>3
  <2>5. ~ClaimsClean(StopRequested(cause))
        /\ StopRequested(cause).type \notin {"JournalWritten", "InvokeRejected"}
    BY <2>1, StopsAreNotAnswers
  <2> QED
    BY <1>5, <1>a, <2>1, <2>2, <2>3, <2>4, <2>5, AdvanceKeeps
<1>6. CASE OperatorStops(i)
  BY <1>5, <1>6 DEF OperatorStops, StopCause
<1>7. ASSUME NEW cause \in StopCause, TimerFires(i, cause)
      PROVE  TaskAccounted(i)'
  BY <1>5, <1>7 DEF TimerFires
<1>8. CASE Finish(i)
  <2>1. effects[i] = << >> /\ queue[i] = << >> /\ IsTerminal(mach[i]) /\ Settled(i)
    BY <1>8, <1>a DEF Finish, UnderWay, TaskAccounted, SettledWhenOut
  <2>2. /\ effects'[i] = << >> /\ queue'[i] = << >> /\ UNCHANGED <<live, marked, journal, agent, todo>>
        /\ \/ pc'[i] = "idle" /\ mach'[i] = Fresh
           \/ pc'[i] = "done" /\ mach'[i] = mach[i]
    BY <1>8, <1>b, <2>1 DEF Finish
  <2>3. Placed(i)' /\ EffectsFit(i)' /\ OneAnswer(i)' /\ AnswersHold(i)'
    BY <2>1, <2>2 DEF Placed, EffectsFit, OneAnswer, Pending, AnswersHold
  <2>4. SettledWhenOut(i)'
    BY <1>d, <2>1, <2>2 DEF SettledWhenOut, Settled, IsTerminal, Terminal, PreInject
  <2> QED
    BY <2>3, <2>4 DEF TaskAccounted
<1>9. CASE DoEmitStatus(i)
  <2>1. IsTerminal(mach[i]) => Settled(i)
    BY <1>9, <1>a DEF DoEmitStatus, Performs, TaskAccounted, SettledWhenOut
  <2> QED
    BY <1>9, <1>a, <2>1, EffectDoneKeeps DEF DoEmitStatus, Performs, Settled
<1>10. CASE DoWriteJournal(i)
  <2>1. IsRequest(Head(effects[i])) /\ effects[i] # << >> /\ pc[i] = "apply" /\ EffectDone(i)
    BY <1>10 DEF DoWriteJournal, Performs, IsRequest
  <2>2. PICK t \in {"JournalWritten", "JournalWriteFailed"} :
          /\ Result(i, Plainly(t))
          /\ journal \subseteq journal'
          /\ t = "JournalWritten" => i \in journal'
    BY <1>10 DEF DoWriteJournal
  <2>3. /\ Plainly(t) \in Event /\ Plainly(t).type = t
    BY EventTypes DEF Plainly, EventOf
  <2>4. ~IsStop(Plainly(t)) /\ ~ClaimsClean(Plainly(t)) /\ Plainly(t).type # "InvokeRejected"
    BY <2>3 DEF IsStop, ClaimsClean
  <2> QED
    BY <1>10, <1>a, <2>1, <2>2, <2>3, <2>4, AnswerKeeps DEF DoWriteJournal
<1>11. CASE DoRemoveJournal(i)
  <2>1. /\ effects[i] # << >> /\ pc[i] = "apply" /\ Head(effects[i]).type = "RemoveJournal"
    BY <1>11 DEF DoRemoveJournal, Performs
  <2>2. 1 \in 1..Len(effects[i]) /\ Head(effects[i]) = effects[i][1]
    BY <1>b, <2>1
  <2>3. IsTerminal(mach[i]) /\ Settled(i)
    BY <1>a, <2>1, <2>2 DEF TaskAccounted, EffectsFit, SettledWhenOut
  <2> QED
    BY <1>11, <1>a, <2>1, <2>3, EffectDoneKeeps DEF DoRemoveJournal, Settled
<1>12. CASE DoMarkTainted(i)
  <2>1. marked' = marked \cup {i} /\ effects[i] # << >> /\ Head(effects[i]).type = "MarkTainted"
    BY <1>12 DEF DoMarkTainted, Quarantine, Performs
  <2>2. CASE EffectDone(i)
    BY <1>12, <1>a, <2>1, <2>2, EffectDoneKeeps DEF DoMarkTainted, Performs, Settled
  <2>3. CASE pc' = [pc EXCEPT ![i] = "taintFrame"] /\ UNCHANGED effects
    <3>1. /\ pc[i] = "apply" /\ pc'[i] = "taintFrame" /\ Settled(i)'
          /\ UNCHANGED <<mach, queue, effects, live, journal, agent, todo>>
      BY <1>12, <1>b, <2>1, <2>3 DEF DoMarkTainted, Performs, Settled
    <3>2. Placed(i)' /\ EffectsFit(i)'
      BY <1>a, <2>1, <3>1 DEF Placed, TaskAccounted, EffectsFit
    <3>3. OneAnswer(i)' /\ AnswersHold(i)'
      BY <1>a, <3>1 DEF TaskAccounted, OneAnswer, Pending, AnswersHold
    <3>4. SettledWhenOut(i)'
      BY <1>a, <3>1 DEF TaskAccounted, SettledWhenOut
    <3> QED
      BY <3>2, <3>3, <3>4 DEF TaskAccounted
  <2> QED
    BY <1>12, <2>2, <2>3 DEF DoMarkTainted
<1>13. CASE SendTaintFrame(i)
  <2>1. i \in marked /\ effects[i] # << >>
    BY <1>13, <1>a DEF SendTaintFrame, TaskAccounted, Placed, UnderWay
  <2> QED
    BY <1>13, <1>a, <2>1, EffectDoneKeeps DEF SendTaintFrame, Settled
<1>e. ASSUME effects[i] # << >>, Head(effects[i]).type = "Invoke"
      PROVE  /\ IsRequest(Head(effects[i])) /\ Running(i) \in Command
             /\ Pending(i) \/ pc[i] = "telemetry"
             /\ Running(i) = "Inject" => mach[i].kind = "Injecting"
             /\ ~IsTerminal(mach[i]) /\ mach[i].kind # "Active"
             /\ Tail(effects[i]) = << >>
  <2>1. 1 \in 1..Len(effects[i]) /\ Head(effects[i]) = effects[i][1]
    BY <1>b, <1>e
  <2>2. Head(effects[i]) = Invoke(Running(i)) /\ Running(i) \in Command
    BY <1>a, <1>e, RunningType
  <2>3. IsRequest(Head(effects[i]))
    BY <1>e DEF IsRequest
  <2>4. Len(effects[i]) = 1 /\ ~IsTerminal(mach[i]) /\ mach[i].kind # "Active"
    BY <1>a, <2>1, <2>3 DEF TaskAccounted, EffectsFit
  <2>5. Tail(effects[i]) \in Seq(Effect) /\ Len(Tail(effects[i])) = 0
    BY <1>b, <1>e, <2>4
  <2> QED
    BY <1>a, <2>1, <2>2, <2>3, <2>4, <2>5, EmptySeq DEF Pending, TaskAccounted, EffectsFit
<1>14. CASE InvokeNotStarted(i)
  <2>1. /\ effects[i] # << >> /\ pc[i] = "apply" /\ Head(effects[i]).type = "Invoke" /\ EffectDone(i)
    BY <1>14 DEF InvokeNotStarted, Performs
  <2>2. PICK ev \in {InvokeRejected(Running(i)), InvocationFailed(Running(i))} : Result(i, ev)
    BY <1>14 DEF InvokeNotStarted
  <2>3. ev \in Event /\ ev.type \in {"InvokeRejected", "InvocationFailed"}
    <3>1. ev \in Event
      BY <1>e, <2>1, EventTypes
    <3>2. ev.type \in {"InvokeRejected", "InvocationFailed"}
      BY DEF InvokeRejected, InvocationFailed, EventOf
    <3> QED
      BY <3>1, <3>2
  <2>4. ~IsStop(ev) /\ ~ClaimsClean(ev) /\ ev.type # "JournalWritten"
    BY <2>3 DEF IsStop, ClaimsClean
  <2>5. mach[i].kind = "Injecting" => Settled(i)
    BY <1>a, <2>1 DEF TaskAccounted, SettledWhenOut
  <2> QED
    BY <1>14, <1>a, <1>e, <2>1, <2>2, <2>3, <2>4, <2>5, AnswerKeeps DEF InvokeNotStarted
<1>15. CASE StartInvoke(i)
  <2>1. /\ pc[i] = "apply" /\ pc'[i] = "run"
        /\ UNCHANGED <<mach, queue, effects, live, marked, journal, agent, todo>>
    BY <1>15, <1>b DEF StartInvoke, Performs
  <2>2. Placed(i)' /\ EffectsFit(i)' /\ OneAnswer(i)' /\ AnswersHold(i)'
    BY <1>a, <2>1 DEF Placed, TaskAccounted, EffectsFit, OneAnswer, Pending, AnswersHold, Settled
  <2>3. SettledWhenOut(i)'
    BY <1>a, <2>1 DEF TaskAccounted, SettledWhenOut, Settled
  <2> QED
    BY <2>2, <2>3 DEF TaskAccounted
<1>16. CASE StopDuringRun(i)
  <2> DEFINE stop == StopRequested("OperatorAbort")
  <2>1. /\ pc[i] = "run" /\ queue'[i] = <<stop>> \o queue[i]
        /\ UNCHANGED <<pc, mach, effects, live, marked, journal, agent, todo>>
    BY <1>16, <1>b DEF StopDuringRun
  <2>2. IsStop(stop)
    BY DEF StopRequested, EventOf, IsStop
  <2> HIDE DEF stop
  <2>3. \A k \in 1..Len(queue[i]) : IsStop(queue[i][k])
    BY <1>a, <1>e, <2>1 DEF TaskAccounted, OneAnswer, UnderWay
  <2>4. \A k \in 1..Len(queue'[i]) : IsStop(queue'[i][k])
    <3>1. /\ Len(queue[i]) \in Nat /\ Len(queue'[i]) = Len(queue[i]) + 1
          /\ queue'[i][1] = stop
          /\ \A k \in 1..Len(queue[i]) : queue'[i][k + 1] = queue[i][k]
      BY <1>b, <2>1
    <3> SUFFICES ASSUME NEW k \in 1..Len(queue'[i]) PROVE IsStop(queue'[i][k])
      OBVIOUS
    <3>2. CASE k = 1
      BY <2>2, <3>1, <3>2
    <3>3. CASE k > 1
      <4>1. k - 1 \in 1..Len(queue[i]) /\ k = (k - 1) + 1
        BY <3>1, <3>3
      <4> QED
        BY <2>3, <3>1, <4>1
    <3> QED
      BY <3>1, <3>2, <3>3
  <2>5. Placed(i)' /\ EffectsFit(i)'
    BY <1>a, <2>1 DEF Placed, TaskAccounted, EffectsFit
  <2>6. OneAnswer(i)'
    BY <1>a, <2>4 DEF OneAnswer
  <2>7. AnswersHold(i)'
    BY <2>4, StopsAreNotAnswers DEF AnswersHold
  <2>8. SettledWhenOut(i)'
    BY <1>a, <2>1 DEF TaskAccounted, SettledWhenOut, Settled
  <2> QED
    BY <2>5, <2>6, <2>7, <2>8 DEF TaskAccounted
<1>17. CASE ForwardLine(i)
  <2>1. /\ pc[i] = "telemetry" /\ effects[i] # << >> /\ Head(effects[i]).type = "Invoke"
        /\ UNCHANGED <<mach, queue, live, marked, journal, agent, todo>>
    BY <1>17, <1>a DEF ForwardLine, UnderWay
  <2>2. CASE EffectDone(i)
    <3>1. pc'[i] = "loop" /\ effects'[i] = << >>
      BY <1>b, <1>e, <2>1, <2>2 DEF EffectDone
    <3>2. Placed(i)' /\ EffectsFit(i)' /\ OneAnswer(i)' /\ AnswersHold(i)'
      BY <1>a, <1>e, <2>1, <3>1
      DEF Placed, EffectsFit, TaskAccounted, OneAnswer, Pending, AnswersHold, Settled
    <3>3. SettledWhenOut(i)'
      BY <1>a, <1>e, <2>1, <3>1 DEF TaskAccounted, SettledWhenOut, Settled
    <3> QED
      BY <3>2, <3>3 DEF TaskAccounted
  <2>3. CASE UNCHANGED <<pc, effects>>
    BY <1>c, <2>1, <2>3 DEF Bystander
  <2> QED
    BY <1>17, <2>2, <2>3 DEF ForwardLine
<1>18. CASE ProcessEnds(i)
  <2>1. /\ pc[i] = "run" /\ effects[i] # << >> /\ Head(effects[i]).type = "Invoke"
        /\ UNCHANGED <<mach, live, marked, journal, agent, todo>>
    BY <1>18, <1>a DEF ProcessEnds, UnderWay
  <2>2. PICK ev \in ProcessResults(i) : Result(i, ev)
    BY <1>18 DEF ProcessEnds
  <2>3. EffectDone(i) \/ (pc' = [pc EXCEPT ![i] = "telemetry"] /\ UNCHANGED effects)
    BY <1>18 DEF ProcessEnds
  <2>4. ev \in Event /\ ~IsStop(ev) /\ ev.type \notin {"JournalWritten", "InvokeRejected"}
    BY <1>e, <2>1, <2>2, EventTypes
    DEF ProcessResults, CommandFinished, InvocationFailed, EventOf, IsStop
  <2>5. ClaimsClean(ev) => i \notin live
    BY <2>2 DEF ClaimsClean, ProcessResults, Honest, CommandFinished, InvocationFailed, EventOf
  <2> QED
    BY <1>a, <1>e, <2>1, <2>2, <2>3, <2>4, <2>5, AnswerKeeps
<1>19. CASE PluginActs(i)
  <2>1. /\ pc[i] = "run" /\ effects[i] # << >> /\ Head(effects[i]).type = "Invoke"
        /\ UNCHANGED <<pc, mach, queue, effects, marked, journal, agent, todo>>
    BY <1>19, <1>a DEF PluginActs, UnderWay
  <2>2. CASE Running(i) = "Inject"
    <3>1. mach[i].kind = "Injecting" /\ \A k \in 1..Len(queue[i]) : IsStop(queue[i][k])
      BY <1>a, <1>e, <2>1, <2>2 DEF TaskAccounted, OneAnswer
    <3>2. Placed(i)' /\ EffectsFit(i)' /\ OneAnswer(i)' /\ AnswersHold(i)'
      BY <1>a, <2>1, <3>1, StopsAreNotAnswers
      DEF Placed, TaskAccounted, EffectsFit, OneAnswer, Pending, AnswersHold
    <3>3. SettledWhenOut(i)'
      BY <1>a, <2>1, <3>1 DEF TaskAccounted, SettledWhenOut, IsTerminal, Terminal, PreInject
    <3> QED
      BY <3>2, <3>3 DEF TaskAccounted
  <2>3. CASE Running(i) # "Inject"
    <3>1. live' \subseteq live
      BY <1>19, <2>3 DEF PluginActs, LiveAfter
    <3> QED
      BY <1>c, <2>1, <3>1 DEF Bystander
  <2> QED
    BY <2>2, <2>3
<1> QED
  BY <1>1, <1>2, <1>3, <1>4, <1>6, <1>7, <1>8, <1>9, <1>10, <1>11, <1>12, <1>13, <1>14, <1>15,
     <1>16, <1>17, <1>18, <1>19 DEF Task

(* Every other instance is a bystander.                                     *)
LEMMA OthersStep ==
  ASSUME TypeOK, NEW i \in Instance, NEW j \in Instance, i # j,
         RunFault(i) \/ Task(i) \/ ProcessEnds(i) \/ PluginActs(i)
  PROVE  Bystander(j)
<1> USE DEF taskVars, diskVars, sessionVars, boundVars, historyVars
<1>a. /\ pc \in [Instance -> PC] /\ mach \in [Instance -> MachineState]
      /\ queue \in [Instance -> Seq(Event)] /\ effects \in [Instance -> Seq(Effect)]
  BY DEF TypeOK
<1>1. CASE RunFault(i) \/ Announce(i) \/ Setup(i) \/ Finish(i) \/ StartInvoke(i) \/ StopDuringRun(i)
  BY <1>a, <1>1 DEF RunFault, Announce, Setup, Finish, StartInvoke, StopDuringRun, Bystander
<1>2. CASE TakeEvent(i) \/ OperatorStops(i) \/ \E cause \in StopCause : TimerFires(i, cause)
  BY <1>a, <1>2 DEF TakeEvent, OperatorStops, TimerFires, Advance, Bystander
<1>3. CASE DoEmitStatus(i) \/ DoWriteJournal(i) \/ DoRemoveJournal(i) \/ SendTaintFrame(i)
  BY <1>a, <1>3
  DEF DoEmitStatus, DoWriteJournal, DoRemoveJournal, SendTaintFrame, EffectDone, Result, Bystander
<1>4. CASE DoMarkTainted(i)
  BY <1>a, <1>4 DEF DoMarkTainted, Quarantine, EffectDone, Bystander
<1>5. CASE InvokeNotStarted(i) \/ ProcessEnds(i)
  BY <1>a, <1>5 DEF InvokeNotStarted, ProcessEnds, EffectDone, Result, Bystander
<1>6. CASE ForwardLine(i)
  BY <1>a, <1>6 DEF ForwardLine, EffectDone, Bystander
<1>7. CASE PluginActs(i)
  BY <1>7 DEF PluginActs, LiveAfter, Bystander
<1> QED
  BY <1>1, <1>2, <1>3, <1>4, <1>5, <1>6, <1>7 DEF Task

(* A task at work is not one replay has still to take.                      *)
LEMMA OrderStep ==
  ASSUME TypeOK, ReplayOrder, NEW i \in Instance, UNCHANGED <<agent, todo>>,
         pc[i] # "idle" \/ agent = "serving",
         \A j \in Instance : j # i => pc'[j] = pc[j]
  PROVE  ReplayOrder'
  BY DEF ReplayOrder, TypeOK

(* What the actions of one instance do to the journal and to the host.      *)
LEMMA NothingStranded ==
  ASSUME Accounted, ~MarkMayFail, NEW i \in Instance,
         RunFault(i) \/ Task(i) \/ ProcessEnds(i) \/ PluginActs(i)
  PROVE  /\ NoStrandedFault'
         /\ UNCHANGED <<agent, todo, orphans>>
         /\ pc[i] # "idle" \/ agent = "serving"
<1> USE DEF taskVars, diskVars, sessionVars, boundVars, historyVars
<1>a. TypeOK /\ NoStrandedFault /\ UnderWay(i) /\ TaskAccounted(i)
  BY DEF Accounted
<1>b. ASSUME live' \subseteq live, marked \subseteq marked',
             journal \subseteq journal' \/ (journal \ {i} \subseteq journal' /\ Settled(i))
      PROVE  NoStrandedFault'
  BY <1>a, <1>b DEF NoStrandedFault, Settled
<1>1. CASE RunFault(i) \/ Announce(i) \/ Setup(i) \/ Finish(i) \/ StartInvoke(i) \/ StopDuringRun(i)
  BY <1>b, <1>1 DEF RunFault, Announce, Setup, Finish, StartInvoke, StopDuringRun, Performs
<1>2. CASE TakeEvent(i) \/ OperatorStops(i) \/ \E cause \in StopCause : TimerFires(i, cause)
  BY <1>b, <1>2 DEF TakeEvent, OperatorStops, TimerFires, Waiting
<1>3. CASE DoEmitStatus(i) \/ DoWriteJournal(i) \/ SendTaintFrame(i) \/ InvokeNotStarted(i)
  BY <1>b, <1>3 DEF DoEmitStatus, DoWriteJournal, SendTaintFrame, InvokeNotStarted, Performs
<1>4. CASE DoMarkTainted(i)
  BY <1>b, <1>4 DEF DoMarkTainted, Quarantine, Performs
<1>5. CASE ForwardLine(i) \/ ProcessEnds(i)
  BY <1>b, <1>5 DEF ForwardLine, ProcessEnds
<1>6. CASE DoRemoveJournal(i)
  <2>1. /\ effects[i] \in Seq(Effect) /\ effects[i] # << >>
        /\ Head(effects[i]).type = "RemoveJournal" /\ pc[i] = "apply"
    BY <1>6, <1>a DEF DoRemoveJournal, Performs, TypeOK
  <2>2. 1 \in 1..Len(effects[i]) /\ Head(effects[i]) = effects[i][1]
    BY <2>1
  <2>3. Settled(i)
    BY <1>a, <2>1, <2>2 DEF TaskAccounted, EffectsFit, SettledWhenOut
  <2> QED
    BY <1>6, <1>b, <2>1, <2>3 DEF DoRemoveJournal
<1>7. CASE PluginActs(i)
  <2>1. /\ pc[i] = "run" /\ effects[i] \in Seq(Effect) /\ effects[i] # << >>
        /\ Head(effects[i]).type = "Invoke"
    BY <1>7, <1>a DEF PluginActs, UnderWay, TypeOK
  <2>2. 1 \in 1..Len(effects[i]) /\ Head(effects[i]) = effects[i][1]
    BY <2>1
  <2>3. Head(effects[i]) = Invoke(Running(i))
    BY <1>a, <2>1, RunningType
  <2>4. Running(i) = "Inject" => i \in journal
    BY <1>a, <2>2, <2>3 DEF TaskAccounted, EffectsFit, SettledWhenOut
  <2>5. live' \subseteq live \/ (i \in journal /\ live' = live \cup {i})
    BY <1>7, <2>4 DEF PluginActs, LiveAfter
  <2>6. UNCHANGED <<journal, marked, agent, todo, orphans>>
    BY <1>7 DEF PluginActs
  <2> QED
    BY <1>a, <2>1, <2>5, <2>6 DEF NoStrandedFault
<1> QED
  BY <1>1, <1>2, <1>3, <1>4, <1>5, <1>6, <1>7 DEF Task

(* Every step keeps the books of the whole agent.                           *)
LEMMA AccountedStep ==
  ASSUME ~OrphansSurvive, ~MarkMayFail, ~ListMayFail, Accounted, [Next]_vars
  PROVE  Accounted'
<1> USE DEF taskVars, diskVars, sessionVars, boundVars, historyVars
<1>a. /\ TypeOK /\ NoStrandedFault /\ orphans = {} /\ ReplayOrder
      /\ \A i \in Instance : UnderWay(i) /\ TaskAccounted(i)
  BY DEF Accounted
<1>b. TypeOK' /\ \A i \in Instance : UnderWay(i)'
  BY <1>a, TypeStep, UnderWayStep
<1> SUFFICES /\ NoStrandedFault' /\ orphans' = {} /\ ReplayOrder'
             /\ \A i \in Instance : TaskAccounted(i)'
  BY <1>b DEF Accounted
<1>c. ASSUME \A j \in Instance : Bystander(j), UNCHANGED <<orphans, agent, todo, pc>>,
             live' \subseteq live, journal' = journal, marked \subseteq marked'
      PROVE  /\ NoStrandedFault' /\ orphans' = {} /\ ReplayOrder'
             /\ \A i \in Instance : TaskAccounted(i)'
  BY <1>a, <1>c, BystanderKeeps DEF NoStrandedFault, ReplayOrder
<1>1. ASSUME NEW i \in Instance, RunFault(i) \/ Task(i) \/ ProcessEnds(i) \/ PluginActs(i)
      PROVE  /\ NoStrandedFault' /\ orphans' = {} /\ ReplayOrder'
             /\ \A j \in Instance : TaskAccounted(j)'
  <2>1. \A j \in Instance : j # i => Bystander(j)
    BY <1>1, <1>a, OthersStep
  <2>2. \A j \in Instance : TaskAccounted(j)'
    BY <1>1, <1>a, <2>1, OwnStep, BystanderKeeps
  <2>3. /\ NoStrandedFault' /\ UNCHANGED <<agent, todo, orphans>>
        /\ pc[i] # "idle" \/ agent = "serving"
    BY <1>1, NothingStranded
  <2>4. ReplayOrder'
    BY <1>a, <2>1, <2>3, OrderStep DEF Bystander
  <2> QED
    BY <1>a, <2>2, <2>3, <2>4
<1>2. ASSUME NEW i \in Instance, AbortFault(i)
      PROVE  \A j \in Instance : Bystander(j)
  BY <1>2 DEF AbortFault, Bystander
<1>3. ASSUME NEW c \in Clear, ClearTaint(c) \/ ClearTask(c)
      PROVE  /\ \A j \in Instance : Bystander(j)
             /\ UNCHANGED <<orphans, agent, todo, pc, live, journal, marked>>
  BY <1>3 DEF ClearTaint, ClearTask, ClearRemove, ClearSend, Bystander
<1>4. CASE Connect \/ Disconnect \/ Drain \/ UNCHANGED vars
  <2>1. UNCHANGED <<pc, mach, queue, effects, live, marked, journal, agent, todo, orphans>>
    BY <1>4 DEF Connect, Disconnect, Drain, vars
  <2> QED
    BY <1>c, <2>1 DEF Bystander
<1>5. ASSUME NEW i \in Instance, NEW command \in Command, OrphanActs(i, command)
      PROVE  FALSE
  BY <1>5, <1>a DEF OrphanActs
<1>6. CASE Crash
  <2>1. /\ NoStrandedFault' /\ orphans' = {} /\ ReplayOrder'
    BY <1>6, <1>a DEF Crash, NoStrandedFault, ReplayOrder
  <2>2. ASSUME NEW j \in Instance
        PROVE  TaskAccounted(j)'
    <3>1. /\ agent' = "down" /\ pc'[j] = "idle" /\ mach'[j] = Fresh /\ queue'[j] = << >>
          /\ effects'[j] = << >>
      BY <1>6 DEF Crash
    <3>2. ~IsTerminal(Fresh) /\ Fresh.kind = "Pending"
      BY DEF Fresh, Plain, IsTerminal, Terminal
    <3> QED
      BY <3>1, <3>2
      DEF TaskAccounted, Placed, EffectsFit, OneAnswer, Pending, AnswersHold, SettledWhenOut
  <2> QED
    BY <2>1, <2>2
<1>7. CASE Restart
  <2>1. /\ todo' = journal /\ agent' = "replay" /\ \A j \in Instance : pc[j] = "idle"
        /\ UNCHANGED <<pc, mach, queue, effects, live, marked, journal, orphans>>
    BY <1>7, <1>a DEF Restart, ReplayOrder
  <2>2. NoStrandedFault' /\ orphans' = {} /\ ReplayOrder'
    BY <1>a, <2>1 DEF NoStrandedFault, ReplayOrder, TypeOK
  <2>3. ASSUME NEW j \in Instance
        PROVE  TaskAccounted(j)'
    <3>1. Placed(j)' /\ EffectsFit(j)' /\ OneAnswer(j)' /\ AnswersHold(j)'
      BY <1>a, <2>1 DEF TaskAccounted, Placed, EffectsFit, OneAnswer, Pending, AnswersHold, Settled
    <3>2. j \notin journal => Settled(j)
      BY <1>a DEF NoStrandedFault, Settled
    <3>3. SettledWhenOut(j)'
      BY <1>a, <2>1, <3>2 DEF TaskAccounted, SettledWhenOut, Settled
    <3> QED
      BY <3>1, <3>3 DEF TaskAccounted
  <2> QED
    BY <2>2, <2>3
<1>8. CASE Serve
  <2>1. /\ todo = {} /\ agent = "replay" /\ agent' = "serving"
        /\ UNCHANGED <<todo, pc, mach, queue, effects, live, marked, journal, orphans>>
    BY <1>8 DEF Serve, Between
  <2>2. \A j \in Instance : Bystander(j)
    BY <2>1 DEF Bystander
  <2>3. NoStrandedFault' /\ orphans' = {} /\ ReplayOrder'
    BY <1>a, <2>1 DEF NoStrandedFault, ReplayOrder
  <2> QED
    BY <1>a, <2>2, <2>3, BystanderKeeps
<1>9. ASSUME NEW i \in Instance, ReplayEntry(i)
      PROVE  /\ NoStrandedFault' /\ orphans' = {} /\ ReplayOrder'
             /\ \A j \in Instance : TaskAccounted(j)'
  <2>1. /\ i \in todo /\ pc[i] = "idle" /\ queue[i] = << >> /\ agent = "replay"
        /\ todo' = todo \ {i} /\ pc' = [pc EXCEPT ![i] = "apply"]
        /\ UNCHANGED <<agent, queue, live, marked, journal, orphans>>
    BY <1>9, <1>a DEF ReplayEntry, Between, TaskAccounted, Placed
  <2>2. PICK outcome \in {"Aborted", "Error"} :
          /\ mach' = [mach EXCEPT ![i] = ReplayRecovery(outcome).state]
          /\ effects' = [effects EXCEPT ![i] = ReplayRecovery(outcome).effects]
    BY <1>9 DEF ReplayEntry
  <2>3. /\ mach'[i].kind = "Recovering" /\ pc'[i] = "apply" /\ queue'[i] = << >>
        /\ effects'[i] = <<EmitStatus("Recovering"), Invoke("Abort")>>
    BY <1>a, <2>1, <2>2 DEF ReplayRecovery, Recovering, To, TypeOK
  <2>4. EffectsFit(i)'
    BY <2>3, EffectShapes DEF EffectsFit, IsTerminal, Terminal, IsRequest
  <2>5. Placed(i)' /\ OneAnswer(i)' /\ AnswersHold(i)' /\ SettledWhenOut(i)'
    BY <2>3 DEF Placed, OneAnswer, AnswersHold, SettledWhenOut, IsTerminal, Terminal, PreInject
  <2>6. \A j \in Instance : j # i => Bystander(j)
    BY <1>a, <2>1, <2>2 DEF Bystander, TypeOK
  <2>7. NoStrandedFault' /\ orphans' = {} /\ ReplayOrder'
    BY <1>a, <2>1 DEF NoStrandedFault, ReplayOrder, TypeOK
  <2> QED
    BY <1>a, <2>4, <2>5, <2>6, <2>7, BystanderKeeps DEF TaskAccounted
<1>10. ASSUME NEW i \in Instance, ReplayUnreadable(i)
       PROVE  /\ NoStrandedFault' /\ orphans' = {} /\ ReplayOrder'
              /\ \A j \in Instance : TaskAccounted(j)'
  <2>1. /\ i \in todo /\ agent = "replay" /\ todo' = todo \ {i} /\ marked' = marked \cup {i}
        /\ UNCHANGED <<agent, pc, mach, queue, effects, live, journal, orphans>>
    BY <1>10 DEF ReplayUnreadable, Between, Quarantine
  <2>2. \A j \in Instance : j # i => Bystander(j)
    BY <2>1 DEF Bystander
  <2>3. TaskAccounted(i)'
    BY <1>a, <2>1
    DEF TaskAccounted, Placed, EffectsFit, OneAnswer, Pending, AnswersHold, SettledWhenOut, Settled
  <2>4. NoStrandedFault' /\ orphans' = {} /\ ReplayOrder'
    BY <1>a, <2>1 DEF NoStrandedFault, ReplayOrder
  <2> QED
    BY <1>a, <2>2, <2>3, <2>4, BystanderKeeps
<1> QED
  <2>1. ASSUME NEW i \in Instance, AbortFault(i)
        PROVE  /\ NoStrandedFault' /\ orphans' = {} /\ ReplayOrder'
               /\ \A j \in Instance : TaskAccounted(j)'
    BY <1>c, <1>2, <2>1 DEF AbortFault
  <2>2. ASSUME NEW c \in Clear, ClearTaint(c) \/ ClearTask(c)
        PROVE  /\ NoStrandedFault' /\ orphans' = {} /\ ReplayOrder'
               /\ \A j \in Instance : TaskAccounted(j)'
    BY <1>c, <1>3, <2>2
  <2> QED
    BY <1>1, <2>1, <2>2, <1>4, <1>5, <1>6, <1>7, <1>8, <1>9, <1>10 DEF Next, Startup

(* The books balance in the initial state.                                  *)
LEMMA AccountedInit == Init => Accounted
<1> SUFFICES ASSUME Init PROVE Accounted
  OBVIOUS
<1>1. TypeOK /\ \A i \in Instance : UnderWay(i)
  BY TypeInit
<1>2. NoStrandedFault /\ orphans = {} /\ ReplayOrder
  BY DEF Init, NoStrandedFault, ReplayOrder
<1>3. ~IsTerminal(Fresh) /\ Fresh.kind = "Pending"
  BY DEF Fresh, Plain, IsTerminal, Terminal
<1>4. \A i \in Instance : TaskAccounted(i)
  BY <1>3 DEF Init, TaskAccounted, Placed, EffectsFit, OneAnswer, Pending, AnswersHold,
     SettledWhenOut, Settled
<1> QED
  BY <1>1, <1>2, <1>4 DEF Accounted

(* No fault is stranded, however many instances, stops, redeliveries and    *)
(* crashes there are and wherever they strike: a fault in effect has a      *)
(* journal entry that a restart replays, or the host was quarantined for    *)
(* it.  About: the order of effects in step and apply_effect, and           *)
(* replay_journal.  It needs a taint record that can be written, a journal  *)
(* directory that can be listed, and plugins that die with the agent.       *)
THEOREM FaultsAreAccountedFor ==
  ASSUME ~OrphansSurvive, ~MarkMayFail, ~ListMayFail
  PROVE  Spec => []NoStrandedFault
<1>1. Init => Accounted
  BY AccountedInit
<1>2. Accounted /\ [Next]_vars => Accounted'
  BY AccountedStep
<1>3. Accounted => NoStrandedFault
  BY DEF Accounted
<1> QED
  BY <1>1, <1>2, <1>3, PTL DEF Spec

-----------------------------------------------------------------------------
(***************************************************************************)
(* No task stands still, the end told of an instance is true, quarantine   *)
(* outlives all but ClearTaint, and a tainted host refuses.                *)
(***************************************************************************)

(***************************************************************************)
(* What a step of the machine asks for and answers.                        *)
(***************************************************************************)

(* An answer always moves the machine on.                                   *)
LEMMA AnswersMove ==
  ASSUME NEW st \in MachineState, NEW ev \in Event, Answers(ev, st)
  PROVE  Step(st, ev).effects # << >>
<1>0. \A s, a, b, c : /\ To(s, <<a>>).effects # << >>
                      /\ To(s, <<a, b>>).effects # << >>
                      /\ To(s, <<a, b, c>>).effects # << >>
  BY DEF To
<1>a. AbortedWith.effects # << >> /\ AbortedUnjournaled.effects # << >>
  BY <1>0 DEF AbortedWith, AbortedUnjournaled
<1>1. CASE st.kind = "Pending"
  <2>1. Step(st, ev) = StepPending(st, ev)
    BY <1>1 DEF Step, Terminal
  <2>2. ev.type \in {"SetupOk", "SetupFailed"}
    BY <1>1 DEF Answers
  <2>3. \/ Step(st, ev) = AbortedWith
        \/ Step(st, ev) = To(Plain("PreflightInstall", None),
                             <<EmitStatus("Preflight"), Invoke("Preflight")>>)
    BY <2>1, <2>2 DEF StepPending
  <2> QED
    BY <1>0, <1>a, <2>3
<1>2. CASE st.kind \in {"PreflightInstall", "PreflightRuntime"}
  <2>1. Step(st, ev) = StepPreflight(st, ev)
    BY <1>2 DEF Step, Terminal
  <2>2. ev.type # "StopRequested" /\ (Succeeded(ev, "Preflight") \/ IsFailureOf(ev, "Preflight"))
    BY <1>2 DEF Answers, EndsInvocation, Succeeded, IsFailureOf
  <2>3. CASE Succeeded(ev, "Preflight") /\ st.stop # None
    BY <1>a, <2>1, <2>2, <2>3 DEF StepPreflight, IsFailureOf
  <2>4. CASE Succeeded(ev, "Preflight") /\ st.stop = None
    <3>1. \/ Step(st, ev) = To(Plain("PreflightRuntime", None), <<Invoke("Preflight")>>)
          \/ Step(st, ev) = To(Plain("WritingJournal", None), <<WriteJournal>>)
      BY <1>2, <2>1, <2>2, <2>4 DEF StepPreflight, IsFailureOf
    <3> QED
      BY <1>0, <3>1
  <2>5. CASE IsFailureOf(ev, "Preflight")
    BY <1>a, <2>1, <2>2, <2>5 DEF StepPreflight, IsFailureOf
  <2> QED
    BY <2>2, <2>3, <2>4, <2>5
<1>3. CASE st.kind = "WritingJournal"
  <2>1. Step(st, ev) = StepWritingJournal(st, ev)
    BY <1>3 DEF Step, Terminal
  <2>2. ev.type \in {"JournalWritten", "JournalWriteFailed"}
    BY <1>3 DEF Answers
  <2>3. \/ Step(st, ev) \in {AbortedWith, AbortedUnjournaled}
        \/ Step(st, ev) = To(Plain("Injecting", None),
                             <<EmitStatus("Injecting"), Invoke("Inject")>>)
    BY <2>1, <2>2 DEF StepWritingJournal
  <2> QED
    BY <1>0, <1>a, <2>3
<1>4. CASE st.kind = "Injecting"
  <2>1. Step(st, ev) = StepInjecting(st, ev)
    BY <1>4 DEF Step, Terminal
  <2>2. ev.command = "Inject" /\ EndsInvocation(ev)
    BY <1>4 DEF Answers
  <2>3. \A cause : StartRecovery(cause).effects # << >>
    BY <1>0 DEF StartRecovery
  <2>4. \/ Step(st, ev) = AbortedUnjournaled
        \/ \E cause : Step(st, ev) = StartRecovery(cause)
        \/ Step(st, ev) = To(Plain("Active", None), <<EmitStatus("Active")>>)
    BY <2>1, <2>2 DEF EndsInvocation, StepInjecting
  <2> QED
    BY <1>0, <1>a, <2>3, <2>4
<1>5. CASE st.kind = "Recovering"
  <2>1. Step(st, ev) = StepRecovering(st, ev)
    BY <1>5 DEF Step, Terminal
  <2>2. ev.type # "StopRequested"
    BY <1>5 DEF Answers, EndsInvocation
  <2>3. Succeeded(ev, st.current) \/ IsFailureOf(ev, st.current)
    BY <1>5 DEF Answers, EndsInvocation, IsFailureOf
  <2>4. RecoverySuccess(st).effects # << >>
    BY <1>0 DEF RecoverySuccess
  <2>5. RecoveryFailure(st).effects # << >>
    BY <1>0 DEF RecoveryFailure
  <2> QED
    BY <2>1, <2>2, <2>3, <2>4, <2>5 DEF StepRecovering, IsFailureOf
<1> QED
  BY <1>1, <1>2, <1>3, <1>4, <1>5 DEF Answers

(* A state that has to be left has asked for what it waits for, unless the  *)
(* event was absorbed; before the end no end is told; there is no way back. *)
Progress(st, r) ==
  /\ r.effects = << >> => r.state.kind = st.kind /\ r.state.current = st.current
  /\ r.effects # << >> /\ MustMove(r.state) =>
       \E k \in 1..Len(r.effects) : Asks(r.effects[k], r.state)
  /\ \A k \in 1..Len(r.effects) :
       r.effects[k].type = "EmitStatus" /\ r.effects[k].state \in Terminal => IsTerminal(r.state)
  /\ r.state.kind \in BeforeEnd => st.kind \in BeforeEnd

LEMMA StepProgress ==
  ASSUME NEW st \in MachineState, NEW ev \in Event
  PROVE  Progress(st, Step(st, ev))
<1> DEFINE r == Step(st, ev)
<1> SUFFICES Progress(st, r)
  OBVIOUS
<1> HIDE DEF r
<1>0. /\ \A s : EmitStatus(s).state = s
      /\ \A kind, stop : Plain(kind, stop).kind = kind
  BY DEF EmitStatus, EffectOf, Plain
<1>1. ASSUME NEW s, NEW w, s.kind = w, w \in Terminal,
             \/ r = To(s, <<EmitStatus(w)>>)
             \/ r = To(s, <<RemoveJournal, EmitStatus(w)>>)
             \/ r = To(s, <<MarkTainted, RemoveJournal, EmitStatus(w)>>)
      PROVE  Progress(st, r)
  <2>1. r.state = s /\ IsTerminal(s) /\ ~MustMove(s) /\ s.kind \notin BeforeEnd /\ r.effects # << >>
    BY <1>1 DEF To, MustMove, IsTerminal, BeforeEnd, PreInject, Terminal
  <2> QED
    BY <2>1 DEF Progress
<1>2. ASSUME NEW s, NEW e, r = To(s, <<e>>), e.type # "EmitStatus", Asks(e, s),
             s.kind \in BeforeEnd => st.kind \in BeforeEnd
      PROVE  Progress(st, r)
  BY <1>2 DEF Progress, To
<1>3. ASSUME NEW s, NEW w, NEW e, r = To(s, <<EmitStatus(w), e>>), w \notin Terminal,
             e.type # "EmitStatus", Asks(e, s), s.kind \in BeforeEnd => st.kind \in BeforeEnd
      PROVE  Progress(st, r)
  BY <1>0, <1>3 DEF Progress, To
<1>4. CASE Absorbed(st, r)
  BY <1>4 DEF Progress, Absorbed
<1>5. CASE PreInjectMove(st, ev, r)
  <2>1. st.kind \in BeforeEnd
    BY <1>5 DEF PreInjectMove, BeforeEnd, PreInject
  <2>2. CASE r = AbortedWith \/ r = AbortedUnjournaled
    BY <1>0, <1>1, <2>2 DEF AbortedWith, AbortedUnjournaled, Terminal
  <2>3. CASE r = To(Plain("PreflightInstall", None), <<EmitStatus("Preflight"), Invoke("Preflight")>>)
    BY <1>0, <1>3, <2>1, <2>3, EffectShapes DEF Asks, Terminal
  <2>4. CASE r = To(Plain("PreflightRuntime", None), <<Invoke("Preflight")>>)
    BY <1>0, <1>2, <2>1, <2>4, EffectShapes DEF Asks
  <2>5. CASE r = To(Plain("WritingJournal", None), <<WriteJournal>>)
    BY <1>0, <1>2, <2>1, <2>5, EffectShapes DEF Asks
  <2>6. CASE r = To(Plain("Injecting", None), <<EmitStatus("Injecting"), Invoke("Inject")>>)
    BY <1>0, <1>3, <2>1, <2>6, EffectShapes DEF Asks, Terminal
  <2> QED
    BY <1>5, <2>2, <2>3, <2>4, <2>5, <2>6 DEF PreInjectMove
<1>6. ASSUME NEW cause \in StopCause, r = StartRecovery(cause)
      PROVE  Progress(st, r)
  <2>1. PICK c \in {"Abort", "Cleanup"}, rest \in {<< >>, <<"Cleanup">>}, o \in Terminal :
          r = To(Recovering(c, rest, o, FALSE), <<EmitStatus("Recovering"), Invoke(c)>>)
    BY <1>6, StartRecoveryType
  <2> DEFINE s == Recovering(c, rest, o, FALSE)
  <2>2. s.kind = "Recovering" /\ s.current = c
    BY DEF Recovering
  <2>3. Asks(Invoke(c), s) /\ s.kind \notin BeforeEnd
    BY <2>2 DEF Asks, BeforeEnd, PreInject
  <2>4. r = To(s, <<EmitStatus("Recovering"), Invoke(c)>>)
    BY <2>1
  <2>5. Invoke(c).type # "EmitStatus" /\ "Recovering" \notin Terminal
    BY EffectShapes DEF Terminal
  <2> HIDE DEF s
  <2> QED
    BY <1>3, <2>3, <2>4, <2>5
<1>7. CASE InjectMove(st, ev, r)
  <2>1. CASE r = To(Plain("Active", None), <<EmitStatus("Active")>>)
    BY <1>0, <1>7, <2>1 DEF InjectMove, Progress, To, MustMove, BeforeEnd, Terminal
  <2>2. CASE r = AbortedUnjournaled
    BY <1>0, <1>1, <2>2 DEF AbortedUnjournaled, Terminal
  <2> QED
    BY <1>6, <1>7, <2>1, <2>2 DEF InjectMove
<1>8. CASE RecoveryMove(st, ev, r)
  <2>1. CASE st.kind = "Active"
    BY <1>6, <1>8, <2>1, EventFields DEF RecoveryMove
  <2>2. CASE st.kind = "Recovering"
    <3>1. st.outcome \in Terminal /\ st.current \in {"Abort", "Cleanup"}
      BY <2>2 DEF MachineState
    <3>2. CASE r = To(Plain(st.outcome, None), <<RemoveJournal, EmitStatus(st.outcome)>>)
      <4>1. Plain(st.outcome, None).kind = st.outcome
        BY <1>0
      <4> QED
        BY <1>1, <3>1, <3>2, <4>1
    <3>3. CASE r = To(Recovering("Cleanup", << >>, st.outcome, FALSE), <<Invoke("Cleanup")>>)
      <4> DEFINE s == Recovering("Cleanup", << >>, st.outcome, FALSE)
      <4>1. s.kind = "Recovering" /\ s.current = "Cleanup"
        BY DEF Recovering
      <4>2. Asks(Invoke("Cleanup"), s) /\ s.kind \notin BeforeEnd
        BY <4>1 DEF Asks, BeforeEnd, PreInject
      <4> QED
        BY <1>2, <3>3, <4>2, EffectShapes
    <3>4. CASE r = To([st EXCEPT !.retried = TRUE], <<Invoke(st.current)>>)
      <4> DEFINE s == [st EXCEPT !.retried = TRUE]
      <4>1. s.kind = "Recovering" /\ s.current = st.current
        BY <2>2 DEF MachineState
      <4>2. Asks(Invoke(st.current), s) /\ s.kind \notin BeforeEnd
        BY <4>1 DEF Asks, BeforeEnd, PreInject
      <4> QED
        BY <1>2, <3>4, <4>2, EffectShapes
    <3>5. CASE r = To(Plain("Error", None), <<MarkTainted, RemoveJournal, EmitStatus("Error")>>)
      BY <1>0, <1>1, <3>5 DEF Terminal
    <3> QED
      BY <1>8, <2>2, <3>2, <3>3, <3>4, <3>5 DEF RecoveryMove
  <2> QED
    BY <1>8, <2>1, <2>2 DEF RecoveryMove
<1> QED
  BY <1>4, <1>5, <1>7, <1>8, StepCases DEF r

-----------------------------------------------------------------------------
(***************************************************************************)
(* No task stands still.                                                   *)
(***************************************************************************)

(* One event through the machine: q is what is left of the queue.           *)
LEMMA AdvanceAwaits ==
  ASSUME TypeOK, NEW i \in Instance, NEW ev \in Event, NEW q,
         UnderWay(i), Awaited(i), pc[i] = "loop", Advance(i, ev), queue'[i] = q,
         \A k \in 1..Len(queue[i]) : queue[i][k] = ev \/ \E n \in 1..Len(q) : q[n] = queue[i][k]
  PROVE  Awaited(i)'
<1> DEFINE r == Step(mach[i], ev)
<1>1. mach[i] \in MachineState
  BY DEF TypeOK
<1>2. Progress(mach[i], r) /\ (Answers(ev, mach[i]) => r.effects # << >>)
  BY <1>1, StepProgress, AnswersMove
<1>3. /\ mach'[i] = r.state
      /\ effects'[i] = r.effects
      /\ pc'[i] = IF r.effects = << >> THEN "loop" ELSE "apply"
  BY DEF Advance, TypeOK
<1> HIDE DEF r
<1>4. pc'[i] \notin Starting
  BY <1>3 DEF Starting
<1>5. CASE r.effects # << >>
  BY <1>2, <1>3, <1>4, <1>5 DEF Progress, Awaited
<1>6. CASE r.effects = << >>
  <2>1. r.state.kind = mach[i].kind /\ r.state.current = mach[i].current
    BY <1>2, <1>6 DEF Progress
  <2>2. MustMove(r.state) => \E k \in 1..Len(queue[i]) : Answers(queue[i][k], mach[i])
    <3>1. effects[i] = << >> /\ pc[i] \notin Starting
      BY DEF UnderWay, Starting
    <3>2. MustMove(r.state) => MustMove(mach[i])
      BY <2>1 DEF MustMove
    <3> QED
      BY <3>1, <3>2 DEF Awaited
  <2>3. MustMove(r.state) => \E n \in 1..Len(q) : Answers(q[n], mach[i])
    BY <1>2, <1>6, <2>2
  <2>4. \A e : Answers(e, mach[i]) => Answers(e, r.state)
    BY <2>1 DEF Answers
  <2> QED
    BY <1>3, <1>4, <2>3, <2>4 DEF Awaited
<1> QED
  BY <1>5, <1>6

(* An effect is done, and answered if it was a request.                     *)
LEMMA DoneAwaits ==
  ASSUME TypeOK, NEW i \in Instance, Awaited(i), effects[i] # << >>, pc[i] \notin Starting,
         EffectDone(i), mach'[i] = mach[i],
         \A k \in 1..Len(queue[i]) : \E n \in 1..Len(queue'[i]) : queue'[i][n] = queue[i][k],
         pc[i] # "telemetry" /\ Asks(Head(effects[i]), mach[i]) =>
           \E n \in 1..Len(queue'[i]) : Answers(queue'[i][n], mach[i])
  PROVE  Awaited(i)'
<1>1. /\ effects'[i] = Tail(effects[i])
      /\ pc'[i] \in {"loop", "apply"}
  BY DEF EffectDone, TypeOK
<1>2. effects[i] \in Seq(Effect)
  BY DEF TypeOK
<1>3. /\ Len(effects[i]) \in Nat /\ Len(Tail(effects[i])) = Len(effects[i]) - 1
      /\ \A k \in 1..Len(effects[i]) : k > 1 =>
           Tail(effects[i])[k - 1] = effects[i][k] /\ k - 1 \in 1..Len(Tail(effects[i]))
      /\ Head(effects[i]) = effects[i][1]
  BY <1>2
<1>4. MustMove(mach[i]) =>
        \/ \E k \in 1..Len(effects'[i]) : Asks(effects'[i][k], mach[i])
        \/ \E n \in 1..Len(queue'[i]) : Answers(queue'[i][n], mach[i])
  <2> SUFFICES ASSUME MustMove(mach[i])
               PROVE  \/ \E k \in 1..Len(effects'[i]) : Asks(effects'[i][k], mach[i])
                      \/ \E n \in 1..Len(queue'[i]) : Answers(queue'[i][n], mach[i])
    OBVIOUS
  <2>1. CASE \E k \in 1..Len(queue[i]) : Answers(queue[i][k], mach[i])
    BY <2>1
  <2>2. CASE \E k \in 1..Len(effects[i]) :
               Asks(effects[i][k], mach[i]) /\ (pc[i] = "telemetry" => k > 1)
    <3>1. PICK k \in 1..Len(effects[i]) :
            Asks(effects[i][k], mach[i]) /\ (pc[i] = "telemetry" => k > 1)
      BY <2>2
    <3>2. CASE k = 1
      BY <1>3, <3>1, <3>2
    <3>3. CASE k > 1
      BY <1>1, <1>3, <3>1, <3>3
    <3> QED
      BY <1>3, <3>2, <3>3
  <2> QED
    BY <2>1, <2>2 DEF Awaited
<1> QED
  BY <1>1, <1>4 DEF Awaited, Starting

(* The same, with the answer ev appended.                                   *)
LEMMA AnsweredAwaits ==
  ASSUME TypeOK, NEW i \in Instance, NEW ev \in Event, Awaited(i), effects[i] # << >>,
         pc[i] \notin Starting,
         EffectDone(i) \/ (pc' = [pc EXCEPT ![i] = "telemetry"] /\ UNCHANGED effects),
         Result(i, ev), mach'[i] = mach[i],
         Asks(Head(effects[i]), mach[i]) => Answers(ev, mach[i])
  PROVE  Awaited(i)'
<1>1. queue[i] \in Seq(Event) /\ effects[i] \in Seq(Effect)
  BY DEF TypeOK
<1>2. /\ queue'[i] = Append(queue[i], ev)
      /\ Len(queue'[i]) = Len(queue[i]) + 1 /\ Len(queue[i]) \in Nat
      /\ queue'[i][Len(queue[i]) + 1] = ev
      /\ \A k \in 1..Len(queue[i]) : queue'[i][k] = queue[i][k] /\ k \in 1..Len(queue'[i])
  BY <1>1 DEF Result, TypeOK
<1>3. Len(queue[i]) + 1 \in 1..Len(queue'[i])
  BY <1>2
<1>4. Asks(Head(effects[i]), mach[i]) =>
        \E n \in 1..Len(queue'[i]) : Answers(queue'[i][n], mach[i])
  BY <1>2, <1>3
<1>5. CASE EffectDone(i)
  BY <1>2, <1>4, <1>5, DoneAwaits
<1>6. CASE pc' = [pc EXCEPT ![i] = "telemetry"] /\ UNCHANGED effects
  <2>1. pc'[i] = "telemetry" /\ effects'[i] = effects[i] /\ Head(effects[i]) = effects[i][1]
    BY <1>1, <1>6 DEF TypeOK
  <2>2. Len(effects[i]) \in Nat /\ \A k \in 1..Len(effects[i]) : k = 1 \/ k > 1
    BY <1>1
  <2>3. MustMove(mach[i]) =>
          \/ \E k \in 1..Len(effects[i]) : Asks(effects[i][k], mach[i]) /\ k > 1
          \/ \E n \in 1..Len(queue'[i]) : Answers(queue'[i][n], mach[i])
    BY <1>2, <1>4, <2>1, <2>2 DEF Awaited
  <2> QED
    BY <2>1, <2>3 DEF Awaited, Starting
<1> QED
  BY <1>5, <1>6

(* The answers the shell gives are the ones asked for.                      *)
LEMMA ShellAnswers ==
  ASSUME NEW st, NEW command, NEW ev,
         \/ ev \in {Plainly("JournalWritten"), Plainly("JournalWriteFailed")}
              /\ Asks(WriteJournal, st)
         \/ ev \in {InvokeRejected(command), InvocationFailed(command)}
                     \cup {CommandFinished(command, d) : d \in Disposition}
              /\ Asks(Invoke(command), st)
  PROVE  Answers(ev, st)
<1>1. /\ \A c : Invoke(c).type = "Invoke" /\ Invoke(c).command = c
      /\ WriteJournal.type = "WriteJournal"
  BY DEF Invoke, WriteJournal, EffectOf
<1>2. CASE ev \in {Plainly("JournalWritten"), Plainly("JournalWriteFailed")} /\ Asks(WriteJournal, st)
  <2>1. ev.type \in {"JournalWritten", "JournalWriteFailed"}
    BY <1>2 DEF Plainly, EventOf
  <2>2. st.kind = "WritingJournal"
    BY <1>1, <1>2 DEF Asks
  <2> QED
    BY <2>1, <2>2 DEF Answers
<1>3. CASE ev \in {InvokeRejected(command), InvocationFailed(command)}
                    \cup {CommandFinished(command, d) : d \in Disposition}
             /\ Asks(Invoke(command), st)
  <2>1. EndsInvocation(ev) /\ ev.command = command
    BY <1>3 DEF EndsInvocation, InvokeRejected, InvocationFailed, CommandFinished, EventOf
  <2>2. \/ st.kind \in {"PreflightInstall", "PreflightRuntime"} /\ command = "Preflight"
        \/ st.kind = "Injecting" /\ command = "Inject"
        \/ st.kind = "Recovering" /\ command = st.current
    BY <1>1, <1>3 DEF Asks
  <2> QED
    BY <2>1, <2>2 DEF Answers
<1> QED
  BY <1>2, <1>3

(* Notices ask for nothing.                                                 *)
LEMMA NoticesAskNothing ==
  ASSUME NEW effect, NEW st, effect.type \notin {"Invoke", "WriteJournal"}
  PROVE  ~Asks(effect, st)
  BY EffectShapes DEF Asks

(* What a task does itself leaves it neither idle nor waiting for nothing.  *)
LEMMA OwnAwaits ==
  ASSUME TypeOK, NEW i \in Instance, UnderWay(i), Awaited(i),
         RunFault(i) \/ Task(i) \/ ProcessEnds(i)
  PROVE  Awaited(i)'
<1> USE DEF taskVars, diskVars, sessionVars, boundVars, historyVars
<1>a. /\ pc \in [Instance -> PC] /\ mach \in [Instance -> MachineState]
      /\ queue \in [Instance -> Seq(Event)] /\ effects \in [Instance -> Seq(Effect)]
  BY DEF TypeOK
<1>1. CASE RunFault(i)
  BY <1>1, <1>a DEF RunFault, Awaited, Starting
<1>2. CASE Announce(i)
  BY <1>2, <1>a DEF Announce, Awaited, Starting
<1>3. CASE Setup(i)
  <2>1. PICK result \in {"SetupOk", "SetupFailed"} : queue' = [queue EXCEPT ![i] = <<Plainly(result)>>]
    BY <1>3 DEF Setup
  <2>2. mach'[i].kind = "Pending" /\ pc'[i] = "loop"
    BY <1>3, <1>a DEF Setup, Awaited, Starting, Fresh, Plain
  <2>3. Plainly(result).type = result /\ queue'[i] = <<Plainly(result)>>
    BY <1>a, <2>1 DEF Plainly, EventOf
  <2>4. Answers(queue'[i][1], mach'[i]) /\ 1 \in 1..Len(queue'[i])
    BY <2>2, <2>3 DEF Answers
  <2> QED
    BY <2>2, <2>4 DEF Awaited, Starting
<1>4. CASE TakeEvent(i)
  <2>1. queue[i] \in Seq(Event) /\ queue[i] # << >>
    BY <1>4, <1>a DEF TakeEvent
  <2>2. /\ Head(queue[i]) \in Event /\ queue[i][1] = Head(queue[i])
        /\ \A k \in 1..Len(queue[i]) : k > 1 =>
             Tail(queue[i])[k - 1] = queue[i][k] /\ k - 1 \in 1..Len(Tail(queue[i]))
    BY <2>1
  <2>3. \A k \in 1..Len(queue[i]) :
          queue[i][k] = Head(queue[i]) \/ \E n \in 1..Len(Tail(queue[i])) : Tail(queue[i])[n] = queue[i][k]
    BY <2>2
  <2>4. queue'[i] = Tail(queue[i])
    BY <1>4, <1>a DEF TakeEvent
  <2> QED
    BY <1>4, <2>2, <2>3, <2>4, AdvanceAwaits DEF TakeEvent
<1>5. ASSUME NEW cause \in StopCause, pc[i] = "loop", Advance(i, StopRequested(cause)), UNCHANGED queue
      PROVE  Awaited(i)'
  <2>1. StopRequested(cause) \in Event
    BY EventTypes
  <2> QED
    BY <1>5, <2>1, AdvanceAwaits
<1>6. CASE OperatorStops(i) \/ \E cause \in StopCause \ {"OperatorAbort"} : TimerFires(i, cause)
  BY <1>5, <1>6 DEF OperatorStops, TimerFires, Waiting, StopCause
<1>7. CASE Finish(i)
  <2>1. ~MustMove(mach[i])
    BY <1>7 DEF Finish, MustMove, IsTerminal
  <2> QED
    BY <1>7, <1>a, <2>1 DEF Finish, Awaited, Starting
<1>8. CASE DoEmitStatus(i) \/ DoRemoveJournal(i) \/ SendTaintFrame(i) \/ (DoMarkTainted(i) /\ EffectDone(i))
  <2>1. effects[i] # << >> /\ pc[i] \notin Starting
    BY <1>8
    DEF DoEmitStatus, DoRemoveJournal, SendTaintFrame, DoMarkTainted, Performs, UnderWay, Starting
  <2>2. EffectDone(i) /\ UNCHANGED <<mach, queue>>
    BY <1>8 DEF DoEmitStatus, DoRemoveJournal, SendTaintFrame, DoMarkTainted
  <2>3. ~Asks(Head(effects[i]), mach[i])
    BY <1>8, NoticesAskNothing
    DEF DoEmitStatus, DoRemoveJournal, SendTaintFrame, DoMarkTainted, Performs, Awaited
  <2>4. pc[i] \in {"apply", "taintFrame"}
    BY <1>8 DEF DoEmitStatus, DoRemoveJournal, SendTaintFrame, DoMarkTainted, Performs
  <2> QED
    BY <2>1, <2>2, <2>3, <2>4, DoneAwaits
<1>9. CASE DoMarkTainted(i) /\ pc' = [pc EXCEPT ![i] = "taintFrame"] /\ UNCHANGED effects
  BY <1>9, <1>a DEF DoMarkTainted, Performs, Awaited, Starting
<1>10. CASE DoWriteJournal(i)
  <2>1. /\ effects[i] # << >> /\ pc[i] \notin Starting /\ EffectDone(i) /\ UNCHANGED mach
        /\ Head(effects[i]).type = "WriteJournal"
    BY <1>10 DEF DoWriteJournal, Performs, Starting
  <2>2. Head(effects[i]) = WriteJournal
    <3>1. Head(effects[i]) \in Effect
      BY <1>a, <2>1
    <3> QED
      BY <2>1, <3>1, EffectFields
  <2>3. PICK ev \in {Plainly("JournalWritten"), Plainly("JournalWriteFailed")} : Result(i, ev)
    BY <1>10 DEF DoWriteJournal
  <2>4. ev \in Event
    BY EventTypes
  <2>5. Asks(Head(effects[i]), mach[i]) => Answers(ev, mach[i])
    BY <2>2, ShellAnswers
  <2> QED
    BY <2>1, <2>3, <2>4, <2>5, AnsweredAwaits
<1>11. CASE InvokeNotStarted(i)
  <2>1. /\ effects[i] # << >> /\ pc[i] \notin Starting /\ EffectDone(i) /\ UNCHANGED mach
        /\ Head(effects[i]).type = "Invoke"
    BY <1>11 DEF InvokeNotStarted, Performs, Starting
  <2>2. Head(effects[i]) = Invoke(Running(i)) /\ Running(i) \in Command
    BY <2>1, RunningType
  <2>3. PICK ev \in {InvokeRejected(Running(i)), InvocationFailed(Running(i))} : Result(i, ev)
    BY <1>11 DEF InvokeNotStarted
  <2>4. ev \in Event
    BY <2>2, EventTypes
  <2>5. Asks(Head(effects[i]), mach[i]) => Answers(ev, mach[i])
    BY <2>2, ShellAnswers
  <2> QED
    BY <2>1, <2>3, <2>4, <2>5, AnsweredAwaits
<1>12. CASE StartInvoke(i)
  BY <1>12, <1>a DEF StartInvoke, Performs, Awaited, Starting
<1>13. CASE StopDuringRun(i)
  <2> DEFINE q == <<StopRequested("OperatorAbort")>> \o queue[i]
  <2>1. queue'[i] = q
    BY <1>13, <1>a DEF StopDuringRun
  <2>2. queue[i] \in Seq(Event) /\ StopRequested("OperatorAbort") \in Event
    BY <1>a, EventTypes DEF StopCause
  <2>3. \A k \in 1..Len(queue[i]) : k + 1 \in 1..Len(q) /\ q[k + 1] = queue[i][k]
    BY <2>2
  <2> HIDE DEF q
  <2> QED
    BY <1>13, <2>1, <2>3 DEF StopDuringRun, Awaited, Starting
<1>14. CASE ForwardLine(i)
  <2>1. pc[i] = "telemetry" /\ effects[i] # << >> /\ UNCHANGED <<mach, queue>>
    BY <1>14 DEF ForwardLine, UnderWay
  <2>2. CASE EffectDone(i)
    BY <2>1, <2>2, DoneAwaits DEF Starting
  <2>3. CASE UNCHANGED <<pc, effects>>
    BY <2>1, <2>3 DEF Awaited
  <2> QED
    BY <1>14, <2>2, <2>3 DEF ForwardLine
<1>15. CASE ProcessEnds(i)
  <2>1. /\ effects[i] # << >> /\ pc[i] = "run" /\ UNCHANGED mach
        /\ Head(effects[i]).type = "Invoke"
    BY <1>15 DEF ProcessEnds, UnderWay
  <2>2. Head(effects[i]) = Invoke(Running(i)) /\ Running(i) \in Command
    BY <2>1, RunningType
  <2>3. PICK ev \in ProcessResults(i) : Result(i, ev)
    BY <1>15 DEF ProcessEnds
  <2>4. ev \in Event
    BY <2>2, EventTypes DEF ProcessResults
  <2>5. Asks(Head(effects[i]), mach[i]) => Answers(ev, mach[i])
    BY <2>2, ShellAnswers DEF ProcessResults
  <2>6. EffectDone(i) \/ (pc' = [pc EXCEPT ![i] = "telemetry"] /\ UNCHANGED effects)
    BY <1>15 DEF ProcessEnds
  <2> QED
    BY <2>1, <2>3, <2>4, <2>5, <2>6, AnsweredAwaits DEF Starting
<1>16. DoMarkTainted(i) => EffectDone(i) \/ (pc' = [pc EXCEPT ![i] = "taintFrame"] /\ UNCHANGED effects)
  BY DEF DoMarkTainted
<1> QED
  BY <1>1, <1>2, <1>3, <1>4, <1>6, <1>7, <1>8, <1>9, <1>10, <1>11, <1>12, <1>13, <1>14, <1>15,
     <1>16 DEF Task

(* Every step, whatever fails.                                              *)
LEMMA AwaitedStep ==
  ASSUME TypeOK, \A i \in Instance : UnderWay(i) /\ Awaited(i), [Next]_vars
  PROVE  \A i \in Instance : Awaited(i)'
<1> SUFFICES ASSUME NEW j \in Instance
             PROVE  Awaited(j)'
  OBVIOUS
<1> USE DEF taskVars, diskVars, sessionVars, boundVars, historyVars
<1>a. /\ pc \in [Instance -> PC] /\ mach \in [Instance -> MachineState]
      /\ effects \in [Instance -> Seq(Effect)]
  BY DEF TypeOK
<1>b. ASSUME pc'[j] = pc[j], mach'[j] = mach[j], queue'[j] = queue[j], effects'[j] = effects[j]
      PROVE  Awaited(j)'
  BY <1>b DEF Awaited
<1>1. ASSUME NEW i \in Instance, RunFault(i) \/ Task(i) \/ ProcessEnds(i)
      PROVE  Awaited(j)'
  <2>1. CASE i = j
    BY <1>1, <2>1, OwnAwaits
  <2>2. CASE i # j
    <3>1. Bystander(j)
      BY <1>1, <2>2, OthersStep
    <3> QED
      BY <1>b, <3>1 DEF Bystander
  <2> QED
    BY <2>1, <2>2
<1>2. ASSUME NEW i \in Instance, AbortFault(i) \/ PluginActs(i) \/ ReplayUnreadable(i)
      PROVE  Awaited(j)'
  BY <1>b, <1>2 DEF AbortFault, PluginActs, ReplayUnreadable
<1>3. ASSUME NEW c \in Clear, ClearTaint(c) \/ ClearTask(c)
      PROVE  Awaited(j)'
  BY <1>b, <1>3 DEF ClearTaint, ClearTask, ClearRemove, ClearSend
<1>4. CASE Connect \/ Disconnect \/ Drain \/ Restart \/ Serve \/ UNCHANGED vars
  BY <1>b, <1>4 DEF Connect, Disconnect, Drain, Restart, Serve, vars
<1>5. ASSUME NEW i \in Instance, NEW command \in Command, OrphanActs(i, command)
      PROVE  Awaited(j)'
  BY <1>b, <1>5 DEF OrphanActs
<1>6. CASE Crash
  BY <1>6 DEF Crash, Awaited, Starting
<1>7. ASSUME NEW i \in Instance, ReplayEntry(i)
      PROVE  Awaited(j)'
  <2>1. CASE i # j
    BY <1>a, <1>b, <1>7, <2>1 DEF ReplayEntry
  <2>2. CASE i = j
    <3>1. PICK outcome \in {"Aborted", "Error"} :
            /\ mach' = [mach EXCEPT ![i] = ReplayRecovery(outcome).state]
            /\ effects' = [effects EXCEPT ![i] = ReplayRecovery(outcome).effects]
      BY <1>7 DEF ReplayEntry
    <3>2. /\ mach'[i].kind = "Recovering" /\ mach'[i].current = "Abort" /\ pc'[i] = "apply"
          /\ effects'[i] = <<EmitStatus("Recovering"), Invoke("Abort")>>
      BY <1>7, <1>a, <3>1 DEF ReplayEntry, ReplayRecovery, Recovering, To
    <3>3. 2 \in 1..Len(effects'[i]) /\ Asks(effects'[i][2], mach'[i])
      BY <3>2 DEF Asks
    <3> QED
      BY <2>2, <3>2, <3>3 DEF Awaited, Starting
  <2> QED
    BY <2>1, <2>2
<1> QED
  BY <1>1, <1>2, <1>3, <1>4, <1>5, <1>6, <1>7 DEF Next, Startup

(* The event loop of an instance never waits for an event nobody owes it,   *)
(* whatever crashes, writes or plugins fail: with an empty queue the fault  *)
(* is active, and the timers are armed, or the instance is at its end.      *)
(* About: the machine/shell mismatch branch of run_instance, which stops    *)
(* the task and leaves the host to the next restart.                        *)
THEOREM NoTaskStandsStill == Spec => []NeverWedged
<1> DEFINE Inv == TypeOK /\ \A i \in Instance : UnderWay(i) /\ Awaited(i)
<1>1. Init => Inv
  <2>1. Init => \A i \in Instance : Awaited(i)
    BY DEF Init, Awaited, Starting
  <2> QED
    BY <2>1, TypeInit
<1>2. Inv /\ [Next]_vars => Inv'
  BY TypeStep, UnderWayStep, AwaitedStep
<1>3. Inv => NeverWedged
  <2> SUFFICES ASSUME Inv, NEW i \in Instance, pc[i] = "loop", queue[i] = << >>
               PROVE  mach[i].kind \in {"Active"} \cup Terminal
    BY DEF NeverWedged
  <2>1. effects[i] = << >> /\ pc[i] \notin Starting
    BY DEF UnderWay, Starting
  <2>2. ~MustMove(mach[i])
    BY <2>1 DEF Awaited
  <2> QED
    BY <2>2 DEF MustMove
<1> QED
  BY <1>1, <1>2, <1>3, PTL DEF Spec

(* Both at once: run_instance, replay_journal and send_out keep every       *)
(* counter, queue and machine in its range, and no task of theirs waits for *)
(* an event nobody owes it, whatever fails or crashes.                      *)
THEOREM TheSupervisorIsSound == Spec => []SupervisorSound
<1>1. TypeOK /\ NeverWedged => SupervisorSound
  BY DEF SupervisorSound
<1> QED
  BY <1>1, TypeCorrect, NoTaskStandsStill, PTL

-----------------------------------------------------------------------------
(***************************************************************************)
(* The end told of an instance is true.                                    *)
(***************************************************************************)

(* Nothing told or done for this instance.                                  *)
Unheard(j) ==
  /\ reported'[j] = reported[j]
  /\ j \in live' => j \in live
  /\ j \in marked => j \in marked'

(* A task that stays where it is, and is told nothing of, keeps its word.   *)
LEMMA ToldStays ==
  ASSUME NEW j, Told(j), Unheard(j), pc'[j] = pc[j], mach'[j] = mach[j], effects'[j] = effects[j]
  PROVE  Told(j)'
  BY DEF Told, Unheard, IsTerminal

(* One event through the machine.                                           *)
LEMMA AdvanceTold ==
  ASSUME TypeOK, NEW i \in Instance, NEW ev \in Event, Told(i), pc[i] = "loop", Advance(i, ev),
         UNCHANGED <<reported, live, marked>>
  PROVE  Told(i)'
<1> DEFINE r == Step(mach[i], ev)
<1>1. mach[i] \in MachineState
  BY DEF TypeOK
<1>2. Progress(mach[i], r)
  BY <1>1, StepProgress
<1>3. mach'[i] = r.state /\ effects'[i] = r.effects
  BY DEF Advance, TypeOK
<1> HIDE DEF r
<1> QED
  BY <1>2, <1>3 DEF Told, Progress

(* An effect is done and nothing told.                                      *)
LEMMA DoneTold ==
  ASSUME TypeOK, NEW i \in Instance, Told(i), effects[i] # << >>, EffectDone(i),
         pc[i] \notin {"idle", "announce"}, mach'[i] = mach[i], Unheard(i)
  PROVE  Told(i)'
<1>1. effects[i] \in Seq(Effect) /\ effects'[i] = Tail(effects[i])
  BY DEF EffectDone, TypeOK
<1>2. \A k \in 1..Len(Tail(effects[i])) :
        Tail(effects[i])[k] = effects[i][k + 1] /\ k + 1 \in 1..Len(effects[i])
  BY <1>1
<1> QED
  BY <1>1, <1>2 DEF Told, Unheard, IsTerminal

(* A status is told: an end only from an end that is settled.               *)
LEMMA StatusTold ==
  ASSUME Accounted, NEW i \in Instance, Told(i), DoEmitStatus(i)
  PROVE  Told(i)'
<1> USE DEF taskVars, diskVars, sessionVars, boundVars, historyVars
<1>a. TypeOK /\ UnderWay(i) /\ TaskAccounted(i)
  BY DEF Accounted
<1>1. /\ effects[i] \in Seq(Effect) /\ effects[i] # << >> /\ pc[i] = "apply"
      /\ Head(effects[i]).type = "EmitStatus" /\ EffectDone(i)
      /\ UNCHANGED <<mach, live, marked>>
  BY <1>a DEF DoEmitStatus, Performs, TypeOK
<1>2. /\ effects'[i] = Tail(effects[i]) /\ reported'[i] = Head(effects[i]).state
      /\ Head(effects[i]) = effects[i][1] /\ 1 \in 1..Len(effects[i])
  BY <1>a, <1>1 DEF DoEmitStatus, EffectDone, TypeOK
<1>3. \A k \in 1..Len(Tail(effects[i])) :
        Tail(effects[i])[k] = effects[i][k + 1] /\ k + 1 \in 1..Len(effects[i])
  BY <1>1
<1>4. reported'[i] \in Terminal => IsTerminal(mach[i])
  BY <1>1, <1>2 DEF Told
<1>5. IsTerminal(mach[i]) => i \notin live \/ i \in marked
  BY <1>a, <1>1 DEF TaskAccounted, SettledWhenOut, Settled
<1>6. \A k \in 1..Len(effects'[i]) :
        effects'[i][k].type = "EmitStatus" /\ effects'[i][k].state \in Terminal => IsTerminal(mach[i])
  BY <1>2, <1>3 DEF Told
<1>7. mach[i].kind \in BeforeEnd => ~IsTerminal(mach[i])
  BY DEF BeforeEnd, PreInject, IsTerminal, Terminal
<1> QED
  BY <1>1, <1>4, <1>5, <1>6, <1>7 DEF Told, IsTerminal, Terminal

(* What a task and its plugin do themselves.                                *)
LEMMA OwnTold ==
  ASSUME Accounted, NEW i \in Instance, Told(i),
         RunFault(i) \/ Task(i) \/ ProcessEnds(i) \/ PluginActs(i)
  PROVE  Told(i)'
<1> USE DEF taskVars, diskVars, sessionVars, boundVars, historyVars
<1>a. /\ TypeOK /\ UnderWay(i) /\ TaskAccounted(i)
      /\ pc \in [Instance -> PC] /\ mach \in [Instance -> MachineState]
      /\ queue \in [Instance -> Seq(Event)] /\ effects \in [Instance -> Seq(Effect)]
      /\ reported \in [Instance -> WireState \cup {None}]
  BY DEF Accounted, TypeOK
<1>1. CASE RunFault(i)
  BY <1>1, <1>a DEF RunFault, Told, IsTerminal
<1>2. CASE Announce(i)
  <2>1. reported'[i] = "Pending" /\ UNCHANGED <<mach, effects, live, marked>>
    BY <1>2, <1>a DEF Announce
  <2> QED
    BY <2>1 DEF Told, IsTerminal, Terminal
<1>3. CASE Setup(i) \/ StartInvoke(i) \/ StopDuringRun(i)
  <2>1. UNCHANGED <<mach, effects, live, marked, reported>> /\ pc[i] \notin {"idle", "announce"}
    BY <1>3 DEF Setup, StartInvoke, StopDuringRun, Performs
  <2> QED
    BY <2>1 DEF Told, IsTerminal
<1>4. CASE TakeEvent(i)
  <2>1. Head(queue[i]) \in Event
    BY <1>4, <1>a DEF TakeEvent
  <2> QED
    BY <1>4, <1>a, <2>1, AdvanceTold DEF TakeEvent
<1>5. CASE OperatorStops(i) \/ \E cause \in StopCause \ {"OperatorAbort"} : TimerFires(i, cause)
  <2>1. PICK cause \in StopCause : pc[i] = "loop" /\ Advance(i, StopRequested(cause))
    BY <1>5 DEF OperatorStops, TimerFires, Waiting, StopCause
  <2>2. StopRequested(cause) \in Event /\ UNCHANGED <<reported, live, marked>>
    BY <1>5, EventTypes DEF OperatorStops, TimerFires
  <2> QED
    BY <1>a, <2>1, <2>2, AdvanceTold
<1>6. CASE Finish(i)
  <2>1. effects[i] = << >>
    BY <1>6 DEF UnderWay, Finish, Accounted
  <2>2. pc'[i] = "idle" \/ mach'[i] = mach[i]
    BY <1>6, <1>a DEF Finish
  <2>3. effects'[i] = << >> /\ UNCHANGED <<live, marked, reported>> /\ pc[i] = "loop"
    BY <1>6, <2>1 DEF Finish
  <2> QED
    BY <2>2, <2>3 DEF Told
<1>7. CASE DoEmitStatus(i)
  BY <1>7, StatusTold
<1>8. CASE \/ DoWriteJournal(i) \/ DoRemoveJournal(i) \/ SendTaintFrame(i) \/ InvokeNotStarted(i)
           \/ DoMarkTainted(i) /\ EffectDone(i)
  <2>1. effects[i] # << >> /\ pc[i] \notin {"idle", "announce"} /\ EffectDone(i) /\ UNCHANGED mach
    BY <1>8, <1>a
    DEF DoWriteJournal, DoRemoveJournal, SendTaintFrame, InvokeNotStarted, DoMarkTainted, Performs,
        UnderWay
  <2>2. Unheard(i)
    BY <1>8
    DEF DoWriteJournal, DoRemoveJournal, SendTaintFrame, InvokeNotStarted, DoMarkTainted, Quarantine,
        Unheard
  <2> QED
    BY <1>a, <2>1, <2>2, DoneTold
<1>9. CASE DoMarkTainted(i) /\ ~EffectDone(i)
  <2>1. pc[i] = "apply" /\ UNCHANGED <<mach, effects>> /\ Unheard(i)
    BY <1>9 DEF DoMarkTainted, Quarantine, Performs, Unheard
  <2> QED
    BY <2>1 DEF Told, Unheard, IsTerminal
<1>10. CASE ForwardLine(i) \/ ProcessEnds(i)
  <2>1. /\ effects[i] # << >> /\ pc[i] \in {"run", "telemetry"} /\ UNCHANGED mach /\ Unheard(i)
    BY <1>10, <1>a DEF ForwardLine, ProcessEnds, UnderWay, Unheard
  <2>2. EffectDone(i) \/ UNCHANGED effects
    BY <1>10 DEF ForwardLine, ProcessEnds
  <2>3. CASE EffectDone(i)
    BY <1>a, <2>1, <2>3, DoneTold
  <2>4. CASE UNCHANGED effects
    BY <2>1, <2>4 DEF Told, Unheard, IsTerminal
  <2> QED
    BY <2>2, <2>3, <2>4
<1>11. CASE PluginActs(i)
  <2>1. /\ pc[i] = "run" /\ live' = LiveAfter(i, Running(i))
        /\ UNCHANGED <<pc, mach, effects, reported, marked>>
    BY <1>11 DEF PluginActs
  <2>2. CASE Running(i) = "Inject"
    <3>1. effects[i] # << >> /\ Head(effects[i]) = Invoke("Inject")
      BY <1>a, <2>1, <2>2, RunningType DEF UnderWay
    <3>2. Head(effects[i]) = effects[i][1] /\ 1 \in 1..Len(effects[i])
      BY <1>a, <3>1
    <3>3. mach[i].kind = "Injecting"
      BY <1>a, <3>1, <3>2 DEF TaskAccounted, EffectsFit
    <3>4. reported[i] \notin Terminal
      BY <2>1, <3>3 DEF Told, BeforeEnd
    <3> QED
      BY <2>1, <3>4 DEF Told, IsTerminal, Terminal
  <2>3. CASE Running(i) # "Inject"
    BY <2>1, <2>3 DEF LiveAfter, Told, IsTerminal
  <2> QED
    BY <2>2, <2>3
<1> QED
  BY <1>1, <1>2, <1>3, <1>4, <1>5, <1>6, <1>7, <1>8, <1>9, <1>10, <1>11 DEF Task

(* What is told of one instance is told of no other.                        *)
LEMMA OthersUnheard ==
  ASSUME TypeOK, NEW i \in Instance, NEW j \in Instance, i # j,
         RunFault(i) \/ Task(i) \/ ProcessEnds(i) \/ PluginActs(i)
  PROVE  Unheard(j)
<1> USE DEF taskVars, diskVars, sessionVars, boundVars, historyVars
<1>1. Bystander(j)
  BY OthersStep
<1>2. CASE Announce(i) \/ DoEmitStatus(i)
  BY <1>1, <1>2 DEF Announce, DoEmitStatus, TypeOK, Bystander, Unheard
<1>3. CASE UNCHANGED reported
  BY <1>1, <1>3 DEF Bystander, Unheard
<1>4. Announce(i) \/ DoEmitStatus(i) \/ UNCHANGED reported
  <2>1. RunFault(i) \/ ProcessEnds(i) \/ PluginActs(i) => UNCHANGED reported
    BY DEF RunFault, ProcessEnds, PluginActs
  <2>2. \A cause : TimerFires(i, cause) => UNCHANGED reported
    BY DEF TimerFires
  <2>3. /\ Setup(i) \/ TakeEvent(i) \/ OperatorStops(i) \/ Finish(i) => UNCHANGED reported
        /\ DoWriteJournal(i) \/ DoRemoveJournal(i) \/ DoMarkTainted(i) => UNCHANGED reported
        /\ SendTaintFrame(i) \/ InvokeNotStarted(i) \/ StartInvoke(i) => UNCHANGED reported
        /\ StopDuringRun(i) \/ ForwardLine(i) => UNCHANGED reported
    BY DEF Setup, TakeEvent, OperatorStops, Finish, DoWriteJournal, DoRemoveJournal, DoMarkTainted,
           SendTaintFrame, InvokeNotStarted, StartInvoke, StopDuringRun, ForwardLine
  <2> QED
    BY <2>1, <2>2, <2>3 DEF Task
<1> QED
  BY <1>2, <1>3, <1>4

(* Every step, as long as no plugin outlives the agent.                     *)
LEMMA ToldStep ==
  ASSUME Accounted, \A i \in Instance : Told(i), [Next]_vars
  PROVE  \A i \in Instance : Told(i)'
<1> SUFFICES ASSUME NEW j \in Instance
             PROVE  Told(j)'
  OBVIOUS
<1> USE DEF taskVars, diskVars, sessionVars, boundVars, historyVars
<1>a. /\ TypeOK /\ orphans = {}
      /\ pc \in [Instance -> PC] /\ mach \in [Instance -> MachineState]
      /\ effects \in [Instance -> Seq(Effect)]
  BY DEF Accounted, TypeOK
<1>b. ASSUME UNCHANGED <<pc, mach, effects, reported, live>>, marked \subseteq marked'
      PROVE  Told(j)'
  BY <1>b, ToldStays DEF Unheard
<1>1. ASSUME NEW i \in Instance, RunFault(i) \/ Task(i) \/ ProcessEnds(i) \/ PluginActs(i)
      PROVE  Told(j)'
  <2>1. CASE i = j
    BY <1>1, <2>1, OwnTold
  <2>2. CASE i # j
    <3>1. Bystander(j) /\ Unheard(j)
      BY <1>1, <1>a, <2>2, OthersStep, OthersUnheard
    <3> QED
      BY <3>1, ToldStays DEF Bystander
  <2> QED
    BY <2>1, <2>2
<1>2. ASSUME NEW i \in Instance, AbortFault(i) \/ ReplayUnreadable(i)
      PROVE  Told(j)'
  BY <1>b, <1>2 DEF AbortFault, ReplayUnreadable, Quarantine
<1>3. ASSUME NEW c \in Clear, ClearTaint(c) \/ ClearTask(c)
      PROVE  Told(j)'
  BY <1>b, <1>3 DEF ClearTaint, ClearTask, ClearRemove, ClearSend
<1>4. CASE Connect \/ Disconnect \/ Drain \/ Restart \/ Serve \/ UNCHANGED vars
  BY <1>b, <1>4 DEF Connect, Disconnect, Drain, Restart, Serve, vars
<1>5. ASSUME NEW i \in Instance, NEW command \in Command, OrphanActs(i, command)
      PROVE  Told(j)'
  BY <1>a, <1>5 DEF OrphanActs
<1>6. CASE Crash
  BY <1>6 DEF Crash, Told
<1>7. ASSUME NEW i \in Instance, ReplayEntry(i)
      PROVE  Told(j)'
  <2>1. Unheard(j)
    BY <1>7 DEF ReplayEntry, Unheard
  <2>2. CASE i # j
    BY <1>a, <1>7, <2>1, <2>2, ToldStays DEF ReplayEntry
  <2>3. CASE i = j
    <3>1. PICK outcome \in {"Aborted", "Error"} :
            /\ mach' = [mach EXCEPT ![i] = ReplayRecovery(outcome).state]
            /\ effects' = [effects EXCEPT ![i] = ReplayRecovery(outcome).effects]
      BY <1>7 DEF ReplayEntry
    <3>2. /\ mach'[i].kind = "Recovering"
          /\ effects'[i] = <<EmitStatus("Recovering"), Invoke("Abort")>>
      BY <1>a, <3>1 DEF ReplayRecovery, Recovering, To
    <3>3. EmitStatus("Recovering").state \notin Terminal /\ Invoke("Abort").type # "EmitStatus"
      BY DEF EmitStatus, Invoke, EffectOf, Terminal
    <3> QED
      BY <2>1, <2>3, <3>2, <3>3 DEF Told, Unheard, BeforeEnd, PreInject
  <2> QED
    BY <2>2, <2>3
<1> QED
  BY <1>1, <1>2, <1>3, <1>4, <1>5, <1>6, <1>7 DEF Next, Startup

(* An instance the master was told is Done or Aborted has left no fault on  *)
(* the host, however many instances, stops, redeliveries, crashes and       *)
(* replays there are, unless it was quarantined before.  About: the         *)
(* outcomes step_injecting and step_recovering choose, a stale journal      *)
(* entry replayed, and ids used again by a new process.  It needs what      *)
(* FaultsAreAccountedFor needs.                                             *)
THEOREM TheEndToldIsTrue ==
  ASSUME ~OrphansSurvive, ~MarkMayFail, ~ListMayFail
  PROVE  Spec => []CleanOutcome
<1> DEFINE Inv == Accounted /\ \A i \in Instance : Told(i)
<1>1. Init => Inv
  <2>1. Init => \A i \in Instance : Told(i)
    BY DEF Init, Told, Terminal, None
  <2> QED
    BY <2>1, AccountedInit
<1>2. Inv /\ [Next]_vars => Inv'
  BY AccountedStep, ToldStep
<1>3. Inv => CleanOutcome
  BY DEF Told, CleanOutcome
<1> QED
  BY <1>1, <1>2, <1>3, PTL DEF Spec

-----------------------------------------------------------------------------
(***************************************************************************)
(* Quarantine.                                                             *)
(***************************************************************************)

(* A fault that no journal entry answers for finds the host tainted, as     *)
(* long as no ClearTaint is issued, across crashes and whatever else runs.  *)
(* About: mark_tainted before remove, and a record nothing else clears.  It *)
(* needs what FaultsAreAccountedFor needs.                                  *)
THEOREM QuarantineOutlivesAll ==
  ASSUME ~OrphansSurvive, ~MarkMayFail, ~ListMayFail, Clear = {}
  PROVE  Spec => []QuarantineHolds
<1> DEFINE Inv == Accounted /\ (marked # {} => tainted)
<1>1. Init => Inv
  <2>1. Init => marked = {}
    BY DEF Init
  <2> QED
    BY <2>1, AccountedInit
<1>2. Inv /\ [Next]_vars => Inv'
  <2> SUFFICES ASSUME Inv, [Next]_vars
               PROVE  marked' # {} => tainted'
    BY AccountedStep
  <2> USE DEF taskVars, diskVars, sessionVars, boundVars, historyVars
  <2>1. ASSUME NEW i \in Instance, DoMarkTainted(i) \/ ReplayUnreadable(i)
        PROVE  marked' # {} => tainted'
    BY <2>1 DEF DoMarkTainted, ReplayUnreadable, Quarantine
  <2>2. ASSUME NEW i \in Instance,
               RunFault(i) \/ AbortFault(i) \/ PluginActs(i) \/ ProcessEnds(i) \/ ReplayEntry(i)
        PROVE  UNCHANGED <<marked, tainted>>
    BY <2>2 DEF RunFault, AbortFault, PluginActs, ProcessEnds, ReplayEntry
  <2>3. ASSUME NEW i \in Instance, Task(i), ~DoMarkTainted(i)
        PROVE  UNCHANGED <<marked, tainted>>
    BY <2>3 DEF Task, Announce, Setup, TakeEvent, OperatorStops, TimerFires, Finish, DoEmitStatus,
       DoWriteJournal, DoRemoveJournal, SendTaintFrame, InvokeNotStarted, StartInvoke,
       StopDuringRun, ForwardLine
  <2>4. ASSUME Connect \/ Disconnect \/ Drain \/ Crash \/ Restart \/ Serve \/ UNCHANGED vars
        PROVE  UNCHANGED <<marked, tainted>>
    BY <2>4 DEF Connect, Disconnect, Drain, Crash, Restart, Serve, vars
  <2>5. ASSUME NEW i \in Instance, NEW command \in Command, OrphanActs(i, command)
        PROVE  UNCHANGED <<marked, tainted>>
    BY <2>5 DEF OrphanActs
  <2> QED
    BY <2>1, <2>2, <2>3, <2>4, <2>5 DEF Next, Startup
<1>3. Inv => QuarantineHolds
  BY DEF Accounted, NoStrandedFault, QuarantineHolds
<1> QED
  BY <1>1, <1>2, <1>3, PTL DEF Spec

(* The steps of a refused instance.                                         *)
LEMMA OwnRefused ==
  ASSUME TypeOK, NEW i \in Instance, UnderWay(i), Awaited(i), Refused(i),
         RunFault(i) \/ Task(i) \/ ProcessEnds(i)
  PROVE  Refused(i)'
<1> USE DEF taskVars, diskVars, sessionVars, boundVars, historyVars
<1>a. /\ pc \in [Instance -> PC] /\ mach \in [Instance -> MachineState]
      /\ queue \in [Instance -> Seq(Event)] /\ effects \in [Instance -> Seq(Effect)]
  BY DEF TypeOK
<1>1. CASE RunFault(i)
  <2>1. CASE pc[i] = "idle"
    <3>1. mach[i].kind = "Pending" /\ effects[i] = << >>
      BY <2>1 DEF Awaited, UnderWay, Starting, Fresh, Plain
    <3>2. pc'[i] = "announce" /\ agent' = "serving" /\ UNCHANGED <<mach, effects, tainted>>
      BY <1>1, <1>a, <2>1 DEF RunFault
    <3>3. i \in refused' => tainted
      BY <1>1, <2>1 DEF RunFault, Refused
    <3> QED
      BY <3>1, <3>2, <3>3 DEF Refused, Starting
  <2>2. CASE pc[i] # "idle"
    BY <1>1, <2>2 DEF RunFault, Refused
  <2> QED
    BY <2>1, <2>2
<1> SUFFICES ASSUME i \in refused', Task(i) \/ ProcessEnds(i)
             PROVE  Refused(i)'
  BY <1>1 DEF Refused
<1>b. UNCHANGED <<refused, agent>>
  BY DEF Task, ProcessEnds, Announce, Setup, TakeEvent, OperatorStops, TimerFires, Finish,
     DoEmitStatus, DoWriteJournal, DoRemoveJournal, DoMarkTainted, SendTaintFrame,
     InvokeNotStarted, StartInvoke, StopDuringRun, ForwardLine
<1>c. /\ tainted /\ agent = "serving" /\ mach[i].kind \in {"Pending", "Aborted"}
      /\ pc[i] \notin {"run", "telemetry", "taintFrame"}
      /\ pc[i] \notin Starting => \A k \in 1..Len(queue[i]) : queue[i][k].type = "SetupFailed"
      /\ \A k \in 1..Len(effects[i]) : effects[i][k].type = "EmitStatus"
  BY <1>b DEF Refused
<1>2. CASE Announce(i)
  BY <1>2, <1>a, <1>b, <1>c DEF Announce, Refused, Starting
<1>3. CASE Setup(i)
  <2>1. queue' = [queue EXCEPT ![i] = <<Plainly("SetupFailed")>>]
    BY <1>3, <1>c DEF Setup
  <2>2. queue'[i] = <<Plainly("SetupFailed")>> /\ Plainly("SetupFailed").type = "SetupFailed"
    BY <1>a, <2>1 DEF Plainly, EventOf
  <2>3. \A k \in 1..Len(queue'[i]) : queue'[i][k].type = "SetupFailed"
    BY <2>2
  <2> QED
    BY <1>3, <1>a, <1>b, <1>c, <2>3 DEF Setup, Refused, Starting
<1>4. CASE TakeEvent(i)
  <2>1. /\ queue[i] \in Seq(Event) /\ queue[i] # << >> /\ pc[i] = "loop"
        /\ Advance(i, Head(queue[i])) /\ UNCHANGED tainted /\ queue'[i] = Tail(queue[i])
    BY <1>4, <1>a DEF TakeEvent
  <2>2. /\ Head(queue[i]) = queue[i][1] /\ 1 \in 1..Len(queue[i])
        /\ \A k \in 1..Len(Tail(queue[i])) :
             Tail(queue[i])[k] = queue[i][k + 1] /\ k + 1 \in 1..Len(queue[i])
    BY <2>1
  <2> DEFINE r == Step(mach[i], Head(queue[i]))
  <2>3. r = AbortedWith \/ r = Ignore(mach[i])
    <3>1. Head(queue[i]).type = "SetupFailed"
      BY <1>c, <2>1, <2>2 DEF Starting
    <3> QED
      BY <1>c, <3>1 DEF Step, StepPending, Terminal
  <2>4. /\ mach'[i] = r.state /\ effects'[i] = r.effects
        /\ pc'[i] \in {"loop", "apply"}
    BY <1>a, <2>1 DEF Advance
  <2> HIDE DEF r
  <2>5. /\ r.state.kind \in {"Pending", "Aborted"}
        /\ \A k \in 1..Len(r.effects) : r.effects[k].type = "EmitStatus"
    <3>1. CASE r = AbortedWith
      BY <3>1 DEF AbortedWith, Plain, To, EmitStatus, EffectOf
    <3>2. CASE r = Ignore(mach[i])
      BY <1>c, <3>2 DEF Ignore, To
    <3> QED
      BY <2>3, <3>1, <3>2
  <2>6. \A k \in 1..Len(queue'[i]) : queue'[i][k].type = "SetupFailed"
    BY <1>c, <2>1, <2>2 DEF Starting
  <2> QED
    BY <1>b, <1>c, <2>1, <2>4, <2>5, <2>6 DEF Refused
<1>5. CASE OperatorStops(i) \/ \E cause \in StopCause \ {"OperatorAbort"} : TimerFires(i, cause)
  BY <1>5, <1>c DEF OperatorStops, TimerFires, Waiting
<1>6. CASE Finish(i)
  BY <1>6, <1>a, <1>b, <1>c DEF Finish, Refused, Starting
<1>7. CASE DoEmitStatus(i)
  <2>1. /\ effects[i] # << >> /\ EffectDone(i) /\ pc[i] = "apply"
        /\ UNCHANGED <<mach, queue, tainted>>
    BY <1>7 DEF DoEmitStatus, Performs
  <2>2. effects'[i] = Tail(effects[i]) /\ pc'[i] \in {"loop", "apply"}
    BY <1>a, <2>1 DEF EffectDone
  <2>3. \A k \in 1..Len(Tail(effects[i])) :
          Tail(effects[i])[k] = effects[i][k + 1] /\ k + 1 \in 1..Len(effects[i])
    BY <1>a, <2>1
  <2> QED
    BY <1>b, <1>c, <2>1, <2>2, <2>3 DEF Refused, Starting
<1>8. CASE \/ DoWriteJournal(i) \/ DoRemoveJournal(i) \/ DoMarkTainted(i) \/ InvokeNotStarted(i)
           \/ StartInvoke(i)
  <2>1. effects[i] # << >> /\ Head(effects[i]).type # "EmitStatus"
    BY <1>8 DEF DoWriteJournal, DoRemoveJournal, DoMarkTainted, InvokeNotStarted, StartInvoke, Performs
  <2>2. Head(effects[i]) = effects[i][1] /\ 1 \in 1..Len(effects[i])
    BY <1>a, <2>1
  <2> QED
    BY <1>c, <2>1, <2>2
<1>9. CASE SendTaintFrame(i) \/ StopDuringRun(i) \/ ForwardLine(i) \/ ProcessEnds(i)
  BY <1>9, <1>c DEF SendTaintFrame, StopDuringRun, ForwardLine, ProcessEnds
<1> QED
  BY <1>2, <1>3, <1>4, <1>5, <1>6, <1>7, <1>8, <1>9 DEF Task

(* Every step: ClearTaint lifts the refusals along with the record.         *)
LEMMA RefusedStep ==
  ASSUME TypeOK, \A i \in Instance : UnderWay(i) /\ Awaited(i) /\ Refused(i), [Next]_vars
  PROVE  \A i \in Instance : Refused(i)'
<1> SUFFICES ASSUME NEW j \in Instance
             PROVE  Refused(j)'
  OBVIOUS
<1> USE DEF taskVars, diskVars, sessionVars, boundVars, historyVars
<1>b. ASSUME pc'[j] = pc[j], mach'[j] = mach[j], queue'[j] = queue[j], effects'[j] = effects[j],
             j \in refused' => j \in refused /\ (tainted => tainted'), UNCHANGED agent
      PROVE  Refused(j)'
  BY <1>b DEF Refused
<1>1. ASSUME NEW i \in Instance, RunFault(i) \/ Task(i) \/ ProcessEnds(i)
      PROVE  Refused(j)'
  <2>1. CASE i = j
    BY <1>1, <2>1, OwnRefused
  <2>2. CASE i # j
    <3>1. Bystander(j)
      BY <1>1, <2>2, OthersStep
    <3>2. CASE RunFault(i)
      BY <1>b, <2>2, <3>1, <3>2 DEF RunFault, Bystander
    <3>3. CASE Task(i) \/ ProcessEnds(i)
      <4>1. UNCHANGED <<refused, agent>> /\ (tainted => tainted')
        BY <3>3 DEF Task, ProcessEnds, Announce, Setup, TakeEvent, OperatorStops, TimerFires, Finish,
           DoEmitStatus, DoWriteJournal, DoRemoveJournal, DoMarkTainted, Quarantine, SendTaintFrame,
           InvokeNotStarted, StartInvoke, StopDuringRun, ForwardLine
      <4> QED
        BY <1>b, <3>1, <4>1 DEF Bystander
    <3> QED
      BY <1>1, <3>2, <3>3
  <2> QED
    BY <2>1, <2>2
<1>2. ASSUME NEW i \in Instance, AbortFault(i) \/ PluginActs(i) \/ ReplayUnreadable(i)
      PROVE  Refused(j)'
  BY <1>b, <1>2 DEF AbortFault, PluginActs, ReplayUnreadable, Quarantine
<1>3. ASSUME NEW c \in Clear, ClearTaint(c) \/ ClearTask(c)
      PROVE  Refused(j)'
  BY <1>b, <1>3 DEF ClearTaint, ClearTask, ClearRemove, ClearSend
<1>4. CASE Connect \/ Disconnect \/ Drain \/ UNCHANGED vars
  BY <1>b, <1>4 DEF Connect, Disconnect, Drain, vars
<1>5. ASSUME NEW i \in Instance, NEW command \in Command, OrphanActs(i, command)
      PROVE  Refused(j)'
  BY <1>b, <1>5 DEF OrphanActs
<1>6. CASE Crash
  BY <1>6 DEF Crash, Refused
<1>7. CASE Restart \/ Serve \/ \E i \in Instance : ReplayEntry(i)
  <2>1. UNCHANGED refused /\ agent # "serving"
    BY <1>7 DEF Restart, Serve, ReplayEntry, Between
  <2> QED
    BY <2>1 DEF Refused
<1> QED
  BY <1>1, <1>2, <1>3, <1>4, <1>5, <1>6, <1>7 DEF Next, Startup

(* An instance ordered while the host is tainted runs no plugin command and *)
(* ends aborted, whatever fails, as long as no ClearTaint removes the       *)
(* record meanwhile.  About: the taint check of setup, made once, after the *)
(* order was accepted.                                                      *)
THEOREM ATaintedHostRefuses == Spec => []TaintRefuses
<1> DEFINE Inv == TypeOK /\ \A i \in Instance : UnderWay(i) /\ Awaited(i) /\ Refused(i)
<1>1. Init => Inv
  <2>1. Init => \A i \in Instance : Awaited(i) /\ Refused(i)
    BY DEF Init, Awaited, Refused, Starting
  <2> QED
    BY <2>1, TypeInit
<1>2. Inv /\ [Next]_vars => Inv'
  BY TypeStep, UnderWayStep, AwaitedStep, RefusedStep
<1>3. Inv => TaintRefuses
  BY DEF TypeOK, Refused, TaintRefuses
<1> QED
  BY <1>1, <1>2, <1>3, PTL DEF Spec

-----------------------------------------------------------------------------
(***************************************************************************)
(* Inject is started once.                                                 *)
(***************************************************************************)

(* What leads into recovery leads nowhere else but to the end.              *)
LEMMA RecoveryIsFinal ==
  ASSUME NEW st \in MachineState, NEW ev \in Event, NEW r, r = Step(st, ev),
         st.kind \in {"Recovering"} \cup Terminal
  PROVE  r.state.kind \in {"Recovering"} \cup Terminal
<1>1. st.kind \notin PreInject /\ st.kind \notin {"Injecting", "Active"}
  BY DEF PreInject, Terminal
<1>2. CASE Absorbed(st, r)
  BY <1>2 DEF Absorbed
<1>3. CASE RecoveryMove(st, ev, r)
  <2>1. st.kind = "Recovering" /\ st.outcome \in Terminal
    BY <1>1, <1>3 DEF RecoveryMove, MachineState
  <2>2. CASE r = To([st EXCEPT !.retried = TRUE], <<Invoke(st.current)>>)
    BY <2>1, <2>2 DEF To, MachineState
  <2> QED
    BY <1>1, <1>3, <2>1, <2>2 DEF RecoveryMove, To, Plain, Recovering, Terminal
<1> QED
  BY <1>1, <1>2, <1>3, StepCases DEF PreInjectMove, InjectMove, PreInject

(* One event through the machine.                                           *)
LEMMA AdvanceOnce ==
  ASSUME TypeOK, NEW i \in Instance, NEW ev \in Event, UnderWay(i), Once(i), pc[i] = "loop",
         Advance(i, ev), UNCHANGED <<agent, injected>>
  PROVE  Once(i)'
<1> DEFINE r == Step(mach[i], ev)
<1>1. mach[i] \in MachineState
  BY DEF TypeOK
<1>2. /\ \A k \in 1..Len(r.effects) : r.effects[k] = Invoke("Inject") =>
           k = Len(r.effects) /\ r.state.kind = "Injecting"
      /\ r.state.kind = "Injecting" => mach[i].kind = "WritingJournal" \/ r.effects = << >>
      /\ r.state.kind \in PreInject => mach[i].kind \in PreInject
      /\ mach[i].kind \in {"Recovering"} \cup Terminal => r.state.kind \in {"Recovering"} \cup Terminal
  <2>1. EffectsOf(r)
    BY <1>1, StepEffects
  <2>2. IsRequest(Invoke("Inject"))
    BY EffectShapes DEF IsRequest
  <2>3. \A k \in 1..Len(r.effects) : r.effects[k] = Invoke("Inject") =>
          k = Len(r.effects) /\ r.state.kind = "Injecting"
    BY <2>1, <2>2 DEF EffectsOf
  <2> HIDE DEF r
  <2>4. r = Step(mach[i], ev)
    BY DEF r
  <2> QED
    BY <1>1, <2>3, <2>4, StepOrigins, RecoveryIsFinal
<1>3. /\ mach'[i] = r.state
      /\ effects'[i] = r.effects
      /\ pc'[i] \in {"loop", "apply"}
  BY DEF Advance, TypeOK
<1> HIDE DEF r
<1>4. i \in injected => mach[i].kind \notin PreInject
  BY DEF Once
<1>5. i \in injected => r.state.kind # "Injecting" \/ r.effects = << >>
  BY <1>2, <1>4 DEF PreInject
<1>6. \A k \in 1..Len(r.effects) : r.effects[k] = Invoke("Inject") =>
        k = Len(r.effects) /\ r.state.kind = "Injecting" /\ i \notin injected
  BY <1>2, <1>5
<1>7. /\ i \in injected => agent = "serving" /\ r.state.kind \notin PreInject
      /\ agent # "down"
      /\ agent = "replay" => r.state.kind \in {"Recovering"} \cup Terminal
  BY <1>2 DEF Once
<1> QED
  BY <1>3, <1>6, <1>7 DEF Once, Starting

(* An effect is done.  Inject was not the last to be started if another is  *)
(* left behind it.                                                          *)
LEMMA DoneOnce ==
  ASSUME TypeOK, NEW i \in Instance, Once(i), effects[i] # << >>, pc[i] \notin Starting,
         EffectDone(i), UNCHANGED <<agent, mach, injected>>
  PROVE  Once(i)'
<1>1. effects'[i] = Tail(effects[i]) /\ pc'[i] \in {"loop", "apply"}
  BY DEF EffectDone, TypeOK
<1>2. /\ Len(Tail(effects[i])) = Len(effects[i]) - 1
      /\ \A k \in 1..Len(Tail(effects[i])) :
           /\ Tail(effects[i])[k] = effects[i][k + 1]
           /\ k + 1 \in 1..Len(effects[i]) /\ k + 1 # 1
           /\ k + 1 = Len(effects[i]) => k = Len(effects[i]) - 1
  BY DEF TypeOK
<1>3. \A k \in 1..Len(effects'[i]) : effects'[i][k] = Invoke("Inject") =>
        k = Len(effects'[i]) /\ mach[i].kind = "Injecting" /\ i \notin injected
  BY <1>1, <1>2 DEF Once
<1>4. /\ i \in injected => agent = "serving" /\ mach[i].kind \notin PreInject
      /\ agent # "down"
      /\ agent = "replay" => mach[i].kind \in {"Recovering"} \cup Terminal
  BY DEF Once, Starting
<1> QED
  BY <1>1, <1>3, <1>4 DEF Once, Starting

(* A task that goes on with the effects and the state it has.               *)
LEMMA GoesOnOnce ==
  ASSUME NEW i \in Instance, Once(i), UNCHANGED <<agent, injected>>, mach'[i] = mach[i],
         effects'[i] = effects[i], pc[i] # "idle", pc[i] \notin Starting => pc'[i] \notin Starting,
         pc[i] \in {"run", "telemetry"} => pc'[i] \in {"run", "telemetry"}
  PROVE  Once(i)'
  BY DEF Once

(* What a task does itself, and how its plugin ends.                        *)
LEMMA OwnOnce ==
  ASSUME TypeOK, NEW i \in Instance, UnderWay(i), Once(i),
         RunFault(i) \/ Task(i) \/ ProcessEnds(i)
  PROVE  Once(i)'
<1> USE DEF taskVars, diskVars, sessionVars, boundVars, historyVars
<1>a. /\ pc \in [Instance -> PC] /\ mach \in [Instance -> MachineState]
      /\ queue \in [Instance -> Seq(Event)] /\ effects \in [Instance -> Seq(Effect)]
  BY DEF TypeOK
<1>1. CASE RunFault(i)
  <2>1. UNCHANGED <<agent, mach, effects, injected>> /\ agent = "serving"
    BY <1>1 DEF RunFault
  <2>2. CASE pc[i] = "idle"
    <3>1. effects[i] = << >> /\ i \notin injected
      BY <2>2 DEF UnderWay, Once, Starting
    <3> QED
      BY <2>1, <3>1 DEF Once
  <2>3. CASE pc[i] # "idle"
    BY <1>1, <2>1, <2>3, GoesOnOnce DEF RunFault
  <2> QED
    BY <2>2, <2>3
<1>2. CASE Announce(i) \/ Setup(i)
  <2>1. /\ UNCHANGED <<agent, injected, mach, effects>>
        /\ pc[i] \in {"announce", "setup"} /\ pc'[i] \in {"setup", "loop"}
    BY <1>2, <1>a DEF Announce, Setup
  <2>2. effects[i] = << >> /\ i \notin injected
    BY <2>1 DEF UnderWay, Once, Starting
  <2> QED
    BY <2>1, <2>2 DEF Once
<1>3. CASE TakeEvent(i)
  <2>1. Head(queue[i]) \in Event
    BY <1>3, <1>a DEF TakeEvent
  <2> QED
    BY <1>3, <2>1, AdvanceOnce DEF TakeEvent
<1>4. ASSUME NEW cause \in StopCause, Waiting(i), Advance(i, StopRequested(cause)),
             UNCHANGED <<agent, injected>>
      PROVE  Once(i)'
  <2>1. StopRequested(cause) \in Event
    BY EventTypes
  <2> QED
    BY <1>4, <2>1, AdvanceOnce DEF Waiting
<1>5. CASE OperatorStops(i) \/ \E cause \in StopCause \ {"OperatorAbort"} : TimerFires(i, cause)
  BY <1>4, <1>5 DEF OperatorStops, TimerFires, StopCause
<1>6. CASE Finish(i)
  <2>1. effects[i] = << >> /\ effects'[i] = << >> /\ UNCHANGED <<agent, injected>>
    BY <1>6, <1>a DEF Finish, UnderWay
  <2>2. CASE agent = "replay"
    <3>1. i \notin injected /\ pc'[i] = "idle"
      BY <1>6, <1>a, <2>2 DEF Finish, Once
    <3> QED
      BY <2>1, <3>1 DEF Once
  <2>3. CASE agent # "replay"
    BY <1>6, <1>a, <2>1, <2>3, GoesOnOnce DEF Finish, Starting
  <2> QED
    BY <2>2, <2>3
<1>7. CASE EffectDone(i) /\ (\/ DoEmitStatus(i) \/ DoWriteJournal(i) \/ DoRemoveJournal(i)
                             \/ DoMarkTainted(i) \/ SendTaintFrame(i) \/ InvokeNotStarted(i)
                             \/ ForwardLine(i) \/ ProcessEnds(i))
  <2>1. UNCHANGED <<agent, mach, injected>>
    BY <1>7 DEF DoEmitStatus, DoWriteJournal, DoRemoveJournal, DoMarkTainted, SendTaintFrame,
       InvokeNotStarted, ForwardLine, ProcessEnds
  <2>2. pc[i] \in {"apply", "run", "telemetry", "taintFrame"}
    BY <1>7 DEF DoEmitStatus, DoWriteJournal, DoRemoveJournal, DoMarkTainted, SendTaintFrame,
       InvokeNotStarted, ForwardLine, ProcessEnds, Performs
  <2> QED
    BY <1>7, <2>1, <2>2, DoneOnce DEF UnderWay, Starting
<1>8. CASE DoMarkTainted(i) \/ ForwardLine(i) \/ ProcessEnds(i)
  <2>1. CASE EffectDone(i)
    BY <1>7, <1>8, <2>1
  <2>2. CASE ~EffectDone(i)
    BY <1>8, <1>a, <2>2, GoesOnOnce DEF DoMarkTainted, ForwardLine, ProcessEnds, Performs, Starting
  <2> QED
    BY <2>1, <2>2
<1>9. CASE StopDuringRun(i)
  BY <1>9, GoesOnOnce DEF StopDuringRun
<1>10. CASE StartInvoke(i)
  <2>1. /\ pc[i] = "apply" /\ pc'[i] = "run" /\ UNCHANGED <<agent, mach, effects>>
        /\ injected' = IF Running(i) = "Inject" THEN injected \cup {i} ELSE injected
        /\ effects[i] # << >> /\ Head(effects[i]).type = "Invoke"
    BY <1>10, <1>a DEF StartInvoke, Performs
  <2>2. CASE Running(i) # "Inject"
    BY <2>1, <2>2, GoesOnOnce DEF Starting
  <2>3. CASE Running(i) = "Inject"
    <3>1. effects[i][1] = Invoke("Inject") /\ 1 \in 1..Len(effects[i])
      BY <1>a, <2>1, <2>3, RunningType
    <3>2. Len(effects[i]) = 1 /\ mach[i].kind = "Injecting"
      BY <3>1 DEF Once
    <3>3. agent = "serving"
      BY <1>a, <2>1, <3>2 DEF Once, Terminal, TypeOK
    <3> QED
      BY <2>1, <3>2, <3>3 DEF Once, Starting, PreInject
  <2> QED
    BY <2>2, <2>3
<1>11. /\ DoEmitStatus(i) \/ DoWriteJournal(i) \/ DoRemoveJournal(i) => EffectDone(i)
       /\ SendTaintFrame(i) \/ InvokeNotStarted(i) => EffectDone(i)
  BY DEF DoEmitStatus, DoWriteJournal, DoRemoveJournal, SendTaintFrame, InvokeNotStarted
<1> QED
  BY <1>1, <1>2, <1>3, <1>5, <1>6, <1>7, <1>8, <1>9, <1>10, <1>11 DEF Task

(* Every step, whatever fails.                                              *)
LEMMA OnceStep ==
  ASSUME TypeOK, \A i \in Instance : UnderWay(i) /\ Once(i), [Next]_vars
  PROVE  \A i \in Instance : Once(i)'
<1> SUFFICES ASSUME NEW j \in Instance
             PROVE  Once(j)'
  OBVIOUS
<1> USE DEF taskVars, diskVars, sessionVars, boundVars, historyVars
<1>a. pc \in [Instance -> PC] /\ mach \in [Instance -> MachineState]
      /\ effects \in [Instance -> Seq(Effect)]
  BY DEF TypeOK
<1>b. ASSUME pc'[j] = pc[j], mach'[j] = mach[j], effects'[j] = effects[j],
             j \in injected' <=> j \in injected, UNCHANGED agent
      PROVE  Once(j)'
  BY <1>b DEF Once
<1>1. ASSUME NEW i \in Instance, RunFault(i) \/ Task(i) \/ ProcessEnds(i)
      PROVE  Once(j)'
  <2>1. CASE i = j
    BY <1>1, <2>1, OwnOnce
  <2>2. CASE i # j
    <3>1. Bystander(j)
      BY <1>1, <2>2, OthersStep
    <3>2. (j \in injected' <=> j \in injected) /\ UNCHANGED agent
      BY <1>1, <2>2 DEF RunFault, Task, ProcessEnds, Announce, Setup, TakeEvent, OperatorStops,
         TimerFires, Finish, DoEmitStatus, DoWriteJournal, DoRemoveJournal, DoMarkTainted,
         SendTaintFrame, InvokeNotStarted, StartInvoke, StopDuringRun, ForwardLine
    <3> QED
      BY <1>b, <3>1, <3>2 DEF Bystander
  <2> QED
    BY <2>1, <2>2
<1>2. ASSUME NEW i \in Instance, AbortFault(i) \/ PluginActs(i) \/ ReplayUnreadable(i)
      PROVE  Once(j)'
  BY <1>b, <1>2 DEF AbortFault, PluginActs, ReplayUnreadable
<1>3. ASSUME NEW c \in Clear, ClearTaint(c) \/ ClearTask(c)
      PROVE  Once(j)'
  BY <1>b, <1>3 DEF ClearTaint, ClearTask, ClearRemove, ClearSend
<1>4. CASE Connect \/ Disconnect \/ Drain \/ UNCHANGED vars
  BY <1>b, <1>4 DEF Connect, Disconnect, Drain, vars
<1>5. ASSUME NEW i \in Instance, NEW command \in Command, OrphanActs(i, command)
      PROVE  Once(j)'
  BY <1>b, <1>5 DEF OrphanActs
<1>6. CASE Crash
  BY <1>6 DEF Crash, Once
<1>7. CASE Restart \/ Serve
  <2>1. pc[j] = "idle" /\ UNCHANGED <<pc, mach, effects, injected>> /\ agent' \in {"replay", "serving"}
    BY <1>7 DEF Restart, Serve, Between, Once
  <2>2. effects[j] = << >> /\ j \notin injected
    BY <2>1 DEF UnderWay, Once, Starting
  <2> QED
    BY <2>1, <2>2 DEF Once
<1>8. ASSUME NEW i \in Instance, ReplayEntry(i)
      PROVE  Once(j)'
  <2>1. CASE i # j
    BY <1>a, <1>b, <1>8, <2>1 DEF ReplayEntry
  <2>2. CASE i = j
    <3>1. PICK outcome \in {"Aborted", "Error"} :
            /\ mach' = [mach EXCEPT ![i] = ReplayRecovery(outcome).state]
            /\ effects' = [effects EXCEPT ![i] = ReplayRecovery(outcome).effects]
      BY <1>8 DEF ReplayEntry
    <3>2. /\ mach'[j].kind = "Recovering" /\ pc'[j] = "apply" /\ agent' = "replay"
          /\ effects'[j] = <<EmitStatus("Recovering"), Invoke("Abort")>>
      BY <1>8, <1>a, <2>2, <3>1 DEF ReplayEntry, ReplayRecovery, Recovering, To, Between
    <3>3. \A k \in 1..Len(effects'[j]) : effects'[j][k] # Invoke("Inject")
      <4>1. EmitStatus("Recovering") # Invoke("Inject") /\ Invoke("Abort") # Invoke("Inject")
        BY EffectShapes
      <4> QED
        BY <3>2, <4>1
    <3>4. j \notin injected'
      BY <1>8, <2>2 DEF ReplayEntry, Between, Once
    <3> QED
      BY <3>2, <3>3, <3>4 DEF Once
  <2> QED
    BY <2>1, <2>2
<1> QED
  BY <1>1, <1>2, <1>3, <1>4, <1>5, <1>6, <1>7, <1>8 DEF Next, Startup

(* One agent process starts inject at most once for an id, whatever fails   *)
(* and however many RunFault frames of that id arrive.  About: the known-id *)
(* check of handle_run_fault, a retry rule that covers recovery commands    *)
(* only, and a replay that begins behind inject.                            *)
THEOREM InjectStartsOnce == Spec => InjectsOnce
<1> DEFINE Inv == TypeOK /\ \A i \in Instance : UnderWay(i) /\ Once(i)
<1>1. Init => Inv
  <2>1. Init => \A i \in Instance : Once(i)
    BY DEF Init, Once
  <2> QED
    BY <2>1, TypeInit
<1>2. Inv /\ [Next]_vars => Inv'
  BY TypeStep, UnderWayStep, OnceStep
<1>3. Inv => \A i \in injected : ~(StartInvoke(i) /\ Running(i) = "Inject")
  <2> SUFFICES ASSUME Inv, NEW i \in injected, StartInvoke(i), Running(i) = "Inject"
               PROVE  FALSE
    OBVIOUS
  <2>1. i \in Instance /\ effects[i] \in Seq(Effect)
    BY DEF TypeOK
  <2>2. pc[i] = "apply" /\ effects[i] # << >> /\ Head(effects[i]).type = "Invoke"
    BY DEF StartInvoke, Performs
  <2>3. effects[i][1] = Invoke("Inject") /\ 1 \in 1..Len(effects[i])
    BY <2>1, <2>2, RunningType
  <2> QED
    BY <2>1, <2>2, <2>3 DEF Once
<1> QED
  BY <1>1, <1>2, <1>3, PTL DEF Spec, InjectsOnce

-----------------------------------------------------------------------------
(***************************************************************************)
(* The refinement: every step of the supervisor is a step of FaultLifecycle, *)
(* or changes nothing the promise speaks of.                               *)
(***************************************************************************)

(* The lifecycle state a machine state is reported as.                      *)
LEMMA StateReported ==
  ASSUME NEW st
  PROVE  /\ st.kind \in {"Pending", "Injecting", "Active", "Recovering"} \cup Terminal =>
              InstanceState(st) = st.kind
         /\ st.kind \in {"PreflightInstall", "PreflightRuntime", "WritingJournal"} =>
              InstanceState(st) = "Preflight"
  BY DEF InstanceState, PreInject, Terminal

(* What a step asks to be reported is the state it leads to, once, and a    *)
(* step that asks for no report leads nowhere else.                         *)
Tells(st, r) ==
  /\ \A k \in 1..Len(r.effects) : IsReport(r.effects[k]) =>
       /\ r.effects[k].state = InstanceState(r.state)
       /\ Follows(InstanceState(st), r.effects[k].state)
       /\ \A n \in 1..Len(r.effects) : IsReport(r.effects[n]) => n = k
  /\ (\A k \in 1..Len(r.effects) : ~IsReport(r.effects[k])) =>
       InstanceState(r.state) = InstanceState(st)

(* Only a state the entry protects asks for what needs the entry.           *)
Protects(st, r) ==
  /\ r.state.kind \in {"Active", "Recovering"} => st.kind \in {"Injecting", "Active", "Recovering"}
  /\ \A k \in 1..Len(r.effects) :
       /\ r.effects[k].type = "WriteJournal" => r.state.kind = "WritingJournal"
       /\ r.effects[k].type = "Invoke" /\ r.effects[k].command \in {"Abort", "Cleanup"} =>
            r.state.kind = "Recovering"
       /\ r.effects[k].type = "MarkTainted" => k = 1 /\ st.kind = "Recovering"

(* The lists of effects step builds, read for reports.                      *)
LEMMA TellsReport ==
  ASSUME NEW st, NEW s, NEW r, NEW w, NEW c,
         \/ r = To(s, <<EmitStatus(w)>>)
         \/ r = To(s, <<RemoveJournal, EmitStatus(w)>>)
         \/ r = To(s, <<MarkTainted, RemoveJournal, EmitStatus(w)>>)
         \/ r = To(s, <<EmitStatus(w), Invoke(c)>>),
         InstanceState(s) = w, Follows(InstanceState(st), w)
  PROVE  Tells(st, r)
<1>1. CASE r = To(s, <<EmitStatus(w)>>)
  BY <1>1 DEF Tells, To, IsReport, EmitStatus, EffectOf
<1>2. CASE r = To(s, <<RemoveJournal, EmitStatus(w)>>)
  BY <1>2 DEF Tells, To, IsReport, EmitStatus, RemoveJournal, EffectOf
<1>3. CASE r = To(s, <<MarkTainted, RemoveJournal, EmitStatus(w)>>)
  BY <1>3 DEF Tells, To, IsReport, EmitStatus, RemoveJournal, MarkTainted, EffectOf
<1>4. CASE r = To(s, <<EmitStatus(w), Invoke(c)>>)
  BY <1>4 DEF Tells, To, IsReport, EmitStatus, Invoke, EffectOf
<1> QED
  BY <1>1, <1>2, <1>3, <1>4

(* A request alone, with nothing to report.                                 *)
LEMMA TellsRequest ==
  ASSUME NEW st, NEW s, NEW r, NEW c,
         r = To(s, <<WriteJournal>>) \/ r = To(s, <<Invoke(c)>>),
         InstanceState(s) = InstanceState(st)
  PROVE  Tells(st, r)
<1>1. CASE r = To(s, <<WriteJournal>>)
  BY <1>1 DEF Tells, To, IsReport, WriteJournal, EffectOf
<1>2. CASE r = To(s, <<Invoke(c)>>)
  BY <1>2 DEF Tells, To, IsReport, Invoke, EffectOf
<1> QED
  BY <1>1, <1>2

(* The statuses that may follow one another.                                *)
LEMMA FollowsFacts ==
  /\ \A old : Follows(old, "Recovering")
  /\ Follows("Pending", "Preflight") /\ Follows("Preflight", "Injecting")
  /\ Follows("Injecting", "Active")
  /\ \A old \in {"Pending", "Preflight", "Injecting"} : Follows(old, "Aborted")
  /\ \A new \in Terminal : Follows("Recovering", new)
  BY DEF Follows, Lifecycle!Successor, Terminal

(* Every step tells the truth of where it leads, along the lifecycle graph, *)
(* and asks for what an entry must protect only under its protection.       *)
LEMMA StepTells ==
  ASSUME NEW st \in MachineState, NEW ev \in Event, NEW r, r = Step(st, ev)
  PROVE  Tells(st, r) /\ Protects(st, r)
<1>a. \A kind : Plain(kind, None).kind = kind
  BY DEF Plain
<1>b. \A c, rest, o, retried : Recovering(c, rest, o, retried).kind = "Recovering"
  BY DEF Recovering
<1>1. CASE Absorbed(st, r)
  <2>1. r.effects = << >> /\ r.state.kind = st.kind
    BY <1>1 DEF Absorbed
  <2>2. InstanceState(r.state) = InstanceState(st)
    BY <2>1 DEF InstanceState
  <2> QED
    BY <2>1, <2>2 DEF Tells, Protects
<1>2. CASE PreInjectMove(st, ev, r)
  <2>1. CASE st.kind \in PreInject /\ r \in {AbortedWith, AbortedUnjournaled}
    <3>1. InstanceState(st) \in {"Pending", "Preflight"}
      BY <2>1, StateReported DEF PreInject
    <3>2. InstanceState(Plain("Aborted", None)) = "Aborted"
      BY <1>a, StateReported DEF Terminal
    <3>3. Follows(InstanceState(st), "Aborted")
      BY <3>1, FollowsFacts
    <3>4. Tells(st, r)
      BY <2>1, <3>2, <3>3, TellsReport DEF AbortedWith, AbortedUnjournaled
    <3>5. Protects(st, r)
      BY <2>1
      DEF Protects, To, Plain, Recovering, EmitStatus, Invoke, WriteJournal, RemoveJournal,
          MarkTainted, EffectOf, AbortedWith, AbortedUnjournaled
    <3> QED
      BY <3>4, <3>5
  <2>2. CASE /\ st.kind = "Pending"
             /\ r = To(Plain("PreflightInstall", None),
                       <<EmitStatus("Preflight"), Invoke("Preflight")>>)
    <3>1. InstanceState(st) = "Pending" /\ InstanceState(Plain("PreflightInstall", None)) = "Preflight"
      BY <1>a, <2>2, StateReported
    <3>2. Tells(st, r)
      BY <2>2, <3>1, FollowsFacts, TellsReport
    <3>3. Protects(st, r)
      BY <2>2
      DEF Protects, To, Plain, Recovering, EmitStatus, Invoke, WriteJournal, RemoveJournal,
          MarkTainted, EffectOf
    <3> QED
      BY <3>2, <3>3
  <2>3. CASE /\ st.kind = "PreflightInstall"
             /\ r = To(Plain("PreflightRuntime", None), <<Invoke("Preflight")>>)
    <3>1. InstanceState(st) = InstanceState(Plain("PreflightRuntime", None))
      BY <1>a, <2>3, StateReported
    <3>2. Tells(st, r)
      BY <2>3, <3>1, TellsRequest
    <3>3. Protects(st, r)
      BY <2>3
      DEF Protects, To, Plain, Recovering, EmitStatus, Invoke, WriteJournal, RemoveJournal,
          MarkTainted, EffectOf
    <3> QED
      BY <3>2, <3>3
  <2>4. CASE /\ st.kind = "PreflightRuntime"
             /\ r = To(Plain("WritingJournal", None), <<WriteJournal>>)
    <3>1. InstanceState(st) = InstanceState(Plain("WritingJournal", None))
      BY <1>a, <2>4, StateReported
    <3>2. Tells(st, r)
      BY <2>4, <3>1, TellsRequest
    <3>3. Protects(st, r)
      BY <2>4
      DEF Protects, To, Plain, Recovering, EmitStatus, Invoke, WriteJournal, RemoveJournal,
          MarkTainted, EffectOf
    <3> QED
      BY <3>2, <3>3
  <2>5. CASE /\ st.kind = "WritingJournal"
             /\ r = To(Plain("Injecting", None), <<EmitStatus("Injecting"), Invoke("Inject")>>)
    <3>1. InstanceState(st) = "Preflight" /\ InstanceState(Plain("Injecting", None)) = "Injecting"
      BY <1>a, <2>5, StateReported
    <3>2. Tells(st, r)
      BY <2>5, <3>1, FollowsFacts, TellsReport
    <3>3. Protects(st, r)
      BY <2>5
      DEF Protects, To, Plain, Recovering, EmitStatus, Invoke, WriteJournal, RemoveJournal,
          MarkTainted, EffectOf
    <3> QED
      BY <3>2, <3>3
  <2> QED
    BY <1>2, <2>1, <2>2, <2>3, <2>4, <2>5 DEF PreInjectMove, PreInject
<1>3. ASSUME NEW cause \in StopCause, r = StartRecovery(cause), st.kind \in {"Injecting", "Active"}
      PROVE  Tells(st, r) /\ Protects(st, r)
  <2>1. PICK c \in {"Abort", "Cleanup"}, rest \in {<< >>, <<"Cleanup">>}, o \in Terminal :
          r = To(Recovering(c, rest, o, FALSE), <<EmitStatus("Recovering"), Invoke(c)>>)
    BY <1>3, StartRecoveryType
  <2>2. InstanceState(Recovering(c, rest, o, FALSE)) = "Recovering"
    BY DEF InstanceState, Recovering, PreInject
  <2>3. Tells(st, r)
    BY <2>1, <2>2, FollowsFacts, TellsReport
  <2>4. Protects(st, r)
    BY <1>3, <2>1
    DEF Protects, To, Plain, Recovering, EmitStatus, Invoke, WriteJournal, RemoveJournal,
        MarkTainted, EffectOf
  <2> QED
    BY <2>3, <2>4
<1>4. CASE InjectMove(st, ev, r)
  <2>1. st.kind = "Injecting" /\ InstanceState(st) = "Injecting"
    BY <1>4, StateReported DEF InjectMove
  <2>2. CASE r = To(Plain("Active", None), <<EmitStatus("Active")>>)
    <3>1. InstanceState(Plain("Active", None)) = "Active"
      BY <1>a, StateReported
    <3>2. Tells(st, r)
      BY <2>1, <2>2, <3>1, FollowsFacts, TellsReport
    <3>3. Protects(st, r)
      BY <2>1, <2>2
      DEF Protects, To, Plain, Recovering, EmitStatus, Invoke, WriteJournal, RemoveJournal,
          MarkTainted, EffectOf
    <3> QED
      BY <3>2, <3>3
  <2>3. CASE r = AbortedUnjournaled
    <3>1. InstanceState(Plain("Aborted", None)) = "Aborted"
      BY <1>a, StateReported DEF Terminal
    <3>2. Tells(st, r)
      BY <2>1, <2>3, <3>1, FollowsFacts, TellsReport DEF AbortedUnjournaled
    <3>3. Protects(st, r)
      BY <2>1, <2>3
      DEF Protects, To, Plain, Recovering, EmitStatus, Invoke, WriteJournal, RemoveJournal,
          MarkTainted, EffectOf, AbortedUnjournaled
    <3> QED
      BY <3>2, <3>3
  <2> QED
    BY <1>3, <1>4, <2>1, <2>2, <2>3 DEF InjectMove
<1>5. CASE RecoveryMove(st, ev, r)
  <2>1. CASE st.kind = "Active"
    BY <1>3, <1>5, <2>1, EventFields DEF RecoveryMove
  <2>2. CASE st.kind = "Recovering"
    <3>1. st.outcome \in Terminal /\ InstanceState(st) = "Recovering"
      BY <2>2, StateReported DEF MachineState
    <3>2. CASE r = To(Plain(st.outcome, None), <<RemoveJournal, EmitStatus(st.outcome)>>)
      <4>1. InstanceState(Plain(st.outcome, None)) = st.outcome
        BY <1>a, <3>1, StateReported
      <4>2. Tells(st, r)
        BY <3>1, <3>2, <4>1, FollowsFacts, TellsReport
      <4>3. Protects(st, r)
        BY <2>2, <3>2
        DEF Protects, To, Plain, Recovering, EmitStatus, Invoke, WriteJournal, RemoveJournal,
            MarkTainted, EffectOf
      <4> QED
        BY <4>2, <4>3
    <3>3. CASE r = To(Recovering("Cleanup", << >>, st.outcome, FALSE), <<Invoke("Cleanup")>>)
      <4>1. InstanceState(Recovering("Cleanup", << >>, st.outcome, FALSE)) = InstanceState(st)
        BY <1>b, <3>1, StateReported
      <4>2. Tells(st, r)
        BY <3>3, <4>1, TellsRequest
      <4>3. Protects(st, r)
        BY <2>2, <3>3
        DEF Protects, To, Plain, Recovering, EmitStatus, Invoke, WriteJournal, RemoveJournal,
            MarkTainted, EffectOf
      <4> QED
        BY <4>2, <4>3
    <3>4. CASE r = To([st EXCEPT !.retried = TRUE], <<Invoke(st.current)>>)
      <4> DEFINE s == [st EXCEPT !.retried = TRUE]
      <4>1. s.kind = "Recovering"
        BY <2>2 DEF MachineState
      <4>2. InstanceState(s) = InstanceState(st)
        BY <3>1, <4>1, StateReported
      <4> HIDE DEF s
      <4>3. r = To(s, <<Invoke(st.current)>>)
        BY <3>4 DEF s
      <4>4. Tells(st, r)
        BY <4>2, <4>3, TellsRequest
      <4>5. Protects(st, r)
        BY <2>2, <4>1, <4>3 DEF Protects, To, Invoke, EffectOf
      <4> QED
        BY <4>4, <4>5
    <3>5. CASE r = To(Plain("Error", None), <<MarkTainted, RemoveJournal, EmitStatus("Error")>>)
      <4>1. InstanceState(Plain("Error", None)) = "Error"
        BY <1>a, StateReported DEF Terminal
      <4>2. Follows(InstanceState(st), "Error")
        BY <3>1, FollowsFacts DEF Terminal
      <4>3. Tells(st, r)
        BY <3>5, <4>1, <4>2, TellsReport
      <4>4. Protects(st, r)
        BY <2>2, <3>5
        DEF Protects, To, Plain, Recovering, EmitStatus, Invoke, WriteJournal, RemoveJournal,
            MarkTainted, EffectOf
      <4> QED
        BY <4>3, <4>4
    <3> QED
      BY <1>5, <2>2, <3>2, <3>3, <3>4, <3>5 DEF RecoveryMove
  <2> QED
    BY <1>5, <2>1, <2>2 DEF RecoveryMove
<1> QED
  BY <1>1, <1>2, <1>4, <1>5, StepCases

-----------------------------------------------------------------------------
(***************************************************************************)
(* The promise is kept action by action.                                   *)
(***************************************************************************)

(* What nobody touched stays as it was.                                     *)
LEMMA SameKept ==
  ASSUME NEW j, Kept(j), mach'[j] = mach[j], effects'[j] = effects[j],
         reported'[j] = reported[j], j \in journal => j \in journal',
         pc[j] \in {"idle", "announce"} => pc'[j] \in {"idle", "announce"}
  PROVE  Kept(j)'
<1>1. Reports(j)'
  BY DEF Kept, Reports
<1>2. Grounded(j)'
  BY DEF Kept, Grounded
<1> QED
  BY <1>1, <1>2 DEF Kept

(* One event through the machine, with nothing left to report before it.    *)
LEMMA AdvanceKept ==
  ASSUME TypeOK, NEW i \in Instance, NEW ev \in Event, UnderWay(i), Kept(i),
         pc[i] = "loop", Advance(i, ev), UNCHANGED <<reported, journal>>,
         ev.type = "JournalWritten" /\ mach[i].kind = "WritingJournal" => i \in journal
  PROVE  Kept(i)'
<1> DEFINE r == Step(mach[i], ev)
<1>1. mach[i] \in MachineState /\ effects[i] \in Seq(Effect)
  BY DEF TypeOK
<1>2. Tells(mach[i], r) /\ Protects(mach[i], r)
  BY <1>1, StepTells
<1>3. r.state.kind = "Injecting" =>
        \/ mach[i].kind = "Injecting"
        \/ mach[i].kind = "WritingJournal" /\ ev.type = "JournalWritten"
  BY <1>1, StepOrigins
<1>4. mach'[i] = r.state /\ effects'[i] = r.effects
  BY DEF Advance, TypeOK
<1>5. reported[i] = InstanceState(mach[i])
  <2>1. effects[i] = << >>
    BY DEF UnderWay
  <2> QED
    BY <2>1 DEF Kept, Reports
<1> HIDE DEF r
<1>6. Reports(i)'
  BY <1>2, <1>4, <1>5 DEF Kept, Tells, Reports
<1>7. Grounded(i)'
  BY <1>2, <1>3, <1>4 DEF Kept, Protects, Grounded
<1> QED
  BY <1>6, <1>7 DEF Kept

(* An effect that reports nothing is done.                                  *)
LEMMA DoneKept ==
  ASSUME TypeOK, NEW i \in Instance, Kept(i), effects[i] # << >>, EffectDone(i),
         pc[i] \notin {"idle", "announce"}, mach'[i] = mach[i], reported'[i] = reported[i],
         ~IsReport(Head(effects[i])),
         i \in journal => i \in journal' \/ IsTerminal(mach[i])
  PROVE  Kept(i)'
<1>1. effects[i] \in Seq(Effect) /\ effects'[i] = Tail(effects[i])
  BY DEF EffectDone, TypeOK
<1>2. \A k \in 1..Len(Tail(effects[i])) :
        Tail(effects[i])[k] = effects[i][k + 1] /\ k + 1 \in 1..Len(effects[i]) /\ k + 1 # 1
  BY <1>1
<1>3. \A k \in 1..Len(effects[i]) :
        \/ k = 1 /\ effects[i][k] = Head(effects[i])
        \/ k - 1 \in 1..Len(Tail(effects[i])) /\ Tail(effects[i])[k - 1] = effects[i][k]
  BY <1>1
<1>4. Reports(i)'
  <2>1. ASSUME NEW k \in 1..Len(Tail(effects[i])), IsReport(Tail(effects[i])[k])
        PROVE  /\ Tail(effects[i])[k].state = InstanceState(mach[i])
               /\ Follows(reported[i], Tail(effects[i])[k].state)
               /\ \A n \in 1..Len(Tail(effects[i])) : IsReport(Tail(effects[i])[n]) => n = k
    <3>1. /\ effects[i][k + 1].state = InstanceState(mach[i])
          /\ Follows(reported[i], effects[i][k + 1].state)
          /\ \A n \in 1..Len(effects[i]) : IsReport(effects[i][n]) => n = k + 1
      BY <1>2, <2>1 DEF Kept, Reports
    <3> QED
      BY <1>1, <1>2, <3>1
  <2>2. ASSUME \A k \in 1..Len(Tail(effects[i])) : ~IsReport(Tail(effects[i])[k])
        PROVE  reported[i] = InstanceState(mach[i])
    <3>1. \A k \in 1..Len(effects[i]) : ~IsReport(effects[i][k])
      BY <1>3, <2>2
    <3> QED
      BY <3>1 DEF Kept, Reports
  <2> QED
    BY <1>1, <2>1, <2>2 DEF Kept, Reports
<1>5. Grounded(i)'
  <2>1. ~IsTerminal(mach[i]) \/ mach[i].kind \notin {"Injecting", "Active", "Recovering"}
    BY DEF IsTerminal, Terminal
  <2> QED
    BY <1>1, <1>2, <2>1 DEF Kept, Grounded
<1> QED
  BY <1>4, <1>5 DEF Kept

(* A status is reported: it was the only one left, and it is true.          *)
LEMMA StatusKept ==
  ASSUME TypeOK, NEW i \in Instance, Kept(i), DoEmitStatus(i)
  PROVE  Kept(i)'
<1> USE DEF taskVars, diskVars, sessionVars, boundVars, historyVars
<1>1. /\ effects[i] \in Seq(Effect) /\ effects[i] # << >> /\ pc[i] = "apply"
      /\ IsReport(Head(effects[i])) /\ EffectDone(i) /\ UNCHANGED <<mach, journal>>
      /\ effects'[i] = Tail(effects[i]) /\ reported'[i] = Head(effects[i]).state
  BY DEF DoEmitStatus, EffectDone, Performs, TypeOK, IsReport
<1>2. Head(effects[i]) = effects[i][1] /\ 1 \in 1..Len(effects[i])
  BY <1>1
<1>3. \A k \in 1..Len(Tail(effects[i])) :
        Tail(effects[i])[k] = effects[i][k + 1] /\ k + 1 \in 1..Len(effects[i]) /\ k + 1 # 1
  BY <1>1
<1>4. /\ Head(effects[i]).state = InstanceState(mach[i])
      /\ \A n \in 1..Len(effects[i]) : IsReport(effects[i][n]) => n = 1
  BY <1>1, <1>2 DEF Kept, Reports
<1>5. Reports(i)'
  BY <1>1, <1>3, <1>4 DEF Kept, Reports
<1>6. Grounded(i)'
  BY <1>1, <1>3 DEF Kept, Grounded
<1> QED
  BY <1>5, <1>6 DEF Kept

(* What the order of the actions says of the effect under way.              *)
LEMMA HeadFacts ==
  ASSUME Accounted, NEW i \in Instance, effects[i] # << >>
  PROVE  /\ Head(effects[i]) = effects[i][1] /\ 1 \in 1..Len(effects[i])
         /\ Head(effects[i]) \in Effect
         /\ Head(effects[i]).type = "RemoveJournal" => IsTerminal(mach[i])
         /\ IsRequest(Head(effects[i])) => Len(effects[i]) = 1
<1>1. effects[i] \in Seq(Effect) /\ TaskAccounted(i)
  BY DEF Accounted, TypeOK
<1>2. Head(effects[i]) = effects[i][1] /\ 1 \in 1..Len(effects[i]) /\ Head(effects[i]) \in Effect
  BY <1>1
<1> QED
  BY <1>1, <1>2 DEF TaskAccounted, EffectsFit

(* What a task and its plugin do themselves.                                *)
LEMMA OwnKept ==
  ASSUME Accounted, NEW i \in Instance, Kept(i),
         RunFault(i) \/ Task(i) \/ ProcessEnds(i) \/ PluginActs(i)
  PROVE  Kept(i)'
<1> USE DEF taskVars, diskVars, sessionVars, boundVars, historyVars
<1>a. /\ TypeOK /\ UnderWay(i) /\ TaskAccounted(i)
      /\ pc \in [Instance -> PC] /\ mach \in [Instance -> MachineState]
      /\ queue \in [Instance -> Seq(Event)] /\ effects \in [Instance -> Seq(Effect)]
      /\ reported \in [Instance -> WireState \cup {None}]
  BY DEF Accounted, TypeOK
<1>1. CASE RunFault(i)
  <2>1. UNCHANGED <<mach, effects, reported, journal>> /\ (pc[i] = "announce" => pc'[i] = "announce")
    BY <1>1, <1>a DEF RunFault
  <2>2. pc[i] = "idle" => pc'[i] = "announce"
    BY <1>1, <1>a DEF RunFault
  <2> QED
    BY <2>1, <2>2, SameKept
<1>2. CASE Announce(i)
  <2>1. /\ reported'[i] = "Pending" /\ UNCHANGED <<mach, effects, journal>> /\ mach[i] = Fresh
        /\ effects[i] = << >>
    BY <1>2, <1>a DEF Announce, TaskAccounted, Placed, UnderWay
  <2>2. Fresh.kind = "Pending" /\ InstanceState(Fresh) = "Pending"
    BY DEF Fresh, Plain, InstanceState
  <2> QED
    BY <2>1, <2>2 DEF Kept, Reports, Grounded
<1>3. CASE Setup(i) \/ StartInvoke(i) \/ StopDuringRun(i) \/ PluginActs(i)
  <2>1. UNCHANGED <<mach, effects, reported, journal>> /\ pc[i] \notin {"idle", "announce"}
    BY <1>3 DEF Setup, StartInvoke, StopDuringRun, PluginActs, Performs
  <2> QED
    BY <2>1, SameKept
<1>4. CASE TakeEvent(i)
  <2>1. /\ Head(queue[i]) = queue[i][1] /\ 1 \in 1..Len(queue[i]) /\ Head(queue[i]) \in Event
        /\ pc[i] = "loop" /\ Advance(i, Head(queue[i])) /\ UNCHANGED <<reported, journal>>
    BY <1>4, <1>a DEF TakeEvent
  <2>2. Head(queue[i]).type = "JournalWritten" /\ mach[i].kind = "WritingJournal" => i \in journal
    BY <1>a, <2>1 DEF TaskAccounted, AnswersHold
  <2> QED
    BY <1>a, <2>1, <2>2, AdvanceKept
<1>5. CASE OperatorStops(i) \/ \E cause \in StopCause \ {"OperatorAbort"} : TimerFires(i, cause)
  <2>1. PICK cause \in StopCause : pc[i] = "loop" /\ Advance(i, StopRequested(cause))
    BY <1>5 DEF OperatorStops, TimerFires, Waiting, StopCause
  <2>2. /\ StopRequested(cause) \in Event /\ UNCHANGED <<reported, journal>>
        /\ StopRequested(cause).type # "JournalWritten"
    BY <1>5, EventTypes DEF OperatorStops, TimerFires, StopRequested, EventOf
  <2> QED
    BY <1>a, <2>1, <2>2, AdvanceKept
<1>6. CASE Finish(i)
  <2>1. effects[i] = << >> /\ UNCHANGED <<effects, reported, journal>> /\ pc[i] = "loop"
    BY <1>6, <1>a DEF UnderWay, Finish
  <2>2. CASE agent = "replay"
    <3>1. pc'[i] = "idle" /\ mach'[i].kind = "Pending"
      BY <1>6, <1>a, <2>2 DEF Finish, Fresh, Plain
    <3> QED
      BY <2>1, <3>1 DEF Kept, Reports, Grounded
  <2>3. CASE agent # "replay"
    BY <1>6, <2>1, <2>3, SameKept DEF Finish
  <2> QED
    BY <2>2, <2>3
<1>7. CASE DoEmitStatus(i)
  BY <1>7, <1>a, StatusKept
<1>8. CASE DoWriteJournal(i) \/ DoRemoveJournal(i) \/ InvokeNotStarted(i)
  <2>1. /\ effects[i] # << >> /\ pc[i] \notin {"idle", "announce"} /\ EffectDone(i)
        /\ UNCHANGED <<mach, reported>> /\ ~IsReport(Head(effects[i]))
    BY <1>8 DEF DoWriteJournal, DoRemoveJournal, InvokeNotStarted, Performs, IsReport
  <2>2. i \in journal => i \in journal' \/ IsTerminal(mach[i])
    BY <1>8, <2>1, HeadFacts DEF DoWriteJournal, DoRemoveJournal, InvokeNotStarted, Performs
  <2> QED
    BY <1>a, <2>1, <2>2, DoneKept
<1>9. CASE SendTaintFrame(i) \/ (DoMarkTainted(i) /\ EffectDone(i))
  <2>1. /\ effects[i] # << >> /\ pc[i] \notin {"idle", "announce"} /\ EffectDone(i)
        /\ UNCHANGED <<mach, reported, journal>> /\ Head(effects[i]).type = "MarkTainted"
    BY <1>9, <1>a DEF SendTaintFrame, DoMarkTainted, Performs, UnderWay, TaskAccounted, Placed
  <2> QED
    BY <1>a, <2>1, DoneKept DEF IsReport
<1>10. CASE DoMarkTainted(i) /\ ~EffectDone(i)
  <2>1. pc[i] = "apply" /\ UNCHANGED <<mach, effects, reported, journal>>
    BY <1>10 DEF DoMarkTainted, Performs
  <2> QED
    BY <2>1, SameKept
<1>11. CASE ForwardLine(i) \/ ProcessEnds(i)
  <2>1. /\ effects[i] # << >> /\ pc[i] \in {"run", "telemetry"}
        /\ UNCHANGED <<mach, reported, journal>> /\ Head(effects[i]).type = "Invoke"
    BY <1>11, <1>a DEF ForwardLine, ProcessEnds, UnderWay
  <2>2. CASE EffectDone(i)
    BY <1>a, <2>1, <2>2, DoneKept DEF IsReport
  <2>3. CASE UNCHANGED effects
    BY <2>1, <2>3, SameKept
  <2> QED
    BY <1>11, <2>2, <2>3 DEF ForwardLine, ProcessEnds
<1> QED
  BY <1>1, <1>2, <1>3, <1>4, <1>5, <1>6, <1>7, <1>8, <1>9, <1>10, <1>11 DEF Task

(* What is reported of one instance is reported of no other.                *)
LEMMA OthersUnreported ==
  ASSUME TypeOK, NEW i \in Instance, NEW j \in Instance, i # j,
         RunFault(i) \/ Task(i) \/ ProcessEnds(i) \/ PluginActs(i)
  PROVE  reported'[j] = reported[j]
<1> USE DEF taskVars, diskVars, sessionVars, boundVars, historyVars
<1>1. CASE RunFault(i) \/ ProcessEnds(i) \/ PluginActs(i)
  BY <1>1 DEF RunFault, ProcessEnds, PluginActs
<1>2. CASE Announce(i) \/ DoEmitStatus(i)
  BY <1>2 DEF Announce, DoEmitStatus, TypeOK
<1>3. CASE /\ Task(i)
           /\ ~(Announce(i) \/ DoEmitStatus(i))
  BY <1>3 DEF Task, Setup, TakeEvent, OperatorStops, TimerFires, Finish, DoWriteJournal,
     DoRemoveJournal, DoMarkTainted, SendTaintFrame, InvokeNotStarted, StartInvoke, StopDuringRun,
     ForwardLine
<1> QED
  BY <1>1, <1>2, <1>3

(* Every step keeps the promise's books.                                    *)
LEMMA PromiseStep ==
  ASSUME ~MarkMayFail, ~ListMayFail, Accounted, PromiseKept, [Next]_vars
  PROVE  PromiseKept'
<1> USE DEF taskVars, diskVars, sessionVars, boundVars, historyVars
<1>a. /\ TypeOK /\ ReplayOrder /\ orphans = {}
      /\ pc \in [Instance -> PC] /\ mach \in [Instance -> MachineState]
      /\ effects \in [Instance -> Seq(Effect)]
      /\ todo \subseteq journal /\ \A j \in Instance : Kept(j)
  BY DEF Accounted, TypeOK, PromiseKept
<1>b. ASSUME UNCHANGED <<pc, mach, effects, reported, journal>>, todo' \subseteq journal
      PROVE  PromiseKept'
  BY <1>a, <1>b, SameKept DEF PromiseKept
<1>1. ASSUME NEW i \in Instance, RunFault(i) \/ Task(i) \/ ProcessEnds(i) \/ PluginActs(i)
      PROVE  PromiseKept'
  <2>1. ASSUME NEW j \in Instance
        PROVE  Kept(j)'
    <3>1. CASE i = j
      BY <1>1, <1>a, <3>1, OwnKept
    <3>2. CASE i # j
      <4>1. Bystander(j) /\ reported'[j] = reported[j]
        BY <1>1, <1>a, <3>2, OthersStep, OthersUnreported
      <4> QED
        BY <1>a, <4>1, SameKept DEF Bystander
    <3> QED
      BY <3>1, <3>2
  <2>2. todo' = todo /\ (pc[i] # "idle" \/ agent = "serving")
    BY <1>1, NothingStranded
  <2>3. i \notin todo
    BY <1>a, <2>2 DEF ReplayOrder
  <2>4. \A j \in Instance : j # i /\ j \in journal => j \in journal'
    BY <1>1, <1>a, OthersStep DEF Bystander
  <2>5. todo' \subseteq journal'
    BY <1>a, <2>2, <2>3, <2>4 DEF TypeOK
  <2> QED
    BY <2>1, <2>5 DEF PromiseKept
<1>2. ASSUME NEW i \in Instance, AbortFault(i) \/ ReplayUnreadable(i)
      PROVE  PromiseKept'
  BY <1>a, <1>b, <1>2 DEF AbortFault, ReplayUnreadable
<1>3. ASSUME NEW c \in Clear, ClearTaint(c) \/ ClearTask(c)
      PROVE  PromiseKept'
  BY <1>a, <1>b, <1>3 DEF ClearTaint, ClearTask, ClearRemove, ClearSend
<1>4. CASE Connect \/ Disconnect \/ Drain \/ Serve \/ UNCHANGED vars
  BY <1>a, <1>b, <1>4 DEF Connect, Disconnect, Drain, Serve, vars
<1>5. CASE Restart
  <2>1. todo' = journal
    BY <1>5 DEF Restart
  <2> QED
    BY <1>b, <1>5, <2>1 DEF Restart
<1>6. ASSUME NEW i \in Instance, NEW command \in Command, OrphanActs(i, command)
      PROVE  PromiseKept'
  BY <1>a, <1>6 DEF OrphanActs
<1>7. CASE Crash
  <2>1. Fresh.kind = "Pending"
    BY DEF Fresh, Plain
  <2> QED
    BY <1>7, <2>1 DEF Crash, PromiseKept, Kept, Reports, Grounded
<1>8. ASSUME NEW i \in Instance, ReplayEntry(i)
      PROVE  PromiseKept'
  <2>1. /\ i \in journal /\ todo' = todo \ {i} /\ UNCHANGED <<reported, journal>>
        /\ pc' = [pc EXCEPT ![i] = "apply"]
    BY <1>8, <1>a DEF ReplayEntry
  <2>2. PICK outcome \in {"Aborted", "Error"} :
          /\ mach' = [mach EXCEPT ![i] = ReplayRecovery(outcome).state]
          /\ effects' = [effects EXCEPT ![i] = ReplayRecovery(outcome).effects]
    BY <1>8 DEF ReplayEntry
  <2>3. /\ mach'[i].kind = "Recovering"
        /\ effects'[i] = <<EmitStatus("Recovering"), Invoke("Abort")>>
    BY <1>a, <2>2 DEF ReplayRecovery, Recovering, To
  <2>4. Kept(i)'
    <3>1. /\ EmitStatus("Recovering").type = "EmitStatus" /\ EmitStatus("Recovering").state = "Recovering"
          /\ Invoke("Abort").type = "Invoke"
      BY DEF EmitStatus, Invoke, EffectOf
    <3>2. InstanceState(mach'[i]) = "Recovering"
      BY <2>3, StateReported
    <3>3. Reports(i)'
      BY <2>1, <2>3, <3>1, <3>2, FollowsFacts DEF Reports, IsReport
    <3>4. Grounded(i)'
      BY <2>1, <2>3, <3>1 DEF Grounded
    <3> QED
      BY <3>3, <3>4 DEF Kept
  <2>5. ASSUME NEW j \in Instance, j # i
        PROVE  Kept(j)'
    BY <1>a, <2>1, <2>2, <2>5, SameKept
  <2> QED
    BY <1>a, <2>1, <2>4, <2>5 DEF PromiseKept
<1> QED
  BY <1>1, <1>2, <1>3, <1>4, <1>5, <1>6, <1>7, <1>8 DEF Next, Startup

-----------------------------------------------------------------------------
(***************************************************************************)
(* Every step is a step of FaultLifecycle or none of its business.         *)
(***************************************************************************)

(* A status told is a status FaultLifecycle allows now.                     *)
LEMMA StatusRefines ==
  ASSUME Accounted, NEW i \in Instance, Kept(i), DoEmitStatus(i)
  PROVE  \E s \in {"Preflight", "Injecting", "Active", "Recovering", "Done", "Aborted", "Error"} :
           Lifecycle!Report(i, s) \/ (s = "Recovering" /\ Lifecycle!Resume(i))
<1> USE DEF taskVars, diskVars, sessionVars, boundVars, historyVars
<1> DEFINE s == Head(effects[i]).state
<1>1. /\ effects[i] # << >> /\ IsReport(Head(effects[i])) /\ pc[i] = "apply"
      /\ reported' = [reported EXCEPT ![i] = s] /\ UNCHANGED <<live, journal, marked, tainted>>
  BY DEF DoEmitStatus, Performs, IsReport
<1>2. s = InstanceState(mach[i]) /\ Follows(reported[i], s)
  BY <1>1, HeadFacts DEF Kept, Reports
<1>3. s \in {"Injecting", "Active", "Recovering"} => i \in journal
  BY <1>2 DEF Kept, Grounded, InstanceState
<1>4. s \in Terminal => Settled(i)
  <2>1. s \in Terminal => IsTerminal(mach[i])
    BY <1>2 DEF InstanceState, IsTerminal, Terminal
  <2> QED
    BY <1>1, <2>1 DEF Accounted, TaskAccounted, SettledWhenOut, IsReport
<1> HIDE DEF s
<1>5. CASE s = "Recovering"
  BY <1>1, <1>3, <1>5 DEF Lifecycle!Resume
<1>6. CASE s # "Recovering"
  <2>1. <<reported[i], s>> \in Lifecycle!Successor
    BY <1>2, <1>6 DEF Follows
  <2>2. s \in {"Preflight", "Injecting", "Active", "Recovering", "Done", "Aborted", "Error"}
    BY <2>1 DEF Lifecycle!Successor
  <2>3. Lifecycle!Report(i, s)
    BY <1>1, <1>3, <1>4, <2>1 DEF Lifecycle!Report, Lifecycle!Settled, Settled, Terminal
  <2> QED
    BY <2>2, <2>3
<1> QED
  BY <1>5, <1>6

(* A plugin acts under the phase that was reported.                         *)
LEMMA PluginRefines ==
  ASSUME Accounted, NEW i \in Instance, Kept(i), PluginActs(i)
  PROVE  Lifecycle!GoLive(i) \/ Lifecycle!Lift(i)
<1> USE DEF taskVars, diskVars, sessionVars, boundVars, historyVars
<1>1. /\ pc[i] = "run" /\ live' = LiveAfter(i, Running(i)) /\ live' # live
      /\ UNCHANGED <<reported, journal, marked, tainted>>
  BY DEF PluginActs
<1>2. /\ effects[i] # << >> /\ Head(effects[i]) = Invoke(Running(i))
      /\ Head(effects[i]).type = "Invoke"
  BY <1>1, RunningType DEF Accounted, UnderWay
<1>3. /\ Head(effects[i]) = effects[i][1] /\ 1 \in 1..Len(effects[i]) /\ Len(effects[i]) = 1
  BY <1>2, HeadFacts DEF IsRequest
<1>4. reported[i] = InstanceState(mach[i])
  BY <1>1, <1>2, <1>3 DEF Kept, Reports, IsReport
<1>5. CASE Running(i) = "Inject"
  <2>1. mach[i].kind = "Injecting"
    BY <1>2, <1>3, <1>5 DEF Accounted, TaskAccounted, EffectsFit
  <2>2. reported[i] = "Injecting" /\ i \in journal /\ live' = live \cup {i}
    BY <1>1, <1>4, <1>5, <2>1, StateReported DEF Kept, Grounded, LiveAfter
  <2> QED
    BY <1>1, <2>2 DEF Lifecycle!GoLive
<1>6. CASE Running(i) \in {"Abort", "Cleanup"}
  <2>1. effects[i][1].type = "Invoke" /\ effects[i][1].command \in {"Abort", "Cleanup"}
    BY <1>2, <1>3, <1>6 DEF Running
  <2>2. mach[i].kind = "Recovering"
    BY <1>3, <2>1 DEF Kept, Grounded
  <2>3. reported[i] = "Recovering" /\ i \in journal /\ live' = live \ {i}
    BY <1>1, <1>4, <1>6, <2>2, StateReported DEF Kept, Grounded, LiveAfter
  <2> QED
    BY <1>1, <2>3 DEF Lifecycle!Lift
<1> QED
  BY <1>1, <1>5, <1>6 DEF LiveAfter

(* The entry is written from the preflight, removed when the fault is       *)
(* settled, and still there when the host is marked.                        *)
LEMMA DiskRefines ==
  ASSUME Accounted, ~MarkMayFail, NEW i \in Instance, Kept(i),
         DoWriteJournal(i) \/ DoRemoveJournal(i) \/ DoMarkTainted(i)
  PROVE  \/ Lifecycle!Undertake(i) \/ Lifecycle!Discharge(i) \/ Lifecycle!GiveUp(i)
         \/ UNCHANGED Lifecycle!vars
<1> USE DEF taskVars, diskVars, sessionVars, boundVars, historyVars
<1>1. effects[i] # << >> /\ pc[i] = "apply" /\ UNCHANGED <<reported, live>>
  BY DEF DoWriteJournal, DoRemoveJournal, DoMarkTainted, Performs
<1>2. Head(effects[i]) = effects[i][1] /\ 1 \in 1..Len(effects[i])
  BY <1>1, HeadFacts
<1>3. CASE DoWriteJournal(i)
  <2>1. Head(effects[i]).type = "WriteJournal" /\ Len(effects[i]) = 1
    BY <1>1, <1>3, HeadFacts DEF DoWriteJournal, Performs, IsRequest
  <2>2. mach[i].kind = "WritingJournal" /\ reported[i] = InstanceState(mach[i])
    BY <1>1, <1>2, <2>1 DEF Kept, Reports, Grounded, IsReport
  <2>3. reported[i] = "Preflight"
    BY <2>2, StateReported
  <2> QED
    BY <1>1, <1>3, <2>3 DEF DoWriteJournal, Lifecycle!Undertake, Lifecycle!vars
<1>4. CASE DoRemoveJournal(i)
  <2>1. Head(effects[i]).type = "RemoveJournal" /\ IsTerminal(mach[i])
    BY <1>1, <1>4, HeadFacts DEF DoRemoveJournal, Performs
  <2>2. Settled(i)
    BY <1>1, <2>1 DEF Accounted, TaskAccounted, SettledWhenOut
  <2> QED
    BY <1>1, <1>4, <2>2
    DEF DoRemoveJournal, Lifecycle!Discharge, Lifecycle!Settled, Settled, Lifecycle!vars
<1>5. CASE DoMarkTainted(i)
  <2>1. i \in journal
    BY <1>2, <1>5 DEF DoMarkTainted, Performs, Kept, Grounded
  <2> QED
    BY <1>1, <1>5, <2>1 DEF DoMarkTainted, Quarantine, Lifecycle!GiveUp
<1> QED
  BY <1>3, <1>4, <1>5

(* The step mapping.                                                        *)
LEMMA StepRefines ==
  ASSUME ~OrphansSurvive, ~MarkMayFail, ~ListMayFail, Accounted, PromiseKept, [Next]_vars
  PROVE  [Lifecycle!Next]_(Lifecycle!vars)
<1> USE DEF taskVars, diskVars, sessionVars, boundVars, historyVars
<1>a. orphans = {} /\ todo \subseteq journal /\ \A i \in Instance : Kept(i)
  BY DEF Accounted, PromiseKept
<1>b. ASSUME UNCHANGED <<reported, live, journal, marked, tainted>>
      PROVE  UNCHANGED Lifecycle!vars
  BY <1>b DEF Lifecycle!vars
<1>1. ASSUME NEW i \in Instance, Announce(i)
      PROVE  Lifecycle!Next
  BY <1>1 DEF Announce, Lifecycle!Next, Lifecycle!Accept
<1>2. ASSUME NEW i \in Instance, DoEmitStatus(i)
      PROVE  Lifecycle!Next
  BY <1>2, <1>a, StatusRefines DEF Lifecycle!Next
<1>3. ASSUME NEW i \in Instance, PluginActs(i)
      PROVE  Lifecycle!Next
  BY <1>3, <1>a, PluginRefines DEF Lifecycle!Next
<1>4. ASSUME NEW i \in Instance, DoWriteJournal(i) \/ DoRemoveJournal(i) \/ DoMarkTainted(i)
      PROVE  Lifecycle!Next \/ UNCHANGED Lifecycle!vars
  BY <1>4, <1>a, DiskRefines DEF Lifecycle!Next
<1>5. ASSUME NEW i \in Instance, ReplayUnreadable(i)
      PROVE  Lifecycle!Next
  <2>1. /\ i \in journal /\ UNCHANGED <<reported, live, journal>>
        /\ tainted' = TRUE /\ marked' = marked \cup {i}
    BY <1>5, <1>a DEF ReplayUnreadable, Quarantine
  <2> QED
    BY <2>1 DEF Lifecycle!Next, Lifecycle!GiveUp
<1>6. ASSUME NEW c \in Clear, ClearTaint(c) \/ ClearTask(c)
      PROVE  Lifecycle!Next \/ UNCHANGED Lifecycle!vars
  BY <1>6, <1>b DEF ClearTaint, ClearTask, ClearRemove, ClearSend, Lifecycle!Next,
     Lifecycle!EndQuarantine
<1>7. ASSUME NEW i \in Instance,
             \/ RunFault(i) \/ AbortFault(i) \/ ProcessEnds(i) \/ ReplayEntry(i)
             \/ Setup(i) \/ TakeEvent(i) \/ OperatorStops(i) \/ Finish(i) \/ SendTaintFrame(i)
             \/ InvokeNotStarted(i) \/ StartInvoke(i) \/ StopDuringRun(i) \/ ForwardLine(i)
             \/ \E cause \in StopCause : TimerFires(i, cause)
      PROVE  UNCHANGED Lifecycle!vars
  BY <1>7, <1>b DEF RunFault, AbortFault, ProcessEnds, ReplayEntry, Setup, TakeEvent, OperatorStops,
     Finish, SendTaintFrame, InvokeNotStarted, StartInvoke, StopDuringRun, ForwardLine, TimerFires
<1>8. CASE Connect \/ Disconnect \/ Drain \/ Crash \/ Restart \/ Serve \/ UNCHANGED vars
  BY <1>8, <1>b DEF Connect, Disconnect, Drain, Crash, Restart, Serve, vars
<1>9. ASSUME NEW i \in Instance, NEW command \in Command, OrphanActs(i, command)
      PROVE  FALSE
  BY <1>9, <1>a DEF OrphanActs
<1>10. ASSUME NEW i \in Instance, Task(i)
       PROVE  Lifecycle!Next \/ UNCHANGED Lifecycle!vars
  BY <1>10, <1>1, <1>2, <1>4, <1>7 DEF Task
<1> QED
  BY <1>3, <1>5, <1>6, <1>7, <1>8, <1>9, <1>10 DEF Next, Startup

(* The agent keeps every promise of FaultLifecycle, for any instances, stop *)
(* requests, redeliveries and crashes: statuses follow the lifecycle graph, *)
(* a fault goes live only under a journal entry, the entry goes only when   *)
(* the fault is lifted or given up, and an end is reported only then.       *)
(* About: run_instance, apply_effect and replay_journal taken together.  It *)
(* needs what FaultsAreAccountedFor needs.                                  *)
THEOREM TheAgentKeepsItsPromise ==
  ASSUME ~OrphansSurvive, ~MarkMayFail, ~ListMayFail
  PROVE  Spec => KeepsLifecycle
<1> DEFINE Inv == Accounted /\ PromiseKept
<1>1. Init => Inv
  <2>1. Init => PromiseKept
    BY DEF Init, PromiseKept, Kept, Reports, Grounded, Fresh, Plain
  <2> QED
    BY <2>1, AccountedInit
<1>2. Inv /\ [Next]_vars => Inv'
  BY AccountedStep, PromiseStep
<1>3. Init => Lifecycle!Init
  BY DEF Init, Lifecycle!Init, Lifecycle!NotReported, None
<1>4. Inv /\ [Next]_vars => [Lifecycle!Next]_(Lifecycle!vars)
  BY StepRefines
<1> QED
  BY <1>1, <1>2, <1>3, <1>4, PTL DEF Spec, KeepsLifecycle, Lifecycle!Spec
=============================================================================
