------------------------ MODULE SupervisorInvariant ------------------------
(***************************************************************************)
(* Why no fault is stranded: the bookkeeping that ties a task's effects,   *)
(* its event queue, its machine state, the journal and the host together.  *)
(* Inductive when the taint record can be written, the journal listed, and *)
(* no plugin process outlives the agent.                                   *)
(***************************************************************************)
EXTENDS Supervisor

(* The fault of i is off the host, or the host is quarantined for it.       *)
Settled(i) == i \notin live \/ i \in marked

(* Effects the shell answers with an event.                                 *)
IsRequest(effect) == effect.type \in {"Invoke", "WriteJournal"}

(* Is a request of i still without an answer?                               *)
Pending(i) ==
  pc[i] # "telemetry" /\ \E k \in 1..Len(effects[i]) : IsRequest(effects[i][k])

(* Events that tell the machine the host is clean.                          *)
ClaimsClean(ev) ==
  \/ ev.type = "CommandFinished" /\ ev.command = "Inject" /\ ev.disposition = "InjectFailed"
  \/ ev.type = "CommandFinished" /\ ev.command \in {"Abort", "Cleanup"}
       /\ ev.disposition = "Success"

(* Where a task stands says what it holds.                                  *)
UnderWay(i) ==
  /\ effects[i] # << >> <=> pc[i] \in {"apply", "run", "telemetry", "taintFrame"}
  /\ pc[i] \in {"run", "telemetry"} => Head(effects[i]).type = "Invoke"
  /\ pc[i] = "telemetry" => lines[i] > 0

Placed(i) ==
  /\ pc[i] \in {"idle", "announce", "setup"} => mach[i] = Fresh /\ queue[i] = << >>
  /\ pc[i] = "taintFrame" => Head(effects[i]).type = "MarkTainted" /\ i \in marked
  /\ pc[i] = "done" => IsTerminal(mach[i])

(* The effects belong to the state they were asked from; a request is last. *)
EffectsFit(i) ==
  \A k \in 1..Len(effects[i]) :
    LET effect == effects[i][k]
    IN  /\ IsRequest(effect) =>
              k = Len(effects[i]) /\ ~IsTerminal(mach[i]) /\ mach[i].kind # "Active"
        /\ effect = Invoke("Inject") => mach[i].kind = "Injecting"
        /\ effect.type = "RemoveJournal" => IsTerminal(mach[i])

(* One request at a time: at most one answer is in the queue, none while a  *)
(* request is pending or the fault is active.                               *)
OneAnswer(i) ==
  /\ \A k, n \in 1..Len(queue[i]) : ~IsStop(queue[i][k]) /\ ~IsStop(queue[i][n]) => k = n
  /\ Pending(i) \/ mach[i].kind = "Active" => \A k \in 1..Len(queue[i]) : IsStop(queue[i][k])

(* The answers are true of the disk and of the host.                        *)
AnswersHold(i) ==
  \A k \in 1..Len(queue[i]) :
    LET ev == queue[i][k]
    IN  /\ ev.type = "JournalWritten" /\ mach[i].kind = "WritingJournal" => i \in journal
        /\ ClaimsClean(ev) => i \notin live
        /\ ev.type = "InvokeRejected" /\ mach[i].kind = "Injecting" => Settled(i)

(* When the machine may leave without recovery, there is nothing to lift.   *)
SettledWhenOut(i) ==
  /\ pc[i] = "idle" /\ agent # "down" /\ i \notin todo => Settled(i)
  /\ pc[i] # "idle" /\ mach[i].kind \in PreInject => Settled(i)
  /\ mach[i].kind = "Injecting" => i \in journal
  /\ mach[i].kind = "Injecting" /\ pc[i] = "apply" => Settled(i)
  /\ IsTerminal(mach[i]) =>
       Settled(i) \/ (effects[i] # << >> /\ Head(effects[i]).type = "MarkTainted")

TaskAccounted(i) ==
  Placed(i) /\ EffectsFit(i) /\ OneAnswer(i) /\ AnswersHold(i) /\ SettledWhenOut(i)

(* Replay takes the entries one by one, and only of tasks that do not run.  *)
ReplayOrder ==
  /\ \A i \in todo : pc[i] = "idle"
  /\ agent # "replay" => todo = {}
  /\ agent = "down" => \A i \in Instance : pc[i] = "idle"

Accounted ==
  /\ TypeOK
  /\ NoStrandedFault
  /\ orphans = {}
  /\ ReplayOrder
  /\ \A i \in Instance : UnderWay(i) /\ TaskAccounted(i)

-----------------------------------------------------------------------------
(***************************************************************************)
(* Why no task stands still: a state that has to be left has asked for     *)
(* something, or the answer is in the queue.  Inductive whatever fails.    *)
(***************************************************************************)
MustMove(st) == st.kind \notin Terminal \cup {"Active"}

(* The request a state was entered with, and the events that answer it.     *)
Asks(effect, st) ==
  \/ st.kind \in {"PreflightInstall", "PreflightRuntime"} /\ effect = Invoke("Preflight")
  \/ st.kind = "WritingJournal" /\ effect = WriteJournal
  \/ st.kind = "Injecting" /\ effect = Invoke("Inject")
  \/ st.kind = "Recovering" /\ effect = Invoke(st.current)

EndsInvocation(ev) == ev.type \in {"CommandFinished", "InvocationFailed", "InvokeRejected"}

Answers(ev, st) ==
  \/ st.kind = "Pending" /\ ev.type \in {"SetupOk", "SetupFailed"}
  \/ st.kind \in {"PreflightInstall", "PreflightRuntime"}
       /\ EndsInvocation(ev) /\ ev.command = "Preflight"
  \/ st.kind = "WritingJournal" /\ ev.type \in {"JournalWritten", "JournalWriteFailed"}
  \/ st.kind = "Injecting" /\ EndsInvocation(ev) /\ ev.command = "Inject"
  \/ st.kind = "Recovering" /\ EndsInvocation(ev) /\ ev.command = st.current

Starting == {"idle", "announce", "setup"}

(* While telemetry is sent the head effect has been answered already.       *)
Awaited(i) ==
  /\ pc[i] \in Starting => mach[i] = Fresh
  /\ pc[i] = "taintFrame" => Head(effects[i]).type = "MarkTainted"
  /\ pc[i] \notin Starting /\ MustMove(mach[i]) =>
       \/ \E k \in 1..Len(effects[i]) :
            Asks(effects[i][k], mach[i]) /\ (pc[i] = "telemetry" => k > 1)
       \/ \E k \in 1..Len(queue[i]) : Answers(queue[i][k], mach[i])

(***************************************************************************)
(* Why the end told is true: an end is reported from an end only, and      *)
(* what was reported of an earlier run is replaced before a fault starts.  *)
(***************************************************************************)
BeforeEnd == PreInject \cup {"Injecting", "Active"}

Told(i) ==
  /\ reported[i] \in {"Done", "Aborted"} /\ i \notin marked => i \notin live
  /\ pc[i] \notin {"idle", "announce"} /\ mach[i].kind \in BeforeEnd =>
       reported[i] \notin Terminal
  /\ \A k \in 1..Len(effects[i]) :
       effects[i][k].type = "EmitStatus" /\ effects[i][k].state \in Terminal =>
         IsTerminal(mach[i])

(***************************************************************************)
(* Why a tainted host runs nothing: a refused instance is told so at its   *)
(* setup, and from there can only report that it is aborted.               *)
(***************************************************************************)
Refused(i) ==
  i \in refused =>
    /\ tainted
    /\ agent = "serving"
    /\ mach[i].kind \in {"Pending", "Aborted"}
    /\ pc[i] \notin {"run", "telemetry", "taintFrame"}
    /\ pc[i] \notin Starting =>
         \A k \in 1..Len(queue[i]) : queue[i][k].type = "SetupFailed"
    /\ \A k \in 1..Len(effects[i]) : effects[i][k].type = "EmitStatus"

(***************************************************************************)
(* Why inject is started once: it is asked for by the step that leaves the *)
(* states before it, as the last effect of that step, and a replay starts  *)
(* behind it.  Inductive whatever fails.                                   *)
(***************************************************************************)
Once(i) ==
  /\ \A k \in 1..Len(effects[i]) : effects[i][k] = Invoke("Inject") =>
       /\ k = Len(effects[i]) /\ mach[i].kind = "Injecting"
       /\ i \in injected => k = 1 /\ pc[i] \in {"run", "telemetry"}
  /\ i \in injected =>
       agent = "serving" /\ pc[i] \notin Starting /\ mach[i].kind \notin PreInject
  /\ agent = "down" => pc[i] = "idle"
  /\ agent = "replay" /\ pc[i] # "idle" => mach[i].kind \in {"Recovering"} \cup Terminal

(***************************************************************************)
(* Why the agent keeps the promises of FaultLifecycle: what is reported    *)
(* follows the machine, one report at a time, and the entry of a fault     *)
(* stays on disk until the machine has left it or marked the host.         *)
(***************************************************************************)
IsReport(effect) == effect.type = "EmitStatus"

(* Recovering may follow anything: a replay starts there.                   *)
Follows(old, new) == <<old, new>> \in Lifecycle!Successor \/ new = "Recovering"

Reports(i) ==
  pc[i] \notin {"idle", "announce"} =>
    /\ \A k \in 1..Len(effects[i]) : IsReport(effects[i][k]) =>
         /\ effects[i][k].state = InstanceState(mach[i])
         /\ Follows(reported[i], effects[i][k].state)
         /\ \A n \in 1..Len(effects[i]) : IsReport(effects[i][n]) => n = k
    /\ (\A k \in 1..Len(effects[i]) : ~IsReport(effects[i][k])) =>
         reported[i] = InstanceState(mach[i])

Grounded(i) ==
  /\ mach[i].kind \in {"Injecting", "Active", "Recovering"} => i \in journal
  /\ \A k \in 1..Len(effects[i]) :
       LET effect == effects[i][k]
       IN  /\ effect.type = "WriteJournal" => mach[i].kind = "WritingJournal"
           /\ effect.type = "Invoke" /\ effect.command \in {"Abort", "Cleanup"} =>
                mach[i].kind = "Recovering"
           /\ effect.type = "MarkTainted" => k = 1 /\ i \in journal

Kept(i) == Reports(i) /\ Grounded(i)

PromiseKept == todo \subseteq journal /\ \A i \in Instance : Kept(i)
=============================================================================
