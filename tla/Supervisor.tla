----------------------------- MODULE Supervisor -----------------------------
(***************************************************************************)
(* The agent process of one host: the supervisor, one task per fault       *)
(* instance, the plugin processes the tasks run, and what outlives the     *)
(* process (the journal, the taint record, the faults on the host).  The   *)
(* machine inside each task is InstanceMachine!Step.                       *)
(*                                                                         *)
(* The outbound channel is its fill level; time is the freedom of a timer  *)
(* to fire; a plugin keeps the exit-code contract (exit 0 of a recovery    *)
(* command and exit 20 of inject mean the host is clean).                  *)
(***************************************************************************)
EXTENDS InstanceMachine, Integers, FiniteSets

CONSTANTS
  Instance,       \* instance ids the master uses
  Clear,          \* ClearTaint commands the operator may issue
  OutCap,         \* capacity of the outbound channel (256 in the code)
  MaxLines,       \* bound: telemetry lines of one invocation
  MaxStops,       \* bound: stop requests waiting for one task
  MaxRuns,        \* bound: RunFault frames delivered per id
  MaxCrashes,     \* bound: crashes of the agent process
  OrphansSurvive, \* may a plugin process outlive the agent that spawned it?
  MarkMayFail,    \* may writing the taint record fail?
  ListMayFail     \* may listing the journal directory fail?

ASSUME BoundsAssumption ==
  /\ OutCap \in Nat \ {0}
  /\ {MaxLines, MaxStops, MaxRuns, MaxCrashes} \subseteq Nat
  /\ {OrphansSurvive, MarkMayFail, ListMayFail} \subseteq BOOLEAN

VARIABLES
  agent,     \* "down", "replay" (before the first session) or "serving"
  todo,      \* journaled instances the restarted agent has yet to replay
  pc,        \* where the task of each instance stands; "idle" = not in the instances map
  mach,      \* the machine state of each task
  queue,     \* the event queue of each task
  effects,   \* the effects the task has still to perform, the head being under way
  lines,     \* telemetry lines of the finished invocation still to be sent
  stopRx,    \* operator aborts waiting in the stop channel of each task
  clear,     \* progress of each ClearTaint task
  connected, \* does the agent hold a registered session?
  out,       \* frames waiting in the outbound channel
  journal,   \* instances with an entry on disk
  tainted,   \* is there a taint record on disk?
  live,      \* instances whose fault is in effect on the host
  orphans,   \* <<instance, command>> of plugin processes that outlived the agent
  runs, crashes, \* deliveries and crashes so far, against their bounds
  reported,  \* the last status queued for the master (history)
  injected,  \* instances whose inject was started by this process (history)
  marked,    \* instances whose failed recovery was recorded as taint (history)
  refused    \* instances ordered while the host was tainted (history)

taskVars == <<pc, mach, queue, effects, lines, stopRx>>
diskVars == <<journal, tainted>>
sessionVars == <<connected, out>>
boundVars == <<runs, crashes>>
historyVars == <<reported, injected, marked, refused>>
vars == <<agent, todo, taskVars, clear, sessionVars, diskVars, live, orphans,
          boundVars, historyVars>>

PC == {"idle", "announce", "setup", "loop", "apply", "run", "telemetry", "taintFrame", "done"}
Fresh == Plain("Pending", None)
IsStop(ev) == ev.type = "StopRequested"

TypeOK ==
  /\ agent \in {"down", "replay", "serving"}
  /\ todo \subseteq Instance
  /\ pc \in [Instance -> PC]
  /\ mach \in [Instance -> MachineState]
  /\ queue \in [Instance -> Seq(Event)]
  /\ effects \in [Instance -> Seq(Effect)]
  /\ lines \in [Instance -> 0..MaxLines]
  /\ stopRx \in [Instance -> 0..MaxStops]
  /\ clear \in [Clear -> {"unsent", "remove", "send", "done"}]
  /\ connected \in BOOLEAN
  /\ out \in 0..OutCap
  /\ journal \subseteq Instance
  /\ tainted \in BOOLEAN
  /\ live \subseteq Instance
  /\ orphans \subseteq Instance \X Command
  /\ runs \in [Instance -> 0..MaxRuns]
  /\ crashes \in 0..MaxCrashes
  /\ reported \in [Instance -> WireState \cup {None}]
  /\ injected \subseteq Instance
  /\ marked \subseteq Instance
  /\ refused \subseteq Instance

Init ==
  /\ agent = "down"
  /\ todo = {}
  /\ pc = [i \in Instance |-> "idle"]
  /\ mach = [i \in Instance |-> Fresh]
  /\ queue = [i \in Instance |-> << >>]
  /\ effects = [i \in Instance |-> << >>]
  /\ lines = [i \in Instance |-> 0]
  /\ stopRx = [i \in Instance |-> 0]
  /\ clear = [c \in Clear |-> "unsent"]
  /\ connected = FALSE
  /\ out = 0
  /\ journal = {}
  /\ tainted = FALSE
  /\ live = {}
  /\ orphans = {}
  /\ runs = [i \in Instance |-> 0]
  /\ crashes = 0
  /\ reported = [i \in Instance |-> None]
  /\ injected = {}
  /\ marked = {}
  /\ refused = {}

-----------------------------------------------------------------------------
(***************************************************************************)
(* Frames from the master.                                                 *)
(***************************************************************************)

(* Mutant: a duplicate is spawned again.                                    *)
RunFaultAgain(i) ==
  /\ agent = "serving"
  /\ connected
  /\ runs[i] < MaxRuns
  /\ runs' = [runs EXCEPT ![i] = @ + 1]
  /\ pc' = [pc EXCEPT ![i] = "announce"]
  /\ mach' = [mach EXCEPT ![i] = Fresh]
  /\ queue' = [queue EXCEPT ![i] = << >>]
  /\ effects' = [effects EXCEPT ![i] = << >>]
  /\ lines' = [lines EXCEPT ![i] = 0]
  /\ stopRx' = [stopRx EXCEPT ![i] = 0]
  /\ UNCHANGED <<agent, todo, clear, sessionVars, diskVars, live, orphans, crashes,
                 historyVars>>

(* A known id, running or finished, drops a duplicate.                      *)
RunFault(i) ==
  /\ agent = "serving"
  /\ connected
  /\ runs[i] < MaxRuns
  /\ runs' = [runs EXCEPT ![i] = @ + 1]
  /\ IF pc[i] = "idle"
     THEN /\ pc' = [pc EXCEPT ![i] = "announce"]
          /\ refused' = IF tainted THEN refused \cup {i} ELSE refused
     ELSE UNCHANGED <<pc, refused>>
  /\ UNCHANGED <<agent, todo, mach, queue, effects, lines, stopRx, clear, sessionVars,
                 diskVars, live, orphans, crashes, reported, injected, marked>>

StopsQueued(i) == {k \in 1..Len(queue[i]) : IsStop(queue[i][k])}

(* An abort for an id that is unknown, or whose task has ended, changes nothing. *)
AbortFault(i) ==
  /\ agent = "serving"
  /\ connected
  /\ pc[i] \notin {"idle", "done"}
  /\ stopRx[i] + Cardinality(StopsQueued(i)) < MaxStops
  /\ stopRx' = [stopRx EXCEPT ![i] = @ + 1]
  /\ UNCHANGED <<agent, todo, pc, mach, queue, effects, lines, clear, sessionVars,
                 diskVars, live, orphans, boundVars, historyVars>>

ClearTaint(c) ==
  /\ agent = "serving"
  /\ connected
  /\ clear[c] = "unsent"
  /\ clear' = [clear EXCEPT ![c] = "remove"]
  /\ UNCHANGED <<agent, todo, taskVars, sessionVars, diskVars, live, orphans,
                 boundVars, historyVars>>

(* The removal may fail, and then the record stays.                        *)
ClearRemove(c) ==
  /\ clear[c] = "remove"
  /\ clear' = [clear EXCEPT ![c] = "send"]
  /\ \/ tainted' = FALSE /\ refused' = {}
     \/ UNCHANGED <<tainted, refused>>
  /\ UNCHANGED <<agent, todo, taskVars, sessionVars, journal, live, orphans,
                 boundVars, reported, injected, marked>>

ClearSend(c) ==
  /\ clear[c] = "send"
  /\ out < OutCap
  /\ out' = out + 1
  /\ clear' = [clear EXCEPT ![c] = "done"]
  /\ UNCHANGED <<agent, todo, taskVars, connected, diskVars, live, orphans,
                 boundVars, historyVars>>

-----------------------------------------------------------------------------
(***************************************************************************)
(* The instance task up to its event loop.                                 *)
(***************************************************************************)

(* Frames of a running agent wait for room in the channel; replay collects *)
(* its frames in memory.                                                   *)
Queued == IF agent = "replay" THEN UNCHANGED out ELSE out < OutCap /\ out' = out + 1

Announce(i) ==
  /\ pc[i] = "announce"
  /\ Queued
  /\ reported' = [reported EXCEPT ![i] = "Pending"]
  /\ pc' = [pc EXCEPT ![i] = "setup"]
  /\ UNCHANGED <<agent, todo, mach, queue, effects, lines, stopRx, clear, connected,
                 diskVars, live, orphans, boundVars, injected, marked, refused>>

(* Mutant: the taint record is not consulted.                               *)
SetupUnchecked(i) ==
  /\ pc[i] = "setup"
  /\ \E result \in {"SetupOk", "SetupFailed"} :
       queue' = [queue EXCEPT ![i] = <<Plainly(result)>>]
  /\ pc' = [pc EXCEPT ![i] = "loop"]
  /\ UNCHANGED <<agent, todo, mach, effects, lines, stopRx, clear, sessionVars,
                 diskVars, live, orphans, boundVars, historyVars>>

(* The taint record is read once, here; the other checks may fail too.      *)
Setup(i) ==
  /\ pc[i] = "setup"
  /\ \E result \in {"SetupOk", "SetupFailed"} :
       /\ tainted => result = "SetupFailed"
       /\ queue' = [queue EXCEPT ![i] = <<Plainly(result)>>]
  /\ pc' = [pc EXCEPT ![i] = "loop"]
  /\ UNCHANGED <<agent, todo, mach, effects, lines, stopRx, clear, sessionVars,
                 diskVars, live, orphans, boundVars, historyVars>>

-----------------------------------------------------------------------------
(***************************************************************************)
(* The event loop: one event through the machine, then its effects in      *)
(* order.                                                                  *)
(***************************************************************************)
Advance(i, ev) ==
  LET r == Step(mach[i], ev)
  IN  /\ mach' = [mach EXCEPT ![i] = r.state]
      /\ effects' = [effects EXCEPT ![i] = r.effects]
      /\ pc' = [pc EXCEPT ![i] = IF r.effects = << >> THEN "loop" ELSE "apply"]

TakeEvent(i) ==
  /\ pc[i] = "loop"
  /\ queue[i] # << >>
  /\ Advance(i, Head(queue[i]))
  /\ queue' = [queue EXCEPT ![i] = Tail(@)]
  /\ UNCHANGED <<agent, todo, lines, stopRx, clear, sessionVars, diskVars, live,
                 orphans, boundVars, historyVars>>

Waiting(i) == pc[i] = "loop" /\ queue[i] = << >> /\ mach[i].kind = "Active"

(* A timer of the safety clock; silence counts only while disconnected.     *)
TimerFires(i, cause) ==
  /\ Waiting(i)
  /\ cause = "MasterLost" => ~connected
  /\ Advance(i, StopRequested(cause))
  /\ UNCHANGED <<agent, todo, queue, lines, stopRx, clear, sessionVars, diskVars, live,
                 orphans, boundVars, historyVars>>

OperatorStops(i) ==
  /\ Waiting(i)
  /\ stopRx[i] > 0
  /\ stopRx' = [stopRx EXCEPT ![i] = @ - 1]
  /\ Advance(i, StopRequested("OperatorAbort"))
  /\ UNCHANGED <<agent, todo, queue, lines, clear, sessionVars, diskVars, live,
                 orphans, boundVars, historyVars>>

(* The handle of a finished instance is kept; a replayed entry has none.    *)
Finish(i) ==
  /\ pc[i] = "loop"
  /\ queue[i] = << >>
  /\ IsTerminal(mach[i])
  /\ IF agent = "replay"
     THEN /\ pc' = [pc EXCEPT ![i] = "idle"]
          /\ mach' = [mach EXCEPT ![i] = Fresh]
     ELSE /\ pc' = [pc EXCEPT ![i] = "done"]
          /\ UNCHANGED mach
  /\ UNCHANGED <<agent, todo, queue, effects, lines, stopRx, clear, sessionVars,
                 diskVars, live, orphans, boundVars, historyVars>>

-----------------------------------------------------------------------------
(***************************************************************************)
(* Effects.                                                                *)
(***************************************************************************)
Performs(i, type) ==
  /\ pc[i] = "apply"
  /\ effects[i] # << >>
  /\ Head(effects[i]).type = type

(* The head effect is done; its result, if any, joins the queue.            *)
EffectDone(i) ==
  /\ effects' = [effects EXCEPT ![i] = Tail(@)]
  /\ pc' = [pc EXCEPT ![i] = IF Tail(effects[i]) = << >> THEN "loop" ELSE "apply"]

Result(i, ev) == queue' = [queue EXCEPT ![i] = Append(@, ev)]

DoEmitStatus(i) ==
  /\ Performs(i, "EmitStatus")
  /\ Queued
  /\ reported' = [reported EXCEPT ![i] = Head(effects[i]).state]
  /\ EffectDone(i)
  /\ UNCHANGED <<agent, todo, mach, queue, lines, stopRx, clear, connected, diskVars,
                 live, orphans, boundVars, injected, marked, refused>>

DoWriteJournal(i) ==
  /\ Performs(i, "WriteJournal")
  /\ \/ journal' = journal \cup {i} /\ Result(i, Plainly("JournalWritten"))
     \/ UNCHANGED journal /\ Result(i, Plainly("JournalWriteFailed"))
  /\ EffectDone(i)
  /\ UNCHANGED <<agent, todo, mach, lines, stopRx, clear, sessionVars, tainted, live,
                 orphans, boundVars, historyVars>>

(* A failed removal is logged and leaves a stale entry.                     *)
DoRemoveJournal(i) ==
  /\ Performs(i, "RemoveJournal")
  /\ journal' \in {journal, journal \ {i}}
  /\ EffectDone(i)
  /\ UNCHANGED <<agent, todo, mach, queue, lines, stopRx, clear, sessionVars, tainted,
                 live, orphans, boundVars, historyVars>>

(* Writing the record may fail; the task goes on all the same.              *)
Quarantine(i) ==
  \/ tainted' = TRUE /\ marked' = marked \cup {i}
  \/ MarkMayFail /\ ~tainted /\ UNCHANGED <<tainted, marked>>

DoMarkTainted(i) ==
  /\ Performs(i, "MarkTainted")
  /\ Quarantine(i)
  /\ IF agent = "replay"
     THEN EffectDone(i)
     ELSE /\ pc' = [pc EXCEPT ![i] = "taintFrame"]
          /\ UNCHANGED effects
  /\ UNCHANGED <<agent, todo, mach, queue, lines, stopRx, clear, sessionVars, journal,
                 live, orphans, boundVars, reported, injected, refused>>

SendTaintFrame(i) ==
  /\ pc[i] = "taintFrame"
  /\ Queued
  /\ EffectDone(i)
  /\ UNCHANGED <<agent, todo, mach, queue, lines, stopRx, clear, connected, diskVars,
                 live, orphans, boundVars, historyVars>>

-----------------------------------------------------------------------------
(***************************************************************************)
(* Plugin invocations.                                                     *)
(***************************************************************************)
Running(i) == Head(effects[i]).command

(* The digest gate refuses the plugin, or the process cannot be spawned.    *)
InvokeNotStarted(i) ==
  /\ Performs(i, "Invoke")
  /\ \E ev \in {InvokeRejected(Running(i)), InvocationFailed(Running(i))} : Result(i, ev)
  /\ EffectDone(i)
  /\ UNCHANGED <<agent, todo, mach, lines, stopRx, clear, sessionVars, diskVars, live,
                 orphans, boundVars, historyVars>>

StartInvoke(i) ==
  /\ Performs(i, "Invoke")
  /\ pc' = [pc EXCEPT ![i] = "run"]
  /\ injected' = IF Running(i) = "Inject" THEN injected \cup {i} ELSE injected
  /\ UNCHANGED <<agent, todo, mach, queue, effects, lines, stopRx, clear, sessionVars,
                 diskVars, live, orphans, boundVars, reported, marked, refused>>

(* Operator aborts that arrive meanwhile go to the front of the queue.      *)
StopDuringRun(i) ==
  /\ pc[i] = "run"
  /\ stopRx[i] > 0
  /\ stopRx' = [stopRx EXCEPT ![i] = @ - 1]
  /\ queue' = [queue EXCEPT ![i] = <<StopRequested("OperatorAbort")>> \o @]
  /\ UNCHANGED <<agent, todo, pc, mach, effects, lines, clear, sessionVars, diskVars,
                 live, orphans, boundVars, historyVars>>

(* What a command does to the host, at some moment of its run.              *)
LiveAfter(i, command) ==
  CASE command = "Inject" -> live \cup {i}
    [] command \in {"Abort", "Cleanup"} -> live \ {i}
    [] OTHER -> live

PluginActs(i) ==
  /\ pc[i] = "run"
  /\ live' = LiveAfter(i, Running(i))
  /\ live' # live
  /\ UNCHANGED <<agent, todo, taskVars, clear, sessionVars, diskVars, orphans,
                 boundVars, historyVars>>

(* The results an honest plugin can end with; a timeout or a signal is an   *)
(* InvocationFailed and says nothing about the host.                        *)
Honest(i, command, disposition) ==
  /\ disposition = "Success" /\ command = "Inject" => i \in live
  /\ disposition = "InjectFailed" /\ command = "Inject" => i \notin live
  /\ disposition = "Success" /\ command \in {"Abort", "Cleanup"} => i \notin live

ProcessResults(i) ==
  {InvocationFailed(Running(i))} \cup
  {CommandFinished(Running(i), d) : d \in {x \in Disposition : Honest(i, Running(i), x)}}

ProcessEnds(i) ==
  /\ pc[i] = "run"
  /\ \E ev \in ProcessResults(i) : Result(i, ev)
  /\ \E n \in 0..MaxLines :
       /\ agent = "replay" => n = 0
       /\ lines' = [lines EXCEPT ![i] = n]
       /\ IF n = 0
          THEN EffectDone(i)
          ELSE /\ pc' = [pc EXCEPT ![i] = "telemetry"]
               /\ UNCHANGED effects
  /\ UNCHANGED <<agent, todo, mach, stopRx, clear, sessionVars, diskVars, live, orphans,
                 boundVars, historyVars>>

ForwardLine(i) ==
  /\ pc[i] = "telemetry"
  /\ Queued
  /\ lines' = [lines EXCEPT ![i] = @ - 1]
  /\ IF lines[i] = 1 THEN EffectDone(i) ELSE UNCHANGED <<pc, effects>>
  /\ UNCHANGED <<agent, todo, mach, queue, stopRx, clear, connected, diskVars, live,
                 orphans, boundVars, historyVars>>

OrphanActs(i, command) ==
  /\ <<i, command>> \in orphans
  /\ live' = LiveAfter(i, command)
  /\ orphans' = orphans \ {<<i, command>>}
  /\ UNCHANGED <<agent, todo, taskVars, clear, sessionVars, diskVars, boundVars,
                 historyVars>>

-----------------------------------------------------------------------------
(***************************************************************************)
(* The session, as far as the supervisor sees it.                          *)
(***************************************************************************)
Connect ==
  /\ agent = "serving"
  /\ ~connected
  /\ connected' = TRUE
  /\ UNCHANGED <<agent, todo, taskVars, clear, out, diskVars, live, orphans, boundVars,
                 historyVars>>

Disconnect ==
  /\ connected
  /\ connected' = FALSE
  /\ UNCHANGED <<agent, todo, taskVars, clear, out, diskVars, live, orphans, boundVars,
                 historyVars>>

(* Only a session takes frames out of the channel.                          *)
Drain ==
  /\ connected
  /\ out > 0
  /\ out' = out - 1
  /\ UNCHANGED <<agent, todo, taskVars, clear, connected, diskVars, live, orphans,
                 boundVars, historyVars>>

-----------------------------------------------------------------------------
(***************************************************************************)
(* Crash, restart and replay.                                              *)
(***************************************************************************)
Crash ==
  /\ agent # "down"
  /\ crashes < MaxCrashes
  /\ crashes' = crashes + 1
  /\ agent' = "down"
  /\ todo' = {}
  /\ pc' = [i \in Instance |-> "idle"]
  /\ mach' = [i \in Instance |-> Fresh]
  /\ queue' = [i \in Instance |-> << >>]
  /\ effects' = [i \in Instance |-> << >>]
  /\ lines' = [i \in Instance |-> 0]
  /\ stopRx' = [i \in Instance |-> 0]
  /\ clear' = [c \in Clear |-> IF clear[c] = "unsent" THEN "unsent" ELSE "done"]
  /\ connected' = FALSE
  /\ out' = 0
  /\ orphans' = IF OrphansSurvive
                THEN orphans \cup {<<i, Running(i)>> : i \in {j \in Instance : pc[j] = "run"}}
                ELSE orphans
  /\ injected' = {}
  /\ refused' = {}
  /\ UNCHANGED <<diskVars, live, runs, reported, marked>>

(* Mutant: the journal is not read.                                         *)
RestartAfresh ==
  /\ agent = "down"
  /\ agent' = "replay"
  /\ UNCHANGED <<todo, taskVars, clear, sessionVars, diskVars, live, orphans, boundVars,
                 historyVars>>

Restart ==
  /\ agent = "down"
  /\ agent' = "replay"
  /\ todo' \in {journal} \cup (IF ListMayFail THEN {{}} ELSE {})
  /\ UNCHANGED <<taskVars, clear, sessionVars, diskVars, live, orphans, boundVars,
                 historyVars>>

Between == agent = "replay" /\ \A i \in Instance : pc[i] = "idle"

(* Aborted before the dead-man deadline, Error past it.                     *)
ReplayEntry(i) ==
  /\ Between
  /\ i \in todo
  /\ todo' = todo \ {i}
  /\ \E outcome \in {"Aborted", "Error"} :
       LET r == ReplayRecovery(outcome)
       IN  /\ mach' = [mach EXCEPT ![i] = r.state]
           /\ effects' = [effects EXCEPT ![i] = r.effects]
  /\ pc' = [pc EXCEPT ![i] = "apply"]
  /\ UNCHANGED <<agent, queue, lines, stopRx, clear, sessionVars, diskVars, live, orphans,
                 boundVars, historyVars>>

(* An entry that cannot be read quarantines the host and stays on disk.     *)
ReplayUnreadable(i) ==
  /\ Between
  /\ i \in todo
  /\ todo' = todo \ {i}
  /\ Quarantine(i)
  /\ UNCHANGED <<agent, taskVars, clear, sessionVars, journal, live, orphans, boundVars,
                 reported, injected, refused>>

Serve ==
  /\ Between
  /\ todo = {}
  /\ agent' = "serving"
  /\ UNCHANGED <<todo, taskVars, clear, sessionVars, diskVars, live, orphans, boundVars,
                 historyVars>>

-----------------------------------------------------------------------------
Task(i) ==
  \/ Announce(i) \/ Setup(i) \/ TakeEvent(i) \/ OperatorStops(i) \/ Finish(i)
  \/ DoEmitStatus(i) \/ DoWriteJournal(i) \/ DoRemoveJournal(i)
  \/ DoMarkTainted(i) \/ SendTaintFrame(i)
  \/ InvokeNotStarted(i) \/ StartInvoke(i) \/ StopDuringRun(i) \/ ForwardLine(i)
  \/ \E cause \in StopCause \ {"OperatorAbort"} : TimerFires(i, cause)

ClearTask(c) == ClearRemove(c) \/ ClearSend(c)

Startup ==
  \/ Serve
  \/ \E i \in Instance : ReplayEntry(i) \/ ReplayUnreadable(i)

Next ==
  \/ \E i \in Instance :
       RunFault(i) \/ AbortFault(i) \/ Task(i) \/ PluginActs(i) \/ ProcessEnds(i)
  \/ \E c \in Clear : ClearTaint(c) \/ ClearTask(c)
  \/ \E i \in Instance, command \in Command : OrphanActs(i, command)
  \/ Connect \/ Disconnect \/ Drain
  \/ Crash \/ Restart \/ Startup

Spec == Init /\ [][Next]_vars

(***************************************************************************)
(* Fairness: the runtime polls every task, a plugin process is killed at   *)
(* its invocation timeout, blocking calls return, the host restarts a dead *)
(* agent.  Nothing is assumed of the master or the operator.               *)
(***************************************************************************)
Fairness ==
  /\ \A i \in Instance : WF_vars(Task(i)) /\ WF_vars(ProcessEnds(i))
  /\ \A c \in Clear : WF_vars(ClearTask(c))
  /\ WF_vars(Restart) /\ WF_vars(Startup)

OfflineSpec == Spec /\ Fairness

(* The agent retries its connection for ever; here the master is reachable  *)
(* again and again, long enough for a frame to leave.                       *)
FairSpec == OfflineSpec /\ WF_vars(Connect) /\ SF_vars(Drain)

-----------------------------------------------------------------------------
(***************************************************************************)
(* Safety.                                                                 *)
(***************************************************************************)

(* No fault is stranded: a fault in effect on the host has a journal entry  *)
(* a restart will replay, or its failed recovery has quarantined the host.  *)
(* About: journal before inject, removal only after recovery or taint, at   *)
(* every point the agent can crash (step, apply_effect, replay_journal).    *)
NoStrandedFault == live \subseteq journal \cup marked

(* As long as no ClearTaint was issued, a fault with no journal entry left  *)
(* finds the host tainted now, across crashes and whatever other instances  *)
(* do.  About: mark_tainted before remove, and a record nothing else clears.*)
QuarantineHolds == tainted \/ live \subseteq journal

(* An instance reported Done or Aborted has left the host as it found it,   *)
(* unless an earlier run of the same id ended in quarantine.  About: the    *)
(* outcomes step_injecting and step_recovering choose.                      *)
CleanOutcome ==
  \A i \in Instance : reported[i] \in {"Done", "Aborted"} /\ i \notin marked => i \notin live

(* Every state the loop finds without an event is Active or terminal: the   *)
(* "machine/shell mismatch" branch of run_instance is never taken.          *)
NeverWedged ==
  \A i \in Instance :
    pc[i] = "loop" /\ queue[i] = << >> => mach[i].kind \in {"Active"} \cup Terminal

(* No task stands still with nothing to wait for, and meanwhile counters,   *)
(* channel, journal and machines stay in their ranges: what makes run_      *)
(* instance, replay_journal and send_out go on from wherever they are.      *)
SupervisorSound == TypeOK /\ NeverWedged

(* A fault ordered while the host is tainted runs no plugin command, as     *)
(* long as no ClearTaint intervenes.  About: the taint check of setup.      *)
TaintRefuses ==
  \A i \in refused : mach[i].kind \in {"Pending", "Aborted"}

(* One agent process starts inject at most once for an id, however many     *)
(* RunFault frames arrive.  About: handle_run_fault and the retry rule.     *)
InjectsOnce ==
  [][\A i \in injected : ~(StartInvoke(i) /\ Running(i) = "Inject")]_vars

(***************************************************************************)
(* Liveness.                                                               *)
(***************************************************************************)

(* Every fault is eventually lifted or the host quarantined for it.  About: *)
(* the safety timers, recovery with its retry, and replay after a crash.    *)
FaultsAreLifted ==
  \A i \in Instance : i \in live ~> (i \notin live \/ i \in marked)

(* Every accepted instance reaches a terminal status or the agent crashes.  *)
(* About: run_instance and the bounded outbound channel it waits on.        *)
AcceptedConcludes ==
  \A i \in Instance : pc[i] = "announce" ~> (reported[i] \in Terminal \/ agent = "down")

-----------------------------------------------------------------------------
(***************************************************************************)
(* The supervisor keeps the promises of FaultLifecycle: statuses follow    *)
(* the lifecycle graph, a fault goes live only while journaled, an entry   *)
(* is discharged only when its fault is lifted or given up, and Done,      *)
(* Aborted and Error are reported only then - across crashes and replay.   *)
(***************************************************************************)
Lifecycle == INSTANCE FaultLifecycle
               WITH status <- reported, owed <- journal, gaveUp <- marked,
                    quarantined <- tainted

KeepsLifecycle == Lifecycle!Spec

(* An active fault whose agent loses the master is lifted without the       *)
(* master coming back.  About: wait_for_stop and the effects that follow.   *)
SelfAborts ==
  \A i \in Instance :
    (mach[i].kind = "Active" /\ ~connected)
      ~> (connected \/ agent = "down" \/ i \notin live \/ i \in marked)
=============================================================================
