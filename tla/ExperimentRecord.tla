-------------------------- MODULE ExperimentRecord --------------------------
(***************************************************************************)
(* The master's record of one experiment and the pure decisions taken over *)
(* it: when the kill switch fires, whom it aborts, when the experiment is  *)
(* over, with what outcome and for what cause.  Constant-level operators;  *)
(* Dispatcher owns the store of records.  hosts is the target host of each *)
(* instance, in dispatch order.  Reasons and timestamps are left out.      *)
(***************************************************************************)
EXTENDS Naturals, Sequences, FiniteSetsExt

None == "None"

(* Preflight, injecting, active and recovering are all "Live" here.         *)
Terminal == {"Done", "Aborted", "Error"}
InstanceStates == {"Pending", "Live"} \cup Terminal

Concluded == {"Completed", "AbortedClean", "Failed"}
Phase == {"Running", "Halting"} \cup Concluded

Cause(host, instance, why) == [host |-> host, instance |-> instance, why |-> why]
NoCause == Cause(None, 0, None)
OperatorHalt == Cause(None, 0, "halt")

Mint(hosts) ==
  [phase   |-> "Running",
   state   |-> [i \in DOMAIN hosts |-> "Pending"],
   asked   |-> [i \in DOMAIN hosts |-> FALSE],
   tainted |-> << >>,
   cause   |-> NoCause]

IsConcluded(x) == x.phase \in Concluded
Unfinished(x) == {i \in DOMAIN x.state : x.state[i] \notin Terminal}
InState(x, s) == {i \in DOMAIN x.state : x.state[i] = s}

-----------------------------------------------------------------------------
(* Mutant: a terminal state can be overwritten.                             *)
AbsorbsNothing(x, i) == i \in DOMAIN x.state

(* A terminal instance absorbs every later report.                          *)
Accepts(x, i) == i \in DOMAIN x.state /\ x.state[i] \notin Terminal

ApplyStatus(x, i, s) == [x EXCEPT !.state[i] = s]

RecordTaint(x, host) ==
  IF host \in {x.tainted[k] : k \in DOMAIN x.tainted}
  THEN x
  ELSE [x EXCEPT !.tainted = Append(@, host)]

TaintCause(x) == Cause(x.tainted[1], 0, "taint")

(* Instances whose end the master did not ask for.                          *)
Failures(x) == InState(x, "Error") \cup {i \in InState(x, "Aborted") : ~x.asked[i]}

KillTrigger(x, hosts) ==
  IF x.phase # "Running" THEN NoCause
  ELSE IF Failures(x) # {} THEN LET i == Min(Failures(x)) IN Cause(hosts[i], i, x.state[i])
  ELSE IF x.tainted # << >> THEN TaintCause(x)
  ELSE NoCause

OutcomeOf(x) ==
  CASE Unfinished(x) # {} -> None
    [] Unfinished(x) = {} /\ (InState(x, "Error") # {} \/ x.tainted # << >>) -> "Failed"
    [] InState(x, "Done") = DOMAIN x.state /\ x.tainted = << >> -> "Completed"
    [] OTHER -> "AbortedClean"

OutcomeCause(x, hosts, outcome) ==
  LET first(s) == LET i == Min(InState(x, s)) IN Cause(hosts[i], i, s)
  IN  CASE outcome = "Completed" -> NoCause
        [] outcome = "Failed" /\ InState(x, "Error") # {} -> first("Error")
        [] outcome = "Failed" /\ InState(x, "Error") = {} -> TaintCause(x)
        [] outcome = "AbortedClean" -> first("Aborted")

ConcludeIfDone(x, hosts) ==
  LET outcome == OutcomeOf(x)
  IN  IF IsConcluded(x) \/ outcome = None THEN x
      ELSE [x EXCEPT !.phase = outcome,
                     !.cause = IF @ = NoCause THEN OutcomeCause(x, hosts, outcome) ELSE @]

(* Mutant: only what is known to run is aborted.                            *)
ToAbortStarted(x) == {i \in InState(x, "Live") : ~x.asked[i]}

(* The instances still to be aborted: unfinished and not yet asked.         *)
ToAbort(x) == {i \in Unfinished(x) : ~x.asked[i]}

(* Mutant: the last cause is kept, not the first.                           *)
FireKillSwitchForgetting(x, cause) ==
  [x EXCEPT !.phase = "Halting", !.cause = cause,
            !.asked = [i \in DOMAIN x.asked |-> x.asked[i] \/ i \in ToAbort(x)]]

FireKillSwitch(x, cause) ==
  [x EXCEPT !.phase = "Halting",
            !.cause = IF @ = NoCause THEN cause ELSE @,
            !.asked = [i \in DOMAIN x.asked |-> x.asked[i] \/ i \in ToAbort(x)]]

(* After any change: the kill switch if the record now asks for it, then    *)
(* the conclusion if every instance is terminal.                            *)
ReactToUpdate(x, hosts) ==
  LET trigger == KillTrigger(x, hosts)
      halted == IF trigger = NoCause THEN x ELSE FireKillSwitch(x, trigger)
  IN  [record |-> ConcludeIfDone(halted, hosts),
       aborts |-> IF trigger = NoCause THEN {} ELSE ToAbort(x)]

Halt(x, hosts) ==
  [record |-> ConcludeIfDone(FireKillSwitch(x, OperatorHalt), hosts), aborts |-> ToAbort(x)]

(* Mutant: the deadline aborts once more and marks nothing.                 *)
ResolveDeadlineLeniently(x, hosts) == [record |-> x, aborts |-> Unfinished(x)]

(* At the deadline every unfinished instance is put down as an error.       *)
ResolveDeadline(x, hosts) ==
  LET late == Unfinished(x)
      first == Min(late)
      marked == [x EXCEPT !.state = [i \in DOMAIN x.state |->
                                       IF i \in late THEN "Error" ELSE x.state[i]],
                          !.cause = IF @ = NoCause THEN Cause(hosts[first], first, "deadline") ELSE @]
  IN  [record |-> ConcludeIfDone(marked, hosts), aborts |-> late]
=============================================================================
