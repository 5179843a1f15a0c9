---------------------------- MODULE MachineAlone ----------------------------
(***************************************************************************)
(* The instance machine driven by a confused shell: any event, at any      *)
(* time, in any state.  step is total over all such pairs and promises     *)
(* that no sequence of events can crash an instance out of supervision;    *)
(* this module says what else no sequence of events can make it do.        *)
(***************************************************************************)
EXTENDS InstanceMachine, Naturals

VARIABLES
  st,        \* the machine state
  entry,     \* is a journal entry outstanding, by the effects and their results?
  injects,   \* how often the machine asked for inject
  effected,  \* what inject did to the host, as far as its result tells
  restored,  \* has cleanup succeeded since?
  gaveUp,    \* has the machine asked for quarantine?
  first,     \* the first stop delivered before recovery began
  escalated  \* was a dead-man stop delivered during recovery?

vars == <<st, entry, injects, effected, restored, gaveUp, first, escalated>>

TypeOK ==
  /\ st \in MachineState
  /\ {entry, restored, gaveUp, escalated} \subseteq BOOLEAN
  /\ injects \in 0..1
  /\ effected \in {"nothing", "fault", "unknown"}
  /\ first \in StopCause \cup {None}

Init ==
  /\ st = Plain("Pending", None)
  /\ entry = FALSE
  /\ injects = 0
  /\ effected = "nothing"
  /\ restored = FALSE
  /\ gaveUp = FALSE
  /\ first = None
  /\ escalated = FALSE

Requests(effects, effect) == \E k \in 1..Len(effects) : effects[k] = effect
Tally(effects, effect) == IF Requests(effects, effect) THEN 1 ELSE 0

(* What the result of inject says of the host.                              *)
Effected(ev) ==
  CASE Succeeded(ev, "Inject") -> "fault"
    [] ev.type = "CommandFinished" /\ ev.command = "Inject"
         /\ ev.disposition \notin {"Success", "InjectFailed"} -> "unknown"
    [] ev.type = "InvocationFailed" -> "unknown"
    [] OTHER -> effected

Feed(ev) ==
  LET r == Step(st, ev)
      stopped == ev.type = "StopRequested"
  IN  /\ st' = r.state
      /\ entry' = ((entry \/ (st.kind = "WritingJournal" /\ ev.type = "JournalWritten"))
                      /\ ~Requests(r.effects, RemoveJournal))
      /\ injects' = injects + Tally(r.effects, Invoke("Inject"))
      /\ effected' = IF st.kind = "Injecting" THEN Effected(ev) ELSE effected
      /\ restored' = (restored \/ (st.kind = "Recovering" /\ st.current = "Cleanup"
                                    /\ Succeeded(ev, "Cleanup")))
      /\ gaveUp' = (gaveUp \/ Requests(r.effects, MarkTainted))
      /\ first' = IF stopped /\ first = None /\ st.kind \notin {"Recovering"} \cup Terminal
                  THEN ev.cause ELSE first
      /\ escalated' = (escalated \/ (stopped /\ ev.cause = "Deadman" /\ st.kind = "Recovering"))

Next == \E ev \in Event : Feed(ev)

Spec == Init /\ [][Next]_vars

-----------------------------------------------------------------------------
(* A finished instance owes nothing: its journal entry has been dropped,    *)
(* and if inject may have touched the host then cleanup has succeeded or    *)
(* the machine has asked for quarantine.  About: the exits of               *)
(* step_writing_journal, step_injecting and step_recovering.                *)
EndsSettled ==
  IsTerminal(st) => ~entry /\ (effected = "nothing" \/ restored \/ gaveUp)

(* The same, with every variable in its range: inject is asked for once.    *)
MachineSound == TypeOK /\ EndsSettled

(* The end says why: Done only for an elapsed duration, Aborted of a live   *)
(* fault only for an operator abort or a lost master, both only if no       *)
(* dead-man interfered; Error needs a dead-man, an ambiguous inject or a    *)
(* failed recovery.  About: stop.or(Some(cause)), StopCause::outcome and    *)
(* the escalation in step_recovering.                                       *)
OutcomeFollowsCause ==
  /\ st.kind = "Done" => first = "DurationElapsed" /\ ~escalated
  /\ st.kind = "Aborted" /\ effected # "nothing" =>
       first \in {"OperatorAbort", "MasterLost"} /\ ~escalated
  /\ st.kind = "Error" => gaveUp \/ escalated \/ effected = "unknown" \/ first = "Deadman"

(* Inject is asked for only with an entry outstanding, and never once a     *)
(* stop was delivered.  About: step_preflight and step_writing_journal.     *)
InjectsJournaled ==
  [][injects' > injects => entry' /\ first = None]_vars
=============================================================================
