------------------------------ MODULE Console -------------------------------
(***************************************************************************)
(* One faultforge process of an operator, against a master that goes on    *)
(* meanwhile: a one-shot command, which ends with an exit code scripts     *)
(* rely on, or the interactive fleet view, an event loop over one inbox    *)
(* fed by the keyboard and by fetches that may overlap.                    *)
(***************************************************************************)
EXTENDS Management

CONSTANTS
  MaxKeys      \* bound: keys pressed in the fleet view

ASSUME ConsoleAssumption == MaxKeys \in Nat /\ IsFiniteSet(Host)

VARIABLES
  command,   \* what the process was started for
  at,        \* where it stands
  code,      \* its exit code, once it exited
  excuse,    \* what went wrong on the operator's side of the API (history)
  steady,    \* what the master has held ever since the start (history)
  shown,     \* the fleet on the screen
  selected,  \* the selected row
  loading,   \* does the model say that a fetch is in flight?
  error,     \* does the screen show an error?
  inbox,     \* messages the event loop has not taken yet
  fetch,     \* fetches in flight, and what the master answered them
  keys,      \* keys pressed so far
  forced     \* fetches forced with r (history)

cliVars == <<command, at, code, excuse, steady>>
tuiVars == <<shown, selected, loading, error, inbox, fetch, keys, forced>>
vars == <<planeVars, cliVars, tuiVars>>

Command == {"run", "wait", "experiment", "halt", "agent", "clear", "list"}

EXIT_OK == 0
EXIT_ERROR == 1
EXIT_NOT_FOUND == 2
EXIT_VALIDATION == 3
EXIT_EXPERIMENT_ABORTED == 4
EXIT_EXPERIMENT_ERROR == 5

FetchId == 1..(MaxKeys + 2)
Screen == [Host -> {"absent", "clean", "tainted"}]
EmptyScreen == [h \in Host |-> "absent"]
Fetch(stage, screen) == [stage |-> stage, fleet |-> screen]
Idle == Fetch("idle", EmptyScreen)
Rows(screen) == Cardinality({h \in Host : screen[h] # "absent"})

Key(k) == [msg |-> "Key", key |-> k]
Loaded(screen) == [msg |-> "AgentsLoaded", fleet |-> screen]
Failed == [msg |-> "AgentsFailed"]
Message == {Failed} \cup {Key(k) : k \in {"r", "up", "down", "q"}} \cup {Loaded(s) : s \in Screen}

TypeOK ==
  /\ PlaneTypeOK
  /\ command \in Command \cup {None, "tui"}
  /\ at \in {"start", "asking", "polling", "sleeping", "printing", "loop", "exited"}
  /\ code \in EXIT_OK..EXIT_EXPERIMENT_ERROR
  /\ shown \in Screen /\ selected \in 0..Cardinality(Host)
  /\ {loading, error} \subseteq BOOLEAN
  /\ \A k \in DOMAIN inbox : inbox[k] \in Message
  /\ fetch \in [FetchId -> [stage : {"idle", "asked", "answered"}, fleet : Screen]]
  /\ keys \in 0..MaxKeys /\ forced \in 0..MaxKeys

Init ==
  /\ PlaneInit
  /\ command = None /\ at = "start" /\ code = EXIT_OK /\ excuse = {} /\ steady = {}
  /\ shown = EmptyScreen /\ selected = 0 /\ loading = FALSE /\ error = FALSE
  /\ inbox = << >> /\ fetch = [k \in FetchId |-> Idle] /\ keys = 0 /\ forced = 0

-----------------------------------------------------------------------------
(***************************************************************************)
(* The one-shot command.                                                   *)
(***************************************************************************)
Exit(c) == at' = "exited" /\ code' = c
Blame(what) == excuse' = excuse \cup {what}

HeldNow ==
  {w \in {"record", "agent", "session"} :
     \/ w = "record" /\ Held
     \/ w = "agent" /\ Target[1] \in agents
     \/ w = "session" /\ Target[1] \in online}

(* A master URL or a definition file that cannot be read, or no terminal.   *)
Misused ==
  /\ at = "start" /\ Exit(EXIT_ERROR) /\ Blame("input")
  /\ command' \in Command \cup {"tui"}
  /\ UNCHANGED <<planeVars, steady, tuiVars>>

Give(c) ==
  /\ at = "start" /\ at' = "asking" /\ command' = c /\ steady' = HeldNow
  /\ request' = Asked(IF c = "wait" THEN "run" ELSE c)
  /\ UNCHANGED <<storeVars, fleetVars, trouble, code, excuse, tuiVars>>

(* Connection refused, timeout, broken stream, an answer that cannot be     *)
(* used: the process ends, and the master may have acted or yet act.        *)
(* A request whose handler the master took with it fails in any case.       *)
RequestFails ==
  /\ at \in {"asking", "polling"}
  /\ Troubled \/ (request = NoRequest /\ UNCHANGED trouble)
  /\ Exit(EXIT_ERROR) /\ Blame("transport")
  /\ UNCHANGED <<storeVars, fleetVars, request, command, steady, tuiVars>>

Abandoned == at = "exited" /\ Drop /\ UNCHANGED <<cliVars, tuiVars>>

Answered == request.stage = "answered"
Got(status) == Answered /\ request.reply.status = status

(* A record is printed, and a wait ends with the outcome it carries.        *)
Present ==
  /\ at = "asking" /\ (Got(200) \/ Got(202) \/ (Got(201) /\ command = "run"))
  /\ at' = "printing"
  /\ UNCHANGED <<planeVars, command, code, excuse, steady, tuiVars>>

Reject ==
  /\ at = "asking"
  /\ \/ Got(422) /\ Exit(EXIT_VALIDATION)
     \/ Got(404) /\ Exit(EXIT_NOT_FOUND)
     \/ Got(409) /\ Exit(EXIT_ERROR)
  /\ UNCHANGED <<planeVars, command, excuse, steady, tuiVars>>

Poll ==
  /\ \/ at = "asking" /\ command = "wait" /\ Got(201)
     \/ at = "sleeping"
  /\ at' = "polling" /\ request' = Asked("experiment")
  /\ UNCHANGED <<storeVars, fleetVars, trouble, command, code, excuse, steady, tuiVars>>

(* Mutant: a record the master does not hold is waited for.                 *)
PolledPatiently ==
  /\ at = "polling" /\ Answered
  /\ at' = IF request.reply.outcome = None THEN "sleeping" ELSE "printing"
  /\ UNCHANGED <<planeVars, command, code, excuse, steady, tuiVars>>

Polled ==
  /\ at = "polling"
  /\ \/ Got(404) /\ Exit(EXIT_ERROR)
     \/ /\ Got(200) /\ UNCHANGED code
        /\ at' = IF request.reply.outcome = None THEN "sleeping" ELSE "printing"
  /\ UNCHANGED <<planeVars, command, excuse, steady, tuiVars>>

OutcomeExitCode(outcome) ==
  CASE outcome = "COMPLETED" -> EXIT_OK
    [] outcome = "ABORTED"   -> EXIT_EXPERIMENT_ABORTED
    [] outcome = "ERROR"     -> EXIT_EXPERIMENT_ERROR
    [] OTHER                 -> EXIT_ERROR

(* A closed pipe is the normal end of a pipeline, any other failure is not. *)
Emit ==
  /\ at = "printing"
  /\ \/ Exit(IF command = "wait" THEN OutcomeExitCode(request.reply.outcome) ELSE EXIT_OK)
        /\ UNCHANGED excuse
     \/ Exit(EXIT_OK) /\ Blame("pipe")
     \/ Exit(EXIT_ERROR) /\ Blame("output")
  /\ UNCHANGED <<planeVars, command, steady, tuiVars>>

OneShot == Present \/ Reject \/ Poll \/ Polled \/ Emit

-----------------------------------------------------------------------------
(***************************************************************************)
(* The fleet view: the shell around the pure update of its model.          *)
(***************************************************************************)
InFlight == {k \in FetchId : fetch[k] # Idle}

SpawnFetch == fetch' = [fetch EXCEPT ![Min(FetchId \ InFlight)] = Fetch("asked", EmptyScreen)]

Open ==
  /\ at = "start" /\ at' = "loop" /\ command' = "tui"
  /\ SpawnFetch /\ loading' = TRUE
  /\ UNCHANGED <<planeVars, code, excuse, steady, shown, selected, error, inbox, keys, forced>>

(* The master answers with the fleet as it is; the answer travels.          *)
ListAgents(k) ==
  /\ at = "loop" /\ fetch[k].stage = "asked"
  /\ fetch' = [fetch EXCEPT ![k] = Fetch("answered", Fleet)]
  /\ UNCHANGED <<planeVars, cliVars, shown, selected, loading, error, inbox, keys, forced>>

FetchEnds(k) ==
  /\ at = "loop" /\ fetch[k].stage = "answered"
  /\ fetch' = [fetch EXCEPT ![k] = Idle] /\ inbox' = Append(inbox, Loaded(fetch[k].fleet))
  /\ UNCHANGED <<planeVars, cliVars, shown, selected, loading, error, keys, forced>>

FetchFails(k) ==
  /\ at = "loop" /\ Troubled /\ k \in InFlight
  /\ fetch' = [fetch EXCEPT ![k] = Idle] /\ inbox' = Append(inbox, Failed)
  /\ UNCHANGED <<storeVars, fleetVars, request, cliVars, shown, selected, loading, error,
                 keys, forced>>

Press(k) ==
  /\ at = "loop" /\ keys < MaxKeys /\ keys' = keys + 1 /\ inbox' = Append(inbox, Key(k))
  /\ UNCHANGED <<planeVars, cliVars, shown, selected, loading, error, fetch, forced>>

(* Mutant: what was loaded once is not loaded again.                        *)
TickOnce ==
  /\ at = "loop" /\ ~loading /\ shown = EmptyScreen
  /\ SpawnFetch /\ loading' = TRUE
  /\ UNCHANGED <<planeVars, cliVars, shown, selected, error, inbox, keys, forced>>

Tick ==
  /\ at = "loop" /\ ~loading
  /\ SpawnFetch /\ loading' = TRUE
  /\ UNCHANGED <<planeVars, cliVars, shown, selected, error, inbox, keys, forced>>

Take == at = "loop" /\ inbox # << >> /\ inbox' = Tail(inbox)

AgentsLoaded ==
  /\ Take /\ Head(inbox).msg = "AgentsLoaded"
  /\ shown' = Head(inbox).fleet /\ loading' = FALSE /\ error' = FALSE
  /\ selected' = IF Rows(shown') = 0 THEN 0 ELSE Min({selected, Rows(shown') - 1})
  /\ UNCHANGED <<planeVars, cliVars, fetch, keys, forced>>

(* Mutant: an error is shown and nothing else.                              *)
AgentsFailedLoading ==
  /\ Take /\ Head(inbox).msg = "AgentsFailed" /\ error' = TRUE
  /\ UNCHANGED <<planeVars, cliVars, shown, selected, loading, fetch, keys, forced>>

AgentsFailed ==
  /\ Take /\ Head(inbox).msg = "AgentsFailed"
  /\ loading' = FALSE /\ error' = TRUE
  /\ UNCHANGED <<planeVars, cliVars, shown, selected, fetch, keys, forced>>

HandleKey ==
  /\ Take /\ Head(inbox).msg = "Key"
  /\ LET k == Head(inbox).key
         rows == Rows(shown)
     IN
     \/ k = "q" /\ Exit(EXIT_OK) /\ UNCHANGED <<selected, loading, fetch, forced>>
     \/ /\ k = "r" /\ SpawnFetch /\ loading' = TRUE /\ forced' = forced + 1
        /\ UNCHANGED <<at, code, selected>>
     \/ /\ k = "down" /\ selected' = IF rows > 0 THEN Min({selected + 1, rows - 1}) ELSE selected
        /\ UNCHANGED <<at, code, loading, fetch, forced>>
     \/ /\ k = "up" /\ selected' = IF selected > 0 THEN selected - 1 ELSE selected
        /\ UNCHANGED <<at, code, loading, fetch, forced>>
  /\ UNCHANGED <<planeVars, command, excuse, steady, shown, error, keys>>

Event == Tick \/ AgentsLoaded \/ AgentsFailed \/ HandleKey

-----------------------------------------------------------------------------
(* The experiment is this process's, or another operator's; the fleet view  *)
(* reads no experiment, so none is started under it.                        *)
Elsewhere ==
  \/ command \notin {None, "run", "wait", "tui"} /\ SubmitElsewhere /\ UNCHANGED steady
  \/ HaltElsewhere /\ UNCHANGED steady
  \/ \E h \in Host :
       \/ Register(h) /\ UNCHANGED steady
       \/ Leave(h) /\ steady' = steady \ (IF h = Target[1] THEN {"session"} ELSE {})
       \/ \E b \in BOOLEAN : TaintReport(h, b) /\ UNCHANGED steady
  \/ \E i \in DOMAIN Target, s \in InstanceStates : Status(i, s) /\ UNCHANGED steady
  \/ DeadlinePasses /\ UNCHANGED steady
  \/ Restart /\ steady' = {}

Client ==
  \/ Misused \/ RequestFails \/ Abandoned \/ OneShot \/ Open \/ Event
  \/ \E c \in Command : Give(c)
  \/ \E k \in FetchId : ListAgents(k) \/ FetchEnds(k) \/ FetchFails(k)
  \/ \E k \in {"r", "up", "down", "q"} : Press(k)

Next ==
  \/ Client
  \/ Handle /\ UNCHANGED <<cliVars, tuiVars>>
  \/ Elsewhere /\ UNCHANGED <<command, at, code, excuse, tuiVars>>

Spec == Init /\ [][Next]_vars

(***************************************************************************)
(* Fairness: both programs go on; every request is answered by a master    *)
(* that lives (a hung one is a request that fails, within ten seconds); a  *)
(* deadline that was armed passes; select! starves neither of its branches.*)
(***************************************************************************)
Fairness ==
  /\ WF_vars(OneShot)
  /\ WF_vars(Handle /\ UNCHANGED <<cliVars, tuiVars>>)
  /\ WF_vars(DeadlinePasses /\ UNCHANGED <<cliVars, tuiVars>>)
  /\ WF_vars(request = NoRequest /\ RequestFails)
  /\ WF_vars(Tick) /\ WF_vars(AgentsLoaded \/ AgentsFailed \/ HandleKey)
  /\ \A k \in FetchId : WF_vars(ListAgents(k) \/ FetchEnds(k))

FairSpec == Spec /\ Fairness

-----------------------------------------------------------------------------
(***************************************************************************)
(* Properties.                                                             *)
(***************************************************************************)
Done(commands, c) == at = "exited" /\ command \in commands /\ code = c
Own == {"run", "wait"}
Excused == excuse \cap {"input", "transport", "output"} # {}

(* The exit code is the truth about the experiment even when the record     *)
(* changes, concludes or is wiped between the answers: 3 means that nothing *)
(* was minted, 0, 4 and 5 after a wait that it ended so, 2 that the master  *)
(* had lost or never had it, 1 that something else went wrong               *)
(* (run_experiment_file, outcome_exit_code, emit; phase_labels).            *)
ExitTellsTruth ==
  /\ Done(Own, EXIT_VALIDATION) => Last = NoRecord
  /\ Done(Own, EXIT_OK) => Last # NoRecord
  /\ Done({"wait"}, EXIT_OK) => Last.phase = "Completed" \/ "pipe" \in excuse
  /\ Done(Command, EXIT_EXPERIMENT_ABORTED) => command = "wait" /\ Last.phase = "AbortedClean"
  /\ Done(Command, EXIT_EXPERIMENT_ERROR) => command = "wait" /\ Last.phase = "Failed"
  /\ Done({"experiment", "halt"}, EXIT_NOT_FOUND) => "record" \notin steady
  /\ Done({"agent", "clear"}, EXIT_NOT_FOUND) => "agent" \notin steady
  /\ Done(Own \cup {"list"}, EXIT_NOT_FOUND) => FALSE
  /\ Done({"run", "experiment", "agent", "list"}, EXIT_ERROR) => Excused
  /\ Done({"wait"}, EXIT_ERROR) => Excused \/ (~Held /\ past # NoRecord)
  /\ Done({"halt"}, EXIT_ERROR) => Excused \/ IsConcluded(Last)
  /\ Done({"clear"}, EXIT_ERROR) => Excused \/ "session" \notin steady

(* Every command ends, a wait included: the deadline ends the experiment, a *)
(* restart ends the record, and a master that is gone ends the request.     *)
CommandsEnd == at = "asking" ~> at = "exited"

(* The view tells the truth about its fetches.  If it says it is refreshing *)
(* it will hear of it, a fetch being in flight or its result in the inbox:  *)
(* otherwise no tick would ever fetch again.  And a hung master cannot pile *)
(* up requests: besides one, only those forced with r are in flight (update *)
(* and its shell, whose fetches and keys arrive in any order).              *)
LoadingHonest ==
  at = "loop" =>
    /\ loading => InFlight # {} \/ \E k \in DOMAIN inbox : inbox[k].msg # "Key"
    /\ Cardinality(InFlight) <= 1 + forced

(* The same, with every variable in its range.                              *)
ViewSound == TypeOK /\ LoadingHonest

(* Once the fleet stops changing and requests stop failing, the view shows  *)
(* it and no error, although overlapping answers may arrive out of order.   *)
ShownCatchesUp == <>[](at = "loop" => shown = Fleet /\ ~error)
=============================================================================
