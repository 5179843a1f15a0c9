---------------------------- MODULE ConsoleProofs ----------------------------
(***************************************************************************)
(* Theorems about the operator's process and the management plane of the   *)
(* master, for any fleet, any experiment and any bounds: the exit code of  *)
(* every command is the truth, and the fleet view tells the truth about    *)
(* its fetches.                                                            *)
(***************************************************************************)
EXTENDS Console, SequenceTheorems, FiniteSetTheorems, WellFoundedInduction, TLAPS

-----------------------------------------------------------------------------
(***************************************************************************)
(* Why the exit code is true.  What the master concludes stays concluded,  *)
(* an experiment of this process is the only one, an answer stays true     *)
(* while it travels, and what the process did not see stays unexcused.     *)
(***************************************************************************)

(* A record has these fields, and one that has concluded is finished.       *)
Shaped(x) ==
  /\ x = [phase |-> x.phase, state |-> x.state, asked |-> x.asked,
          tainted |-> x.tainted, cause |-> x.cause]
  /\ x.phase \in Phase
  /\ x.state \in [DOMAIN Target -> InstanceStates]
  /\ x.asked \in [DOMAIN Target -> BOOLEAN]
  /\ IsConcluded(x) => Unfinished(x) = {}

StoreInv ==
  /\ \A x \in {record, past} : x = NoRecord \/ Shaped(x)
  /\ dispatch \in {"unsubmitted", "salvo", "armed", "over"}
  /\ dispatch = "unsubmitted" => record = NoRecord /\ past = NoRecord

FleetInv ==
  /\ agents \subseteq Host /\ online \subseteq agents /\ flagged \subseteq agents
  /\ trouble \in 0..MaxTrouble

(* What was there at the start and since is there now.                      *)
SteadyInv ==
  /\ "record" \in steady => Held
  /\ "agent" \in steady => Target[1] \in agents
  /\ "session" \in steady => Target[1] \in online

Recorded == Last # NoRecord

(* The experiment ended as the outcome says.                                *)
Tells(outcome) == outcome # None => IsConcluded(Last) /\ OutcomeLabel[Last.phase] = outcome

(* The record a wait asks for was wiped, and no other takes its place.      *)
Wiped == ~Held /\ past # NoRecord

AnswerTrue(about, status, outcome) ==
  \/ about = "run" /\ status = 201 /\ Recorded
  \/ about = "run" /\ status = 422 /\ dispatch = "unsubmitted"
  \/ about = "halt" /\ status = 202
  \/ about = "halt" /\ status = 409 /\ IsConcluded(Last)
  \/ about = "experiment" /\ status = 200 /\ Tells(outcome)
  \/ about \in {"halt", "experiment"} /\ status = 404 /\ "record" \notin steady
       /\ (command = "wait" => Wiped)
  \/ about = "agent" /\ status = 200
  \/ about = "clear" /\ status = 202
  \/ about = "clear" /\ status = 409 /\ "session" \notin steady
  \/ about \in {"agent", "clear"} /\ status = 404 /\ "agent" \notin steady
  \/ about = "list" /\ status = 200

(* The first request of a command; a wait that was accepted asks again.     *)
FirstAbout(c) == IF c = "wait" THEN "run" ELSE c

RequestInv ==
  /\ request = [about |-> request.about, stage |-> request.stage, reply |-> request.reply]
  /\ request.stage \in {"none", "sent", "sending", "answered"}
  /\ request.stage # "none" =>
       /\ command \in Command
       /\ \/ request.about = FirstAbout(command)
          \/ command = "wait" /\ request.about = "experiment" /\ Recorded
  /\ request.stage = "sending" /\ request.about = "run" => Recorded
  /\ request.stage = "answered" =>
       AnswerTrue(request.about, request.reply.status, request.reply.outcome)

(* Where the process stands says what it has been told.                     *)
PlaceInv ==
  /\ at \in {"start", "asking", "polling", "sleeping", "printing", "loop", "exited"}
  /\ command \in Command \cup {None, "tui"}
  /\ at = "start" =>
       command = None /\ request.stage = "none" /\ dispatch = "unsubmitted" /\ ~loading
  /\ at \in {"asking", "printing"} => command \in Command
  /\ at = "asking" /\ request.stage # "none" => request.about = FirstAbout(command)
  /\ at \in {"polling", "sleeping"} => command = "wait" /\ Recorded
  /\ at = "polling" /\ request.stage # "none" => request.about = "experiment"
  /\ at = "printing" =>
       /\ request.stage = "answered"
       /\ command = "run" => Recorded
       /\ command = "wait" => request.about = "experiment" /\ request.reply.status = 200
                              /\ request.reply.outcome # None
  /\ at = "loop" => command = "tui"

(* ExitTellsTruth, and why it stays true: after a refused submission the    *)
(* master has no request left that could submit, and a record that was      *)
(* wiped is not replaced.                                                   *)
ExitInv ==
  /\ Done(Own, EXIT_VALIDATION) => dispatch = "unsubmitted" /\ request.stage = "answered"
  /\ Done(Own, EXIT_OK) => Recorded
  /\ Done({"wait"}, EXIT_OK) => Last.phase = "Completed" \/ "pipe" \in excuse
  /\ Done(Command, EXIT_EXPERIMENT_ABORTED) => command = "wait" /\ Last.phase = "AbortedClean"
  /\ Done(Command, EXIT_EXPERIMENT_ERROR) => command = "wait" /\ Last.phase = "Failed"
  /\ Done({"experiment", "halt"}, EXIT_NOT_FOUND) => "record" \notin steady
  /\ Done({"agent", "clear"}, EXIT_NOT_FOUND) => "agent" \notin steady
  /\ ~Done(Own \cup {"list"}, EXIT_NOT_FOUND)
  /\ Done({"run", "experiment", "agent", "list"}, EXIT_ERROR) => Excused
  /\ Done({"wait"}, EXIT_ERROR) => Excused \/ Wiped
  /\ Done({"halt"}, EXIT_ERROR) => Excused \/ IsConcluded(Last)
  /\ Done({"clear"}, EXIT_ERROR) => Excused \/ "session" \notin steady

CommandInv == StoreInv /\ FleetInv /\ SteadyInv /\ RequestInv /\ PlaceInv /\ ExitInv

(***************************************************************************)
(* Why the view is sound: every fetch is in flight or its result waits in  *)
(* the inbox, and beyond one of them all were forced.                      *)
(***************************************************************************)
KeyMessage == {Key(k) : k \in {"r", "up", "down", "q"}}
ResultMessage == Message \ KeyMessage

(* Where messages of a kind wait in an inbox.                               *)
Places(s, kind) == {k \in 1..Len(s) : s[k] \in kind}

Flying == Cardinality(InFlight)
Results == Cardinality(Places(inbox, ResultMessage))
Pressed == Cardinality(Places(inbox, KeyMessage))

Fetches == [FetchId -> [stage : {"idle", "asked", "answered"}, fleet : Screen]]

ViewInv ==
  /\ code \in EXIT_OK..EXIT_EXPERIMENT_ERROR
  /\ shown \in Screen /\ selected \in 0..Cardinality(Host)
  /\ {loading, error} \subseteq BOOLEAN
  /\ inbox \in Seq(Message)
  /\ fetch \in Fetches
  /\ keys \in 0..MaxKeys /\ forced \in 0..MaxKeys
  /\ forced + Pressed <= keys
  /\ loading => Flying + Results >= 1 /\ Flying + Results <= forced + 1
  /\ ~loading => Flying + Results <= forced

-----------------------------------------------------------------------------
(***************************************************************************)
(* The decisions over one record keep its shape.                           *)
(***************************************************************************)

LEMMA NoRecordFacts ==
  /\ NoRecord.phase = None /\ ~IsConcluded(NoRecord) /\ ~Shaped(NoRecord)
  /\ None \notin Phase
<1>1. NoRecord.phase = None
  BY DEF NoRecord, Mint
<1> QED
  BY <1>1 DEF IsConcluded, Concluded, Phase, Shaped, None

LEMMA MintShaped == Shaped(Mint(Target))
<1>1. /\ Mint(Target).phase = "Running"
      /\ Mint(Target).state = [i \in DOMAIN Target |-> "Pending"]
      /\ Mint(Target).asked = [i \in DOMAIN Target |-> FALSE]
  BY DEF Mint
<1>2. Mint(Target) = [phase |-> Mint(Target).phase, state |-> Mint(Target).state,
                      asked |-> Mint(Target).asked, tainted |-> Mint(Target).tainted,
                      cause |-> Mint(Target).cause]
  BY DEF Mint
<1> QED
  BY <1>1, <1>2 DEF Shaped, IsConcluded, Phase, Concluded, InstanceStates

LEMMA OutcomeFits ==
  ASSUME NEW x
  PROVE  /\ Unfinished(x) # {} => OutcomeOf(x) = None
         /\ Unfinished(x) = {} => OutcomeOf(x) \in Concluded
<1>1. CASE Unfinished(x) # {}
  <2>1. InState(x, "Done") # DOMAIN x.state
    BY <1>1 DEF Unfinished, InState, Terminal
  <2> QED
    BY <1>1, <2>1 DEF OutcomeOf
<1>2. CASE Unfinished(x) = {}
  BY <1>2 DEF OutcomeOf, Concluded
<1> QED
  BY <1>1, <1>2

LEMMA ConcludeShaped ==
  ASSUME NEW x, Shaped(x)
  PROVE  Shaped(ConcludeIfDone(x, Target))
<1> DEFINE y == ConcludeIfDone(x, Target)
           c == IF x.cause = NoCause THEN OutcomeCause(x, Target, OutcomeOf(x)) ELSE x.cause
<1>1. CASE IsConcluded(x) \/ OutcomeOf(x) = None
  BY <1>1 DEF ConcludeIfDone
<1>2. CASE ~IsConcluded(x) /\ OutcomeOf(x) # None
  <2>1. OutcomeOf(x) \in Concluded /\ Unfinished(x) = {}
    BY <1>2, OutcomeFits
  <2>2. y = [phase |-> OutcomeOf(x), state |-> x.state, asked |-> x.asked,
             tainted |-> x.tainted, cause |-> c]
    BY <1>2 DEF ConcludeIfDone, Shaped
  <2> HIDE DEF y, c
  <2>3. Unfinished(y) = {}
    BY <2>1, <2>2 DEF Unfinished
  <2>4. Shaped(y)
    BY <2>1, <2>2, <2>3 DEF Shaped, Phase
  <2> QED
    BY <2>4 DEF y
<1> QED
  BY <1>1, <1>2

LEMMA FireShaped ==
  ASSUME NEW x, NEW c, Shaped(x)
  PROVE  Shaped(FireKillSwitch(x, c))
<1> DEFINE y == FireKillSwitch(x, c)
           asked == [i \in DOMAIN x.asked |-> x.asked[i] \/ i \in ToAbort(x)]
<1>0. x = [phase |-> x.phase, state |-> x.state, asked |-> x.asked,
           tainted |-> x.tainted, cause |-> x.cause]
  BY DEF Shaped
<1>1. asked \in [DOMAIN Target -> BOOLEAN]
  <2>1. DOMAIN x.asked = DOMAIN Target
    BY DEF Shaped
  <2> QED
    BY <2>1
<1>2. y = [x EXCEPT !.phase = "Halting", !.asked = asked,
                    !.cause = IF x.cause = NoCause THEN c ELSE x.cause]
  BY <1>0 DEF FireKillSwitch
<1> HIDE DEF y, asked
<1>3. y = [phase |-> "Halting", state |-> x.state, asked |-> asked, tainted |-> x.tainted,
           cause |-> IF x.cause = NoCause THEN c ELSE x.cause]
  BY <1>0, <1>2
<1>4. Shaped(y)
  BY <1>1, <1>3 DEF Shaped, Phase, IsConcluded, Concluded
<1> QED
  BY <1>4 DEF y

LEMMA ReactShaped ==
  ASSUME NEW x, Shaped(x)
  PROVE  Shaped(ReactToUpdate(x, Target).record)
<1> DEFINE trigger == KillTrigger(x, Target)
           halted == IF trigger = NoCause THEN x ELSE FireKillSwitch(x, trigger)
<1>1. Shaped(halted)
  BY FireShaped
<1>2. ReactToUpdate(x, Target).record = ConcludeIfDone(halted, Target)
  BY DEF ReactToUpdate
<1> HIDE DEF halted
<1> QED
  BY <1>1, <1>2, ConcludeShaped

LEMMA StatusShaped ==
  ASSUME NEW x, NEW i, NEW s \in InstanceStates, Shaped(x), Accepts(x, i)
  PROVE  ~IsConcluded(x) /\ Shaped(ReactToUpdate(ApplyStatus(x, i, s), Target).record)
<1> DEFINE y == ApplyStatus(x, i, s)
<1>1. ~IsConcluded(x)
  BY DEF Shaped, Accepts, Unfinished
<1>2. y = [phase |-> x.phase, state |-> [x.state EXCEPT ![i] = s], asked |-> x.asked,
           tainted |-> x.tainted, cause |-> x.cause]
  BY DEF ApplyStatus, Shaped
<1> HIDE DEF y
<1>3. Shaped(y)
  BY <1>1, <1>2 DEF Shaped, IsConcluded
<1> QED
  BY <1>1, <1>3, ReactShaped DEF y

LEMMA TaintShaped ==
  ASSUME NEW x, NEW h, Shaped(x), ~IsConcluded(x)
  PROVE  Shaped(ReactToUpdate(RecordTaint(x, h), Target).record)
<1> DEFINE y == RecordTaint(x, h)
<1>1. CASE y = x
  BY <1>1, ReactShaped
<1>2. CASE y # x
  <2>1. y = [phase |-> x.phase, state |-> x.state, asked |-> x.asked,
             tainted |-> Append(x.tainted, h), cause |-> x.cause]
    BY <1>2 DEF RecordTaint, Shaped
  <2> HIDE DEF y
  <2>2. Shaped(y)
    BY <2>1 DEF Shaped, IsConcluded
  <2> QED
    BY <2>2, ReactShaped DEF y
<1> QED
  BY <1>1, <1>2

LEMMA HaltShaped ==
  ASSUME NEW x, Shaped(x)
  PROVE  Shaped(Halt(x, Target).record)
  BY FireShaped, ConcludeShaped DEF Halt

LEMMA DeadlineShaped ==
  ASSUME NEW x, Shaped(x), ~IsConcluded(x)
  PROVE  Shaped(ResolveDeadline(x, Target).record)
<1> DEFINE late == Unfinished(x)
           first == Min(late)
           state == [i \in DOMAIN x.state |-> IF i \in late THEN "Error" ELSE x.state[i]]
           y == [x EXCEPT !.state = state,
                          !.cause = IF @ = NoCause
                                    THEN Cause(Target[first], first, "deadline") ELSE @]
<1>1. state \in [DOMAIN Target -> InstanceStates]
  BY DEF Shaped, InstanceStates, Terminal
<1>2. ResolveDeadline(x, Target).record = ConcludeIfDone(y, Target)
  BY DEF ResolveDeadline
<1> DEFINE cause == IF x.cause = NoCause
                    THEN Cause(Target[first], first, "deadline") ELSE x.cause
<1>a. y = [x EXCEPT !.state = state, !.cause = cause]
  OBVIOUS
<1>b. x = [phase |-> x.phase, state |-> x.state, asked |-> x.asked,
           tainted |-> x.tainted, cause |-> x.cause]
  BY DEF Shaped
<1> HIDE DEF state, first, late, cause, y
<1>3. y = [phase |-> x.phase, state |-> state, asked |-> x.asked, tainted |-> x.tainted,
           cause |-> cause]
  BY <1>a, <1>b
<1>4. Shaped(y)
  BY <1>1, <1>3 DEF Shaped, IsConcluded
<1> QED
  BY <1>2, <1>4, ConcludeShaped DEF y

-----------------------------------------------------------------------------
(***************************************************************************)
(* What a step does to the record of the experiment.                       *)
(***************************************************************************)
Quiet == UNCHANGED <<record, past>> /\ dispatch' \in {dispatch, "armed", "over"}

Decides ==
  /\ Held /\ ~IsConcluded(record) /\ Shaped(record')
  /\ past' = past /\ dispatch' \in {dispatch, "over"}

Mints ==
  /\ dispatch = "unsubmitted" /\ dispatch' \in {"salvo", "armed"}
  /\ record' = Mint(Target) /\ past' = past

Wipes ==
  /\ past' = Last /\ record' = NoRecord
  /\ dispatch' = IF dispatch = "unsubmitted" THEN dispatch ELSE "over"

(* What the master holds is a record.                                       *)
LEMMA HeldShaped ==
  ASSUME StoreInv
  PROVE  /\ Held <=> Shaped(record)
         /\ Held <=> record # NoRecord
         /\ Last = NoRecord \/ Shaped(Last)
  BY NoRecordFacts DEF StoreInv, Held, Last, Shaped

(* The master's handlers.                                                   *)
LEMMA HandleStore ==
  ASSUME StoreInv, Handle
  PROVE  Quiet \/ Decides \/ Mints
<1> USE DEF storeVars
<1>1. CASE \E sound \in BOOLEAN : StartExperiment(sound)
  BY <1>1 DEF StartExperiment, Quiet, Mints
<1>2. CASE Started
  BY <1>2 DEF Started, Quiet
<1>3. CASE HaltExperiment
  <2>1. CASE UNCHANGED record
    BY <1>3, <2>1 DEF HaltExperiment, Quiet
  <2>2. CASE Held /\ ~IsConcluded(record) /\ record' = Halt(record, Target).record
    BY <1>3, <2>2, HeldShaped, HaltShaped DEF HaltExperiment, Decides
  <2> QED
    BY <1>3, <2>1, <2>2 DEF HaltExperiment
<1>4. CASE Halted \/ GetExperiment \/ List \/ GetAgent(Target[1]) \/ ClearTaint(Target[1])
  BY <1>4 DEF Halted, GetExperiment, List, GetAgent, ClearTaint, Quiet
<1> QED
  BY <1>1, <1>2, <1>3, <1>4 DEF Handle

(* What happens besides.                                                    *)
LEMMA ElsewhereStore ==
  ASSUME StoreInv, Elsewhere
  PROVE  \/ Quiet \/ Decides
         \/ Mints /\ command \notin {None, "run", "wait", "tui"}
         \/ Wipes /\ steady' = {}
<1> USE DEF storeVars
<1>1. CASE SubmitElsewhere /\ command \notin {None, "run", "wait", "tui"}
  BY <1>1 DEF SubmitElsewhere, Mints
<1>2. CASE HaltElsewhere
  BY <1>2, HeldShaped, HaltShaped DEF HaltElsewhere, Decides
<1>3. CASE \E h \in Host : Register(h) \/ Leave(h)
  BY <1>3 DEF Register, Leave, Quiet
<1>4. ASSUME NEW h \in Host, NEW b \in BOOLEAN, TaintReport(h, b)
      PROVE  Quiet \/ Decides
  <2>1. CASE UNCHANGED record
    BY <1>4, <2>1 DEF TaintReport, Quiet
  <2>2. CASE /\ Held /\ ~IsConcluded(record)
             /\ record' = ReactToUpdate(RecordTaint(record, h), Target).record
    BY <1>4, <2>2, HeldShaped, TaintShaped DEF TaintReport, Decides
  <2> QED
    BY <1>4, <2>1, <2>2 DEF TaintReport
<1>5. ASSUME NEW i \in DOMAIN Target, NEW s \in InstanceStates, Status(i, s)
      PROVE  Decides
  BY <1>5, HeldShaped, StatusShaped DEF Status, Decides
<1>6. CASE DeadlinePasses
  <2>1. CASE UNCHANGED record
    BY <1>6, <2>1 DEF DeadlinePasses, Quiet
  <2>2. CASE Held /\ ~IsConcluded(record) /\ record' = ResolveDeadline(record, Target).record
    BY <1>6, <2>2, HeldShaped, DeadlineShaped DEF DeadlinePasses, Decides
  <2> QED
    BY <1>6, <2>1, <2>2 DEF DeadlinePasses
<1>7. CASE Restart /\ steady' = {}
  BY <1>7 DEF Restart, Wipes
<1> QED
  BY <1>1, <1>2, <1>3, <1>4, <1>5, <1>6, <1>7 DEF Elsewhere

(* The operator's own process touches the record only by giving up on what  *)
(* it asked for.                                                            *)
LEMMA ClientStore ==
  ASSUME Client
  PROVE  /\ Quiet
         /\ dispatch' = dispatch \/ (request.stage = "sending" /\ dispatch' = "over")
<1> USE DEF storeVars, planeVars
<1>1. CASE Misused \/ RequestFails \/ Open
  BY <1>1 DEF Misused, RequestFails, Open, Quiet
<1>2. CASE Abandoned
  BY <1>2 DEF Abandoned, Drop, Asked, Quiet
<1>3. CASE OneShot
  BY <1>3 DEF OneShot, Present, Reject, Poll, Polled, Emit, Quiet
<1>4. CASE Event
  BY <1>4 DEF Event, Tick, AgentsLoaded, AgentsFailed, HandleKey, Quiet
<1>5. CASE \E c \in Command : Give(c)
  BY <1>5 DEF Give, Quiet
<1>6. CASE \E k \in FetchId : ListAgents(k) \/ FetchEnds(k) \/ FetchFails(k)
  BY <1>6 DEF ListAgents, FetchEnds, FetchFails, Quiet
<1>7. CASE \E k \in {"r", "up", "down", "q"} : Press(k)
  BY <1>7 DEF Press, Quiet
<1> QED
  BY <1>1, <1>2, <1>3, <1>4, <1>5, <1>6, <1>7 DEF Client

LEMMA StoreCases ==
  ASSUME StoreInv, [Next]_vars
  PROVE  \/ Quiet \/ Decides \/ Mints
         \/ Wipes /\ steady' = {}
<1>1. CASE UNCHANGED vars
  BY <1>1 DEF vars, planeVars, storeVars, Quiet
<1> QED
  BY <1>1, HandleStore, ElsewhereStore, ClientStore DEF Next

(* A step never forgets an experiment, never changes how it ended, and      *)
(* never replaces one that was wiped.                                       *)
StoreKeeps ==
  /\ Recorded => Recorded'
  /\ IsConcluded(Last) => Last'.phase = Last.phase
  /\ Wiped => Wiped'
  /\ Held => Held' \/ steady' = {}
  /\ dispatch # "unsubmitted" => dispatch' # "unsubmitted"

LEMMA StoreStep ==
  ASSUME StoreInv, [Next]_vars
  PROVE  StoreInv' /\ StoreKeeps
<1>a. /\ record = NoRecord \/ Shaped(record)
      /\ past = NoRecord \/ Shaped(past)
      /\ Held <=> record # NoRecord
      /\ Last = IF Held THEN record ELSE past
      /\ dispatch = "unsubmitted" => record = NoRecord /\ past = NoRecord
      /\ dispatch \in {"unsubmitted", "salvo", "armed", "over"}
  BY HeldShaped DEF StoreInv, Last
<1>b. \A x : Shaped(x) => x.phase # None /\ x # NoRecord
  BY NoRecordFacts DEF Shaped
<1>c. NoRecord.phase = None /\ ~IsConcluded(NoRecord)
  BY NoRecordFacts
<1>1. CASE Quiet
  <2>1. UNCHANGED <<Held, Last>>
    BY <1>1 DEF Quiet, Held, Last
  <2>2. StoreInv'
    BY <1>1, <1>a DEF Quiet, StoreInv, Shaped
  <2>3. UNCHANGED <<Recorded, Wiped>>
    BY <1>1, <2>1 DEF Quiet, Recorded, Wiped
  <2> QED
    BY <1>1, <2>1, <2>2, <2>3 DEF Quiet, StoreKeeps
<1>2. CASE Decides
  <2>1. Shaped(record') /\ past' = past /\ dispatch' \in {dispatch, "over"}
        /\ Held /\ ~IsConcluded(record)
    BY <1>2 DEF Decides
  <2>2. Held' /\ Last' = record' /\ record' # NoRecord
    BY <1>b, <2>1 DEF Held, Last
  <2>3. StoreInv'
    BY <1>a, <2>1 DEF StoreInv, Shaped
  <2> QED
    BY <1>a, <2>1, <2>2, <2>3 DEF StoreKeeps, Recorded, Wiped
<1>3. CASE Mints
  <2>1. /\ record' = Mint(Target) /\ past' = past /\ past = NoRecord /\ record = NoRecord
        /\ dispatch' \in {"salvo", "armed"} /\ dispatch = "unsubmitted"
    BY <1>3, <1>a DEF Mints
  <2>2. Shaped(record')
    BY <2>1, MintShaped
  <2>3. Held' /\ Last' = record' /\ record' # NoRecord
    BY <1>b, <2>2 DEF Held, Last
  <2>4. StoreInv'
    BY <1>a, <2>1, <2>2 DEF StoreInv, Shaped
  <2> QED
    BY <1>a, <1>c, <2>1, <2>3, <2>4 DEF StoreKeeps, Recorded, Wiped
<1>4. CASE Wipes /\ steady' = {}
  <2>1. /\ past' = Last /\ record' = NoRecord
        /\ dispatch' = IF dispatch = "unsubmitted" THEN dispatch ELSE "over"
    BY <1>4 DEF Wipes
  <2>2. ~Held' /\ Last' = Last
    BY <1>c, <2>1 DEF Held, Last
  <2>3. Last = NoRecord \/ Shaped(Last)
    BY HeldShaped
  <2>4. dispatch = "unsubmitted" => Last = NoRecord
    BY <1>a
  <2>5. StoreInv'
    BY <1>a, <2>1, <2>3, <2>4 DEF StoreInv, Shaped
  <2> QED
    BY <1>4, <1>a, <2>1, <2>2, <2>5 DEF StoreKeeps, Recorded, Wiped
<1> QED
  BY <1>1, <1>2, <1>3, <1>4, StoreCases

-----------------------------------------------------------------------------
(***************************************************************************)
(* The fleet, and what the command found of it at its start.               *)
(***************************************************************************)

(* Steps that leave the fleet alone.                                        *)
LEMMA ClientFleet ==
  ASSUME Client
  PROVE  UNCHANGED fleetVars /\ (UNCHANGED trouble \/ Troubled)
<1> USE DEF storeVars, fleetVars, planeVars
<1>1. CASE Misused \/ RequestFails \/ Open
  BY <1>1 DEF Misused, RequestFails, Open
<1>2. CASE Abandoned
  BY <1>2 DEF Abandoned, Drop
<1>3. CASE OneShot
  BY <1>3 DEF OneShot, Present, Reject, Poll, Polled, Emit
<1>4. CASE Event
  BY <1>4 DEF Event, Tick, AgentsLoaded, AgentsFailed, HandleKey
<1>5. CASE \E c \in Command : Give(c)
  BY <1>5 DEF Give
<1>6. CASE \E k \in FetchId : ListAgents(k) \/ FetchEnds(k) \/ FetchFails(k)
  BY <1>6 DEF ListAgents, FetchEnds, FetchFails
<1>7. CASE \E k \in {"r", "up", "down", "q"} : Press(k)
  BY <1>7 DEF Press
<1> QED
  BY <1>1, <1>2, <1>3, <1>4, <1>5, <1>6, <1>7 DEF Client

LEMMA HandleFleet ==
  ASSUME Handle
  PROVE  UNCHANGED fleetVars /\ UNCHANGED trouble
  BY DEF Handle, StartExperiment, Started, HaltExperiment, Halted, GetExperiment, List, GetAgent,
     ClearTaint, storeVars, fleetVars

LEMMA FleetStep ==
  ASSUME FleetInv, [Next]_vars
  PROVE  FleetInv'
<1> USE DEF fleetVars
<1>0. MaxTrouble \in Nat
  BY ManagementAssumption
<1>a. Troubled => trouble' \in 0..MaxTrouble
  BY <1>0 DEF Troubled, FleetInv
<1>b. ASSUME UNCHANGED fleetVars, UNCHANGED trouble \/ Troubled
      PROVE  FleetInv'
  BY <1>a, <1>b DEF FleetInv
<1>1. CASE Client \/ Handle \/ UNCHANGED vars
  BY <1>1, <1>b, ClientFleet, HandleFleet DEF vars, planeVars
<1>2. ASSUME NEW h \in Host, Register(h) \/ Leave(h) \/ \E b \in BOOLEAN : TaintReport(h, b)
      PROVE  FleetInv'
  BY <1>2, <1>a DEF Register, Leave, TaintReport, FleetInv
<1>3. CASE Restart
  BY <1>3, <1>a DEF Restart, FleetInv
<1>4. CASE \/ SubmitElsewhere \/ HaltElsewhere \/ DeadlinePasses
           \/ \E i \in DOMAIN Target, s \in InstanceStates : Status(i, s)
  BY <1>4, <1>b DEF SubmitElsewhere, HaltElsewhere, DeadlinePasses, Status
<1> QED
  BY <1>1, <1>2, <1>3, <1>4 DEF Next, Elsewhere

(* Only the start of a command sets it, and a restart or a lost session     *)
(* takes from it what it takes from the fleet.                              *)
LEMMA SteadyStep ==
  ASSUME StoreInv, FleetInv, SteadyInv, [Next]_vars
  PROVE  /\ SteadyInv'
         /\ steady' \subseteq steady \/ at' # at
<1> USE DEF fleetVars, storeVars, planeVars, cliVars
<1>a. Held => Held' \/ steady' = {}
  BY StoreStep DEF StoreKeeps
<1>b. ASSUME steady' \subseteq steady, agents \subseteq agents', online \subseteq online'
      PROVE  SteadyInv'
  BY <1>a, <1>b DEF SteadyInv
<1>1. ASSUME NEW c \in Command, Give(c)
      PROVE  SteadyInv' /\ at' # at
  <2>1. UNCHANGED <<record, agents, online>> /\ steady' = HeldNow /\ at = "start" /\ at' = "asking"
    BY <1>1 DEF Give
  <2> QED
    BY <2>1 DEF SteadyInv, HeldNow, Held
<1>2. CASE Client /\ ~\E c \in Command : Give(c)
  <2>1. steady' = steady
    BY <1>2 DEF Client, Misused, RequestFails, Open, Abandoned, OneShot, Present, Reject, Poll,
       Polled, Emit, Event, Tick, AgentsLoaded, AgentsFailed, HandleKey, ListAgents, FetchEnds,
       FetchFails, Press
  <2> QED
    BY <1>2, <1>b, <2>1, ClientFleet
<1>3. CASE (Handle /\ UNCHANGED cliVars) \/ UNCHANGED vars
  BY <1>3, <1>b, HandleFleet DEF vars
<1>4. ASSUME NEW h \in Host, Register(h), UNCHANGED steady
      PROVE  SteadyInv'
  BY <1>4, <1>b DEF Register
<1>5. ASSUME NEW h \in Host, Leave(h),
             steady' = steady \ (IF h = Target[1] THEN {"session"} ELSE {})
      PROVE  SteadyInv' /\ steady' \subseteq steady
  BY <1>5, <1>a DEF Leave, SteadyInv
<1>6. CASE UNCHANGED steady /\ (\/ SubmitElsewhere \/ HaltElsewhere \/ DeadlinePasses
           \/ \E i \in DOMAIN Target, s \in InstanceStates : Status(i, s))
  BY <1>6, <1>b DEF SubmitElsewhere, HaltElsewhere, DeadlinePasses, Status
<1>12. ASSUME NEW h \in Host, NEW b \in BOOLEAN, TaintReport(h, b), UNCHANGED steady
       PROVE  SteadyInv'
  BY <1>12, <1>b DEF TaintReport
<1>7. CASE steady' = {}
  BY <1>7 DEF SteadyInv
<1>9. steady' = steady \/ steady' = {} => steady' \subseteq steady
  OBVIOUS
<1>8. CASE Elsewhere
  <2>1. CASE \E h \in Host : Register(h) /\ UNCHANGED steady
    BY <1>4, <1>9, <2>1
  <2>2. CASE \E h \in Host : /\ Leave(h)
                             /\ steady' = steady \ (IF h = Target[1] THEN {"session"} ELSE {})
    BY <1>5, <2>2
  <2>3. CASE \E h \in Host : \E b \in BOOLEAN : TaintReport(h, b) /\ UNCHANGED steady
    BY <1>9, <1>12, <2>3
  <2>4. CASE UNCHANGED steady /\ (\/ SubmitElsewhere \/ HaltElsewhere \/ DeadlinePasses
               \/ \E i \in DOMAIN Target, s \in InstanceStates : Status(i, s))
    BY <1>6, <1>9, <2>4
  <2>5. CASE steady' = {}
    BY <1>7, <1>9, <2>5
  <2> QED
    BY <1>8, <2>1, <2>2, <2>3, <2>4, <2>5 DEF Elsewhere
<1>10. CASE Client
  <2>1. CASE \E c \in Command : Give(c)
    BY <1>1, <2>1
  <2>2. CASE ~\E c \in Command : Give(c)
    <3>1. steady' = steady
      BY <1>10, <2>2 DEF Client, Misused, RequestFails, Open, Abandoned, OneShot, Present, Reject,
         Poll, Polled, Emit, Event, Tick, AgentsLoaded, AgentsFailed, HandleKey, ListAgents,
         FetchEnds, FetchFails, Press
    <3> QED
      BY <1>2, <1>9, <1>10, <2>2, <3>1
  <2> QED
    BY <2>1, <2>2
<1>11. CASE (Handle /\ UNCHANGED cliVars) \/ UNCHANGED vars
  BY <1>3, <1>9, <1>11 DEF vars
<1> QED
  BY <1>8, <1>10, <1>11 DEF Next

-----------------------------------------------------------------------------
(***************************************************************************)
(* The request and its answer.                                             *)
(***************************************************************************)

(* What keeps an answer true while it travels.                              *)
Keeps ==
  /\ StoreKeeps
  /\ steady' \subseteq steady
  /\ command' = command
  /\ dispatch = "unsubmitted" /\ command \in Own /\ request.stage = "answered" =>
       dispatch' = "unsubmitted"

LEMMA AnswerStays ==
  ASSUME NEW about, NEW status, NEW outcome, Keeps, request.stage = "answered",
         about = "run" => command \in Own, AnswerTrue(about, status, outcome)
  PROVE  AnswerTrue(about, status, outcome)'
<1>1. /\ Recorded => Recorded'
      /\ IsConcluded(Last) => Last'.phase = Last.phase /\ IsConcluded(Last')
      /\ Wiped => Wiped'
      /\ steady' \subseteq steady /\ command' = command
  BY DEF Keeps, StoreKeeps, IsConcluded
<1>2. Tells(outcome) => Tells(outcome)'
  BY <1>1 DEF Tells
<1>3. about = "run" /\ dispatch = "unsubmitted" => dispatch' = "unsubmitted"
  BY DEF Keeps
<1> QED
  BY <1>1, <1>2, <1>3 DEF AnswerTrue

(* A request that nobody touched.                                           *)
LEMMA RequestStays ==
  ASSUME RequestInv, Keeps, UNCHANGED request
  PROVE  RequestInv'
<1>1. /\ Recorded => Recorded'
      /\ command' = command
  BY DEF Keeps, StoreKeeps
<1>2. request.stage = "answered" =>
        AnswerTrue(request.about, request.reply.status, request.reply.outcome)'
  <2> SUFFICES ASSUME request.stage = "answered"
               PROVE  AnswerTrue(request.about, request.reply.status, request.reply.outcome)'
    OBVIOUS
  <2>1. PICK a : a = request.about
    OBVIOUS
  <2>2. PICK s : s = request.reply.status
    OBVIOUS
  <2>3. PICK o : o = request.reply.outcome
    OBVIOUS
  <2>4. a = "run" => command \in Own
    BY <2>1 DEF RequestInv, FirstAbout, Own
  <2>5. AnswerTrue(a, s, o)
    BY <2>1, <2>2, <2>3 DEF RequestInv
  <2>6. AnswerTrue(a, s, o)'
    BY <2>4, <2>5, AnswerStays
  <2>7. a = request.about' /\ s = request.reply.status' /\ o = request.reply.outcome'
    BY <2>1, <2>2, <2>3
  <2> QED
    BY <2>6, <2>7
<1> QED
  BY <1>1, <1>2 DEF RequestInv

(* A request that is gone.                                                  *)
LEMMA RequestGone ==
  ASSUME request' = NoRequest
  PROVE  RequestInv'
  BY DEF RequestInv, NoRequest, Nothing

(* Replies and stages.                                                      *)
LEMMA RequestFields ==
  ASSUME RequestInv
  PROVE  /\ Sending => request' = [about |-> request.about, stage |-> "sending",
                                   reply |-> request.reply]
         /\ \A status, outcome : Answer(status, outcome) =>
              request' = [about |-> request.about, stage |-> "answered",
                          reply |-> Reply(status, outcome)]
  BY DEF RequestInv, Sending, Answer

(* An answer to a request under way.                                        *)
LEMMA AnswerGiven ==
  ASSUME NEW about, NEW status, NEW outcome, RequestInv, request.about = about,
         request.stage \in {"sent", "sending"}, Answer(status, outcome),
         AnswerTrue(about, status, outcome)',
         Recorded => Recorded', UNCHANGED command
  PROVE  /\ RequestInv'
         /\ request'.stage = "answered" /\ request'.about = request.about
<1>1. request' = [about |-> request.about, stage |-> "answered", reply |-> Reply(status, outcome)]
  BY RequestFields
<1>2. /\ request'.about = about /\ request'.stage = "answered"
      /\ request'.reply = Reply(status, outcome)
      /\ request'.reply.status = status /\ request'.reply.outcome = outcome
  BY <1>1 DEF Reply
<1>3. /\ command' \in Command
      /\ \/ request.about = FirstAbout(command')
         \/ command' = "wait" /\ request.about = "experiment" /\ Recorded'
  BY DEF RequestInv
<1>4. AnswerTrue(request.about, request.reply.status, request.reply.outcome)'
  BY <1>2
<1> QED
  BY <1>1, <1>2, <1>3, <1>4 DEF RequestInv

(* A request whose frames are being sent.                                   *)
LEMMA SendingStarted ==
  ASSUME RequestInv, request.stage = "sent", Sending, request.about = "run" => Recorded',
         Recorded => Recorded', UNCHANGED command
  PROVE  /\ RequestInv'
         /\ request'.stage = "sending" /\ request'.about = request.about
<1>1. request' = [about |-> request.about, stage |-> "sending", reply |-> request.reply]
  BY RequestFields
<1>2. /\ command' \in Command
      /\ \/ request.about = FirstAbout(command')
         \/ command' = "wait" /\ request.about = "experiment" /\ Recorded'
  BY DEF RequestInv
<1> QED
  BY <1>1, <1>2 DEF RequestInv

(* The master's handlers answer what is true, or go on sending.             *)
LEMMA HandleRequest ==
  ASSUME StoreInv, SteadyInv, RequestInv, Handle, UNCHANGED <<command, steady>>, [Next]_vars
  PROVE  /\ RequestInv'
         /\ request.stage \in {"sent", "sending"}
         /\ request'.stage \in {"sending", "answered"} /\ request'.about = request.about
<1> USE DEF storeVars
<1>a. /\ Recorded => Recorded'
      /\ Held <=> record # NoRecord
      /\ dispatch = "unsubmitted" => ~Held
  BY StoreStep, HeldShaped DEF StoreInv, StoreKeeps
<1>b. request.stage = "sent" =>
        \/ request.about = FirstAbout(command)
        \/ command = "wait" /\ request.about = "experiment" /\ Recorded
  BY DEF RequestInv
<1>1. ASSUME NEW sound \in BOOLEAN, StartExperiment(sound)
      PROVE  /\ RequestInv'
             /\ request.stage \in {"sent", "sending"}
             /\ request'.stage \in {"sending", "answered"} /\ request'.about = request.about
  <2>1. request.stage = "sent" /\ request.about = "run" /\ dispatch = "unsubmitted"
    BY <1>1 DEF StartExperiment, Sent
  <2>2. CASE record' = Mint(Target) /\ Sending
    <3>1. Recorded'
      BY <2>2, MintShaped, NoRecordFacts DEF Recorded, Last, Held, Shaped
    <3> QED
      BY <1>a, <2>1, <2>2, <3>1, SendingStarted
  <2>3. CASE Answer(422, None) /\ UNCHANGED <<record, dispatch>>
    <3>1. AnswerTrue("run", 422, None)'
      BY <2>1, <2>3 DEF AnswerTrue
    <3> QED
      BY <1>a, <2>1, <2>3, <3>1, AnswerGiven
  <2> QED
    BY <1>1, <2>2, <2>3 DEF StartExperiment
<1>2. CASE Started
  <2>1. request.stage = "sending" /\ request.about = "run" /\ Answer(201, None)
    BY <1>2 DEF Started
  <2>2. Recorded'
    BY <1>a, <2>1 DEF RequestInv
  <2>3. AnswerTrue("run", 201, None)'
    BY <2>2 DEF AnswerTrue
  <2> QED
    BY <1>a, <2>1, <2>3, AnswerGiven
<1>3. CASE HaltExperiment
  <2>1. request.stage = "sent" /\ request.about = "halt"
    BY <1>3 DEF HaltExperiment, Sent
  <2>2. command = "halt"
    BY <1>b, <2>1 DEF FirstAbout
  <2>3. CASE ~Held /\ Answer(404, None)
    <3>1. AnswerTrue("halt", 404, None)'
      BY <2>2, <2>3 DEF AnswerTrue, SteadyInv
    <3> QED
      BY <1>a, <2>1, <2>3, <3>1, AnswerGiven
  <2>4. CASE Held /\ IsConcluded(record) /\ Answer(409, None) /\ UNCHANGED record
    <3>1. IsConcluded(Last')
      BY <2>4 DEF Last, Held
    <3>2. AnswerTrue("halt", 409, None)'
      BY <3>1 DEF AnswerTrue
    <3> QED
      BY <1>a, <2>1, <2>4, <3>2, AnswerGiven
  <2>5. CASE Sending
    BY <1>a, <2>1, <2>5, SendingStarted
  <2> QED
    BY <1>3, <2>3, <2>4, <2>5 DEF HaltExperiment
<1>4. CASE Halted
  <2>1. request.stage = "sending" /\ request.about = "halt" /\ Answer(202, None)
    BY <1>4 DEF Halted
  <2>2. AnswerTrue("halt", 202, None)'
    BY DEF AnswerTrue
  <2> QED
    BY <1>a, <2>1, <2>2, AnswerGiven
<1>5. CASE GetExperiment
  <2>1. request.stage = "sent" /\ request.about = "experiment" /\ UNCHANGED <<record, past>>
    BY <1>5 DEF GetExperiment, Sent
  <2>2. CASE Held /\ Answer(200, View(record))
    <3>1. PICK o : o = View(record)
      OBVIOUS
    <3>2. Last' = record
      BY <2>1, <2>2 DEF Last, Held
    <3>3. Tells(o)'
      BY <3>1, <3>2 DEF Tells, View
    <3>4. AnswerTrue("experiment", 200, o)'
      BY <3>3 DEF AnswerTrue
    <3>5. Answer(200, o)
      BY <2>2, <3>1
    <3> QED
      BY <1>a, <2>1, <3>4, <3>5, AnswerGiven
  <2>3. CASE ~Held /\ Answer(404, None)
    <3>1. command = "wait" => Wiped
      BY <1>b, <2>1, <2>3 DEF FirstAbout, Recorded, Last, Wiped
    <3>2. command' = "wait" => Wiped'
      BY <2>1, <3>1 DEF Wiped, Held
    <3>3. "record" \notin steady'
      BY <2>3 DEF SteadyInv
    <3>4. AnswerTrue("experiment", 404, None)'
      BY <3>2, <3>3 DEF AnswerTrue
    <3> QED
      BY <1>a, <2>1, <2>3, <3>4, AnswerGiven
  <2> QED
    BY <1>5, <2>2, <2>3 DEF GetExperiment
<1>6. CASE List
  <2>1. request.stage = "sent" /\ request.about = "list" /\ Answer(200, None)
    BY <1>6 DEF List, Sent
  <2>2. AnswerTrue("list", 200, None)'
    BY DEF AnswerTrue
  <2> QED
    BY <1>a, <2>1, <2>2, AnswerGiven
<1>7. CASE GetAgent(Target[1])
  <2>1. request.stage = "sent" /\ request.about = "agent"
    BY <1>7 DEF GetAgent, Sent
  <2>2. CASE Answer(200, None)
    <3>1. AnswerTrue("agent", 200, None)'
      BY DEF AnswerTrue
    <3> QED
      BY <1>a, <2>1, <2>2, <3>1, AnswerGiven
  <2>3. CASE Target[1] \notin agents /\ Answer(404, None)
    <3>1. AnswerTrue("agent", 404, None)'
      BY <2>3 DEF AnswerTrue, SteadyInv
    <3> QED
      BY <1>a, <2>1, <2>3, <3>1, AnswerGiven
  <2> QED
    BY <1>7, <2>2, <2>3 DEF GetAgent
<1>8. CASE ClearTaint(Target[1])
  <2>1. request.stage = "sent" /\ request.about = "clear"
    BY <1>8 DEF ClearTaint, Sent
  <2>2. CASE Answer(202, None)
    <3>1. AnswerTrue("clear", 202, None)'
      BY DEF AnswerTrue
    <3> QED
      BY <1>a, <2>1, <2>2, <3>1, AnswerGiven
  <2>3. CASE Target[1] \notin agents /\ Answer(404, None)
    <3>1. AnswerTrue("clear", 404, None)'
      BY <2>3 DEF AnswerTrue, SteadyInv
    <3> QED
      BY <1>a, <2>1, <2>3, <3>1, AnswerGiven
  <2>4. CASE Target[1] \in agents \ online /\ Answer(409, None)
    <3>1. AnswerTrue("clear", 409, None)'
      BY <2>4 DEF AnswerTrue, SteadyInv
    <3> QED
      BY <1>a, <2>1, <2>4, <3>1, AnswerGiven
  <2> QED
    BY <1>8, <2>2, <2>3, <2>4 DEF ClearTaint
<1> QED
  BY <1>1, <1>2, <1>3, <1>4, <1>5, <1>6, <1>7, <1>8 DEF Handle

-----------------------------------------------------------------------------
(***************************************************************************)
(* The command, while the master goes on.                                  *)
(***************************************************************************)

(* Before its first request, and after its own was refused, nobody submits. *)
LEMMA ElsewhereQuiet ==
  ASSUME Elsewhere
  PROVE  /\ \/ UNCHANGED request
            \/ request' = NoRequest /\ request.stage \in {"sent", "sending"}
         /\ command \in {None, "tui"} \cup Own /\ dispatch = "unsubmitted" =>
              dispatch' = "unsubmitted"
  BY DEF Elsewhere, SubmitElsewhere, HaltElsewhere, Register, Leave, TaintReport, Status,
     DeadlinePasses, Restart, storeVars, Own

(* A command that has ended, or not, and is not touched.                    *)
LEMMA ExitStays ==
  ASSUME ExitInv, StoreKeeps, steady' \subseteq steady, excuse \subseteq excuse',
         UNCHANGED <<at, code, command>>,
         Done(Own, EXIT_VALIDATION) => dispatch' = "unsubmitted" /\ request'.stage = "answered"
  PROVE  ExitInv'
<1>2. /\ Recorded => Recorded'
      /\ IsConcluded(Last) => Last'.phase = Last.phase /\ IsConcluded(Last')
      /\ Wiped => Wiped'
  BY DEF StoreKeeps, IsConcluded
<1>3. Excused => Excused'
  BY DEF Excused
<1>4. /\ Last.phase = "Completed" => Last'.phase = "Completed"
      /\ Last.phase = "AbortedClean" => Last'.phase = "AbortedClean"
      /\ Last.phase = "Failed" => Last'.phase = "Failed"
  BY <1>2 DEF IsConcluded, Concluded
<1>5. /\ Done(Own, EXIT_VALIDATION)' <=> Done(Own, EXIT_VALIDATION)
      /\ Done(Own, EXIT_OK)' <=> Done(Own, EXIT_OK)
      /\ Done({"wait"}, EXIT_OK)' <=> Done({"wait"}, EXIT_OK)
      /\ Done(Command, EXIT_EXPERIMENT_ABORTED)' <=> Done(Command, EXIT_EXPERIMENT_ABORTED)
      /\ Done(Command, EXIT_EXPERIMENT_ERROR)' <=> Done(Command, EXIT_EXPERIMENT_ERROR)
      /\ Done({"experiment", "halt"}, EXIT_NOT_FOUND)' <=> Done({"experiment", "halt"}, EXIT_NOT_FOUND)
      /\ Done({"agent", "clear"}, EXIT_NOT_FOUND)' <=> Done({"agent", "clear"}, EXIT_NOT_FOUND)
      /\ Done(Own \cup {"list"}, EXIT_NOT_FOUND)' <=> Done(Own \cup {"list"}, EXIT_NOT_FOUND)
      /\ Done({"run", "experiment", "agent", "list"}, EXIT_ERROR)'
           <=> Done({"run", "experiment", "agent", "list"}, EXIT_ERROR)
      /\ Done({"wait"}, EXIT_ERROR)' <=> Done({"wait"}, EXIT_ERROR)
      /\ Done({"halt"}, EXIT_ERROR)' <=> Done({"halt"}, EXIT_ERROR)
      /\ Done({"clear"}, EXIT_ERROR)' <=> Done({"clear"}, EXIT_ERROR)
  BY DEF Done
<1>6. UNCHANGED command /\ steady' \subseteq steady /\ excuse \subseteq excuse'
  OBVIOUS
<1> QED
  BY <1>2, <1>3, <1>4, <1>5, <1>6 DEF ExitInv

(* Before the end nothing has been said.                                    *)
LEMMA ExitNotYet ==
  ASSUME at' # "exited"
  PROVE  ExitInv'
  BY DEF ExitInv, Done

(* The rest of the world.                                                   *)
LEMMA ElsewhereCommand ==
  ASSUME CommandInv, Elsewhere, UNCHANGED <<command, at, code, excuse, loading>>, [Next]_vars
  PROVE  CommandInv'
<1>1. StoreInv' /\ StoreKeeps /\ FleetInv' /\ SteadyInv' /\ steady' \subseteq steady
  BY StoreStep, FleetStep, SteadyStep DEF CommandInv
<1>2. /\ \/ UNCHANGED request
         \/ request' = NoRequest /\ request.stage \in {"sent", "sending"}
      /\ command \in {None, "tui"} \cup Own /\ dispatch = "unsubmitted" => dispatch' = "unsubmitted"
  BY ElsewhereQuiet
<1>3. RequestInv'
  <2>1. Keeps
    BY <1>1, <1>2 DEF Keeps
  <2> QED
    BY <1>2, <2>1, RequestStays, RequestGone DEF CommandInv
<1>4. PlaceInv'
  <2>1. NoRequest.stage = "none"
    BY DEF NoRequest
  <2>2. Recorded => Recorded'
    BY <1>1 DEF StoreKeeps
  <2> QED
    BY <1>2, <2>1, <2>2 DEF CommandInv, PlaceInv
<1>5. ExitInv'
  <2>1. Done(Own, EXIT_VALIDATION) => command \in Own
    BY DEF Done
  <2>2. Done(Own, EXIT_VALIDATION) => dispatch' = "unsubmitted" /\ request'.stage = "answered"
    BY <1>2, <2>1 DEF CommandInv, ExitInv
  <2> QED
    BY <1>1, <2>2, ExitStays DEF CommandInv
<1> QED
  BY <1>1, <1>3, <1>4, <1>5 DEF CommandInv

(* The master's handlers.                                                   *)
LEMMA HandleCommand ==
  ASSUME CommandInv, Handle, UNCHANGED <<cliVars, loading>>, [Next]_vars
  PROVE  CommandInv'
<1> USE DEF cliVars
<1>1. StoreInv' /\ StoreKeeps /\ FleetInv' /\ SteadyInv' /\ steady' \subseteq steady
  BY StoreStep, FleetStep, SteadyStep DEF CommandInv
<1>2. /\ RequestInv'
      /\ request.stage \in {"sent", "sending"}
      /\ request'.stage \in {"sending", "answered"} /\ request'.about = request.about
  BY HandleRequest DEF CommandInv
<1>3. PlaceInv'
  <2>1. Recorded => Recorded'
    BY <1>1 DEF StoreKeeps
  <2> QED
    BY <1>2, <2>1 DEF CommandInv, PlaceInv
<1>4. ExitInv'
  <2>1. ~Done(Own, EXIT_VALIDATION)
    BY <1>2 DEF CommandInv, ExitInv
  <2> QED
    BY <1>1, <2>1, ExitStays DEF CommandInv
<1> QED
  BY <1>1, <1>2, <1>3, <1>4 DEF CommandInv

(***************************************************************************)
(* The process itself.                                                     *)
(***************************************************************************)

(* What none of its actions can disturb.                                    *)
LEMMA ClientPlane ==
  ASSUME CommandInv, Client, [Next]_vars
  PROVE  /\ StoreInv' /\ StoreKeeps /\ FleetInv' /\ SteadyInv'
         /\ steady' \subseteq steady \/ at' # at
  BY StoreStep, FleetStep, SteadyStep DEF CommandInv

(* A step in mid-command that leaves the request alone.                     *)
LEMMA RequestKept ==
  ASSUME CommandInv, Client, [Next]_vars, UNCHANGED <<request, command, dispatch>>,
         steady' = steady
  PROVE  RequestInv'
<1>1. Keeps
  BY ClientPlane DEF Keeps
<1> QED
  BY <1>1, RequestStays DEF CommandInv

(* What an answer means to the process that got it.                         *)
LEMMA AnswerRead ==
  ASSUME CommandInv, Answered
  PROVE  /\ AnswerTrue(request.about, request.reply.status, request.reply.outcome)
         /\ at = "asking" => request.about = FirstAbout(command)
         /\ at = "polling" => request.about = "experiment" /\ command = "wait" /\ Recorded
  BY DEF CommandInv, RequestInv, PlaceInv, Answered

LEMMA MisusedCommand ==
  ASSUME CommandInv, Misused, [Next]_vars
  PROVE  CommandInv'
<1> USE DEF planeVars, storeVars, fleetVars
<1>1. StoreInv' /\ FleetInv' /\ SteadyInv'
  BY ClientPlane DEF Client
<1>2. RequestInv'
  BY DEF CommandInv, RequestInv, PlaceInv, Misused
<1>3. PlaceInv'
  BY DEF PlaceInv, Misused, Exit
<1>4. ExitInv'
  <2>1. at' = "exited" /\ code' = 1 /\ Excused'
    BY DEF Misused, Exit, Blame, Excused, EXIT_ERROR
  <2> QED
    BY <2>1 DEF ExitInv, Done, EXIT_OK, EXIT_ERROR, EXIT_NOT_FOUND, EXIT_VALIDATION,
       EXIT_EXPERIMENT_ABORTED, EXIT_EXPERIMENT_ERROR
<1> QED
  BY <1>1, <1>2, <1>3, <1>4 DEF CommandInv

LEMMA GiveCommand ==
  ASSUME CommandInv, NEW c \in Command, Give(c), [Next]_vars
  PROVE  CommandInv'
<1>1. StoreInv' /\ FleetInv' /\ SteadyInv'
  BY ClientPlane DEF Client
<1>2. /\ at' = "asking" /\ command' = c /\ request' = Asked(FirstAbout(c))
      /\ request'.stage = "sent" /\ request'.about = FirstAbout(c)
  BY DEF Give, Asked, FirstAbout
<1>3. RequestInv'
  BY <1>2 DEF RequestInv, Asked
<1>4. PlaceInv'
  BY <1>2 DEF PlaceInv
<1> QED
  BY <1>1, <1>2, <1>3, <1>4, ExitNotYet DEF CommandInv

LEMMA RequestFailsCommand ==
  ASSUME CommandInv, RequestFails, [Next]_vars
  PROVE  CommandInv'
<1>1. /\ StoreInv' /\ FleetInv' /\ SteadyInv' /\ RequestInv'
  BY ClientPlane, RequestKept DEF RequestFails, Client, storeVars
<1>2. PlaceInv'
  BY DEF CommandInv, PlaceInv, RequestFails, Exit
<1>3. ExitInv'
  <2>1. at' = "exited" /\ code' = 1 /\ Excused'
    BY DEF RequestFails, Exit, Blame, Excused, EXIT_ERROR
  <2> QED
    BY <2>1 DEF ExitInv, Done, EXIT_OK, EXIT_ERROR, EXIT_NOT_FOUND, EXIT_VALIDATION,
       EXIT_EXPERIMENT_ABORTED, EXIT_EXPERIMENT_ERROR
<1> QED
  BY <1>1, <1>2, <1>3 DEF CommandInv

LEMMA AbandonedCommand ==
  ASSUME CommandInv, Abandoned, [Next]_vars
  PROVE  CommandInv'
<1>1. /\ StoreInv' /\ StoreKeeps /\ FleetInv' /\ SteadyInv'
  BY ClientPlane DEF Client
<1>2. /\ request' = NoRequest /\ request.stage \in {"sent", "sending"} /\ at = "exited"
      /\ UNCHANGED <<command, at, code, excuse, steady, loading>>
  BY DEF Abandoned, Drop, cliVars, tuiVars
<1>3. RequestInv'
  BY <1>2, RequestGone
<1>4. PlaceInv'
  BY <1>2 DEF CommandInv, PlaceInv
<1>5. ExitInv'
  <2>1. ~Done(Own, EXIT_VALIDATION)
    BY <1>2 DEF CommandInv, ExitInv
  <2> QED
    BY <1>1, <1>2, <2>1, ExitStays DEF CommandInv
<1> QED
  BY <1>1, <1>3, <1>4, <1>5 DEF CommandInv

LEMMA PresentCommand ==
  ASSUME CommandInv, Present, [Next]_vars
  PROVE  CommandInv'
<1> USE DEF planeVars, storeVars
<1>1. /\ StoreInv' /\ FleetInv' /\ SteadyInv' /\ RequestInv'
  BY ClientPlane, RequestKept DEF Present, Client, OneShot
<1>2. Answered /\ at = "asking" /\ at' = "printing" /\ UNCHANGED <<request, command, record, past>>
  BY DEF Present, Got
<1>3. command \in Command /\ request.about = FirstAbout(command)
      /\ AnswerTrue(request.about, request.reply.status, request.reply.outcome)
  BY <1>2, AnswerRead DEF CommandInv, PlaceInv
<1>4. command = "run" => Recorded
  BY <1>3 DEF AnswerTrue, FirstAbout, Present, Got
<1>5. command # "wait"
  BY <1>3 DEF AnswerTrue, FirstAbout, Present, Got
<1>6. PlaceInv'
  <2>1. request.stage = "answered"
    BY <1>2 DEF Answered
  <2>2. Recorded' <=> Recorded
    BY <1>2 DEF Recorded, Last, Held
  <2> QED
    BY <1>2, <1>3, <1>4, <1>5, <2>1, <2>2 DEF PlaceInv
<1> QED
  BY <1>1, <1>2, <1>6, ExitNotYet DEF CommandInv

LEMMA RejectCommand ==
  ASSUME CommandInv, Reject, [Next]_vars
  PROVE  CommandInv'
<1> USE DEF planeVars, storeVars
<1>1. /\ StoreInv' /\ FleetInv' /\ SteadyInv' /\ RequestInv'
  BY ClientPlane, RequestKept DEF Reject, Client, OneShot
<1>2. /\ Answered /\ at = "asking" /\ at' = "exited" /\ request.stage = "answered"
      /\ UNCHANGED <<request, command, record, past, dispatch, steady>>
  BY DEF Reject, Got, Exit, Answered
<1>3. PlaceInv'
  BY <1>2 DEF CommandInv, PlaceInv
<1>4. /\ command \in Command /\ request.about = FirstAbout(command)
      /\ AnswerTrue(request.about, request.reply.status, request.reply.outcome)
  BY <1>2, AnswerRead DEF CommandInv, PlaceInv
<1>5. IsConcluded(Last) => IsConcluded(Last')
  BY <1>2 DEF Last, Held
<1>6. ASSUME request.reply.status = 422 /\ code' = 3 PROVE ExitInv'
  <2>1. command \in Own /\ dispatch = "unsubmitted"
    BY <1>4, <1>6 DEF AnswerTrue, FirstAbout, Own
  <2> QED
    BY <1>2, <1>6, <2>1 DEF ExitInv, Done, EXIT_OK, EXIT_ERROR, EXIT_NOT_FOUND, EXIT_VALIDATION,
       EXIT_EXPERIMENT_ABORTED, EXIT_EXPERIMENT_ERROR
<1>7. ASSUME request.reply.status = 404 /\ code' = 2 PROVE ExitInv'
  <2>1. \/ command \in {"halt", "experiment"} /\ "record" \notin steady
        \/ command \in {"agent", "clear"} /\ "agent" \notin steady
    BY <1>4, <1>7 DEF AnswerTrue, FirstAbout
  <2> QED
    BY <1>2, <1>7, <2>1 DEF ExitInv, Done, Own, EXIT_OK, EXIT_ERROR, EXIT_NOT_FOUND,
       EXIT_VALIDATION, EXIT_EXPERIMENT_ABORTED, EXIT_EXPERIMENT_ERROR
<1>8. ASSUME request.reply.status = 409 /\ code' = 1 PROVE ExitInv'
  <2>1. \/ command = "halt" /\ IsConcluded(Last)
        \/ command = "clear" /\ "session" \notin steady
    BY <1>4, <1>8 DEF AnswerTrue, FirstAbout
  <2> QED
    BY <1>2, <1>5, <1>8, <2>1 DEF ExitInv, Done, EXIT_OK, EXIT_ERROR, EXIT_NOT_FOUND,
       EXIT_VALIDATION, EXIT_EXPERIMENT_ABORTED, EXIT_EXPERIMENT_ERROR
<1>9. ExitInv'
  BY <1>6, <1>7, <1>8 DEF Reject, Got, Exit, EXIT_VALIDATION, EXIT_NOT_FOUND, EXIT_ERROR
<1> QED
  BY <1>1, <1>3, <1>9 DEF CommandInv

LEMMA PollCommand ==
  ASSUME CommandInv, Poll, [Next]_vars
  PROVE  CommandInv'
<1>1. /\ StoreInv' /\ StoreKeeps /\ FleetInv' /\ SteadyInv'
  BY ClientPlane DEF Client, OneShot
<1>2. /\ at' = "polling" /\ request' = Asked("experiment") /\ command' = command
      /\ request'.stage = "sent" /\ request'.about = "experiment"
  BY DEF Poll, Asked
<1>3. command = "wait" /\ Recorded
  <2>1. CASE at = "sleeping"
    BY <2>1 DEF CommandInv, PlaceInv
  <2>2. CASE at = "asking" /\ command = "wait" /\ Got(201)
    BY <2>2, AnswerRead DEF Got, AnswerTrue
  <2> QED
    BY <2>1, <2>2 DEF Poll
<1>4. Recorded'
  BY <1>1, <1>3 DEF StoreKeeps
<1>5. RequestInv'
  BY <1>2, <1>3, <1>4 DEF RequestInv, Asked, Command
<1>6. PlaceInv'
  BY <1>2, <1>3, <1>4 DEF PlaceInv, Command
<1> QED
  BY <1>1, <1>2, <1>5, <1>6, ExitNotYet DEF CommandInv

LEMMA PolledCommand ==
  ASSUME CommandInv, Polled, [Next]_vars
  PROVE  CommandInv'
<1> USE DEF planeVars, storeVars
<1>1. /\ StoreInv' /\ FleetInv' /\ SteadyInv' /\ RequestInv'
  BY ClientPlane, RequestKept DEF Polled, Client, OneShot
<1>2. /\ Answered /\ at = "polling" /\ request.stage = "answered"
      /\ UNCHANGED <<request, command, record, past, dispatch, steady>>
  BY DEF Polled, Got, Answered
<1>3. /\ request.about = "experiment" /\ command = "wait" /\ Recorded
      /\ AnswerTrue(request.about, request.reply.status, request.reply.outcome)
  BY <1>2, AnswerRead
<1>4. Recorded' /\ (Wiped => Wiped')
  BY <1>2, <1>3 DEF Recorded, Last, Held, Wiped
<1>5. CASE request.reply.status = 404 /\ at' = "exited" /\ code' = 1
  <2>1. PlaceInv'
    BY <1>2, <1>3, <1>5 DEF PlaceInv, Command
  <2>2. Wiped
    BY <1>3, <1>5 DEF AnswerTrue
  <2>3. ExitInv'
    BY <1>2, <1>3, <1>4, <1>5, <2>2 DEF ExitInv, Done, Own, EXIT_OK, EXIT_ERROR, EXIT_NOT_FOUND,
       EXIT_VALIDATION, EXIT_EXPERIMENT_ABORTED, EXIT_EXPERIMENT_ERROR
  <2> QED
    BY <1>1, <2>1, <2>3 DEF CommandInv
<1>6. CASE /\ request.reply.status = 200
           /\ at' = IF request.reply.outcome = None THEN "sleeping" ELSE "printing"
  <2>1. PlaceInv'
    BY <1>2, <1>3, <1>4, <1>6 DEF PlaceInv, Command
  <2> QED
    BY <1>1, <1>6, <2>1, ExitNotYet DEF CommandInv
<1> QED
  BY <1>5, <1>6 DEF Polled, Got, Exit, EXIT_ERROR

LEMMA EmitCommand ==
  ASSUME CommandInv, Emit, [Next]_vars
  PROVE  CommandInv'
<1> USE DEF planeVars, storeVars
<1>1. /\ StoreInv' /\ FleetInv' /\ SteadyInv' /\ RequestInv'
  BY ClientPlane, RequestKept DEF Emit, Client, OneShot
<1>2. /\ at = "printing" /\ at' = "exited"
      /\ UNCHANGED <<request, command, record, past, dispatch, steady>>
  BY DEF Emit, Exit
<1>3. PlaceInv'
  BY <1>2 DEF CommandInv, PlaceInv
<1>4. /\ UNCHANGED <<Recorded, Last>>
      /\ command \in Command
      /\ command = "run" => Recorded
  BY <1>2 DEF CommandInv, PlaceInv, Recorded, Last, Held
<1> DEFINE outcome == request.reply.outcome
<1>5. command = "wait" => /\ Recorded /\ IsConcluded(Last)
                          /\ outcome = OutcomeLabel[Last.phase]
  <2> SUFFICES ASSUME command = "wait"
               PROVE  Recorded /\ IsConcluded(Last) /\ outcome = OutcomeLabel[Last.phase]
    OBVIOUS
  <2>1. /\ request.about = "experiment" /\ request.reply.status = 200 /\ outcome # None
        /\ AnswerTrue(request.about, request.reply.status, outcome)
    BY <1>2 DEF CommandInv, PlaceInv, RequestInv
  <2>2. IsConcluded(Last) /\ outcome = OutcomeLabel[Last.phase]
    BY <2>1 DEF AnswerTrue, Tells
  <2> QED
    BY <2>2, NoRecordFacts DEF Recorded
<1>6. command = "wait" =>
        \/ Last.phase = "Completed" /\ OutcomeExitCode(outcome) = 0
        \/ Last.phase = "AbortedClean" /\ OutcomeExitCode(outcome) = 4
        \/ Last.phase = "Failed" /\ OutcomeExitCode(outcome) = 5
  BY <1>5 DEF IsConcluded, Concluded, OutcomeLabel, OutcomeExitCode, EXIT_OK,
     EXIT_EXPERIMENT_ABORTED, EXIT_EXPERIMENT_ERROR
<1>7. ASSUME code' = (IF command = "wait" THEN OutcomeExitCode(outcome) ELSE EXIT_OK)
      PROVE  ExitInv'
  BY <1>2, <1>4, <1>5, <1>6, <1>7 DEF ExitInv, Done, Own, EXIT_OK, EXIT_ERROR, EXIT_NOT_FOUND,
     EXIT_VALIDATION, EXIT_EXPERIMENT_ABORTED, EXIT_EXPERIMENT_ERROR
<1>8. ASSUME code' = EXIT_OK /\ "pipe" \in excuse' PROVE ExitInv'
  BY <1>2, <1>4, <1>5, <1>8 DEF ExitInv, Done, Own, EXIT_OK, EXIT_ERROR, EXIT_NOT_FOUND,
     EXIT_VALIDATION, EXIT_EXPERIMENT_ABORTED, EXIT_EXPERIMENT_ERROR
<1>9. ASSUME code' = EXIT_ERROR /\ Excused' PROVE ExitInv'
  BY <1>2, <1>9 DEF ExitInv, Done, Own, EXIT_OK, EXIT_ERROR, EXIT_NOT_FOUND,
     EXIT_VALIDATION, EXIT_EXPERIMENT_ABORTED, EXIT_EXPERIMENT_ERROR
<1>10. ExitInv'
  BY <1>7, <1>8, <1>9 DEF Emit, Exit, Blame, Excused
<1> QED
  BY <1>1, <1>3, <1>10 DEF CommandInv

(***************************************************************************)
(* The fleet view submits nothing and asks for no experiment, so what the  *)
(* exit code means is not its concern.                                     *)
(***************************************************************************)
LEMMA OpenCommand ==
  ASSUME CommandInv, Open, [Next]_vars
  PROVE  CommandInv'
<1> USE DEF planeVars
<1>1. StoreInv' /\ FleetInv' /\ SteadyInv'
  BY ClientPlane DEF Client
<1>2. /\ at' = "loop" /\ command' = "tui" /\ request' = request /\ request.stage = "none"
  BY DEF Open, CommandInv, PlaceInv
<1>3. RequestInv'
  BY <1>2 DEF CommandInv, RequestInv
<1>4. PlaceInv'
  BY <1>2 DEF PlaceInv
<1> QED
  BY <1>1, <1>2, <1>3, <1>4, ExitNotYet DEF CommandInv

(* A step of the open view, which may close it.                             *)
LEMMA ViewCommand ==
  ASSUME CommandInv, Client, [Next]_vars, at = "loop", at' \in {"loop", "exited"},
         UNCHANGED <<storeVars, request, command, excuse, steady>>
  PROVE  CommandInv'
<1> USE DEF storeVars
<1>1. /\ StoreInv' /\ FleetInv' /\ SteadyInv' /\ RequestInv'
  BY ClientPlane, RequestKept
<1>2. command = "tui" /\ command' = "tui"
  BY DEF CommandInv, PlaceInv
<1>3. PlaceInv'
  BY <1>2 DEF PlaceInv
<1>4. ExitInv'
  BY <1>2 DEF ExitInv, Done, Own, Command
<1> QED
  BY <1>1, <1>3, <1>4 DEF CommandInv

LEMMA EventCommand ==
  ASSUME CommandInv, Event, [Next]_vars
  PROVE  CommandInv'
<1>1. /\ at = "loop" /\ at' \in {"loop", "exited"}
      /\ UNCHANGED <<storeVars, request, command, excuse, steady>>
  BY DEF Event, Tick, AgentsLoaded, AgentsFailed, HandleKey, Take, Exit, planeVars, cliVars
<1>2. Client
  BY DEF Client
<1> QED
  BY <1>1, <1>2, ViewCommand

LEMMA FetchCommand ==
  ASSUME CommandInv, [Next]_vars, NEW k \in FetchId, ListAgents(k) \/ FetchEnds(k) \/ FetchFails(k)
  PROVE  CommandInv'
<1>1. /\ at = "loop" /\ at' = "loop"
      /\ UNCHANGED <<storeVars, request, command, excuse, steady>>
  BY DEF ListAgents, FetchEnds, FetchFails, planeVars, cliVars
<1>2. Client
  BY DEF Client
<1> QED
  BY <1>1, <1>2, ViewCommand

LEMMA PressCommand ==
  ASSUME CommandInv, [Next]_vars, NEW k \in {"r", "up", "down", "q"}, Press(k)
  PROVE  CommandInv'
<1>1. /\ at = "loop" /\ at' = "loop"
      /\ UNCHANGED <<storeVars, request, command, excuse, steady>>
  BY DEF Press, planeVars, cliVars
<1>2. Client
  BY DEF Client
<1> QED
  BY <1>1, <1>2, ViewCommand

(***************************************************************************)
(* The theorem.                                                            *)
(***************************************************************************)
LEMMA CommandInit == Init => CommandInv
<1> SUFFICES ASSUME Init PROVE CommandInv
  OBVIOUS
<1> USE DEF Init, PlaneInit
<1>1. StoreInv
  BY DEF StoreInv
<1>2. FleetInv
  BY ManagementAssumption DEF FleetInv
<1>3. SteadyInv
  BY DEF SteadyInv
<1>4. request = NoRequest /\ request.stage = "none" /\ at = "start" /\ command = None
  BY DEF NoRequest
<1>5. RequestInv
  BY <1>4 DEF RequestInv, NoRequest, Nothing
<1>6. PlaceInv
  BY <1>4 DEF PlaceInv
<1>7. ExitInv
  BY <1>4 DEF ExitInv, Done
<1> QED
  BY <1>1, <1>2, <1>3, <1>5, <1>6, <1>7 DEF CommandInv

LEMMA StutterCommand ==
  ASSUME CommandInv, UNCHANGED vars
  PROVE  CommandInv'
<1>1. UNCHANGED <<record, past, dispatch, agents, online, flagged, request, trouble>>
      /\ UNCHANGED <<command, at, code, excuse, steady, loading>>
  BY DEF vars, planeVars, storeVars, fleetVars, cliVars, tuiVars
<1>2. StoreInv' /\ FleetInv'
  BY <1>1 DEF CommandInv, StoreInv, FleetInv
<1>3. Held' = Held /\ Last' = Last
  BY <1>1 DEF Held, Last
<1>4. SteadyInv'
  BY <1>1, <1>3 DEF CommandInv, SteadyInv
<1>5. StoreKeeps /\ Keeps
  BY <1>1, <1>3 DEF StoreKeeps, Keeps, Recorded, Wiped
<1>6. RequestInv'
  BY <1>1, <1>5, RequestStays DEF CommandInv
<1>7. PlaceInv'
  BY <1>1, <1>3 DEF CommandInv, PlaceInv, Recorded
<1>8. ExitInv'
  <2>1. Done(Own, EXIT_VALIDATION) => dispatch' = "unsubmitted" /\ request'.stage = "answered"
    BY <1>1 DEF CommandInv, ExitInv
  <2> QED
    BY <1>1, <1>5, <2>1, ExitStays DEF CommandInv
<1> QED
  BY <1>2, <1>4, <1>6, <1>7, <1>8 DEF CommandInv

LEMMA CommandStep ==
  ASSUME CommandInv, [Next]_vars
  PROVE  CommandInv'
<1>1. CASE UNCHANGED vars
  BY <1>1, StutterCommand
<1>2. CASE Client
  <2>1. CASE Misused \/ RequestFails \/ Abandoned \/ Open \/ Event
    BY <2>1, MisusedCommand, RequestFailsCommand, AbandonedCommand, OpenCommand, EventCommand
  <2>2. CASE OneShot
    BY <2>2, PresentCommand, RejectCommand, PollCommand, PolledCommand, EmitCommand DEF OneShot
  <2>3. CASE \E c \in Command : Give(c)
    BY <2>3, GiveCommand
  <2>4. CASE \E k \in FetchId : ListAgents(k) \/ FetchEnds(k) \/ FetchFails(k)
    BY <2>4, FetchCommand
  <2>5. CASE \E k \in {"r", "up", "down", "q"} : Press(k)
    BY <2>5, PressCommand
  <2> QED
    BY <1>2, <2>1, <2>2, <2>3, <2>4, <2>5 DEF Client
<1>3. CASE Handle /\ UNCHANGED <<cliVars, tuiVars>>
  BY <1>3, HandleCommand DEF tuiVars
<1>4. CASE Elsewhere /\ UNCHANGED <<command, at, code, excuse, tuiVars>>
  BY <1>4, ElsewhereCommand DEF tuiVars
<1> QED
  BY <1>1, <1>2, <1>3, <1>4 DEF Next

LEMMA CommandAlways == Spec => []CommandInv
<1>1. CommandInv /\ [Next]_vars => CommandInv'
  BY CommandStep
<1> QED
  BY <1>1, CommandInit, PTL DEF Spec

(* A script that reads the exit code of a command is told the truth about   *)
(* the experiment, whatever the master, its agents and other operators did  *)
(* between the answers: 3 means that nothing was minted, 0, 4 and 5 after a *)
(* wait that it ended so, 2 that the master had lost it or never had it     *)
(* (run_experiment_file, outcome_exit_code, emit; phase_labels).            *)
THEOREM TheExitCodeIsTheTruth == Spec => []ExitTellsTruth
<1>1. CommandInv => ExitTellsTruth
  <2> SUFFICES ASSUME CommandInv PROVE ExitTellsTruth
    OBVIOUS
  <2>1. dispatch = "unsubmitted" => Last = NoRecord
    BY DEF CommandInv, StoreInv, Last
  <2>2. Recorded <=> Last # NoRecord
    BY DEF Recorded
  <2>3. Wiped <=> ~Held /\ past # NoRecord
    BY DEF Wiped
  <2> QED
    BY <2>1, <2>2, <2>3 DEF CommandInv, ExitInv, ExitTellsTruth
<1> QED
  BY <1>1, CommandAlways, PTL

(***************************************************************************)
(* Numbers: the least of a set, the free fetch, and how a queue's keys and *)
(* results are counted as messages come and go.                            *)
(***************************************************************************)
LEMMA LeastExists ==
  ASSUME NEW S \in SUBSET Nat, S # {}
  PROVE  Min(S) \in S /\ \A y \in S : Min(S) <= y
<1> DEFINE less == {p \in Nat \X Nat : p[1] < p[2]}
<1>1. IsWellFoundedOn(less, Nat)
  BY Zenon, NatLessThanWellFounded DEF OpToRel
<1>2. PICK x \in S : \A y \in S : <<y, x>> \notin less
  <2> HIDE DEF less
  <2> QED
    BY <1>1, WFMin
<1>3. ASSUME NEW y \in S PROVE x <= y
  <2>1. x \in Nat /\ y \in Nat
    OBVIOUS
  <2>2. ~(y < x)
    BY <1>2, <2>1
  <2> QED
    BY <2>1, <2>2
<1> QED
  BY <1>3 DEF Min

LEMMA LeastOfTwo ==
  ASSUME NEW a \in Nat, NEW b \in Nat
  PROVE  Min({a, b}) \in Nat /\ Min({a, b}) <= a /\ Min({a, b}) <= b
  BY LeastExists

LEMMA PlacesFinite ==
  ASSUME NEW s \in Seq(Message), NEW kind
  PROVE  IsFiniteSet(Places(s, kind)) /\ Cardinality(Places(s, kind)) \in Nat
<1>1. IsFiniteSet(1..Len(s)) /\ Places(s, kind) \subseteq 1..Len(s)
  BY FS_Interval DEF Places
<1> QED
  BY <1>1, FS_Subset, FS_CardinalityType

LEMMA PlacesAppend ==
  ASSUME NEW s \in Seq(Message), NEW m \in Message, NEW kind
  PROVE  Cardinality(Places(Append(s, m), kind)) =
           Cardinality(Places(s, kind)) + (IF m \in kind THEN 1 ELSE 0)
<1>1. /\ Len(s) \in Nat /\ Len(Append(s, m)) = Len(s) + 1
      /\ \A i \in 1..Len(s) : Append(s, m)[i] = s[i]
      /\ Append(s, m)[Len(s) + 1] = m
  BY AppendProperties
<1>2. Len(s) + 1 \notin Places(s, kind)
  BY <1>1 DEF Places
<1>3. CASE m \in kind
  <2>1. Places(Append(s, m), kind) = Places(s, kind) \cup {Len(s) + 1}
    BY <1>1, <1>3 DEF Places
  <2> QED
    BY <1>2, <1>3, <2>1, PlacesFinite, FS_AddElement
<1>4. CASE m \notin kind
  <2>1. Places(Append(s, m), kind) = Places(s, kind)
    BY <1>1, <1>4 DEF Places
  <2> QED
    BY <1>4, <2>1, PlacesFinite
<1> QED
  BY <1>3, <1>4

LEMMA PlacesTail ==
  ASSUME NEW s \in Seq(Message), s # << >>, NEW kind
  PROVE  Cardinality(Places(s, kind)) =
           Cardinality(Places(Tail(s), kind)) + (IF Head(s) \in kind THEN 1 ELSE 0)
<1>1. /\ Tail(s) \in Seq(Message) /\ Len(s) \in Nat \ {0} /\ Len(Tail(s)) = Len(s) - 1
      /\ \A i \in 1..Len(Tail(s)) : Tail(s)[i] = s[i + 1]
      /\ Head(s) = s[1]
  BY HeadTailProperties, EmptySeq
<1> DEFINE later == Places(s, kind) \ {1}
           shift == [k \in Places(Tail(s), kind) |-> k + 1]
<1>2. \A k \in Places(Tail(s), kind) : k \in Nat /\ k + 1 \in later
  BY <1>1 DEF Places
<1>3. \A j \in later : j - 1 \in Places(Tail(s), kind) /\ shift[j - 1] = j
  BY <1>1 DEF Places
<1>4. shift \in Bijection(Places(Tail(s), kind), later)
  <2>1. shift \in [Places(Tail(s), kind) -> later] /\ IsInjective(shift)
    BY <1>2 DEF IsInjective
  <2>2. \A j \in later : \E k \in Places(Tail(s), kind) : shift[k] = j
    BY <1>3
  <2> QED
    BY <2>1, <2>2 DEF Bijection, Injection, Surjection
<1>5. Cardinality(later) = Cardinality(Places(Tail(s), kind))
  <2> HIDE DEF later, shift
  <2> QED
    BY <1>1, <1>4, PlacesFinite, FS_Bijection DEF ExistsBijection
<1>6. 1 \in Places(s, kind) <=> Head(s) \in kind
  BY <1>1 DEF Places
<1>7. /\ IsFiniteSet(Places(s, kind)) /\ Cardinality(Places(s, kind)) \in Nat
      /\ Cardinality(Places(Tail(s), kind)) \in Nat
  BY <1>1, PlacesFinite
<1>8. Cardinality(later) = IF 1 \in Places(s, kind) THEN Cardinality(Places(s, kind)) - 1
                                                     ELSE Cardinality(Places(s, kind))
  BY <1>7, FS_RemoveElement
<1> QED
  BY <1>5, <1>6, <1>7, <1>8

LEMMA MessageFacts ==
  /\ Failed \in ResultMessage
  /\ \A k \in {"r", "up", "down", "q"} : Key(k) \in KeyMessage
  /\ \A s \in Screen : Loaded(s) \in ResultMessage
  /\ \A m \in Message : m.msg = "Key" <=> m \in KeyMessage
  /\ \A m \in Message : m.msg = "AgentsLoaded" => m.fleet \in Screen
  /\ KeyMessage \subseteq Message /\ ResultMessage = Message \ KeyMessage
<1>1. Failed \in ResultMessage
  BY DEF Message, Failed, KeyMessage, ResultMessage, Key
<1>2. \A k \in {"r", "up", "down", "q"} : Key(k) \in KeyMessage
  BY DEF KeyMessage
<1>3. \A s \in Screen : Loaded(s) \in ResultMessage
  BY DEF Message, Loaded, ResultMessage, KeyMessage, Key
<1>4. ASSUME NEW m \in Message
      PROVE  /\ m.msg = "Key" <=> m \in KeyMessage
             /\ m.msg = "AgentsLoaded" => m.fleet \in Screen
  <2>1. CASE m = Failed
    BY <2>1 DEF Failed, KeyMessage, Key
  <2>2. CASE m \in KeyMessage
    BY <2>2 DEF KeyMessage, Key
  <2>3. CASE \E s \in Screen : m = Loaded(s)
    BY <2>3 DEF Loaded, KeyMessage, Key
  <2> QED
    BY <2>1, <2>2, <2>3 DEF Message, KeyMessage
<1>5. KeyMessage \subseteq Message /\ ResultMessage = Message \ KeyMessage
  BY DEF KeyMessage, Message, ResultMessage
<1> QED
  BY <1>1, <1>2, <1>3, <1>4, <1>5

LEMMA ScreenFacts ==
  /\ EmptyScreen \in Screen /\ Fleet \in Screen
  /\ Cardinality(Host) \in Nat
  /\ \A s \in Screen : Rows(s) \in Nat /\ Rows(s) <= Cardinality(Host)
<1>1. EmptyScreen \in Screen /\ Fleet \in Screen
  BY DEF EmptyScreen, Fleet, Screen
<1>2. IsFiniteSet(Host) /\ Cardinality(Host) \in Nat
  BY ConsoleAssumption, FS_CardinalityType
<1>3. ASSUME NEW s \in Screen
      PROVE  Rows(s) \in Nat /\ Rows(s) <= Cardinality(Host)
  <2> DEFINE rows == {h \in Host : s[h] # "absent"}
  <2>1. rows \subseteq Host
    OBVIOUS
  <2>2. IsFiniteSet(rows) /\ Cardinality(rows) <= Cardinality(Host)
    BY <1>2, <2>1, FS_Subset
  <2> QED
    BY <2>2, FS_CardinalityType DEF Rows
<1> QED
  BY <1>1, <1>2, <1>3

(***************************************************************************)
(* Fetches.                                                                *)
(***************************************************************************)
LEMMA InFlightFinite ==
  IsFiniteSet(FetchId) /\ Cardinality(FetchId) = MaxKeys + 2
  /\ IsFiniteSet(InFlight) /\ Flying \in Nat
<1>1. MaxKeys + 2 \in Nat /\ MaxKeys \in Nat
  BY ConsoleAssumption
<1>2. IsFiniteSet(FetchId) /\ Cardinality(FetchId) = MaxKeys + 2
  BY <1>1, FS_Interval DEF FetchId
<1>3. InFlight \subseteq FetchId
  BY DEF InFlight
<1> QED
  BY <1>2, <1>3, FS_Subset, FS_CardinalityType DEF Flying

LEMMA FetchSpawned ==
  ASSUME fetch \in Fetches, Flying <= MaxKeys + 1, SpawnFetch
  PROVE  /\ fetch' \in Fetches
         /\ Flying' = Flying + 1
<1> DEFINE free == FetchId \ InFlight
           k == Min(free)
<1>1. free # {}
  <2>1. MaxKeys \in Nat
    BY ConsoleAssumption
  <2>2. InFlight # FetchId
    BY <2>1, InFlightFinite DEF Flying
  <2> QED
    BY <2>2 DEF InFlight
<1>2. k \in FetchId /\ k \notin InFlight
  <2>1. free \subseteq Nat
    BY ConsoleAssumption DEF FetchId
  <2>2. k \in free
    BY <1>1, <2>1, LeastExists
  <2> QED
    BY <2>2
<1>3. fetch' = [fetch EXCEPT ![k] = Fetch("asked", EmptyScreen)]
  BY DEF SpawnFetch
<1> HIDE DEF k, free
<1>4. Fetch("asked", EmptyScreen) # Idle
      /\ Fetch("asked", EmptyScreen) \in [stage : {"idle", "asked", "answered"}, fleet : Screen]
  BY ScreenFacts DEF Fetch, Idle
<1>5. fetch' \in Fetches
  BY <1>2, <1>3, <1>4 DEF Fetches
<1>6. InFlight' = InFlight \cup {k}
  <2>1. fetch'[k] # Idle /\ \A j \in FetchId : j # k => fetch'[j] = fetch[j]
    BY <1>2, <1>3, <1>4 DEF Fetches
  <2> QED
    BY <1>2, <2>1 DEF InFlight
<1> QED
  BY <1>2, <1>5, <1>6, InFlightFinite, FS_AddElement DEF Flying

LEMMA FetchAnswered ==
  ASSUME fetch \in Fetches, NEW k \in FetchId, ListAgents(k)
  PROVE  fetch' \in Fetches /\ Flying' = Flying
<1>1. fetch' = [fetch EXCEPT ![k] = Fetch("answered", Fleet)] /\ fetch[k].stage = "asked"
  BY DEF ListAgents
<1>2. /\ Fetch("answered", Fleet) # Idle
      /\ Fetch("answered", Fleet) \in [stage : {"idle", "asked", "answered"}, fleet : Screen]
      /\ fetch[k] # Idle
  BY <1>1, ScreenFacts DEF Fetch, Idle
<1>3. fetch' \in Fetches
  BY <1>1, <1>2 DEF Fetches
<1>4. fetch'[k] # Idle /\ \A j \in FetchId : j # k => fetch'[j] = fetch[j]
  BY <1>1, <1>2 DEF Fetches
<1>5. InFlight' = InFlight
  BY <1>2, <1>4 DEF InFlight
<1> QED
  BY <1>3, <1>5 DEF Flying

LEMMA FetchOver ==
  ASSUME fetch \in Fetches, NEW k \in InFlight, fetch' = [fetch EXCEPT ![k] = Idle]
  PROVE  /\ fetch' \in Fetches
         /\ Flying' = Flying - 1
<1>1. k \in FetchId /\ Idle \in [stage : {"idle", "asked", "answered"}, fleet : Screen]
  BY ScreenFacts DEF InFlight, Idle, Fetch
<1>2. fetch' \in Fetches
  BY <1>1 DEF Fetches
<1>3. fetch'[k] = Idle /\ \A j \in FetchId : j # k => fetch'[j] = fetch[j]
  BY <1>1 DEF Fetches
<1>4. InFlight' = InFlight \ {k}
  BY <1>1, <1>3 DEF InFlight
<1> QED
  BY <1>2, <1>4, InFlightFinite, FS_RemoveElement DEF Flying

(***************************************************************************)
(* Every step keeps the view sound.                                        *)
(***************************************************************************)

(* The numbers of the invariant are numbers.                                *)
LEMMA ViewNumbers ==
  ASSUME ViewInv
  PROVE  /\ MaxKeys \in Nat /\ keys \in Nat /\ forced \in Nat
         /\ Flying \in Nat
         /\ Results \in Nat
         /\ Pressed \in Nat
  BY ConsoleAssumption, InFlightFinite, PlacesFinite DEF ViewInv, Results, Pressed

LEMMA ViewStays ==
  ASSUME ViewInv, UNCHANGED tuiVars, code' \in EXIT_OK..EXIT_EXPERIMENT_ERROR
  PROVE  ViewInv'
<1>1. UNCHANGED <<shown, selected, loading, error, inbox, fetch, keys, forced>>
  BY DEF tuiVars
<1>2. UNCHANGED <<Flying, Results, Pressed>>
  BY <1>1 DEF Flying, Results, Pressed, InFlight
<1> QED
  BY <1>1, <1>2 DEF ViewInv

(* A fetch is spawned.                                                      *)
LEMMA ViewSpawns ==
  ASSUME ViewInv, SpawnFetch, Flying + Results <= forced, forced <= MaxKeys, loading' = TRUE,
         UNCHANGED <<code, shown, selected, error, inbox, keys, forced>>
  PROVE  ViewInv'
<1>1. Flying <= MaxKeys + 1
  BY ViewNumbers
<1>2. fetch' \in Fetches /\ Flying' = Flying + 1
  BY <1>1, FetchSpawned DEF ViewInv
<1>3. Results' = Results /\ Pressed' = Pressed
  BY DEF Results, Pressed
<1> QED
  BY <1>2, <1>3, ViewNumbers DEF ViewInv

LEMMA OpenView ==
  ASSUME CommandInv, ViewInv, Open
  PROVE  ViewInv'
<1>1. ~loading
  BY DEF CommandInv, PlaceInv, Open
<1>2. Flying + Results <= forced /\ forced <= MaxKeys
  BY <1>1, ViewNumbers DEF ViewInv
<1> QED
  BY <1>2, ViewSpawns DEF Open

LEMMA TickView ==
  ASSUME ViewInv, Tick
  PROVE  ViewInv'
<1>1. Flying + Results <= forced /\ forced <= MaxKeys
  BY ViewNumbers DEF ViewInv, Tick
<1>2. UNCHANGED code
  BY DEF Tick, cliVars
<1> QED
  BY <1>1, <1>2, ViewSpawns DEF Tick

LEMMA ListAgentsView ==
  ASSUME ViewInv, NEW k \in FetchId, ListAgents(k)
  PROVE  ViewInv'
<1>1. fetch' \in Fetches /\ Flying' = Flying
  BY FetchAnswered DEF ViewInv
<1>2. UNCHANGED <<code, shown, selected, loading, error, inbox, keys, forced>>
  BY DEF ListAgents, cliVars
<1>3. Results' = Results /\ Pressed' = Pressed
  BY <1>2 DEF Results, Pressed
<1> QED
  BY <1>1, <1>2, <1>3 DEF ViewInv

(* A message reaches the inbox.                                             *)
LEMMA InboxGrows ==
  ASSUME ViewInv, NEW m \in Message, inbox' = Append(inbox, m)
  PROVE  /\ inbox' \in Seq(Message)
         /\ m \in ResultMessage => Results' = Results + 1 /\ Pressed' = Pressed
         /\ m \in KeyMessage => Results' = Results /\ Pressed' = Pressed + 1
<1>1. inbox \in Seq(Message) /\ inbox' \in Seq(Message)
  BY AppendProperties DEF ViewInv
<1>2. /\ Results' = Results + (IF m \in ResultMessage THEN 1 ELSE 0)
      /\ Pressed' = Pressed + (IF m \in KeyMessage THEN 1 ELSE 0)
  BY <1>1, PlacesAppend DEF Results, Pressed
<1>3. m \in ResultMessage <=> m \notin KeyMessage
  BY MessageFacts
<1>4. Results \in Nat /\ Pressed \in Nat
  BY ViewNumbers
<1>5. CASE m \in KeyMessage
  BY <1>1, <1>2, <1>3, <1>4, <1>5
<1>6. CASE m \notin KeyMessage
  BY <1>1, <1>2, <1>3, <1>4, <1>6
<1> QED
  BY <1>5, <1>6

(* A fetch ends: what was in flight is in the inbox.                        *)
LEMMA ResultComes ==
  ASSUME ViewInv, NEW k \in InFlight, NEW m \in ResultMessage,
         fetch' = [fetch EXCEPT ![k] = Idle], inbox' = Append(inbox, m),
         UNCHANGED <<code, shown, selected, loading, error, keys, forced>>
  PROVE  ViewInv'
<1>1. fetch' \in Fetches /\ Flying' = Flying - 1
  BY FetchOver DEF ViewInv
<1>2. /\ inbox \in Seq(Message) /\ inbox' \in Seq(Message)
      /\ Results' = Results + 1
      /\ Pressed' = Pressed
  <2>1. m \in Message
    BY MessageFacts
  <2> QED
    BY <2>1, InboxGrows DEF ViewInv
<1> QED
  BY <1>1, <1>2, ViewNumbers DEF ViewInv

LEMMA FetchEndsView ==
  ASSUME ViewInv, NEW k \in FetchId, FetchEnds(k) \/ FetchFails(k)
  PROVE  ViewInv'
<1>1. CASE FetchEnds(k)
  <2>1. k \in InFlight
    BY <1>1 DEF FetchEnds, InFlight, Idle, Fetch
  <2>2. fetch[k].fleet \in Screen
    BY DEF ViewInv, Fetches
  <2>3. Loaded(fetch[k].fleet) \in ResultMessage
    BY <2>2, MessageFacts
  <2>4. UNCHANGED code
    BY <1>1 DEF FetchEnds, cliVars
  <2> QED
    BY <1>1, <2>1, <2>3, <2>4, ResultComes DEF FetchEnds
<1>2. CASE FetchFails(k)
  <2>1. k \in InFlight /\ UNCHANGED code
    BY <1>2 DEF FetchFails, cliVars
  <2> QED
    BY <1>2, <2>1, MessageFacts, ResultComes DEF FetchFails
<1> QED
  BY <1>1, <1>2

LEMMA PressView ==
  ASSUME ViewInv, NEW k \in {"r", "up", "down", "q"}, Press(k)
  PROVE  ViewInv'
<1>1. /\ keys < MaxKeys /\ keys' = keys + 1 /\ inbox' = Append(inbox, Key(k))
      /\ UNCHANGED <<code, shown, selected, loading, error, fetch, forced>>
  BY DEF Press, cliVars
<1>2. Key(k) \in KeyMessage
  BY MessageFacts
<1>3. /\ inbox \in Seq(Message) /\ inbox' \in Seq(Message)
      /\ Results' = Results
      /\ Pressed' = Pressed + 1
  <2>1. Key(k) \in Message
    BY <1>2, MessageFacts
  <2> QED
    BY <1>1, <1>2, <2>1, InboxGrows DEF ViewInv
<1>4. Flying' = Flying
  BY <1>1 DEF Flying, InFlight
<1> QED
  BY <1>1, <1>3, <1>4, ViewNumbers DEF ViewInv

(* What the loop takes from its inbox.                                      *)
LEMMA TakeMessage ==
  ASSUME ViewInv, Take
  PROVE  /\ Head(inbox) \in Message /\ inbox' \in Seq(Message)
         /\ Head(inbox) \in KeyMessage =>
              /\ Results' = Results
              /\ Pressed' = Pressed - 1
         /\ Head(inbox) \notin KeyMessage =>
              /\ Results' = Results - 1
              /\ Pressed' = Pressed
<1>1. inbox \in Seq(Message) /\ inbox # << >> /\ inbox' = Tail(inbox)
  BY DEF ViewInv, Take
<1>2. Head(inbox) \in Message /\ inbox' \in Seq(Message)
  BY <1>1, HeadTailProperties
<1>3. /\ Results' + (IF Head(inbox) \in ResultMessage THEN 1 ELSE 0) = Results
      /\ Pressed' + (IF Head(inbox) \in KeyMessage THEN 1 ELSE 0) = Pressed
  BY <1>1, PlacesTail DEF Results, Pressed
<1>4. Results' \in Nat /\ Pressed' \in Nat
  BY <1>2, PlacesFinite DEF Results, Pressed
<1>5. Head(inbox) \in ResultMessage <=> Head(inbox) \notin KeyMessage
  BY <1>2, MessageFacts
<1>6. CASE Head(inbox) \in KeyMessage
  <2>1. Results' + 0 = Results /\ Pressed' + 1 = Pressed
    BY <1>3, <1>5, <1>6
  <2>2. Results' = Results /\ Pressed' = Pressed - 1
    BY <1>4, <2>1, ViewNumbers
  <2> QED
    BY <1>2, <1>6, <2>2
<1>7. CASE Head(inbox) \notin KeyMessage
  <2>1. Results' + 1 = Results /\ Pressed' + 0 = Pressed
    BY <1>3, <1>5, <1>7
  <2>2. Results' = Results - 1 /\ Pressed' = Pressed
    BY <1>4, <2>1, ViewNumbers
  <2> QED
    BY <1>2, <1>7, <2>2
<1> QED
  BY <1>6, <1>7

(* A result is taken, and nothing is loading any more.                      *)
LEMMA ResultTaken ==
  ASSUME ViewInv, Take, Head(inbox) \notin KeyMessage, loading' = FALSE, error' \in BOOLEAN,
         shown' \in Screen, selected' \in 0..Cardinality(Host),
         UNCHANGED <<code, fetch, keys, forced>>
  PROVE  ViewInv'
<1>1. Flying' = Flying
  BY DEF Flying, InFlight
<1>2. inbox' \in Seq(Message) /\ Results' = Results - 1 /\ Pressed' = Pressed
  BY TakeMessage
<1>3. ~loading' /\ Flying' + Results' <= forced'
  BY <1>1, <1>2, ViewNumbers DEF ViewInv
<1>4. forced' + Pressed' <= keys'
  BY <1>2 DEF ViewInv
<1>5. {loading, error}' \subseteq BOOLEAN
  OBVIOUS
<1> QED
  BY <1>2, <1>3, <1>4, <1>5 DEF ViewInv

LEMMA ResultView ==
  ASSUME ViewInv, AgentsLoaded \/ AgentsFailed
  PROVE  ViewInv'
<1>0. /\ Take /\ Head(inbox) \in Message /\ Head(inbox) \notin KeyMessage
      /\ UNCHANGED <<code, fetch, keys, forced>>
  BY TakeMessage, MessageFacts DEF AgentsLoaded, AgentsFailed, cliVars
<1>1. CASE AgentsLoaded
  <2>1. shown' \in Screen
    BY <1>0, <1>1, MessageFacts DEF AgentsLoaded
  <2>2. selected' \in 0..Cardinality(Host)
    <3>1. Rows(shown') \in Nat /\ Rows(shown') <= Cardinality(Host) /\ Cardinality(Host) \in Nat
      BY <2>1, ScreenFacts
    <3>2. CASE Rows(shown') = 0
      BY <1>1, <3>1, <3>2 DEF AgentsLoaded
    <3>3. CASE Rows(shown') # 0
      <4>1. selected \in Nat /\ Rows(shown') - 1 \in Nat
        BY <3>1, <3>3, ScreenFacts DEF ViewInv
      <4>2. selected' = Min({selected, Rows(shown') - 1})
        BY <1>1, <3>3 DEF AgentsLoaded
      <4> QED
        BY <3>1, <4>1, <4>2, LeastOfTwo
    <3> QED
      BY <3>2, <3>3
  <2> QED
    BY <1>0, <1>1, <2>1, <2>2, ResultTaken DEF AgentsLoaded
<1>2. CASE AgentsFailed
  BY <1>0, <1>2, ResultTaken DEF AgentsFailed, ViewInv
<1> QED
  BY <1>1, <1>2

LEMMA HandleKeyView ==
  ASSUME ViewInv, HandleKey
  PROVE  ViewInv'
<1>1. /\ Take /\ Head(inbox) \in KeyMessage /\ UNCHANGED <<shown, error, keys>>
  BY TakeMessage, MessageFacts DEF HandleKey
<1>2. /\ inbox' \in Seq(Message)
      /\ Results' = Results
      /\ Pressed' = Pressed - 1
  BY <1>1, TakeMessage
<1>3. forced + 1 <= MaxKeys /\ Flying <= MaxKeys + 1
  BY <1>2, PlacesFinite, ViewNumbers DEF ViewInv, Pressed
<1>4. CASE /\ SpawnFetch /\ loading' = TRUE /\ forced' = forced + 1
           /\ UNCHANGED <<code, selected>>
  <2>1. fetch' \in Fetches /\ Flying' = Flying + 1
    BY <1>3, <1>4, FetchSpawned DEF ViewInv
  <2>2. forced + Results + Flying \in Nat /\ Flying + Results <= forced + 1
    BY ViewNumbers DEF ViewInv
  <2>3. loading' /\ Flying' + Results' >= 1 /\ Flying' + Results' <= forced' + 1
    BY <1>2, <1>4, <2>1, <2>2, ViewNumbers
  <2>4. forced' \in 0..MaxKeys /\ forced' + Pressed' <= keys'
    BY <1>1, <1>2, <1>3, <1>4, ViewNumbers DEF ViewInv
  <2>5. {loading, error}' \subseteq BOOLEAN
    BY <1>1, <1>4 DEF ViewInv
  <2>6. code' \in EXIT_OK..EXIT_EXPERIMENT_ERROR /\ selected' \in 0..Cardinality(Host)
        /\ shown' \in Screen /\ keys' \in 0..MaxKeys
    BY <1>1, <1>4 DEF ViewInv
  <2> QED
    BY <1>2, <2>1, <2>3, <2>4, <2>5, <2>6 DEF ViewInv
<1>5. CASE /\ selected' \in 0..Cardinality(Host) /\ code' \in EXIT_OK..EXIT_EXPERIMENT_ERROR
           /\ UNCHANGED <<loading, fetch, forced>>
  <2>1. Flying' = Flying
    BY <1>5 DEF Flying, InFlight
  <2>2. forced' + Pressed' <= keys'
    BY <1>1, <1>2, <1>5, ViewNumbers DEF ViewInv
  <2> QED
    BY <1>1, <1>2, <1>5, <2>1, <2>2 DEF ViewInv
<1>6. Rows(shown) \in Nat /\ Rows(shown) <= Cardinality(Host) /\ Cardinality(Host) \in Nat
      /\ selected \in 0..Cardinality(Host) /\ code \in EXIT_OK..EXIT_EXPERIMENT_ERROR
  BY ScreenFacts DEF ViewInv
<1>7. ASSUME selected' = IF Rows(shown) > 0 THEN Min({selected + 1, Rows(shown) - 1}) ELSE selected
      PROVE  selected' \in 0..Cardinality(Host)
  <2>1. CASE Rows(shown) > 0
    <3>1. selected + 1 \in Nat /\ Rows(shown) - 1 \in Nat
      BY <1>6, <2>1
    <3> QED
      BY <1>6, <1>7, <2>1, <3>1, LeastOfTwo
  <2>2. CASE ~(Rows(shown) > 0)
    BY <1>6, <1>7, <2>2
  <2> QED
    BY <2>1, <2>2
<1>8. ASSUME selected' = IF selected > 0 THEN selected - 1 ELSE selected
      PROVE  selected' \in 0..Cardinality(Host)
  BY <1>6, <1>8
<1> DEFINE k == Head(inbox).key
<1>9. CASE k = "q"
  <2>1. code' = 0 /\ UNCHANGED <<selected, loading, fetch, forced>>
    BY <1>9 DEF HandleKey, Exit, EXIT_OK
  <2> QED
    BY <1>5, <1>6, <2>1 DEF EXIT_OK, EXIT_EXPERIMENT_ERROR
<1>10. CASE k = "r"
  BY <1>4, <1>10 DEF HandleKey
<1>11. CASE k = "down"
  <2>1. /\ selected' = IF Rows(shown) > 0 THEN Min({selected + 1, Rows(shown) - 1}) ELSE selected
        /\ UNCHANGED <<code, loading, fetch, forced>>
    BY <1>11 DEF HandleKey
  <2> QED
    BY <1>5, <1>6, <1>7, <2>1
<1>12. CASE k = "up"
  <2>1. /\ selected' = IF selected > 0 THEN selected - 1 ELSE selected
        /\ UNCHANGED <<code, loading, fetch, forced>>
    BY <1>12 DEF HandleKey
  <2> QED
    BY <1>5, <1>6, <1>8, <2>1
<1> QED
  BY <1>9, <1>10, <1>11, <1>12 DEF HandleKey

(***************************************************************************)
(* The theorem.                                                            *)
(***************************************************************************)
LEMMA ViewInit == Init => ViewInv
<1> SUFFICES ASSUME Init PROVE ViewInv
  OBVIOUS
<1>1. /\ code = 0 /\ shown = EmptyScreen /\ selected = 0 /\ loading = FALSE /\ error = FALSE
      /\ inbox = << >> /\ fetch = [k \in FetchId |-> Idle] /\ keys = 0 /\ forced = 0
  BY DEF Init, EXIT_OK
<1>2. EmptyScreen \in Screen /\ Cardinality(Host) \in Nat /\ MaxKeys \in Nat
  BY ScreenFacts, ConsoleAssumption
<1>3. fetch \in Fetches
  BY <1>1, <1>2 DEF Fetches, Idle, Fetch
<1>4. InFlight = {} /\ Places(inbox, ResultMessage) = {} /\ Places(inbox, KeyMessage) = {}
  BY <1>1 DEF InFlight, Places
<1>5. Flying = 0 /\ Results = 0 /\ Pressed = 0
  BY <1>4, FS_EmptySet DEF Flying, Results, Pressed
<1>6. inbox \in Seq(Message) /\ {loading, error} \subseteq BOOLEAN /\ ~loading
  <2>1. << >> \in Seq(Message)
    OBVIOUS
  <2>2. ~loading /\ {loading, error} \subseteq BOOLEAN
    BY <1>1, Zenon
  <2> QED
    BY <1>1, <2>1, <2>2
<1>7. /\ code \in EXIT_OK..EXIT_EXPERIMENT_ERROR /\ selected \in 0..Cardinality(Host)
      /\ keys \in 0..MaxKeys /\ forced \in 0..MaxKeys /\ forced + Pressed <= keys
      /\ Flying + Results <= forced
  BY <1>1, <1>2, <1>5 DEF EXIT_OK, EXIT_EXPERIMENT_ERROR
<1> QED
  BY <1>1, <1>2, <1>3, <1>6, <1>7 DEF ViewInv

LEMMA OneShotView ==
  ASSUME ViewInv, OneShot \/ Misused \/ RequestFails \/ Abandoned
  PROVE  ViewInv'
<1>1. UNCHANGED tuiVars
  BY DEF OneShot, Present, Reject, Poll, Polled, Emit, Misused, RequestFails, Abandoned
<1>2. code' = code \/ code' \in {0, 1, 2, 3, 4, 5}
  <2>1. OutcomeExitCode(request.reply.outcome) \in {0, 1, 4, 5}
    BY DEF OutcomeExitCode, EXIT_OK, EXIT_ERROR, EXIT_EXPERIMENT_ABORTED, EXIT_EXPERIMENT_ERROR
  <2> QED
    BY <2>1 DEF OneShot, Present, Reject, Poll, Polled, Emit, Misused, RequestFails, Abandoned,
       Exit, cliVars, EXIT_OK, EXIT_ERROR, EXIT_NOT_FOUND, EXIT_VALIDATION
<1>3. code' \in EXIT_OK..EXIT_EXPERIMENT_ERROR
  BY <1>2 DEF ViewInv, EXIT_OK, EXIT_EXPERIMENT_ERROR
<1> QED
  BY <1>1, <1>3, ViewStays

LEMMA ViewStep ==
  ASSUME CommandInv, ViewInv, [Next]_vars
  PROVE  ViewInv'
<1>1. CASE UNCHANGED vars
  <2>1. UNCHANGED <<tuiVars, code>>
    BY <1>1 DEF vars, cliVars
  <2> QED
    BY <2>1, ViewStays DEF ViewInv
<1>2. CASE Client
  <2>1. CASE Misused \/ RequestFails \/ Abandoned \/ OneShot
    BY <2>1, OneShotView
  <2>2. CASE Open
    BY <2>2, OpenView
  <2>3. CASE Event
    BY <2>3, TickView, ResultView, HandleKeyView DEF Event
  <2>4. CASE \E c \in Command : Give(c)
    <3>1. UNCHANGED <<tuiVars, code>>
      BY <2>4 DEF Give
    <3> QED
      BY <3>1, ViewStays DEF ViewInv
  <2>5. CASE \E k \in FetchId : ListAgents(k) \/ FetchEnds(k) \/ FetchFails(k)
    BY <2>5, ListAgentsView, FetchEndsView
  <2>6. CASE \E k \in {"r", "up", "down", "q"} : Press(k)
    BY <2>6, PressView
  <2> QED
    BY <1>2, <2>1, <2>2, <2>3, <2>4, <2>5, <2>6 DEF Client
<1>3. CASE \/ Handle /\ UNCHANGED <<cliVars, tuiVars>>
           \/ Elsewhere /\ UNCHANGED <<command, at, code, excuse, tuiVars>>
  <2>1. UNCHANGED <<tuiVars, code>>
    BY <1>3 DEF cliVars
  <2> QED
    BY <2>1, ViewStays DEF ViewInv
<1> QED
  BY <1>1, <1>2, <1>3 DEF Next

LEMMA ViewAlways == Spec => []ViewInv
<1>1. CommandInv /\ ViewInv /\ [Next]_vars => ViewInv'
  BY ViewStep
<1> QED
  BY <1>1, ViewInit, CommandAlways, PTL DEF Spec

(* The fleet view that says it is refreshing will hear of it, so that the   *)
(* refresh cannot silently stop for good, and beyond one no more requests   *)
(* are in flight than were forced with r, however fetches, keys and ticks   *)
(* interleave and however the fetches fail (update and its shell).          *)
THEOREM TheViewIsSound == Spec => []ViewSound
<1>1. CommandInv /\ ViewInv => TypeOK
  <2> SUFFICES ASSUME CommandInv, ViewInv PROVE TypeOK
    OBVIOUS
  <2>1. PlaneTypeOK
    <3>1. \A x \in {record, past} : x = NoRecord \/
            /\ x.phase \in Phase
            /\ x.state \in [DOMAIN Target -> InstanceStates]
            /\ x.asked \in [DOMAIN Target -> BOOLEAN]
      BY DEF CommandInv, StoreInv, Shaped
    <3> QED
      BY <3>1 DEF PlaneTypeOK, CommandInv, StoreInv, FleetInv, RequestInv
  <2>2. \A k \in DOMAIN inbox : inbox[k] \in Message
    BY DEF ViewInv
  <2> QED
    BY <2>1, <2>2 DEF TypeOK, CommandInv, PlaceInv, ViewInv, Fetches
<1>2. CommandInv /\ ViewInv => LoadingHonest
  <2> SUFFICES ASSUME ViewInv PROVE LoadingHonest
    OBVIOUS
  <2>1. loading \in BOOLEAN /\ Flying <= 1 + forced
    BY ViewNumbers DEF ViewInv
  <2>2. ASSUME loading, InFlight = {}
        PROVE  \E k \in DOMAIN inbox : inbox[k].msg # "Key"
    <3>1. Flying = 0
      BY <2>2, FS_EmptySet DEF Flying
    <3>2. Results # 0
      BY <2>2, <3>1, ViewNumbers DEF ViewInv
    <3>3. PICK k \in Places(inbox, ResultMessage) : TRUE
      BY <3>2, FS_EmptySet DEF Results
    <3>4. k \in DOMAIN inbox /\ inbox[k] \in ResultMessage
      BY <3>3 DEF Places, ViewInv
    <3>5. inbox[k].msg # "Key"
      BY <3>4, MessageFacts
    <3> QED
      BY <3>4, <3>5
  <2> QED
    BY <2>1, <2>2 DEF LoadingHonest, Flying
<1> QED
  BY <1>1, <1>2, CommandAlways, ViewAlways, PTL DEF ViewSound

=============================================================================
