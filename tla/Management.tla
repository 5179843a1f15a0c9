----------------------------- MODULE Management -----------------------------
(***************************************************************************)
(* The management plane of the master: what an operator's request finds,   *)
(* changes and is answered.  One experiment and one request that changes   *)
(* something; reads may overlap with everything.  The store and the        *)
(* registry change under the requests as agents report, other operators    *)
(* act, the deadline passes and the master restarts, which wipes both.     *)
(* What is sent to the agents is Dispatcher's subject: here it only takes  *)
(* time, during which the handler can be dropped.                          *)
(***************************************************************************)
EXTENDS ExperimentRecord

CONSTANTS
  Host,        \* hosts with an agent
  Target,      \* the hosts of the experiment's instances, in dispatch order
  MaxTrouble   \* bound: changes of the fleet, restarts and failed requests

ASSUME ManagementAssumption ==
  /\ Target \in Seq(Host) /\ Len(Target) > 0
  /\ MaxTrouble \in Nat

VARIABLES
  record,    \* the experiment, if the master holds it
  past,      \* the record a restart wiped (history)
  dispatch,  \* how far its salvo and its deadline task are
  agents,    \* hosts in the registry
  online,    \* hosts with a session
  flagged,   \* hosts the registry has as tainted
  request,   \* what became of the operator's request
  trouble    \* see MaxTrouble

storeVars == <<record, past, dispatch>>
fleetVars == <<agents, online, flagged>>
planeVars == <<storeVars, fleetVars, request, trouble>>

NoRecord == [Mint(<< >>) EXCEPT !.phase = None]
Held == record.phase # None
Last == IF Held THEN record ELSE past

(* What a request is answered: a status and, for a record, its outcome.     *)
Reply(status, outcome) == [status |-> status, outcome |-> outcome]
Nothing == Reply(0, None)
Asked(about) == [about |-> about, stage |-> "sent", reply |-> Nothing]
NoRequest == [about |-> None, stage |-> "none", reply |-> Nothing]

PlaneTypeOK ==
  /\ \A x \in {record, past} : x = NoRecord \/
       /\ x.phase \in Phase
       /\ x.state \in [DOMAIN Target -> InstanceStates]
       /\ x.asked \in [DOMAIN Target -> BOOLEAN]
  /\ dispatch \in {"unsubmitted", "salvo", "armed", "over"}
  /\ online \subseteq agents /\ flagged \subseteq agents /\ agents \subseteq Host
  /\ request.stage \in {"none", "sent", "sending", "answered"}
  /\ trouble \in 0..MaxTrouble

PlaneInit ==
  /\ record = NoRecord /\ past = NoRecord /\ dispatch = "unsubmitted"
  /\ agents \in SUBSET Host /\ online = agents /\ flagged = {}
  /\ request = NoRequest /\ trouble = 0

-----------------------------------------------------------------------------
(***************************************************************************)
(* Views: only a terminal experiment has an outcome.                       *)
(***************************************************************************)
OutcomeLabel ==
  [p \in Concluded |-> CASE p = "Completed"    -> "COMPLETED"
                         [] p = "AbortedClean" -> "ABORTED"
                         [] p = "Failed"       -> "ERROR"]

View(x) == IF IsConcluded(x) THEN OutcomeLabel[x.phase] ELSE None

Fleet == [h \in Host |-> IF h \notin agents THEN "absent"
                         ELSE IF h \in flagged THEN "tainted" ELSE "clean"]

-----------------------------------------------------------------------------
(***************************************************************************)
(* Handlers.  RunFaults and AbortFaults are sent before the answer.        *)
(***************************************************************************)
Sent(about) == request.stage = "sent" /\ request.about = about

Answer(status, outcome) ==
  request' = [request EXCEPT !.stage = "answered", !.reply = Reply(status, outcome)]

Sending == request' = [request EXCEPT !.stage = "sending"]

Valid == \A h \in {Target[i] : i \in DOMAIN Target} : h \in online /\ h \notin flagged

(* Mutant: the record is stored before it is validated.                     *)
StartExperimentStoring(sound) ==
  /\ Sent("run") /\ dispatch = "unsubmitted"
  /\ record' = Mint(Target)
  /\ IF sound /\ Valid THEN dispatch' = "salvo" /\ Sending
     ELSE Answer(422, None) /\ UNCHANGED dispatch
  /\ UNCHANGED <<past, fleetVars, trouble>>

StartExperiment(sound) ==
  /\ Sent("run") /\ dispatch = "unsubmitted"
  /\ IF sound /\ Valid
     THEN record' = Mint(Target) /\ dispatch' = "salvo" /\ Sending
     ELSE Answer(422, None) /\ UNCHANGED <<record, dispatch>>
  /\ UNCHANGED <<past, fleetVars, trouble>>

(* The answer to a run is the record as it was minted.                      *)
Started ==
  /\ request.stage = "sending" /\ request.about = "run"
  /\ dispatch' = "armed" /\ Answer(201, None)
  /\ UNCHANGED <<record, past, fleetVars, trouble>>

HaltExperiment ==
  /\ Sent("halt")
  /\ \/ ~Held /\ Answer(404, None) /\ UNCHANGED record
     \/ Held /\ IsConcluded(record) /\ Answer(409, None) /\ UNCHANGED record
     \/ /\ Held /\ ~IsConcluded(record)
        /\ record' = Halt(record, Target).record /\ Sending
  /\ UNCHANGED <<past, dispatch, fleetVars, trouble>>

Halted ==
  /\ request.stage = "sending" /\ request.about = "halt" /\ Answer(202, None)
  /\ UNCHANGED <<storeVars, fleetVars, trouble>>

GetExperiment ==
  /\ Sent("experiment")
  /\ IF Held THEN Answer(200, View(record)) ELSE Answer(404, None)
  /\ UNCHANGED <<storeVars, fleetVars, trouble>>

GetAgent(h) ==
  /\ Sent("agent")
  /\ IF h \in agents THEN Answer(200, None) ELSE Answer(404, None)
  /\ UNCHANGED <<storeVars, fleetVars, trouble>>

(* The flag itself is cleared by what the agent answers.                    *)
ClearTaint(h) ==
  /\ Sent("clear")
  /\ \/ h \notin agents /\ Answer(404, None)
     \/ h \in agents \ online /\ Answer(409, None)
     \/ h \in online /\ Answer(202, None)
  /\ UNCHANGED <<storeVars, fleetVars, trouble>>

List ==
  /\ Sent("list") /\ Answer(200, None)
  /\ UNCHANGED <<storeVars, fleetVars, trouble>>

(* A dropped handler leaves what it changed and sends nothing more; the     *)
(* deadline of a salvo that was cut short is never armed.                   *)
Drop ==
  /\ request.stage \in {"sent", "sending"}
  /\ request' = NoRequest
  /\ dispatch' = IF request = [Asked("run") EXCEPT !.stage = "sending"] THEN "over" ELSE dispatch
  /\ UNCHANGED <<record, past, fleetVars, trouble>>

Handle ==
  \/ \E sound \in BOOLEAN : StartExperiment(sound)
  \/ Started \/ HaltExperiment \/ Halted \/ GetExperiment \/ List
  \/ GetAgent(Target[1]) \/ ClearTaint(Target[1])

-----------------------------------------------------------------------------
(***************************************************************************)
(* What changes under the requests.                                        *)
(***************************************************************************)
Status(i, s) ==
  /\ Held /\ Accepts(record, i)
  /\ record' = ReactToUpdate(ApplyStatus(record, i, s), Target).record
  /\ UNCHANGED <<past, dispatch, fleetVars, request, trouble>>

DeadlinePasses ==
  /\ dispatch = "armed" /\ dispatch' = "over"
  /\ record' = IF Held /\ ~IsConcluded(record) THEN ResolveDeadline(record, Target).record
               ELSE record
  /\ UNCHANGED <<past, fleetVars, request, trouble>>

SubmitElsewhere ==
  /\ dispatch = "unsubmitted" /\ Valid
  /\ record' = Mint(Target) /\ dispatch' = "armed"
  /\ UNCHANGED <<past, fleetVars, request, trouble>>

HaltElsewhere ==
  /\ Held /\ ~IsConcluded(record)
  /\ record' = Halt(record, Target).record
  /\ UNCHANGED <<past, dispatch, fleetVars, request, trouble>>

Troubled == trouble < MaxTrouble /\ trouble' = trouble + 1

Register(h) ==
  /\ Troubled /\ h \notin online
  /\ agents' = agents \cup {h} /\ online' = online \cup {h}
  /\ UNCHANGED <<storeVars, flagged, request>>

Leave(h) ==
  /\ Troubled /\ h \in online /\ online' = online \ {h}
  /\ UNCHANGED <<storeVars, agents, flagged, request>>

TaintReport(h, tainted) ==
  /\ Troubled /\ h \in online
  /\ flagged' = IF tainted THEN flagged \cup {h} ELSE flagged \ {h}
  /\ record' = IF tainted /\ Held /\ ~IsConcluded(record) /\ \E i \in DOMAIN Target : Target[i] = h
               THEN ReactToUpdate(RecordTaint(record, h), Target).record ELSE record
  /\ UNCHANGED <<past, dispatch, agents, online, request>>

(* Store, registry, sessions and handlers are gone.                         *)
Restart ==
  /\ Troubled
  /\ past' = Last /\ record' = NoRecord
  /\ dispatch' = IF dispatch = "unsubmitted" THEN dispatch ELSE "over"
  /\ agents' = {} /\ online' = {} /\ flagged' = {}
  /\ request' = IF request.stage \in {"sent", "sending"} THEN NoRequest ELSE request
=============================================================================
