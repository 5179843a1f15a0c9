--------------------------- MODULE FaultLifecycle ---------------------------
(***************************************************************************)
(* What an agent promises of the faults it is given, with no machine,      *)
(* process, channel or disk in sight.  An instance is owed from the moment *)
(* the agent undertakes to lift its fault until it is discharged: lifted,  *)
(* or given up on, which quarantines the host.  Supervisor implements this *)
(* specification with owed as the journal and quarantined as the taint.    *)
(***************************************************************************)
CONSTANT Instance

VARIABLES
  status,      \* the lifecycle state last reported for each instance
  live,        \* instances whose fault is in effect
  owed,        \* instances the agent will recover, come what may
  gaveUp,      \* instances whose recovery the agent gave up
  quarantined  \* does the host refuse new faults?

vars == <<status, live, owed, gaveUp, quarantined>>

NotReported == "None"

(* The lifecycle graph; every state outside its domain is final.            *)
Successor ==
  {<<"Pending", "Preflight">>, <<"Pending", "Aborted">>,
   <<"Preflight", "Injecting">>, <<"Preflight", "Aborted">>,
   <<"Injecting", "Active">>, <<"Injecting", "Recovering">>, <<"Injecting", "Aborted">>,
   <<"Active", "Recovering">>,
   <<"Recovering", "Done">>, <<"Recovering", "Aborted">>, <<"Recovering", "Error">>}

Settled(i) == i \notin live \/ i \in gaveUp

Init ==
  /\ status = [i \in Instance |-> NotReported]
  /\ live = {}
  /\ owed = {}
  /\ gaveUp = {}
  /\ quarantined = FALSE

Accept(i) ==
  /\ status' = [status EXCEPT ![i] = "Pending"]
  /\ UNCHANGED <<live, owed, gaveUp, quarantined>>

(* A live phase is reported only while the instance is owed, an end only    *)
(* when the instance is settled.                                            *)
Report(i, s) ==
  /\ <<status[i], s>> \in Successor
  /\ s \in {"Injecting", "Active", "Recovering"} => i \in owed
  /\ s \in {"Done", "Aborted", "Error"} => Settled(i)
  /\ status' = [status EXCEPT ![i] = s]
  /\ UNCHANGED <<live, owed, gaveUp, quarantined>>

(* After a restart an owed instance is recovered, wherever it stood.        *)
Resume(i) ==
  /\ i \in owed
  /\ status' = [status EXCEPT ![i] = "Recovering"]
  /\ UNCHANGED <<live, owed, gaveUp, quarantined>>

Undertake(i) ==
  /\ status[i] = "Preflight"
  /\ owed' = owed \cup {i}
  /\ UNCHANGED <<status, live, gaveUp, quarantined>>

GoLive(i) ==
  /\ status[i] = "Injecting"
  /\ i \in owed
  /\ live' = live \cup {i}
  /\ UNCHANGED <<status, owed, gaveUp, quarantined>>

Lift(i) ==
  /\ status[i] = "Recovering"
  /\ i \in owed
  /\ live' = live \ {i}
  /\ UNCHANGED <<status, owed, gaveUp, quarantined>>

GiveUp(i) ==
  /\ i \in owed
  /\ gaveUp' = gaveUp \cup {i}
  /\ quarantined' = TRUE
  /\ UNCHANGED <<status, live, owed>>

Discharge(i) ==
  /\ Settled(i)
  /\ owed' = owed \ {i}
  /\ UNCHANGED <<status, live, gaveUp, quarantined>>

EndQuarantine ==
  /\ quarantined' = FALSE
  /\ UNCHANGED <<status, live, owed, gaveUp>>

Next ==
  \/ \E i \in Instance :
       \/ Accept(i) \/ Resume(i)
       \/ Undertake(i) \/ GoLive(i) \/ Lift(i) \/ GiveUp(i) \/ Discharge(i)
       \/ \E s \in {"Preflight", "Injecting", "Active", "Recovering", "Done", "Aborted", "Error"} :
            Report(i, s)
  \/ EndQuarantine

Spec == Init /\ [][Next]_vars
=============================================================================
