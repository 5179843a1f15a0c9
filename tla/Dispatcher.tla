----------------------------- MODULE Dispatcher -----------------------------
(***************************************************************************)
(* The master: the store of experiment records, the tasks that work on it  *)
(* (one per experiment request, per halt request, per deadline and per     *)
(* agent stream), the map of current sessions and the taint flags of the   *)
(* registry.  A task decides under the store lock and then sends its       *)
(* frames one by one, waiting wherever a stream has no room.               *)
(*                                                                         *)
(* Agents appear through what they hear and what they may say of it: any   *)
(* status of an instance they were told to run, in any order (streams are  *)
(* superseded, reports overtake queued frames), and any taint.             *)
(***************************************************************************)
EXTENDS ExperimentRecord

CONSTANTS
  Experiment,  \* experiments operators may submit
  Host,        \* hosts with an agent
  Target,      \* Target[e]: the hosts of e's instances, in dispatch order
  MaxStreams,  \* bound: agent streams opened
  ChanCap,     \* frames a stream's channel holds (32 in the code)
  MaxHalts,    \* bound: halt requests per experiment
  MayCancel,   \* may a client hang up on a request under way?
  MayHeal      \* bound: may a tainted host be reported clean again?

ASSUME ConstantsAssumption ==
  /\ Target \in [Experiment -> Seq(Host)]
  /\ \A e \in Experiment : Len(Target[e]) > 0
  /\ {MaxStreams, MaxHalts} \subseteq Nat
  /\ ChanCap \in Nat \ {0}
  /\ {MayCancel, MayHeal} \subseteq BOOLEAN

VARIABLES
  call,     \* where the request that submits each experiment stands
  store,    \* the record of each accepted experiment
  armed,    \* experiments whose deadline task was spawned and still sleeps
  halts,    \* halt requests accepted or refused so far
  sending,  \* frames each task has still to send
  held,     \* the frame a task waits to push, and into which stream
  stream,   \* the agent streams opened so far
  session,  \* the current stream of each host, 0 when there is none
  flagged,  \* hosts tainted according to the registry
  heard,    \* what the agent heard of each instance
  gone      \* instances whose AbortFault was sent or dropped (history)

vars == <<call, store, armed, halts, sending, held, stream, session, flagged,
          heard, gone>>
recordVars == <<store, armed>>
streamVars == <<stream, session, flagged>>

StreamId == 1..MaxStreams
Task == ({"start", "halt", "deadline"} \X Experiment) \cup ({"stream"} \X StreamId)

Frame ==
  {f \in [type : {"RunFault", "AbortFault"}, exp : Experiment, nr : Nat] :
     f.nr \in DOMAIN Target[f.exp]}
FrameOf(type, e, i) == [type |-> type, exp |-> e, nr |-> i]
HostOf(f) == Target[f.exp][f.nr]

Waits(f, n) == [frame |-> f, into |-> n]
NotWaiting == Waits(FrameOf(None, None, 0), 0)

Unused == [host |-> None, stage |-> "unused", chan |-> << >>]
NoRecord == [Mint(<< >>) EXCEPT !.phase = None]
Known(e) == store[e].phase # None

TypeOK ==
  /\ call \in [Experiment -> {"unsent", "checked", "salvo", "over", "cancelled"}]
  /\ \A e \in Experiment : Known(e) =>
       /\ store[e].phase \in Phase
       /\ store[e].state \in [DOMAIN Target[e] -> InstanceStates]
       /\ store[e].asked \in [DOMAIN Target[e] -> BOOLEAN]
       /\ store[e].tainted \in Seq(Host)
       /\ store[e].cause.host \in Host \cup {None}
  /\ armed \subseteq Experiment
  /\ halts \in [Experiment -> 0..MaxHalts]
  /\ \A t \in Task : sending[t] \subseteq Frame
  /\ \A t \in Task : held[t] = NotWaiting \/ (held[t].frame \in Frame /\ held[t].into \in StreamId)
  /\ \A n \in StreamId :
       /\ stream[n].host \in Host \cup {None}
       /\ stream[n].stage \in {"unused", "open", "broken", "closed"}
       /\ Len(stream[n].chan) <= ChanCap
  /\ session \in [Host -> 0..MaxStreams]
  /\ flagged \subseteq Host

Init ==
  /\ call = [e \in Experiment |-> "unsent"]
  /\ store = [e \in Experiment |-> NoRecord]
  /\ armed = {}
  /\ halts = [e \in Experiment |-> 0]
  /\ sending = [t \in Task |-> {}]
  /\ held = [t \in Task |-> NotWaiting]
  /\ stream = [n \in StreamId |-> Unused]
  /\ session = [h \in Host |-> 0]
  /\ flagged = {}
  /\ heard = [e \in Experiment |-> [i \in DOMAIN Target[e] |-> "nothing"]]
  /\ gone = {}

Idle(t) == sending[t] = {} /\ held[t] = NotWaiting

-----------------------------------------------------------------------------
(***************************************************************************)
(* Sending.  A frame for a host with no session is dropped; a channel that *)
(* is full makes the task wait; a channel whose reader is gone loses it.   *)
(***************************************************************************)
NextFrames(t) ==
  {f \in sending[t] : \A g \in sending[t] : g.exp = f.exp => f.nr <= g.nr}

Left(f) == IF f.type = "AbortFault" THEN {<<f.exp, f.nr>>} ELSE {}

LookUp(t) ==
  /\ held[t] = NotWaiting
  /\ \E f \in NextFrames(t) :
       LET n == session[HostOf(f)]
       IN  /\ sending' = [sending EXCEPT ![t] = @ \ {f}]
           /\ held' = [held EXCEPT ![t] = IF n = 0 THEN NotWaiting ELSE Waits(f, n)]
           /\ gone' = IF n = 0 THEN gone \cup Left(f) ELSE gone
  /\ UNCHANGED <<call, recordVars, halts, streamVars, heard>>

HasRoom(n) == stream[n].stage # "open" \/ Len(stream[n].chan) < ChanCap

Push(t) ==
  /\ held[t] # NotWaiting
  /\ LET f == held[t].frame
         n == held[t].into
     IN  /\ HasRoom(n)
         /\ stream' = IF stream[n].stage = "open"
                      THEN [stream EXCEPT ![n].chan = Append(@, f)]
                      ELSE stream
         /\ gone' = gone \cup Left(f)
  /\ held' = [held EXCEPT ![t] = NotWaiting]
  /\ UNCHANGED <<call, recordVars, halts, sending, session, flagged, heard>>

Aborts(e, instances) == {FrameOf("AbortFault", e, i) : i \in instances}

-----------------------------------------------------------------------------
(***************************************************************************)
(* Requests of the management plane.                                       *)
(***************************************************************************)

(* The facts about the hosts as they are now; the definition itself is sound. *)
Valid(e) ==
  \A i \in DOMAIN Target[e] : session[Target[e][i]] # 0 /\ Target[e][i] \notin flagged

Submit(e) ==
  /\ call[e] = "unsent"
  /\ Valid(e)
  /\ call' = [call EXCEPT ![e] = "checked"]
  /\ UNCHANGED <<recordVars, halts, sending, held, streamVars, heard, gone>>

Accept(e) ==
  /\ call[e] = "checked"
  /\ call' = [call EXCEPT ![e] = "salvo"]
  /\ store' = [store EXCEPT ![e] = Mint(Target[e])]
  /\ sending' = [sending EXCEPT ![<<"start", e>>] =
                   {FrameOf("RunFault", e, i) : i \in DOMAIN Target[e]}]
  /\ UNCHANGED <<armed, halts, held, streamVars, heard, gone>>

(* The deadline task is spawned once the whole salvo is sent.               *)
ArmDeadline(e) ==
  /\ call[e] = "salvo"
  /\ Idle(<<"start", e>>)
  /\ call' = [call EXCEPT ![e] = "over"]
  /\ armed' = armed \cup {e}
  /\ UNCHANGED <<store, halts, sending, held, streamVars, heard, gone>>

HaltExperiment(e) ==
  LET r == Halt(store[e], Target[e])
  IN  /\ Known(e)
      /\ halts[e] < MaxHalts
      /\ Idle(<<"halt", e>>)
      /\ halts' = [halts EXCEPT ![e] = @ + 1]
      /\ IF IsConcluded(store[e])
         THEN UNCHANGED <<store, sending>>
         ELSE /\ store' = [store EXCEPT ![e] = r.record]
              /\ sending' = [sending EXCEPT ![<<"halt", e>>] = Aborts(e, r.aborts)]
      /\ UNCHANGED <<call, armed, held, streamVars, heard, gone>>

(* A client that hangs up while its request waits takes the request with it. *)
HangUp(e, kind) ==
  LET t == <<kind, e>>
  IN  /\ MayCancel
      /\ held[t] # NotWaiting
      /\ ~HasRoom(held[t].into)
      /\ sending' = [sending EXCEPT ![t] = {}]
      /\ held' = [held EXCEPT ![t] = NotWaiting]
      /\ call' = IF kind = "start" THEN [call EXCEPT ![e] = "cancelled"] ELSE call
      /\ gone' = gone \cup UNION {Left(f) : f \in sending[t] \cup {held[t].frame}}
      /\ UNCHANGED <<recordVars, halts, streamVars, heard>>

-----------------------------------------------------------------------------
(***************************************************************************)
(* Deadlines.  Once spawned the task may wake at any time: nothing bounds  *)
(* from below how long the rest of the system takes meanwhile.             *)
(***************************************************************************)
DeadlineFires(e) ==
  LET r == ResolveDeadline(store[e], Target[e])
  IN  /\ e \in armed
      /\ armed' = armed \ {e}
      /\ IF IsConcluded(store[e])
         THEN UNCHANGED <<store, sending>>
         ELSE /\ store' = [store EXCEPT ![e] = r.record]
              /\ sending' = [sending EXCEPT ![<<"deadline", e>>] = Aborts(e, r.aborts)]
      /\ UNCHANGED <<call, halts, held, streamVars, heard, gone>>

-----------------------------------------------------------------------------
(***************************************************************************)
(* Agent streams.                                                          *)
(***************************************************************************)
Streams(h) == {n \in StreamId : stream[n].host = h}
Newest(n) == n = Max(Streams(stream[n].host))

(* A new stream supersedes the one before it; the taint flag is carried over. *)
Register(h, n) ==
  /\ stream[n].stage = "unused"
  /\ \A m \in StreamId : m < n => stream[m].stage # "unused"
  /\ stream' = [stream EXCEPT ![n] = [host |-> h, stage |-> "open", chan |-> << >>]]
  /\ session' = [session EXCEPT ![h] = n]
  /\ UNCHANGED <<call, recordVars, halts, sending, held, flagged, heard, gone>>

(* The reader of a stream goes away; its task may not know yet.             *)
Break(n) ==
  /\ stream[n].stage = "open"
  /\ stream' = [stream EXCEPT ![n].stage = "broken", ![n].chan = << >>]
  /\ UNCHANGED <<call, recordVars, halts, sending, held, session, flagged, heard, gone>>

(* Mutant: a closing stream evicts whoever is current.                      *)
CloseEvicting(n) ==
  /\ stream[n].stage = "broken"
  /\ Idle(<<"stream", n>>)
  /\ stream' = [stream EXCEPT ![n].stage = "closed"]
  /\ session' = [session EXCEPT ![stream[n].host] = 0]
  /\ UNCHANGED <<call, recordVars, halts, sending, held, flagged, heard, gone>>

(* A closing stream removes its entry only while it is the current one.     *)
Close(n) ==
  /\ stream[n].stage = "broken"
  /\ Idle(<<"stream", n>>)
  /\ stream' = [stream EXCEPT ![n].stage = "closed"]
  /\ session' = [h \in Host |-> IF session[h] = n THEN 0 ELSE session[h]]
  /\ UNCHANGED <<call, recordVars, halts, sending, held, flagged, heard, gone>>

(* The agent takes its next frame; it ignores an abort of what it never ran. *)
Deliver(n) ==
  /\ stream[n].stage = "open"
  /\ Newest(n)
  /\ stream[n].chan # << >>
  /\ LET f == Head(stream[n].chan)
         was == heard[f.exp][f.nr]
     IN  heard' = [heard EXCEPT ![f.exp][f.nr] =
                     CASE f.type = "RunFault" /\ was = "nothing" -> "run"
                       [] f.type = "RunFault" /\ was = "ignored" -> "runaway"
                       [] f.type = "AbortFault" /\ was = "nothing" -> "ignored"
                       [] f.type = "AbortFault" /\ was \in {"run", "runaway"} -> "stopped"
                       [] OTHER -> was]
  /\ stream' = [stream EXCEPT ![n].chan = Tail(@)]
  /\ UNCHANGED <<call, recordVars, halts, sending, held, session, flagged, gone>>

Readable(n) == stream[n].stage \in {"open", "broken"} /\ Idle(<<"stream", n>>)

(* An InstanceStatus, or one entry of an InstanceReport.                    *)
Status(n, e, i, s) ==
  LET r == ReactToUpdate(ApplyStatus(store[e], i, s), Target[e])
  IN  /\ Readable(n)
      /\ Known(e)
      /\ Target[e][i] = stream[n].host
      /\ heard[e][i] \notin {"nothing", "ignored"}
      /\ Accepts(store[e], i)
      /\ store' = [store EXCEPT ![e] = r.record]
      /\ sending' = [sending EXCEPT ![<<"stream", n>>] = Aborts(e, r.aborts)]
      /\ UNCHANGED <<call, armed, halts, held, streamVars, heard, gone>>

(* Mutant: a taint is recorded, and the switch left to the next status.     *)
TaintUnheeded(n) ==
  LET h == stream[n].host
      hit == {e \in Experiment : Known(e) /\ h \in {Target[e][i] : i \in DOMAIN Target[e]}}
  IN  /\ Readable(n)
      /\ flagged' = flagged \cup {h}
      /\ store' = [e \in Experiment |-> IF e \in hit THEN RecordTaint(store[e], h) ELSE store[e]]
      /\ UNCHANGED <<call, armed, halts, sending, held, stream, session, heard, gone>>

(* A taint trips every live experiment that targets the host.               *)
Taint(n) ==
  LET h == stream[n].host
      hit == {e \in Experiment : Known(e) /\ ~IsConcluded(store[e])
                                   /\ h \in {Target[e][i] : i \in DOMAIN Target[e]}}
      r == [e \in hit |-> ReactToUpdate(RecordTaint(store[e], h), Target[e])]
  IN  /\ Readable(n)
      /\ flagged' = flagged \cup {h}
      /\ store' = [e \in Experiment |-> IF e \in hit THEN r[e].record ELSE store[e]]
      /\ sending' = [sending EXCEPT ![<<"stream", n>>] =
                       UNION {Aborts(e, r[e].aborts) : e \in hit}]
      /\ UNCHANGED <<call, armed, halts, held, stream, session, heard, gone>>

Untaint(n) ==
  /\ MayHeal
  /\ Readable(n)
  /\ stream[n].host \in flagged
  /\ flagged' = flagged \ {stream[n].host}
  /\ UNCHANGED <<call, recordVars, halts, sending, held, stream, session, heard, gone>>

-----------------------------------------------------------------------------
Work(t) == LookUp(t) \/ Push(t)

Next ==
  \/ \E e \in Experiment :
       \/ Submit(e) \/ Accept(e) \/ ArmDeadline(e) \/ HaltExperiment(e)
       \/ DeadlineFires(e)
       \/ \E kind \in {"start", "halt"} : HangUp(e, kind)
  \/ \E t \in Task : Work(t)
  \/ \E n \in StreamId :
       \/ \E h \in Host : Register(h, n)
       \/ Break(n) \/ Close(n) \/ Deliver(n) \/ Taint(n) \/ Untaint(n)
       \/ \E e \in Experiment : \E i \in DOMAIN Target[e], s \in InstanceStates :
            Status(n, e, i, s)

Spec == Init /\ [][Next]_vars

(***************************************************************************)
(* Fairness: the runtime polls every task, a sleep ends, and a stream with  *)
(* frames in it is read or breaks in the end.                              *)
(***************************************************************************)
Fairness ==
  /\ \A e \in Experiment :
       /\ WF_vars(Accept(e)) /\ WF_vars(ArmDeadline(e))
       /\ WF_vars(DeadlineFires(e))
  /\ \A t \in Task : WF_vars(Work(t))
  /\ \A n \in StreamId : WF_vars(stream[n].chan # << >> /\ (Deliver(n) \/ Break(n)))

FairSpec == Spec /\ Fairness

-----------------------------------------------------------------------------
(***************************************************************************)
(* Safety.                                                                 *)
(***************************************************************************)

(* Between two steps no trigger and no conclusion is left untaken: a        *)
(* running experiment has no failure, no taint, and something unfinished.   *)
(* About: react_to_update after every change, whichever task makes it.      *)
TriggersTaken ==
  \A e \in Experiment : Known(e) /\ ~IsConcluded(store[e]) =>
    /\ Unfinished(store[e]) # {}
    /\ store[e].phase = "Running" => KillTrigger(store[e], Target[e]) = NoCause

AbortPending(e, i) ==
  \E t \in Task : FrameOf("AbortFault", e, i) \in sending[t] \cup {held[t].frame}

(* Once the kill switch has fired, every unfinished instance has an abort   *)
(* on its way, or handed to a stream, or dropped for want of a session or   *)
(* with the client that asked for it.                                       *)
(* About: fire_kill_switch and the tasks that send what it collected.       *)
HaltReachesAll ==
  \A e \in Experiment : Known(e) /\ store[e].phase = "Halting" =>
    \A i \in Unfinished(store[e]) : AbortPending(e, i) \/ <<e, i>> \in gone

(* A concluded record says what its instances and taints say, and why:      *)
(* no later report, taint, halt or deadline can make it untrue.  About:     *)
(* outcome, outcome_cause and the is_concluded guards of every handler.     *)
OutcomeTrue ==
  \A e \in Experiment : Known(e) /\ IsConcluded(store[e]) =>
    /\ OutcomeOf(store[e]) = store[e].phase
    /\ store[e].phase # "Completed" => store[e].cause # NoCause

(* The three together, with every variable in its range, where experiments  *)
(* share a host: a taint or a full channel that one of them meets is met by *)
(* all.  About: the loops over every live record in handle_taint_status and *)
(* the awaits inside them.                                                  *)
RecordsSound == TypeOK /\ TriggersTaken /\ HaltReachesAll /\ OutcomeTrue

(* The first cause is the one kept.  About: fire_kill_switch, halt,         *)
(* resolve_deadline and conclude_if_done racing for one record.             *)
FirstCauseKept ==
  [][\A e \in Experiment :
       Known(e) /\ store[e].cause # NoCause => store'[e].cause = store[e].cause]_vars

(* The newest stream of a host is its session until it closes, however      *)
(* late the streams before it close.  About: insert and remove_if_current.  *)
NewestIsCurrent ==
  \A n \in StreamId :
    stream[n].stage \in {"open", "broken"} /\ Newest(n) => session[stream[n].host] = n

(* An instance the kill switch was fired on does not run on unstopped.      *)
KillSwitchStops ==
  \A e \in Experiment : \A i \in DOMAIN Target[e] : heard[e][i] # "runaway"

(***************************************************************************)
(* Liveness.                                                               *)
(***************************************************************************)

(* Every accepted experiment concludes, whatever its agents do.  About:     *)
(* the deadline task and the sends it waits for.                            *)
ExperimentsResolve ==
  \A e \in Experiment : Known(e) ~> (Known(e) /\ IsConcluded(store[e]))
=============================================================================
