------------------------------ MODULE AgentLink ------------------------------
(***************************************************************************)
(* What the master is told of one host.  The agent's tasks put frames into *)
(* one channel; its session loop carries them to the master over a stream  *)
(* that may break at any moment and is then opened again.  Every new       *)
(* stream begins with Register, RegisterAck, the report of live instances, *)
(* the taint of the host, the frames of journal replay and the one frame   *)
(* the previous stream could not take.  The master may still be reading    *)
(* what an older stream had delivered when it reads the newer one.         *)
(*                                                                         *)
(* Instances appear through what they show and tell: their view, their     *)
(* journal entry, the taint and the frames they emit, in the order of      *)
(* InstanceMachine; telemetry is left out, and a replay is one step per    *)
(* entry.  All channels are bounded.  Whoever is putting a frame into a    *)
(* full one does nothing else: a task of the agent, its session loop, and  *)
(* the reader of a stream at the master, which answers a Register and a    *)
(* Heartbeat and sends the aborts of a kill switch that it tripped.  What  *)
(* the master makes of a status is Dispatcher's: told is what it was told. *)
(***************************************************************************)
EXTENDS Naturals, Sequences

CONSTANTS
  Instance,    \* instances the master may order on this host
  OutCap,      \* frames the agent's outbound channel holds (256 in the code)
  WireCap,     \* frames on their way in one stream (64 in the code)
  DownCap,     \* frames on their way to the agent (32 in the code)
  MaxTrouble,  \* bound: breaks, restarts, failed removals, beats, stops and clears, together
  MarkMayFail  \* may writing the taint record fail?

ASSUME ConstantsAssumption ==
  /\ MaxTrouble \in Nat /\ MarkMayFail \in BOOLEAN
  /\ {OutCap, WireCap, DownCap} \subseteq Nat \ {0}

VARIABLES
  view,      \* what the agent shows of each instance it knows
  todo,      \* effects each instance task has still to perform
  journal,   \* instances with an entry on disk
  taint,     \* is there a taint record on disk?
  clearing,  \* what the ClearTaint task has still to do
  entries,   \* entries the replay has still to go through
  out,       \* the outbound channel of the agent
  carry,     \* at most one frame a broken stream could not take
  startup,   \* frames of the replay, still to be sent
  stage,     \* where the session loop stands
  stream,    \* the newest stream the agent opened, 0 before the first
  link,      \* the state of each stream
  wire,      \* frames on their way to the master, by stream
  down,      \* frames on their way to the agent, by stream
  session,   \* the stream the master sends to, 0 when there is none
  acking,    \* streams whose Register was read and not acknowledged yet
  beating,   \* streams whose Heartbeat was read and not acknowledged yet
  owes,      \* the instances whose AbortFault the reader of a stream has to send
  aim,       \* the stream its next AbortFault was looked up to go to, or 0
  told,      \* the state the master has for each instance
  flag,      \* the registry's taint flag of the host
  sent,      \* instances ordered
  asked,     \* instances an abort was requested for
  cleared,   \* was ClearTaint given? (bound: once)
  trouble,   \* how many of those there were so far
  lost,      \* instances whose order or end is gone for good (history)
  kept,      \* instances whose entry could not be removed (history)
  newest,    \* the newest stream whose Register was read (history)
  late,      \* what an older stream told last (history)
  raced,     \* did a mark of the taint overlap with a clear? (history)
  quarantined,  \* instances this process gave up for quarantine (history)
  unmarked   \* the stream on which the newest mark failed, if it did (history)

hostVars == <<view, todo, journal, taint, clearing, entries, kept, quarantined, unmarked>>
loopVars == <<out, carry, startup, stage, stream>>
wireVars == <<link, wire, down>>
readerVars == <<acking, beating, owes, aim>>
masterVars == <<session, readerVars, told, flag, sent, asked, cleared>>
history == <<lost, newest, late, raced>>
vars == <<hostVars, loopVars, wireVars, masterVars, trouble, history>>

StreamId == 1..(MaxTrouble + 1)
None == "None"
Live == {"Pending", "Preflight", "Injecting", "Active", "Recovering"}
Terminal == {"Done", "Aborted", "Error"}
View == Live \cup Terminal \cup {None}

-----------------------------------------------------------------------------
(***************************************************************************)
(* Frames.  An order and an end are worth more than the other frames: the  *)
(* report of the next stream repeats neither.                              *)
(***************************************************************************)
Register == [type |-> "Register"]
Report(v) == [type |-> "InstanceReport", view |-> v]
Heartbeat == [type |-> "Heartbeat"]
TaintStatus(b) == [type |-> "TaintStatus", tainted |-> b]
Status(i, s) == [type |-> "InstanceStatus", about |-> i, state |-> s]

RegisterAck == [type |-> "RegisterAck"]
HeartbeatAck == [type |-> "HeartbeatAck"]
RunFault(i) == [type |-> "RunFault", about |-> i]
AbortFault(i) == [type |-> "AbortFault", about |-> i]
ClearTaint == [type |-> "ClearTaint"]

Frame ==
  {Register, Heartbeat} \cup {TaintStatus(b) : b \in BOOLEAN}
  \cup [type : {"InstanceReport"}, view : [Instance -> Live \cup {None}]]
  \cup {Status(i, s) : i \in Instance, s \in Live \cup Terminal}
Command ==
  {RegisterAck, HeartbeatAck, ClearTaint}
  \cup {RunFault(i) : i \in Instance} \cup {AbortFault(i) : i \in Instance}

Elements(s) == {s[k] : k \in DOMAIN s}
Ends(s) ==
  {f.about : f \in {g \in Elements(s) : g.type = "InstanceStatus" /\ g.state \in Terminal}}
Orders(s) == {f.about : f \in {g \in Elements(s) : g.type = "RunFault"}}

Send(f) == [do |-> "Send", frame |-> f]
Mark == [do |-> "Mark"]
Remove == [do |-> "Remove"]
Clear == [do |-> "Clear"]
Read == [do |-> "Read"]
Effect == {Mark, Remove, Clear, Read} \cup [do : {"Send"}, frame : Frame]

TypeOK ==
  /\ view \in [Instance -> View]
  /\ \A i \in Instance : Elements(todo[i]) \subseteq Effect
  /\ {journal, entries, kept} \subseteq SUBSET Instance /\ taint \in BOOLEAN
  /\ Elements(clearing) \subseteq Effect
  /\ Elements(out) \subseteq Frame /\ Len(out) <= OutCap
  /\ Elements(carry) \subseteq Frame /\ Len(carry) <= 1
  /\ Elements(startup) \subseteq Frame
  /\ stage \in {"boot", "down", "ack", "report", "taint", "startup", "carry", "beat", "up"}
  /\ stream \in StreamId \cup {0}
  /\ link \in [StreamId -> {"unused", "open", "broken", "closed"}]
  /\ \A n \in StreamId : /\ Elements(wire[n]) \subseteq Frame /\ Len(wire[n]) <= WireCap
                         /\ Elements(down[n]) \subseteq Command /\ Len(down[n]) <= DownCap
  /\ session \in StreamId \cup {0} /\ {acking, beating} \subseteq SUBSET StreamId
  /\ owes \in [StreamId -> SUBSET Instance] /\ aim \in [StreamId -> StreamId \cup {0}]
  /\ told \in [Instance -> View] /\ flag \in BOOLEAN
  /\ {sent, asked, lost, quarantined} \subseteq SUBSET Instance /\ newest \in StreamId \cup {0}
  /\ cleared \in BOOLEAN /\ trouble \in 0..MaxTrouble /\ unmarked \subseteq StreamId \cup {0}

Init ==
  /\ view = [i \in Instance |-> None]
  /\ todo = [i \in Instance |-> << >>]
  /\ journal = {} /\ entries = {} /\ kept = {} /\ taint = FALSE /\ clearing = << >>
  /\ out = << >> /\ carry = << >> /\ startup = << >>
  /\ stage = "down" /\ stream = 0
  /\ link = [n \in StreamId |-> "unused"]
  /\ wire = [n \in StreamId |-> << >>]
  /\ down = [n \in StreamId |-> << >>]
  /\ session = 0 /\ acking = {} /\ beating = {} /\ asked = {}
  /\ owes = [n \in StreamId |-> {}] /\ aim = [n \in StreamId |-> 0]
  /\ told = [i \in Instance |-> None] /\ flag = FALSE
  /\ sent = {} /\ cleared = FALSE /\ trouble = 0
  /\ lost = {} /\ newest = 0 /\ late = {} /\ raced = FALSE
  /\ quarantined = {} /\ unmarked = {}

-----------------------------------------------------------------------------
(***************************************************************************)
(* The instance tasks.  A step of the machine sets the view and then       *)
(* performs its effects one by one, waiting while the channel is full.     *)
(***************************************************************************)
Step(s, effects) == [view |-> s, effects |-> effects]
Telling(i, s) == <<Send(Status(i, s))>>

(* Mutant: the end is told while the entry is still on disk.                *)
EndingUnremoved(i, s) == Telling(i, s) \o <<Remove>>

Ending(i, s) == <<Remove>> \o Telling(i, s)
Quarantining(i) == <<Mark>> \o Ending(i, "Error")

Steps(i) ==
  CASE view[i] = "Pending" ->
         {Step("Aborted", Telling(i, "Aborted"))}
         \cup IF taint THEN {} ELSE {Step("Preflight", Telling(i, "Preflight"))}
    [] view[i] = "Preflight" ->
         {Step("Aborted", Telling(i, "Aborted")), Step("Injecting", Telling(i, "Injecting"))}
    [] view[i] = "Injecting" ->
         {Step("Active", Telling(i, "Active")), Step("Recovering", Telling(i, "Recovering")),
          Step("Aborted", Ending(i, "Aborted"))}
    [] view[i] = "Active" -> {Step("Recovering", Telling(i, "Recovering"))}
    [] view[i] = "Recovering" ->
         {Step(s, Ending(i, s)) : s \in Terminal} \cup {Step("Error", Quarantining(i))}
    [] OTHER -> {}

(* The entry is written on the way from preflight to inject.                *)
React(i) ==
  /\ todo[i] = << >>
  /\ \E m \in Steps(i) :
       /\ view' = [view EXCEPT ![i] = m.view]
       /\ todo' = [todo EXCEPT ![i] = m.effects]
       /\ journal' = IF m.view = "Injecting" THEN journal \cup {i} ELSE journal
  /\ UNCHANGED <<taint, clearing, entries, kept, quarantined, unmarked, loopVars, wireVars,
                 masterVars, trouble, history>>

Emit(f) == Len(out) < OutCap /\ out' = Append(out, f)

TellsTaint(effects) == effects # << >> /\ effects[1] = Send(TaintStatus(TRUE))

(* A record that is there is kept; a write that fails is only logged.       *)
WriteMark ==
  /\ taint' = TRUE \/ (MarkMayFail /\ ~taint /\ UNCHANGED taint)
  /\ unmarked' = IF taint' THEN {} ELSE {stream}

(* Mutant: a mark that failed returns before the taint is told.             *)
AfterMarkWritten == IF taint' THEN <<Send(TaintStatus(TRUE))>> ELSE << >>

(* A mark is followed at once by its frame, which says tainted whatever the *)
(* disk says by then.                                                       *)
AfterMark == <<Send(TaintStatus(TRUE))>>

(* A removal that fails is only logged, and what follows it goes on.        *)
Unlink(i) ==
  \/ journal' = journal \ {i} /\ kept' = kept \ {i} /\ UNCHANGED trouble
  \/ /\ UNCHANGED journal /\ kept' = kept \cup {i}
     /\ trouble < MaxTrouble /\ trouble' = trouble + 1

Perform(i) ==
  /\ todo[i] # << >>
  /\ LET e == Head(todo[i]) IN
     \/ /\ e.do = "Send" /\ Emit(e.frame)
        /\ todo' = [todo EXCEPT ![i] = Tail(@)]
        /\ UNCHANGED <<journal, kept, trouble, taint, raced, quarantined, unmarked>>
     \/ /\ e.do = "Mark" /\ WriteMark /\ quarantined' = quarantined \cup {i}
        /\ todo' = [todo EXCEPT ![i] = AfterMark \o Tail(@)]
        /\ raced' = (raced \/ clearing # << >>)
        /\ UNCHANGED <<journal, kept, trouble, out>>
     \/ /\ e.do = "Remove" /\ Unlink(i)
        /\ todo' = [todo EXCEPT ![i] = Tail(@)]
        /\ UNCHANGED <<taint, out, raced, quarantined, unmarked>>
  /\ UNCHANGED <<view, clearing, entries, carry, startup, stage, stream, wireVars,
                 masterVars, lost, newest, late>>

(* ClearTaint removes the record, reads what is there then, and tells it; a *)
(* removal that fails is told as a taint.                                   *)
PerformClear ==
  /\ clearing # << >>
  /\ LET e == Head(clearing) IN
     \/ /\ e.do = "Clear"
        /\ \/ taint' = FALSE /\ clearing' = <<Read>> /\ unmarked' = {}
           \/ /\ taint /\ UNCHANGED <<taint, unmarked>>
              /\ clearing' = <<Send(TaintStatus(TRUE))>>
        /\ raced' = (raced \/ \E i \in Instance : TellsTaint(todo[i]))
        /\ UNCHANGED out
     \/ /\ e.do = "Read" /\ clearing' = <<Send(TaintStatus(taint))>>
        /\ UNCHANGED <<taint, out, raced, unmarked>>
     \/ /\ e.do = "Send" /\ Emit(e.frame) /\ clearing' = << >>
        /\ UNCHANGED <<taint, raced, unmarked>>
  /\ UNCHANGED <<view, todo, journal, entries, kept, quarantined, carry, startup, stage,
                 stream, wireVars, masterVars, trouble, lost, newest, late>>

-----------------------------------------------------------------------------
(***************************************************************************)
(* The session loop.  A frame pushed into a stream that broke is either    *)
(* taken and never seen again, or refused; the loop learns of the break    *)
(* from a refusal or from its inbound side.  It reads what the master says *)
(* at the stages "ack" and "up" alone: at the others it has a frame in     *)
(* hand and waits for room.                                                *)
(***************************************************************************)
Open == link[stream] = "open"

NextStage(s, c) ==
  IF s # << >> THEN "startup" ELSE IF c # << >> THEN "carry" ELSE "up"

Put(f) ==
  /\ \/ Open /\ Len(wire[stream]) < WireCap /\ wire' = [wire EXCEPT ![stream] = Append(@, f)]
        /\ UNCHANGED lost
     \/ ~Open /\ lost' = lost \cup Ends(<<f>>) /\ UNCHANGED wire
  /\ UNCHANGED <<link, down>>

(* The stream is left: what was on its way to the agent is gone.            *)
Leave(gone) ==
  /\ ~Open
  /\ stage' = "down"
  /\ down' = [down EXCEPT ![stream] = << >>]
  /\ lost' = lost \cup Orders(down[stream]) \cup gone
  /\ UNCHANGED <<link, wire, stream>>

Connect ==
  /\ stage = "down"
  /\ stream' = stream + 1 /\ stage' = "ack"
  /\ link' = [link EXCEPT ![stream'] = "open"]
  /\ wire' = [wire EXCEPT ![stream'] = <<Register>>]
  /\ UNCHANGED <<hostVars, out, carry, startup, down, masterVars, trouble, history>>

(* Whatever comes before RegisterAck is skipped.                            *)
AwaitAck ==
  /\ stage = "ack" /\ down[stream] # << >>
  /\ stage' = IF Head(down[stream]) = RegisterAck THEN "report" ELSE "ack"
  /\ lost' = lost \cup Orders(<<Head(down[stream])>>)
  /\ down' = [down EXCEPT ![stream] = Tail(@)]
  /\ UNCHANGED <<hostVars, out, carry, startup, stream, link, wire, masterVars, trouble,
                 newest, late, raced>>

(* Mutant: the report names nobody.                                         *)
SnapshotEmpty == [i \in Instance |-> None]
Snapshot == [i \in Instance |-> IF view[i] \in Live THEN view[i] ELSE None]

(* A report or a taint frame that is refused replaces the frame in carry.   *)
SendReport ==
  /\ stage = "report"
  /\ \/ Put(Report(Snapshot)) /\ stage' = "taint" /\ UNCHANGED <<carry, stream>>
     \/ Leave(Ends(carry)) /\ carry' = <<Report(Snapshot)>>
  /\ UNCHANGED <<hostVars, out, startup, masterVars, trouble, newest, late, raced>>

SendTaint ==
  /\ stage = "taint"
  /\ \/ /\ Put(TaintStatus(taint)) /\ stage' = NextStage(startup, carry)
        /\ UNCHANGED <<carry, stream>>
     \/ Leave(Ends(carry)) /\ carry' = <<TaintStatus(taint)>>
  /\ UNCHANGED <<hostVars, out, startup, masterVars, trouble, newest, late, raced>>

(* A frame of the replay that is refused goes back to the front.            *)
SendStartup ==
  /\ stage = "startup"
  /\ \/ /\ Put(Head(startup)) /\ startup' = Tail(startup)
        /\ stage' = NextStage(Tail(startup), carry) /\ UNCHANGED stream
     \/ Leave({}) /\ UNCHANGED startup
  /\ UNCHANGED <<hostVars, out, carry, masterVars, trouble, newest, late, raced>>

(* Mutant: a refused frame is dropped.                                      *)
SendCarryOnce ==
  /\ stage = "carry" /\ carry' = << >>
  /\ \/ Put(carry[1]) /\ stage' = "up" /\ UNCHANGED stream
     \/ Leave({})
  /\ UNCHANGED <<hostVars, out, startup, masterVars, trouble, newest, late, raced>>

SendCarry ==
  /\ stage = "carry"
  /\ \/ Put(carry[1]) /\ carry' = << >> /\ stage' = "up" /\ UNCHANGED stream
     \/ Leave({}) /\ UNCHANGED carry
  /\ UNCHANGED <<hostVars, out, startup, masterVars, trouble, newest, late, raced>>

(* A frame of the tasks is in the hands of the loop like the carried one.   *)
Forward ==
  /\ stage = "up" /\ out # << >>
  /\ carry' = <<Head(out)>> /\ out' = Tail(out) /\ stage' = "carry"
  /\ UNCHANGED <<hostVars, startup, stream, wireVars, masterVars, trouble, history>>

(* The heartbeat is due; one that is refused is dropped.                    *)
Beat ==
  /\ stage = "up" /\ stage' = "beat"
  /\ trouble < MaxTrouble /\ trouble' = trouble + 1
  /\ UNCHANGED <<hostVars, out, carry, startup, stream, wireVars, masterVars, history>>

SendBeat ==
  /\ stage = "beat"
  /\ \/ Put(Heartbeat) /\ stage' = "up" /\ UNCHANGED stream
     \/ Leave({})
  /\ UNCHANGED <<hostVars, out, carry, startup, masterVars, trouble, newest, late, raced>>

(* The inbound side ends.                                                   *)
Notice ==
  /\ stage \in {"ack", "up"} /\ Leave({})
  /\ UNCHANGED <<hostVars, out, carry, startup, masterVars, trouble, newest, late, raced>>

(* An order for an instance the agent knows is ignored, and an abort tells  *)
(* the task to stop, which it may do anyway.                                *)
Receive ==
  /\ stage = "up" /\ down[stream] # << >>
  /\ down' = [down EXCEPT ![stream] = Tail(@)]
  /\ LET c == Head(down[stream]) IN
     \/ /\ c.type = "RunFault" /\ view[c.about] = None
        /\ view' = [view EXCEPT ![c.about] = "Pending"]
        /\ todo' = [todo EXCEPT ![c.about] = Telling(c.about, "Pending")]
        /\ UNCHANGED clearing
     \/ c.type = "ClearTaint" /\ clearing' = <<Clear>> /\ UNCHANGED <<view, todo>>
     \/ /\ c.type = "RunFault" => view[c.about] # None
        /\ c.type # "ClearTaint" /\ UNCHANGED <<view, todo, clearing>>
  /\ UNCHANGED <<journal, taint, entries, kept, quarantined, unmarked, loopVars, link, wire,
                 masterVars, trouble, history>>

-----------------------------------------------------------------------------
(***************************************************************************)
(* The agent dies with all it has not written down, and goes through its   *)
(* journal before it connects again.  Orders it cannot read there, and the *)
(* whole replay when it fails, are given up: nobody asks for them again    *)
(* before the next restart.                                                *)
(***************************************************************************)
UntoldEnd(i) == view[i] \in Terminal /\ todo[i] # << >>

Crash ==
  /\ trouble < MaxTrouble /\ trouble' = trouble + 1
  /\ lost' = lost \cup Ends(out) \cup Ends(carry) \cup Ends(startup)
              \cup (IF stream = 0 THEN {} ELSE Orders(down[stream]))
              \cup {i \in Instance \ journal : view[i] \in Live \/ UntoldEnd(i)}
  /\ view' = [i \in Instance |-> None] /\ todo' = [i \in Instance |-> << >>]
  /\ clearing' = << >> /\ out' = << >> /\ carry' = << >> /\ startup' = << >>
  /\ stage' = "boot" /\ entries' = journal /\ quarantined' = {} /\ unmarked' = {}
  /\ link' = [n \in StreamId |-> IF n = stream /\ link[n] = "open" THEN "broken" ELSE link[n]]
  /\ down' = [n \in StreamId |-> IF n = stream THEN << >> ELSE down[n]]
  /\ UNCHANGED <<journal, kept, taint, stream, wire, masterVars, newest, late, raced>>

ReplayEntry(i) ==
  /\ stage = "boot" /\ i \in entries /\ entries' = entries \ {i} /\ Unlink(i)
  /\ \/ /\ \E s \in {"Aborted", "Error"} :
             startup' = startup \o <<Status(i, "Recovering"), Status(i, s)>>
        /\ UNCHANGED <<taint, quarantined, unmarked>>
     \/ /\ WriteMark /\ quarantined' = quarantined \cup {i}
        /\ startup' =
             startup \o <<Status(i, "Recovering"), TaintStatus(TRUE), Status(i, "Error")>>
  /\ UNCHANGED <<view, todo, clearing, out, carry, stage, stream, wireVars, masterVars,
                 history>>

(* An entry that cannot be read stays, and quarantines the host.            *)
SkipEntry(i) ==
  /\ stage = "boot" /\ i \in entries /\ entries' = entries \ {i}
  /\ WriteMark /\ quarantined' = quarantined \cup {i}
  /\ startup' = Append(startup, TaintStatus(TRUE))
  /\ lost' = lost \cup {i}
  /\ UNCHANGED <<view, todo, journal, kept, clearing, out, carry, stage, stream, wireVars,
                 masterVars, trouble, newest, late, raced>>

(* The journal could not be listed, or the replay died half-way: the agent  *)
(* goes on without what the replay had to say.                              *)
AbandonReplay ==
  /\ stage = "boot" /\ stage' = "down" /\ entries' = {} /\ startup' = << >>
  /\ lost' = lost \cup entries \cup Ends(startup)
  /\ UNCHANGED <<view, todo, journal, kept, taint, clearing, quarantined, unmarked, out,
                 carry, stream, wireVars, masterVars, trouble, newest, late, raced>>

Booted ==
  /\ stage = "boot" /\ entries = {} /\ stage' = "down"
  /\ UNCHANGED <<hostVars, out, carry, startup, stream, wireVars, masterVars, trouble,
                 history>>

-----------------------------------------------------------------------------
(***************************************************************************)
(* The master.  One task per stream reads it to its end, one frame after   *)
(* the other; orders and clears go to the current session.                 *)
(***************************************************************************)
Break(n) ==
  /\ link[n] = "open" /\ trouble < MaxTrouble /\ trouble' = trouble + 1
  /\ link' = [link EXCEPT ![n] = "broken"]
  /\ UNCHANGED <<hostVars, loopVars, wire, down, masterVars, history>>

(* Ends absorb; a report applies its statuses one after the other.          *)
Told(i, s) == IF s = None \/ told[i] \in Terminal THEN told[i] ELSE s

Topics(f) ==
  CASE f.type = "InstanceStatus" -> {<<f.type, f.about>>}
    [] f.type = "InstanceReport" ->
         {<<"InstanceStatus", i>> : i \in {j \in Instance : f.view[j] # None}}
    [] f.type = "Heartbeat" -> {}
    [] OTHER -> {<<f.type, None>>}

(* The reader of a stream has nothing in hand.                              *)
Free(n) == n \notin acking \cup beating /\ owes[n] = {}

(* A kill switch trips on a taint, on an Error, and on an Aborted nobody    *)
(* asked for, of an instance that has not ended.                            *)
Trips(f) ==
  \/ f.type = "TaintStatus" /\ f.tainted
  \/ /\ f.type = "InstanceStatus" /\ f.about \in sent /\ told[f.about] \notin Terminal
     /\ f.state = "Error" \/ (f.state = "Aborted" /\ f.about \notin asked)

(* It asks for the abort of some of the instances that are not to end yet:  *)
(* those of the experiments that are tripped.                               *)
Tripped(n, f) ==
  \E S \in SUBSET {i \in sent \ asked : told'[i] \notin Terminal} :
    /\ Trips(f) \/ S = {}
    /\ asked' = asked \cup S /\ owes' = [owes EXCEPT ![n] = S]

(* Mutant: a Register is refused while another stream is the session.       *)
IntakeRefusing(n) ==
  /\ link[n] \in {"open", "broken"} /\ wire[n] # << >> /\ Free(n)
  /\ wire' = [wire EXCEPT ![n] = Tail(@)]
  /\ IF Head(wire[n]) = Register /\ session = 0
     THEN session' = n /\ acking' = acking \cup {n}
     ELSE UNCHANGED <<session, acking>>
  /\ UNCHANGED <<hostVars, loopVars, link, down, beating, owes, aim, told, flag, sent, asked,
                 cleared, trouble, history>>

Intake(n) ==
  /\ link[n] \in {"open", "broken"} /\ wire[n] # << >> /\ Free(n)
  /\ wire' = [wire EXCEPT ![n] = Tail(@)]
  /\ LET f == Head(wire[n]) IN
     /\ session' = IF f.type = "Register" THEN n ELSE session
     /\ acking' = IF f.type = "Register" THEN acking \cup {n} ELSE acking
     /\ beating' = IF f.type = "Heartbeat" THEN beating \cup {n} ELSE beating
     /\ flag' = IF f.type = "TaintStatus" THEN f.tainted ELSE flag
     /\ told' = CASE f.type = "InstanceStatus" ->
                       [told EXCEPT ![f.about] = Told(f.about, f.state)]
                  [] f.type = "InstanceReport" -> [i \in Instance |-> Told(i, f.view[i])]
                  [] OTHER -> told
     /\ Tripped(n, f)
     /\ newest' = IF f.type = "Register" /\ n > newest THEN n ELSE newest
     /\ late' = IF n < newest THEN late \cup Topics(f) ELSE late \ Topics(f)
  /\ UNCHANGED <<hostVars, loopVars, link, down, aim, sent, cleared, trouble, lost, raced>>

(* A frame for the agent waits for room; when nobody is there to read it,   *)
(* or the stream broke, it is refused.                                      *)
Heard(n) == n = stream /\ stage \notin {"boot", "down"}

Pass(n, c) ==
  Heard(n) /\ Len(down[n]) < DownCap /\ down' = [down EXCEPT ![n] = Append(@, c)]

Refused(n) == ~Heard(n) \/ link[n] # "open"

Say(n, c) ==
  \/ Pass(n, c) /\ UNCHANGED lost
  \/ Refused(n) /\ lost' = lost \cup Orders(<<c>>) /\ UNCHANGED down

(* An answer goes to the stream that asked; a reader whose answer is        *)
(* refused stops reading (Close).                                           *)
Acknowledge(n) ==
  /\ n \in acking /\ acking' = acking \ {n} /\ Pass(n, RegisterAck)
  /\ UNCHANGED <<hostVars, loopVars, link, wire, session, beating, owes, aim, told, flag, sent,
                 asked, cleared, trouble, history>>

AnswerBeat(n) ==
  /\ n \in beating /\ beating' = beating \ {n} /\ Pass(n, HeartbeatAck)
  /\ UNCHANGED <<hostVars, loopVars, link, wire, session, acking, owes, aim, told, flag, sent,
                 asked, cleared, trouble, history>>

(* An abort goes to the stream that is the session when it is looked up.    *)
LookUp(n) ==
  /\ owes[n] # {} /\ aim[n] = 0
  /\ \/ session # 0 /\ aim' = [aim EXCEPT ![n] = session] /\ UNCHANGED owes
     \/ /\ session = 0 /\ UNCHANGED aim
        /\ \E i \in owes[n] : owes' = [owes EXCEPT ![n] = @ \ {i}]
  /\ UNCHANGED <<hostVars, loopVars, wireVars, session, acking, beating, told, flag, sent,
                 asked, cleared, trouble, history>>

Deliver(n) ==
  /\ aim[n] # 0 /\ aim' = [aim EXCEPT ![n] = 0]
  /\ \E i \in owes[n] : owes' = [owes EXCEPT ![n] = @ \ {i}] /\ Say(aim[n], AbortFault(i))
  /\ UNCHANGED <<hostVars, loopVars, link, wire, session, acking, beating, told, flag, sent,
                 asked, cleared, trouble, newest, late, raced>>

(* What the reader of a broken stream has not read by now is gone.          *)
Close(n) ==
  /\ link[n] = "broken" /\ owes[n] = {}
  /\ link' = [link EXCEPT ![n] = "closed"]
  /\ wire' = [wire EXCEPT ![n] = << >>]
  /\ lost' = lost \cup Ends(wire[n])
  /\ session' = IF session = n THEN 0 ELSE session
  /\ acking' = acking \ {n} /\ beating' = beating \ {n}
  /\ UNCHANGED <<hostVars, loopVars, down, owes, aim, told, flag, sent, asked, cleared,
                 trouble, newest, late, raced>>

Order(i) ==
  /\ session # 0 /\ i \notin sent /\ sent' = sent \cup {i}
  /\ Say(session, RunFault(i))
  /\ UNCHANGED <<hostVars, loopVars, link, wire, session, readerVars, told, flag, asked,
                 cleared, trouble, newest, late, raced>>

(* An abort that no frame of this host asked for: an operator's halt, a     *)
(* deadline, or a kill switch tripped from another host.                    *)
Stop(i) ==
  /\ session # 0 /\ i \in sent \ asked /\ told[i] \notin Terminal
  /\ asked' = asked \cup {i}
  /\ trouble < MaxTrouble /\ trouble' = trouble + 1
  /\ Say(session, AbortFault(i))
  /\ UNCHANGED <<hostVars, loopVars, link, wire, session, readerVars, told, flag, sent,
                 cleared, newest, late, raced>>

Relay ==
  /\ session # 0 /\ ~cleared /\ cleared' = TRUE
  /\ trouble < MaxTrouble /\ trouble' = trouble + 1
  /\ Say(session, ClearTaint)
  /\ UNCHANGED <<hostVars, loopVars, link, wire, session, readerVars, told, flag, sent, asked,
                 newest, late, raced>>

Task == \E i \in Instance : React(i) \/ Perform(i)
Loop ==
  Connect \/ AwaitAck \/ SendReport \/ SendTaint \/ SendStartup \/ SendCarry \/ Forward
  \/ SendBeat \/ Notice \/ Receive
Boot == Booted \/ AbandonReplay \/ \E i \in Instance : ReplayEntry(i) \/ SkipEntry(i)
Master ==
  \E n \in StreamId :
    Intake(n) \/ Acknowledge(n) \/ AnswerBeat(n) \/ LookUp(n) \/ Deliver(n) \/ Close(n)

(* What the two programs do of themselves, and what is done to them.        *)
Program == Task \/ PerformClear \/ Loop \/ Boot \/ Master
Environment ==
  \/ Crash \/ Beat \/ Relay \/ \E n \in StreamId : Break(n)
  \/ \E i \in Instance : Order(i) \/ Stop(i)

Next == Program \/ Environment

Spec == Init /\ [][Next]_vars

-----------------------------------------------------------------------------
(***************************************************************************)
(* Properties.                                                             *)
(***************************************************************************)
(* The agent is connected and neither side has anything left to say.        *)
Quiet ==
  /\ stage = "up" /\ session = stream /\ Open
  /\ out = << >> /\ clearing = << >> /\ \A i \in Instance : todo[i] = << >>
  /\ \A n \in StreamId : wire[n] = << >> /\ down[n] = << >> /\ Free(n)

(* Once a reconnected agent has said all it has to say, the master shows    *)
(* every live instance as it is (report_frame, the startup frames and the   *)
(* carry arrive in an order that leaves the newest state last), unless an   *)
(* older stream was read after the newer one.                               *)
LiveViewsAgree ==
  Quiet => \A i \in Instance :
    view[i] \in Live => told[i] = view[i] \/ <<"InstanceStatus", i>> \in late

(* An order the agent has is never forgotten on both sides: the instance    *)
(* ended at the master, or lives at the agent, or its order or end is among *)
(* what the code gives up: frames of a broken stream (send_frame,           *)
(* run_session), what a restart forgets, and entries that a replay could    *)
(* not read or did not come to (replay_journal).                            *)
NothingVanishes ==
  Quiet => \A i \in sent :
    told[i] \in Terminal \/ view[i] \in Live \/ i \in lost

FlagAgrees ==
  Quiet => flag = taint \/ raced \/ unmarked # {} \/ <<"TaintStatus", None>> \in late

QuarantineReported ==
  Quiet /\ quarantined # {} /\ unmarked \subseteq {stream} /\ ~cleared =>
    flag \/ <<"TaintStatus", None>> \in late

(* What the master shows of the taint once the agent is connected and       *)
(* silent, unless an older stream spoke last.  It is what the disk says,    *)
(* but where a mark failed or ran into a clear; and an agent whose process  *)
(* gave an instance up for quarantine is tainted there until it is cleared, *)
(* even where the record was not written: the frame after the failed mark   *)
(* says so, up to the next registration, which speaks for the disk alone    *)
(* (mark_tainted, taint_status_frame, handle_clear_taint).                  *)
TaintKnown == FlagAgrees /\ QuarantineReported

(* An instance whose end the master was told does not run, and its entry is *)
(* gone unless removing it failed: a restart cannot bring it back but for   *)
(* the spurious cleanup the code speaks of (RemoveJournal, EmitStatus).     *)
EndsAreFinal ==
  \A i \in Instance :
    told[i] \in Terminal => view[i] \notin Live /\ (i \in journal => i \in kept)

(* The same, with every variable in its range.                              *)
LinkSound == TypeOK /\ EndsAreFinal

(* Who can go on, by the guards of the actions: a task with an effect left  *)
(* or a step to take, the loop, or the master's reader of some stream.      *)
Performable(effects) ==
  effects # << >> /\ (Head(effects).do = "Send" => Len(out) < OutCap)

TaskCan ==
  \E i \in Instance : Performable(todo[i]) \/ (todo[i] = << >> /\ view[i] \in Live)

Pushable == ~Open \/ Len(wire[stream]) < WireCap

InHand == {"report", "taint", "startup", "carry", "beat"}

LoopCan ==
  \/ stage \in {"boot", "down"}
  \/ stage \in {"ack", "up"} /\ (~Open \/ down[stream] # << >>)
  \/ stage \in InHand /\ Pushable
  \/ stage = "up" /\ out # << >>

Sayable(n) == Refused(n) \/ Len(down[n]) < DownCap

ReaderCan(n) ==
  \/ link[n] = "open" /\ wire[n] # << >> /\ Free(n)
  \/ link[n] = "broken" /\ owes[n] = {}
  \/ n \in acking \cup beating /\ Sayable(n)
  \/ owes[n] # {} /\ (aim[n] = 0 \/ Sayable(aim[n]))

MasterCan == \E n \in StreamId : ReaderCan(n)

CanGoOn == TaskCan \/ Performable(clearing) \/ LoopCan \/ MasterCan

(* Both directions of the stream are full, the loop has a frame in hand for *)
(* the one, the reader at the master one for the other: neither reads.      *)
BothFull ==
  /\ stage \in InHand /\ Open /\ Len(wire[stream]) = WireCap
  /\ ~Free(stream) /\ Len(down[stream]) = DownCap

(* Agent and master wait for each other only where BothFull, whatever broke *)
(* in the middle of the registration, a drain or a takeover of the session  *)
(* (run_session, register, send_to_host, remove_if_current); otherwise,     *)
(* short of silence, one of them can go on.  And but for a Register that    *)
(* was read after that of a newer stream: it takes the session with it when *)
(* it closes, and the agent never knows.                                    *)
NeverStalled == Quiet \/ CanGoOn \/ BothFull \/ <<"Register", None>> \in late
=============================================================================
