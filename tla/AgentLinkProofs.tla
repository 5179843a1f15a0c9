---------------------------- MODULE AgentLinkProofs ----------------------------
(***************************************************************************)
(* Proofs of what AgentLink promises, for any number of instances, any     *)
(* capacities of the channels and any number of broken streams, restarts   *)
(* and crashes.                                                            *)
(***************************************************************************)
EXTENDS AgentLink, SequenceTheorems, TLAPS

(***************************************************************************)
(* The inductive invariant.  First, TypeOK, where sequences are sequences. *)
(***************************************************************************)
HostTyped ==
  /\ view \in [Instance -> View]
  /\ todo \in [Instance -> Seq(Effect)]
  /\ journal \subseteq Instance /\ entries \subseteq Instance /\ kept \subseteq Instance
  /\ taint \in BOOLEAN
  /\ clearing \in Seq(Effect) /\ quarantined \subseteq Instance
  /\ unmarked \subseteq StreamId \cup {0}

Stages == {"boot", "down", "ack", "report", "taint", "startup", "carry", "beat", "up"}

LoopTyped ==
  /\ out \in Seq(Frame) /\ Len(out) <= OutCap
  /\ carry \in Seq(Frame) /\ Len(carry) <= 1
  /\ startup \in Seq(Frame)
  /\ stage \in Stages /\ stream \in StreamId \cup {0}

WireTyped ==
  /\ link \in [StreamId -> {"unused", "open", "broken", "closed"}]
  /\ wire \in [StreamId -> Seq(Frame)] /\ \A n \in StreamId : Len(wire[n]) <= WireCap
  /\ down \in [StreamId -> Seq(Command)] /\ \A n \in StreamId : Len(down[n]) <= DownCap

ReadersTyped ==
  /\ beating \subseteq StreamId /\ asked \subseteq Instance
  /\ owes \in [StreamId -> SUBSET Instance] /\ aim \in [StreamId -> StreamId \cup {0}]

MasterTyped ==
  /\ session \in StreamId \cup {0} /\ acking \subseteq StreamId /\ ReadersTyped
  /\ told \in [Instance -> View] /\ flag \in BOOLEAN
  /\ sent \subseteq Instance /\ cleared \in BOOLEAN /\ trouble \in 0..MaxTrouble

HistoryTyped == lost \subseteq Instance /\ newest \in StreamId \cup {0}

Typed == HostTyped /\ LoopTyped /\ WireTyped /\ MasterTyped /\ HistoryTyped

(***************************************************************************)
(* Second, the streams: only the newest may be open, and what is said to   *)
(* the agent is on its way there.  A stream past the acknowledgement has   *)
(* had its Register read.                                                  *)
(***************************************************************************)
Registered == {"report", "taint", "startup", "carry", "beat", "up"}

Connected == stage \notin {"boot", "down"}

Linked ==
  /\ Connected => stream # 0
  /\ \A n \in StreamId :
       /\ link[n] = "open" => n = stream /\ Connected
       /\ n > stream => link[n] = "unused"
       /\ down[n] # << >> => n = stream /\ Connected

(* Every stream but the newest took its share of the troubles.              *)
Counted ==
  stream <= trouble \/ (stream # 0 /\ link[stream] = "open" /\ stream <= trouble + 1)

Heeded ==
  /\ newest <= stream /\ session <= stream /\ \A n \in acking : n <= stream
  /\ \/ stage \in Registered \/ stream \in acking
     \/ \E n \in StreamId : RegisterAck \in Elements(down[n])
     => newest = stream

(* A stream that is not open yet carries nothing.                           *)
Unwired == \A n \in StreamId : n > stream => wire[n] = << >>

Streams == Linked /\ Unwired /\ Counted /\ Heeded

(***************************************************************************)
(* Third, the agent: what a task has still to do follows from the view, an *)
(* entry belongs to a live instance or to one that is about to remove it,  *)
(* and nobody is left in memory after a crash.                             *)
(***************************************************************************)
Untaints(i, s) ==
  {Ending(i, s), <<Mark>> \o Ending(i, s), <<Send(TaintStatus(TRUE))>> \o Ending(i, s)}

TaskFits(i) ==
  /\ view[i] = None => todo[i] = << >>
  /\ view[i] \in Live => todo[i] \in {<< >>, Telling(i, view[i])}
  /\ view[i] \in Terminal =>
       todo[i] \in {<< >>, Telling(i, view[i])} \cup Untaints(i, view[i])

EntryFits(i) ==
  i \in journal =>
    \/ i \in kept \/ view[i] = None
    \/ view[i] \in {"Injecting", "Active", "Recovering"}
    \/ view[i] \in Terminal /\ todo[i] \in Untaints(i, view[i])

Forgotten == clearing = << >> /\ \A i \in Instance : view[i] = None

Tasks == \A i \in Instance : TaskFits(i) /\ EntryFits(i)

(* What the loop holds at each stage.                                       *)
Held ==
  /\ stage = "boot" => Forgotten /\ out = << >> /\ carry = << >> /\ entries \subseteq journal
  /\ stage # "boot" => entries = {}
  /\ startup # << >> => Forgotten
  /\ stage = "startup" => startup # << >>
  /\ stage \in {"carry", "beat", "up"} => startup = << >>
  /\ stage = "carry" => carry # << >>
  /\ stage \in {"beat", "up"} => carry = << >>

Agent == Tasks /\ Held

(***************************************************************************)
(* Fourth, orders and ends: an instance is ordered once, and until the     *)
(* order arrives nothing is known of it; an end that was said is final.    *)
(***************************************************************************)
Once(s, c) == \A k, m \in DOMAIN s : s[k] = c /\ s[m] = c => k = m

Ordered(i) == \E n \in StreamId : RunFault(i) \in Elements(down[n])

EndOnWay(i) ==
  \/ i \in Ends(out) \/ i \in Ends(carry) \/ i \in Ends(startup)
  \/ \E n \in StreamId : i \in Ends(wire[n])

EndSaid(i) == told[i] \in Terminal \/ EndOnWay(i)

OrderedOnce(i) ==
  /\ Ordered(i) => i \in sent
  /\ \A n \in StreamId : Once(down[n], RunFault(i))
  /\ i \notin sent \/ Ordered(i) => view[i] = None /\ i \notin journal /\ ~EndSaid(i)

Final(i) == EndSaid(i) => view[i] \notin Live /\ (i \in journal => i \in kept)

Accounted(i) ==
  i \in sent =>
    \/ told[i] \in Terminal \/ view[i] \in Live \/ i \in lost
    \/ Ordered(i) \/ UntoldEnd(i) \/ EndOnWay(i) \/ i \in entries

Lives == \A i \in Instance : OrderedOnce(i) /\ Final(i) /\ Accounted(i)

(***************************************************************************)
(* Fifth, the news of a topic: the last frame about it, on the way the     *)
(* frames take, carries what is true now; or none is on its way and the    *)
(* master knows, or an older stream spoke last; or the report is to come.  *)
(***************************************************************************)
ViewTopic(i) == <<"InstanceStatus", i>>
TaintTopic == <<"TaintStatus", None>>

Says(f, t, v) ==
  /\ t \in Topics(f)
  /\ v = IF t = TaintTopic THEN f.tainted
         ELSE IF f.type = "InstanceStatus" THEN f.state ELSE f.view[t[2]]

Silent(s, t) == \A k \in DOMAIN s : t \notin Topics(s[k])
Right(s, t, v) ==
  \E k \in DOMAIN s : Says(s[k], t, v) /\ \A m \in DOMAIN s : m > k => t \notin Topics(s[m])

Known(t) == IF t = TaintTopic THEN flag ELSE told[t[2]]

Unreported(t) == stage \in {"boot", "down", "ack", "report"} \/ (stage = "taint" /\ t = TaintTopic)

Arrives(t, v) ==
  \/ Right(wire[stream], t, v)
  \/ Silent(wire[stream], t) /\ (Known(t) = v \/ t \in late)

OnItsWay(t, v) ==
  \/ Right(out, t, v)
  \/ Silent(out, t) /\ Right(carry, t, v)
  \/ Silent(out, t) /\ Silent(carry, t) /\ (Unreported(t) \/ ~Open \/ Arrives(t, v))

ViewsNews ==
  \A i \in Instance :
    view[i] \in Live => todo[i] # << >> \/ OnItsWay(ViewTopic(i), view[i])

(***************************************************************************)
(* Sixth, the same of the taint, where a mark and a clear did not overlap, *)
(* nor a mark fail.                                                        *)
(***************************************************************************)
Clearing ==
  /\ clearing \in {<< >>, <<Clear>>, <<Read>>} \cup {<<Send(TaintStatus(b))>> : b \in BOOLEAN}
  /\ ~cleared => clearing = << >>
  /\ \A n \in StreamId :
       /\ Once(down[n], ClearTaint)
       /\ ClearTaint \in Elements(down[n]) => cleared /\ clearing = << >>

Sure == ~raced /\ unmarked = {}

TaintNews ==
  /\ \A k \in DOMAIN startup :
       startup[k].type = "TaintStatus" => (taint \/ ~Sure) /\ startup[k] = TaintStatus(TRUE)
  /\ Sure =>
       /\ \A i \in Instance : TellsTaint(todo[i]) => taint
       /\ clearing \in {<< >>, <<Clear>>, <<Read>>, <<Send(TaintStatus(taint))>>}
       /\ clearing \in {<<Read>>, <<Send(TaintStatus(taint))>>} =>
            \A i \in Instance : ~TellsTaint(todo[i])
       /\ \/ \E i \in Instance : TellsTaint(todo[i])
          \/ clearing \in {<<Read>>, <<Send(TaintStatus(taint))>>}
          \/ OnItsWay(TaintTopic, taint)

LinkInv == Typed /\ Streams /\ Agent /\ Lives /\ ViewsNews /\ Clearing /\ TaintNews
-----------------------------------------------------------------------------
(***************************************************************************)
(* Sequences: what is in one that grew at its end or lost its first.       *)
(***************************************************************************)
(* What a channel that took one more holds.                                 *)
LEMMA AppendFacts ==
  ASSUME NEW S, NEW s \in Seq(S), NEW e \in S
  PROVE  /\ Append(s, e) \in Seq(S) /\ Append(s, e) # << >>
         /\ Len(Append(s, e)) = Len(s) + 1
         /\ DOMAIN s = 1..Len(s) /\ DOMAIN Append(s, e) = 1..(Len(s) + 1)
         /\ Len(s) \in Nat
         /\ \A k \in 1..Len(s) : Append(s, e)[k] = s[k]
         /\ Append(s, e)[Len(s) + 1] = e
  BY AppendProperties, LenProperties

(* What a channel whose first was taken holds.                              *)
LEMMA TailFacts ==
  ASSUME NEW S, NEW s \in Seq(S), s # << >>
  PROVE  /\ Tail(s) \in Seq(S) /\ Head(s) \in S /\ Head(s) = s[1]
         /\ Len(s) \in Nat \ {0} /\ Len(Tail(s)) = Len(s) - 1
         /\ DOMAIN s = 1..Len(s) /\ DOMAIN Tail(s) = 1..(Len(s) - 1)
         /\ \A k \in 1..(Len(s) - 1) : Tail(s)[k] = s[k + 1]
<1>1. /\ Tail(s) \in Seq(S) /\ Head(s) \in S /\ Head(s) = s[1]
      /\ Len(Tail(s)) = Len(s) - 1
      /\ \A k \in 1..Len(Tail(s)) : Tail(s)[k] = s[k + 1]
  BY HeadTailProperties
<1>2. Len(s) \in Nat \ {0} /\ DOMAIN s = 1..Len(s)
  BY LenProperties, EmptySeq
<1> QED
  BY <1>1, <1>2, LenProperties

(* The elements of a channel, and of one that changed.                      *)
LEMMA ElementsOf ==
  ASSUME NEW S, NEW s \in Seq(S)
  PROVE  /\ Elements(s) \subseteq S
         /\ \A e \in S : Elements(Append(s, e)) = Elements(s) \cup {e}
         /\ s # << >> => /\ Elements(s) = {Head(s)} \cup Elements(Tail(s))
                         /\ Head(s) \in S /\ Tail(s) \in Seq(S)
<1>1. Elements(s) \subseteq S
  BY LenProperties, ElementOfSeq DEF Elements
<1>2. ASSUME NEW e \in S PROVE Elements(Append(s, e)) = Elements(s) \cup {e}
  <2>1. \A x : x \in Elements(Append(s, e)) => x \in Elements(s) \cup {e}
    BY AppendFacts DEF Elements
  <2>2. \A x : x \in Elements(s) => x \in Elements(Append(s, e))
    BY AppendFacts DEF Elements
  <2>3. e \in Elements(Append(s, e))
    BY AppendFacts DEF Elements
  <2> QED
    BY <2>1, <2>2, <2>3
<1>3. ASSUME s # << >> PROVE Elements(s) = {Head(s)} \cup Elements(Tail(s))
  <2>1. \A x : x \in Elements(s) => x \in {Head(s)} \cup Elements(Tail(s))
    <3>1. ASSUME NEW k \in DOMAIN s PROVE s[k] \in {Head(s)} \cup Elements(Tail(s))
      <4>1. CASE k = 1
        BY <4>1, <1>3, TailFacts
      <4>2. CASE k # 1
        <5>1. k - 1 \in 1..(Len(s) - 1) /\ (k - 1) + 1 = k
          BY <4>2, <1>3, TailFacts
        <5>2. Tail(s)[k - 1] = s[k] /\ k - 1 \in DOMAIN Tail(s)
          BY <5>1, <1>3, TailFacts
        <5> QED
          BY <5>2 DEF Elements
      <4> QED
        BY <4>1, <4>2
    <3> QED
      BY <3>1 DEF Elements
  <2>2. \A x : x \in Elements(Tail(s)) => x \in Elements(s)
    <3>1. ASSUME NEW k \in DOMAIN Tail(s) PROVE Tail(s)[k] \in Elements(s)
      <4>1. Tail(s)[k] = s[k + 1] /\ k + 1 \in DOMAIN s
        BY <1>3, TailFacts
      <4> QED
        BY <4>1 DEF Elements
    <3> QED
      BY <3>1 DEF Elements
  <2>3. Head(s) \in Elements(s)
    BY <1>3, TailFacts DEF Elements
  <2> QED
    BY <2>1, <2>2, <2>3
<1> QED
  BY <1>1, <1>2, <1>3, TailFacts

(* The elements of the short sequences.                                     *)
LEMMA ElementsShort ==
  /\ Elements(<< >>) = {}
  /\ \A a : Elements(<<a>>) = {a}
  /\ \A a, b : Elements(<<a, b>>) = {a, b}
  /\ \A a, b, c : Elements(<<a, b, c>>) = {a, b, c}
  BY DEF Elements

(* The elements of two sequences joined.                                    *)
LEMMA ElementsJoined ==
  ASSUME NEW S, NEW s \in Seq(S), NEW t \in Seq(S)
  PROVE  s \o t \in Seq(S) /\ Elements(s \o t) = Elements(s) \cup Elements(t)
<1> DEFINE u == s \o t
<1>1. /\ u \in Seq(S) /\ Len(u) = Len(s) + Len(t) /\ Len(s) \in Nat /\ Len(t) \in Nat
      /\ DOMAIN s = 1..Len(s) /\ DOMAIN t = 1..Len(t) /\ DOMAIN u = 1..(Len(s) + Len(t))
  BY ConcatProperties, LenProperties
<1>2. \A k \in 1..(Len(s) + Len(t)) : u[k] = IF k <= Len(s) THEN s[k] ELSE t[k - Len(s)]
  BY ConcatProperties, <1>1
<1> HIDE DEF u
<1>3. \A x : x \in Elements(u) => x \in Elements(s) \cup Elements(t)
  <2>1. ASSUME NEW k \in DOMAIN u PROVE u[k] \in Elements(s) \cup Elements(t)
    <3>1. CASE k <= Len(s)
      BY <3>1, <1>1, <1>2 DEF Elements
    <3>2. CASE ~(k <= Len(s))
      <4>1. k - Len(s) \in 1..Len(t) /\ u[k] = t[k - Len(s)]
        BY <3>2, <1>1, <1>2
      <4> QED
        BY <4>1, <1>1 DEF Elements
    <3> QED
      BY <3>1, <3>2
  <2> QED
    BY <2>1 DEF Elements
<1>4. \A x : x \in Elements(s) => x \in Elements(u)
  BY <1>1, <1>2 DEF Elements
<1>5. \A x : x \in Elements(t) => x \in Elements(u)
  <2>1. ASSUME NEW k \in DOMAIN t PROVE t[k] \in Elements(u)
    <3>1. Len(s) + k \in 1..(Len(s) + Len(t)) /\ ~(Len(s) + k <= Len(s)) /\ (Len(s) + k) - Len(s) = k
      BY <1>1
    <3>2. u[Len(s) + k] = t[k] /\ Len(s) + k \in DOMAIN u
      BY <3>1, <1>1, <1>2
    <3> QED
      BY <3>2 DEF Elements
  <2> QED
    BY <2>1 DEF Elements
<1> QED
  BY <1>1, <1>3, <1>4, <1>5 DEF u

-----------------------------------------------------------------------------
(***************************************************************************)
(* Frames and commands.                                                    *)
(***************************************************************************)
(* The fields of each frame and each command.                               *)
LEMMA FrameFields ==
  /\ Register.type = "Register" /\ Heartbeat.type = "Heartbeat"
  /\ \A b : TaintStatus(b).type = "TaintStatus" /\ TaintStatus(b).tainted = b
  /\ \A v : Report(v).type = "InstanceReport" /\ Report(v).view = v
  /\ \A i, s : /\ Status(i, s).type = "InstanceStatus"
               /\ Status(i, s).about = i /\ Status(i, s).state = s
  /\ RegisterAck.type = "RegisterAck" /\ ClearTaint.type = "ClearTaint"
  /\ \A i : RunFault(i).type = "RunFault" /\ RunFault(i).about = i
  /\ HeartbeatAck.type = "HeartbeatAck" /\ \A i : AbortFault(i).type = "AbortFault"
  BY DEF Register, Heartbeat, TaintStatus, Report, Status, RegisterAck, HeartbeatAck, ClearTaint,
         RunFault, AbortFault

(* What is a frame, and what a command.                                     *)
LEMMA FrameMakers ==
  /\ Register \in Frame /\ Heartbeat \in Frame
  /\ \A b \in BOOLEAN : TaintStatus(b) \in Frame
  /\ \A v \in [Instance -> Live \cup {None}] : Report(v) \in Frame
  /\ \A i \in Instance, s \in Live \cup Terminal : Status(i, s) \in Frame
  /\ RegisterAck \in Command /\ ClearTaint \in Command
  /\ \A i \in Instance : RunFault(i) \in Command /\ AbortFault(i) \in Command
  /\ HeartbeatAck \in Command
  BY DEF Frame, Command, Report

(* A frame is of one of five kinds.                                         *)
LEMMA FrameKinds ==
  ASSUME NEW f \in Frame
  PROVE  \/ f = Register \/ f = Heartbeat
         \/ \E b \in BOOLEAN : f = TaintStatus(b)
         \/ \E v \in [Instance -> Live \cup {None}] : f = Report(v)
         \/ \E i \in Instance, s \in Live \cup Terminal : f = Status(i, s)
<1>1. ASSUME f \in [type : {"InstanceReport"}, view : [Instance -> Live \cup {None}]]
      PROVE  \E v \in [Instance -> Live \cup {None}] : f = Report(v)
  <2>1. f = Report(f.view) /\ f.view \in [Instance -> Live \cup {None}]
    BY <1>1 DEF Report
  <2> QED
    BY <2>1
<1> QED
  BY <1>1 DEF Frame

(* What the master says that is neither an order, a clear nor the answer to *)
(* a registration.                                                          *)
Idle == {HeartbeatAck} \cup {AbortFault(i) : i \in Instance}

(* A command is of one of four kinds.                                       *)
LEMMA CommandKinds ==
  ASSUME NEW c \in Command
  PROVE  \/ c = RegisterAck \/ c = ClearTaint \/ c \in Idle
         \/ \E i \in Instance : c = RunFault(i)
  BY DEF Command, Idle

(* And what is idle is of none of the others.                               *)
LEMMA IdleIs ==
  ASSUME NEW c \in Idle
  PROVE  /\ c \in Command /\ c.type \notin {"RunFault", "ClearTaint", "RegisterAck"}
         /\ c # RegisterAck /\ c # ClearTaint /\ \A i : c # RunFault(i)
<1>1. c \in Command /\ c.type \in {"HeartbeatAck", "AbortFault"}
  BY FrameFields, FrameMakers DEF Idle
<1>2. /\ RegisterAck.type = "RegisterAck" /\ ClearTaint.type = "ClearTaint"
      /\ \A i : RunFault(i).type = "RunFault"
  BY FrameFields
<1> QED
  BY <1>1, <1>2

(* Who ends in a sequence of frames.                                        *)
LEMMA EndsIs ==
  ASSUME NEW s
  PROVE  \A i : i \in Ends(s) <=>
           \E f \in Elements(s) : f.type = "InstanceStatus" /\ f.state \in Terminal /\ f.about = i
  BY DEF Ends

(* Who is ordered in a sequence of commands.                                *)
LEMMA OrdersIs ==
  ASSUME NEW s \in Seq(Command)
  PROVE  \A i : i \in Orders(s) <=> i \in Instance /\ RunFault(i) \in Elements(s)
<1>1. Elements(s) \subseteq Command
  BY ElementsOf
<1>2. ASSUME NEW i, i \in Orders(s) PROVE i \in Instance /\ RunFault(i) \in Elements(s)
  <2>1. PICK c \in Elements(s) : c.type = "RunFault" /\ c.about = i
    BY <1>2 DEF Orders
  <2>2. PICK j \in Instance : c = RunFault(j)
    BY <2>1, <1>1, CommandKinds, IdleIs, FrameFields
  <2>3. i = j
    BY <2>1, <2>2, FrameFields
  <2> QED
    BY <2>1, <2>2, <2>3
<1>3. ASSUME NEW i, RunFault(i) \in Elements(s) PROVE i \in Orders(s)
  BY <1>3, FrameFields DEF Orders
<1> QED
  BY <1>2, <1>3

(* Orders and the other commands differ.                                    *)
LEMMA CommandsDiffer ==
  /\ RegisterAck # ClearTaint
  /\ \A i : RunFault(i) # RegisterAck /\ RunFault(i) # ClearTaint
  /\ \A i, j : RunFault(i) = RunFault(j) => i = j
<1>1. /\ RegisterAck.type = "RegisterAck" /\ ClearTaint.type = "ClearTaint"
      /\ \A i : RunFault(i).type = "RunFault" /\ RunFault(i).about = i
  BY FrameFields
<1> QED
  BY <1>1

(* The ends in a channel that took one more, lost its first, or is short.   *)
LEMMA EndsOf ==
  ASSUME NEW s \in Seq(Frame)
  PROVE  /\ Ends(<< >>) = {}
         /\ \A f \in Frame : Ends(Append(s, f)) = Ends(s) \cup Ends(<<f>>)
         /\ s # << >> => Ends(s) = Ends(<<Head(s)>>) \cup Ends(Tail(s))
         /\ \A t \in Seq(Frame) : Ends(s \o t) = Ends(s) \cup Ends(t)
<1>1. Ends(<< >>) = {}
  BY EndsIs, ElementsShort
<1>2. ASSUME NEW f \in Frame PROVE Ends(Append(s, f)) = Ends(s) \cup Ends(<<f>>)
  <2>1. Elements(Append(s, f)) = Elements(s) \cup Elements(<<f>>)
    BY ElementsOf, ElementsShort
  <2> QED
    BY <2>1, EndsIs
<1>3. ASSUME s # << >> PROVE Ends(s) = Ends(<<Head(s)>>) \cup Ends(Tail(s))
  <2>1. Elements(s) = Elements(<<Head(s)>>) \cup Elements(Tail(s))
    BY <1>3, ElementsOf, ElementsShort
  <2> QED
    BY <2>1, EndsIs
<1>4. ASSUME NEW t \in Seq(Frame) PROVE Ends(s \o t) = Ends(s) \cup Ends(t)
  <2>1. Elements(s \o t) = Elements(s) \cup Elements(t)
    BY ElementsJoined
  <2> QED
    BY <2>1, EndsIs
<1> QED
  BY <1>1, <1>2, <1>3, <1>4

(* Which single frames are ends.                                            *)
LEMMA EndsOfOne ==
  /\ Ends(<<Register>>) = {} /\ Ends(<<Heartbeat>>) = {}
  /\ \A b : Ends(<<TaintStatus(b)>>) = {}
  /\ \A v : Ends(<<Report(v)>>) = {}
  /\ \A i, s, j : j \in Ends(<<Status(i, s)>>) <=> s \in Terminal /\ j = i
<1>1. ASSUME NEW f, NEW i
      PROVE  i \in Ends(<<f>>) <=>
               f.type = "InstanceStatus" /\ f.state \in Terminal /\ f.about = i
  <2>1. Elements(<<f>>) = {f}
    BY ElementsShort
  <2> QED
    BY <2>1, EndsIs
<1>2. \A i : i \notin Ends(<<Register>>) /\ i \notin Ends(<<Heartbeat>>)
  BY <1>1, FrameFields
<1>3. \A b, i : i \notin Ends(<<TaintStatus(b)>>)
  BY <1>1, FrameFields
<1>4. \A v, i : i \notin Ends(<<Report(v)>>)
  BY <1>1, FrameFields
<1>5. \A i, s, j : j \in Ends(<<Status(i, s)>>) <=> s \in Terminal /\ j = i
  BY <1>1, FrameFields
<1> QED
  BY <1>2, <1>3, <1>4, <1>5

-----------------------------------------------------------------------------
(***************************************************************************)
(* The news of a topic in a channel.                                       *)
(***************************************************************************)
(* What each frame is about.                                                *)
LEMMA TopicsOf ==
  /\ Topics(Register) = {<<"Register", None>>} /\ Topics(Heartbeat) = {}
  /\ \A b : Topics(TaintStatus(b)) = {TaintTopic}
  /\ \A v : Topics(Report(v)) = {ViewTopic(j) : j \in {h \in Instance : v[h] # None}}
  /\ \A i, s : Topics(Status(i, s)) = {ViewTopic(i)}
  BY FrameFields DEF Topics, TaintTopic, ViewTopic

(* Topics differ.                                                           *)
LEMMA TopicsDiffer ==
  /\ \A i : ViewTopic(i) # TaintTopic /\ ViewTopic(i)[2] = i /\ ViewTopic(i) # <<"Register", None>>
  /\ \A i, j : ViewTopic(i) = ViewTopic(j) => i = j
  /\ TaintTopic # <<"Register", None>>
  BY DEF TaintTopic, ViewTopic

(* What is said in a channel that took one more.                            *)
LEMMA NewsAppend ==
  ASSUME NEW s \in Seq(Frame), NEW f \in Frame, NEW t, NEW v
  PROVE  /\ Says(f, t, v) => Right(Append(s, f), t, v)
         /\ t \notin Topics(f) /\ Right(s, t, v) => Right(Append(s, f), t, v)
         /\ t \notin Topics(f) /\ Silent(s, t) => Silent(Append(s, f), t)
<1> DEFINE u == Append(s, f)
<1>1. /\ DOMAIN s = 1..Len(s) /\ DOMAIN u = 1..(Len(s) + 1) /\ Len(s) \in Nat
      /\ \A k \in 1..Len(s) : u[k] = s[k]
      /\ u[Len(s) + 1] = f
  BY AppendFacts
<1> HIDE DEF u
<1>2. Says(f, t, v) => Right(u, t, v)
  <2>1. Len(s) + 1 \in DOMAIN u /\ \A m \in DOMAIN u : ~(m > Len(s) + 1)
    BY <1>1
  <2> QED
    BY <2>1, <1>1 DEF Right
<1>3. ASSUME t \notin Topics(f), Right(s, t, v) PROVE Right(u, t, v)
  <2>1. PICK k \in DOMAIN s : /\ Says(s[k], t, v)
                              /\ \A m \in DOMAIN s : m > k => t \notin Topics(s[m])
    BY <1>3 DEF Right
  <2>2. k \in DOMAIN u /\ Says(u[k], t, v)
    BY <2>1, <1>1
  <2>3. ASSUME NEW m \in DOMAIN u, m > k PROVE t \notin Topics(u[m])
    BY <2>1, <2>3, <1>1, <1>3
  <2> QED
    BY <2>2, <2>3 DEF Right
<1>4. ASSUME t \notin Topics(f), Silent(s, t) PROVE Silent(u, t)
  <2>1. ASSUME NEW m \in DOMAIN u PROVE t \notin Topics(u[m])
    BY <1>1, <1>4 DEF Silent
  <2> QED
    BY <2>1 DEF Silent
<1> QED
  BY <1>2, <1>3, <1>4 DEF u

(* What is said in a channel whose first was taken.                         *)
LEMMA NewsTail ==
  ASSUME NEW s \in Seq(Frame), s # << >>, NEW t, NEW v
  PROVE  /\ Right(s, t, v) =>
              Right(Tail(s), t, v) \/ (Silent(Tail(s), t) /\ Says(Head(s), t, v))
         /\ Silent(s, t) => Silent(Tail(s), t) /\ t \notin Topics(Head(s))
<1> DEFINE u == Tail(s)
<1>1. /\ DOMAIN s = 1..Len(s) /\ DOMAIN u = 1..(Len(s) - 1) /\ Len(s) \in Nat \ {0}
      /\ \A k \in 1..(Len(s) - 1) : u[k] = s[k + 1]
      /\ Head(s) = s[1]
  BY TailFacts
<1> HIDE DEF u
<1>2. ASSUME Right(s, t, v) PROVE Right(u, t, v) \/ (Silent(u, t) /\ Says(Head(s), t, v))
  <2>1. PICK k \in DOMAIN s : /\ Says(s[k], t, v)
                              /\ \A m \in DOMAIN s : m > k => t \notin Topics(s[m])
    BY <1>2 DEF Right
  <2>2. CASE k = 1
    <3>1. ASSUME NEW m \in DOMAIN u PROVE t \notin Topics(u[m])
      <4>1. m + 1 \in DOMAIN s /\ m + 1 > k /\ u[m] = s[m + 1]
        BY <2>2, <1>1
      <4> QED
        BY <4>1, <2>1
    <3> QED
      BY <3>1, <2>1, <2>2, <1>1 DEF Silent
  <2>3. CASE k # 1
    <3>1. k - 1 \in DOMAIN u /\ u[k - 1] = s[k]
      <4>1. k - 1 \in 1..(Len(s) - 1) /\ (k - 1) + 1 = k
        BY <2>3, <1>1
      <4> QED
        BY <4>1, <1>1
    <3>2. ASSUME NEW m \in DOMAIN u, m > k - 1 PROVE t \notin Topics(u[m])
      <4>1. m + 1 \in DOMAIN s /\ m + 1 > k /\ u[m] = s[m + 1]
        BY <3>2, <1>1
      <4> QED
        BY <4>1, <2>1
    <3>3. Right(u, t, v)
      BY <3>1, <3>2, <2>1 DEF Right
    <3> QED
      BY <3>3
  <2> QED
    BY <2>2, <2>3
<1>3. ASSUME Silent(s, t) PROVE Silent(u, t) /\ t \notin Topics(Head(s))
  <2>1. t \notin Topics(Head(s))
    BY <1>1, <1>3 DEF Silent
  <2>2. ASSUME NEW m \in DOMAIN u PROVE t \notin Topics(u[m])
    BY <1>1, <1>3 DEF Silent
  <2> QED
    BY <2>1, <2>2 DEF Silent
<1> QED
  BY <1>2, <1>3 DEF u

(* What is said in a channel of one frame, and in an empty one.             *)
LEMMA NewsShort ==
  ASSUME NEW t, NEW v
  PROVE  /\ Silent(<< >>, t) /\ ~Right(<< >>, t, v)
         /\ \A f : Silent(<<f>>, t) <=> t \notin Topics(f)
         /\ \A f : Right(<<f>>, t, v) <=> Says(f, t, v)
         /\ \A s : Silent(s, t) => ~Right(s, t, v)
<1>1. \A f : DOMAIN <<f>> = {1} /\ <<f>>[1] = f
  OBVIOUS
<1>2. \A f : Silent(<<f>>, t) <=> t \notin Topics(f)
  BY <1>1 DEF Silent
<1>3. \A f : Right(<<f>>, t, v) <=> Says(f, t, v)
  <2>1. \A m, k \in {1} : ~(m > k)
    OBVIOUS
  <2> QED
    BY <1>1, <2>1 DEF Right
<1>4. Silent(<< >>, t) /\ ~Right(<< >>, t, v)
  BY DEF Silent, Right
<1>5. \A s : Silent(s, t) => ~Right(s, t, v)
  BY DEF Silent, Right, Says
<1> QED
  BY <1>2, <1>3, <1>4, <1>5

(* What each frame says.                                                    *)
LEMMA SaysOf ==
  /\ \A b : Says(TaintStatus(b), TaintTopic, b)
  /\ \A i, s : Says(Status(i, s), ViewTopic(i), s)
  /\ \A w : \A i \in Instance : w[i] # None => Says(Report(w), ViewTopic(i), w[i])
  BY TopicsOf, TopicsDiffer, FrameFields DEF Says

(* What a channel holds once, when it took one more or lost its first.      *)
LEMMA OnceIn ==
  ASSUME NEW S, NEW s \in Seq(S), NEW c \in S
  PROVE  /\ Once(<< >>, c)
         /\ \A d \in S : Once(s, c) /\ (d # c \/ c \notin Elements(s)) => Once(Append(s, d), c)
         /\ Once(s, c) /\ s # << >> => /\ Once(Tail(s), c)
                                       /\ Head(s) = c => c \notin Elements(Tail(s))
<1>1. Once(<< >>, c)
  BY DEF Once
<1>2. ASSUME NEW d \in S, Once(s, c), d # c \/ c \notin Elements(s)
      PROVE  Once(Append(s, d), c)
  BY <1>2, AppendFacts DEF Once, Elements
<1>3. ASSUME Once(s, c), s # << >> PROVE Once(Tail(s), c) /\ (Head(s) = c => c \notin Elements(Tail(s)))
  <2> DEFINE u == Tail(s)
  <2>1. /\ DOMAIN s = 1..Len(s) /\ DOMAIN u = 1..(Len(s) - 1) /\ Len(s) \in Nat \ {0}
        /\ \A k \in 1..(Len(s) - 1) : u[k] = s[k + 1]
        /\ Head(s) = s[1]
    BY TailFacts, <1>3
  <2> HIDE DEF u
  <2>2. \A k \in DOMAIN u : k \in Int /\ k + 1 \in DOMAIN s /\ u[k] = s[k + 1] /\ k + 1 # 1
    BY <2>1
  <2>3. Once(u, c)
    <3>1. ASSUME NEW k \in DOMAIN u, NEW m \in DOMAIN u, u[k] = c, u[m] = c PROVE k = m
      <4>1. k + 1 = m + 1 /\ k \in Int /\ m \in Int
        BY <3>1, <2>2, <1>3 DEF Once
      <4> QED
        BY <4>1
    <3> QED
      BY <3>1 DEF Once
  <2>4. Head(s) = c => c \notin Elements(u)
    <3>1. ASSUME Head(s) = c, NEW k \in DOMAIN u, u[k] = c PROVE FALSE
      <4>1. 1 \in DOMAIN s /\ s[1] = c
        BY <2>1, <3>1
      <4> QED
        BY <4>1, <3>1, <2>2, <1>3 DEF Once
    <3> QED
      BY <3>1 DEF Elements
  <2> QED
    BY <2>3, <2>4 DEF u
<1> QED
  BY <1>1, <1>2, <1>3

(* The same of commands.                                                    *)
LEMMA OnceOf ==
  ASSUME NEW s \in Seq(Command), NEW c \in Command
  PROVE  /\ Once(<< >>, c)
         /\ \A d \in Command : Once(s, c) /\ (d # c \/ c \notin Elements(s)) => Once(Append(s, d), c)
         /\ Once(s, c) /\ s # << >> => /\ Once(Tail(s), c)
                                       /\ Head(s) = c => c \notin Elements(Tail(s))
  BY OnceIn

-----------------------------------------------------------------------------
(***************************************************************************)
(* The steps of an instance task.                                          *)
(***************************************************************************)
(* Effects and their fields.                                                *)
LEMMA EffectFields ==
  /\ \A f : Send(f).do = "Send" /\ Send(f).frame = f
  /\ Mark.do = "Mark" /\ Remove.do = "Remove" /\ Clear.do = "Clear" /\ Read.do = "Read"
  /\ {Mark, Remove, Clear, Read} \subseteq Effect
  /\ \A f \in Frame : Send(f) \in Effect
<1>1. \A f : Send(f).do = "Send" /\ Send(f).frame = f
  BY DEF Send
<1>2. Mark.do = "Mark" /\ Remove.do = "Remove" /\ Clear.do = "Clear" /\ Read.do = "Read"
  BY DEF Mark, Remove, Clear, Read
<1>3. {Mark, Remove, Clear, Read} \subseteq Effect
  BY DEF Effect
<1>4. \A f \in Frame : Send(f) \in Effect
  BY DEF Effect, Send
<1> QED
  BY <1>1, <1>2, <1>3, <1>4

(* Different effects, and sends of different frames, differ.                *)
LEMMA EffectsDiffer ==
  /\ \A f : Send(f) \notin {Mark, Remove, Clear, Read}
  /\ Mark # Remove /\ Clear # Read
  /\ \A f, g : Send(f) = Send(g) => f = g
  /\ \A i, s, b : Send(Status(i, s)) # Send(TaintStatus(b))
<1>1. \A i, s, b : Status(i, s) # TaintStatus(b)
  <2>1. /\ \A i, s : Status(i, s).type = "InstanceStatus"
        /\ \A b : TaintStatus(b).type = "TaintStatus"
    BY FrameFields
  <2> QED
    BY <2>1
<1>2. \A f, g : Send(f) = Send(g) => f = g
  BY EffectFields
<1>3. \A f : Send(f) \notin {Mark, Remove, Clear, Read}
  <2>1. ASSUME NEW f PROVE Send(f) \notin {Mark, Remove, Clear, Read}
    <3>1. Send(f).do = "Send"
      BY EffectFields
    <3> QED
      BY <3>1, EffectFields
  <2> QED
    BY <2>1
<1>4. Mark # Remove /\ Clear # Read
  BY EffectFields
<1> QED
  BY <1>1, <1>2, <1>3, <1>4

(* Short sequences of anything.                                             *)
LEMMA ShortHeads ==
  ASSUME NEW a, NEW b, NEW c
  PROVE  /\ <<a>> # << >> /\ Head(<<a>>) = a /\ Tail(<<a>>) = << >>
         /\ <<a, b>> # << >> /\ Head(<<a, b>>) = a /\ Tail(<<a, b>>) = <<b>>
         /\ <<a, b, c>> # << >> /\ Head(<<a, b, c>>) = a /\ Tail(<<a, b, c>>) = <<b, c>>
<1>1. <<a>> # << >> /\ Head(<<a>>) = a /\ Tail(<<a>>) = << >>
  OBVIOUS
<1>2. <<a, b>> # << >> /\ Head(<<a, b>>) = a /\ Tail(<<a, b>>) = <<b>>
  OBVIOUS
<1>3. <<a, b, c>> # << >> /\ Head(<<a, b, c>>) = a /\ Tail(<<a, b, c>>) = <<b, c>>
  OBVIOUS
<1> QED
  BY <1>1, <1>2, <1>3

(* Sequences of up to three.                                                *)
LEMMA ShortSequences ==
  ASSUME NEW S, NEW a \in S, NEW b \in S, NEW c \in S
  PROVE  /\ << >> \in Seq(S) /\ <<a>> \in Seq(S) /\ <<a, b>> \in Seq(S) /\ <<a, b, c>> \in Seq(S)
         /\ Len(<< >>) = 0 /\ Len(<<a>>) = 1
<1>1. << >> \in Seq(S) /\ <<a>> \in Seq(S)
  OBVIOUS
<1>2. <<a, b>> \in Seq(S)
  OBVIOUS
<1>3. <<a, b, c>> \in Seq(S)
  OBVIOUS
<1>4. Len(<< >>) = 0 /\ Len(<<a>>) = 1
  OBVIOUS
<1> QED
  BY <1>1, <1>2, <1>3, <1>4

(* Two of them joined.                                                      *)
LEMMA ShortJoined ==
  ASSUME NEW a, NEW b, NEW c
  PROVE  <<a>> \o <<b>> = <<a, b>> /\ <<a>> \o <<b, c>> = <<a, b, c>>
<1> DEFINE S == {a, b, c}
<1>1. <<a>> \in Seq(S) /\ <<b>> \in Seq(S) /\ <<b, c>> \in Seq(S)
      /\ <<a, b>> \in Seq(S) /\ <<a, b, c>> \in Seq(S)
  BY ShortSequences
<1> HIDE DEF S
<1>2. /\ Len(<<a>>) = 1 /\ Len(<<b>>) = 1 /\ Len(<<a, b>>) = 2
      /\ Len(<<b, c>>) = 2 /\ Len(<<a, b, c>>) = 3
      /\ <<a>>[1] = a /\ <<b>>[1] = b /\ <<b, c>>[1] = b /\ <<b, c>>[2] = c
      /\ <<a, b>>[1] = a /\ <<a, b>>[2] = b
      /\ <<a, b, c>>[1] = a /\ <<a, b, c>>[2] = b /\ <<a, b, c>>[3] = c
  OBVIOUS
<1>3. <<a>> \o <<b>> = <<a, b>>
  <2> DEFINE u == <<a>> \o <<b>>
  <2>1. u \in Seq(S) /\ Len(u) = 2
        /\ \A k \in 1..2 : u[k] = IF k <= 1 THEN <<a>>[k] ELSE <<b>>[k - 1]
    BY <1>1, <1>2, ConcatProperties
  <2> HIDE DEF u
  <2>2. \A k \in 1..2 : k = 1 \/ k = 2
    OBVIOUS
  <2>3. u[1] = a /\ u[2] = b
    BY <2>1, <1>2
  <2>4. \A k \in 1..Len(u) : u[k] = <<a, b>>[k]
    BY <2>1, <2>2, <2>3, <1>2
  <2>5. Len(u) = Len(<<a, b>>)
    BY <2>1, <1>2
  <2>6. u = <<a, b>>
    BY <1>1, <2>1, <2>4, <2>5, SeqEqual
  <2> QED
    BY <2>6 DEF u
<1>4. <<a>> \o <<b, c>> = <<a, b, c>>
  <2> DEFINE u == <<a>> \o <<b, c>>
  <2>1. u \in Seq(S) /\ Len(u) = 3
        /\ \A k \in 1..3 : u[k] = IF k <= 1 THEN <<a>>[k] ELSE <<b, c>>[k - 1]
    BY <1>1, <1>2, ConcatProperties
  <2> HIDE DEF u
  <2>2. \A k \in 1..3 : k = 1 \/ k = 2 \/ k = 3
    OBVIOUS
  <2>3. u[1] = a /\ u[2] = b /\ u[3] = c
    BY <2>1, <1>2
  <2>4. \A k \in 1..Len(u) : u[k] = <<a, b, c>>[k]
    BY <2>1, <2>2, <2>3, <1>2
  <2>5. Len(u) = Len(<<a, b, c>>)
    BY <2>1, <1>2
  <2>6. u = <<a, b, c>>
    BY <1>1, <2>1, <2>4, <2>5, SeqEqual
  <2> QED
    BY <2>6 DEF u
<1> QED
  BY <1>3, <1>4

(* What a task has to do comes in four forms.                               *)
Marked(i, s) == <<Mark>> \o Ending(i, s)
Tainted(i, s) == <<Send(TaintStatus(TRUE))>> \o Ending(i, s)

(* Their heads and tails.                                                   *)
LEMMA TaskForms ==
  ASSUME NEW i \in Instance, NEW s \in Live \cup Terminal
  PROVE  /\ Telling(i, s) \in Seq(Effect) /\ Telling(i, s) # << >>
         /\ Head(Telling(i, s)) = Send(Status(i, s)) /\ Tail(Telling(i, s)) = << >>
         /\ Ending(i, s) \in Seq(Effect) /\ Ending(i, s) # << >>
         /\ Head(Ending(i, s)) = Remove /\ Tail(Ending(i, s)) = Telling(i, s)
         /\ Marked(i, s) \in Seq(Effect) /\ Marked(i, s) # << >>
         /\ Head(Marked(i, s)) = Mark /\ Tail(Marked(i, s)) = Ending(i, s)
         /\ Tainted(i, s) \in Seq(Effect) /\ Tainted(i, s) # << >>
         /\ Head(Tainted(i, s)) = Send(TaintStatus(TRUE)) /\ Tail(Tainted(i, s)) = Ending(i, s)
         /\ Untaints(i, s) = {Ending(i, s), Marked(i, s), Tainted(i, s)}
<1>1. /\ Send(Status(i, s)) \in Effect /\ Send(TaintStatus(TRUE)) \in Effect
      /\ Remove \in Effect /\ Mark \in Effect
  BY EffectFields, FrameMakers
<1>2. Telling(i, s) = <<Send(Status(i, s))>>
  BY DEF Telling
<1>3. Ending(i, s) = <<Remove, Send(Status(i, s))>>
  BY <1>1, <1>2, ShortJoined DEF Ending
<1>4. Marked(i, s) = <<Mark, Remove, Send(Status(i, s))>>
  BY <1>1, <1>3, ShortJoined DEF Marked
<1>5. Tainted(i, s) = <<Send(TaintStatus(TRUE)), Remove, Send(Status(i, s))>>
  BY <1>1, <1>3, ShortJoined DEF Tainted
<1>6. Untaints(i, s) = {Ending(i, s), Marked(i, s), Tainted(i, s)}
  BY DEF Untaints, Marked, Tainted
<1>7. /\ Telling(i, s) \in Seq(Effect) /\ Telling(i, s) # << >>
      /\ Head(Telling(i, s)) = Send(Status(i, s)) /\ Tail(Telling(i, s)) = << >>
  BY <1>1, <1>2, ShortSequences, ShortHeads
<1>8. /\ Ending(i, s) \in Seq(Effect) /\ Ending(i, s) # << >>
      /\ Head(Ending(i, s)) = Remove /\ Tail(Ending(i, s)) = Telling(i, s)
  BY <1>1, <1>2, <1>3, ShortSequences, ShortHeads
<1>9. /\ Marked(i, s) \in Seq(Effect) /\ Marked(i, s) # << >>
      /\ Head(Marked(i, s)) = Mark /\ Tail(Marked(i, s)) = Ending(i, s)
  BY <1>1, <1>3, <1>4, ShortSequences, ShortHeads
<1>10. /\ Tainted(i, s) \in Seq(Effect) /\ Tainted(i, s) # << >>
       /\ Head(Tainted(i, s)) = Send(TaintStatus(TRUE)) /\ Tail(Tainted(i, s)) = Ending(i, s)
  <2>1. /\ <<Send(TaintStatus(TRUE)), Remove, Send(Status(i, s))>> \in Seq(Effect)
        /\ <<Send(TaintStatus(TRUE)), Remove, Send(Status(i, s))>> # << >>
    BY <1>1, ShortSequences, ShortHeads
  <2>2. /\ Head(<<Send(TaintStatus(TRUE)), Remove, Send(Status(i, s))>>) = Send(TaintStatus(TRUE))
        /\ Tail(<<Send(TaintStatus(TRUE)), Remove, Send(Status(i, s))>>)
             = <<Remove, Send(Status(i, s))>>
    BY ShortHeads
  <2> QED
    BY <1>3, <1>5, <2>1, <2>2
<1> QED
  BY <1>6, <1>7, <1>8, <1>9, <1>10

(* The first effect of a sequence is its head.                              *)
LEMMA TellsTaintIs ==
  ASSUME NEW s \in Seq(Effect)
  PROVE  TellsTaint(s) <=> s # << >> /\ Head(s) = Send(TaintStatus(TRUE))
  BY TailFacts DEF TellsTaint

(* Only the third form of an end tells the taint.                           *)
LEMMA WhoTellsTaint ==
  ASSUME NEW i \in Instance, NEW s \in Live \cup Terminal
  PROVE  /\ ~TellsTaint(<< >>) /\ ~TellsTaint(Telling(i, s)) /\ ~TellsTaint(Ending(i, s))
         /\ ~TellsTaint(Marked(i, s)) /\ TellsTaint(Tainted(i, s))
<1>1. << >> \in Seq(Effect)
  BY EmptySeq
<1>2. /\ Telling(i, s) \in Seq(Effect) /\ Head(Telling(i, s)) = Send(Status(i, s))
      /\ Ending(i, s) \in Seq(Effect) /\ Head(Ending(i, s)) = Remove
      /\ Marked(i, s) \in Seq(Effect) /\ Head(Marked(i, s)) = Mark
      /\ Tainted(i, s) \in Seq(Effect) /\ Head(Tainted(i, s)) = Send(TaintStatus(TRUE))
      /\ Tainted(i, s) # << >>
  BY TaskForms
<1>3. /\ Send(Status(i, s)) # Send(TaintStatus(TRUE))
      /\ Remove # Send(TaintStatus(TRUE)) /\ Mark # Send(TaintStatus(TRUE))
  BY EffectsDiffer
<1> QED
  BY <1>1, <1>2, <1>3, TellsTaintIs

Answering == {"Injecting", "Active", "Recovering"}

(* Where a step of the machine leads, and what it has the task do.          *)
LEMMA StepsAre ==
  ASSUME NEW i \in Instance, view[i] \in View, NEW m \in Steps(i)
  PROVE  /\ view[i] \in Live /\ m.view \in Live \cup Terminal
         /\ view[i] \in Answering /\ m.view \in Live => m.view \in Answering
         /\ m.view \in Live => m.effects = Telling(i, m.view)
         /\ m.view \in Terminal =>
              \/ m.effects = Telling(i, m.view) /\ view[i] \notin Answering
              \/ m.effects \in {Ending(i, m.view), Marked(i, m.view)}
<1> DEFINE Good(n) ==
      /\ n.view \in Live \cup Terminal
      /\ view[i] \in Answering /\ n.view \in Live => n.view \in Answering
      /\ n.view \in Live => n.effects = Telling(i, n.view)
      /\ n.view \in Terminal =>
           \/ n.effects = Telling(i, n.view) /\ view[i] \notin Answering
           \/ n.effects \in {Ending(i, n.view), Marked(i, n.view)}
<1>1. \A s, e : Step(s, e).view = s /\ Step(s, e).effects = e
  BY DEF Step
<1>2. ASSUME NEW s \in Live, s \in Answering \/ view[i] \notin Answering
      PROVE  Good(Step(s, Telling(i, s)))
  BY <1>1, <1>2 DEF Live, Terminal
<1>3. ASSUME NEW s \in Terminal, view[i] \notin Answering PROVE Good(Step(s, Telling(i, s)))
  BY <1>1, <1>3 DEF Live, Terminal
<1>4. ASSUME NEW s \in Terminal PROVE Good(Step(s, Ending(i, s)))
  BY <1>1 DEF Live, Terminal
<1>5. Good(Step("Error", Quarantining(i)))
  <2>1. Quarantining(i) = Marked(i, "Error")
    BY DEF Quarantining, Marked
  <2> QED
    BY <1>1, <2>1 DEF Live, Terminal
<1> HIDE DEF Good
<1>6. CASE view[i] = "Pending"
  <2>1. m = Step("Aborted", Telling(i, "Aborted")) \/ m = Step("Preflight", Telling(i, "Preflight"))
    BY <1>6 DEF Steps
  <2>2. Good(m)
    BY <2>1, <1>2, <1>3, <1>6 DEF Live, Terminal, Answering
  <2> QED
    BY <2>2, <1>6 DEF Good, Live
<1>7. CASE view[i] = "Preflight"
  <2>1. m = Step("Aborted", Telling(i, "Aborted")) \/ m = Step("Injecting", Telling(i, "Injecting"))
    BY <1>7 DEF Steps
  <2>2. Good(m)
    BY <2>1, <1>2, <1>3, <1>7 DEF Live, Terminal, Answering
  <2> QED
    BY <2>2, <1>7 DEF Good, Live
<1>8. CASE view[i] = "Injecting"
  <2>1. \/ m = Step("Active", Telling(i, "Active")) \/ m = Step("Recovering", Telling(i, "Recovering"))
        \/ m = Step("Aborted", Ending(i, "Aborted"))
    BY <1>8 DEF Steps
  <2>2. Good(m)
    BY <2>1, <1>2, <1>4, <1>8 DEF Live, Terminal, Answering
  <2> QED
    BY <2>2, <1>8 DEF Good, Live
<1>9. CASE view[i] = "Active"
  <2>1. m = Step("Recovering", Telling(i, "Recovering"))
    BY <1>9 DEF Steps
  <2>2. Good(m)
    BY <2>1, <1>2, <1>9 DEF Live, Terminal, Answering
  <2> QED
    BY <2>2, <1>9 DEF Good, Live
<1>10. CASE view[i] = "Recovering"
  <2>1. (\E s \in Terminal : m = Step(s, Ending(i, s))) \/ m = Step("Error", Quarantining(i))
    BY <1>10 DEF Steps
  <2>2. Good(m)
    BY <2>1, <1>4, <1>5
  <2> QED
    BY <2>2, <1>10 DEF Good, Live
<1>11. CASE view[i] \notin {"Pending", "Preflight", "Injecting", "Active", "Recovering"}
  BY <1>11 DEF Steps
<1> QED
  BY <1>6, <1>7, <1>8, <1>9, <1>10, <1>11

(* The four things a task does when it performs an effect.                  *)
Said(i) ==
  /\ todo[i] = Telling(i, view[i])
  /\ Len(out) < OutCap /\ out' = Append(out, Status(i, view[i]))
  /\ todo' = [todo EXCEPT ![i] = << >>]
  /\ UNCHANGED <<journal, kept, trouble, taint, raced, quarantined, unmarked>>

Removed(i) ==
  /\ view[i] \in Terminal /\ todo[i] = Ending(i, view[i])
  /\ Unlink(i)
  /\ todo' = [todo EXCEPT ![i] = Telling(i, view[i])]
  /\ UNCHANGED <<taint, out, raced, quarantined, unmarked>>

MarkedNow(i) ==
  /\ view[i] \in Terminal /\ todo[i] = Marked(i, view[i])
  /\ WriteMark /\ quarantined' = quarantined \cup {i}
  /\ todo' = [todo EXCEPT ![i] = Tainted(i, view[i])]
  /\ raced' = (raced \/ clearing # << >>)
  /\ UNCHANGED <<journal, kept, trouble, out>>

ToldTaint(i) ==
  /\ view[i] \in Terminal /\ todo[i] = Tainted(i, view[i])
  /\ Len(out) < OutCap /\ out' = Append(out, TaintStatus(TRUE))
  /\ todo' = [todo EXCEPT ![i] = Ending(i, view[i])]
  /\ UNCHANGED <<journal, kept, trouble, taint, raced, quarantined, unmarked>>

(* A removal leaves no entry, or fails.                                     *)
LEMMA UnlinkIs ==
  ASSUME NEW i \in Instance, Unlink(i), trouble \in 0..MaxTrouble, kept \subseteq Instance
  PROVE  /\ journal' \subseteq journal /\ journal \subseteq journal' \cup {i}
         /\ kept' \subseteq Instance /\ kept \subseteq kept' \cup {i}
         /\ i \in journal' => i \in kept'
         /\ trouble' \in 0..MaxTrouble /\ trouble' \in {trouble, trouble + 1}
  BY ConstantsAssumption DEF Unlink

(* A mark leaves a record, or fails; and a record stays.                    *)
LEMMA MarkIs ==
  ASSUME taint \in BOOLEAN, WriteMark
  PROVE  /\ taint' \in BOOLEAN /\ (taint => taint')
         /\ (unmarked' = {} /\ taint') \/ (unmarked' = {stream} /\ ~taint')
  BY DEF WriteMark

(* A task that performs does one of them, by what its view lets it have.    *)
LEMMA PerformIs ==
  ASSUME NEW i \in Instance, view[i] \in View, TaskFits(i), Perform(i)
  PROVE  /\ view[i] \in Live \cup Terminal
         /\ Said(i) \/ Removed(i) \/ MarkedNow(i) \/ ToldTaint(i)
         /\ UNCHANGED <<view, clearing, entries, carry, startup, stage, stream, wireVars,
                        masterVars, lost, newest, late>>
<1> DEFINE e == Head(todo[i])
<1>1. /\ todo[i] # << >>
      /\ UNCHANGED <<view, clearing, entries, carry, startup, stage, stream, wireVars,
                     masterVars, lost, newest, late>>
      /\ \/ /\ e.do = "Send" /\ Emit(e.frame)
            /\ todo' = [todo EXCEPT ![i] = Tail(@)]
            /\ UNCHANGED <<journal, kept, trouble, taint, raced, quarantined, unmarked>>
         \/ /\ e.do = "Mark" /\ WriteMark /\ quarantined' = quarantined \cup {i}
            /\ todo' = [todo EXCEPT ![i] = AfterMark \o Tail(@)]
            /\ raced' = (raced \/ clearing # << >>)
            /\ UNCHANGED <<journal, kept, trouble, out>>
         \/ /\ e.do = "Remove" /\ Unlink(i)
            /\ todo' = [todo EXCEPT ![i] = Tail(@)]
            /\ UNCHANGED <<taint, out, raced, quarantined, unmarked>>
  BY DEF Perform
<1> HIDE DEF e
<1>2. view[i] \in Live \cup Terminal
  BY <1>1 DEF TaskFits, View
<1> DEFINE v == view[i]
<1> HIDE DEF v
<1>3. /\ Head(Telling(i, v)) = Send(Status(i, v)) /\ Tail(Telling(i, v)) = << >>
      /\ Head(Ending(i, v)) = Remove /\ Tail(Ending(i, v)) = Telling(i, v)
      /\ Head(Marked(i, v)) = Mark /\ Tail(Marked(i, v)) = Ending(i, v)
      /\ Head(Tainted(i, v)) = Send(TaintStatus(TRUE)) /\ Tail(Tainted(i, v)) = Ending(i, v)
      /\ Untaints(i, v) = {Ending(i, v), Marked(i, v), Tainted(i, v)}
  BY <1>2, TaskForms DEF v
<1>4. \/ todo[i] = Telling(i, v)
      \/ v \in Terminal /\ todo[i] \in {Ending(i, v), Marked(i, v), Tainted(i, v)}
  BY <1>1, <1>2, <1>3 DEF TaskFits, v
<1>5. ASSUME todo[i] = Telling(i, v) PROVE Said(i)
  <2>1. e = Send(Status(i, v)) /\ e.do = "Send" /\ e.frame = Status(i, v)
    BY <1>3, <1>5, EffectFields DEF e
  <2>2. /\ Emit(Status(i, v)) /\ todo' = [todo EXCEPT ![i] = Tail(@)]
        /\ UNCHANGED <<journal, kept, trouble, taint, raced, quarantined, unmarked>>
    BY <1>1, <2>1
  <2>3. todo' = [todo EXCEPT ![i] = << >>]
    BY <2>2, <1>3, <1>5
  <2> QED
    BY <1>5, <2>2, <2>3 DEF Said, Emit, v
<1>6. ASSUME v \in Terminal, todo[i] = Ending(i, v) PROVE Removed(i)
  <2>1. e.do = "Remove"
    BY <1>3, <1>6, EffectFields DEF e
  <2>2. /\ Unlink(i) /\ todo' = [todo EXCEPT ![i] = Tail(@)]
        /\ UNCHANGED <<taint, out, raced, quarantined, unmarked>>
    BY <1>1, <2>1
  <2>3. todo' = [todo EXCEPT ![i] = Telling(i, v)]
    BY <2>2, <1>3, <1>6
  <2> QED
    BY <1>6, <2>2, <2>3 DEF Removed, v
<1>7. ASSUME v \in Terminal, todo[i] = Marked(i, v) PROVE MarkedNow(i)
  <2>1. e.do = "Mark"
    BY <1>3, <1>7, EffectFields DEF e
  <2>2. /\ WriteMark /\ quarantined' = quarantined \cup {i}
        /\ todo' = [todo EXCEPT ![i] = AfterMark \o Tail(@)]
        /\ raced' = (raced \/ clearing # << >>)
        /\ UNCHANGED <<journal, kept, trouble, out>>
    BY <1>1, <2>1
  <2>3. todo' = [todo EXCEPT ![i] = Tainted(i, v)]
    BY <2>2, <1>3, <1>7 DEF Tainted, AfterMark
  <2> QED
    BY <1>7, <2>2, <2>3 DEF MarkedNow, v
<1>8. ASSUME v \in Terminal, todo[i] = Tainted(i, v) PROVE ToldTaint(i)
  <2>1. e = Send(TaintStatus(TRUE)) /\ e.do = "Send" /\ e.frame = TaintStatus(TRUE)
    BY <1>3, <1>8, EffectFields DEF e
  <2>2. /\ Emit(TaintStatus(TRUE)) /\ todo' = [todo EXCEPT ![i] = Tail(@)]
        /\ UNCHANGED <<journal, kept, trouble, taint, raced, quarantined, unmarked>>
    BY <1>1, <2>1
  <2>3. todo' = [todo EXCEPT ![i] = Ending(i, v)]
    BY <2>2, <1>3, <1>8
  <2> QED
    BY <1>8, <2>2, <2>3 DEF ToldTaint, Emit, v
<1> QED
  BY <1>1, <1>2, <1>4, <1>5, <1>6, <1>7, <1>8

-----------------------------------------------------------------------------
(***************************************************************************)
(* Types.                                                                  *)
(***************************************************************************)
(* Streams are numbers from 1 on.                                           *)
LEMMA StreamFacts ==
  /\ MaxTrouble \in Nat /\ 0 \notin StreamId
  /\ \A n \in StreamId : n \in Nat /\ n > 0 /\ n <= MaxTrouble + 1
  /\ \A n \in Nat : n > 0 /\ n <= MaxTrouble + 1 => n \in StreamId
  BY ConstantsAssumption DEF StreamId

(* A loop that is past connecting has a stream.                             *)
LEMMA HasStream ==
  ASSUME Typed, Streams, stage \notin {"boot", "down"}
  PROVE  stream \in StreamId
  BY DEF Typed, LoopTyped, Streams, Linked, Connected

(* Only instances end, and only instances are ordered.                      *)
LEMMA EndsTyped ==
  ASSUME NEW s \in Seq(Frame)
  PROVE  Ends(s) \subseteq Instance
<1>1. ASSUME NEW f \in Elements(s), f.type = "InstanceStatus" PROVE f.about \in Instance
  <2>1. f \in Frame
    BY ElementsOf
  <2>2. PICK i \in Instance, w \in Live \cup Terminal : f = Status(i, w)
    BY <2>1, <1>1, FrameKinds, FrameFields
  <2> QED
    BY <2>2, FrameFields
<1> QED
  BY <1>1, EndsIs

(* Only instances are ordered.                                              *)
LEMMA OrdersTyped ==
  ASSUME NEW s \in Seq(Command)
  PROVE  Orders(s) \subseteq Instance
  BY OrdersIs

(* What a short sequence of frames is.                                      *)
LEMMA FrameSequences ==
  /\ << >> \in Seq(Frame) /\ << >> \in Seq(Command) /\ << >> \in Seq(Effect)
  /\ \A f \in Frame : <<f>> \in Seq(Frame)
  /\ \A c \in Command : <<c>> \in Seq(Command)
  /\ \A e \in Effect : <<e>> \in Seq(Effect)
  /\ \A f : <<f>> # << >> /\ Len(<<f>>) = 1
  /\ Len(<< >>) = 0
<1>1. \A S : << >> \in Seq(S) /\ \A f \in S : <<f>> \in Seq(S)
  OBVIOUS
<1>2. (\A f : <<f>> # << >> /\ Len(<<f>>) = 1) /\ Len(<< >>) = 0
  OBVIOUS
<1> QED
  BY <1>1, <1>2

(* What a carry may become.                                                 *)
LEMMA CarryTyped ==
  ASSUME NEW f \in Frame, NEW c, NEW d, c \in Seq(Frame), Len(c) <= 1, d \in {c, << >>, <<f>>}
  PROVE  d \in Seq(Frame) /\ Len(d) <= 1
<1>1. /\ << >> \in Seq(Frame) /\ Len(<< >>) <= 1
      /\ <<f>> \in Seq(Frame) /\ Len(<<f>>) <= 1
  BY FrameSequences
<1> QED
  BY <1>1

(* A frame put into the stream, or lost there.                              *)
LEMMA PutTyped ==
  ASSUME Typed, stream \in StreamId, NEW f \in Frame, Put(f)
  PROVE  WireTyped' /\ lost' \subseteq Instance
<1>1. CASE Open /\ Len(wire[stream]) < WireCap /\ wire' = [wire EXCEPT ![stream] = Append(@, f)]
           /\ UNCHANGED lost
  <2>1. wire[stream] \in Seq(Frame)
    BY DEF Typed, WireTyped
  <2>2. Append(wire[stream], f) \in Seq(Frame) /\ Len(Append(wire[stream], f)) <= WireCap
    <3>1. Len(Append(wire[stream], f)) = Len(wire[stream]) + 1 /\ Len(wire[stream]) \in Nat
      BY <2>1, AppendFacts
    <3> QED
      BY <2>1, <3>1, <1>1, AppendFacts, ConstantsAssumption
  <2> QED
    BY <1>1, <2>2 DEF Typed, WireTyped, HistoryTyped, Put
<1>2. CASE ~Open /\ lost' = lost \cup Ends(<<f>>) /\ UNCHANGED wire
  BY <1>2, EndsTyped, FrameSequences DEF Typed, WireTyped, HistoryTyped, Put
<1> QED
  BY <1>1, <1>2 DEF Put

(* A stream that is left.                                                   *)
LEMMA LeaveTyped ==
  ASSUME Typed, stream \in StreamId, NEW gone \in SUBSET Instance, Leave(gone)
  PROVE  /\ WireTyped' /\ lost' \subseteq Instance
         /\ stage' = "down" /\ UNCHANGED stream
<1>1. down' = [down EXCEPT ![stream] = << >>] /\ UNCHANGED <<link, wire, stream>>
      /\ lost' = lost \cup Orders(down[stream]) \cup gone /\ stage' = "down"
  BY DEF Leave
<1>2. Orders(down[stream]) \subseteq Instance
  BY OrdersTyped DEF Typed, WireTyped
<1>3. /\ down' \in [StreamId -> Seq(Command)]
      /\ \A n \in StreamId : down'[n] \in {down[n], << >>}
  BY <1>1, FrameSequences DEF Typed, WireTyped
<1>4. \A n \in StreamId : Len(down'[n]) <= DownCap
  BY <1>3, FrameSequences, ConstantsAssumption DEF Typed, WireTyped
<1> QED
  BY <1>1, <1>2, <1>3, <1>4 DEF Typed, WireTyped, HistoryTyped

(* The next stage is a stage.                                               *)
LEMMA NextStageIs ==
  ASSUME NEW s, NEW c
  PROVE  /\ NextStage(s, c) \in {"startup", "carry", "up"}
         /\ NextStage(s, c) = "startup" <=> s # << >>
         /\ NextStage(s, c) = "carry" <=> s = << >> /\ c # << >>
         /\ NextStage(s, c) = "up" <=> s = << >> /\ c = << >>
  BY DEF NextStage

(* The report of what lives is a frame.                                     *)
LEMMA SnapshotIs ==
  ASSUME HostTyped
  PROVE  Report(Snapshot) \in Frame
<1>1. Snapshot \in [Instance -> Live \cup {None}]
  BY DEF Snapshot, HostTyped
<1> QED
  BY <1>1, FrameMakers

(* What the master says to the agent.                                       *)
LEMMA SayTyped ==
  ASSUME Typed, NEW n \in StreamId, NEW c \in Command, Say(n, c)
  PROVE  /\ down' \in [StreamId -> Seq(Command)] /\ \A k \in StreamId : Len(down'[k]) <= DownCap
         /\ lost' \subseteq Instance
<1>1. Append(down[n], c) \in Seq(Command) /\ Len(Append(down[n], c)) = Len(down[n]) + 1
  BY AppendFacts DEF Typed, WireTyped
<1>2. Orders(<<c>>) \subseteq Instance
  BY OrdersTyped, FrameSequences
<1>3. Len(down[n]) \in Nat /\ DownCap \in Nat
  BY LenProperties, ConstantsAssumption DEF Typed, WireTyped
<1>4. /\ down \in [StreamId -> Seq(Command)] /\ \A k \in StreamId : Len(down[k]) <= DownCap
      /\ lost \subseteq Instance
  BY DEF Typed, WireTyped, HistoryTyped
<1>5. CASE Pass(n, c) /\ UNCHANGED lost
  <2>1. Len(down[n]) < DownCap /\ down' = [down EXCEPT ![n] = Append(@, c)]
    BY <1>5 DEF Pass
  <2>2. Len(Append(down[n], c)) <= DownCap
    BY <1>1, <1>3, <2>1
  <2> QED
    BY <1>1, <1>4, <1>5, <2>1, <2>2
<1>6. CASE lost' = lost \cup Orders(<<c>>) /\ UNCHANGED down
  BY <1>2, <1>4, <1>6
<1> QED
  BY <1>5, <1>6 DEF Say

(* What the channels to the agent hold when one of them lost something.     *)
LEMMA DownTaken ==
  ASSUME Typed, NEW n \in StreamId, down[n] # << >>, down' = [down EXCEPT ![n] = Tail(@)]
  PROVE  /\ Head(down[n]) \in Command /\ Tail(down[n]) \in Seq(Command)
         /\ Head(down[n]) \in Elements(down[n])
         /\ down' \in [StreamId -> Seq(Command)] /\ \A k \in StreamId : Len(down'[k]) <= DownCap
         /\ \A k \in StreamId : /\ Elements(down[k]') \subseteq Elements(down[k])
                                /\ down[k]' # << >> => down[k] # << >>
                                /\ k # n => down[k]' = down[k]
<1>1. down[n] \in Seq(Command) /\ down[n]' = Tail(down[n]) /\ \A k \in StreamId \ {n} : down[k]' = down[k]
  BY DEF Typed, WireTyped
<1>2. /\ Elements(down[n]) = {Head(down[n])} \cup Elements(Tail(down[n]))
      /\ Head(down[n]) \in Command /\ Tail(down[n]) \in Seq(Command)
  BY <1>1, ElementsOf
<1>3. Len(Tail(down[n])) = Len(down[n]) - 1 /\ Len(down[n]) \in Nat
  BY <1>1, TailFacts
<1>4. /\ down' \in [StreamId -> Seq(Command)]
      /\ \A k \in StreamId : Len(down'[k]) <= DownCap
  BY <1>2, <1>3, ConstantsAssumption DEF Typed, WireTyped
<1> QED
  BY <1>1, <1>2, <1>4

(* What a task emits finds room.                                            *)
LEMMA EmitTyped ==
  ASSUME LoopTyped, NEW f \in Frame, Len(out) < OutCap
  PROVE  Append(out, f) \in Seq(Frame) /\ Len(Append(out, f)) <= OutCap
<1>1. Len(Append(out, f)) = Len(out) + 1 /\ Len(out) \in Nat
  BY AppendFacts DEF LoopTyped
<1> QED
  BY <1>1, AppendFacts, ConstantsAssumption DEF LoopTyped

(* What PerformClear does.                                                  *)
Cleared ==
  /\ clearing = <<Clear>>
  /\ \/ taint' = FALSE /\ clearing' = <<Read>> /\ unmarked' = {}
     \/ taint /\ UNCHANGED <<taint, unmarked>> /\ clearing' = <<Send(TaintStatus(TRUE))>>
  /\ raced' = (raced \/ \E i \in Instance : TellsTaint(todo[i]))
  /\ UNCHANGED out

ReadBack ==
  /\ clearing = <<Read>> /\ clearing' = <<Send(TaintStatus(taint))>>
  /\ UNCHANGED <<taint, out, raced, unmarked>>

ToldClear ==
  /\ Len(out) < OutCap /\ clearing' = << >>
  /\ \E b \in BOOLEAN : /\ clearing = <<Send(TaintStatus(b))>>
                        /\ out' = Append(out, TaintStatus(b))
  /\ UNCHANGED <<taint, raced, unmarked>>

(* The clearing task does one of three things.                              *)
LEMMA PerformClearIs ==
  ASSUME Clearing, PerformClear
  PROVE  /\ Cleared \/ ReadBack \/ ToldClear
         /\ UNCHANGED <<view, todo, journal, entries, kept, quarantined, carry, startup, stage,
                        stream, wireVars, masterVars, trouble, lost, newest, late>>
<1> DEFINE e == Head(clearing)
<1>1. /\ clearing # << >>
      /\ UNCHANGED <<view, todo, journal, entries, kept, quarantined, carry, startup, stage,
                     stream, wireVars, masterVars, trouble, lost, newest, late>>
      /\ \/ /\ e.do = "Clear"
            /\ \/ taint' = FALSE /\ clearing' = <<Read>> /\ unmarked' = {}
               \/ /\ taint /\ UNCHANGED <<taint, unmarked>>
                  /\ clearing' = <<Send(TaintStatus(TRUE))>>
            /\ raced' = (raced \/ \E i \in Instance : TellsTaint(todo[i]))
            /\ UNCHANGED out
         \/ /\ e.do = "Read" /\ clearing' = <<Send(TaintStatus(taint))>>
            /\ UNCHANGED <<taint, out, raced, unmarked>>
         \/ /\ e.do = "Send" /\ Emit(e.frame) /\ clearing' = << >>
            /\ UNCHANGED <<taint, raced, unmarked>>
  BY DEF PerformClear
<1>2. \A x : Head(<<x>>) = x
  OBVIOUS
<1> HIDE DEF e
<1>3. CASE clearing = <<Clear>>
  <2>1. e.do = "Clear"
    BY <1>2, <1>3, EffectFields DEF e
  <2> QED
    BY <1>1, <1>3, <2>1 DEF Cleared
<1>4. CASE clearing = <<Read>>
  <2>1. e.do = "Read"
    BY <1>2, <1>4, EffectFields DEF e
  <2> QED
    BY <1>1, <1>4, <2>1 DEF ReadBack
<1>5. ASSUME NEW b \in BOOLEAN, clearing = <<Send(TaintStatus(b))>> PROVE ToldClear
  <2>1. e.do = "Send" /\ e.frame = TaintStatus(b)
    BY <1>2, <1>5, EffectFields DEF e
  <2> QED
    BY <1>1, <1>5, <2>1 DEF ToldClear, Emit
<1> QED
  BY <1>1, <1>3, <1>4, <1>5 DEF Clearing

(* What the master does besides: it answers heartbeats and sends aborts.    *)
Aside ==
  \/ \E n \in StreamId : AnswerBeat(n) \/ LookUp(n) \/ Deliver(n)
  \/ \E i \in Instance : Stop(i)

(* Nothing but an idle command comes of it.                                 *)
LEMMA AsideIs ==
  ASSUME Typed, Aside
  PROVE  /\ UNCHANGED <<hostVars, loopVars, link, wire, session, acking, told, flag, sent, cleared,
                        history>>
         /\ trouble' \in 0..MaxTrouble /\ trouble <= trouble'
         /\ UNCHANGED down \/ \E n \in StreamId, c \in Idle : Pass(n, c)
<1>1. ASSUME NEW i \in Instance PROVE AbortFault(i) \in Idle /\ Orders(<<AbortFault(i)>>) = {}
  <2>1. AbortFault(i) \in Idle
    BY DEF Idle
  <2>2. <<AbortFault(i)>> \in Seq(Command) /\ Elements(<<AbortFault(i)>>) = {AbortFault(i)}
    BY FrameMakers, FrameSequences, ElementsShort
  <2>3. \A j : RunFault(j) # AbortFault(i)
    BY <2>1, IdleIs
  <2> QED
    BY <2>1, <2>2, <2>3, OrdersIs
<1>2. ASSUME NEW n \in StreamId, NEW i \in Instance, Say(n, AbortFault(i))
      PROVE  UNCHANGED lost /\ (UNCHANGED down \/ \E c \in Idle : Pass(n, c))
  BY <1>1, <1>2 DEF Say
<1>3. HeartbeatAck \in Idle /\ trouble \in 0..MaxTrouble /\ MaxTrouble \in Nat
  BY StreamFacts DEF Idle, Typed, MasterTyped
<1>4. aim \in [StreamId -> StreamId \cup {0}] /\ owes \in [StreamId -> SUBSET Instance]
      /\ session \in StreamId \cup {0}
  BY DEF Typed, MasterTyped, ReadersTyped
<1>5. ASSUME NEW n \in StreamId, AnswerBeat(n) \/ LookUp(n)
      PROVE  /\ UNCHANGED <<hostVars, loopVars, link, wire, session, acking, told, flag, sent,
                            cleared, history, trouble>>
             /\ UNCHANGED down \/ \E c \in Idle : Pass(n, c)
  BY <1>3, <1>5 DEF AnswerBeat, LookUp, wireVars
<1>6. ASSUME NEW n \in StreamId, Deliver(n)
      PROVE  /\ UNCHANGED <<hostVars, loopVars, link, wire, session, acking, told, flag, sent,
                            cleared, history, trouble>>
             /\ UNCHANGED down \/ \E m \in StreamId, c \in Idle : Pass(m, c)
  <2>1. PICK i \in owes[n] : Say(aim[n], AbortFault(i))
    BY <1>6 DEF Deliver
  <2>2. aim[n] \in StreamId /\ i \in Instance
    BY <1>4, <1>6 DEF Deliver
  <2>3. UNCHANGED lost /\ (UNCHANGED down \/ \E c \in Idle : Pass(aim[n], c))
    BY <1>2, <2>1, <2>2
  <2> QED
    BY <1>6, <2>2, <2>3 DEF Deliver, history
<1>7. ASSUME NEW i \in Instance, Stop(i)
      PROVE  /\ UNCHANGED <<hostVars, loopVars, link, wire, session, acking, told, flag, sent,
                            cleared, history>>
             /\ trouble' \in 0..MaxTrouble /\ trouble <= trouble'
             /\ UNCHANGED down \/ \E m \in StreamId, c \in Idle : Pass(m, c)
  <2>1. session \in StreamId /\ Say(session, AbortFault(i))
    BY <1>4, <1>7 DEF Stop
  <2>2. UNCHANGED lost /\ (UNCHANGED down \/ \E c \in Idle : Pass(session, c))
    BY <1>2, <2>1
  <2>3. trouble' \in 0..MaxTrouble /\ trouble <= trouble'
    BY <1>3, <1>7 DEF Stop
  <2> QED
    BY <1>7, <2>1, <2>2, <2>3 DEF Stop, readerVars, history
<1> QED
  BY <1>3, <1>5, <1>6, <1>7 DEF Aside

(* What the readers have in hand stays in its range.                        *)
LEMMA ReadersKept ==
  ASSUME Typed, [Next]_vars
  PROVE  ReadersTyped'
<1> USE DEF hostVars, loopVars, wireVars, masterVars, readerVars, history
<1>0. /\ beating \subseteq StreamId /\ asked \subseteq Instance /\ sent \subseteq Instance
      /\ owes \in [StreamId -> SUBSET Instance] /\ aim \in [StreamId -> StreamId \cup {0}]
      /\ session \in StreamId \cup {0}
  BY DEF Typed, MasterTyped, ReadersTyped
<1>1. ASSUME NEW n \in StreamId, Intake(n) PROVE ReadersTyped'
  <2>1. /\ Tripped(n, Head(wire[n])) /\ UNCHANGED aim
        /\ beating' = IF Head(wire[n]).type = "Heartbeat" THEN beating \cup {n} ELSE beating
    BY <1>1 DEF Intake
  <2>2. PICK S \in SUBSET Instance : asked' = asked \cup S /\ owes' = [owes EXCEPT ![n] = S]
    BY <1>0, <2>1 DEF Tripped
  <2> QED
    BY <1>0, <2>1, <2>2 DEF ReadersTyped
<1>2. ASSUME NEW n \in StreamId, AnswerBeat(n) \/ LookUp(n) \/ Deliver(n) \/ Close(n)
      PROVE  ReadersTyped'
  <2>1. CASE AnswerBeat(n)
    BY <1>0, <2>1 DEF AnswerBeat, ReadersTyped
  <2>2. CASE LookUp(n)
    BY <1>0, <2>2 DEF LookUp, ReadersTyped
  <2>3. CASE Deliver(n)
    BY <1>0, <2>3 DEF Deliver, ReadersTyped
  <2>4. CASE Close(n)
    BY <1>0, <2>4 DEF Close, ReadersTyped
  <2> QED
    BY <1>2, <2>1, <2>2, <2>3, <2>4
<1>3. ASSUME NEW n \in StreamId, Acknowledge(n) \/ Break(n) PROVE ReadersTyped'
  BY <1>0, <1>3 DEF Acknowledge, Break, ReadersTyped
<1>4. ASSUME NEW i \in Instance, Order(i) \/ Stop(i) PROVE ReadersTyped'
  BY <1>0, <1>4 DEF Order, Stop, ReadersTyped
<1>5. CASE Crash \/ Beat \/ Relay \/ PerformClear \/ UNCHANGED vars
  BY <1>0, <1>5 DEF Crash, Beat, Relay, PerformClear, vars, ReadersTyped
<1>6. CASE Task
  BY <1>0, <1>6 DEF Task, React, Perform, ReadersTyped
<1>7. CASE Boot
  BY <1>0, <1>7 DEF Boot, Booted, AbandonReplay, ReplayEntry, SkipEntry, ReadersTyped
<1>8. CASE Loop
  BY <1>0, <1>8
  DEF Loop, Connect, AwaitAck, SendReport, SendTaint, SendStartup, SendCarry, Forward, SendBeat,
      Notice, Receive, ReadersTyped
<1> QED
  BY <1>1, <1>2, <1>3, <1>4, <1>5, <1>6, <1>7, <1>8 DEF Next, Program, Environment, Master

(* Every step keeps every variable in its range.                            *)
LEMMA TypedKept ==
  ASSUME LinkInv, [Next]_vars
  PROVE  Typed'
<1> USE DEF hostVars, loopVars, wireVars, masterVars, readerVars, history
<1>0. Typed /\ Streams /\ Agent /\ Clearing
  BY DEF LinkInv
<1>r. ReadersTyped'
  BY <1>0, ReadersKept
<1>1. ASSUME NEW i \in Instance, React(i) PROVE Typed'
  <2>1. view[i] \in View
    BY <1>0 DEF Typed, HostTyped
  <2>2. PICK m \in Steps(i) :
          /\ view' = [view EXCEPT ![i] = m.view]
          /\ todo' = [todo EXCEPT ![i] = m.effects]
          /\ journal' = IF m.view = "Injecting" THEN journal \cup {i} ELSE journal
          /\ UNCHANGED <<taint, clearing, entries, kept, quarantined, unmarked, loopVars, wireVars,
                         masterVars, trouble, history>>
    BY <1>1 DEF React
  <2>3. m.view \in Live \cup Terminal /\ m.effects \in Seq(Effect)
    <3>1. /\ m.view \in Live \cup Terminal
          /\ m.effects \in {Telling(i, m.view), Ending(i, m.view), Marked(i, m.view)}
      BY <2>1, StepsAre
    <3> QED
      BY <3>1, TaskForms
  <2>4. HostTyped'
    BY <1>0, <2>2, <2>3 DEF Typed, HostTyped, View
  <2>5. UNCHANGED <<loopVars, wireVars, masterVars, trouble, lost, newest>>
    BY <2>2
  <2> QED
    BY <1>0, <1>r, <2>4, <2>5 DEF Typed, LoopTyped, WireTyped, MasterTyped, HistoryTyped
<1>2. ASSUME NEW i \in Instance, Perform(i) PROVE Typed'
  <2>1. /\ view[i] \in Live \cup Terminal
        /\ Said(i) \/ Removed(i) \/ MarkedNow(i) \/ ToldTaint(i)
        /\ UNCHANGED <<view, clearing, entries, carry, startup, stage, stream, wireVars,
                       masterVars, lost, newest, late>>
    BY <1>0, <1>2, PerformIs DEF Typed, HostTyped, Agent, Tasks
  <2>2. /\ << >> \in Seq(Effect) /\ Telling(i, view[i]) \in Seq(Effect)
        /\ Ending(i, view[i]) \in Seq(Effect) /\ Tainted(i, view[i]) \in Seq(Effect)
    BY <2>1, TaskForms, FrameSequences
  <2>3. HostTyped'
    <3>1. /\ taint' \in BOOLEAN
          /\ unmarked' \in {unmarked, {}, {stream}}
          /\ quarantined' \in {quarantined, quarantined \cup {i}}
      BY <1>0, <1>r, <2>1, MarkIs DEF Typed, HostTyped, Said, Removed, MarkedNow, ToldTaint
    <3>2. unmarked' \subseteq StreamId \cup {0} /\ quarantined' \subseteq Instance
      BY <1>0, <3>1 DEF Typed, HostTyped, LoopTyped
    <3>3. view' \in [Instance -> View] /\ clearing' \in Seq(Effect) /\ entries' \subseteq Instance
      BY <1>0, <1>r, <2>1 DEF Typed, HostTyped
    <3>5. journal' \subseteq Instance /\ kept' \subseteq Instance
      BY <1>0, <1>r, <2>1, UnlinkIs
      DEF Typed, HostTyped, MasterTyped, Said, Removed, MarkedNow, ToldTaint
    <3>4. todo' \in [Instance -> Seq(Effect)]
      BY <1>0, <1>r, <2>1, <2>2 DEF Typed, HostTyped, Said, Removed, MarkedNow, ToldTaint
    <3> QED
      BY <3>1, <3>2, <3>3, <3>4, <3>5 DEF HostTyped
  <2>4. Status(i, view[i]) \in Frame /\ TaintStatus(TRUE) \in Frame
    BY <2>1, FrameMakers
  <2>5. out' \in Seq(Frame) /\ Len(out') <= OutCap
    BY <1>0, <1>r, <2>1, <2>4, EmitTyped
    DEF Typed, LoopTyped, Said, Removed, MarkedNow, ToldTaint
  <2>6. trouble' \in 0..MaxTrouble
    BY <1>0, <1>r, <2>1, UnlinkIs DEF Typed, HostTyped, MasterTyped, Said, Removed, MarkedNow, ToldTaint
  <2> QED
    BY <1>0, <1>r, <2>1, <2>3, <2>5, <2>6 DEF Typed, LoopTyped, WireTyped, MasterTyped, HistoryTyped
<1>3. CASE PerformClear
  <2>1. /\ Cleared \/ ReadBack \/ ToldClear
        /\ UNCHANGED <<view, todo, journal, entries, kept, quarantined, carry, startup, stage,
                       stream, wireVars, masterVars, trouble, lost, newest, late>>
    BY <1>0, <1>3, PerformClearIs
  <2>2. \A b \in BOOLEAN : TaintStatus(b) \in Frame /\ Send(TaintStatus(b)) \in Effect
    BY FrameMakers, EffectFields
  <2>3. /\ << >> \in Seq(Effect) /\ <<Read>> \in Seq(Effect)
        /\ \A b \in BOOLEAN : <<Send(TaintStatus(b))>> \in Seq(Effect)
    BY <2>2, FrameSequences, EffectFields
  <2>4. taint' \in BOOLEAN /\ clearing' \in Seq(Effect) /\ unmarked' \in {unmarked, {}}
    BY <1>0, <1>r, <2>1, <2>3 DEF Typed, HostTyped, Cleared, ReadBack, ToldClear
  <2>5. out' \in Seq(Frame) /\ Len(out') <= OutCap
    BY <1>0, <1>r, <2>1, <2>2, EmitTyped DEF Typed, LoopTyped, Cleared, ReadBack, ToldClear
  <2> QED
    BY <1>0, <1>r, <2>1, <2>4, <2>5
    DEF Typed, HostTyped, LoopTyped, WireTyped, MasterTyped, HistoryTyped
<1>4. CASE Connect
  <2>1. /\ stage = "down" /\ stream' = stream + 1 /\ stage' = "ack"
        /\ link' = [link EXCEPT ![stream'] = "open"]
        /\ wire' = [wire EXCEPT ![stream'] = <<Register>>]
        /\ UNCHANGED <<hostVars, out, carry, startup, down, masterVars, trouble, history>>
    BY <1>4 DEF Connect
  <2>2. stream' \in StreamId
    <3>1. stream \in Nat /\ trouble \in Nat /\ trouble <= MaxTrouble /\ MaxTrouble \in Nat
      BY <1>0, StreamFacts DEF Typed, LoopTyped, MasterTyped
    <3>2. stream <= trouble
      BY <1>0, <1>r, <2>1 DEF Streams, Linked, Counted, Connected, Typed, LoopTyped
    <3> QED
      BY <2>1, <3>1, <3>2, StreamFacts
  <2>3. WireTyped'
    <3>1. <<Register>> \in Seq(Frame) /\ Len(<<Register>>) = 1 /\ 1 <= WireCap
      BY FrameMakers, FrameSequences, ConstantsAssumption
    <3> QED
      BY <1>0, <1>r, <2>1, <2>2, <3>1 DEF Typed, WireTyped
  <2> QED
    BY <1>0, <1>r, <2>1, <2>2, <2>3
    DEF Typed, HostTyped, LoopTyped, Stages, MasterTyped, HistoryTyped
<1>5. CASE AwaitAck
  <2>1. /\ stage = "ack" /\ down[stream] # << >>
        /\ stage' \in {"report", "ack"}
        /\ lost' = lost \cup Orders(<<Head(down[stream])>>)
        /\ down' = [down EXCEPT ![stream] = Tail(@)]
        /\ UNCHANGED <<hostVars, out, carry, startup, stream, link, wire, masterVars, trouble,
                       newest, late, raced>>
    BY <1>5 DEF AwaitAck
  <2>2. stream \in StreamId
    BY <1>0, <1>r, <2>1, HasStream
  <2>3. Tail(down[stream]) \in Seq(Command) /\ Head(down[stream]) \in Command
    BY <1>0, <1>r, <2>1, <2>2, TailFacts DEF Typed, WireTyped
  <2>4. lost' \subseteq Instance
    BY <1>0, <1>r, <2>1, <2>3, OrdersTyped, FrameSequences DEF Typed, HistoryTyped
  <2>5. down' \in [StreamId -> Seq(Command)] /\ \A k \in StreamId : Len(down'[k]) <= DownCap
    BY <1>0, <1>r, <2>1, <2>2, DownTaken
  <2> QED
    BY <1>0, <1>r, <2>1, <2>4, <2>5
    DEF Typed, HostTyped, LoopTyped, Stages, MasterTyped, ReadersTyped, HistoryTyped, WireTyped
<1>6. CASE SendReport
  <2>1. /\ stage = "report"
        /\ \/ Put(Report(Snapshot)) /\ stage' = "taint" /\ UNCHANGED <<carry, stream>>
           \/ Leave(Ends(carry)) /\ carry' = <<Report(Snapshot)>>
        /\ UNCHANGED <<hostVars, out, startup, masterVars, trouble, newest, late, raced>>
    BY <1>6 DEF SendReport
  <2>2. stream \in StreamId /\ Report(Snapshot) \in Frame /\ Ends(carry) \subseteq Instance
    BY <1>0, <1>r, <2>1, HasStream, SnapshotIs, EndsTyped DEF Typed, LoopTyped
  <2>3. /\ WireTyped' /\ lost' \subseteq Instance
        /\ stage' \in Stages /\ stream' = stream
        /\ carry' \in {carry, <<Report(Snapshot)>>}
    BY <1>0, <1>r, <2>1, <2>2, PutTyped, LeaveTyped DEF Stages
  <2>4. carry' \in Seq(Frame) /\ Len(carry') <= 1
    BY <1>0, <2>2, <2>3, CarryTyped DEF Typed, LoopTyped
  <2> QED
    BY <1>0, <1>r, <2>1, <2>3, <2>4 DEF Typed, HostTyped, LoopTyped, MasterTyped, HistoryTyped
<1>7. CASE SendTaint
  <2>1. /\ stage = "taint"
        /\ \/ /\ Put(TaintStatus(taint)) /\ stage' = NextStage(startup, carry)
              /\ UNCHANGED <<carry, stream>>
           \/ Leave(Ends(carry)) /\ carry' = <<TaintStatus(taint)>>
        /\ UNCHANGED <<hostVars, out, startup, masterVars, trouble, newest, late, raced>>
    BY <1>7 DEF SendTaint
  <2>2. stream \in StreamId /\ TaintStatus(taint) \in Frame /\ Ends(carry) \subseteq Instance
    BY <1>0, <1>r, <2>1, HasStream, FrameMakers, EndsTyped DEF Typed, LoopTyped, HostTyped
  <2>3. /\ WireTyped' /\ lost' \subseteq Instance
        /\ stage' \in Stages /\ stream' = stream
        /\ carry' \in {carry, <<TaintStatus(taint)>>}
    BY <1>0, <1>r, <2>1, <2>2, PutTyped, LeaveTyped, NextStageIs DEF Stages
  <2>4. carry' \in Seq(Frame) /\ Len(carry') <= 1
    BY <1>0, <2>2, <2>3, CarryTyped DEF Typed, LoopTyped
  <2> QED
    BY <1>0, <1>r, <2>1, <2>3, <2>4 DEF Typed, HostTyped, LoopTyped, MasterTyped, HistoryTyped
<1>8. CASE SendStartup
  <2>1. /\ stage = "startup"
        /\ \/ /\ Put(Head(startup)) /\ startup' = Tail(startup)
              /\ stage' = NextStage(Tail(startup), carry) /\ UNCHANGED stream
           \/ Leave({}) /\ UNCHANGED startup
        /\ UNCHANGED <<hostVars, out, carry, masterVars, trouble, newest, late, raced>>
    BY <1>8 DEF SendStartup
  <2>2. stream \in StreamId /\ Head(startup) \in Frame /\ Tail(startup) \in Seq(Frame)
    BY <1>0, <1>r, <2>1, HasStream, TailFacts DEF Typed, LoopTyped, Agent, Held
  <2>3. /\ WireTyped' /\ lost' \subseteq Instance
        /\ stage' \in Stages /\ stream' = stream
        /\ startup' \in {startup, Tail(startup)}
    BY <1>0, <1>r, <2>1, <2>2, PutTyped, LeaveTyped, NextStageIs DEF Stages
  <2> QED
    BY <1>0, <1>r, <2>1, <2>2, <2>3 DEF Typed, HostTyped, LoopTyped, MasterTyped, HistoryTyped
<1>9. CASE SendCarry
  <2>1. /\ stage = "carry"
        /\ \/ Put(carry[1]) /\ carry' = << >> /\ stage' = "up" /\ UNCHANGED stream
           \/ Leave({}) /\ UNCHANGED carry
        /\ UNCHANGED <<hostVars, out, startup, masterVars, trouble, newest, late, raced>>
    BY <1>9 DEF SendCarry
  <2>2. stream \in StreamId /\ carry[1] \in Frame
    BY <1>0, <1>r, <2>1, HasStream, TailFacts DEF Typed, LoopTyped, Agent, Held
  <2>3. /\ WireTyped' /\ lost' \subseteq Instance
        /\ stage' \in Stages /\ stream' = stream
        /\ carry' \in {carry, << >>}
    BY <1>0, <1>r, <2>1, <2>2, PutTyped, LeaveTyped DEF Stages
  <2>4. carry' \in Seq(Frame) /\ Len(carry') <= 1
    BY <1>0, <2>2, <2>3, CarryTyped DEF Typed, LoopTyped
  <2> QED
    BY <1>0, <1>r, <2>1, <2>3, <2>4 DEF Typed, HostTyped, LoopTyped, MasterTyped, HistoryTyped
<1>10. CASE Forward
  <2>1. /\ stage = "up" /\ out # << >> /\ carry' = <<Head(out)>> /\ out' = Tail(out)
        /\ stage' = "carry"
        /\ UNCHANGED <<hostVars, startup, stream, wireVars, masterVars, trouble, history>>
    BY <1>10 DEF Forward
  <2>2. /\ Head(out) \in Frame /\ Tail(out) \in Seq(Frame)
        /\ Len(Tail(out)) = Len(out) - 1 /\ Len(out) \in Nat
    BY <1>0, <1>r, <2>1, TailFacts DEF Typed, LoopTyped
  <2>3. carry' \in Seq(Frame) /\ Len(carry') <= 1
    BY <2>1, <2>2, FrameSequences
  <2>4. out' \in Seq(Frame) /\ Len(out') <= OutCap
    BY <1>0, <1>r, <2>1, <2>2, ConstantsAssumption DEF Typed, LoopTyped
  <2> QED
    BY <1>0, <1>r, <2>1, <2>3, <2>4
    DEF Typed, HostTyped, LoopTyped, Stages, WireTyped, MasterTyped, ReadersTyped, HistoryTyped
<1>11. CASE Notice
  <2>1. /\ stage \in {"ack", "up"} /\ Leave({})
        /\ UNCHANGED <<hostVars, out, carry, startup, masterVars, trouble, newest, late, raced>>
    BY <1>11 DEF Notice
  <2>2. stream \in StreamId
    BY <1>0, <1>r, <2>1, HasStream
  <2>3. WireTyped' /\ lost' \subseteq Instance /\ stage' \in Stages /\ stream' = stream
    BY <1>0, <1>r, <2>1, <2>2, LeaveTyped DEF Stages
  <2> QED
    BY <1>0, <1>r, <2>1, <2>3 DEF Typed, HostTyped, LoopTyped, MasterTyped, HistoryTyped
<1>12. CASE Receive
  <2> DEFINE c == Head(down[stream])
  <2>1. /\ stage = "up" /\ down[stream] # << >>
        /\ down' = [down EXCEPT ![stream] = Tail(@)]
        /\ \/ /\ c.type = "RunFault" /\ view[c.about] = None
              /\ view' = [view EXCEPT ![c.about] = "Pending"]
              /\ todo' = [todo EXCEPT ![c.about] = Telling(c.about, "Pending")]
              /\ UNCHANGED clearing
           \/ c.type = "ClearTaint" /\ clearing' = <<Clear>> /\ UNCHANGED <<view, todo>>
           \/ UNCHANGED <<view, todo, clearing>>
        /\ UNCHANGED <<journal, taint, entries, kept, quarantined, unmarked, loopVars, link, wire,
                       masterVars, trouble, history>>
    BY <1>12 DEF Receive
  <2>2. stream \in StreamId
    BY <1>0, <1>r, <2>1, HasStream
  <2>3. Tail(down[stream]) \in Seq(Command) /\ c \in Command
    BY <1>0, <1>r, <2>1, <2>2, TailFacts DEF Typed, WireTyped
  <2> HIDE DEF c
  <2>4. WireTyped'
    BY <1>0, <1>r, <2>1, <2>2, DownTaken DEF Typed, WireTyped
  <2>5. c.type = "RunFault" => c.about \in Instance
    BY <2>3, CommandKinds, IdleIs, FrameFields
  <2>6. "Pending" \in View /\ "Pending" \in Live
    BY DEF View, Live
  <2>7. ASSUME NEW i \in Instance PROVE Telling(i, "Pending") \in Seq(Effect)
    BY <2>6, TaskForms
  <2>8. <<Clear>> \in Seq(Effect)
    BY EffectFields, FrameSequences
  <2>9. HostTyped'
    <3>1. CASE /\ c.type = "RunFault" /\ view[c.about] = None
               /\ view' = [view EXCEPT ![c.about] = "Pending"]
               /\ todo' = [todo EXCEPT ![c.about] = Telling(c.about, "Pending")]
               /\ UNCHANGED clearing
      BY <1>0, <1>r, <2>1, <2>5, <2>6, <2>7, <3>1 DEF Typed, HostTyped
    <3>2. CASE c.type = "ClearTaint" /\ clearing' = <<Clear>> /\ UNCHANGED <<view, todo>>
      BY <1>0, <1>r, <2>1, <2>8, <3>2 DEF Typed, HostTyped
    <3> QED
      BY <1>0, <1>r, <2>1, <3>1, <3>2 DEF Typed, HostTyped
  <2> QED
    BY <1>0, <1>r, <2>1, <2>4, <2>9 DEF Typed, LoopTyped, MasterTyped, HistoryTyped
<1>13. CASE Booted
  BY <1>0, <1>r, <1>13
  DEF Booted, Typed, HostTyped, LoopTyped, Stages, WireTyped, MasterTyped, HistoryTyped
<1>23. CASE AbandonReplay
  <2>1. Ends(startup) \subseteq Instance /\ << >> \in Seq(Frame)
    BY <1>0, EndsTyped, FrameSequences DEF Typed, LoopTyped
  <2>2. /\ stage' = "down" /\ entries' = {} /\ startup' = << >>
        /\ lost' = lost \cup entries \cup Ends(startup)
        /\ UNCHANGED <<view, todo, journal, kept, taint, clearing, quarantined, unmarked, out,
                       carry, stream, wireVars, masterVars, trouble, newest, late, raced>>
    BY <1>23 DEF AbandonReplay
  <2> QED
    BY <1>0, <1>r, <2>1, <2>2
    DEF Typed, HostTyped, LoopTyped, Stages, WireTyped, MasterTyped, HistoryTyped
<1>24. ASSUME NEW i \in Instance, SkipEntry(i) PROVE Typed'
  <2>1. /\ entries' \subseteq entries /\ startup' = Append(startup, TaintStatus(TRUE))
        /\ lost' = lost \cup {i} /\ quarantined' = quarantined \cup {i}
        /\ taint' \in {taint, TRUE} /\ unmarked' \in {{}, {stream}}
        /\ UNCHANGED <<view, todo, journal, kept, clearing, out, carry, stage, stream, wireVars,
                       masterVars, trouble, newest, late, raced>>
    BY <1>24 DEF SkipEntry, WriteMark
  <2>2. startup' \in Seq(Frame)
    BY <1>0, <1>r, <2>1, FrameMakers, AppendFacts DEF Typed, LoopTyped
  <2>3. unmarked' \subseteq StreamId \cup {0} /\ taint' \in BOOLEAN
    BY <1>0, <1>r, <2>1 DEF Typed, HostTyped, LoopTyped
  <2>4. HostTyped'
    BY <1>0, <1>r, <2>1, <2>3 DEF Typed, HostTyped
  <2> QED
    BY <1>0, <1>r, <2>1, <2>2, <2>4 DEF Typed, LoopTyped, WireTyped, MasterTyped, HistoryTyped
<1>25. CASE SendBeat
  <2>1. /\ stage = "beat"
        /\ \/ Put(Heartbeat) /\ stage' = "up" /\ UNCHANGED stream
           \/ Leave({})
        /\ UNCHANGED <<hostVars, out, carry, startup, masterVars, trouble, newest, late, raced>>
    BY <1>25 DEF SendBeat
  <2>2. stream \in StreamId /\ Heartbeat \in Frame
    BY <1>0, <1>r, <2>1, HasStream, FrameMakers
  <2>3. WireTyped' /\ lost' \subseteq Instance /\ stage' \in Stages /\ stream' = stream
    BY <1>0, <1>r, <2>1, <2>2, PutTyped, LeaveTyped DEF Stages
  <2> QED
    BY <1>0, <1>r, <2>1, <2>3 DEF Typed, HostTyped, LoopTyped, MasterTyped, HistoryTyped
<1>26. CASE Beat
  <2>1. /\ stage' = "beat" /\ trouble < MaxTrouble /\ trouble' = trouble + 1
        /\ UNCHANGED <<hostVars, out, carry, startup, stream, wireVars, masterVars, history>>
    BY <1>26 DEF Beat
  <2>2. MasterTyped'
    BY <1>0, <1>r, <2>1, StreamFacts DEF Typed, MasterTyped
  <2> QED
    BY <1>0, <1>r, <2>1, <2>2 DEF Typed, HostTyped, LoopTyped, Stages, WireTyped, HistoryTyped
<1>27. CASE Aside
  <2>1. /\ UNCHANGED <<hostVars, loopVars, link, wire, session, acking, told, flag, sent, cleared,
                       history>>
        /\ trouble' \in 0..MaxTrouble
        /\ UNCHANGED down \/ \E n \in StreamId, c \in Idle : Pass(n, c)
    BY <1>0, <1>27, AsideIs
  <2>2. WireTyped'
    <3>1. ASSUME NEW n \in StreamId, NEW c \in Idle, Pass(n, c) PROVE WireTyped'
      <4>1. Say(n, c) \/ UNCHANGED down
        BY <3>1, <2>1 DEF Say
      <4>2. down' \in [StreamId -> Seq(Command)] /\ \A k \in StreamId : Len(down'[k]) <= DownCap
        BY <1>0, <3>1, <4>1, IdleIs, SayTyped DEF Typed, WireTyped
      <4> QED
        BY <1>0, <1>r, <2>1, <4>2 DEF Typed, WireTyped
    <3>2. CASE UNCHANGED down
      BY <1>0, <1>r, <2>1, <3>2 DEF Typed, WireTyped
    <3> QED
      BY <2>1, <3>1, <3>2
  <2> QED
    BY <1>0, <1>r, <2>1, <2>2 DEF Typed, HostTyped, LoopTyped, MasterTyped, HistoryTyped
<1>14. ASSUME NEW i \in Instance, ReplayEntry(i) PROVE Typed'
  <2>1. /\ Unlink(i) /\ entries' \subseteq entries
        /\ UNCHANGED <<view, todo, clearing, out, carry, stage, stream, wireVars, masterVars,
                       lost, newest, late>>
        /\ taint' \in {taint, TRUE} /\ quarantined' \in {quarantined, quarantined \cup {i}}
        /\ unmarked' \in {unmarked, {}, {stream}}
        /\ \/ \E s \in {"Aborted", "Error"} :
                startup' = startup \o <<Status(i, "Recovering"), Status(i, s)>>
           \/ startup' =
                startup \o <<Status(i, "Recovering"), TaintStatus(TRUE), Status(i, "Error")>>
    BY <1>14 DEF ReplayEntry, WriteMark
  <2>2. /\ TaintStatus(TRUE) \in Frame
        /\ \A s \in {"Recovering", "Aborted", "Error"} : Status(i, s) \in Frame
    BY FrameMakers DEF Live, Terminal
  <2>3. /\ \A s \in {"Aborted", "Error"} :
             <<Status(i, "Recovering"), Status(i, s)>> \in Seq(Frame)
        /\ <<Status(i, "Recovering"), TaintStatus(TRUE), Status(i, "Error")>> \in Seq(Frame)
    BY <2>2, ShortSequences
  <2>4. startup' \in Seq(Frame)
    <3>1. startup \in Seq(Frame)
      BY <1>0 DEF Typed, LoopTyped
    <3>2. \A t \in Seq(Frame) : startup \o t \in Seq(Frame)
      BY <3>1, ElementsJoined
    <3> QED
      BY <2>1, <2>3, <3>2
  <2>5. HostTyped'
    <3>1. /\ unmarked' \subseteq StreamId \cup {0} /\ quarantined' \subseteq Instance
          /\ taint' \in BOOLEAN
      BY <1>0, <1>r, <2>1 DEF Typed, HostTyped, LoopTyped
    <3> QED
      BY <1>0, <1>r, <2>1, <3>1, UnlinkIs DEF Typed, HostTyped, MasterTyped
  <2>6. trouble' \in 0..MaxTrouble
    BY <1>0, <1>r, <2>1, UnlinkIs DEF Typed, HostTyped, MasterTyped
  <2> QED
    BY <1>0, <1>r, <2>1, <2>4, <2>5, <2>6 DEF Typed, LoopTyped, WireTyped, MasterTyped, HistoryTyped
<1>15. ASSUME NEW n \in StreamId, Intake(n) PROVE Typed'
  <2> DEFINE f == Head(wire[n])
  <2>1. /\ wire[n] # << >> /\ wire' = [wire EXCEPT ![n] = Tail(@)]
        /\ session' = IF f.type = "Register" THEN n ELSE session
        /\ acking' = IF f.type = "Register" THEN acking \cup {n} ELSE acking
        /\ flag' = IF f.type = "TaintStatus" THEN f.tainted ELSE flag
        /\ told' = CASE f.type = "InstanceStatus" ->
                          [told EXCEPT ![f.about] = Told(f.about, f.state)]
                     [] f.type = "InstanceReport" -> [i \in Instance |-> Told(i, f.view[i])]
                     [] OTHER -> told
        /\ newest' = IF f.type = "Register" /\ n > newest THEN n ELSE newest
        /\ UNCHANGED <<hostVars, loopVars, link, down, sent, cleared, trouble, lost, raced>>
    BY <1>15 DEF Intake
  <2>2. /\ f \in Frame /\ Tail(wire[n]) \in Seq(Frame)
        /\ Len(Tail(wire[n])) = Len(wire[n]) - 1 /\ Len(wire[n]) \in Nat
    BY <1>0, <1>r, <2>1, TailFacts DEF Typed, WireTyped
  <2> HIDE DEF f
  <2>3. WireTyped'
    <3>1. Len(wire[n]) <= WireCap /\ Len(Tail(wire[n])) <= WireCap
      BY <1>0, <2>2, ConstantsAssumption DEF Typed, WireTyped
    <3> QED
      BY <1>0, <1>r, <2>1, <2>2, <3>1 DEF Typed, WireTyped
  <2>4. \A i \in Instance, s \in View : Told(i, s) \in View
    BY <1>0 DEF Told, Typed, MasterTyped
  <2>5. told' \in [Instance -> View]
    <3>1. ASSUME NEW i \in Instance, NEW s \in Live \cup Terminal, f = Status(i, s)
          PROVE  told' \in [Instance -> View]
      <4>1. f.type = "InstanceStatus" /\ f.about = i /\ f.state = s
        BY <3>1, FrameFields
      <4>2. told' = [told EXCEPT ![i] = Told(i, s)]
        BY <2>1, <4>1
      <4> QED
        BY <1>0, <2>4, <4>2 DEF Typed, MasterTyped, View
    <3>2. ASSUME NEW w \in [Instance -> Live \cup {None}], f = Report(w)
          PROVE  told' \in [Instance -> View]
      <4>1. f.type = "InstanceReport" /\ f.view = w
        BY <3>2, FrameFields
      <4>2. told' = [i \in Instance |-> Told(i, w[i])]
        BY <2>1, <4>1
      <4>3. \A i \in Instance : w[i] \in View
        BY DEF View
      <4> QED
        BY <2>4, <4>2, <4>3
    <3>3. CASE f = Register \/ f = Heartbeat \/ \E b \in BOOLEAN : f = TaintStatus(b)
      <4>1. f.type \in {"Register", "Heartbeat", "TaintStatus"}
        BY <3>3, FrameFields
      <4>2. told' = told
        BY <2>1, <4>1
      <4> QED
        BY <1>0, <4>2 DEF Typed, MasterTyped
    <3> QED
      BY <2>2, <3>1, <3>2, <3>3, FrameKinds
  <2>6. flag' \in BOOLEAN
    <3>1. f.type = "TaintStatus" => f.tainted \in BOOLEAN
      BY <2>2, FrameKinds, FrameFields
    <3> QED
      BY <1>0, <1>r, <2>1, <3>1 DEF Typed, MasterTyped
  <2>7. session' \in StreamId \cup {0} /\ acking' \subseteq StreamId /\ newest' \in StreamId \cup {0}
    BY <1>0, <1>r, <2>1 DEF Typed, MasterTyped, HistoryTyped
  <2> QED
    BY <1>0, <1>r, <2>1, <2>3, <2>5, <2>6, <2>7
    DEF Typed, HostTyped, LoopTyped, MasterTyped, HistoryTyped
<1>16. ASSUME NEW n \in StreamId, Acknowledge(n) PROVE Typed'
  <2>1. /\ acking' = acking \ {n} /\ Pass(n, RegisterAck)
        /\ UNCHANGED <<hostVars, loopVars, link, wire, session, told, flag, sent, cleared,
                       trouble, history>>
    BY <1>16 DEF Acknowledge
  <2>2. down' \in [StreamId -> Seq(Command)] /\ \A k \in StreamId : Len(down'[k]) <= DownCap
    BY <1>0, <1>r, <2>1, SayTyped, FrameMakers DEF Say
  <2> QED
    BY <1>0, <1>r, <2>1, <2>2 DEF Typed, HostTyped, LoopTyped, WireTyped, MasterTyped, HistoryTyped
<1>17. ASSUME NEW n \in StreamId, Close(n) PROVE Typed'
  <2>1. /\ link' = [link EXCEPT ![n] = "closed"]
        /\ wire' = [wire EXCEPT ![n] = << >>]
        /\ lost' = lost \cup Ends(wire[n])
        /\ session' = IF session = n THEN 0 ELSE session
        /\ acking' = acking \ {n}
        /\ UNCHANGED <<hostVars, loopVars, down, told, flag, sent, cleared, trouble, newest, late,
                       raced>>
    BY <1>17 DEF Close
  <2>2. WireTyped'
    <3>1. << >> \in Seq(Frame) /\ Len(<< >>) = 0 /\ 0 <= WireCap
      BY FrameSequences, ConstantsAssumption
    <3> QED
      BY <1>0, <1>r, <2>1, <3>1 DEF Typed, WireTyped
  <2>3. lost' \subseteq Instance
    BY <1>0, <1>r, <2>1, EndsTyped DEF Typed, WireTyped, HistoryTyped
  <2> QED
    BY <1>0, <1>r, <2>1, <2>2, <2>3 DEF Typed, HostTyped, LoopTyped, MasterTyped, HistoryTyped
<1>18. CASE Crash
  <2>1. /\ trouble < MaxTrouble /\ trouble' = trouble + 1
        /\ lost' = lost \cup Ends(out) \cup Ends(carry) \cup Ends(startup)
                    \cup (IF stream = 0 THEN {} ELSE Orders(down[stream]))
                    \cup {i \in Instance \ journal : view[i] \in Live \/ UntoldEnd(i)}
        /\ view' = [i \in Instance |-> None] /\ todo' = [i \in Instance |-> << >>]
        /\ clearing' = << >> /\ out' = << >> /\ carry' = << >> /\ startup' = << >>
        /\ stage' = "boot" /\ entries' = journal /\ quarantined' = {} /\ unmarked' = {}
        /\ link' = [n \in StreamId |->
                      IF n = stream /\ link[n] = "open" THEN "broken" ELSE link[n]]
        /\ down' = [n \in StreamId |-> IF n = stream THEN << >> ELSE down[n]]
        /\ UNCHANGED <<journal, kept, taint, stream, wire, masterVars, newest, late, raced>>
    BY <1>18 DEF Crash
  <2>2. HostTyped'
    BY <1>0, <1>r, <2>1, FrameSequences DEF Typed, HostTyped, View
  <2>3. LoopTyped'
    BY <1>0, <1>r, <2>1, FrameSequences, ConstantsAssumption DEF Typed, LoopTyped, Stages
  <2>4. WireTyped'
    BY <1>0, <1>r, <2>1, FrameSequences, ConstantsAssumption DEF Typed, WireTyped
  <2>5. MasterTyped'
    BY <1>0, <1>r, <2>1, StreamFacts DEF Typed, MasterTyped
  <2>6. HistoryTyped'
    <3>1. Ends(out) \cup Ends(carry) \cup Ends(startup) \subseteq Instance
      BY <1>0, EndsTyped DEF Typed, LoopTyped
    <3>2. stream # 0 => Orders(down[stream]) \subseteq Instance
      BY <1>0, OrdersTyped DEF Typed, LoopTyped, WireTyped
    <3> QED
      BY <1>0, <1>r, <2>1, <3>1, <3>2 DEF Typed, HistoryTyped
  <2> QED
    BY <2>2, <2>3, <2>4, <2>5, <2>6 DEF Typed
<1>19. CASE Relay
  <2>1. /\ session # 0 /\ cleared' = TRUE
        /\ trouble < MaxTrouble /\ trouble' = trouble + 1
        /\ Say(session, ClearTaint)
        /\ UNCHANGED <<hostVars, loopVars, link, wire, session, readerVars, told, flag, sent, asked,
                       newest, late, raced>>
    BY <1>19 DEF Relay
  <2>2. session \in StreamId
    BY <1>0, <1>r, <2>1 DEF Typed, MasterTyped
  <2>3. /\ down' \in [StreamId -> Seq(Command)] /\ \A k \in StreamId : Len(down'[k]) <= DownCap
        /\ lost' \subseteq Instance
    BY <1>0, <1>r, <2>1, <2>2, SayTyped, FrameMakers
  <2>4. MasterTyped'
    BY <1>0, <1>r, <2>1, StreamFacts DEF Typed, MasterTyped
  <2> QED
    BY <1>0, <1>r, <2>1, <2>3, <2>4 DEF Typed, HostTyped, LoopTyped, WireTyped, HistoryTyped
<1>20. ASSUME NEW n \in StreamId, Break(n) PROVE Typed'
  <2>1. /\ trouble < MaxTrouble /\ trouble' = trouble + 1
        /\ link' = [link EXCEPT ![n] = "broken"]
        /\ UNCHANGED <<hostVars, loopVars, wire, down, masterVars, history>>
    BY <1>20 DEF Break
  <2>2. MasterTyped'
    BY <1>0, <1>r, <2>1, StreamFacts DEF Typed, MasterTyped
  <2> QED
    BY <1>0, <1>r, <2>1, <2>2 DEF Typed, HostTyped, LoopTyped, WireTyped, HistoryTyped
<1>21. ASSUME NEW i \in Instance, Order(i) PROVE Typed'
  <2>1. /\ session # 0 /\ sent' = sent \cup {i}
        /\ Say(session, RunFault(i))
        /\ UNCHANGED <<hostVars, loopVars, link, wire, session, readerVars, told, flag, asked,
                       cleared, trouble, newest, late, raced>>
    BY <1>21 DEF Order
  <2>2. session \in StreamId
    BY <1>0, <1>r, <2>1 DEF Typed, MasterTyped
  <2>3. /\ down' \in [StreamId -> Seq(Command)] /\ \A k \in StreamId : Len(down'[k]) <= DownCap
        /\ lost' \subseteq Instance
    BY <1>0, <1>r, <2>1, <2>2, SayTyped, FrameMakers
  <2> QED
    BY <1>0, <1>r, <2>1, <2>3 DEF Typed, HostTyped, LoopTyped, WireTyped, MasterTyped, HistoryTyped
<1>22. CASE UNCHANGED vars
  BY <1>0, <1>r, <1>22
  DEF vars, Typed, HostTyped, LoopTyped, WireTyped, MasterTyped, HistoryTyped
<1> QED
  BY <1>1, <1>2, <1>3, <1>4, <1>5, <1>6, <1>7, <1>8, <1>9, <1>10, <1>11, <1>12, <1>13, <1>14,
     <1>15, <1>16, <1>17, <1>18, <1>19, <1>20, <1>21, <1>22, <1>23, <1>24, <1>25, <1>26, <1>27
  DEF Next, Program, Environment, Task, Loop, Boot, Master, Aside

-----------------------------------------------------------------------------
(***************************************************************************)
(* The session loop and the streams.                                       *)
(***************************************************************************)
(* What they hold when one of them is emptied.                                             *)
LEMMA DownEmptied ==
  ASSUME Typed, NEW n \in StreamId, down' = [down EXCEPT ![n] = << >>]
  PROVE  \A k \in StreamId : /\ Elements(down[k]') \subseteq Elements(down[k])
                             /\ down[k]' # << >> => down[k] # << >> /\ k # n
                             /\ k # n => down[k]' = down[k]
  BY ElementsShort DEF Typed, WireTyped

(* The same when the master says something that is taken.                   *)
LEMMA DownPassed ==
  ASSUME Typed, NEW n \in StreamId, NEW c \in Command, Pass(n, c)
  PROVE  /\ Heard(n) /\ down[n]' = Append(down[n], c)
         /\ Elements(down[n]') = Elements(down[n]) \cup {c}
         /\ \A k \in StreamId \ {n} : down[k]' = down[k]
<1>1. down[n] \in Seq(Command)
  BY DEF Typed, WireTyped
<1>2. Heard(n) /\ down' = [down EXCEPT ![n] = Append(@, c)]
  BY DEF Pass
<1>3. down[n]' = Append(down[n], c) /\ \A k \in StreamId \ {n} : down[k]' = down[k]
  BY <1>2 DEF Typed, WireTyped
<1> QED
  BY <1>1, <1>2, <1>3, ElementsOf

(* Or that is taken or refused.                                             *)
LEMMA DownSaid ==
  ASSUME Typed, NEW n \in StreamId, NEW c \in Command, Say(n, c)
  PROVE  /\ \A k \in StreamId \ {n} : down[k]' = down[k]
         /\ \/ /\ Heard(n) /\ down[n]' = Append(down[n], c) /\ lost' = lost
               /\ Elements(down[n]') = Elements(down[n]) \cup {c}
            \/ down' = down /\ lost' = lost \cup Orders(<<c>>)
<1>1. CASE Pass(n, c) /\ lost' = lost
  BY <1>1, DownPassed
<1>2. CASE down' = down /\ lost' = lost \cup Orders(<<c>>)
  BY <1>2
<1> QED
  BY <1>1, <1>2 DEF Say

(* The loop takes something in hand: a frame of the tasks, or a heartbeat.  *)
Taking == Forward \/ Beat

(* Neither touches a stream.                                                *)
LEMMA TakingIs ==
  ASSUME Taking
  PROVE  /\ stage = "up" /\ stage' \in {"carry", "beat"}
         /\ UNCHANGED <<hostVars, startup, stream, wireVars, masterVars, history>>
         /\ trouble' = trouble \/ trouble' = trouble + 1
         /\ \/ /\ stage' = "carry" /\ out # << >>
               /\ carry' = <<Head(out)>> /\ out' = Tail(out) /\ UNCHANGED trouble
            \/ stage' = "beat" /\ UNCHANGED <<out, carry>>
  BY DEF Taking, Forward, Beat

Pushing == SendReport \/ SendTaint \/ SendStartup \/ SendCarry \/ SendBeat \/ Notice

(* What the loop does when it pushes a frame: it stays on the stream or     *)
(* leaves it.                                                               *)
LEMMA PushingIs ==
  ASSUME Pushing
  PROVE  /\ Connected /\ UNCHANGED <<link, stream>>
         /\ UNCHANGED <<hostVars, masterVars, trouble, newest, late, raced>>
         /\ \/ UNCHANGED down /\ stage \in Registered /\ stage' \in Registered
            \/ ~Open /\ stage' = "down" /\ down' = [down EXCEPT ![stream] = << >>]
<1> USE DEF Connected, Registered, Leave, Put
<1>1. CASE SendReport
  BY <1>1 DEF SendReport
<1>2. CASE SendTaint
  BY <1>2, NextStageIs DEF SendTaint
<1>3. CASE SendStartup
  BY <1>3, NextStageIs DEF SendStartup
<1>4. CASE SendCarry
  BY <1>4 DEF SendCarry
<1>5. CASE SendBeat
  BY <1>5 DEF SendBeat
<1>6. CASE Notice
  BY <1>6 DEF Notice
<1> QED
  BY <1>1, <1>2, <1>3, <1>4, <1>5, <1>6 DEF Pushing

Ordering == Linked /\ Counted /\ Heeded

(* Every step keeps the order of the streams.                               *)
LEMMA OrderingKept ==
  ASSUME LinkInv, [Next]_vars
  PROVE  Ordering'
<1> USE DEF hostVars, loopVars, wireVars, masterVars, readerVars, history
<1>0. Typed /\ Streams /\ Agent /\ Clearing
  BY DEF LinkInv
<1>a. /\ stream \in Nat /\ newest \in Nat /\ session \in Nat /\ trouble \in Nat
      /\ \A n \in StreamId : n \in Nat /\ n > 0
  BY <1>0, StreamFacts DEF Typed, LoopTyped, MasterTyped, HistoryTyped
<1>b. acking \subseteq StreamId /\ stream \in StreamId \cup {0} /\ link \in [StreamId -> {"unused", "open", "broken", "closed"}]
  BY <1>0 DEF Typed, LoopTyped, MasterTyped, WireTyped
<1>u. ASSUME Connected' = Connected, stage' \in Registered <=> stage \in Registered,
             UNCHANGED <<stream, link, down, session, acking, newest>>,
             trouble' = trouble \/ trouble' = trouble + 1
      PROVE  Ordering'
  <2>1. Linked'
    BY <1>0, <1>u DEF Streams, Linked
  <2>2. Counted'
    BY <1>0, <1>a, <1>u DEF Streams, Counted
  <2>3. Heeded'
    BY <1>0, <1>u DEF Streams, Heeded
  <2> QED
    BY <2>1, <2>2, <2>3 DEF Ordering
<1>1. ASSUME NEW i \in Instance, React(i) PROVE Ordering'
  BY <1>0, <1>1 DEF React, Ordering, Streams, Linked, Counted, Heeded, Connected
<1>2. ASSUME NEW i \in Instance, Perform(i) PROVE Ordering'
  <2>1. UNCHANGED <<stage, stream, link, down, session, acking, newest>>
    BY <1>2 DEF Perform
  <2>2. trouble' = trouble \/ trouble' = trouble + 1
    BY <1>2 DEF Perform, Unlink
  <2> QED
    BY <1>u, <2>1, <2>2 DEF Connected
<1>3. CASE PerformClear
  BY <1>0, <1>3 DEF PerformClear, Ordering, Streams, Linked, Counted, Heeded, Connected
<1>4. CASE Connect
  <2>1. /\ stage = "down" /\ stream' = stream + 1 /\ stage' = "ack"
        /\ link' = [link EXCEPT ![stream'] = "open"]
        /\ UNCHANGED <<down, masterVars, trouble, history>>
    BY <1>4 DEF Connect
  <2>2. stream' \in StreamId /\ stream' # 0 /\ stream' \in Nat
    <3>1. Typed'
      BY <1>4, TypedKept DEF Next, Program, Loop
    <3> QED
      BY <2>1, <3>1, <1>a DEF Typed, LoopTyped
  <2>3. \A n \in StreamId : down[n] = << >> /\ link[n] # "open"
    BY <1>0, <2>1 DEF Streams, Linked, Connected
  <2>4. stream <= trouble
    BY <1>0, <1>b, <2>1, <2>3 DEF Streams, Counted
  <2>5. Linked'
    <3>1. link'[stream'] = "open" /\ \A n \in StreamId \ {stream'} : link'[n] = link[n]
      BY <1>b, <2>1, <2>2
    <3>2. ASSUME NEW n \in StreamId, n > stream' PROVE link'[n] = "unused"
      <4>1. n > stream /\ n # stream'
        BY <3>2, <1>a, <2>1, <2>2
      <4> QED
        BY <1>0, <3>1, <4>1 DEF Streams, Linked
    <3> QED
      BY <2>1, <2>2, <2>3, <3>1, <3>2 DEF Linked, Connected
  <2>6. Counted'
    <3>1. link'[stream'] = "open"
      BY <1>b, <2>1, <2>2
    <3> QED
      BY <1>a, <2>1, <2>2, <2>4, <3>1 DEF Counted
  <2>7. Heeded'
    <3>1. stream' \notin acking /\ \A n \in acking : n <= stream'
      BY <1>0, <1>a, <1>b, <2>1 DEF Streams, Heeded
    <3>2. ~\E n \in StreamId : RegisterAck \in Elements(down'[n])
      BY <2>1, <2>3, ElementsShort
    <3>3. stage' \notin Registered
      BY <2>1 DEF Registered
    <3>4. newest' <= stream' /\ session' <= stream'
      BY <1>0, <1>a, <2>1 DEF Streams, Heeded
    <3> QED
      BY <2>1, <3>1, <3>2, <3>3, <3>4 DEF Heeded
  <2> QED
    BY <2>5, <2>6, <2>7 DEF Ordering
<1>5. CASE AwaitAck
  <2>1. /\ stage = "ack" /\ down[stream] # << >>
        /\ stage' = IF Head(down[stream]) = RegisterAck THEN "report" ELSE "ack"
        /\ down' = [down EXCEPT ![stream] = Tail(@)]
        /\ UNCHANGED <<stream, link, masterVars, trouble, newest>>
    BY <1>5 DEF AwaitAck
  <2>2. stream \in StreamId
    BY <1>0, <2>1, HasStream
  <2>3. /\ Head(down[stream]) \in Elements(down[stream])
        /\ \A k \in StreamId : /\ Elements(down[k]') \subseteq Elements(down[k])
                               /\ down[k]' # << >> => down[k] # << >>
    BY <1>0, <2>1, <2>2, DownTaken
  <2>4. stage \notin {"boot", "down"} /\ stage' \notin {"boot", "down"}
    BY <2>1
  <2>5. Linked'
    BY <1>0, <2>1, <2>3, <2>4 DEF Streams, Linked, Connected
  <2>6. Counted'
    BY <1>0, <2>1 DEF Streams, Counted
  <2>7. Heeded'
    <3>1. stage' \in Registered => RegisterAck \in Elements(down[stream])
      BY <2>1, <2>3 DEF Registered
    <3>2. (\E n \in StreamId : RegisterAck \in Elements(down'[n])) =>
            \E n \in StreamId : RegisterAck \in Elements(down[n])
      BY <2>3
    <3>3. stage' \in Registered \/ stream' \in acking' \/ (\E n \in StreamId : RegisterAck \in Elements(down'[n]))
            => newest' = stream'
      BY <1>0, <2>1, <2>2, <3>1, <3>2 DEF Streams, Heeded
    <3> QED
      BY <1>0, <2>1, <3>3 DEF Streams, Heeded
  <2> QED
    BY <2>5, <2>6, <2>7 DEF Ordering
<1>6. CASE Pushing
  <2>1. /\ Connected /\ UNCHANGED <<link, stream>>
        /\ UNCHANGED <<hostVars, masterVars, trouble, newest, late, raced>>
        /\ \/ UNCHANGED down /\ stage \in Registered /\ stage' \in Registered
           \/ ~Open /\ stage' = "down" /\ down' = [down EXCEPT ![stream] = << >>]
    BY <1>6, PushingIs
  <2>2. CASE UNCHANGED down /\ stage \in Registered /\ stage' \in Registered
    <3>1. Connected'
      BY <2>2 DEF Registered, Connected
    <3> QED
      BY <1>0, <2>1, <2>2, <3>1 DEF Ordering, Streams, Linked, Counted, Heeded
  <2>3. CASE ~Open /\ stage' = "down" /\ down' = [down EXCEPT ![stream] = << >>]
    <3>1. stream \in StreamId
      BY <1>0, <2>1, HasStream DEF Connected
    <3>2. \A k \in StreamId : /\ Elements(down[k]') \subseteq Elements(down[k])
                              /\ down[k]' # << >> => down[k] # << >> /\ k # stream
      BY <1>0, <2>3, <3>1, DownEmptied
    <3>3. \A n \in StreamId : link[n] # "open" /\ down[n]' = << >>
      BY <1>0, <2>3, <3>2 DEF Streams, Linked, Open
    <3>4. Linked'
      BY <1>0, <2>1, <2>3, <3>3 DEF Streams, Linked, Connected
    <3>5. Counted'
      BY <1>0, <2>1 DEF Streams, Counted
    <3>6. ~\E n \in StreamId : RegisterAck \in Elements(down'[n])
      BY <3>3, ElementsShort
    <3>7. stage' \notin Registered
      BY <2>3 DEF Registered
    <3>8. Heeded'
      BY <1>0, <2>1, <3>6, <3>7 DEF Streams, Heeded
    <3> QED
      BY <3>4, <3>5, <3>8 DEF Ordering
  <2> QED
    BY <2>1, <2>2, <2>3
<1>7. CASE Receive
  <2>1. /\ stage = "up" /\ down[stream] # << >>
        /\ down' = [down EXCEPT ![stream] = Tail(@)]
        /\ UNCHANGED <<stage, stream, link, masterVars, trouble, newest>>
    BY <1>7 DEF Receive
  <2>2. stream \in StreamId
    BY <1>0, <2>1, HasStream
  <2>3. /\ Head(down[stream]) \in Elements(down[stream])
        /\ \A k \in StreamId : /\ Elements(down[k]') \subseteq Elements(down[k])
                               /\ down[k]' # << >> => down[k] # << >>
    BY <1>0, <2>1, <2>2, DownTaken
  <2>4. Linked'
    BY <1>0, <2>1, <2>3 DEF Streams, Linked, Connected
  <2>5. Counted'
    BY <1>0, <2>1 DEF Streams, Counted
  <2>6. Heeded'
    BY <1>0, <2>1, <2>3 DEF Streams, Heeded
  <2> QED
    BY <2>4, <2>5, <2>6 DEF Ordering
<1>8. CASE Booted \/ AbandonReplay
  <2>1. stage = "boot" /\ stage' = "down" /\ UNCHANGED <<stream, link, down, masterVars, trouble, newest>>
    BY <1>8 DEF Booted, AbandonReplay
  <2>2. ~Connected /\ ~Connected' /\ stage' \notin Registered
    BY <2>1 DEF Connected, Registered
  <2> QED
    BY <1>0, <2>1, <2>2 DEF Ordering, Streams, Linked, Counted, Heeded
<1>9. ASSUME NEW i \in Instance, ReplayEntry(i) \/ SkipEntry(i) PROVE Ordering'
  <2>1. UNCHANGED <<stage, stream, link, down, session, acking, newest>>
    BY <1>9 DEF ReplayEntry, SkipEntry
  <2>2. trouble' = trouble \/ trouble' = trouble + 1
    BY <1>9 DEF ReplayEntry, SkipEntry, Unlink
  <2> QED
    BY <1>u, <2>1, <2>2 DEF Connected
<1>10. ASSUME NEW n \in StreamId, Intake(n) PROVE Ordering'
  <2>1. /\ link[n] \in {"open", "broken"}
        /\ session' \in {session, n} /\ acking' \in {acking, acking \cup {n}}
        /\ newest' \in {newest, n}
        /\ UNCHANGED <<stage, stream, link, down, trouble>>
        /\ newest' >= newest
        /\ acking' # acking => newest' >= n
    BY <1>10, <1>a DEF Intake
  <2>2. n <= stream
    BY <1>0, <1>a, <2>1 DEF Streams, Linked
  <2>3. Linked' /\ Counted'
    BY <1>0, <2>1 DEF Streams, Linked, Counted, Connected
  <2>4. newest' <= stream /\ session' <= stream /\ \A k \in acking' : k <= stream
    BY <1>0, <1>a, <1>b, <2>1, <2>2 DEF Streams, Heeded
  <2>5. newest = stream => newest' = stream
    BY <1>a, <2>1, <2>4
  <2>6. stream \in acking' => stream \in acking \/ newest' = stream
    <3>1. CASE stream \notin acking /\ stream \in acking'
      <4>1. n = stream /\ acking' # acking
        BY <3>1, <2>1
      <4> QED
        BY <4>1, <1>a, <2>1, <2>4
    <3> QED
      BY <3>1
  <2>7. Heeded'
    BY <1>0, <2>1, <2>4, <2>5, <2>6 DEF Streams, Heeded
  <2> QED
    BY <2>3, <2>7 DEF Ordering
<1>11. ASSUME NEW n \in StreamId, Acknowledge(n) PROVE Ordering'
  <2>1. /\ n \in acking /\ acking' = acking \ {n} /\ Pass(n, RegisterAck)
        /\ UNCHANGED <<loopVars, link, session, trouble, newest>>
    BY <1>11 DEF Acknowledge
  <2>2. /\ Heard(n) /\ down[n]' = Append(down[n], RegisterAck)
        /\ \A k \in StreamId \ {n} : down[k]' = down[k]
    BY <1>0, <2>1, DownPassed, FrameMakers
  <2>3. n = stream /\ Connected
    BY <2>2 DEF Heard, Connected
  <2>4. newest = stream
    BY <1>0, <2>1, <2>3 DEF Streams, Heeded
  <2>5. Linked'
    BY <1>0, <2>1, <2>2, <2>3 DEF Streams, Linked, Connected
  <2>6. Counted' /\ Heeded'
    BY <1>0, <2>1, <2>4 DEF Streams, Counted, Heeded
  <2> QED
    BY <2>5, <2>6 DEF Ordering
<1>12. ASSUME NEW n \in StreamId, Close(n) PROVE Ordering'
  <2>1. /\ link[n] = "broken" /\ link' = [link EXCEPT ![n] = "closed"]
        /\ session' = IF session = n THEN 0 ELSE session
        /\ acking' \subseteq acking
        /\ UNCHANGED <<loopVars, down, trouble, newest>>
    BY <1>12 DEF Close
  <2>2. \A k \in StreamId : /\ link'[k] = "open" <=> link[k] = "open"
                            /\ link[k] = "unused" => link'[k] = "unused"
    BY <1>b, <2>1
  <2>3. Linked'
    BY <1>0, <2>1, <2>2 DEF Streams, Linked, Connected
  <2>4. Counted'
    BY <1>0, <1>b, <2>1, <2>2 DEF Streams, Counted
  <2>5. Heeded'
    BY <1>0, <1>a, <2>1 DEF Streams, Heeded
  <2> QED
    BY <2>3, <2>4, <2>5 DEF Ordering
<1>13. CASE Crash
  <2>1. /\ trouble' = trouble + 1
        /\ stage' = "boot" /\ quarantined' = {} /\ unmarked' = {}
        /\ link' = [n \in StreamId |->
                      IF n = stream /\ link[n] = "open" THEN "broken" ELSE link[n]]
        /\ down' = [n \in StreamId |-> IF n = stream THEN << >> ELSE down[n]]
        /\ UNCHANGED <<stream, masterVars, newest>>
    BY <1>13 DEF Crash
  <2>2. \A n \in StreamId : /\ link'[n] # "open" /\ down'[n] = << >>
                            /\ link[n] = "unused" => link'[n] = "unused"
    BY <1>0, <2>1 DEF Streams, Linked
  <2>3. ~Connected' /\ stage' \notin Registered
    BY <2>1 DEF Connected, Registered
  <2>4. Linked'
    BY <1>0, <2>1, <2>2, <2>3 DEF Streams, Linked
  <2>5. Counted'
    BY <1>0, <1>a, <2>1 DEF Streams, Counted
  <2>6. stream \in acking => newest = stream
    BY <1>0 DEF Streams, Heeded
  <2>7. Heeded'
    BY <1>0, <2>1, <2>2, <2>3, <2>6, ElementsShort DEF Streams, Heeded
  <2> QED
    BY <2>4, <2>5, <2>7 DEF Ordering
<1>14. ASSUME NEW n \in StreamId, NEW c \in Command, c # RegisterAck,
              UNCHANGED down \/ Pass(n, c), trouble' \in Nat, trouble <= trouble',
              UNCHANGED <<loopVars, link, session, acking, newest>>
       PROVE  Ordering'
  <2>1. \/ down' = down
        \/ /\ Heard(n) /\ Elements(down[n]') = Elements(down[n]) \cup {c}
           /\ \A k \in StreamId \ {n} : down[k]' = down[k]
    BY <1>0, <1>14, DownPassed
  <2>2. \A k \in StreamId : /\ down[k]' # << >> => down[k] # << >> \/ (k = stream /\ Connected)
                            /\ RegisterAck \in Elements(down[k]') => RegisterAck \in Elements(down[k])
    BY <1>14, <2>1 DEF Heard, Connected
  <2>3. Linked'
    BY <1>0, <1>14, <2>2 DEF Streams, Linked, Connected
  <2>4. Counted'
    <3>1. stream' = stream /\ link'[stream'] = link[stream]
      BY <1>14
    <3>2. Counted /\ stream \in Nat /\ trouble \in Nat /\ trouble' \in Nat /\ trouble <= trouble'
      BY <1>0, <1>a, <1>14 DEF Streams
    <3>3. \A x, y, z \in Nat : x <= y /\ y <= z => x <= z
      OBVIOUS
    <3>4. \A x, y, z \in Nat : x <= y + 1 /\ y <= z => x <= z + 1
      OBVIOUS
    <3> QED
      BY <3>1, <3>2, <3>3, <3>4 DEF Counted
  <2>5. Heeded'
    BY <1>0, <1>14, <2>2 DEF Streams, Heeded
  <2> QED
    BY <2>3, <2>4, <2>5 DEF Ordering
<1>s. ASSUME NEW c, Say(session, c) PROVE UNCHANGED down \/ Pass(session, c)
  BY <1>s DEF Say
<1>15. CASE Relay
  <2>1. /\ session # 0 /\ Say(session, ClearTaint)
        /\ UNCHANGED <<loopVars, link, session, acking, newest>> /\ trouble' = trouble + 1
    BY <1>15 DEF Relay
  <2>2. session \in StreamId
    BY <1>0, <2>1 DEF Typed, MasterTyped
  <2> QED
    BY <1>14, <1>s, <1>a, <2>1, <2>2, FrameMakers, CommandsDiffer
<1>16. ASSUME NEW i \in Instance, Order(i) PROVE Ordering'
  <2>1. /\ session # 0 /\ Say(session, RunFault(i))
        /\ UNCHANGED <<loopVars, link, session, acking, newest>> /\ trouble' = trouble
    BY <1>16 DEF Order
  <2>2. session \in StreamId
    BY <1>0, <2>1 DEF Typed, MasterTyped
  <2> QED
    BY <1>14, <1>s, <1>a, <2>1, <2>2, FrameMakers, CommandsDiffer
<1>17. ASSUME NEW n \in StreamId, Break(n) PROVE Ordering'
  <2>1. /\ link[n] = "open" /\ trouble' = trouble + 1
        /\ link' = [link EXCEPT ![n] = "broken"]
        /\ UNCHANGED <<loopVars, down, masterVars, newest>>
    BY <1>17 DEF Break
  <2>2. \A k \in StreamId : /\ link'[k] = "open" => link[k] = "open"
                            /\ link[k] = "unused" => link'[k] = "unused"
    BY <1>b, <2>1
  <2>3. Linked'
    BY <1>0, <2>1, <2>2 DEF Streams, Linked, Connected
  <2>4. Counted'
    BY <1>0, <1>a, <2>1 DEF Streams, Counted
  <2>5. Heeded'
    BY <1>0, <2>1 DEF Streams, Heeded
  <2> QED
    BY <2>3, <2>4, <2>5 DEF Ordering
<1>18. CASE UNCHANGED vars
  BY <1>0, <1>18 DEF vars, Ordering, Streams, Linked, Counted, Heeded, Connected
<1>19. CASE Aside
  <2>1. /\ UNCHANGED <<loopVars, link, session, acking, newest>>
        /\ trouble' \in Nat /\ trouble <= trouble'
        /\ UNCHANGED down \/ \E n \in StreamId, c \in Idle : Pass(n, c)
    BY <1>0, <1>19, AsideIs, StreamFacts
  <2>2. \A c \in Idle : c \in Command /\ c # RegisterAck
    BY IdleIs
  <2>3. CASE UNCHANGED down
    <3>1. 1 \in StreamId
      BY StreamFacts
    <3>2. HeartbeatAck \in Idle
      BY DEF Idle
    <3> QED
      BY <1>14, <2>1, <2>2, <2>3, <3>1, <3>2
  <2>4. ASSUME NEW n \in StreamId, NEW c \in Idle, Pass(n, c) PROVE Ordering'
    BY <1>14, <2>1, <2>2, <2>4
  <2> QED
    BY <2>1, <2>3, <2>4
<1>20. CASE Taking
  <2>1. /\ stage = "up" /\ stage' \in {"carry", "beat"}
        /\ UNCHANGED <<stream, link, down, session, acking, newest>>
        /\ trouble' = trouble \/ trouble' = trouble + 1
    BY <1>20, TakingIs
  <2>2. Connected /\ Connected' /\ stage \in Registered /\ stage' \in Registered
    BY <2>1 DEF Connected, Registered
  <2> QED
    BY <1>u, <2>1, <2>2
<1> QED
  BY <1>1, <1>2, <1>3, <1>4, <1>5, <1>6, <1>7, <1>8, <1>9,
     <1>10, <1>11, <1>12, <1>13, <1>15, <1>16, <1>17, <1>18, <1>19, <1>20
  DEF Next, Program, Environment, Task, Loop, Boot, Master, Pushing, Aside, Taking

(* Frames are put into the newest stream only.                              *)
LEMMA PushingWires ==
  ASSUME Typed, Streams, Pushing
  PROVE  /\ stream \in StreamId
         /\ \A n \in StreamId \ {stream} : wire'[n] = wire[n]
<1>1. Connected
  BY PushingIs
<1>2. stream \in StreamId
  BY <1>1, HasStream DEF Connected
<1>3. \A f : Put(f) => \A n \in StreamId \ {stream} : wire'[n] = wire[n]
  BY <1>2 DEF Put, Typed, WireTyped
<1>4. \A gone : Leave(gone) => UNCHANGED wire
  BY DEF Leave
<1> QED
  BY <1>2, <1>3, <1>4
  DEF Pushing, SendReport, SendTaint, SendStartup, SendCarry, SendBeat, Notice

(* Every step keeps the streams that are not open yet empty.                *)
LEMMA UnwiredKept ==
  ASSUME LinkInv, [Next]_vars
  PROVE  Unwired'
<1> USE DEF hostVars, loopVars, wireVars, masterVars, readerVars, history
<1>0. Typed /\ Streams /\ Unwired /\ Linked
  BY DEF LinkInv, Streams
<1>a. stream \in Nat /\ (\A n \in StreamId : n \in Nat) /\ wire \in [StreamId -> Seq(Frame)]
  BY <1>0, StreamFacts DEF Typed, LoopTyped, WireTyped
<1>1. CASE UNCHANGED <<stream, wire>>
  BY <1>0, <1>1 DEF Unwired
<1>2. CASE Connect
  <2>1. stream' = stream + 1 /\ wire' = [wire EXCEPT ![stream'] = <<Register>>]
    BY <1>2 DEF Connect
  <2> QED
    BY <1>0, <1>a, <2>1 DEF Unwired
<1>3. CASE Pushing
  <2>1. stream' = stream /\ \A n \in StreamId \ {stream} : wire'[n] = wire[n]
    BY <1>0, <1>3, PushingIs, PushingWires
  <2> QED
    BY <1>0, <1>a, <2>1 DEF Unwired
<1>4. ASSUME NEW n \in StreamId, Intake(n) \/ Close(n) PROVE Unwired'
  <2>1. link[n] \in {"open", "broken"} /\ stream' = stream
        /\ \A k \in StreamId \ {n} : wire'[k] = wire[k]
    BY <1>4, <1>a DEF Intake, Close
  <2>2. ~(n > stream)
    BY <1>0, <2>1 DEF Linked
  <2> QED
    BY <1>0, <2>1, <2>2 DEF Unwired
<1>5. PerformClear \/ AwaitAck \/ Receive \/ Booted \/ AbandonReplay \/ Crash \/ Relay
        \/ UNCHANGED vars => UNCHANGED <<stream, wire>>
  BY DEF PerformClear, AwaitAck, Receive, Booted, AbandonReplay, Crash, Relay, vars
<1>6. ASSUME NEW i \in Instance,
             React(i) \/ Perform(i) \/ ReplayEntry(i) \/ SkipEntry(i) \/ Order(i)
      PROVE  UNCHANGED <<stream, wire>>
  BY <1>6 DEF React, Perform, ReplayEntry, SkipEntry, Order
<1>7. ASSUME NEW n \in StreamId, Acknowledge(n) \/ Break(n) PROVE UNCHANGED <<stream, wire>>
  BY <1>7 DEF Acknowledge, Break
<1>8. CASE Aside \/ Taking
  BY <1>0, <1>1, <1>8, AsideIs, TakingIs
<1> QED
  BY <1>1, <1>2, <1>3, <1>4, <1>5, <1>6, <1>7, <1>8
  DEF Next, Program, Environment, Task, Loop, Boot, Master, Pushing, Aside, Taking

(* Every step keeps the streams in order.                                   *)
LEMMA StreamsKept ==
  ASSUME LinkInv, [Next]_vars
  PROVE  Streams'
  BY OrderingKept, UnwiredKept DEF Streams, Ordering

-----------------------------------------------------------------------------
(***************************************************************************)
(* The agent.                                                              *)
(***************************************************************************)
(* Views are live, ended or none.                                           *)
LEMMA ViewsAre ==
  /\ View = Live \cup Terminal \cup {None}
  /\ Live \cap Terminal = {} /\ None \notin Live /\ None \notin Terminal
  /\ Answering \subseteq Live /\ "Pending" \in Live /\ "Injecting" \in Live
  /\ "Recovering" \in Live /\ {"Aborted", "Error"} \subseteq Terminal
  BY DEF View, Live, Terminal, None, Answering

(* An agent that knows an instance is past its replay.                      *)
LEMMA KnowsSome ==
  ASSUME Held, NEW i \in Instance, view[i] # None
  PROVE  stage # "boot" /\ startup = << >>
  BY DEF Held, Forgotten

(* Views, tasks and entries that do not change still fit.                   *)
LEMMA HostStays ==
  ASSUME Tasks, UNCHANGED hostVars
  PROVE  Tasks'
<1>1. ASSUME NEW i \in Instance PROVE TaskFits(i)'
  <2>1. TaskFits(i) /\ view' = view /\ todo' = todo
    BY DEF Tasks, hostVars
  <2> QED
    BY <2>1 DEF TaskFits
<1>2. ASSUME NEW i \in Instance PROVE EntryFits(i)'
  <2>1. /\ EntryFits(i) /\ view' = view /\ todo' = todo
        /\ journal' = journal /\ kept' = kept
    BY DEF Tasks, hostVars
  <2> QED
    BY <2>1 DEF EntryFits
<1> QED
  BY <1>1, <1>2 DEF Tasks

(* The other tasks do not notice what one does.                             *)
LEMMA OneTask ==
  ASSUME Tasks, NEW i \in Instance, TaskFits(i)', EntryFits(i)',
         journal' \subseteq journal \cup {i}, kept \subseteq kept' \cup {i},
         \A j \in Instance \ {i} : view'[j] = view[j] /\ todo'[j] = todo[j]
  PROVE  Tasks'
<1>1. ASSUME NEW j \in Instance \ {i} PROVE TaskFits(j)' /\ EntryFits(j)'
  <2>1. TaskFits(j) /\ EntryFits(j) /\ view'[j] = view[j] /\ todo'[j] = todo[j]
    BY DEF Tasks
  <2>2. (j \in journal' => j \in journal) /\ (j \in kept => j \in kept')
    OBVIOUS
  <2> QED
    BY <2>1, <2>2 DEF TaskFits, EntryFits
<1> QED
  BY <1>1 DEF Tasks

(* Every step keeps the tasks in line with what is shown and written.       *)
LEMMA TasksKept ==
  ASSUME LinkInv, [Next]_vars
  PROVE  Tasks'
<1> USE DEF hostVars, loopVars, wireVars, masterVars, readerVars, history
<1>0. Typed /\ Streams /\ Tasks /\ Held /\ Clearing /\ Lives
  BY DEF LinkInv, Agent
<1>a. /\ view \in [Instance -> View] /\ todo \in [Instance -> Seq(Effect)]
      /\ \A i \in Instance : view[i] \in View
  BY <1>0 DEF Typed, HostTyped
<1>1. ASSUME NEW i \in Instance, React(i) PROVE Tasks'
  <2>1. PICK m \in Steps(i) :
          /\ view' = [view EXCEPT ![i] = m.view]
          /\ todo' = [todo EXCEPT ![i] = m.effects]
          /\ journal' = IF m.view = "Injecting" THEN journal \cup {i} ELSE journal
          /\ kept' = kept
    BY <1>1 DEF React
  <2>2. /\ view[i] \in Live /\ m.view \in Live \cup Terminal
        /\ view[i] \in Answering /\ m.view \in Live => m.view \in Answering
        /\ m.view \in Live => m.effects = Telling(i, m.view)
        /\ m.view \in Terminal =>
             \/ m.effects = Telling(i, m.view) /\ view[i] \notin Answering
             \/ m.effects \in {Ending(i, m.view), Marked(i, m.view)}
    BY <1>a, StepsAre
  <2>3. view'[i] = m.view /\ todo'[i] = m.effects
        /\ \A j \in Instance \ {i} : view'[j] = view[j] /\ todo'[j] = todo[j]
    BY <1>a, <2>1
  <2>4. TaskFits(i)'
    <3>1. view'[i] # None
      BY <2>2, <2>3, ViewsAre
    <3>2. view'[i] \in Live => todo'[i] = Telling(i, view'[i])
      BY <2>2, <2>3
    <3>3. view'[i] \in Terminal =>
            todo'[i] \in {<< >>, Telling(i, view'[i])} \cup Untaints(i, view'[i])
      <4>1. \A s \in Terminal : {Ending(i, s), Marked(i, s)} \subseteq Untaints(i, s)
        BY TaskForms
      <4> QED
        BY <2>2, <2>3, <4>1
    <3> QED
      BY <3>1, <3>2, <3>3 DEF TaskFits
  <2>5. EntryFits(i)'
    <3>1. stage # "boot" /\ view[i] \notin Terminal /\ EntryFits(i)
      BY <1>0, <2>2, KnowsSome, ViewsAre DEF Tasks
    <3>2. i \in journal => i \in kept \/ view[i] \in Answering
      BY <2>2, <3>1, ViewsAre DEF EntryFits, Answering
    <3>3. i \in journal' => i \in journal \/ m.view = "Injecting"
      BY <2>1
    <3>4. ASSUME i \in journal, i \notin kept, m.view \in Terminal
          PROVE  m.effects \in Untaints(i, m.view)
      BY <2>2, <3>2, <3>4, TaskForms
    <3>5. kept' = kept
      BY <2>1
    <3> QED
      BY <2>2, <2>3, <3>2, <3>3, <3>4, <3>5 DEF EntryFits, Answering
  <2> QED
    BY <1>0, <2>1, <2>3, <2>4, <2>5, OneTask
<1>2. ASSUME NEW i \in Instance, Perform(i) PROVE Tasks'
  <2>1. /\ view[i] \in Live \cup Terminal
        /\ Said(i) \/ Removed(i) \/ MarkedNow(i) \/ ToldTaint(i)
        /\ view' = view
    BY <1>0, <1>2, <1>a, PerformIs DEF Tasks
  <2> DEFINE v == view[i]
  <2> HIDE DEF v
  <2>2. /\ Untaints(i, v) = {Ending(i, v), Marked(i, v), Tainted(i, v)}
        /\ TaskFits(i) /\ EntryFits(i) /\ view'[i] = v /\ view[i] = v
        /\ stage # "boot"
        /\ v # None /\ v \in Live \cup Terminal
        /\ v \in Live => v \notin Terminal
    <3>1. view[i] # None
      BY <2>1, ViewsAre
    <3> QED
      BY <1>0, <2>1, <3>1, TaskForms, KnowsSome, ViewsAre DEF Tasks, v
  <2>3. Telling(i, v) \notin Untaints(i, v)
    <3>1. /\ Head(Telling(i, v)) = Send(Status(i, v)) /\ Head(Ending(i, v)) = Remove
          /\ Head(Marked(i, v)) = Mark /\ Head(Tainted(i, v)) = Send(TaintStatus(TRUE))
      BY <2>2, TaskForms
    <3>2. Send(Status(i, v)) \notin {Remove, Mark, Send(TaintStatus(TRUE))}
      BY EffectsDiffer
    <3> QED
      BY <2>2, <3>1, <3>2
  <2>4. CASE Said(i)
    <3>1. /\ todo[i] = Telling(i, v) /\ todo' = [todo EXCEPT ![i] = << >>]
          /\ journal' = journal /\ kept' = kept
      BY <2>4 DEF Said, v
    <3>2. todo'[i] = << >>
      BY <1>a, <3>1
    <3>3. TaskFits(i)'
      BY <2>2, <3>2 DEF TaskFits
    <3>4. EntryFits(i)'
      BY <2>1, <2>2, <2>3, <3>1 DEF EntryFits
    <3> QED
      BY <1>0, <1>a, <2>1, <3>1, <3>3, <3>4, OneTask
  <2>5. CASE Removed(i)
    <3>1. v \in Terminal /\ todo' = [todo EXCEPT ![i] = Telling(i, v)] /\ Unlink(i)
      BY <2>5 DEF Removed, v
    <3>u. /\ journal' \subseteq journal /\ kept \subseteq kept' \cup {i}
          /\ i \in journal' => i \in kept'
      BY <1>0, <3>1, UnlinkIs DEF Typed, HostTyped, MasterTyped
    <3>2. todo'[i] = Telling(i, v) /\ v \notin Live
      BY <1>a, <3>1, ViewsAre
    <3>3. TaskFits(i)'
      BY <2>2, <3>2 DEF TaskFits
    <3>4. EntryFits(i)'
      BY <3>u DEF EntryFits
    <3> QED
      BY <1>0, <1>a, <2>1, <3>1, <3>u, <3>3, <3>4, OneTask
  <2>6. CASE MarkedNow(i)
    <3>1. /\ v \in Terminal /\ todo' = [todo EXCEPT ![i] = Tainted(i, v)]
          /\ journal' = journal /\ kept' = kept
      BY <2>6 DEF MarkedNow, v
    <3>2. todo'[i] = Tainted(i, v) /\ v \notin Live
      BY <1>a, <3>1, ViewsAre
    <3>3. TaskFits(i)'
      BY <2>2, <3>2 DEF TaskFits
    <3>4. EntryFits(i)'
      BY <2>2, <3>1, <3>2 DEF EntryFits
    <3> QED
      BY <1>0, <1>a, <2>1, <3>1, <3>3, <3>4, OneTask
  <2>7. CASE ToldTaint(i)
    <3>1. /\ v \in Terminal /\ todo' = [todo EXCEPT ![i] = Ending(i, v)]
          /\ journal' = journal /\ kept' = kept
      BY <2>7 DEF ToldTaint, v
    <3>2. todo'[i] = Ending(i, v) /\ v \notin Live
      BY <1>a, <3>1, ViewsAre
    <3>3. TaskFits(i)'
      BY <2>2, <3>2 DEF TaskFits
    <3>4. EntryFits(i)'
      BY <2>2, <3>1, <3>2 DEF EntryFits
    <3> QED
      BY <1>0, <1>a, <2>1, <3>1, <3>3, <3>4, OneTask
  <2> QED
    BY <2>1, <2>4, <2>5, <2>6, <2>7
<1>3. CASE PerformClear
  <2>1. UNCHANGED <<view, todo, journal, kept>>
    BY <1>3 DEF PerformClear
  <2> QED
    BY <1>0, <2>1 DEF Tasks, TaskFits, EntryFits
<1>4. CASE Connect
  BY <1>0, <1>4, HostStays DEF Connect
<1>5. CASE AwaitAck
  BY <1>0, <1>5, HostStays DEF AwaitAck
<1>6. CASE Pushing
  <2>1. UNCHANGED hostVars
    BY <1>6, PushingIs
  <2> QED
    BY <1>0, <2>1, HostStays
<1>7. CASE Receive
  <2> DEFINE c == Head(down[stream])
  <2>1. /\ stage = "up" /\ down[stream] # << >> /\ UNCHANGED <<journal, kept>>
        /\ down' = [down EXCEPT ![stream] = Tail(@)]
        /\ \/ /\ c.type = "RunFault"
              /\ view' = [view EXCEPT ![c.about] = "Pending"]
              /\ todo' = [todo EXCEPT ![c.about] = Telling(c.about, "Pending")]
           \/ UNCHANGED <<view, todo>>
    BY <1>7 DEF Receive
  <2>2. stream \in StreamId
    BY <1>0, <2>1, HasStream
  <2>3. c \in Command /\ c \in Elements(down[stream])
    BY <1>0, <2>1, <2>2, DownTaken
  <2> HIDE DEF c
  <2>4. CASE UNCHANGED <<view, todo>>
    BY <1>0, <2>1, <2>4 DEF Tasks, TaskFits, EntryFits
  <2>5. CASE /\ c.type = "RunFault"
             /\ view' = [view EXCEPT ![c.about] = "Pending"]
             /\ todo' = [todo EXCEPT ![c.about] = Telling(c.about, "Pending")]
    <3>1. PICK i \in Instance : c = RunFault(i)
      BY <2>3, <2>5, CommandKinds, IdleIs, FrameFields
    <3>2. c.about = i
      BY <3>1, FrameFields
    <3>3. i \notin journal
      BY <1>0, <2>2, <2>3, <3>1 DEF Lives, OrderedOnce, Ordered
    <3>4. /\ view'[i] = "Pending" /\ todo'[i] = Telling(i, "Pending")
          /\ \A j \in Instance \ {i} : view'[j] = view[j] /\ todo'[j] = todo[j]
      BY <1>a, <2>5, <3>2
    <3>5. TaskFits(i)'
      BY <3>4, ViewsAre DEF TaskFits
    <3>6. EntryFits(i)'
      BY <2>1, <3>3 DEF EntryFits
    <3> QED
      BY <1>0, <2>1, <3>4, <3>5, <3>6, OneTask
  <2> QED
    BY <2>1, <2>4, <2>5
<1>8. CASE Booted \/ AbandonReplay
  <2>1. UNCHANGED <<view, todo, journal, kept>>
    BY <1>8 DEF Booted, AbandonReplay
  <2> QED
    BY <1>0, <2>1 DEF Tasks, TaskFits, EntryFits
<1>9. ASSUME NEW i \in Instance, ReplayEntry(i) \/ SkipEntry(i) PROVE Tasks'
  <2>1. stage = "boot" /\ UNCHANGED <<view, todo>>
    BY <1>9 DEF ReplayEntry, SkipEntry
  <2>2. \A j \in Instance : view[j] = None
    BY <1>0, <2>1 DEF Held, Forgotten
  <2> QED
    BY <1>0, <2>1, <2>2 DEF Tasks, TaskFits, EntryFits
<1>10. CASE Crash
  <2>1. /\ stage' = "boot" /\ \A i \in Instance : view'[i] = None /\ todo'[i] = << >>
    BY <1>10 DEF Crash
  <2> QED
    BY <2>1, ViewsAre DEF Tasks, TaskFits, EntryFits
<1>11. CASE UNCHANGED hostVars
  BY <1>0, <1>11, HostStays
<1>12. ASSUME NEW n \in StreamId, Intake(n) \/ Acknowledge(n) \/ Close(n) \/ Break(n)
       PROVE  UNCHANGED hostVars
  BY <1>12 DEF Intake, Acknowledge, Close, Break
<1>13. ASSUME NEW i \in Instance, Order(i) PROVE UNCHANGED hostVars
  BY <1>13 DEF Order
<1>14. Relay \/ UNCHANGED vars => UNCHANGED hostVars
  BY DEF Relay, vars
<1>15. Aside \/ Taking => UNCHANGED hostVars
  BY <1>0, AsideIs, TakingIs
<1> QED
  BY <1>1, <1>2, <1>3, <1>4, <1>5, <1>6, <1>7, <1>8, <1>9, <1>10, <1>11, <1>12, <1>13, <1>14,
     <1>15
  DEF Next, Program, Environment, Task, Loop, Boot, Master, Pushing, Aside, Taking

(* Every step keeps what the loop holds in line with its stage.             *)
LEMMA HeldKept ==
  ASSUME LinkInv, [Next]_vars
  PROVE  Held'
<1> USE DEF hostVars, loopVars, wireVars, masterVars, readerVars, history
<1>0. Typed /\ Streams /\ Tasks /\ Held /\ Clearing /\ Lives
  BY DEF LinkInv, Agent
<1>a. \A i \in Instance : view[i] \in View /\ TaskFits(i)
  BY <1>0 DEF Typed, HostTyped, Tasks
<1>1. ASSUME NEW i \in Instance, React(i) PROVE Held'
  <2>1. UNCHANGED <<startup, stage, out, carry, entries>> /\ \E m \in Steps(i) : TRUE
    BY <1>1 DEF React
  <2>2. view[i] # None
    BY <1>a, <2>1, StepsAre, ViewsAre
  <2> QED
    BY <1>0, <2>1, <2>2, KnowsSome DEF Held
<1>2. ASSUME NEW i \in Instance, Perform(i) PROVE Held'
  <2>1. view[i] \in Live \cup Terminal /\ UNCHANGED <<startup, stage, carry, entries>>
    BY <1>2, <1>a, PerformIs
  <2>2. view[i] # None
    BY <2>1, ViewsAre
  <2> QED
    BY <1>0, <2>1, <2>2, KnowsSome DEF Held
<1>3. CASE PerformClear
  <2>1. clearing # << >> /\ UNCHANGED <<startup, stage, carry, entries>>
    BY <1>3 DEF PerformClear
  <2>2. stage # "boot" /\ startup = << >>
    BY <1>0, <2>1 DEF Held, Forgotten
  <2> QED
    BY <1>0, <2>1, <2>2 DEF Held
<1>4. CASE Connect
  BY <1>0, <1>4 DEF Connect, Held, Forgotten
<1>5. CASE AwaitAck
  <2>1. /\ stage = "ack" /\ stage' \in {"ack", "report"}
        /\ UNCHANGED <<view, clearing, startup, carry, entries>>
    BY <1>5 DEF AwaitAck
  <2> QED
    BY <1>0, <2>1 DEF Held, Forgotten
<1>6. CASE SendReport
  <2>1. /\ stage = "report" /\ stage' \in {"taint", "down"}
        /\ UNCHANGED <<view, clearing, startup, entries>>
    BY <1>6 DEF SendReport, Leave
  <2> QED
    BY <1>0, <2>1 DEF Held, Forgotten
<1>7. CASE SendTaint
  <2>1. /\ UNCHANGED <<view, clearing, startup, entries>> /\ stage = "taint"
        /\ \/ stage' = NextStage(startup, carry) /\ carry' = carry
           \/ stage' = "down"
    BY <1>7 DEF SendTaint, Leave
  <2> QED
    BY <1>0, <2>1, NextStageIs DEF Held, Forgotten
<1>8. CASE SendStartup
  <2>1. /\ UNCHANGED <<view, clearing, carry, entries>> /\ stage = "startup"
        /\ \/ stage' = NextStage(Tail(startup), carry) /\ startup' = Tail(startup)
           \/ stage' = "down" /\ startup' = startup
    BY <1>8 DEF SendStartup, Leave
  <2>2. Forgotten
    BY <1>0, <2>1 DEF Held
  <2> QED
    BY <1>0, <2>1, <2>2, NextStageIs DEF Held, Forgotten
<1>9. CASE SendCarry
  <2>1. /\ UNCHANGED <<view, clearing, startup, entries>> /\ stage = "carry"
        /\ (stage' = "up" /\ carry' = << >>) \/ stage' = "down"
    BY <1>9 DEF SendCarry, Leave
  <2> QED
    BY <1>0, <2>1 DEF Held, Forgotten
<1>10. CASE SendBeat
  <2>1. /\ UNCHANGED <<view, clearing, startup, carry, entries>> /\ stage = "beat"
        /\ stage' \in {"up", "down"}
    BY <1>10 DEF SendBeat, Leave
  <2> QED
    BY <1>0, <2>1 DEF Held, Forgotten
<1>11. CASE Notice
  <2>1. stage # "boot" /\ stage' = "down" /\ UNCHANGED <<view, clearing, startup, entries>>
    BY <1>11 DEF Notice, Leave
  <2> QED
    BY <1>0, <2>1 DEF Held, Forgotten
<1>12. CASE Receive
  <2>1. stage = "up" /\ UNCHANGED <<stage, startup, out, carry, entries>>
    BY <1>12 DEF Receive
  <2> QED
    BY <1>0, <2>1 DEF Held
<1>13. CASE Booted \/ AbandonReplay
  <2>1. /\ stage = "boot" /\ stage' = "down" /\ entries' = {} /\ UNCHANGED <<view, clearing>>
        /\ startup' \in {startup, << >>}
    BY <1>13 DEF Booted, AbandonReplay
  <2> QED
    BY <1>0, <2>1 DEF Held, Forgotten
<1>14. ASSUME NEW i \in Instance, ReplayEntry(i) \/ SkipEntry(i) PROVE Held'
  <2>1. /\ stage = "boot" /\ UNCHANGED <<stage, view, clearing, out, carry>>
        /\ entries' = entries \ {i} /\ journal \subseteq journal' \cup {i}
    BY <1>14 DEF ReplayEntry, SkipEntry, Unlink
  <2> QED
    BY <1>0, <2>1 DEF Held, Forgotten
<1>15. CASE Crash
  <2>1. /\ stage' = "boot" /\ clearing' = << >> /\ out' = << >> /\ carry' = << >>
        /\ startup' = << >> /\ entries' = journal /\ journal' = journal
        /\ \A i \in Instance : view'[i] = None
    BY <1>15 DEF Crash
  <2> QED
    BY <2>1 DEF Held, Forgotten
<1>16. CASE UNCHANGED <<hostVars, stage, startup, carry, out>>
  BY <1>0, <1>16 DEF Held, Forgotten
<1>17. ASSUME NEW n \in StreamId, Intake(n) \/ Acknowledge(n) \/ Close(n) \/ Break(n)
       PROVE  UNCHANGED <<hostVars, stage, startup, carry, out>>
  BY <1>17 DEF Intake, Acknowledge, Close, Break
<1>18. ASSUME NEW i \in Instance, Order(i)
       PROVE  UNCHANGED <<hostVars, stage, startup, carry, out>>
  BY <1>18 DEF Order
<1>20. CASE Taking
  <2>1. /\ stage = "up" /\ UNCHANGED <<view, clearing, startup, entries>>
        /\ (stage' = "carry" /\ carry' # << >>) \/ (stage' = "beat" /\ carry' = carry)
    <3>1. \A x : <<x>> # << >>
      OBVIOUS
    <3> QED
      BY <1>20, <3>1, TakingIs
  <2> QED
    BY <1>0, <2>1 DEF Held, Forgotten
<1>21. CASE Aside
  BY <1>0, <1>16, <1>21, AsideIs
<1>19. Relay \/ UNCHANGED vars => UNCHANGED <<hostVars, stage, startup, carry, out>>
  BY DEF Relay, vars
<1> QED
  BY <1>1, <1>2, <1>3, <1>4, <1>5, <1>6, <1>7, <1>8, <1>9, <1>10, <1>11, <1>12, <1>13, <1>14,
     <1>15, <1>16, <1>17, <1>18, <1>19, <1>20, <1>21
  DEF Next, Program, Environment, Task, Loop, Boot, Master, Aside, Taking

-----------------------------------------------------------------------------
(***************************************************************************)
(* ClearTaint.                                                             *)
(***************************************************************************)
(* A command that is not ClearTaint does not disturb the one that is.       *)
LEMMA ClearingStays ==
  ASSUME Typed, Clearing, clearing' \in {clearing, << >>}, cleared' = cleared,
         \A n \in StreamId :
           \/ down'[n] = down[n] \/ down'[n] = << >>
           \/ down[n] # << >> /\ down'[n] = Tail(down[n])
           \/ \E c \in Command \ {ClearTaint} : down'[n] = Append(down[n], c)
  PROVE  Clearing'
<1>1. ASSUME NEW n \in StreamId
      PROVE  /\ Once(down'[n], ClearTaint)
             /\ ClearTaint \in Elements(down'[n]) => ClearTaint \in Elements(down[n])
  <2>1. down[n] \in Seq(Command) /\ ClearTaint \in Command /\ Once(down[n], ClearTaint)
    BY FrameMakers DEF Typed, WireTyped, Clearing
  <2>2. CASE down'[n] = down[n]
    BY <2>1, <2>2
  <2>3. CASE down'[n] = << >>
    BY <2>1, <2>3, OnceOf, ElementsShort
  <2>4. CASE down[n] # << >> /\ down'[n] = Tail(down[n])
    BY <2>1, <2>4, OnceOf, ElementsOf
  <2>5. ASSUME NEW c \in Command \ {ClearTaint}, down'[n] = Append(down[n], c)
        PROVE  /\ Once(down'[n], ClearTaint)
               /\ ClearTaint \in Elements(down'[n]) => ClearTaint \in Elements(down[n])
    BY <2>1, <2>5, OnceOf, ElementsOf
  <2> QED
    BY <2>2, <2>3, <2>4, <2>5
<1>2. clearing = << >> => clearing' = << >>
  OBVIOUS
<1> QED
  BY <1>1, <1>2 DEF Clearing

(* Every step keeps the one ClearTaint where it is.                         *)
LEMMA ClearingKept ==
  ASSUME LinkInv, [Next]_vars
  PROVE  Clearing'
<1> USE DEF hostVars, loopVars, wireVars, masterVars, readerVars, history
<1>0. Typed /\ Streams /\ Clearing
  BY DEF LinkInv
<1>a. down \in [StreamId -> Seq(Command)] /\ ClearTaint \in Command
  BY <1>0, FrameMakers DEF Typed, WireTyped
<1>1. CASE UNCHANGED <<clearing, cleared, down>>
  BY <1>0, <1>1, ClearingStays
<1>2. ASSUME NEW i \in Instance, React(i) \/ Perform(i) \/ ReplayEntry(i) \/ SkipEntry(i)
      PROVE  UNCHANGED <<clearing, cleared, down>>
  BY <1>2 DEF React, Perform, ReplayEntry, SkipEntry
<1>3. CASE PerformClear
  <2>1. Cleared \/ ReadBack \/ ToldClear
    BY <1>0, <1>3, PerformClearIs
  <2>2. /\ clearing # << >> /\ UNCHANGED <<cleared, down>>
    BY <1>3 DEF PerformClear
  <2>3. taint \in BOOLEAN
    BY <1>0 DEF Typed, HostTyped
  <2>4. clearing' \in {<< >>, <<Clear>>, <<Read>>} \cup {<<Send(TaintStatus(b))>> : b \in BOOLEAN}
    BY <2>1, <2>3 DEF Cleared, ReadBack, ToldClear
  <2> QED
    BY <1>0, <2>2, <2>4 DEF Clearing
<1>4. CASE Connect \/ Booted \/ AbandonReplay \/ UNCHANGED vars \/ Taking
  <2>1. UNCHANGED <<clearing, cleared, down>>
    BY <1>4, TakingIs DEF Connect, Booted, AbandonReplay, vars
  <2> QED
    BY <1>1, <2>1
<1>5. CASE AwaitAck
  <2>1. /\ stage = "ack" /\ down[stream] # << >>
        /\ down' = [down EXCEPT ![stream] = Tail(@)] /\ UNCHANGED <<clearing, cleared>>
    BY <1>5 DEF AwaitAck
  <2>2. stream \in StreamId
    BY <1>0, <2>1, HasStream
  <2>3. down'[stream] = Tail(down[stream]) /\ \A n \in StreamId \ {stream} : down'[n] = down[n]
    BY <1>a, <2>1, <2>2
  <2> QED
    BY <1>0, <2>1, <2>3, ClearingStays
<1>6. CASE Pushing
  <2>1. /\ Connected /\ UNCHANGED <<clearing, cleared>>
        /\ UNCHANGED down \/ down' = [down EXCEPT ![stream] = << >>]
    BY <1>6, PushingIs
  <2>2. stream \in StreamId
    BY <1>0, <2>1, HasStream DEF Connected
  <2>3. \A n \in StreamId : down'[n] = down[n] \/ down'[n] = << >>
    BY <1>a, <2>1, <2>2
  <2> QED
    BY <1>0, <2>1, <2>3, ClearingStays
<1>7. CASE Receive
  <2> DEFINE c == Head(down[stream])
  <2>1. /\ stage = "up" /\ down[stream] # << >> /\ cleared' = cleared
        /\ down' = [down EXCEPT ![stream] = Tail(@)]
        /\ clearing' = clearing \/ (c.type = "ClearTaint" /\ clearing' = <<Clear>>)
    BY <1>7 DEF Receive
  <2>2. stream \in StreamId
    BY <1>0, <2>1, HasStream
  <2>3. down'[stream] = Tail(down[stream]) /\ \A n \in StreamId \ {stream} : down'[n] = down[n]
    BY <1>a, <2>1, <2>2
  <2>4. CASE clearing' = clearing
    BY <1>0, <2>1, <2>3, <2>4, ClearingStays
  <2>5. CASE c.type = "ClearTaint" /\ clearing' = <<Clear>>
    <3>1. c \in Command /\ c \in Elements(down[stream])
      BY <1>0, <2>1, <2>2, DownTaken
    <3>2. c = ClearTaint
      BY <2>5, <3>1, CommandKinds, IdleIs, FrameFields
    <3>3. /\ Once(down[stream], ClearTaint) /\ cleared /\ clearing = << >>
      BY <1>0, <2>2, <3>1, <3>2 DEF Clearing
    <3>4. Once(down'[stream], ClearTaint) /\ ClearTaint \notin Elements(down'[stream])
      BY <1>a, <2>1, <2>2, <2>3, <3>2, <3>3, OnceOf
    <3>5. \A n \in StreamId \ {stream} : down'[n] = << >>
      BY <1>0, <2>3 DEF Streams, Linked
    <3>6. \A n \in StreamId : Once(down'[n], ClearTaint) /\ ClearTaint \notin Elements(down'[n])
      BY <1>a, <3>4, <3>5, OnceOf, ElementsShort, FrameSequences
    <3> QED
      BY <2>1, <2>5, <3>3, <3>6 DEF Clearing
  <2> QED
    BY <2>1, <2>4, <2>5
<1>8. ASSUME NEW n \in StreamId, Intake(n) \/ Close(n) \/ Break(n)
      PROVE  UNCHANGED <<clearing, cleared, down>>
  BY <1>8 DEF Intake, Close, Break
<1>9. ASSUME NEW c \in Command \ {ClearTaint}, NEW n \in StreamId,
             UNCHANGED down \/ Pass(n, c), UNCHANGED <<clearing, cleared>>
      PROVE  Clearing'
  <2>1. /\ \A k \in StreamId \ {n} : down'[k] = down[k]
        /\ down'[n] = Append(down[n], c) \/ down' = down
    BY <1>0, <1>9, DownPassed
  <2> QED
    BY <1>0, <1>9, <2>1, ClearingStays
<1>10. ASSUME NEW n \in StreamId, Acknowledge(n) PROVE Clearing'
  BY <1>9, <1>10, FrameMakers, CommandsDiffer DEF Acknowledge
<1>14. CASE Aside
  <2>1. /\ UNCHANGED <<clearing, cleared>>
        /\ UNCHANGED down \/ \E n \in StreamId, c \in Idle : Pass(n, c)
    BY <1>0, <1>14, AsideIs
  <2>2. \A c \in Idle : c \in Command \ {ClearTaint}
    BY IdleIs
  <2> QED
    BY <1>1, <1>9, <2>1, <2>2
<1>11. CASE Crash
  <2>1. /\ clearing' = << >> /\ cleared' = cleared
        /\ \A n \in StreamId : down'[n] \in {<< >>, down[n]}
    BY <1>11 DEF Crash
  <2> QED
    BY <1>0, <2>1, ClearingStays
<1>12. CASE Relay
  <2>1. session # 0 /\ ~cleared /\ cleared' = TRUE /\ Say(session, ClearTaint) /\ clearing' = clearing
    BY <1>12 DEF Relay
  <2>2. session \in StreamId
    BY <1>0, <2>1 DEF Typed, MasterTyped
  <2>3. /\ clearing = << >>
        /\ \A n \in StreamId : Once(down[n], ClearTaint) /\ ClearTaint \notin Elements(down[n])
    BY <1>0, <2>1 DEF Clearing
  <2>4. /\ \A k \in StreamId \ {session} : down'[k] = down[k]
        /\ down'[session] = Append(down[session], ClearTaint) \/ down' = down
    BY <1>0, <1>a, <2>1, <2>2, DownSaid
  <2>5. \A n \in StreamId : Once(down'[n], ClearTaint)
    <3>1. Once(Append(down[session], ClearTaint), ClearTaint)
      BY <1>a, <2>2, <2>3, OnceOf
    <3> QED
      BY <2>3, <2>4, <3>1
  <2> QED
    BY <2>1, <2>3, <2>5 DEF Clearing
<1>13. ASSUME NEW i \in Instance, Order(i) PROVE Clearing'
  <2>1. /\ session # 0 /\ UNCHANGED <<clearing, cleared>>
        /\ UNCHANGED down \/ Pass(session, RunFault(i))
    BY <1>13 DEF Order, Say
  <2>2. session \in StreamId
    BY <1>0, <2>1 DEF Typed, MasterTyped
  <2> QED
    BY <1>9, <2>1, <2>2, FrameMakers, CommandsDiffer
<1> QED
  BY <1>1, <1>2, <1>3, <1>4, <1>5, <1>6, <1>7, <1>8, <1>10, <1>11, <1>12, <1>13,
     <1>14
  DEF Next, Program, Environment, Task, Loop, Boot, Master, Pushing, Aside, Taking

-----------------------------------------------------------------------------
(***************************************************************************)
(* Orders and ends.                                                        *)
(***************************************************************************)
OnWire(i) == \E n \in StreamId : i \in Ends(wire[n])

(* The ends on their way when a frame is put into the stream, or lost.      *)
LEMMA PutEnds ==
  ASSUME Typed, stream \in StreamId, NEW f \in Frame, Put(f)
  PROVE  /\ lost \subseteq lost'
         /\ \A i : /\ OnWire(i)' => OnWire(i) \/ i \in Ends(<<f>>)
                   /\ OnWire(i) => OnWire(i)'
                   /\ i \in Ends(<<f>>) => OnWire(i)' \/ i \in lost'
<1>1. wire \in [StreamId -> Seq(Frame)]
  BY DEF Typed, WireTyped
<1>2. CASE wire' = [wire EXCEPT ![stream] = Append(@, f)] /\ UNCHANGED lost
  <2>1. /\ Ends(wire'[stream]) = Ends(wire[stream]) \cup Ends(<<f>>)
        /\ \A n \in StreamId \ {stream} : wire'[n] = wire[n]
    <3>1. wire[stream] \in Seq(Frame) /\ wire'[stream] = Append(wire[stream], f)
      BY <1>1, <1>2
    <3> QED
      BY <1>1, <1>2, <3>1, EndsOf
  <2> QED
    BY <1>2, <2>1 DEF OnWire
<1>3. CASE lost' = lost \cup Ends(<<f>>) /\ UNCHANGED wire
  BY <1>3 DEF OnWire
<1> QED
  BY <1>2, <1>3 DEF Put

(* The orders on their way when the stream is left.                         *)
LEMMA LeaveOrders ==
  ASSUME Typed, stream \in StreamId, NEW gone, Leave(gone)
  PROVE  /\ lost \subseteq lost' /\ gone \subseteq lost' /\ UNCHANGED wire
         /\ \A n \in StreamId : down'[n] \in {down[n], << >>}
         /\ \A i \in Instance : /\ Ordered(i)' => Ordered(i)
                                /\ Ordered(i) => Ordered(i)' \/ i \in lost'
<1>1. /\ down' = [down EXCEPT ![stream] = << >>] /\ UNCHANGED wire
      /\ lost' = lost \cup Orders(down[stream]) \cup gone
  BY DEF Leave
<1>2. down \in [StreamId -> Seq(Command)]
  BY DEF Typed, WireTyped
<1>3. down'[stream] = << >> /\ \A n \in StreamId \ {stream} : down'[n] = down[n]
  BY <1>1, <1>2
<1>4. \A i \in Instance : RunFault(i) \in Elements(down[stream]) => i \in lost'
  BY <1>1, <1>2, OrdersIs
<1> QED
  BY <1>1, <1>3, <1>4, ElementsShort DEF Ordered

(* What pushing frames does to orders and ends: some are lost, none appear. *)
LEMMA PushingEnds ==
  ASSUME Typed, Streams, Held, Pushing
  PROVE  /\ lost \subseteq lost'
         /\ \A n \in StreamId : down'[n] \in {down[n], << >>}
         /\ \A i \in Instance :
              /\ EndOnWay(i)' => EndOnWay(i)
              /\ EndOnWay(i) => EndOnWay(i)' \/ i \in lost'
              /\ Ordered(i)' => Ordered(i)
              /\ Ordered(i) => Ordered(i)' \/ i \in lost'
<1>0. stream \in StreamId
  BY PushingIs, HasStream DEF Connected
<1>a. /\ out \in Seq(Frame) /\ carry \in Seq(Frame) /\ startup \in Seq(Frame)
      /\ Len(carry) <= 1
  BY DEF Typed, LoopTyped
<1>b. ASSUME UNCHANGED down
      PROVE  /\ \A n \in StreamId : down'[n] \in {down[n], << >>}
             /\ \A i \in Instance : Ordered(i)' <=> Ordered(i)
  BY <1>b DEF Ordered
<1>c. \A i : EndOnWay(i) <=> i \in Ends(out) \cup Ends(carry) \cup Ends(startup) \/ OnWire(i)
  BY DEF EndOnWay, OnWire
<1>d. \A i : EndOnWay(i)' <=>
               i \in Ends(out') \cup Ends(carry') \cup Ends(startup') \/ OnWire(i)'
  BY DEF EndOnWay, OnWire
<1>e. Ends(<< >>) = {}
  BY EndsOf, FrameSequences
<1>f. ASSUME UNCHANGED wire PROVE \A i : OnWire(i)' <=> OnWire(i)
  BY <1>f DEF OnWire
<1>1. CASE SendReport
  <2>1. /\ UNCHANGED <<out, startup>>
        /\ \/ Put(Report(Snapshot)) /\ UNCHANGED carry
           \/ Leave(Ends(carry)) /\ carry' = <<Report(Snapshot)>>
    BY <1>1 DEF SendReport
  <2>2. Report(Snapshot) \in Frame /\ Ends(<<Report(Snapshot)>>) = {}
    BY SnapshotIs, EndsOfOne DEF Typed
  <2>3. CASE Put(Report(Snapshot)) /\ UNCHANGED carry
    <3>1. UNCHANGED down
      BY <2>3 DEF Put
    <3> QED
      BY <1>0, <1>b, <1>c, <1>d, <2>1, <2>2, <2>3, <3>1, PutEnds
  <2>4. CASE Leave(Ends(carry)) /\ carry' = <<Report(Snapshot)>>
    <3>1. /\ lost \subseteq lost' /\ Ends(carry) \subseteq lost' /\ UNCHANGED wire
          /\ \A n \in StreamId : down'[n] \in {down[n], << >>}
          /\ \A i \in Instance : /\ Ordered(i)' => Ordered(i)
                                 /\ Ordered(i) => Ordered(i)' \/ i \in lost'
      BY <1>0, <2>4, LeaveOrders
    <3>2. Ends(carry') = {} /\ Ends(out') = Ends(out) /\ Ends(startup') = Ends(startup)
      BY <2>1, <2>2, <2>4
    <3> QED
      BY <1>c, <1>d, <1>f, <3>1, <3>2
  <2> QED
    BY <2>1, <2>3, <2>4
<1>2. CASE SendTaint
  <2>1. /\ UNCHANGED <<out, startup>>
        /\ \/ Put(TaintStatus(taint)) /\ UNCHANGED carry
           \/ Leave(Ends(carry)) /\ carry' = <<TaintStatus(taint)>>
    BY <1>2 DEF SendTaint
  <2>2. TaintStatus(taint) \in Frame /\ Ends(<<TaintStatus(taint)>>) = {}
    BY FrameMakers, EndsOfOne DEF Typed, HostTyped
  <2>3. CASE Put(TaintStatus(taint)) /\ UNCHANGED carry
    <3>1. UNCHANGED down
      BY <2>3 DEF Put
    <3> QED
      BY <1>0, <1>b, <1>c, <1>d, <2>1, <2>2, <2>3, <3>1, PutEnds
  <2>4. CASE Leave(Ends(carry)) /\ carry' = <<TaintStatus(taint)>>
    <3>1. /\ lost \subseteq lost' /\ Ends(carry) \subseteq lost' /\ UNCHANGED wire
          /\ \A n \in StreamId : down'[n] \in {down[n], << >>}
          /\ \A i \in Instance : /\ Ordered(i)' => Ordered(i)
                                 /\ Ordered(i) => Ordered(i)' \/ i \in lost'
      BY <1>0, <2>4, LeaveOrders
    <3>2. Ends(carry') = {} /\ Ends(out') = Ends(out) /\ Ends(startup') = Ends(startup)
      BY <2>1, <2>2, <2>4
    <3> QED
      BY <1>c, <1>d, <1>f, <3>1, <3>2
  <2> QED
    BY <2>1, <2>3, <2>4
<1>3. ASSUME Leave({}), UNCHANGED <<out, carry, startup>>
      PROVE  /\ lost \subseteq lost'
             /\ \A n \in StreamId : down'[n] \in {down[n], << >>}
             /\ \A i \in Instance :
                  /\ EndOnWay(i)' <=> EndOnWay(i)
                  /\ Ordered(i)' => Ordered(i)
                  /\ Ordered(i) => Ordered(i)' \/ i \in lost'
  <2>1. /\ lost \subseteq lost' /\ UNCHANGED wire
        /\ \A n \in StreamId : down'[n] \in {down[n], << >>}
        /\ \A i \in Instance : /\ Ordered(i)' => Ordered(i)
                               /\ Ordered(i) => Ordered(i)' \/ i \in lost'
    BY <1>0, <1>3, LeaveOrders
  <2> QED
    BY <1>3, <1>c, <1>d, <1>f, <2>1
<1>4. CASE SendStartup
  <2>1. /\ stage = "startup" /\ UNCHANGED <<out, carry>>
        /\ (Put(Head(startup)) /\ startup' = Tail(startup)) \/ (Leave({}) /\ UNCHANGED startup)
    BY <1>4 DEF SendStartup
  <2>2. Head(startup) \in Frame /\ Ends(startup) = Ends(<<Head(startup)>>) \cup Ends(Tail(startup))
    <3>1. startup # << >>
      BY <2>1 DEF Held
    <3> QED
      BY <1>a, <3>1, EndsOf, TailFacts
  <2>3. CASE Put(Head(startup)) /\ startup' = Tail(startup)
    <3>1. UNCHANGED down
      BY <2>3 DEF Put
    <3>2. /\ lost \subseteq lost'
          /\ \A i : /\ OnWire(i)' => OnWire(i) \/ i \in Ends(<<Head(startup)>>)
                    /\ OnWire(i) => OnWire(i)'
                    /\ i \in Ends(<<Head(startup)>>) => OnWire(i)' \/ i \in lost'
      BY <1>0, <2>2, <2>3, PutEnds
    <3>3. /\ Ends(startup) = Ends(<<Head(startup)>>) \cup Ends(startup')
          /\ Ends(out') = Ends(out) /\ Ends(carry') = Ends(carry)
      BY <2>1, <2>2, <2>3
    <3> QED
      BY <1>b, <1>c, <1>d, <3>1, <3>2, <3>3
  <2> QED
    BY <1>3, <2>1, <2>3
<1>5. CASE SendCarry
  <2>1. /\ stage = "carry" /\ UNCHANGED <<out, startup>>
        /\ (Put(carry[1]) /\ carry' = << >>) \/ (Leave({}) /\ UNCHANGED carry)
    BY <1>5 DEF SendCarry
  <2>2. carry[1] \in Frame /\ Ends(carry) = Ends(<<carry[1]>>)
    <3>1. carry # << >>
      BY <2>1 DEF Held
    <3>2. Head(carry) \in Frame /\ Head(carry) = carry[1] /\ Tail(carry) \in Seq(Frame)
          /\ Len(Tail(carry)) = 0
      <4>1. /\ Head(carry) \in Frame /\ Head(carry) = carry[1] /\ Tail(carry) \in Seq(Frame)
            /\ Len(carry) \in Nat \ {0} /\ Len(Tail(carry)) = Len(carry) - 1
        BY <1>a, <3>1, TailFacts
      <4> QED
        BY <1>a, <4>1
    <3>3. Tail(carry) = << >>
      BY <3>2, EmptySeq
    <3> QED
      BY <1>a, <1>e, <3>1, <3>2, <3>3, EndsOf
  <2>3. CASE Put(carry[1]) /\ carry' = << >>
    <3>1. UNCHANGED down
      BY <2>3 DEF Put
    <3>2. /\ lost \subseteq lost'
          /\ \A i : /\ OnWire(i)' => OnWire(i) \/ i \in Ends(<<carry[1]>>)
                    /\ OnWire(i) => OnWire(i)'
                    /\ i \in Ends(<<carry[1]>>) => OnWire(i)' \/ i \in lost'
      BY <1>0, <2>2, <2>3, PutEnds
    <3>3. /\ Ends(carry') = {}
          /\ Ends(out') = Ends(out) /\ Ends(startup') = Ends(startup)
      BY <1>e, <2>1, <2>3
    <3> QED
      BY <1>b, <1>c, <1>d, <2>2, <3>1, <3>2, <3>3
  <2> QED
    BY <1>3, <2>1, <2>3
<1>6. CASE SendBeat
  <2>1. /\ UNCHANGED <<out, carry, startup>>
        /\ Put(Heartbeat) \/ Leave({})
    BY <1>6 DEF SendBeat
  <2>2. Heartbeat \in Frame /\ Ends(<<Heartbeat>>) = {}
    BY FrameMakers, EndsOfOne
  <2>3. CASE Put(Heartbeat)
    <3>1. UNCHANGED down
      BY <2>3 DEF Put
    <3>2. /\ lost \subseteq lost'
          /\ \A i : /\ OnWire(i)' => OnWire(i)
                    /\ OnWire(i) => OnWire(i)'
      BY <1>0, <2>2, <2>3, PutEnds
    <3>3. Ends(out') = Ends(out) /\ Ends(carry') = Ends(carry) /\ Ends(startup') = Ends(startup)
      BY <2>1
    <3> QED
      BY <1>b, <1>c, <1>d, <3>1, <3>2, <3>3
  <2> QED
    BY <1>3, <2>1, <2>3
<1>7. CASE Notice
  BY <1>3, <1>7 DEF Notice
<1> QED
  BY <1>1, <1>2, <1>4, <1>5, <1>6, <1>7 DEF Pushing

(* Nor does anything of them change when the loop takes a frame in hand.    *)
LEMMA TakingEnds ==
  ASSUME Typed, Held, Taking
  PROVE  \A i : EndOnWay(i)' <=> EndOnWay(i)
<1>1. /\ stage = "up" /\ UNCHANGED <<startup, wire>>
      /\ \/ out # << >> /\ carry' = <<Head(out)>> /\ out' = Tail(out)
         \/ UNCHANGED <<out, carry>>
  BY TakingIs DEF wireVars
<1>2. CASE UNCHANGED <<out, carry>>
  BY <1>1, <1>2 DEF EndOnWay
<1>3. CASE out # << >> /\ carry' = <<Head(out)>> /\ out' = Tail(out)
  <2>1. carry = << >> /\ Ends(<< >>) = {}
    BY <1>1, EndsOf, FrameSequences DEF Held
  <2>2. Ends(out) = Ends(carry') \cup Ends(out') /\ Ends(carry) = {}
    BY <1>3, <2>1, EndsOf DEF Typed, LoopTyped
  <2> QED
    BY <1>1, <2>2 DEF EndOnWay
<1> QED
  BY <1>1, <1>2, <1>3

(* Orders and ends that move, are lost or arrive, while no instance does    *)
(* anything.                                                                *)
LEMMA LivesStay ==
  ASSUME Lives, UNCHANGED <<view, todo, journal, kept, sent>>,
         lost \subseteq lost', entries \subseteq entries' \cup lost',
         \A i \in Instance :
           /\ EndSaid(i)' => EndSaid(i)
           /\ EndSaid(i) => EndSaid(i)' \/ i \in lost'
           /\ Ordered(i)' => Ordered(i)
           /\ Ordered(i) => Ordered(i)' \/ i \in lost'
           /\ \A n \in StreamId : Once(down'[n], RunFault(i))
  PROVE  Lives'
<1>1. ASSUME NEW i \in Instance PROVE OrderedOnce(i)' /\ Final(i)' /\ Accounted(i)'
  <2>1. /\ view' = view /\ todo' = todo /\ journal' = journal /\ kept' = kept /\ sent' = sent
        /\ OrderedOnce(i) /\ Final(i) /\ Accounted(i)
    BY DEF Lives
  <2>2. OrderedOnce(i)'
    BY <2>1 DEF OrderedOnce
  <2>3. Final(i)'
    BY <2>1 DEF Final
  <2>4. Accounted(i)'
    <3>1. Accounted(i) <=> (i \in sent => EndSaid(i) \/ view[i] \in Live \/ i \in lost
                                          \/ Ordered(i) \/ UntoldEnd(i) \/ i \in entries)
      BY DEF Accounted, EndSaid
    <3>2. Accounted(i)' <=> (i \in sent' => EndSaid(i)' \/ view'[i] \in Live \/ i \in lost'
                                            \/ Ordered(i)' \/ UntoldEnd(i)' \/ i \in entries')
      BY DEF Accounted, EndSaid
    <3>3. UntoldEnd(i) => UntoldEnd(i)'
      BY <2>1 DEF UntoldEnd
    <3> QED
      BY <2>1, <3>1, <3>2, <3>3
  <2> QED
    BY <2>2, <2>3, <2>4
<1> QED
  BY <1>1 DEF Lives

(* What one instance does is nothing to the others.                         *)
LEMMA OneLife ==
  ASSUME Lives, NEW i \in Instance, OrderedOnce(i)', Final(i)', Accounted(i)',
         sent' = sent, lost \subseteq lost',
         \A j \in Instance \ {i} :
           /\ view'[j] = view[j] /\ todo'[j] = todo[j]
           /\ j \in journal' <=> j \in journal
           /\ j \in kept => j \in kept'
           /\ j \in entries => j \in entries'
           /\ EndSaid(j)' <=> EndSaid(j)
           /\ Ordered(j)' <=> Ordered(j)
           /\ \A n \in StreamId : Once(down'[n], RunFault(j))
  PROVE  Lives'
<1>1. ASSUME NEW j \in Instance \ {i} PROVE OrderedOnce(j)' /\ Final(j)' /\ Accounted(j)'
  <2>1. OrderedOnce(j) /\ Final(j) /\ Accounted(j)
    BY DEF Lives
  <2>2. OrderedOnce(j)'
    BY <2>1 DEF OrderedOnce
  <2>3. Final(j)'
    BY <2>1 DEF Final
  <2>4. Accounted(j)'
    <3>1. Accounted(j) <=> (j \in sent => EndSaid(j) \/ view[j] \in Live \/ j \in lost
                                          \/ Ordered(j) \/ UntoldEnd(j) \/ j \in entries)
      BY DEF Accounted, EndSaid
    <3>2. Accounted(j)' <=> (j \in sent' => EndSaid(j)' \/ view'[j] \in Live \/ j \in lost'
                                            \/ Ordered(j)' \/ UntoldEnd(j)' \/ j \in entries')
      BY DEF Accounted, EndSaid
    <3>3. UntoldEnd(j) => UntoldEnd(j)'
      BY DEF UntoldEnd
    <3> QED
      BY <2>1, <3>1, <3>2, <3>3
  <2> QED
    BY <2>2, <2>3, <2>4
<1> QED
  BY <1>1 DEF Lives

(* A task that only has the end left to tell has no entry.                  *)
LEMMA TellingApart ==
  ASSUME NEW i \in Instance, NEW s \in Live \cup Terminal
  PROVE  Telling(i, s) \notin Untaints(i, s)
<1>1. /\ Head(Telling(i, s)) = Send(Status(i, s)) /\ Head(Ending(i, s)) = Remove
      /\ Head(Marked(i, s)) = Mark /\ Head(Tainted(i, s)) = Send(TaintStatus(TRUE))
      /\ Untaints(i, s) = {Ending(i, s), Marked(i, s), Tainted(i, s)}
  BY TaskForms
<1>2. Send(Status(i, s)) \notin {Remove, Mark, Send(TaintStatus(TRUE))}
  BY EffectsDiffer
<1> QED
  BY <1>1, <1>2

(* Accounted, in words of EndSaid.                                          *)
LEMMA AccountedIs ==
  ASSUME NEW i \in Instance
  PROVE  Accounted(i) <=>
           (i \in sent => EndSaid(i) \/ view[i] \in Live \/ i \in lost
                          \/ Ordered(i) \/ UntoldEnd(i) \/ i \in entries)
  BY DEF Accounted, EndSaid

(* What is on its way when the agent's own task emitted a frame.            *)
LEMMA EmitEnds ==
  ASSUME Typed, NEW f \in Frame, out' = Append(out, f),
         UNCHANGED <<carry, startup, wire, told>>
  PROVE  \A i : EndSaid(i)' <=> EndSaid(i) \/ i \in Ends(<<f>>)
<1>1. Ends(out') = Ends(out) \cup Ends(<<f>>)
  BY EndsOf DEF Typed, LoopTyped
<1> QED
  BY <1>1 DEF EndSaid, EndOnWay

(* The orders for an instance when another command is sent.                 *)
LEMMA OrdersSaid ==
  ASSUME Typed, Lives, NEW n \in StreamId, NEW c \in Command, Pass(n, c), NEW i \in Instance,
         c # RunFault(i)
  PROVE  /\ Ordered(i)' <=> Ordered(i)
         /\ \A k \in StreamId : Once(down'[k], RunFault(i))
<1>1. /\ \A k \in StreamId : Once(down[k], RunFault(i))
      /\ RunFault(i) \in Command /\ down \in [StreamId -> Seq(Command)]
  BY FrameMakers DEF Lives, OrderedOnce, Typed, WireTyped
<1>2. /\ \A k \in StreamId \ {n} : down'[k] = down[k]
      /\ down'[n] = Append(down[n], c)
      /\ Elements(down'[n]) = Elements(down[n]) \cup {c}
  BY DownPassed
<1>3. \A k \in StreamId : RunFault(i) \in Elements(down'[k]) <=> RunFault(i) \in Elements(down[k])
  BY <1>2
<1>4. Once(down'[n], RunFault(i))
  BY <1>1, <1>2, OnceOf
<1> QED
  BY <1>1, <1>2, <1>3, <1>4 DEF Ordered

(* The orders for an instance when the agent reads or loses some.           *)
LEMMA OrdersFewer ==
  ASSUME Typed, Lives, NEW i \in Instance,
         \A n \in StreamId : down'[n] \in {down[n], << >>}
  PROVE  \A n \in StreamId : Once(down'[n], RunFault(i))
<1>1. /\ \A k \in StreamId : Once(down[k], RunFault(i))
      /\ RunFault(i) \in Command /\ << >> \in Seq(Command)
  BY FrameMakers, FrameSequences DEF Lives, OrderedOnce
<1>2. Once(<< >>, RunFault(i))
  BY <1>1, OnceOf
<1> QED
  BY <1>1, <1>2

(* The orders for an instance when the agent read one command.              *)
LEMMA OrdersRead ==
  ASSUME Typed, Streams, Lives, NEW i \in Instance, Connected,
         down[stream] # << >>, down' = [down EXCEPT ![stream] = Tail(@)]
  PROVE  /\ stream \in StreamId
         /\ \A n \in StreamId : Once(down'[n], RunFault(i))
         /\ Ordered(i)' => Ordered(i)
         /\ Head(down[stream]) = RunFault(i) => Ordered(i) /\ ~Ordered(i)'
         /\ Head(down[stream]) # RunFault(i) => (Ordered(i)' <=> Ordered(i))
<1>1. stream \in StreamId
  BY HasStream DEF Connected
<1>2. /\ \A k \in StreamId : Once(down[k], RunFault(i))
      /\ RunFault(i) \in Command /\ down \in [StreamId -> Seq(Command)]
  BY FrameMakers DEF Lives, OrderedOnce, Typed, WireTyped
<1>3. down'[stream] = Tail(down[stream]) /\ \A n \in StreamId \ {stream} : down'[n] = down[n]
  BY <1>1, <1>2
<1>4. /\ Elements(down[stream]) = {Head(down[stream])} \cup Elements(Tail(down[stream]))
      /\ Once(Tail(down[stream]), RunFault(i))
      /\ Head(down[stream]) = RunFault(i) => RunFault(i) \notin Elements(Tail(down[stream]))
  BY <1>1, <1>2, ElementsOf, OnceOf
<1>5. \A n \in StreamId \ {stream} : down[n] = << >>
  BY DEF Streams, Linked
<1>6. \A n \in StreamId \ {stream} : RunFault(i) \notin Elements(down[n])
  BY <1>5, ElementsShort
<1>7. Ordered(i) <=> RunFault(i) \in Elements(down[stream])
  BY <1>1, <1>6 DEF Ordered
<1>8. Ordered(i)' <=> RunFault(i) \in Elements(Tail(down[stream]))
  BY <1>1, <1>3, <1>6 DEF Ordered
<1> QED
  BY <1>1, <1>2, <1>3, <1>4, <1>7, <1>8

(* The ends on their way when the master read one frame.                    *)
LEMMA IntakeEnds ==
  ASSUME Typed, NEW n \in StreamId, Intake(n), NEW i \in Instance
  PROVE  EndSaid(i)' <=> EndSaid(i)
<1> DEFINE f == Head(wire[n])
<1>1. /\ wire[n] # << >> /\ wire' = [wire EXCEPT ![n] = Tail(@)]
      /\ told' = CASE f.type = "InstanceStatus" ->
                        [told EXCEPT ![f.about] = Told(f.about, f.state)]
                   [] f.type = "InstanceReport" -> [j \in Instance |-> Told(j, f.view[j])]
                   [] OTHER -> told
      /\ UNCHANGED <<out, carry, startup>>
  BY DEF Intake, loopVars
<1>2. wire \in [StreamId -> Seq(Frame)] /\ told \in [Instance -> View]
  BY DEF Typed, WireTyped, MasterTyped
<1>3. f \in Frame /\ Ends(wire[n]) = Ends(<<f>>) \cup Ends(wire'[n])
      /\ \A k \in StreamId \ {n} : wire'[k] = wire[k]
  <2>1. wire[n] \in Seq(Frame) /\ wire'[n] = Tail(wire[n])
    BY <1>1, <1>2
  <2> QED
    BY <1>1, <1>2, <2>1, EndsOf, TailFacts
<1> HIDE DEF f
<1>4. OnWire(i) <=> OnWire(i)' \/ i \in Ends(<<f>>)
  BY <1>3 DEF OnWire
<1>5. told'[i] \in Terminal <=> told[i] \in Terminal \/ i \in Ends(<<f>>)
  <2>1. ASSUME NEW j \in Instance, NEW s \in Live \cup Terminal, f = Status(j, s)
        PROVE  told'[i] \in Terminal <=> told[i] \in Terminal \/ i \in Ends(<<f>>)
    <3>1. f.type = "InstanceStatus" /\ f.about = j /\ f.state = s
      BY <2>1, FrameFields
    <3>2. told' = [told EXCEPT ![j] = Told(j, s)]
      BY <1>1, <3>1
    <3>3. i \in Ends(<<f>>) <=> s \in Terminal /\ i = j
      BY <2>1, EndsOfOne
    <3>4. told'[i] = IF i = j THEN Told(i, s) ELSE told[i]
      BY <1>2, <3>2
    <3>5. s # None
      BY ViewsAre
    <3> QED
      BY <3>3, <3>4, <3>5 DEF Told
  <2>2. ASSUME NEW w \in [Instance -> Live \cup {None}], f = Report(w)
        PROVE  told'[i] \in Terminal <=> told[i] \in Terminal \/ i \in Ends(<<f>>)
    <3>1. f.type = "InstanceReport" /\ f.view = w
      BY <2>2, FrameFields
    <3>2. told'[i] = Told(i, w[i])
      BY <1>1, <3>1
    <3>3. i \notin Ends(<<f>>) /\ w[i] \in Live \cup {None}
      BY <2>2, EndsOfOne
    <3> QED
      BY <3>2, <3>3, ViewsAre DEF Told
  <2>3. CASE f = Register \/ f = Heartbeat \/ \E b \in BOOLEAN : f = TaintStatus(b)
    <3>1. f.type \in {"Register", "Heartbeat", "TaintStatus"} /\ i \notin Ends(<<f>>)
      BY <2>3, FrameFields, EndsOfOne
    <3>2. told' = told
      BY <1>1, <3>1
    <3> QED
      BY <3>1, <3>2
  <2> QED
    BY <1>3, <2>1, <2>2, <2>3, FrameKinds
<1>6. EndSaid(i) <=> told[i] \in Terminal \/ OnWire(i)
                     \/ i \in Ends(out) \cup Ends(carry) \cup Ends(startup)
  BY DEF EndSaid, EndOnWay, OnWire
<1>7. EndSaid(i)' <=> told'[i] \in Terminal \/ OnWire(i)'
                      \/ i \in Ends(out) \cup Ends(carry) \cup Ends(startup)
  BY <1>1 DEF EndSaid, EndOnWay, OnWire
<1> QED
  BY <1>4, <1>5, <1>6, <1>7

(* Every step keeps account of the orders and the ends.                     *)
LEMMA LivesKept ==
  ASSUME LinkInv, [Next]_vars
  PROVE  Lives'
<1> USE DEF hostVars, loopVars, wireVars, masterVars, readerVars, history
<1>0. Typed /\ Streams /\ Tasks /\ Held /\ Clearing /\ Lives
  BY DEF LinkInv, Agent
<1>a. /\ view \in [Instance -> View] /\ todo \in [Instance -> Seq(Effect)]
      /\ journal \subseteq Instance /\ down \in [StreamId -> Seq(Command)]
      /\ \A i \in Instance : view[i] \in View /\ TaskFits(i) /\ EntryFits(i)
      /\ \A i \in Instance : OrderedOnce(i) /\ Final(i) /\ Accounted(i)
  BY <1>0 DEF Typed, HostTyped, WireTyped, Tasks, Lives
<1>b. \A i \in Instance, n \in StreamId : Once(down[n], RunFault(i))
  BY <1>a DEF OrderedOnce
<1>c. ASSUME UNCHANGED <<out, carry, startup, wire, told>>
      PROVE  \A i \in Instance : EndSaid(i)' <=> EndSaid(i)
  BY <1>c DEF EndSaid, EndOnWay
<1>d. ASSUME UNCHANGED down
      PROVE  \A i \in Instance : /\ Ordered(i)' <=> Ordered(i)
                                 /\ \A n \in StreamId : Once(down'[n], RunFault(i))
  BY <1>b, <1>d DEF Ordered
<1>e. ASSUME NEW i \in Instance, Unlink(i)
      PROVE  /\ i \in journal' => i \in kept'
             /\ \A j \in Instance \ {i} : /\ j \in journal' <=> j \in journal
                                          /\ j \in kept => j \in kept'
  <2>1. \/ journal' = journal \ {i} /\ kept' = kept \ {i}
        \/ journal' = journal /\ kept' = kept \cup {i}
    BY <1>e DEF Unlink
  <2> QED
    BY <2>1
<1>1. ASSUME NEW i \in Instance, React(i) PROVE Lives'
  <2>1. PICK m \in Steps(i) :
          /\ view' = [view EXCEPT ![i] = m.view]
          /\ todo' = [todo EXCEPT ![i] = m.effects]
          /\ journal' = IF m.view = "Injecting" THEN journal \cup {i} ELSE journal
          /\ UNCHANGED <<taint, clearing, entries, kept, loopVars, wireVars, masterVars, trouble,
                         history>>
    BY <1>1 DEF React
  <2>2. view[i] \in Live /\ m.view \in Live \cup Terminal
        /\ m.effects \in {Telling(i, m.view), Ending(i, m.view), Marked(i, m.view)}
    BY <1>a, <2>1, StepsAre
  <2>3. view'[i] = m.view /\ todo'[i] = m.effects
        /\ \A j \in Instance \ {i} : /\ view'[j] = view[j] /\ todo'[j] = todo[j]
                                     /\ j \in journal' <=> j \in journal
    BY <1>a, <2>1
  <2>4. \A j \in Instance : (EndSaid(j)' <=> EndSaid(j)) /\ (Ordered(j)' <=> Ordered(j))
                            /\ \A n \in StreamId : Once(down'[n], RunFault(j))
    BY <1>c, <1>d, <2>1
  <2>5. ~EndSaid(i) /\ ~Ordered(i) /\ i \in sent
    BY <1>a, <2>2, ViewsAre DEF Final, OrderedOnce
  <2>6. OrderedOnce(i)' /\ Final(i)'
    BY <2>1, <2>4, <2>5 DEF OrderedOnce, Final
  <2>7. todo'[i] # << >>
    BY <2>2, <2>3, TaskForms
  <2>8. Accounted(i)'
    BY <2>2, <2>3, <2>7 DEF Accounted, UntoldEnd
  <2> QED
    BY <1>0, <2>1, <2>3, <2>4, <2>6, <2>8, OneLife
<1>2. ASSUME NEW i \in Instance, Perform(i) PROVE Lives'
  <2>1. /\ view[i] \in Live \cup Terminal
        /\ Said(i) \/ Removed(i) \/ MarkedNow(i) \/ ToldTaint(i)
        /\ UNCHANGED <<view, entries, carry, startup, wire, down, told, sent, lost>>
    BY <1>2, <1>a, PerformIs
  <2>2. \A j \in Instance : (Ordered(j)' <=> Ordered(j))
                            /\ \A n \in StreamId : Once(down'[n], RunFault(j))
    BY <1>d, <2>1
  <2>3. view[i] # None /\ i \in sent /\ ~Ordered(i)
    BY <1>a, <2>1, ViewsAre DEF OrderedOnce
  <2>4. OrderedOnce(i)'
    BY <1>a, <2>1, <2>2, <2>3 DEF OrderedOnce
  <2>5. Status(i, view[i]) \in Frame /\ TaintStatus(TRUE) \in Frame
    BY <2>1, FrameMakers
  <2>6. /\ Telling(i, view[i]) # << >> /\ Ending(i, view[i]) # << >>
        /\ Tainted(i, view[i]) # << >> /\ Marked(i, view[i]) # << >>
        /\ Telling(i, view[i]) \notin Untaints(i, view[i])
    BY <2>1, TaskForms, TellingApart
  <2>7. CASE Said(i)
    <3>1. /\ todo[i] = Telling(i, view[i]) /\ todo' = [todo EXCEPT ![i] = << >>]
          /\ out' = Append(out, Status(i, view[i])) /\ UNCHANGED <<journal, kept>>
      BY <2>7 DEF Said
    <3>2. \A j : EndSaid(j)' <=> EndSaid(j) \/ (view[i] \in Terminal /\ j = i)
      <4>1. \A j : EndSaid(j)' <=> EndSaid(j) \/ j \in Ends(<<Status(i, view[i])>>)
        BY <1>0, <2>1, <2>5, <3>1, EmitEnds
      <4> QED
        BY <4>1, EndsOfOne
    <3>3. view[i] \in Terminal => (i \in journal => i \in kept) /\ view[i] \notin Live
      <4>1. stage # "boot"
        BY <1>0, <2>3, KnowsSome
      <4>2. view[i] \in Terminal => view[i] \notin Live /\ view[i] \notin {"Injecting", "Active", "Recovering"}
        BY DEF Terminal, Live
      <4> QED
        BY <1>a, <2>3, <2>6, <3>1, <4>1, <4>2 DEF EntryFits
    <3>4. Final(i)'
      BY <1>a, <2>1, <3>1, <3>2, <3>3 DEF Final
    <3>5. Accounted(i)'
      BY <2>1, <3>2 DEF Accounted, EndSaid
    <3>6. \A j \in Instance \ {i} : todo'[j] = todo[j]
      BY <1>a, <3>1
    <3> QED
      BY <1>0, <2>1, <2>2, <2>4, <3>1, <3>2, <3>4, <3>5, <3>6, OneLife
  <2>8. CASE Removed(i)
    <3>1. /\ view[i] \in Terminal /\ todo' = [todo EXCEPT ![i] = Telling(i, view[i])]
          /\ Unlink(i) /\ out' = out
      BY <2>8 DEF Removed
    <3>2. \A j \in Instance : EndSaid(j)' <=> EndSaid(j)
      BY <1>c, <2>1, <3>1
    <3>3. todo'[i] = Telling(i, view[i]) /\ \A j \in Instance \ {i} : todo'[j] = todo[j]
      BY <1>a, <3>1
    <3>u. /\ i \in journal' => i \in kept'
          /\ \A j \in Instance \ {i} : /\ j \in journal' <=> j \in journal
                                       /\ j \in kept => j \in kept'
      BY <1>e, <3>1
    <3>4. Final(i)' /\ Accounted(i)'
      BY <1>a, <2>1, <2>6, <3>1, <3>u, <3>2, <3>3, ViewsAre DEF Final, Accounted, UntoldEnd
    <3>5. OrderedOnce(i)'
      BY <2>2, <2>3, <2>1 DEF OrderedOnce
    <3> QED
      BY <1>0, <2>1, <2>2, <3>1, <3>u, <3>2, <3>3, <3>4, <3>5, OneLife
  <2>9. CASE MarkedNow(i)
    <3>1. /\ view[i] \in Terminal /\ todo' = [todo EXCEPT ![i] = Tainted(i, view[i])]
          /\ UNCHANGED <<journal, kept>> /\ out' = out
      BY <2>9 DEF MarkedNow
    <3>2. \A j \in Instance : EndSaid(j)' <=> EndSaid(j)
      BY <1>c, <2>1, <3>1
    <3>3. todo'[i] = Tainted(i, view[i]) /\ \A j \in Instance \ {i} : todo'[j] = todo[j]
      BY <1>a, <3>1
    <3>4. Final(i)' /\ Accounted(i)'
      BY <1>a, <2>1, <2>6, <3>1, <3>2, <3>3 DEF Final, Accounted, UntoldEnd
    <3>5. OrderedOnce(i)'
      BY <2>2, <2>3, <2>1 DEF OrderedOnce
    <3> QED
      BY <1>0, <2>1, <2>2, <3>1, <3>2, <3>3, <3>4, <3>5, OneLife
  <2>10. CASE ToldTaint(i)
    <3>1. /\ view[i] \in Terminal /\ todo' = [todo EXCEPT ![i] = Ending(i, view[i])]
          /\ out' = Append(out, TaintStatus(TRUE)) /\ UNCHANGED <<journal, kept>>
      BY <2>10 DEF ToldTaint
    <3>2. \A j : EndSaid(j)' <=> EndSaid(j)
      <4>1. \A j : EndSaid(j)' <=> EndSaid(j) \/ j \in Ends(<<TaintStatus(TRUE)>>)
        BY <1>0, <2>1, <2>5, <3>1, EmitEnds
      <4> QED
        BY <4>1, EndsOfOne
    <3>3. todo'[i] = Ending(i, view[i]) /\ \A j \in Instance \ {i} : todo'[j] = todo[j]
      BY <1>a, <3>1
    <3>4. Final(i)' /\ Accounted(i)'
      BY <1>a, <2>1, <2>6, <3>1, <3>2, <3>3 DEF Final, Accounted, UntoldEnd
    <3>5. OrderedOnce(i)'
      BY <2>2, <2>3, <2>1 DEF OrderedOnce
    <3> QED
      BY <1>0, <2>1, <2>2, <3>1, <3>2, <3>3, <3>4, <3>5, OneLife
  <2> QED
    BY <2>1, <2>7, <2>8, <2>9, <2>10
<1>3. CASE PerformClear
  <2>1. /\ Cleared \/ ReadBack \/ ToldClear
        /\ UNCHANGED <<view, todo, journal, kept, entries, carry, startup, wire, down, told, sent,
                       lost>>
    BY <1>0, <1>3, PerformClearIs
  <2>2. \A i \in Instance : EndSaid(i)' <=> EndSaid(i)
    <3>1. CASE out' = out
      BY <1>c, <2>1, <3>1
    <3>2. ASSUME NEW b \in BOOLEAN, out' = Append(out, TaintStatus(b))
          PROVE  \A i \in Instance : EndSaid(i)' <=> EndSaid(i)
      <4>1. TaintStatus(b) \in Frame /\ Ends(<<TaintStatus(b)>>) = {}
        BY FrameMakers, EndsOfOne
      <4>2. \A i : EndSaid(i)' <=> EndSaid(i) \/ i \in Ends(<<TaintStatus(b)>>)
        BY <1>0, <2>1, <3>2, <4>1, EmitEnds
      <4> QED
        BY <4>1, <4>2
    <3> QED
      BY <2>1, <3>1, <3>2 DEF Cleared, ReadBack, ToldClear
  <2> QED
    BY <1>0, <1>d, <2>1, <2>2, LivesStay
<1>4. CASE Connect
  <2>1. /\ wire' = [wire EXCEPT ![stream'] = <<Register>>] /\ stream' = stream + 1
        /\ UNCHANGED <<hostVars, out, carry, startup, down, masterVars, history>>
    BY <1>4 DEF Connect
  <2>2. stream \in Nat /\ wire \in [StreamId -> Seq(Frame)] /\ Unwired
    BY <1>0, StreamFacts DEF Typed, LoopTyped, WireTyped, Streams
  <2>3. Ends(<<Register>>) = {} /\ Ends(<< >>) = {}
    BY EndsOfOne, EndsOf, FrameSequences
  <2>4. \A n \in StreamId : Ends(wire'[n]) = Ends(wire[n])
    <3>1. \A n \in StreamId : n # stream' => wire'[n] = wire[n]
      BY <2>1, <2>2
    <3>2. stream' \in StreamId => wire[stream'] = << >> /\ wire'[stream'] = <<Register>>
      BY <2>1, <2>2 DEF Unwired
    <3> QED
      BY <2>3, <3>1, <3>2
  <2>5. \A i \in Instance : EndSaid(i)' <=> EndSaid(i)
    BY <2>1, <2>4 DEF EndSaid, EndOnWay
  <2> QED
    BY <1>0, <1>d, <2>1, <2>5, LivesStay
<1>5. CASE AwaitAck
  <2>1. /\ stage = "ack" /\ down[stream] # << >>
        /\ lost' = lost \cup Orders(<<Head(down[stream])>>)
        /\ down' = [down EXCEPT ![stream] = Tail(@)]
        /\ UNCHANGED <<hostVars, out, carry, startup, wire, told, sent>>
    BY <1>5 DEF AwaitAck
  <2>2. Connected
    BY <2>1 DEF Connected
  <2>3. ASSUME NEW i \in Instance
        PROVE  /\ Ordered(i)' => Ordered(i)
               /\ Ordered(i) => Ordered(i)' \/ i \in lost'
               /\ \A n \in StreamId : Once(down'[n], RunFault(i))
    <3>1. /\ stream \in StreamId
          /\ \A n \in StreamId : Once(down'[n], RunFault(i))
          /\ Ordered(i)' => Ordered(i)
          /\ Head(down[stream]) = RunFault(i) => Ordered(i) /\ ~Ordered(i)'
          /\ Head(down[stream]) # RunFault(i) => (Ordered(i)' <=> Ordered(i))
      BY <1>0, <2>1, <2>2, OrdersRead
    <3>2. Head(down[stream]) = RunFault(i) => i \in lost'
      <4>1. /\ RunFault(i) \in Command /\ <<RunFault(i)>> \in Seq(Command)
            /\ RunFault(i) \in Elements(<<RunFault(i)>>)
        BY FrameMakers, FrameSequences, ElementsShort
      <4>2. i \in Orders(<<RunFault(i)>>)
        BY <4>1, OrdersIs
      <4> QED
        BY <2>1, <4>2
    <3> QED
      BY <3>1, <3>2
  <2> QED
    BY <1>0, <1>c, <2>1, <2>3, LivesStay
<1>6. CASE Pushing
  <2>1. /\ lost \subseteq lost'
        /\ \A n \in StreamId : down'[n] \in {down[n], << >>}
        /\ \A i \in Instance :
              /\ EndOnWay(i)' => EndOnWay(i)
              /\ EndOnWay(i) => EndOnWay(i)' \/ i \in lost'
              /\ Ordered(i)' => Ordered(i)
              /\ Ordered(i) => Ordered(i)' \/ i \in lost'
    BY <1>0, <1>6, PushingEnds
  <2>2. UNCHANGED <<view, todo, journal, kept, entries, sent, told>>
    BY <1>6, PushingIs
  <2>3. \A i \in Instance, n \in StreamId : Once(down'[n], RunFault(i))
    BY <1>0, <2>1, OrdersFewer
  <2>4. \A i \in Instance : /\ EndSaid(i)' => EndSaid(i)
                            /\ EndSaid(i) => EndSaid(i)' \/ i \in lost'
    BY <2>1, <2>2 DEF EndSaid
  <2> QED
    BY <1>0, <2>1, <2>2, <2>3, <2>4, LivesStay
<1>7. CASE Receive
  <2> DEFINE c == Head(down[stream])
  <2>1. /\ stage = "up" /\ down[stream] # << >>
        /\ down' = [down EXCEPT ![stream] = Tail(@)]
        /\ \/ /\ c.type = "RunFault"
              /\ view' = [view EXCEPT ![c.about] = "Pending"]
              /\ todo' = [todo EXCEPT ![c.about] = Telling(c.about, "Pending")]
           \/ /\ c.type = "RunFault" => view[c.about] # None
              /\ UNCHANGED <<view, todo>>
        /\ UNCHANGED <<out, carry, startup, wire, told, sent, lost, journal, kept, entries>>
    BY <1>7 DEF Receive
  <2>2. Connected
    BY <2>1 DEF Connected
  <2>3. stream \in StreamId /\ c \in Command
    BY <1>0, <2>1, <2>2, HasStream, DownTaken DEF Connected
  <2>4. \A i \in Instance :
          /\ \A n \in StreamId : Once(down'[n], RunFault(i))
          /\ c = RunFault(i) => Ordered(i) /\ ~Ordered(i)'
          /\ c # RunFault(i) => (Ordered(i)' <=> Ordered(i))
    BY <1>0, <2>1, <2>2, OrdersRead
  <2>5. \A i \in Instance : EndSaid(i)' <=> EndSaid(i)
    BY <1>c, <2>1
  <2> HIDE DEF c
  <2>6. CASE (c.type = "RunFault" => view[c.about] # None) /\ UNCHANGED <<view, todo>>
    <3>1. \A i \in Instance : c # RunFault(i)
      BY <1>a, <2>4, <2>6, FrameFields DEF OrderedOnce
    <3> QED
      BY <1>0, <2>1, <2>4, <2>5, <2>6, <3>1, LivesStay
  <2>7. CASE /\ c.type = "RunFault"
             /\ view' = [view EXCEPT ![c.about] = "Pending"]
             /\ todo' = [todo EXCEPT ![c.about] = Telling(c.about, "Pending")]
    <3>1. PICK i \in Instance : c = RunFault(i)
      BY <2>3, <2>7, CommandKinds, IdleIs, FrameFields
    <3>2. c.about = i /\ \A j \in Instance \ {i} : c # RunFault(j)
      BY <3>1, FrameFields, CommandsDiffer
    <3>3. Ordered(i) /\ ~Ordered(i)' /\ i \in sent /\ i \notin journal /\ ~EndSaid(i)
      BY <1>a, <2>4, <3>1 DEF OrderedOnce
    <3>4. /\ view'[i] = "Pending"
          /\ \A j \in Instance \ {i} : view'[j] = view[j] /\ todo'[j] = todo[j]
      BY <1>a, <2>7, <3>2
    <3>5. OrderedOnce(i)'
      BY <2>1, <2>4, <3>3 DEF OrderedOnce
    <3>6. Final(i)'
      BY <2>5, <3>3 DEF Final
    <3>7. Accounted(i)'
      BY <3>4, ViewsAre DEF Accounted
    <3>8. \A j \in Instance \ {i} : /\ Ordered(j)' <=> Ordered(j)
                                    /\ EndSaid(j)' <=> EndSaid(j)
                                    /\ \A n \in StreamId : Once(down'[n], RunFault(j))
      BY <2>4, <2>5, <3>2
    <3> QED
      BY <1>0, <2>1, <3>4, <3>5, <3>6, <3>7, <3>8, OneLife
  <2> QED
    BY <2>1, <2>6, <2>7
<1>8. CASE UNCHANGED <<view, todo, journal, kept, entries, sent, lost, down, out, carry, startup,
                          wire, told>>
  BY <1>0, <1>8, <1>c, <1>d, LivesStay
<1>9. Booted \/ UNCHANGED vars
        => UNCHANGED <<view, todo, journal, kept, entries, sent, lost, down, out, carry, startup,
                          wire, told>>
  BY DEF Booted, vars
<1>10. ASSUME NEW n \in StreamId, Break(n)
       PROVE  UNCHANGED <<view, todo, journal, kept, entries, sent, lost, down, out, carry, startup,
                          wire, told>>
  BY <1>10 DEF Break
<1>11. ASSUME NEW i \in Instance, ReplayEntry(i) PROVE Lives'
  <2>1. /\ stage = "boot" /\ i \in entries /\ entries' = entries \ {i} /\ Unlink(i)
        /\ UNCHANGED <<view, todo, out, carry, wire, down, told, sent, lost>>
        /\ \/ \E s \in {"Aborted", "Error"} :
                startup' = startup \o <<Status(i, "Recovering"), Status(i, s)>>
           \/ startup' =
                startup \o <<Status(i, "Recovering"), TaintStatus(TRUE), Status(i, "Error")>>
    BY <1>11 DEF ReplayEntry
  <2>2. view[i] = None /\ i \in journal
    BY <1>0, <2>1 DEF Held, Forgotten
  <2>3. startup \in Seq(Frame)
    BY <1>0 DEF Typed, LoopTyped
  <2>4. \A j : j \in Ends(startup') <=> j \in Ends(startup) \/ j = i
    <3>1. /\ TaintStatus(TRUE) \in Frame
          /\ \A s \in {"Recovering", "Aborted", "Error"} : Status(i, s) \in Frame
      BY FrameMakers DEF Live, Terminal
    <3>2. ASSUME NEW s \in {"Aborted", "Error"},
                 startup' = startup \o <<Status(i, "Recovering"), Status(i, s)>>
          PROVE  \A j : j \in Ends(startup') <=> j \in Ends(startup) \/ j = i
      <4>1. <<Status(i, "Recovering"), Status(i, s)>> \in Seq(Frame)
        BY <3>1, ShortSequences
      <4>2. Ends(startup') = Ends(startup) \cup Ends(<<Status(i, "Recovering"), Status(i, s)>>)
        BY <2>3, <3>2, <4>1, EndsOf
      <4>3. Elements(<<Status(i, "Recovering"), Status(i, s)>>)
              = {Status(i, "Recovering"), Status(i, s)}
        BY ElementsShort
      <4>4. \A j : j \in Ends(<<Status(i, "Recovering"), Status(i, s)>>) <=> j = i
        BY <4>3, EndsIs, FrameFields DEF Terminal
      <4> QED
        BY <4>2, <4>4
    <3>3. ASSUME startup' = startup \o
                   <<Status(i, "Recovering"), TaintStatus(TRUE), Status(i, "Error")>>
          PROVE  \A j : j \in Ends(startup') <=> j \in Ends(startup) \/ j = i
      <4> DEFINE t == <<Status(i, "Recovering"), TaintStatus(TRUE), Status(i, "Error")>>
      <4>1. t \in Seq(Frame)
        BY <3>1, ShortSequences
      <4>2. Elements(t) = {Status(i, "Recovering"), TaintStatus(TRUE), Status(i, "Error")}
        BY ElementsShort
      <4> HIDE DEF t
      <4>5. \A j : j \in Ends(t) <=>
              \E f \in Elements(t) : f.type = "InstanceStatus" /\ f.state \in Terminal /\ f.about = j
        BY EndsIs
      <4>8. TaintStatus(TRUE).type # "InstanceStatus"
        BY DEF TaintStatus
      <4>6. Status(i, "Recovering").state \notin Terminal
        BY FrameFields DEF Terminal
      <4>7. /\ Status(i, "Error").type = "InstanceStatus" /\ Status(i, "Error").state \in Terminal
            /\ Status(i, "Error").about = i
        BY FrameFields DEF Terminal
      <4>3. \A j : j \in Ends(t) <=> j = i
        BY <4>2, <4>5, <4>6, <4>7, <4>8
      <4>4. Ends(startup') = Ends(startup) \cup Ends(t)
        BY <2>3, <3>3, <4>1, EndsOf DEF t
      <4> QED
        BY <4>3, <4>4
    <3> QED
      BY <2>1, <3>2, <3>3
  <2>5. \A j : EndSaid(j)' <=> EndSaid(j) \/ j = i
    BY <2>1, <2>4 DEF EndSaid, EndOnWay
  <2>6. \A j \in Instance : (Ordered(j)' <=> Ordered(j))
                            /\ \A n \in StreamId : Once(down'[n], RunFault(j))
    BY <1>d, <2>1
  <2>7. i \in sent /\ ~Ordered(i)
    BY <1>a, <2>2 DEF OrderedOnce
  <2>8. OrderedOnce(i)'
    BY <2>1, <2>6, <2>7 DEF OrderedOnce
  <2>9. Final(i)'
    BY <1>e, <2>1, <2>2, ViewsAre DEF Final
  <2>10. Accounted(i)'
    BY <2>5, AccountedIs DEF Accounted, EndSaid
  <2>11. \A j \in Instance \ {i} : /\ view'[j] = view[j] /\ todo'[j] = todo[j]
                                   /\ j \in journal' <=> j \in journal
                                   /\ j \in kept => j \in kept'
                                   /\ j \in entries => j \in entries'
                                   /\ EndSaid(j)' <=> EndSaid(j)
    BY <1>e, <2>1, <2>5
  <2> QED
    BY <1>0, <2>1, <2>6, <2>8, <2>9, <2>10, <2>11, OneLife
<1>12. ASSUME NEW n \in StreamId, Intake(n) PROVE Lives'
  <2>1. UNCHANGED <<view, todo, journal, kept, entries, sent, lost, down>>
    BY <1>12 DEF Intake
  <2>2. \A i \in Instance : EndSaid(i)' <=> EndSaid(i)
    BY <1>0, <1>12, IntakeEnds
  <2> QED
    BY <1>0, <1>d, <2>1, <2>2, LivesStay
<1>13. ASSUME NEW n \in StreamId, NEW c \in Command, UNCHANGED down \/ Pass(n, c),
              \A i \in Instance : c # RunFault(i), lost \subseteq lost',
              UNCHANGED <<hostVars, sent, out, carry, startup, wire, told>>
       PROVE  Lives'
  <2>1. \A i \in Instance : (Ordered(i)' <=> Ordered(i))
                            /\ \A k \in StreamId : Once(down'[k], RunFault(i))
    BY <1>0, <1>d, <1>13, OrdersSaid
  <2> QED
    BY <1>0, <1>c, <1>13, <2>1, LivesStay
<1>14. ASSUME NEW n \in StreamId, Acknowledge(n) PROVE Lives'
  BY <1>13, <1>14, FrameMakers, CommandsDiffer DEF Acknowledge
<1>19. CASE Aside
  <2>1. /\ UNCHANGED <<hostVars, sent, out, carry, startup, wire, told, lost>>
        /\ UNCHANGED down \/ \E n \in StreamId, c \in Idle : Pass(n, c)
    BY <1>0, <1>19, AsideIs
  <2>2. CASE UNCHANGED down
    BY <1>8, <2>1, <2>2
  <2>3. ASSUME NEW n \in StreamId, NEW c \in Idle, Pass(n, c) PROVE Lives'
    BY <1>13, <2>1, <2>3, IdleIs
  <2> QED
    BY <2>1, <2>2, <2>3
<1>20. CASE Taking
  <2>1. UNCHANGED <<hostVars, sent, lost, down, told>>
    BY <1>20, TakingIs
  <2>2. \A i \in Instance : EndSaid(i)' <=> EndSaid(i)
    BY <1>0, <1>20, <2>1, TakingEnds DEF EndSaid
  <2> QED
    BY <1>0, <1>d, <2>1, <2>2, LivesStay
<1>21. ASSUME NEW i \in Instance, SkipEntry(i) PROVE Lives'
  <2>1. /\ stage = "boot" /\ entries' = entries \ {i} /\ lost' = lost \cup {i}
        /\ startup' = Append(startup, TaintStatus(TRUE))
        /\ UNCHANGED <<view, todo, journal, kept, sent, out, carry, wire, down, told>>
    BY <1>21 DEF SkipEntry
  <2>2. Ends(startup') = Ends(startup)
    <3>1. PICK b \in BOOLEAN : b = TRUE
      OBVIOUS
    <3>2. PICK f : f = TaintStatus(b)
      OBVIOUS
    <3>3. f \in Frame /\ Ends(<<f>>) = {} /\ startup \in Seq(Frame)
      BY <1>0, <3>2, FrameMakers, EndsOfOne DEF Typed, LoopTyped
    <3>4. startup' = Append(startup, f)
      BY <2>1, <3>1, <3>2
    <3>5. \A g \in Frame : Ends(Append(startup, g)) = Ends(startup) \cup Ends(<<g>>)
      BY <3>3, EndsOf
    <3> QED
      BY <3>3, <3>4, <3>5
  <2>3. \A j \in Instance : EndSaid(j)' <=> EndSaid(j)
    BY <2>1, <2>2 DEF EndSaid, EndOnWay
  <2> QED
    BY <1>0, <1>d, <2>1, <2>3, LivesStay
<1>22. CASE AbandonReplay
  <2>1. /\ entries' = {} /\ startup' = << >> /\ lost' = lost \cup entries \cup Ends(startup)
        /\ UNCHANGED <<view, todo, journal, kept, sent, out, carry, wire, down, told>>
    BY <1>22 DEF AbandonReplay
  <2>2. Ends(startup') = {}
    BY <2>1, EndsOf, FrameSequences
  <2>3. \A j \in Instance : /\ EndSaid(j)' => EndSaid(j)
                            /\ EndSaid(j) => EndSaid(j)' \/ j \in lost'
    BY <2>1, <2>2 DEF EndSaid, EndOnWay
  <2> QED
    BY <1>0, <1>d, <2>1, <2>3, LivesStay
<1>15. CASE Relay
  <2>1. /\ session # 0 /\ (UNCHANGED down \/ Pass(session, ClearTaint))
        /\ lost \subseteq lost' /\ UNCHANGED <<hostVars, sent, out, carry, startup, wire, told>>
    BY <1>15 DEF Relay, Say
  <2>2. session \in StreamId
    BY <1>0, <2>1 DEF Typed, MasterTyped
  <2> QED
    BY <1>13, <2>1, <2>2, FrameMakers, CommandsDiffer
<1>16. ASSUME NEW n \in StreamId, Close(n) PROVE Lives'
  <2>1. /\ wire' = [wire EXCEPT ![n] = << >>]
        /\ lost' = lost \cup Ends(wire[n])
        /\ UNCHANGED <<hostVars, sent, down, out, carry, startup, told>>
    BY <1>16 DEF Close
  <2>2. wire'[n] = << >> /\ \A k \in StreamId \ {n} : wire'[k] = wire[k]
    BY <1>0, <2>1 DEF Typed, WireTyped
  <2>3. Ends(<< >>) = {}
    BY EndsOf, FrameSequences
  <2>4. \A i \in Instance : /\ OnWire(i)' => OnWire(i)
                            /\ OnWire(i) => OnWire(i)' \/ i \in lost'
    BY <2>1, <2>2, <2>3 DEF OnWire
  <2>5. \A i \in Instance : /\ EndSaid(i)' => EndSaid(i)
                            /\ EndSaid(i) => EndSaid(i)' \/ i \in lost'
    BY <2>1, <2>4 DEF EndSaid, EndOnWay, OnWire
  <2> QED
    BY <1>0, <1>d, <2>1, <2>5, LivesStay
<1>17. CASE Crash
  <2>1. /\ lost' = lost \cup Ends(out) \cup Ends(carry) \cup Ends(startup)
                    \cup (IF stream = 0 THEN {} ELSE Orders(down[stream]))
                    \cup {i \in Instance \ journal : view[i] \in Live \/ UntoldEnd(i)}
        /\ view' = [i \in Instance |-> None]
        /\ out' = << >> /\ carry' = << >> /\ startup' = << >>
        /\ down' = [n \in StreamId |-> IF n = stream THEN << >> ELSE down[n]]
        /\ entries' = journal /\ UNCHANGED <<journal, kept, wire, told, sent>>
    BY <1>17 DEF Crash
  <2>2. \A n \in StreamId : down'[n] = << >>
    BY <1>0, <2>1 DEF Streams, Linked
  <2>3. \A n \in StreamId : down'[n] \in {down[n], << >>}
    BY <2>2
  <2>4. ASSUME NEW i \in Instance PROVE OrderedOnce(i)' /\ Final(i)' /\ Accounted(i)'
    <3>1. view'[i] = None
      BY <2>1
    <3>2. ~Ordered(i)'
      BY <2>2, ElementsShort DEF Ordered
    <3>3. Ordered(i) => i \in lost'
      <4>1. ASSUME NEW n \in StreamId, RunFault(i) \in Elements(down[n]) PROVE i \in lost'
        <5>1. down[n] # << >>
          BY <4>1, ElementsShort
        <5>2. n = stream /\ stream # 0
          BY <1>0, <5>1, StreamFacts DEF Streams, Linked
        <5>3. i \in Orders(down[stream])
          BY <1>a, <4>1, <5>2, OrdersIs
        <5> QED
          BY <2>1, <5>2, <5>3
      <4> QED
        BY <4>1 DEF Ordered
    <3>4. Ends(<< >>) = {}
      BY EndsOf, FrameSequences
    <3>5. EndSaid(i)' => EndSaid(i)
      BY <2>1, <3>4 DEF EndSaid, EndOnWay
    <3>6. EndSaid(i) => EndSaid(i)' \/ i \in lost'
      BY <2>1 DEF EndSaid, EndOnWay
    <3>7. \A n \in StreamId : Once(down'[n], RunFault(i))
      BY <1>0, <2>3, OrdersFewer
    <3>8. OrderedOnce(i)'
      BY <1>a, <2>1, <3>1, <3>2, <3>5, <3>7 DEF OrderedOnce
    <3>9. Final(i)'
      BY <1>a, <2>1, <3>1, <3>5, ViewsAre DEF Final
    <3>10. (view[i] \in Live \/ UntoldEnd(i)) /\ i \notin journal => i \in lost'
      BY <2>1
    <3>11. i \in lost => i \in lost'
      BY <2>1
    <3>12. i \in sent => EndSaid(i) \/ view[i] \in Live \/ i \in lost
                          \/ Ordered(i) \/ UntoldEnd(i) \/ i \in journal
      <4>1. i \in entries => i \in journal
        BY <1>0 DEF Held
      <4> QED
        BY <1>a, <4>1, AccountedIs
    <3>13. i \in sent' => EndSaid(i)' \/ i \in lost' \/ i \in entries'
      BY <2>1, <3>3, <3>6, <3>10, <3>11, <3>12
    <3>14. Accounted(i)'
      BY <3>13 DEF Accounted, EndSaid
    <3> QED
      BY <3>8, <3>9, <3>14
  <2> QED
    BY <2>4 DEF Lives
<1>18. ASSUME NEW i \in Instance, Order(i) PROVE Lives'
  <2>1. /\ session # 0 /\ i \notin sent /\ sent' = sent \cup {i}
        /\ Say(session, RunFault(i))
        /\ UNCHANGED <<view, todo, journal, kept, entries, out, carry, startup, wire, told>>
    BY <1>18 DEF Order
  <2>2. session \in StreamId
    BY <1>0, <2>1 DEF Typed, MasterTyped
  <2>3. RunFault(i) \in Command /\ <<RunFault(i)>> \in Seq(Command)
    BY FrameMakers, FrameSequences
  <2>4. \A j \in Instance : EndSaid(j)' <=> EndSaid(j)
    BY <1>c, <2>1
  <2>5. lost \subseteq lost'
    BY <2>1 DEF Say
  <2>6. ASSUME NEW j \in Instance \ {i} PROVE OrderedOnce(j)' /\ Final(j)' /\ Accounted(j)'
    <3>1. RunFault(i) # RunFault(j)
      BY CommandsDiffer
    <3>2. (Ordered(j)' <=> Ordered(j)) /\ \A k \in StreamId : Once(down'[k], RunFault(j))
      BY <1>0, <1>d, <2>1, <2>2, <2>3, <3>1, OrdersSaid DEF Say
    <3>3. j \in sent' <=> j \in sent
      BY <2>1
    <3>4. OrderedOnce(j)'
      BY <1>a, <2>1, <2>4, <3>2, <3>3 DEF OrderedOnce
    <3>5. Final(j)'
      BY <1>a, <2>1, <2>4 DEF Final
    <3>6. UntoldEnd(j)' <=> UntoldEnd(j)
      BY <2>1 DEF UntoldEnd
    <3>7. j \in sent' => EndSaid(j)' \/ view'[j] \in Live \/ j \in lost'
                         \/ Ordered(j)' \/ UntoldEnd(j)' \/ j \in entries'
      BY <1>a, <2>1, <2>4, <2>5, <3>2, <3>3, <3>6, AccountedIs
    <3>8. Accounted(j)'
      BY <3>7 DEF Accounted, EndSaid
    <3> QED
      BY <3>4, <3>5, <3>8
  <2>7. OrderedOnce(i)' /\ Final(i)' /\ Accounted(i)'
    <3>1. ~Ordered(i) /\ view[i] = None /\ i \notin journal /\ ~EndSaid(i)
      BY <1>a, <2>1 DEF OrderedOnce
    <3>2. \A n \in StreamId : RunFault(i) \notin Elements(down[n])
      BY <3>1 DEF Ordered
    <3>3. /\ \A k \in StreamId \ {session} : down'[k] = down[k]
          /\ \/ /\ down'[session] = Append(down[session], RunFault(i))
                /\ Elements(down'[session]) = Elements(down[session]) \cup {RunFault(i)}
             \/ down' = down /\ lost' = lost \cup Orders(<<RunFault(i)>>)
      BY <1>0, <2>1, <2>2, <2>3, DownSaid
    <3>4. Once(Append(down[session], RunFault(i)), RunFault(i))
      BY <1>a, <1>b, <2>2, <2>3, <3>2, OnceOf
    <3>5. \A n \in StreamId : Once(down'[n], RunFault(i))
      BY <1>b, <3>3, <3>4
    <3>6. OrderedOnce(i)' /\ Final(i)'
      BY <2>1, <2>4, <3>1, <3>5 DEF OrderedOnce, Final
    <3>7. Ordered(i)' \/ i \in lost'
      <4>1. i \in Orders(<<RunFault(i)>>)
        BY <2>3, OrdersIs, ElementsShort
      <4> QED
        BY <2>2, <3>3, <4>1 DEF Ordered
    <3>8. Accounted(i)'
      BY <3>7 DEF Accounted
    <3> QED
      BY <3>6, <3>8
  <2> QED
    BY <2>6, <2>7 DEF Lives
<1> QED
  BY <1>1, <1>2, <1>3, <1>4, <1>5, <1>6, <1>7, <1>8, <1>9, <1>10, <1>11, <1>12, <1>14, <1>15,
     <1>16, <1>17, <1>18, <1>19, <1>20, <1>21, <1>22
  DEF Next, Program, Environment, Task, Loop, Boot, Master, Pushing, Aside, Taking

-----------------------------------------------------------------------------
(***************************************************************************)
(* The news.                                                               *)
(***************************************************************************)
(* What is true of a topic now.                                             *)
Topical(t, v) ==
  \/ t = TaintTopic /\ v = taint /\ Sure
  \/ \E i \in Instance : t = ViewTopic(i) /\ v = view[i] /\ view[i] \in Live

(* News stay on their way while nothing on that way moves.                  *)
LEMMA NewsStay ==
  ASSUME NEW t, NEW v,
         UNCHANGED <<out, carry, stage, stream, link, wire, told, flag, late>>
  PROVE  OnItsWay(t, v) => OnItsWay(t, v)'
<1>1. Unreported(t) => Unreported(t)'
  BY DEF Unreported
<1>2. ~Open => ~Open'
  BY DEF Open
<1>3. Arrives(t, v) => Arrives(t, v)'
  BY DEF Arrives, Known
<1> QED
  BY <1>1, <1>2, <1>3 DEF OnItsWay

(* A frame an agent's task emits is the news of what it is about.           *)
LEMMA NewsEmit ==
  ASSUME LoopTyped, NEW f \in Frame, out' = Append(out, f), NEW t, NEW v,
         UNCHANGED <<carry, stage, stream, link, wire, told, flag, late>>
  PROVE  /\ Says(f, t, v) => OnItsWay(t, v)'
         /\ t \notin Topics(f) /\ OnItsWay(t, v) => OnItsWay(t, v)'
<1>1. out \in Seq(Frame)
  BY DEF LoopTyped
<1>2. Unreported(t) => Unreported(t)'
  BY DEF Unreported
<1>3. ~Open => ~Open'
  BY DEF Open
<1>4. Arrives(t, v) => Arrives(t, v)'
  BY DEF Arrives, Known
<1>5. /\ Says(f, t, v) => Right(out', t, v)
      /\ t \notin Topics(f) /\ Right(out, t, v) => Right(out', t, v)
      /\ t \notin Topics(f) /\ Silent(out, t) => Silent(out', t)
  BY <1>1, NewsAppend
<1> QED
  BY <1>2, <1>3, <1>4, <1>5 DEF OnItsWay

(* So is a frame the loop puts into the stream.                             *)
LEMMA NewsPut ==
  ASSUME Typed, stream \in StreamId, NEW f \in Frame, Put(f), NEW t, NEW v,
         UNCHANGED <<stream, told, flag, late>>
  PROVE  /\ Says(f, t, v) => ~Open' \/ Arrives(t, v)'
         /\ t \notin Topics(f) /\ (~Open \/ Arrives(t, v)) => ~Open' \/ Arrives(t, v)'
<1>1. wire[stream] \in Seq(Frame) /\ wire \in [StreamId -> Seq(Frame)]
  BY DEF Typed, WireTyped
<1>2. Open' <=> Open
  BY DEF Put, Open
<1>3. ASSUME Open PROVE wire'[stream'] = Append(wire[stream], f)
  BY <1>1, <1>3 DEF Put
<1>4. ASSUME Open, Says(f, t, v) PROVE Arrives(t, v)'
  <2>1. Right(wire'[stream'], t, v)
    BY <1>1, <1>3, <1>4, NewsAppend
  <2> QED
    BY <2>1 DEF Arrives
<1>5. ASSUME Open, t \notin Topics(f), Arrives(t, v) PROVE Arrives(t, v)'
  <2>1. /\ Right(wire[stream], t, v) => Right(wire'[stream'], t, v)
        /\ Silent(wire[stream], t) => Silent(wire'[stream'], t)
    BY <1>1, <1>3, <1>5, NewsAppend
  <2> QED
    BY <1>5, <2>1 DEF Arrives, Known
<1> QED
  BY <1>2, <1>4, <1>5

(* A carry that is not empty holds one frame.                               *)
LEMMA CarryIs ==
  ASSUME LoopTyped, carry # << >>
  PROVE  carry[1] \in Frame /\ carry = <<carry[1]>>
<1>1. carry \in Seq(Frame) /\ Len(carry) <= 1
  BY DEF LoopTyped
<1>2. /\ Len(carry) \in Nat \ {0} /\ DOMAIN carry = 1..Len(carry)
      /\ Head(carry) \in Frame /\ Head(carry) = carry[1]
  BY <1>1, TailFacts
<1>3. Len(carry) = 1
  BY <1>1, <1>2
<1> QED
  BY <1>1, <1>2, <1>3

(* A pushing loop leaves what is true on its way.                           *)
LEMMA NewsPushed ==
  ASSUME LinkInv, Pushing, NEW t, NEW v, Topical(t, v), OnItsWay(t, v)
  PROVE  OnItsWay(t, v)'
<1> USE DEF hostVars, loopVars, wireVars, masterVars, readerVars, history
<1>0. Typed /\ LoopTyped /\ HostTyped /\ Streams /\ Held /\ TaintNews
  BY DEF LinkInv, Typed, Agent
<1>a. stream \in StreamId /\ UNCHANGED <<link, stream, told, flag, late>>
  BY <1>0, PushingWires, PushingIs
<1>b. out \in Seq(Frame) /\ carry \in Seq(Frame) /\ startup \in Seq(Frame)
  BY <1>0 DEF LoopTyped
<1>c. ASSUME NEW f \in Frame, Put(f)
      PROVE  /\ Says(f, t, v) => ~Open' \/ Arrives(t, v)'
             /\ t \notin Topics(f) /\ (~Open \/ Arrives(t, v)) => ~Open' \/ Arrives(t, v)'
  BY <1>0, <1>a, <1>c, NewsPut
<1>d. ASSUME NEW gone, Leave(gone) PROVE Unreported(t)'
  BY <1>d DEF Leave, Unreported
<1>e. /\ Silent(<< >>, t) /\ ~Right(<< >>, t, v)
      /\ \A f : Silent(<<f>>, t) <=> t \notin Topics(f)
      /\ \A f : Right(<<f>>, t, v) <=> Says(f, t, v)
  BY NewsShort
<1>f. Right(out, t, v) \/ Silent(out, t)
  BY DEF OnItsWay
<1>1. CASE SendReport
  <2>1. /\ stage = "report" /\ UNCHANGED out
        /\ \/ Put(Report(Snapshot)) /\ stage' = "taint" /\ UNCHANGED carry
           \/ Leave(Ends(carry)) /\ carry' = <<Report(Snapshot)>>
    BY <1>1 DEF SendReport
  <2>2. Report(Snapshot) \in Frame
    BY <1>0, SnapshotIs
  <2>3. t # TaintTopic => Says(Report(Snapshot), t, v)
    <3>1. ASSUME NEW i \in Instance, t = ViewTopic(i), v = view[i], view[i] \in Live
          PROVE  Says(Report(Snapshot), t, v)
      <4>1. Snapshot[i] = v /\ v # None
        BY <3>1, ViewsAre DEF Snapshot
      <4> QED
        BY <3>1, <4>1, SaysOf
    <3> QED
      BY <3>1 DEF Topical
  <2>4. t = TaintTopic => t \notin Topics(Report(Snapshot))
    BY TopicsOf, TopicsDiffer
  <2>5. CASE Put(Report(Snapshot)) /\ stage' = "taint" /\ UNCHANGED carry
    <3>1. t = TaintTopic => Unreported(t)'
      BY <2>5 DEF Unreported
    <3>2. t # TaintTopic => ~Open' \/ Arrives(t, v)'
      BY <1>c, <2>2, <2>3, <2>5
    <3> QED
      BY <2>1, <2>5, <3>1, <3>2 DEF OnItsWay
  <2>6. CASE Leave(Ends(carry)) /\ carry' = <<Report(Snapshot)>>
    <3>1. /\ t # TaintTopic => Right(carry', t, v)
          /\ t = TaintTopic => Silent(carry', t)
      BY <1>e, <2>3, <2>4, <2>6
    <3>2. Unreported(t)'
      BY <1>d, <2>6
    <3> QED
      BY <1>f, <2>1, <3>1, <3>2 DEF OnItsWay
  <2> QED
    BY <2>1, <2>5, <2>6
<1>2. CASE SendTaint
  <2>1. /\ stage = "taint" /\ UNCHANGED out
        /\ \/ Put(TaintStatus(taint)) /\ UNCHANGED carry
           \/ Leave(Ends(carry)) /\ carry' = <<TaintStatus(taint)>>
    BY <1>2 DEF SendTaint
  <2>2. TaintStatus(taint) \in Frame
    BY <1>0, FrameMakers DEF HostTyped
  <2>3. /\ t = TaintTopic => Says(TaintStatus(taint), t, v)
        /\ t # TaintTopic => t \notin Topics(TaintStatus(taint))
    <3>1. t = TaintTopic => v = taint
      BY TopicsDiffer DEF Topical
    <3> QED
      BY <3>1, SaysOf, TopicsOf
  <2>4. CASE Put(TaintStatus(taint)) /\ UNCHANGED carry
    <3>1. t # TaintTopic => ~Unreported(t)
      BY <2>1 DEF Unreported
    <3>2. t = TaintTopic => ~Open' \/ Arrives(t, v)'
      BY <1>c, <2>2, <2>3, <2>4
    <3>3. t # TaintTopic /\ (~Open \/ Arrives(t, v)) => ~Open' \/ Arrives(t, v)'
      BY <1>c, <2>2, <2>3, <2>4
    <3> QED
      BY <2>1, <2>4, <3>1, <3>2, <3>3 DEF OnItsWay
  <2>5. CASE Leave(Ends(carry)) /\ carry' = <<TaintStatus(taint)>>
    <3>1. /\ t = TaintTopic => Right(carry', t, v)
          /\ t # TaintTopic => Silent(carry', t)
      BY <1>e, <2>3, <2>5
    <3>2. Unreported(t)'
      BY <1>d, <2>5
    <3> QED
      BY <1>f, <2>1, <3>1, <3>2 DEF OnItsWay
  <2> QED
    BY <2>1, <2>4, <2>5
<1>3. ASSUME Leave({}), UNCHANGED <<out, carry>> PROVE OnItsWay(t, v)'
  BY <1>3, <1>d DEF OnItsWay
<1>4. CASE SendStartup
  <2>1. /\ stage = "startup" /\ UNCHANGED <<out, carry>>
        /\ (Put(Head(startup)) /\ startup' = Tail(startup)) \/ Leave({})
    BY <1>4 DEF SendStartup
  <2>2. startup # << >> /\ Forgotten
    BY <1>0, <2>1 DEF Held
  <2>3. Head(startup) \in Frame /\ 1 \in DOMAIN startup /\ Head(startup) = startup[1]
    <3>1. Len(startup) \in Nat \ {0} /\ DOMAIN startup = 1..Len(startup)
          /\ Head(startup) \in Frame /\ Head(startup) = startup[1]
      BY <1>b, <2>2, TailFacts
    <3> QED
      BY <3>1
  <2>4. t = TaintTopic /\ v = taint /\ Sure
    BY <2>2, ViewsAre DEF Topical, Forgotten
  <2>5. Says(Head(startup), t, v) \/ t \notin Topics(Head(startup))
    <3>1. CASE \E b \in BOOLEAN : Head(startup) = TaintStatus(b)
      <4>1. PICK b \in BOOLEAN : Head(startup) = TaintStatus(b)
        BY <3>1
      <4>2. Head(startup).type = "TaintStatus"
        BY <4>1, FrameFields
      <4>3. taint /\ Head(startup) = TaintStatus(TRUE)
        BY <1>0, <2>3, <2>4, <4>2 DEF TaintNews
      <4>4. taint = TRUE
        BY <1>0, <4>3 DEF HostTyped
      <4>5. Head(startup) = TaintStatus(taint)
        BY <4>3, <4>4
      <4> QED
        BY <2>4, <4>5, SaysOf
    <3>2. CASE ~\E b \in BOOLEAN : Head(startup) = TaintStatus(b)
      BY <2>3, <2>4, <3>2, FrameKinds, TopicsOf, TopicsDiffer
    <3> QED
      BY <3>1, <3>2
  <2>6. CASE Put(Head(startup))
    <3>1. ~Unreported(t)
      BY <2>1 DEF Unreported
    <3>2. ~Open \/ Arrives(t, v) => ~Open' \/ Arrives(t, v)'
      BY <1>c, <2>3, <2>5, <2>6
    <3> QED
      BY <2>1, <3>1, <3>2 DEF OnItsWay
  <2> QED
    BY <1>3, <2>1, <2>6
<1>5. CASE SendCarry
  <2>1. /\ stage = "carry" /\ UNCHANGED out
        /\ (Put(carry[1]) /\ carry' = << >>) \/ (Leave({}) /\ UNCHANGED carry)
    BY <1>5 DEF SendCarry
  <2>2. carry[1] \in Frame /\ carry = <<carry[1]>>
    BY <1>0, <2>1, CarryIs DEF Held
  <2>3. /\ Right(carry, t, v) <=> Says(carry[1], t, v)
        /\ Silent(carry, t) <=> t \notin Topics(carry[1])
    BY <1>e, <2>2
  <2>4. CASE Put(carry[1]) /\ carry' = << >>
    <3>1. ~Unreported(t)
      BY <2>1 DEF Unreported
    <3>2. Silent(carry', t)
      BY <1>e, <2>4
    <3>3. /\ Says(carry[1], t, v) => ~Open' \/ Arrives(t, v)'
          /\ t \notin Topics(carry[1]) /\ (~Open \/ Arrives(t, v)) => ~Open' \/ Arrives(t, v)'
      BY <1>c, <2>2, <2>4
    <3> QED
      BY <2>1, <2>3, <3>1, <3>2, <3>3 DEF OnItsWay
  <2> QED
    BY <1>3, <2>1, <2>4
<1>6. CASE SendBeat
  <2>1. /\ stage = "beat" /\ UNCHANGED <<out, carry>>
        /\ Put(Heartbeat) \/ Leave({})
    BY <1>6 DEF SendBeat
  <2>2. Heartbeat \in Frame /\ t \notin Topics(Heartbeat)
    BY FrameMakers, TopicsOf
  <2>3. CASE Put(Heartbeat)
    <3>1. ~Unreported(t)
      BY <2>1, TopicsDiffer DEF Unreported
    <3>2. ~Open \/ Arrives(t, v) => ~Open' \/ Arrives(t, v)'
      BY <1>c, <2>2, <2>3
    <3> QED
      BY <2>1, <3>1, <3>2 DEF OnItsWay
  <2> QED
    BY <1>3, <2>1, <2>3
<1>7. CASE Notice
  BY <1>3, <1>7 DEF Notice
<1> QED
  BY <1>1, <1>2, <1>4, <1>5, <1>6, <1>7 DEF Pushing

(* So does a loop that takes a frame in hand.                               *)
LEMMA NewsTaken ==
  ASSUME Typed, Held, Taking, NEW t, NEW v, OnItsWay(t, v)
  PROVE  OnItsWay(t, v)'
<1>1. /\ stage = "up" /\ stage' \in {"carry", "beat"}
      /\ UNCHANGED <<stream, link, wire, told, flag, late>>
      /\ \/ out # << >> /\ carry' = <<Head(out)>> /\ out' = Tail(out)
         \/ UNCHANGED <<out, carry>>
  BY TakingIs DEF wireVars, masterVars, history
<1>2. ~Unreported(t) /\ carry = << >>
  BY <1>1 DEF Unreported, Held
<1>3. ~Open \/ Arrives(t, v) => ~Open' \/ Arrives(t, v)'
  BY <1>1 DEF Open, Arrives, Known
<1>4. CASE UNCHANGED <<out, carry>>
  BY <1>2, <1>3, <1>4 DEF OnItsWay
<1>5. CASE out # << >> /\ carry' = <<Head(out)>> /\ out' = Tail(out)
  <2>1. /\ Right(out, t, v) => Right(out', t, v) \/ (Silent(out', t) /\ Says(Head(out), t, v))
        /\ Silent(out, t) => Silent(out', t) /\ t \notin Topics(Head(out))
    BY <1>5, NewsTail DEF Typed, LoopTyped
  <2>2. /\ Right(carry', t, v) <=> Says(Head(out), t, v)
        /\ Silent(carry', t) <=> t \notin Topics(Head(out))
        /\ ~Right(carry, t, v)
    BY <1>2, <1>5, NewsShort
  <2> QED
    BY <1>2, <1>3, <2>1, <2>2 DEF OnItsWay
<1> QED
  BY <1>1, <1>4, <1>5

(* What the master knows of a topic after it read a frame.                  *)
LEMMA IntakeKnows ==
  ASSUME Typed, NEW n \in StreamId, Intake(n), NEW t, NEW v,
         t = TaintTopic \/ \E i \in Instance : t = ViewTopic(i) /\ told[i] \notin Terminal /\ v # None
  PROVE  /\ Head(wire[n]) \in Frame
         /\ t \notin Topics(Head(wire[n])) => Known(t)' = Known(t)
         /\ Says(Head(wire[n]), t, v) => Known(t)' = v
<1> DEFINE f == Head(wire[n])
<1>1. /\ wire[n] # << >>
      /\ flag' = IF f.type = "TaintStatus" THEN f.tainted ELSE flag
      /\ told' = CASE f.type = "InstanceStatus" ->
                        [told EXCEPT ![f.about] = Told(f.about, f.state)]
                   [] f.type = "InstanceReport" -> [j \in Instance |-> Told(j, f.view[j])]
                   [] OTHER -> told
  BY DEF Intake
<1>2. f \in Frame /\ told \in [Instance -> View]
  <2>1. wire[n] \in Seq(Frame) /\ told \in [Instance -> View]
    BY DEF Typed, WireTyped, MasterTyped
  <2> QED
    BY <1>1, <2>1, TailFacts
<1> HIDE DEF f
<1>3. ASSUME t = TaintTopic
      PROVE  (t \notin Topics(f) => Known(t)' = Known(t)) /\ (Says(f, t, v) => Known(t)' = v)
  <2>1. Known(t) = flag /\ Known(t)' = flag'
    BY <1>3 DEF Known
  <2>2. ASSUME NEW b \in BOOLEAN, f = TaintStatus(b)
        PROVE  f.type = "TaintStatus" /\ t \in Topics(f)
    BY <1>3, <2>2, FrameFields, TopicsOf
  <2>3. ASSUME ~\E b \in BOOLEAN : f = TaintStatus(b)
        PROVE  f.type # "TaintStatus" /\ t \notin Topics(f)
    BY <1>2, <1>3, <2>3, FrameKinds, FrameFields, TopicsOf, TopicsDiffer
  <2>4. Says(f, t, v) => t \in Topics(f) /\ v = f.tainted
    BY <1>3 DEF Says
  <2> QED
    BY <1>1, <2>1, <2>2, <2>3, <2>4
<1>4. ASSUME NEW i \in Instance, t = ViewTopic(i), told[i] \notin Terminal, v # None
      PROVE  (t \notin Topics(f) => Known(t)' = Known(t)) /\ (Says(f, t, v) => Known(t)' = v)
  <2>1. Known(t) = told[i] /\ Known(t)' = told'[i] /\ t # TaintTopic /\ t[2] = i
    BY <1>4, TopicsDiffer DEF Known
  <2>2. ASSUME NEW j \in Instance, NEW s \in Live \cup Terminal, f = Status(j, s)
        PROVE  (t \notin Topics(f) => Known(t)' = Known(t)) /\ (Says(f, t, v) => Known(t)' = v)
    <3>1. f.type = "InstanceStatus" /\ f.about = j /\ f.state = s /\ Topics(f) = {ViewTopic(j)}
      BY <2>2, FrameFields, TopicsOf
    <3>2. told' = [told EXCEPT ![j] = Told(j, s)]
      BY <1>1, <3>1
    <3>3. t \in Topics(f) <=> i = j
      BY <1>4, <3>1, TopicsDiffer
    <3>4. Says(f, t, v) => i = j /\ v = s
      BY <2>1, <3>1, <3>3 DEF Says
    <3>5. told'[i] = IF i = j THEN Told(i, s) ELSE told[i]
      BY <1>2, <3>2
    <3> QED
      BY <1>4, <2>1, <3>3, <3>4, <3>5 DEF Told
  <2>3. ASSUME NEW w \in [Instance -> Live \cup {None}], f = Report(w)
        PROVE  (t \notin Topics(f) => Known(t)' = Known(t)) /\ (Says(f, t, v) => Known(t)' = v)
    <3>1. f.type = "InstanceReport" /\ f.view = w
          /\ Topics(f) = {ViewTopic(j) : j \in {h \in Instance : w[h] # None}}
      BY <2>3, FrameFields, TopicsOf
    <3>2. told'[i] = Told(i, w[i])
      BY <1>1, <3>1
    <3>3. t \in Topics(f) <=> w[i] # None
      BY <1>4, <3>1, TopicsDiffer
    <3>4. Says(f, t, v) => w[i] # None /\ v = w[i]
      BY <2>1, <3>1, <3>3 DEF Says
    <3> QED
      BY <1>4, <2>1, <3>2, <3>3, <3>4 DEF Told
  <2>4. ASSUME f = Register \/ f = Heartbeat \/ \E b \in BOOLEAN : f = TaintStatus(b)
        PROVE  (t \notin Topics(f) => Known(t)' = Known(t)) /\ (Says(f, t, v) => Known(t)' = v)
    <3>1. told' = told
      BY <1>1, <2>4, FrameFields
    <3>2. t \notin Topics(f)
      BY <1>4, <2>4, TopicsOf, TopicsDiffer
    <3> QED
      BY <2>1, <3>1, <3>2 DEF Says
  <2> QED
    BY <1>2, <2>2, <2>3, <2>4, FrameKinds
<1> QED
  BY <1>2, <1>3, <1>4 DEF f

(* A master that reads has what is on the wire, or comes to know it, or     *)
(* reads an older stream.                                                   *)
LEMMA ArrivesIntake ==
  ASSUME LinkInv, NEW n \in StreamId, Intake(n), NEW t, NEW v,
         t = TaintTopic \/ \E i \in Instance : t = ViewTopic(i) /\ told[i] \notin Terminal /\ v # None,
         ~Unreported(t), Arrives(t, v)
  PROVE  Arrives(t, v)'
<1> DEFINE f == Head(wire[n])
<1>0. Typed /\ Streams
  BY DEF LinkInv
<1>1. /\ wire[n] # << >> /\ wire' = [wire EXCEPT ![n] = Tail(@)]
      /\ link[n] \in {"open", "broken"}
      /\ UNCHANGED <<out, carry, stage, stream, link>>
      /\ late' = IF n < newest THEN late \cup Topics(f) ELSE late \ Topics(f)
  BY DEF Intake, loopVars
<1>2. wire \in [StreamId -> Seq(Frame)]
  BY <1>0 DEF Typed, WireTyped
<1>3. /\ t \notin Topics(f) => Known(t)' = Known(t)
      /\ Says(f, t, v) => Known(t)' = v
  BY <1>0, IntakeKnows
<1> HIDE DEF f
<1>4. stage \in Registered
  BY <1>0 DEF Unreported, Registered, Typed, LoopTyped, Stages
<1>5. stream \in StreamId /\ newest = stream
  <2>1. stage \notin {"boot", "down"}
    BY <1>4 DEF Registered
  <2> QED
    BY <1>0, <1>4, <2>1, HasStream DEF Streams, Heeded
<1>6. Arrives(t, v)' <=>
        \/ Right(wire'[stream], t, v)
        \/ Silent(wire'[stream], t) /\ (Known(t)' = v \/ t \in late')
  BY <1>1 DEF Arrives
<1>7. CASE n = stream
  <2>1. wire'[stream] = Tail(wire[n]) /\ late' = late \ Topics(f)
    <3>1. ~(n < newest)
      BY <1>5, <1>7, StreamFacts
    <3> QED
      BY <1>1, <1>2, <1>5, <1>7, <3>1
  <2>2. /\ Right(wire[n], t, v) => Right(Tail(wire[n]), t, v)
                                   \/ (Silent(Tail(wire[n]), t) /\ Says(f, t, v))
        /\ Silent(wire[n], t) => Silent(Tail(wire[n]), t) /\ t \notin Topics(f)
    BY <1>1, <1>2, NewsTail DEF f
  <2>3. Right(wire[n], t, v) \/ (Silent(wire[n], t) /\ (Known(t) = v \/ t \in late))
    BY <1>7 DEF Arrives
  <2> QED
    BY <1>3, <1>6, <2>1, <2>2, <2>3
<1>8. CASE n # stream
  <2>1. n < newest
    <3>1. ~(n > stream)
      BY <1>0, <1>1 DEF Streams, Linked
    <3> QED
      BY <1>5, <1>8, <3>1, StreamFacts
  <2>2. wire'[stream] = wire[stream] /\ late' = late \cup Topics(f)
    BY <1>1, <1>2, <1>5, <1>8, <2>1
  <2>3. Right(wire[stream], t, v) \/ (Silent(wire[stream], t) /\ (Known(t) = v \/ t \in late))
    BY DEF Arrives
  <2> QED
    BY <1>3, <1>6, <2>2, <2>3
<1> QED
  BY <1>7, <1>8

(* So does one that reads while what is true is anywhere on its way.        *)
LEMMA NewsIntake ==
  ASSUME LinkInv, NEW n \in StreamId, Intake(n), NEW t, NEW v, Topical(t, v), OnItsWay(t, v)
  PROVE  OnItsWay(t, v)'
<1>1. UNCHANGED <<out, carry, stage, stream, link>>
  BY DEF Intake, loopVars
<1>2. t = TaintTopic \/ \E i \in Instance : t = ViewTopic(i) /\ told[i] \notin Terminal /\ v # None
  <2>1. ASSUME NEW i \in Instance, view[i] \in Live PROVE told[i] \notin Terminal /\ view[i] # None
    BY <2>1, ViewsAre DEF LinkInv, Lives, Final, EndSaid
  <2> QED
    BY <2>1 DEF Topical
<1>3. ~Unreported(t) /\ Arrives(t, v) => Arrives(t, v)'
  BY <1>2, ArrivesIntake
<1>4. Unreported(t) => Unreported(t)'
  BY <1>1 DEF Unreported
<1>5. ~Open => ~Open'
  BY <1>1 DEF Open
<1> QED
  BY <1>1, <1>3, <1>4, <1>5 DEF OnItsWay

(* A stream that goes down, the newest or another.                          *)
LEMMA ArrivesCut ==
  ASSUME Typed, Streams, NEW n \in StreamId, NEW l, link' = [link EXCEPT ![n] = l], l # "open",
         \A k \in StreamId \ {n} : wire'[k] = wire[k],
         UNCHANGED <<stage, stream, told, flag, late>>, Connected,
         NEW t, NEW v, ~Open \/ Arrives(t, v)
  PROVE  ~Open' \/ Arrives(t, v)'
<1>1. ~Open' \/ (Open /\ wire'[stream'] = wire[stream])
  <2>1. stream \in StreamId
    BY HasStream DEF Connected
  <2>2. link \in [StreamId -> {"unused", "open", "broken", "closed"}]
    BY DEF Typed, WireTyped
  <2> QED
    BY <2>1, <2>2 DEF Open
<1>2. wire'[stream'] = wire[stream] => (Arrives(t, v) => Arrives(t, v)')
  BY DEF Arrives, Known
<1> QED
  BY <1>1, <1>2

(* The steps in which no task of the agent performs an effect.              *)
Relaying ==
  \/ Pushing \/ Taking \/ Connect \/ AwaitAck \/ Receive \/ Booted \/ AbandonReplay \/ Aside
  \/ (\E i \in Instance : React(i) \/ ReplayEntry(i) \/ SkipEntry(i) \/ Order(i))
  \/ (\E n \in StreamId : Intake(n) \/ Acknowledge(n) \/ Close(n) \/ Break(n))
  \/ Relay \/ UNCHANGED vars

(* In all of them what is true stays on its way.                            *)
LEMMA NewsRelayed ==
  ASSUME LinkInv, Relaying, NEW t, NEW v, Topical(t, v), OnItsWay(t, v)
  PROVE  OnItsWay(t, v)'
<1> USE DEF hostVars, loopVars, wireVars, masterVars, readerVars, history
<1>0. Typed /\ Streams /\ Held
  BY DEF LinkInv, Agent
<1>a. ASSUME UNCHANGED <<out, carry, stage, stream, link, wire, told, flag, late>>
      PROVE  OnItsWay(t, v)'
  BY <1>a, NewsStay
<1>b. ASSUME UNCHANGED <<out, carry>>, Unreported(t)' PROVE OnItsWay(t, v)'
  BY <1>b DEF OnItsWay
<1>1. CASE Pushing
  BY <1>1, NewsPushed
<1>2. CASE Connect
  <2>1. stage' = "ack" /\ UNCHANGED <<out, carry>>
    BY <1>2 DEF Connect
  <2> QED
    BY <1>b, <2>1 DEF Unreported
<1>3. CASE AwaitAck
  <2>1. stage' \in {"ack", "report"} /\ UNCHANGED <<out, carry>>
    BY <1>3 DEF AwaitAck
  <2> QED
    BY <1>b, <2>1 DEF Unreported
<1>4. CASE Receive
  BY <1>4, <1>a DEF Receive
<1>5. CASE Booted \/ AbandonReplay
  <2>1. stage' = "down" /\ UNCHANGED <<out, carry>>
    BY <1>5 DEF Booted, AbandonReplay
  <2> QED
    BY <1>b, <2>1 DEF Unreported
<1>6. ASSUME NEW i \in Instance, React(i) PROVE OnItsWay(t, v)'
  BY <1>6, <1>a DEF React
<1>7. ASSUME NEW i \in Instance, ReplayEntry(i) \/ SkipEntry(i) PROVE OnItsWay(t, v)'
  BY <1>7, <1>a DEF ReplayEntry, SkipEntry
<1>8. ASSUME NEW i \in Instance, Order(i) PROVE OnItsWay(t, v)'
  BY <1>8, <1>a DEF Order
<1>9. ASSUME NEW n \in StreamId, Intake(n) PROVE OnItsWay(t, v)'
  BY <1>9, NewsIntake
<1>10. ASSUME NEW n \in StreamId, Acknowledge(n) PROVE OnItsWay(t, v)'
  BY <1>10, <1>a DEF Acknowledge
<1>11. ASSUME NEW n \in StreamId, NEW l, link' = [link EXCEPT ![n] = l], l # "open",
              \A k \in StreamId \ {n} : wire'[k] = wire[k],
              UNCHANGED <<out, carry, stage, stream, told, flag, late>>
       PROVE  OnItsWay(t, v)'
  <2>1. Unreported(t) => Unreported(t)'
    BY <1>11 DEF Unreported
  <2>2. ~Unreported(t) => Connected
    BY DEF Unreported, Connected
  <2>3. ~Unreported(t) /\ (~Open \/ Arrives(t, v)) => ~Open' \/ Arrives(t, v)'
    BY <1>0, <1>11, <2>2, ArrivesCut
  <2> QED
    BY <1>11, <2>1, <2>3 DEF OnItsWay
<1>12. ASSUME NEW n \in StreamId, Close(n) PROVE OnItsWay(t, v)'
  <2>1. /\ link' = [link EXCEPT ![n] = "closed"] /\ wire' = [wire EXCEPT ![n] = << >>]
        /\ UNCHANGED <<out, carry, stage, stream, told, flag, late>>
    BY <1>12 DEF Close
  <2>2. \A k \in StreamId \ {n} : wire'[k] = wire[k]
    BY <1>0, <2>1 DEF Typed, WireTyped
  <2> QED
    BY <1>11, <2>1, <2>2
<1>13. ASSUME NEW n \in StreamId, Break(n) PROVE OnItsWay(t, v)'
  <2>1. /\ link' = [link EXCEPT ![n] = "broken"]
        /\ UNCHANGED <<out, carry, stage, stream, wire, told, flag, late>>
    BY <1>13 DEF Break
  <2> QED
    BY <1>11, <2>1
<1>14. CASE Relay
  BY <1>14, <1>a DEF Relay
<1>15. CASE UNCHANGED vars
  BY <1>15, <1>a DEF vars
<1>16. CASE Aside
  BY <1>0, <1>16, <1>a, AsideIs
<1>17. CASE Taking
  BY <1>0, <1>17, NewsTaken
<1> QED
  BY <1>1, <1>2, <1>3, <1>4, <1>5, <1>6, <1>7, <1>8, <1>9, <1>10, <1>12, <1>13, <1>14, <1>15,
     <1>16, <1>17
  DEF Relaying

(* Every step is one of those, or an effect performed, or a crash.          *)
LEMMA StepsRelay ==
  ASSUME [Next]_vars
  PROVE  Relaying \/ (\E i \in Instance : Perform(i)) \/ PerformClear \/ Crash
  BY DEF Next, Program, Environment, Task, Loop, Boot, Master, Relaying, Pushing, Aside, Taking

(* The views of live instances stay known, or on their way to the master.   *)
LEMMA ViewsNewsKept ==
  ASSUME LinkInv, [Next]_vars
  PROVE  ViewsNews'
<1> USE DEF hostVars, loopVars, wireVars, masterVars, readerVars, history
<1>0. Typed /\ HostTyped /\ LoopTyped /\ Tasks /\ Clearing /\ ViewsNews
  BY DEF LinkInv, Typed, Agent
<1>a. view \in [Instance -> View] /\ todo \in [Instance -> Seq(Effect)]
  BY <1>0 DEF HostTyped
<1>b. ASSUME NEW i \in Instance, view'[i] = view[i], view[i] \in Live, todo'[i] = todo[i],
             \A v : v = view[i] /\ OnItsWay(ViewTopic(i), v) => OnItsWay(ViewTopic(i), v)'
      PROVE  todo'[i] # << >> \/ OnItsWay(ViewTopic(i), view[i])'
  <2>1. PICK v : v = view[i]
    OBVIOUS
  <2>2. todo[i] # << >> \/ OnItsWay(ViewTopic(i), v)
    BY <1>0, <1>b, <2>1 DEF ViewsNews
  <2> QED
    BY <1>b, <2>1, <2>2
<1>c. ASSUME \A i \in Instance : view'[i] \in Live =>
               todo'[i] # << >> \/ OnItsWay(ViewTopic(i), view[i])'
      PROVE  ViewsNews'
  BY <1>c DEF ViewsNews
<1>1. CASE Relaying
  <2>1. ASSUME NEW i \in Instance, view'[i] \in Live,
               view'[i] = view[i], todo'[i] = todo[i]
        PROVE  todo'[i] # << >> \/ OnItsWay(ViewTopic(i), view[i])'
    <3>1. ASSUME NEW v, v = view[i], OnItsWay(ViewTopic(i), v)
          PROVE  OnItsWay(ViewTopic(i), v)'
      <4>1. Topical(ViewTopic(i), v)
        BY <2>1, <3>1 DEF Topical
      <4> QED
        BY <1>1, <3>1, <4>1, NewsRelayed
    <3> QED
      BY <1>b, <2>1, <3>1
  <2>2. ASSUME NEW j \in Instance, React(j)
        PROVE  \A i \in Instance : view'[i] \in Live =>
                 todo'[i] # << >> \/ (view'[i] = view[i] /\ todo'[i] = todo[i])
    <3>1. PICK m \in Steps(j) : view' = [view EXCEPT ![j] = m.view]
                                /\ todo' = [todo EXCEPT ![j] = m.effects]
      BY <2>2 DEF React
    <3>2. m.view \in Live => m.effects = Telling(j, m.view) /\ Telling(j, m.view) # << >>
      <4>1. m.view \in Live => m.effects = Telling(j, m.view)
        BY <1>a, StepsAre
      <4> QED
        BY <4>1, TaskForms
    <3> QED
      BY <1>a, <3>1, <3>2
  <2>3. ASSUME Receive
        PROVE  \A i \in Instance : view'[i] \in Live =>
                 todo'[i] # << >> \/ (view'[i] = view[i] /\ todo'[i] = todo[i])
    <3>1. CASE UNCHANGED <<view, todo>>
      BY <3>1
    <3>2. ASSUME NEW a, view' = [view EXCEPT ![a] = "Pending"],
                 todo' = [todo EXCEPT ![a] = Telling(a, "Pending")]
          PROVE  \A i \in Instance : view'[i] \in Live =>
                   todo'[i] # << >> \/ (view'[i] = view[i] /\ todo'[i] = todo[i])
      <4>1. ASSUME NEW i \in Instance, i = a PROVE todo'[i] # << >>
        BY <1>a, <3>2, <4>1, TaskForms, ViewsAre
      <4> QED
        BY <1>a, <3>2, <4>1
    <3> QED
      BY <2>3, <3>1, <3>2 DEF Receive
  <2>4. (\E j \in Instance : React(j)) \/ Receive \/ UNCHANGED <<view, todo>>
    <3>1. Pushing \/ Taking \/ Aside => UNCHANGED <<view, todo>>
      BY <1>0, PushingIs, TakingIs, AsideIs
    <3> QED
      BY <1>1, <3>1 DEF Relaying, Connect, AwaitAck, Booted, AbandonReplay, ReplayEntry,
                        SkipEntry, Order, Intake, Acknowledge, Close, Break, Relay, vars
  <2>5. \A i \in Instance : view'[i] \in Live =>
          todo'[i] # << >> \/ (view'[i] = view[i] /\ todo'[i] = todo[i])
    BY <2>2, <2>3, <2>4
  <2>6. ASSUME NEW i \in Instance, view'[i] \in Live
        PROVE  todo'[i] # << >> \/ OnItsWay(ViewTopic(i), view[i])'
    BY <2>1, <2>5, <2>6
  <2> QED
    BY <1>c, <2>6
<1>2. ASSUME NEW j \in Instance, Perform(j) PROVE ViewsNews'
  <2>1. /\ view[j] \in Live \cup Terminal
        /\ Said(j) \/ Removed(j) \/ MarkedNow(j) \/ ToldTaint(j)
        /\ UNCHANGED <<view, clearing, carry, startup, stage, stream, wireVars, masterVars,
                       lost, newest, late>>
    BY <1>0, <1>a, <1>2, PerformIs DEF Tasks
  <2>2. view' = view /\ UNCHANGED <<carry, stage, stream, link, wire, told, flag, late>>
    BY <2>1
  <2>3. \A i \in Instance : i # j => todo'[i] = todo[i]
    BY <1>a, <2>1 DEF Said, Removed, MarkedNow, ToldTaint
  <2>4. CASE Said(j)
    <3>1. PICK f : f = Status(j, view[j])
      OBVIOUS
    <3>2. f \in Frame /\ out' = Append(out, f)
      BY <2>1, <2>4, <3>1, FrameMakers DEF Said
    <3>3. Says(f, ViewTopic(j), view[j]) /\ \A i : i # j => ViewTopic(i) \notin Topics(f)
      BY <3>1, SaysOf, TopicsOf, TopicsDiffer
    <3>4. OnItsWay(ViewTopic(j), view[j])'
      <4>1. PICK v : v = view[j]
        OBVIOUS
      <4>2. OnItsWay(ViewTopic(j), v)'
        BY <1>0, <2>2, <3>2, <3>3, <4>1, NewsEmit
      <4> QED
        BY <2>2, <4>1, <4>2
    <3>5. ASSUME NEW i \in Instance, i # j, view[i] \in Live
          PROVE  todo'[i] # << >> \/ OnItsWay(ViewTopic(i), view[i])'
      <4>1. \A v : OnItsWay(ViewTopic(i), v) => OnItsWay(ViewTopic(i), v)'
        BY <1>0, <2>2, <3>2, <3>3, <3>5, NewsEmit
      <4> QED
        BY <1>b, <2>2, <2>3, <3>5, <4>1
    <3>6. ASSUME NEW i \in Instance, view'[i] \in Live
          PROVE  todo'[i] # << >> \/ OnItsWay(ViewTopic(i), view[i])'
      BY <2>2, <3>4, <3>5, <3>6
    <3> QED
      BY <1>c, <3>6
  <2>5. CASE Removed(j) \/ MarkedNow(j) \/ ToldTaint(j)
    <3>1. view[j] \notin Live
      BY <2>5, ViewsAre DEF Removed, MarkedNow, ToldTaint
    <3>2. out' = out \/ out' = Append(out, TaintStatus(TRUE))
      BY <2>5 DEF Removed, MarkedNow, ToldTaint
    <3>3. \A i \in Instance : \A v : OnItsWay(ViewTopic(i), v) => OnItsWay(ViewTopic(i), v)'
      <4>1. CASE out' = out
        BY <2>2, <4>1, NewsStay
      <4>2. CASE out' = Append(out, TaintStatus(TRUE))
        <5>1. PICK f : f = TaintStatus(TRUE)
          OBVIOUS
        <5>2. f \in Frame /\ Topics(f) = {TaintTopic}
          <6>1. PICK b \in BOOLEAN : b = TRUE
            OBVIOUS
          <6>2. f = TaintStatus(b)
            BY <5>1, <6>1
          <6> QED
            BY <6>2, FrameMakers, TopicsOf
        <5>3. \A i : ViewTopic(i) \notin Topics(f)
          BY <5>2, TopicsDiffer
        <5> QED
          BY <1>0, <2>2, <4>2, <5>1, <5>2, <5>3, NewsEmit
      <4> QED
        BY <3>2, <4>1, <4>2
    <3>4. ASSUME NEW i \in Instance, view'[i] \in Live
          PROVE  todo'[i] # << >> \/ OnItsWay(ViewTopic(i), view[i])'
      <4>1. i # j /\ view[i] \in Live
        BY <2>2, <3>1, <3>4
      <4> QED
        BY <1>b, <2>2, <2>3, <3>3, <4>1
    <3> QED
      BY <1>c, <3>4
  <2> QED
    BY <2>1, <2>4, <2>5
<1>3. CASE PerformClear
  <2>1. /\ Cleared \/ ReadBack \/ ToldClear
        /\ view' = view /\ todo' = todo
        /\ UNCHANGED <<carry, stage, stream, link, wire, told, flag, late>>
    BY <1>0, <1>3, PerformClearIs
  <2>2. \A i \in Instance : \A v : OnItsWay(ViewTopic(i), v) => OnItsWay(ViewTopic(i), v)'
    <3>1. CASE out' = out
      BY <2>1, <3>1, NewsStay
    <3>2. ASSUME NEW b \in BOOLEAN, out' = Append(out, TaintStatus(b))
          PROVE  \A i \in Instance : \A v : OnItsWay(ViewTopic(i), v) => OnItsWay(ViewTopic(i), v)'
      <4>1. TaintStatus(b) \in Frame /\ \A i : ViewTopic(i) \notin Topics(TaintStatus(b))
        BY FrameMakers, TopicsOf, TopicsDiffer
      <4> QED
        BY <1>0, <2>1, <3>2, <4>1, NewsEmit
    <3> QED
      BY <2>1, <3>1, <3>2 DEF Cleared, ReadBack, ToldClear
  <2>3. ASSUME NEW i \in Instance, view'[i] \in Live
        PROVE  todo'[i] # << >> \/ OnItsWay(ViewTopic(i), view[i])'
    BY <1>b, <2>1, <2>2, <2>3
  <2> QED
    BY <1>c, <2>3
<1>4. CASE Crash
  <2>1. \A i \in Instance : view'[i] = None
    BY <1>4 DEF Crash
  <2> QED
    BY <1>c, <2>1, ViewsAre
<1> QED
  BY <1>1, <1>2, <1>3, <1>4, StepsRelay

(* Who tells the taint, before and after a task performed an effect.        *)
LEMMA TellersOf ==
  ASSUME Typed, Tasks, NEW i \in Instance, Perform(i)
  PROVE  /\ \A j \in Instance \ {i} : todo'[j] = todo[j]
         /\ Said(i) => ~TellsTaint(todo[i]) /\ ~TellsTaint(todo'[i])
         /\ Removed(i) => ~TellsTaint(todo[i]) /\ ~TellsTaint(todo'[i])
         /\ MarkedNow(i) => ~TellsTaint(todo[i]) /\ TellsTaint(todo'[i])
         /\ ToldTaint(i) => TellsTaint(todo[i]) /\ ~TellsTaint(todo'[i])
<1>1. view[i] \in View /\ todo \in [Instance -> Seq(Effect)]
  BY DEF Typed, HostTyped
<1>2. view[i] \in Live \cup Terminal /\ (Said(i) \/ Removed(i) \/ MarkedNow(i) \/ ToldTaint(i))
  BY <1>1, PerformIs DEF Tasks
<1>3. /\ ~TellsTaint(<< >>) /\ ~TellsTaint(Telling(i, view[i])) /\ ~TellsTaint(Ending(i, view[i]))
      /\ ~TellsTaint(Marked(i, view[i])) /\ TellsTaint(Tainted(i, view[i]))
  BY <1>2, WhoTellsTaint
<1>4. /\ Said(i) => todo[i] = Telling(i, view[i]) /\ todo'[i] = << >>
      /\ Removed(i) => todo[i] = Ending(i, view[i]) /\ todo'[i] = Telling(i, view[i])
      /\ MarkedNow(i) => todo[i] = Marked(i, view[i]) /\ todo'[i] = Tainted(i, view[i])
      /\ ToldTaint(i) => todo[i] = Tainted(i, view[i]) /\ todo'[i] = Ending(i, view[i])
  BY <1>1 DEF Said, Removed, MarkedNow, ToldTaint
<1>5. \A j \in Instance \ {i} : todo'[j] = todo[j]
  BY <1>1, <1>2 DEF Said, Removed, MarkedNow, ToldTaint
<1> QED
  BY <1>3, <1>4, <1>5

(* Who tells it when a task reacts or the agent receives: nobody new.       *)
LEMMA TellersStay ==
  ASSUME LinkInv, Relaying, NEW i \in Instance
  PROVE  TellsTaint(todo'[i]) <=> TellsTaint(todo[i])
<1>0. Typed /\ Tasks /\ Held
  BY DEF LinkInv, Agent
<1>a. view \in [Instance -> View] /\ todo \in [Instance -> Seq(Effect)]
  BY <1>0 DEF Typed, HostTyped
<1>1. ASSUME NEW j \in Instance, React(j) PROVE TellsTaint(todo'[i]) <=> TellsTaint(todo[i])
  <2>1. PICK m \in Steps(j) : todo' = [todo EXCEPT ![j] = m.effects]
    BY <1>1 DEF React
  <2>2. todo[j] = << >>
    BY <1>1 DEF React
  <2>3. /\ m.view \in Live \cup Terminal
        /\ \/ m.effects = Telling(j, m.view)
           \/ m.effects \in {Ending(j, m.view), Marked(j, m.view)}
    BY <1>a, StepsAre
  <2>4. ~TellsTaint(m.effects) /\ ~TellsTaint(todo[j])
    BY <2>2, <2>3, WhoTellsTaint
  <2>5. todo'[j] = m.effects /\ \A k \in Instance \ {j} : todo'[k] = todo[k]
    BY <1>a, <2>1
  <2> QED
    BY <2>4, <2>5
<1>2. ASSUME Receive PROVE TellsTaint(todo'[i]) <=> TellsTaint(todo[i])
  <2>1. CASE UNCHANGED todo
    BY <2>1
  <2>2. ASSUME NEW a, view[a] = None, todo' = [todo EXCEPT ![a] = Telling(a, "Pending")]
        PROVE  TellsTaint(todo'[i]) <=> TellsTaint(todo[i])
    <3>1. CASE i = a
      <4>1. todo[i] = << >> /\ todo'[i] = Telling(i, "Pending")
        BY <1>0, <1>a, <2>2, <3>1 DEF Tasks, TaskFits
      <4> QED
        BY <4>1, WhoTellsTaint, ViewsAre
    <3>2. CASE i # a
      BY <1>a, <2>2, <3>2
    <3> QED
      BY <3>1, <3>2
  <2> QED
    BY <1>2, <2>1, <2>2 DEF Receive
<1>3. (\E j \in Instance : React(j)) \/ Receive \/ UNCHANGED todo
  <2>1. Pushing \/ Taking \/ Aside => UNCHANGED todo
    BY <1>0, PushingIs, TakingIs, AsideIs DEF hostVars
  <2> QED
    BY <2>1 DEF Relaying, Connect, AwaitAck, Booted, AbandonReplay, ReplayEntry, SkipEntry,
                Order, Intake, Acknowledge, Close, Break, Relay, vars, hostVars
<1> QED
  BY <1>1, <1>2, <1>3

(* The two halves of TaintNews.                                             *)
ReplayTells ==
  \A k \in DOMAIN startup :
    startup[k].type = "TaintStatus" => (taint \/ ~Sure) /\ startup[k] = TaintStatus(TRUE)

Reread == clearing \in {<<Read>>, <<Send(TaintStatus(taint))>>}

Telltales == \E i \in Instance : TellsTaint(todo[i])

TaintTold ==
  /\ Telltales => taint
  /\ clearing \in {<< >>, <<Clear>>} \/ Reread
  /\ Reread => ~Telltales
  /\ Telltales \/ Reread \/ OnItsWay(TaintTopic, taint)

(* Together they are it.                                                    *)
LEMMA TaintNewsIs == TaintNews <=> ReplayTells /\ (Sure => TaintTold)
  BY DEF TaintNews, ReplayTells, TaintTold, Reread, Telltales

(* The replay says tainted, and there is a record then.                     *)
LEMMA ReplayTellsKept ==
  ASSUME LinkInv, [Next]_vars
  PROVE  ReplayTells'
<1> USE DEF hostVars, loopVars, wireVars, masterVars, readerVars, history
<1>0. Typed /\ Held /\ Clearing /\ ReplayTells
  BY TaintNewsIs DEF LinkInv, Agent
<1>a. startup \in Seq(Frame)
  BY <1>0 DEF Typed, LoopTyped
<1>b. ASSUME startup' = startup, taint \/ ~Sure => taint' \/ ~Sure' PROVE ReplayTells'
  BY <1>0, <1>b DEF ReplayTells
<1>c. ASSUME NEW t, startup' = startup \o t, taint \/ ~Sure => taint' \/ ~Sure',
             t \in Seq(Frame),
             \A f \in Elements(t) : f.type = "TaintStatus" => (taint' \/ ~Sure') /\ f = TaintStatus(TRUE)
      PROVE  ReplayTells'
  <2>1. Elements(startup') = Elements(startup) \cup Elements(t)
    BY <1>a, <1>c, ElementsJoined
  <2>2. \A f \in Elements(startup) : f.type = "TaintStatus" => (taint' \/ ~Sure') /\ f = TaintStatus(TRUE)
    BY <1>0, <1>c DEF ReplayTells, Elements
  <2>3. \A f \in Elements(startup') : f.type = "TaintStatus" => (taint' \/ ~Sure') /\ f = TaintStatus(TRUE)
    BY <1>c, <2>1, <2>2
  <2> QED
    BY <2>3 DEF ReplayTells, Elements
<1>1. ASSUME NEW i \in Instance, Perform(i) PROVE ReplayTells'
  <2>1. startup' = startup
    BY <1>1 DEF Perform
  <2>2. taint \/ ~Sure => taint' \/ ~Sure'
    BY <1>1 DEF Perform, WriteMark, Sure
  <2> QED
    BY <1>b, <2>1, <2>2
<1>2. CASE PerformClear
  <2>1. clearing # << >> /\ startup' = startup
    BY <1>2 DEF PerformClear
  <2>2. startup = << >>
    BY <1>0, <2>1 DEF Held, Forgotten
  <2> QED
    BY <2>1, <2>2 DEF ReplayTells
<1>3. CASE Crash
  <2>1. startup' = << >>
    BY <1>3 DEF Crash
  <2> QED
    BY <2>1 DEF ReplayTells
<1>4. ASSUME NEW i \in Instance, ReplayEntry(i) PROVE ReplayTells'
  <2>1. \/ /\ \E s \in {"Aborted", "Error"} :
                startup' = startup \o <<Status(i, "Recovering"), Status(i, s)>>
           /\ UNCHANGED <<taint, raced, unmarked>>
        \/ /\ WriteMark /\ raced' = raced
           /\ startup' =
                startup \o <<Status(i, "Recovering"), TaintStatus(TRUE), Status(i, "Error")>>
    BY <1>4 DEF ReplayEntry
  <2>2. /\ Status(i, "Recovering") \in Frame /\ TaintStatus(TRUE) \in Frame
        /\ \A s \in {"Aborted", "Error"} : Status(i, s) \in Frame
    BY FrameMakers, ViewsAre
  <2>3. \A s : Status(i, s).type # "TaintStatus"
    BY FrameFields
  <2>4. ASSUME NEW s \in {"Aborted", "Error"},
               startup' = startup \o <<Status(i, "Recovering"), Status(i, s)>>,
               UNCHANGED <<taint, raced, unmarked>>
        PROVE  ReplayTells'
    <3>1. /\ <<Status(i, "Recovering"), Status(i, s)>> \in Seq(Frame)
          /\ Elements(<<Status(i, "Recovering"), Status(i, s)>>)
               = {Status(i, "Recovering"), Status(i, s)}
      BY <2>2, ShortSequences, ElementsShort
    <3> QED
      BY <1>c, <2>3, <2>4, <3>1 DEF Sure
  <2>5. ASSUME WriteMark,
               startup' = startup \o
                 <<Status(i, "Recovering"), TaintStatus(TRUE), Status(i, "Error")>>
        PROVE  ReplayTells'
    <3> DEFINE t == <<Status(i, "Recovering"), TaintStatus(TRUE), Status(i, "Error")>>
    <3>1. t \in Seq(Frame)
      BY <2>2, ShortSequences
    <3>2. Elements(t) = {Status(i, "Recovering"), TaintStatus(TRUE), Status(i, "Error")}
      BY ElementsShort
    <3>3. startup' = startup \o t
      BY <2>5
    <3> HIDE DEF t
    <3>5. taint' \/ ~Sure'
      BY <2>5 DEF WriteMark, Sure
    <3>4. \A f \in Elements(t) : f.type = "TaintStatus" => (taint' \/ ~Sure') /\ f = TaintStatus(TRUE)
      BY <2>3, <3>2, <3>5
    <3> QED
      BY <1>c, <3>1, <3>3, <3>4, <3>5
  <2> QED
    BY <2>1, <2>4, <2>5
<1>5. ASSUME NEW i \in Instance, SkipEntry(i) PROVE ReplayTells'
  <2>1. WriteMark /\ raced' = raced
    BY <1>5 DEF SkipEntry
  <2>2. TaintStatus(TRUE) \in Frame /\ startup' = Append(startup, TaintStatus(TRUE))
    BY <1>5, FrameMakers DEF SkipEntry
  <2>3. Elements(startup') = Elements(startup) \cup {TaintStatus(TRUE)}
    <3>1. PICK g \in Frame : g = TaintStatus(TRUE)
      BY <2>2
    <3>2. startup' = Append(startup, g)
      BY <2>2, <3>1
    <3>3. \A h \in Frame : Elements(Append(startup, h)) = Elements(startup) \cup {h}
      BY <1>a, ElementsOf
    <3> QED
      BY <3>1, <3>2, <3>3
  <2>4. taint' \/ ~Sure'
    BY <2>1 DEF WriteMark, Sure
  <2>5. \A g \in Elements(startup') :
          g.type = "TaintStatus" => (taint' \/ ~Sure') /\ g = TaintStatus(TRUE)
    BY <1>0, <2>3, <2>4 DEF ReplayTells, Elements
  <2> QED
    BY <2>5 DEF ReplayTells, Elements
<1>6. CASE AbandonReplay
  <2>1. startup' = << >>
    BY <1>6 DEF AbandonReplay
  <2> QED
    BY <2>1 DEF ReplayTells
<1>7. ASSUME Relaying, ~\E i \in Instance : ReplayEntry(i) \/ SkipEntry(i), ~AbandonReplay
      PROVE  ReplayTells'
  <2>1. UNCHANGED <<taint, raced, unmarked>>
    <3>1. Pushing \/ Taking \/ Aside => UNCHANGED <<taint, raced, unmarked>>
      BY <1>0, PushingIs, TakingIs, AsideIs
    <3> QED
      BY <1>7, <3>1 DEF Relaying, Connect, AwaitAck, Booted, React, Order, Intake, Receive,
                        Acknowledge, Close, Break, Relay, vars
  <2>2. CASE startup' = startup
    BY <1>b, <2>1, <2>2 DEF Sure
  <2>3. CASE startup # << >> /\ startup' = Tail(startup)
    <3>1. /\ DOMAIN startup = 1..Len(startup) /\ DOMAIN startup' = 1..(Len(startup) - 1)
          /\ Len(startup) \in Nat \ {0}
          /\ \A k \in 1..(Len(startup) - 1) : startup'[k] = startup[k + 1]
      BY <1>a, <2>3, TailFacts
    <3>2. \A k \in DOMAIN startup' : k + 1 \in DOMAIN startup /\ startup'[k] = startup[k + 1]
      BY <3>1
    <3> QED
      BY <1>0, <2>1, <3>2 DEF ReplayTells, Sure
  <2>4. startup' = startup \/ (startup # << >> /\ startup' = Tail(startup))
    <3>1. SendStartup => startup' = startup \/ (startup # << >> /\ startup' = Tail(startup))
      BY <1>0 DEF SendStartup, Held
    <3>2. Pushing => SendStartup \/ startup' = startup
      BY DEF Pushing, SendReport, SendTaint, SendCarry, SendBeat, Notice
    <3>3. Taking \/ Aside => startup' = startup
      BY <1>0, TakingIs, AsideIs
    <3> QED
      BY <1>7, <3>1, <3>2, <3>3 DEF Relaying, Connect, AwaitAck, Booted, React, Order, Intake, Receive,
                              Acknowledge, Close, Break, Relay, vars
  <2> QED
    BY <2>2, <2>3, <2>4
<1> QED
  BY <1>1, <1>2, <1>3, <1>4, <1>5, <1>6, <1>7, StepsRelay

(* The short sequences of the clearing task differ.                         *)
LEMMA ClearingDiffers ==
  /\ <<Clear>> # << >> /\ <<Read>> # << >> /\ <<Clear>> # <<Read>>
  /\ \A b : /\ <<Send(TaintStatus(b))>> \notin {<< >>, <<Clear>>, <<Read>>}
  /\ \A b \in BOOLEAN, c \in BOOLEAN : <<Send(TaintStatus(b))>> = <<Send(TaintStatus(c))>> => b = c
<1>1. \A a : <<a>> # << >> /\ <<a>>[1] = a
  OBVIOUS
<1>2. \A a, b : <<a>> = <<b>> => a = b
  BY <1>1
<1>3. \A b \in BOOLEAN, c \in BOOLEAN : Send(TaintStatus(b)) = Send(TaintStatus(c)) => b = c
  <2>1. \A b \in BOOLEAN : TaintStatus(b).tainted = b
    BY FrameFields
  <2>2. \A f, g : Send(f) = Send(g) => f = g
    BY EffectsDiffer
  <2> QED
    BY <2>1, <2>2
<1>4. \A b : Send(TaintStatus(b)) # Clear /\ Send(TaintStatus(b)) # Read
  BY EffectsDiffer
<1> QED
  BY <1>1, <1>2, <1>3, <1>4, EffectsDiffer

(* Where no mark failed or ran into a clear, what the master is told of the *)
(* taint ends with what the disk says.                                      *)
LEMMA TaintToldKept ==
  ASSUME LinkInv, [Next]_vars, Sure'
  PROVE  TaintTold'
<1> USE DEF hostVars, loopVars, wireVars, masterVars, readerVars, history
<1>0. Typed /\ HostTyped /\ LoopTyped /\ Tasks /\ Held /\ Clearing /\ (Sure => TaintTold)
  BY TaintNewsIs DEF LinkInv, Agent, Typed
<1>a. taint \in BOOLEAN
  BY <1>0 DEF HostTyped
<1>b. TaintTold' <=>
        /\ Telltales' => taint'
        /\ clearing' \in {<< >>, <<Clear>>} \/ Reread'
        /\ Reread' => ~Telltales'
        /\ Telltales' \/ Reread' \/ OnItsWay(TaintTopic, taint)'
  BY DEF TaintTold
<1>c. Reread' <=> clearing' \in {<<Read>>, <<Send(TaintStatus(taint'))>>}
  BY DEF Reread
<1>1. ASSUME NEW i \in Instance, Perform(i) PROVE TaintTold'
  <2>1. /\ Said(i) \/ Removed(i) \/ MarkedNow(i) \/ ToldTaint(i)
        /\ clearing' = clearing
        /\ UNCHANGED <<carry, stage, stream, link, wire, told, flag, late>>
    BY <1>0, <1>1, PerformIs DEF Tasks, HostTyped
  <2>2. /\ \A j \in Instance \ {i} : todo'[j] = todo[j]
        /\ Said(i) => ~TellsTaint(todo[i]) /\ ~TellsTaint(todo'[i])
        /\ Removed(i) => ~TellsTaint(todo[i]) /\ ~TellsTaint(todo'[i])
        /\ MarkedNow(i) => ~TellsTaint(todo[i]) /\ TellsTaint(todo'[i])
        /\ ToldTaint(i) => TellsTaint(todo[i]) /\ ~TellsTaint(todo'[i])
    BY <1>0, <1>1, TellersOf
  <2>3. CASE Said(i) \/ Removed(i)
    <3>1. taint' = taint /\ raced' = raced /\ unmarked' = unmarked
      BY <2>3 DEF Said, Removed
    <3>2. Telltales' <=> Telltales
      BY <2>2, <2>3 DEF Telltales
    <3>3. Reread' <=> Reread
      BY <2>1, <3>1 DEF Reread
    <3>4. \A v : OnItsWay(TaintTopic, v) => OnItsWay(TaintTopic, v)'
      <4>1. CASE Said(i)
        <5>1. /\ Status(i, view[i]) \in Frame /\ out' = Append(out, Status(i, view[i]))
              /\ TaintTopic \notin Topics(Status(i, view[i]))
          <6>1. view[i] \in Live \cup Terminal
            BY <1>0, <1>1, PerformIs DEF Tasks, HostTyped
          <6> QED
            BY <4>1, <6>1, FrameMakers, TopicsOf, TopicsDiffer DEF Said
        <5> QED
          BY <1>0, <2>1, <5>1, NewsEmit
      <4>2. CASE Removed(i)
        BY <2>1, <4>2, NewsStay DEF Removed
      <4> QED
        BY <2>3, <4>1, <4>2
    <3>5. OnItsWay(TaintTopic, taint) => OnItsWay(TaintTopic, taint)'
      <4>1. PICK v : v = taint
        OBVIOUS
      <4> QED
        BY <3>1, <3>4, <4>1
    <3> QED
      BY <1>0, <1>b, <2>1, <3>1, <3>2, <3>3, <3>5 DEF TaintTold, Sure
  <2>4. CASE MarkedNow(i)
    <3>1. taint' /\ clearing' = << >>
      <4>1. taint' \/ unmarked' = {stream}
        BY <1>a, <2>4, MarkIs DEF MarkedNow
      <4> QED
        BY <1>0, <2>1, <2>4, <4>1 DEF MarkedNow, Sure
    <3>2. Telltales'
      BY <2>2, <2>4 DEF Telltales
    <3>3. ~Reread'
      BY <1>c, <3>1, ClearingDiffers
    <3> QED
      BY <1>b, <3>1, <3>2, <3>3
  <2>5. CASE ToldTaint(i)
    <3>1. out' = Append(out, TaintStatus(TRUE)) /\ taint' = taint /\ raced' = raced /\ unmarked' = unmarked
      BY <2>5 DEF ToldTaint
    <3>2. Telltales /\ taint = TRUE /\ ~Reread
      BY <1>0, <1>a, <2>2, <2>5, <3>1 DEF TaintTold, Telltales, Sure
    <3>3. OnItsWay(TaintTopic, taint)'
      <4>1. PICK b \in BOOLEAN : b = taint
        BY <1>a
      <4>2. TaintStatus(b) \in Frame /\ out' = Append(out, TaintStatus(b))
        BY <3>1, <3>2, <4>1, FrameMakers
      <4>3. Says(TaintStatus(b), TaintTopic, b)
        BY SaysOf
      <4>4. OnItsWay(TaintTopic, b)'
        BY <1>0, <2>1, <4>2, <4>3, NewsEmit
      <4> QED
        BY <3>1, <4>1, <4>4
    <3>4. ~Reread'
      BY <2>1, <3>1, <3>2 DEF Reread
    <3> QED
      BY <1>0, <1>b, <2>1, <3>1, <3>2, <3>3, <3>4 DEF TaintTold, Sure
  <2> QED
    BY <2>1, <2>3, <2>4, <2>5
<1>2. CASE PerformClear
  <2>1. /\ Cleared \/ ReadBack \/ ToldClear
        /\ todo' = todo
        /\ UNCHANGED <<carry, stage, stream, link, wire, told, flag, late>>
    BY <1>0, <1>2, PerformClearIs
  <2>2. Telltales' <=> Telltales
    BY <2>1 DEF Telltales
  <2>3. CASE Cleared
    <3>1. ~Telltales
      BY <2>3 DEF Cleared, Telltales, Sure
    <3>2. Reread'
      <4>1. clearing' = <<Read>> \/ (taint' = TRUE /\ clearing' = <<Send(TaintStatus(TRUE))>>)
        BY <2>3 DEF Cleared
      <4> QED
        BY <1>c, <4>1
    <3> QED
      BY <1>b, <2>2, <3>1, <3>2
  <2>4. CASE ReadBack
    <3>1. /\ clearing = <<Read>> /\ clearing' = <<Send(TaintStatus(taint))>>
          /\ taint' = taint /\ raced' = raced /\ unmarked' = unmarked
      BY <2>4 DEF ReadBack
    <3>2. ~Telltales
      BY <1>0, <3>1 DEF TaintTold, Reread, Sure
    <3>3. Reread'
      BY <1>c, <3>1
    <3> QED
      BY <1>b, <2>2, <3>2, <3>3
  <2>5. CASE ToldClear
    <3>1. PICK b \in BOOLEAN : clearing = <<Send(TaintStatus(b))>> /\ out' = Append(out, TaintStatus(b))
      BY <2>5 DEF ToldClear
    <3>2. clearing' = << >> /\ taint' = taint /\ raced' = raced /\ unmarked' = unmarked
      BY <2>5 DEF ToldClear
    <3>3. b = taint /\ Reread
      BY <1>0, <1>a, <3>1, <3>2, ClearingDiffers DEF TaintTold, Reread, Sure
    <3>4. ~Telltales
      BY <1>0, <3>2, <3>3 DEF TaintTold, Sure
    <3>5. OnItsWay(TaintTopic, taint)'
      <4>1. TaintStatus(b) \in Frame /\ Says(TaintStatus(b), TaintTopic, b)
        BY FrameMakers, SaysOf
      <4>2. OnItsWay(TaintTopic, b)'
        BY <1>0, <2>1, <3>1, <4>1, NewsEmit
      <4> QED
        BY <3>2, <3>3, <4>2
    <3>6. ~Reread'
      BY <1>c, <3>2, ClearingDiffers
    <3> QED
      BY <1>b, <2>2, <3>2, <3>4, <3>5, <3>6
  <2> QED
    BY <2>1, <2>3, <2>4, <2>5
<1>3. CASE Crash
  <2>1. /\ \A i \in Instance : todo'[i] = << >>
        /\ clearing' = << >> /\ out' = << >> /\ carry' = << >> /\ stage' = "boot"
    BY <1>3 DEF Crash
  <2>2. ~Telltales'
    BY <2>1 DEF Telltales, TellsTaint
  <2>3. ~Reread'
    BY <1>c, <2>1, ClearingDiffers
  <2>4. OnItsWay(TaintTopic, taint)'
    BY <2>1, NewsShort DEF OnItsWay, Unreported
  <2> QED
    BY <1>b, <2>1, <2>2, <2>3, <2>4
<1>4. ASSUME NEW i \in Instance, ReplayEntry(i) \/ SkipEntry(i) PROVE TaintTold'
  <2>1. /\ stage = "boot" /\ UNCHANGED <<todo, clearing, out, carry, stage>>
    BY <1>4 DEF ReplayEntry, SkipEntry
  <2>2. /\ clearing = << >> /\ out = << >> /\ carry = << >>
        /\ \A j \in Instance : todo[j] = << >>
    BY <1>0, <2>1 DEF Held, Forgotten, Tasks, TaskFits
  <2>3. ~Telltales'
    BY <2>1, <2>2 DEF Telltales, TellsTaint
  <2>4. ~Reread'
    BY <1>c, <2>1, <2>2, ClearingDiffers
  <2>5. OnItsWay(TaintTopic, taint)'
    BY <2>1, <2>2, NewsShort DEF OnItsWay, Unreported
  <2> QED
    BY <1>b, <2>1, <2>2, <2>3, <2>4, <2>5
<1>5. ASSUME Relaying, ~\E i \in Instance : ReplayEntry(i) \/ SkipEntry(i) PROVE TaintTold'
  <2>1. taint' = taint /\ raced' = raced /\ unmarked' = unmarked
    <3>1. Pushing \/ Taking \/ Aside => UNCHANGED <<taint, raced, unmarked>>
      BY <1>0, PushingIs, TakingIs, AsideIs
    <3> QED
      BY <1>5, <3>1 DEF Relaying, Connect, AwaitAck, Booted, AbandonReplay, React, Order, Intake, Receive,
                        Acknowledge, Close, Break, Relay, vars
  <2>2. Telltales' <=> Telltales
    BY <1>5, TellersStay DEF Telltales
  <2>3. TaintTold
    BY <1>0, <2>1 DEF Sure
  <2>4. OnItsWay(TaintTopic, taint) => OnItsWay(TaintTopic, taint)'
    <3>1. PICK v : v = taint
      OBVIOUS
    <3>2. OnItsWay(TaintTopic, v) => OnItsWay(TaintTopic, v)'
      BY <1>5, <2>1, <3>1, NewsRelayed DEF Topical, Sure
    <3> QED
      BY <2>1, <3>1, <3>2
  <2>5. CASE clearing' = clearing
    <3>1. Reread' <=> Reread
      BY <2>1, <2>5 DEF Reread
    <3> QED
      BY <1>b, <2>1, <2>2, <2>3, <2>4, <2>5, <3>1 DEF TaintTold
  <2>6. CASE clearing = << >> /\ clearing' = <<Clear>>
    <3>1. ~Reread /\ ~Reread'
      BY <1>c, <2>6, ClearingDiffers DEF Reread
    <3> QED
      BY <1>b, <2>1, <2>2, <2>3, <2>4, <2>6, <3>1 DEF TaintTold
  <2>7. clearing' = clearing \/ (clearing = << >> /\ clearing' = <<Clear>>)
    <3>1. ASSUME Receive PROVE clearing' = clearing \/ (clearing = << >> /\ clearing' = <<Clear>>)
      <4>1. /\ stage = "up" /\ down[stream] # << >>
            /\ \/ UNCHANGED clearing
               \/ Head(down[stream]).type = "ClearTaint" /\ clearing' = <<Clear>>
        BY <3>1 DEF Receive
      <4>2. stream \in StreamId
        BY <4>1, HasStream DEF LinkInv
      <4>3. Head(down[stream]) \in Command /\ Head(down[stream]) \in Elements(down[stream])
        <5>1. down[stream] \in Seq(Command)
          BY <1>0, <4>2 DEF Typed, WireTyped
        <5> QED
          BY <4>1, <5>1, ElementsOf, TailFacts
      <4>4. Head(down[stream]).type = "ClearTaint" => Head(down[stream]) = ClearTaint
        BY <4>3, CommandKinds, IdleIs, FrameFields
      <4> QED
        BY <1>0, <4>1, <4>2, <4>3, <4>4 DEF Clearing
    <3>2. Pushing \/ Taking \/ Aside => UNCHANGED clearing
      BY <1>0, PushingIs, TakingIs, AsideIs
    <3> QED
      BY <1>5, <3>1, <3>2 DEF Relaying, Connect, AwaitAck, Booted, AbandonReplay, React, Order,
                              Intake, Acknowledge, Close, Break, Relay, vars
  <2> QED
    BY <2>5, <2>6, <2>7
<1> QED
  BY <1>1, <1>2, <1>3, <1>4, <1>5, StepsRelay

(* Both halves are kept.                                                    *)
LEMMA TaintNewsKept ==
  ASSUME LinkInv, [Next]_vars
  PROVE  TaintNews'
<1>1. TaintNews' <=> ReplayTells' /\ (Sure' => TaintTold')
  BY DEF TaintNews, ReplayTells, TaintTold, Reread, Telltales
<1> QED
  BY <1>1, ReplayTellsKept, TaintToldKept

-----------------------------------------------------------------------------
(***************************************************************************)
(* The theorems.                                                           *)
(***************************************************************************)
(* A host that was just set up is as the invariant says.                    *)
LEMMA LinkInit ==
  ASSUME Init
  PROVE  LinkInv
<1>1. Typed
  <2>1. HostTyped
    BY FrameSequences DEF Init, HostTyped, View, None
  <2>2. LoopTyped
    <3>1. OutCap \in Nat
      BY ConstantsAssumption
    <3>2. Len(<< >>) = 0 /\ << >> \in Seq(Frame)
      BY FrameSequences
    <3> QED
      BY <3>1, <3>2 DEF Init, LoopTyped, Stages
  <2>3. WireTyped
    <3>1. WireCap \in Nat /\ DownCap \in Nat
      BY ConstantsAssumption
    <3>2. Len(<< >>) = 0 /\ << >> \in Seq(Frame) /\ << >> \in Seq(Command)
      BY FrameSequences
    <3> QED
      BY <3>1, <3>2 DEF Init, WireTyped
  <2>4. MasterTyped
    <3>1. trouble \in 0..MaxTrouble
      BY ConstantsAssumption DEF Init
    <3>2. told \in [Instance -> View]
      BY DEF Init, View
    <3>3. session = 0 /\ acking = {} /\ flag = FALSE /\ sent = {} /\ cleared = FALSE
      BY DEF Init
    <3>4. ReadersTyped
      BY DEF Init, ReadersTyped
    <3> QED
      BY <3>1, <3>2, <3>3, <3>4 DEF MasterTyped
  <2>5. HistoryTyped
    BY DEF Init, HistoryTyped
  <2> QED
    BY <2>1, <2>2, <2>3, <2>4, <2>5 DEF Typed
<1>2. \A n \in StreamId : RegisterAck \notin Elements(down[n]) /\ ClearTaint \notin Elements(down[n])
                          /\ \A i : RunFault(i) \notin Elements(down[n])
  BY ElementsShort DEF Init
<1>3. Streams
  <2>1. Linked /\ Unwired
    BY DEF Init, Linked, Unwired, Connected
  <2>2. Counted
    BY DEF Init, Counted
  <2>3. Heeded
    BY <1>2 DEF Init, Heeded, Registered
  <2> QED
    BY <2>1, <2>2, <2>3 DEF Streams
<1>4. Agent
  BY DEF Init, Agent, Tasks, TaskFits, EntryFits, Held, Forgotten, None, Live, Terminal
<1>5. \A i : ~EndOnWay(i)
  BY EndsOf, FrameSequences DEF Init, EndOnWay
<1>6. Lives
  <2>1. ASSUME NEW i \in Instance PROVE OrderedOnce(i) /\ Final(i) /\ Accounted(i)
    <3>1. ~EndSaid(i) /\ ~Ordered(i)
      BY <1>2, <1>5, <2>1, ViewsAre DEF Init, EndSaid, Ordered
    <3>2. \A n \in StreamId : Once(down[n], RunFault(i))
      BY DEF Init, Once
    <3>3. i \notin sent /\ view[i] = None /\ i \notin journal
      BY <2>1 DEF Init
    <3> QED
      BY <3>1, <3>2, <3>3 DEF OrderedOnce, Final, Accounted
  <2> QED
    BY <2>1 DEF Lives
<1>7. ViewsNews
  BY ViewsAre DEF Init, ViewsNews
<1>8. Clearing
  BY <1>2 DEF Init, Clearing, Once
<1>9. TaintNews
  <2>1. ReplayTells
    BY DEF Init, ReplayTells
  <2>2. ~Telltales
    BY DEF Init, Telltales, TellsTaint
  <2>3. clearing = << >> /\ ~Reread
    BY ClearingDiffers DEF Init, Reread
  <2>4. OnItsWay(TaintTopic, taint)
    BY NewsShort DEF Init, OnItsWay, Unreported
  <2> QED
    BY <2>1, <2>2, <2>3, <2>4, TaintNewsIs DEF TaintTold
<1> QED
  BY <1>1, <1>3, <1>4, <1>6, <1>7, <1>8, <1>9 DEF LinkInv

(* The invariant holds in every reachable state.                            *)
THEOREM LinkInvariant == Spec => []LinkInv
<1>1. Init => LinkInv
  BY LinkInit
<1>2. LinkInv /\ [Next]_vars => LinkInv'
  <2> SUFFICES ASSUME LinkInv, [Next]_vars PROVE LinkInv'
    OBVIOUS
  <2>1. Typed' /\ Streams'
    BY TypedKept, StreamsKept
  <2>2. Agent'
    BY TasksKept, HeldKept DEF Agent
  <2>3. Lives' /\ Clearing'
    BY LivesKept, ClearingKept
  <2>4. ViewsNews' /\ TaintNews'
    BY ViewsNewsKept, TaintNewsKept
  <2> QED
    BY <2>1, <2>2, <2>3, <2>4 DEF LinkInv
<1> QED
  BY <1>1, <1>2, PTL DEF Spec

(* TypeOK, which speaks of the elements of the channels only.               *)
LEMMA TypedIsOK ==
  ASSUME Typed
  PROVE  TypeOK
<1>1. \A i \in Instance : Elements(todo[i]) \subseteq Effect
  BY ElementsOf DEF Typed, HostTyped
<1>2. Elements(clearing) \subseteq Effect
  BY ElementsOf DEF Typed, HostTyped
<1>3. Elements(out) \subseteq Frame /\ Elements(carry) \subseteq Frame
      /\ Elements(startup) \subseteq Frame
  BY ElementsOf DEF Typed, LoopTyped
<1>4. \A n \in StreamId : Elements(wire[n]) \subseteq Frame /\ Elements(down[n]) \subseteq Command
  BY ElementsOf DEF Typed, WireTyped
<1> QED
  BY <1>1, <1>2, <1>3, <1>4
  DEF Typed, TypeOK, HostTyped, LoopTyped, WireTyped, MasterTyped, ReadersTyped, HistoryTyped,
      Stages

(* LinkSound: every variable stays in its range, and an instance whose end  *)
(* the master was told does not run, nor has it an entry, unless removing   *)
(* it failed (the journal entry is removed before the end is emitted).      *)
THEOREM EndsStayEnds == Spec => []LinkSound
<1>1. LinkInv => LinkSound
  <2> SUFFICES ASSUME LinkInv PROVE LinkSound
    OBVIOUS
  <2>1. TypeOK
    BY TypedIsOK DEF LinkInv
  <2>2. EndsAreFinal
    BY DEF LinkInv, Lives, Final, EndSaid, EndsAreFinal
  <2> QED
    BY <2>1, <2>2 DEF LinkSound
<1> QED
  BY <1>1, LinkInvariant, PTL

(* When both sides are silent nothing is left on the way.                   *)
LEMMA QuietIs ==
  ASSUME LinkInv, Quiet
  PROVE  /\ stream \in StreamId /\ stage = "up" /\ Open
         /\ out = << >> /\ carry = << >> /\ startup = << >> /\ clearing = << >>
         /\ \A n \in StreamId : wire[n] = << >> /\ down[n] = << >>
         /\ \A i \in Instance : todo[i] = << >>
<1>1. stage = "up" /\ Open
  BY DEF Quiet
<1>2. stream \in StreamId
  BY <1>1, HasStream DEF LinkInv
<1>3. carry = << >> /\ startup = << >>
  BY <1>1 DEF LinkInv, Agent, Held
<1> QED
  BY <1>1, <1>2, <1>3 DEF Quiet

(* So the news of a topic has arrived.                                      *)
LEMMA QuietNews ==
  ASSUME LinkInv, Quiet, NEW t, NEW v, OnItsWay(t, v)
  PROVE  Known(t) = v \/ t \in late
<1>1. /\ Silent(<< >>, t) /\ ~Right(<< >>, t, v)
  BY NewsShort
<1>2. ~Unreported(t)
  BY QuietIs DEF Unreported
<1>3. Arrives(t, v)
  BY <1>1, <1>2, QuietIs DEF OnItsWay
<1> QED
  BY <1>1, <1>3, QuietIs DEF Arrives

(* NothingVanishes: once both sides are silent, every order ended at the    *)
(* master, or lives at the agent, or is among what the code gives up        *)
(* (send_frame, run_session, a restart, replay_journal).                    *)
THEOREM OrdersAccounted == Spec => []NothingVanishes
<1>1. LinkInv => NothingVanishes
  <2> SUFFICES ASSUME LinkInv, Quiet, NEW i \in sent
               PROVE  told[i] \in Terminal \/ view[i] \in Live \/ i \in lost
    BY DEF NothingVanishes
  <2>1. i \in Instance
    BY DEF LinkInv, Typed, MasterTyped
  <2>2. ~Ordered(i)
    BY QuietIs, ElementsShort DEF Ordered
  <2>3. ~UntoldEnd(i)
    BY <2>1, QuietIs DEF UntoldEnd
  <2>4. ~EndOnWay(i)
    BY QuietIs, EndsOf, FrameSequences DEF EndOnWay
  <2>5. entries = {}
    BY QuietIs DEF LinkInv, Agent, Held
  <2>6. Accounted(i)
    BY <2>1 DEF LinkInv, Lives
  <2> QED
    BY <2>2, <2>3, <2>4, <2>5, <2>6 DEF Accounted
<1> QED
  BY <1>1, LinkInvariant, PTL

(* LiveViewsAgree: once both sides are silent, the master shows every live  *)
(* instance as it is, unless it read an older stream after the newer one    *)
(* (report_frame, the startup frames, the carry).                           *)
THEOREM LiveViewsKnown == Spec => []LiveViewsAgree
<1>1. LinkInv => LiveViewsAgree
  <2> SUFFICES ASSUME LinkInv, Quiet, NEW i \in Instance, view[i] \in Live
               PROVE  told[i] = view[i] \/ <<"InstanceStatus", i>> \in late
    BY DEF LiveViewsAgree
  <2>1. OnItsWay(ViewTopic(i), view[i])
    BY QuietIs DEF LinkInv, ViewsNews
  <2>2. Known(ViewTopic(i)) = view[i] \/ ViewTopic(i) \in late
    BY <2>1, QuietNews
  <2>3. Known(ViewTopic(i)) = told[i]
    BY TopicsDiffer DEF Known
  <2> QED
    BY <2>2, <2>3 DEF ViewTopic
<1> QED
  BY <1>1, LinkInvariant, PTL

(* Once both sides are silent, the registry's flag is the taint of the      *)
(* host, unless a mark failed or ran into a clear or an older stream spoke  *)
(* last.                                                                    *)
LEMMA FlagIs ==
  ASSUME LinkInv
  PROVE  FlagAgrees
<1> SUFFICES ASSUME Quiet, Sure
             PROVE  flag = taint \/ <<"TaintStatus", None>> \in late
  BY DEF FlagAgrees, Sure
<1>1. TaintTold
  BY TaintNewsIs DEF LinkInv
<1>2. ~Telltales
  BY QuietIs DEF Telltales, TellsTaint
<1>3. ~Reread
  BY QuietIs, ClearingDiffers DEF Reread
<1>4. OnItsWay(TaintTopic, taint)
  BY <1>1, <1>2, <1>3 DEF TaintTold
<1>5. Known(TaintTopic) = taint \/ TaintTopic \in late
  BY <1>4, QuietNews
<1> QED
  BY <1>5 DEF Known, TaintTopic

-----------------------------------------------------------------------------
(***************************************************************************)
(* Seventh, the registration: the Register of a stream is on the wire, then *)
(* read, then acknowledged, and nowhere twice; until the agent has read the *)
(* acknowledgement it is in one of these places.                            *)
(***************************************************************************)
Onward(n) == n = stream /\ stage \in Registered

Unregistering ==
  Register \notin Elements(out) /\ Register \notin Elements(carry)
  /\ Register \notin Elements(startup)

Handed(n) ==
  /\ Once(wire[n], Register) /\ Once(down[n], RegisterAck)
  /\ Onward(n) \/ n \in acking \/ RegisterAck \in Elements(down[n])
       => Register \notin Elements(wire[n])
  /\ Onward(n) \/ n \in acking => RegisterAck \notin Elements(down[n])
  /\ Onward(n) => n \notin acking

Awaited ==
  stage = "ack" /\ Open =>
    \/ Register \in Elements(wire[stream]) \/ stream \in acking
    \/ RegisterAck \in Elements(down[stream])

(* The stream whose Register was read last is the session until it closes,  *)
(* but for a late Register; and what is not in use carries nothing.         *)
Current ==
  stream # 0 /\ newest = stream /\ link[stream] \in {"open", "broken"} =>
    session = stream \/ <<"Register", None>> \in late

Emptied == \A n \in StreamId : link[n] \in {"unused", "closed"} => wire[n] = << >>

Registration ==
  Unregistering /\ (\A n \in StreamId : Handed(n)) /\ Awaited /\ Current /\ Emptied

(* No frame but Register is a Register.                                     *)
LEMMA RegisterAlone ==
  /\ Register \in Frame /\ RegisterAck \in Command
  /\ Heartbeat \in Frame /\ Heartbeat # Register
  /\ \A b : TaintStatus(b) # Register
  /\ \A v : Report(v) # Register
  /\ \A i, s : Status(i, s) # Register
  /\ \A f : f.type # "Register" => f # Register
<1>1. Register.type = "Register"
  BY FrameFields
<1>2. \A b : TaintStatus(b).type # "Register"
  BY FrameFields
<1>3. \A v : Report(v).type # "Register"
  BY FrameFields
<1>4. \A i, s : Status(i, s).type # "Register"
  BY FrameFields
<1>5. Register \in Frame /\ RegisterAck \in Command /\ Heartbeat \in Frame
  BY FrameMakers
<1>6. \A f : f.type # "Register" => f # Register
  BY <1>1
<1>7. Heartbeat.type # "Register"
  BY FrameFields
<1> QED
  BY <1>2, <1>3, <1>4, <1>5, <1>6, <1>7

(* What the loop puts into a stream, or keeps, is no Register.              *)
LEMMA PushingPuts ==
  ASSUME LinkInv, Unregistering, Pushing
  PROVE  /\ Unregistering'
         /\ \/ /\ stage \in Registered /\ stage' \in Registered /\ UNCHANGED down
               /\ \E f \in Frame : f # Register /\ Put(f)
            \/ /\ ~Open /\ stage' = "down" /\ UNCHANGED <<link, wire, stream>>
               /\ down' = [down EXCEPT ![stream] = << >>]
<1>0. Typed /\ Streams /\ Held /\ HostTyped /\ LoopTyped
  BY DEF LinkInv, Agent, Typed
<1>a. /\ out \in Seq(Frame) /\ carry \in Seq(Frame) /\ startup \in Seq(Frame)
      /\ taint \in BOOLEAN
  BY <1>0 DEF LoopTyped, HostTyped
<1>b. /\ Elements(<< >>) = {} /\ \A f : Elements(<<f>>) = {f}
  BY ElementsShort
<1>c. ASSUME NEW s \in Seq(Frame), s # << >>, Register \notin Elements(s)
      PROVE  /\ Head(s) \in Frame /\ Head(s) # Register
             /\ Register \notin Elements(Tail(s))
  BY <1>c, ElementsOf
<1>d. TaintStatus(taint) \in Frame /\ TaintStatus(taint) # Register
  BY <1>a, FrameMakers, RegisterAlone
<1>e. Report(Snapshot) \in Frame /\ Report(Snapshot) # Register
  BY <1>0, SnapshotIs, RegisterAlone
<1>f. \A gone : Leave(gone) => /\ ~Open /\ stage' = "down" /\ UNCHANGED <<link, wire, stream>>
                               /\ down' = [down EXCEPT ![stream] = << >>]
  BY DEF Leave
<1>g. \A f : Put(f) => UNCHANGED down
  BY DEF Put
<1>1. CASE SendReport
  <2>1. /\ stage = "report" /\ UNCHANGED <<out, startup>>
        /\ \/ Put(Report(Snapshot)) /\ stage' = "taint" /\ UNCHANGED carry
           \/ Leave(Ends(carry)) /\ carry' = <<Report(Snapshot)>>
    BY <1>1 DEF SendReport
  <2>2. Unregistering'
    BY <1>b, <1>e, <2>1 DEF Unregistering
  <2> QED
    BY <1>e, <1>f, <1>g, <2>1, <2>2 DEF Registered
<1>2. CASE SendTaint
  <2>1. /\ stage = "taint" /\ UNCHANGED <<out, startup>>
        /\ \/ Put(TaintStatus(taint)) /\ stage' = NextStage(startup, carry) /\ UNCHANGED carry
           \/ Leave(Ends(carry)) /\ carry' = <<TaintStatus(taint)>>
    BY <1>2 DEF SendTaint
  <2>2. Unregistering'
    BY <1>b, <1>d, <2>1 DEF Unregistering
  <2> QED
    BY <1>d, <1>f, <1>g, <2>1, <2>2, NextStageIs DEF Registered
<1>3. CASE SendStartup
  <2>1. /\ stage = "startup" /\ UNCHANGED <<out, carry>>
        /\ \/ /\ Put(Head(startup)) /\ startup' = Tail(startup)
              /\ stage' = NextStage(Tail(startup), carry)
           \/ Leave({}) /\ UNCHANGED startup
    BY <1>3 DEF SendStartup
  <2>2. startup # << >>
    BY <1>0, <2>1 DEF Held
  <2>3. /\ Head(startup) \in Frame /\ Head(startup) # Register
        /\ Register \notin Elements(Tail(startup))
    BY <1>a, <1>c, <2>2 DEF Unregistering
  <2>4. Unregistering'
    BY <2>1, <2>3 DEF Unregistering
  <2> QED
    BY <1>f, <1>g, <2>1, <2>3, <2>4, NextStageIs DEF Registered
<1>4. CASE SendCarry
  <2>1. /\ stage = "carry" /\ UNCHANGED <<out, startup>>
        /\ \/ Put(carry[1]) /\ carry' = << >> /\ stage' = "up"
           \/ Leave({}) /\ UNCHANGED carry
    BY <1>4 DEF SendCarry
  <2>2. carry # << >>
    BY <1>0, <2>1 DEF Held
  <2>3. carry[1] = Head(carry)
    BY <1>a, <2>2, TailFacts
  <2>4. carry[1] \in Frame /\ carry[1] # Register
    BY <1>a, <1>c, <2>2, <2>3 DEF Unregistering
  <2>5. Unregistering'
    BY <1>b, <2>1 DEF Unregistering
  <2> QED
    BY <1>f, <1>g, <2>1, <2>4, <2>5 DEF Registered
<1>5. CASE SendBeat
  <2>1. /\ stage = "beat" /\ UNCHANGED <<out, carry, startup>>
        /\ (Put(Heartbeat) /\ stage' = "up") \/ Leave({})
    BY <1>5 DEF SendBeat
  <2>2. Unregistering'
    BY <2>1 DEF Unregistering
  <2> QED
    BY <1>f, <1>g, <2>1, <2>2, RegisterAlone DEF Registered
<1>6. CASE Notice
  <2>1. Leave({}) /\ UNCHANGED <<out, carry, startup>>
    BY <1>6 DEF Notice
  <2>2. Unregistering'
    BY <2>1 DEF Unregistering
  <2> QED
    BY <1>f, <2>1, <2>2
<1> QED
  BY <1>1, <1>2, <1>3, <1>4, <1>5, <1>6 DEF Pushing

(* No task emits a Register, and the loop keeps none.                       *)
LEMMA UnregisteringKept ==
  ASSUME LinkInv, Unregistering, [Next]_vars
  PROVE  Unregistering'
<1> USE DEF hostVars, loopVars, wireVars, masterVars, readerVars, history
<1>0. Typed /\ HostTyped /\ LoopTyped /\ Tasks /\ Clearing
  BY DEF LinkInv, Agent, Typed
<1>a. /\ out \in Seq(Frame) /\ startup \in Seq(Frame) /\ view \in [Instance -> View]
  BY <1>0 DEF LoopTyped, HostTyped
<1>1. CASE UNCHANGED <<out, carry, startup>>
  BY <1>1 DEF Unregistering
<1>2. ASSUME NEW f \in Frame, f # Register, out' = Append(out, f), UNCHANGED <<carry, startup>>
      PROVE  Unregistering'
  <2>1. Elements(out') = Elements(out) \cup {f}
    BY <1>a, <1>2, ElementsOf
  <2> QED
    BY <1>2, <2>1 DEF Unregistering
<1>3. ASSUME NEW i \in Instance, Perform(i) PROVE Unregistering'
  <2>1. /\ view[i] \in Live \cup Terminal
        /\ Said(i) \/ Removed(i) \/ MarkedNow(i) \/ ToldTaint(i)
        /\ UNCHANGED <<carry, startup>>
    BY <1>0, <1>a, <1>3, PerformIs DEF Tasks
  <2>2. /\ Status(i, view[i]) \in Frame /\ TaintStatus(TRUE) \in Frame
        /\ Status(i, view[i]) # Register /\ TaintStatus(TRUE) # Register
    BY <2>1, FrameMakers, RegisterAlone
  <2>3. CASE Said(i)
    BY <1>2, <2>1, <2>2, <2>3 DEF Said
  <2>4. CASE ToldTaint(i)
    BY <1>2, <2>1, <2>2, <2>4 DEF ToldTaint
  <2>5. CASE Removed(i) \/ MarkedNow(i)
    BY <1>1, <2>1, <2>5 DEF Removed, MarkedNow
  <2> QED
    BY <2>1, <2>3, <2>4, <2>5
<1>4. CASE PerformClear
  <2>1. (Cleared \/ ReadBack \/ ToldClear) /\ UNCHANGED <<carry, startup>>
    BY <1>0, <1>4, PerformClearIs
  <2>2. CASE Cleared \/ ReadBack
    BY <1>1, <2>1, <2>2 DEF Cleared, ReadBack
  <2>3. CASE ToldClear
    <3>1. PICK b \in BOOLEAN : out' = Append(out, TaintStatus(b))
      BY <2>3 DEF ToldClear
    <3> QED
      BY <1>2, <2>1, <3>1, FrameMakers, RegisterAlone
  <2> QED
    BY <2>1, <2>2, <2>3
<1>5. CASE Pushing
  BY <1>5, PushingPuts
<1>6. CASE Crash
  <2>1. out' = << >> /\ carry' = << >> /\ startup' = << >>
    BY <1>6 DEF Crash
  <2> QED
    BY <2>1, ElementsShort DEF Unregistering
<1>7. ASSUME NEW i \in Instance, ReplayEntry(i) PROVE Unregistering'
  <2>1. /\ UNCHANGED <<out, carry>>
        /\ \/ \E s \in {"Aborted", "Error"} :
                startup' = startup \o <<Status(i, "Recovering"), Status(i, s)>>
           \/ startup' =
                startup \o <<Status(i, "Recovering"), TaintStatus(TRUE), Status(i, "Error")>>
    BY <1>7 DEF ReplayEntry
  <2>2. /\ TaintStatus(TRUE) \in Frame
        /\ \A s \in {"Recovering", "Aborted", "Error"} : Status(i, s) \in Frame
    BY FrameMakers DEF Live, Terminal
  <2>3. ASSUME NEW t \in Seq(Frame), Register \notin Elements(t), startup' = startup \o t
        PROVE  Unregistering'
    <3>1. Elements(startup') = Elements(startup) \cup Elements(t)
      BY <1>a, <2>3, ElementsJoined
    <3> QED
      BY <2>1, <2>3, <3>1 DEF Unregistering
  <2>4. ASSUME NEW s \in {"Aborted", "Error"},
               startup' = startup \o <<Status(i, "Recovering"), Status(i, s)>>
        PROVE  Unregistering'
    <3>1. /\ <<Status(i, "Recovering"), Status(i, s)>> \in Seq(Frame)
          /\ Register \notin Elements(<<Status(i, "Recovering"), Status(i, s)>>)
      BY <2>2, ShortSequences, ElementsShort, RegisterAlone
    <3> QED
      BY <2>3, <2>4, <3>1
  <2>5. ASSUME startup' =
                 startup \o <<Status(i, "Recovering"), TaintStatus(TRUE), Status(i, "Error")>>
        PROVE  Unregistering'
    <3> DEFINE t == <<Status(i, "Recovering"), TaintStatus(TRUE), Status(i, "Error")>>
    <3>1. t \in Seq(Frame)
      BY <2>2, ShortSequences
    <3>2. Elements(t) = {Status(i, "Recovering"), TaintStatus(TRUE), Status(i, "Error")}
      BY ElementsShort
    <3>3. startup' = startup \o t
      BY <2>5
    <3> HIDE DEF t
    <3>4. Register \notin Elements(t)
      BY <3>2, RegisterAlone
    <3> QED
      BY <2>3, <3>1, <3>3, <3>4
  <2> QED
    BY <2>1, <2>4, <2>5
<1>8. ASSUME NEW i \in Instance, React(i) \/ Order(i) PROVE UNCHANGED <<out, carry, startup>>
  BY <1>8 DEF React, Order
<1>11. ASSUME NEW i \in Instance, SkipEntry(i) PROVE Unregistering'
  <2>1. PICK g \in Frame : g = TaintStatus(TRUE)
    BY FrameMakers
  <2>2. startup' = Append(startup, g) /\ g # Register /\ UNCHANGED <<out, carry>>
    BY <1>11, <2>1, RegisterAlone DEF SkipEntry
  <2>3. \A h \in Frame : Elements(Append(startup, h)) = Elements(startup) \cup {h}
    BY <1>a, ElementsOf
  <2> QED
    BY <2>2, <2>3 DEF Unregistering
<1>12. CASE AbandonReplay
  <2>1. startup' = << >> /\ UNCHANGED <<out, carry>>
    BY <1>12 DEF AbandonReplay
  <2> QED
    BY <2>1, ElementsShort DEF Unregistering
<1>13. CASE Taking
  <2>1. CASE UNCHANGED <<out, carry, startup>>
    BY <1>1, <2>1
  <2>2. CASE out # << >> /\ carry' = <<Head(out)>> /\ out' = Tail(out) /\ UNCHANGED startup
    <3>1. Elements(out) = {Head(out)} \cup Elements(Tail(out))
      BY <1>a, <2>2, ElementsOf
    <3>2. Elements(<<Head(out)>>) = {Head(out)}
      BY ElementsShort
    <3> QED
      BY <2>2, <3>1, <3>2 DEF Unregistering
  <2> QED
    BY <1>13, <2>1, <2>2, TakingIs
<1>14. Aside => UNCHANGED <<out, carry, startup>>
  BY <1>0, AsideIs
<1>9. ASSUME NEW n \in StreamId, Intake(n) \/ Acknowledge(n) \/ Close(n) \/ Break(n)
      PROVE  UNCHANGED <<out, carry, startup>>
  BY <1>9 DEF Intake, Acknowledge, Close, Break
<1>10. Connect \/ AwaitAck \/ Receive \/ Booted \/ Relay \/ UNCHANGED vars
         => UNCHANGED <<out, carry, startup>>
  BY DEF Connect, AwaitAck, Receive, Booted, Relay, vars
<1> QED
  BY <1>1, <1>3, <1>4, <1>5, <1>6, <1>7, <1>8, <1>9, <1>10, <1>11, <1>12, <1>13, <1>14, StepsRelay
  DEF Relaying

(* What a step of the loop, of a task or of the master's reader leaves of   *)
(* the places of one Register.                                              *)
LEMMA HandedStays ==
  ASSUME NEW n \in StreamId, Handed(n), Onward(n)' => Onward(n), wire'[n] = wire[n],
         down'[n] = down[n], n \in acking' => n \in acking
  PROVE  Handed(n)'
<1>1. Elements(wire'[n]) = Elements(wire[n]) /\ Elements(down'[n]) = Elements(down[n])
  BY DEF Elements
<1>2. (Once(wire'[n], Register) <=> Once(wire[n], Register))
      /\ (Once(down'[n], RegisterAck) <=> Once(down[n], RegisterAck))
  BY DEF Once
<1> QED
  BY <1>1, <1>2 DEF Handed

(* The Register of a stream is in one place only.                           *)
LEMMA HandedKept ==
  ASSUME LinkInv, Registration, [Next]_vars
  PROVE  \A n \in StreamId : Handed(n)'
<1> USE DEF hostVars, loopVars, wireVars, masterVars, readerVars, history
<1>0. /\ Typed /\ Streams /\ Linked /\ Heeded /\ Held /\ Unregistering
      /\ \A n \in StreamId : Handed(n)
  BY DEF LinkInv, Streams, Agent, Registration
<1>a. /\ wire \in [StreamId -> Seq(Frame)] /\ down \in [StreamId -> Seq(Command)]
      /\ stream \in Nat /\ \A n \in StreamId : n \in Nat /\ n > 0
  BY <1>0, StreamFacts DEF Typed, WireTyped, LoopTyped
<1>b. Register \in Frame /\ RegisterAck \in Command
  BY RegisterAlone
<1>c. /\ Elements(<< >>) = {} /\ Elements(<<Register>>) = {Register}
      /\ Once(<< >>, Register) /\ Once(<< >>, RegisterAck) /\ Once(<<Register>>, Register)
  BY ElementsShort DEF Once
<1>1. CASE UNCHANGED <<wire, down, acking, stream, stage>>
  BY <1>0, <1>1, HandedStays DEF Onward
<1>2. CASE Connect
  <2>1. /\ stream' = stream + 1 /\ stage' = "ack"
        /\ wire' = [wire EXCEPT ![stream'] = <<Register>>] /\ UNCHANGED <<down, acking>>
    BY <1>2 DEF Connect
  <2>2. \A n \in StreamId : ~Onward(n)'
    BY <2>1 DEF Onward, Registered
  <2>3. ASSUME NEW n \in StreamId, n # stream + 1 PROVE Handed(n)'
    <3>1. wire'[n] = wire[n]
      BY <1>a, <2>1, <2>3
    <3> QED
      BY <1>0, <2>1, <2>2, <3>1, HandedStays
  <2>4. ASSUME NEW n \in StreamId, n = stream + 1 PROVE Handed(n)'
    <3>1. wire'[n] = <<Register>>
      BY <1>a, <2>1, <2>4
    <3>2. ~(n <= stream) /\ n # stream
      BY <1>a, <2>4
    <3>3. n \notin acking' /\ down'[n] = << >>
      BY <1>0, <2>1, <3>2 DEF Heeded, Linked
    <3> QED
      BY <1>c, <2>2, <3>1, <3>3 DEF Handed
  <2> QED
    BY <2>3, <2>4
<1>3. CASE AwaitAck
  <2> DEFINE c == Head(down[stream])
  <2>1. /\ stage = "ack" /\ down[stream] # << >>
        /\ stage' = IF c = RegisterAck THEN "report" ELSE "ack"
        /\ down' = [down EXCEPT ![stream] = Tail(@)]
        /\ UNCHANGED <<wire, acking, stream>>
    BY <1>3 DEF AwaitAck
  <2>2. PICK s \in StreamId : s = stream
    BY <1>0, <2>1, HasStream
  <2>3. \A n \in StreamId \ {s} : Handed(n)'
    <3>1. ASSUME NEW n \in StreamId \ {s} PROVE Handed(n)'
      <4>1. down'[n] = down[n] /\ ~Onward(n)'
        BY <1>a, <2>1, <2>2 DEF Onward
      <4> QED
        BY <1>0, <2>1, <4>1, HandedStays
    <3> QED
      BY <3>1
  <2>4. /\ down'[s] = Tail(down[s])
        /\ Elements(down[s]) = {c} \cup Elements(Tail(down[s]))
        /\ c \in Command /\ c = Head(down[s])
    BY <1>a, <2>1, <2>2, ElementsOf
  <2>5. /\ Once(Tail(down[s]), RegisterAck)
        /\ c = RegisterAck => RegisterAck \notin Elements(Tail(down[s]))
    BY <1>0, <1>a, <1>b, <2>1, <2>2, <2>4, OnceOf DEF Handed
  <2> HIDE DEF c
  <2>6. Onward(s)' => c = RegisterAck
    BY <2>1 DEF Onward, Registered
  <2>7. Handed(s)'
    <3>1. Handed(s)
      BY <1>0, <2>2
    <3>2. c = RegisterAck => Register \notin Elements(wire[s]) /\ s \notin acking
      BY <2>4, <3>1 DEF Handed
    <3>3. wire' = wire /\ acking' = acking /\ stream' = stream
      BY <2>1
    <3>4. Once(down'[s], RegisterAck) /\ Once(wire'[s], Register)
      BY <2>4, <2>5, <3>1, <3>3 DEF Handed
    <3>5. Elements(down'[s]) \subseteq Elements(down[s])
      BY <2>4
    <3>6. Onward(s)' => /\ Register \notin Elements(wire'[s])
                             /\ s \notin acking'
                             /\ RegisterAck \notin Elements(down'[s])
      BY <2>4, <2>5, <2>6, <3>2, <3>3
    <3>7. /\ s \in acking' \/ RegisterAck \in Elements(down'[s])
               => Register \notin Elements(wire'[s])
          /\ s \in acking' => RegisterAck \notin Elements(down'[s])
      BY <3>1, <3>3, <3>5 DEF Handed
    <3> QED
      BY <3>3, <3>4, <3>6, <3>7 DEF Handed
  <2> QED
    BY <2>3, <2>7
<1>4. CASE Pushing
  <2>1. stream \in StreamId /\ UNCHANGED <<stream, acking>>
        /\ \A n \in StreamId \ {stream} : wire'[n] = wire[n]
    BY <1>0, <1>4, PushingIs, PushingWires
  <2>s. PICK s \in StreamId : s = stream
    BY <2>1
  <2>2. \A n \in StreamId \ {stream} : down'[n] = down[n] /\ (Onward(n)' => Onward(n))
    <3>1. UNCHANGED down \/ down' = [down EXCEPT ![stream] = << >>]
      BY <1>4, PushingIs
    <3> QED
      BY <1>a, <2>1, <3>1 DEF Onward
  <2>3. \A n \in StreamId \ {stream} : Handed(n)'
    BY <1>0, <2>1, <2>2, HandedStays
  <2>4. Handed(s)
    BY <1>0, <2>s
  <2>5. ASSUME stage \in Registered, stage' \in Registered, UNCHANGED down,
               NEW f \in Frame, f # Register, Put(f)
        PROVE  Handed(s)'
    <3>1. CASE UNCHANGED wire
      BY <2>1, <2>s, <2>4, <2>5, <3>1, HandedStays DEF Onward
    <3>2. CASE wire' = [wire EXCEPT ![stream] = Append(@, f)]
      <4>1. wire'[s] = Append(wire[s], f) /\ wire[s] \in Seq(Frame)
        BY <1>a, <2>1, <2>s, <3>2
      <4>2. Elements(wire'[s]) = Elements(wire[s]) \cup {f}
        BY <2>5, <4>1, ElementsOf
      <4>3. Once(wire'[s], Register)
        BY <1>b, <2>4, <2>5, <4>1, OnceIn DEF Handed
      <4>4. Onward(s) /\ down'[s] = down[stream]
        BY <2>s, <2>5 DEF Onward
      <4>5. /\ Register \notin Elements(wire'[s]) /\ s \notin acking
            /\ RegisterAck \notin Elements(down'[s]) /\ Once(down'[s], RegisterAck)
        BY <2>4, <2>5, <4>2, <4>4 DEF Handed
      <4> QED
        BY <2>1, <4>3, <4>5 DEF Handed
    <3> QED
      BY <2>5, <3>1, <3>2 DEF Put
  <2>6. ASSUME stage' = "down", UNCHANGED wire, down' = [down EXCEPT ![stream] = << >>]
        PROVE  Handed(s)'
    <3>1. down'[s] = << >> /\ wire'[s] = wire[s] /\ ~Onward(s)'
      BY <1>a, <2>1, <2>s, <2>6 DEF Onward, Registered
    <3> QED
      BY <1>c, <2>1, <2>4, <3>1 DEF Handed
  <2>7. \/ stage \in Registered /\ stage' \in Registered /\ UNCHANGED down
           /\ \E f \in Frame : f # Register /\ Put(f)
        \/ stage' = "down" /\ UNCHANGED wire /\ down' = [down EXCEPT ![stream] = << >>]
    BY <1>0, <1>4, PushingPuts
  <2> QED
    BY <2>1, <2>s, <2>3, <2>5, <2>6, <2>7
<1>5. CASE Receive
  <2>1. /\ stage = "up" /\ down[stream] # << >>
        /\ down' = [down EXCEPT ![stream] = Tail(@)]
        /\ UNCHANGED <<stage, stream, wire, acking>>
    BY <1>5 DEF Receive
  <2>2. PICK s \in StreamId : s = stream
    BY <1>0, <2>1, HasStream
  <2>3. ASSUME NEW n \in StreamId \ {s} PROVE Handed(n)'
    <3>1. down'[n] = down[n] /\ (Onward(n)' => Onward(n))
      BY <1>a, <2>1, <2>2 DEF Onward
    <3> QED
      BY <1>0, <2>1, <3>1, HandedStays
  <2>4. Handed(s)'
    <3>1. Handed(s) /\ Onward(s) /\ wire' = wire /\ acking' = acking
      BY <1>0, <2>1, <2>2 DEF Onward, Registered
    <3>2. /\ down'[s] = Tail(down[s])
          /\ Elements(Tail(down[s])) \subseteq Elements(down[s])
          /\ Once(Tail(down[s]), RegisterAck)
      BY <1>a, <1>b, <2>1, <2>2, <3>1, ElementsOf, OnceOf DEF Handed
    <3> QED
      BY <3>1, <3>2 DEF Handed
  <2> QED
    BY <2>3, <2>4
<1>6. CASE Crash
  <2>1. /\ stage' = "boot" /\ UNCHANGED <<stream, wire, acking>>
        /\ down' = [n \in StreamId |-> IF n = stream THEN << >> ELSE down[n]]
    BY <1>6 DEF Crash
  <2>2. ASSUME NEW n \in StreamId PROVE Handed(n)'
    <3>1. Handed(n) /\ ~Onward(n)' /\ down'[n] \in {<< >>, down[n]}
      BY <1>0, <2>1 DEF Onward, Registered
    <3>2. CASE down'[n] = << >>
      BY <1>c, <2>1, <3>1, <3>2 DEF Handed
    <3>3. CASE down'[n] = down[n]
      BY <2>1, <3>1, <3>3, HandedStays
    <3> QED
      BY <3>1, <3>2, <3>3
  <2> QED
    BY <2>2
<1>7. ASSUME NEW m \in StreamId, Intake(m) PROVE \A n \in StreamId : Handed(n)'
  <2> DEFINE f == Head(wire[m])
  <2>1. /\ wire[m] # << >> /\ wire' = [wire EXCEPT ![m] = Tail(@)]
        /\ acking' = IF f.type = "Register" THEN acking \cup {m} ELSE acking
        /\ UNCHANGED <<down, stream, stage>>
    BY <1>7 DEF Intake
  <2>2. ASSUME NEW n \in StreamId \ {m} PROVE Handed(n)'
    <3>1. wire'[n] = wire[n] /\ (Onward(n)' => Onward(n)) /\ (n \in acking' => n \in acking)
      BY <1>a, <2>1 DEF Onward
    <3> QED
      BY <1>0, <2>1, <3>1, HandedStays
  <2>3. Handed(m)'
    <3>1. Handed(m) /\ (Onward(m)' <=> Onward(m)) /\ down' = down
      BY <1>0, <2>1 DEF Onward
    <3>2. /\ wire'[m] = Tail(wire[m]) /\ f \in Frame
          /\ Elements(wire[m]) = {f} \cup Elements(Tail(wire[m]))
      BY <1>a, <2>1, ElementsOf
    <3>3. /\ Once(Tail(wire[m]), Register)
          /\ f = Register => Register \notin Elements(Tail(wire[m]))
      BY <1>a, <1>b, <2>1, <3>1, OnceIn DEF Handed
    <3> HIDE DEF f
    <3>4. f.type = "Register" => f = Register
      BY <3>2, FrameKinds, FrameFields
    <3>5. CASE f.type = "Register"
      <4>1. Register \in Elements(wire[m]) /\ Register \notin Elements(wire'[m])
        BY <3>2, <3>3, <3>4, <3>5
      <4>2. ~Onward(m) /\ m \notin acking /\ RegisterAck \notin Elements(down[m])
        BY <3>1, <4>1 DEF Handed
      <4> QED
        BY <3>1, <3>2, <3>3, <4>1, <4>2 DEF Handed
    <3>6. CASE f.type # "Register"
      <4>1. acking' = acking /\ Elements(wire'[m]) \subseteq Elements(wire[m])
        BY <2>1, <3>2, <3>6
      <4> QED
        BY <3>1, <3>2, <3>3, <4>1 DEF Handed
    <3> QED
      BY <3>5, <3>6
  <2> QED
    BY <2>2, <2>3
<1>8. ASSUME NEW m \in StreamId, NEW c \in Command, Pass(m, c) \/ UNCHANGED down,
             UNCHANGED <<wire, stream, stage>>,
             \A n \in StreamId \ {m} : n \in acking' => n \in acking,
             \/ c # RegisterAck /\ acking' = acking
             \/ c = RegisterAck /\ m \in acking /\ m \notin acking'
      PROVE  \A n \in StreamId : Handed(n)'
  <2>1. /\ \A k \in StreamId \ {m} : down'[k] = down[k]
        /\ \/ down'[m] = Append(down[m], c) /\ Elements(down'[m]) = Elements(down[m]) \cup {c}
           \/ down' = down
    BY <1>0, <1>8, DownPassed
  <2>2. \A n \in StreamId : Onward(n)' <=> Onward(n)
    BY <1>8 DEF Onward
  <2>3. \A n \in StreamId \ {m} : Handed(n)'
    BY <1>0, <1>8, <2>1, <2>2, HandedStays
  <2>4. Handed(m)
    BY <1>0
  <2>5. CASE down' = down
    <3>1. m \in acking' => m \in acking
      BY <1>8
    <3> QED
      BY <1>8, <2>2, <2>3, <2>4, <2>5, <3>1, HandedStays
  <2>6. CASE down'[m] = Append(down[m], c) /\ Elements(down'[m]) = Elements(down[m]) \cup {c}
    <3>1. c = RegisterAck => /\ m \in acking /\ RegisterAck \notin Elements(down[m])
                             /\ Register \notin Elements(wire[m]) /\ ~Onward(m) /\ m \notin acking'
      BY <1>8, <2>4 DEF Handed
    <3>2. Once(down'[m], RegisterAck)
      BY <1>8, <1>a, <1>b, <2>4, <2>6, <3>1, OnceOf DEF Handed
    <3>3. ASSUME c = RegisterAck PROVE Handed(m)'
      BY <1>8, <2>2, <2>4, <3>1, <3>2, <3>3 DEF Handed
    <3>4. ASSUME c # RegisterAck PROVE Handed(m)'
      <4>1. RegisterAck \in Elements(down'[m]) <=> RegisterAck \in Elements(down[m])
        BY <2>6, <3>4
      <4> QED
        BY <1>8, <2>2, <2>4, <3>2, <3>4, <4>1 DEF Handed
    <3>5. Handed(m)'
      BY <3>3, <3>4
    <3> QED
      BY <2>3, <3>5
  <2> QED
    BY <2>1, <2>5, <2>6
<1>9. ASSUME NEW m \in StreamId, Acknowledge(m) PROVE \A n \in StreamId : Handed(n)'
  <2>1. /\ m \in acking /\ acking' = acking \ {m} /\ Pass(m, RegisterAck)
        /\ UNCHANGED <<wire, stream, stage>>
    BY <1>9 DEF Acknowledge
  <2> QED
    BY <1>8, <1>b, <2>1
<1>10. ASSUME NEW m \in StreamId, Close(m) PROVE \A n \in StreamId : Handed(n)'
  <2>1. /\ wire' = [wire EXCEPT ![m] = << >>] /\ acking' = acking \ {m}
        /\ UNCHANGED <<down, stream, stage>>
    BY <1>10 DEF Close
  <2>2. ASSUME NEW n \in StreamId PROVE Handed(n)'
    <3>1. Handed(n) /\ (Onward(n)' <=> Onward(n)) /\ wire'[n] \in {<< >>, wire[n]}
      BY <1>0, <1>a, <2>1 DEF Onward
    <3>2. CASE wire'[n] = << >>
      BY <1>c, <2>1, <3>1, <3>2 DEF Handed
    <3>3. CASE wire'[n] = wire[n]
      BY <2>1, <3>1, <3>3, HandedStays
    <3> QED
      BY <3>1, <3>2, <3>3
  <2> QED
    BY <2>2
<1>11. ASSUME NEW i \in Instance, Order(i) PROVE \A n \in StreamId : Handed(n)'
  <2>1. session # 0 /\ (Pass(session, RunFault(i)) \/ UNCHANGED down) /\ UNCHANGED <<wire, stream, stage, acking>>
    BY <1>11 DEF Order, Say
  <2>2. session \in StreamId /\ RunFault(i) \in Command /\ RunFault(i) # RegisterAck
    BY <1>0, <2>1, FrameMakers, CommandsDiffer DEF Typed, MasterTyped
  <2> QED
    BY <1>8, <2>1, <2>2
<1>12. CASE Relay
  <2>1. session # 0 /\ (Pass(session, ClearTaint) \/ UNCHANGED down) /\ UNCHANGED <<wire, stream, stage, acking>>
    BY <1>12 DEF Relay, Say
  <2>2. session \in StreamId /\ ClearTaint \in Command /\ ClearTaint # RegisterAck
    BY <1>0, <2>1, FrameMakers, CommandsDiffer DEF Typed, MasterTyped
  <2> QED
    BY <1>8, <2>1, <2>2
<1>13. CASE Booted \/ AbandonReplay
  <2>1. stage = "boot" /\ stage' = "down" /\ UNCHANGED <<wire, down, acking, stream>>
    BY <1>13 DEF Booted, AbandonReplay
  <2> QED
    BY <1>0, <2>1, HandedStays DEF Onward, Registered
<1>14. ASSUME NEW i \in Instance, React(i) \/ Perform(i) \/ ReplayEntry(i) \/ SkipEntry(i)
       PROVE  UNCHANGED <<wire, down, acking, stream, stage>>
  BY <1>14 DEF React, Perform, ReplayEntry, SkipEntry
<1>15. ASSUME NEW n \in StreamId, Break(n) PROVE UNCHANGED <<wire, down, acking, stream, stage>>
  BY <1>15 DEF Break
<1>16. PerformClear \/ UNCHANGED vars => UNCHANGED <<wire, down, acking, stream, stage>>
  BY DEF PerformClear, vars
<1>17. CASE Taking
  <2>1. stage = "up" /\ UNCHANGED <<wire, down, acking, stream>>
    BY <1>17, TakingIs
  <2> QED
    BY <1>0, <2>1, HandedStays DEF Onward, Registered
<1>18. CASE Aside
  <2>1. /\ UNCHANGED <<wire, acking, stream, stage>>
        /\ UNCHANGED down \/ \E m \in StreamId, c \in Idle : Pass(m, c)
    BY <1>0, <1>18, AsideIs
  <2>2. ASSUME NEW m \in StreamId, NEW c \in Idle, Pass(m, c) PROVE \A n \in StreamId : Handed(n)'
    <3>1. c \in Command /\ c # RegisterAck
      BY IdleIs
    <3> QED
      BY <1>8, <2>1, <2>2, <3>1
  <2> QED
    BY <1>1, <2>1, <2>2
<1> QED
  BY <1>1, <1>2, <1>3, <1>4, <1>5, <1>6, <1>7, <1>9, <1>10, <1>11, <1>12, <1>13, <1>14, <1>15,
     <1>16, <1>17, <1>18, StepsRelay
  DEF Relaying

(* What is not in use carries nothing.                                      *)
LEMMA EmptiedKept ==
  ASSUME LinkInv, Registration, [Next]_vars
  PROVE  Emptied'
<1> USE DEF hostVars, loopVars, wireVars, masterVars, readerVars, history
<1>0. Typed /\ Streams /\ Unregistering /\ Emptied
  BY DEF LinkInv, Registration
<1>a. /\ wire \in [StreamId -> Seq(Frame)]
      /\ link \in [StreamId -> {"unused", "open", "broken", "closed"}]
  BY <1>0 DEF Typed, WireTyped
<1>1. CASE UNCHANGED <<link, wire>>
  BY <1>0, <1>1 DEF Emptied
<1>2. CASE Connect
  <2>1. /\ link' = [link EXCEPT ![stream'] = "open"]
        /\ wire' = [wire EXCEPT ![stream'] = <<Register>>]
    BY <1>2 DEF Connect
  <2> QED
    BY <1>0, <1>a, <2>1 DEF Emptied
<1>3. CASE Pushing
  <2>1. UNCHANGED link /\ stream \in StreamId
        /\ (UNCHANGED wire \/ \E f \in Frame : Put(f))
    BY <1>0, <1>3, PushingIs, PushingWires, PushingPuts
  <2>2. UNCHANGED wire \/ (Open /\ \A n \in StreamId \ {stream} : wire'[n] = wire[n])
    BY <1>a, <2>1 DEF Put
  <2> QED
    BY <1>0, <2>1, <2>2 DEF Emptied, Open
<1>4. CASE Crash
  <2>1. /\ UNCHANGED wire
        /\ link' = [n \in StreamId |-> IF n = stream /\ link[n] = "open" THEN "broken" ELSE link[n]]
    BY <1>4 DEF Crash
  <2> QED
    BY <1>0, <2>1 DEF Emptied
<1>5. ASSUME NEW m \in StreamId, Intake(m) PROVE Emptied'
  <2>1. /\ link[m] \in {"open", "broken"} /\ wire' = [wire EXCEPT ![m] = Tail(@)]
        /\ UNCHANGED link
    BY <1>5 DEF Intake
  <2> QED
    BY <1>0, <1>a, <2>1 DEF Emptied
<1>6. ASSUME NEW m \in StreamId, Close(m) PROVE Emptied'
  <2>1. /\ link' = [link EXCEPT ![m] = "closed"] /\ wire' = [wire EXCEPT ![m] = << >>]
    BY <1>6 DEF Close
  <2> QED
    BY <1>0, <1>a, <2>1 DEF Emptied
<1>7. ASSUME NEW m \in StreamId, Break(m) PROVE Emptied'
  <2>1. link' = [link EXCEPT ![m] = "broken"] /\ UNCHANGED wire
    BY <1>7 DEF Break
  <2> QED
    BY <1>0, <1>a, <2>1 DEF Emptied
<1>8. ASSUME NEW i \in Instance, React(i) \/ Perform(i) \/ ReplayEntry(i) \/ SkipEntry(i) \/ Order(i)
      PROVE  UNCHANGED <<link, wire>>
  BY <1>8 DEF React, Perform, ReplayEntry, SkipEntry, Order
<1>9. ASSUME NEW n \in StreamId, Acknowledge(n) PROVE UNCHANGED <<link, wire>>
  BY <1>9 DEF Acknowledge
<1>11. Taking \/ Aside => UNCHANGED <<link, wire>>
  BY <1>0, TakingIs, AsideIs
<1>10. AwaitAck \/ Receive \/ Booted \/ AbandonReplay \/ Relay \/ PerformClear \/ UNCHANGED vars
         => UNCHANGED <<link, wire>>
  BY DEF AwaitAck, Receive, Booted, AbandonReplay, Relay, PerformClear, vars
<1> QED
  BY <1>1, <1>2, <1>3, <1>4, <1>5, <1>6, <1>7, <1>8, <1>9, <1>10, <1>11, StepsRelay
  DEF Relaying

(* The stream whose Register was read last stays the session.               *)
LEMMA CurrentKept ==
  ASSUME LinkInv, Registration, [Next]_vars
  PROVE  Current'
<1> USE DEF hostVars, loopVars, wireVars, masterVars, readerVars, history
<1>0. Typed /\ Streams /\ Linked /\ Unwired /\ Heeded /\ Current
  BY DEF LinkInv, Streams, Registration
<1>a. /\ wire \in [StreamId -> Seq(Frame)] /\ stream \in StreamId \cup {0}
      /\ link \in [StreamId -> {"unused", "open", "broken", "closed"}]
      /\ newest \in Nat /\ newest <= stream /\ stream \in Nat
      /\ \A n \in StreamId : n \in Nat /\ n > 0
  BY <1>0, StreamFacts DEF Typed, WireTyped, LoopTyped, HistoryTyped, Heeded
<1>1. ASSUME UNCHANGED <<stream, newest, session, late>>,
             \A n \in StreamId : link'[n] \in {"open", "broken"} => link[n] \in {"open", "broken"}
      PROVE  Current'
  <2>1. stream # 0 => stream \in StreamId
    BY <1>a
  <2> QED
    BY <1>0, <1>1, <2>1 DEF Current
<1>2. CASE UNCHANGED <<stream, newest, session, late, link>>
  BY <1>1, <1>2
<1>3. CASE Connect
  <2>1. stream' = stream + 1 /\ newest' = newest
    BY <1>3 DEF Connect
  <2>2. newest' # stream'
    BY <1>a, <2>1
  <2> QED
    BY <2>2 DEF Current
<1>4. CASE Crash
  <2>1. /\ UNCHANGED <<stream, newest, session, late>>
        /\ link' = [n \in StreamId |-> IF n = stream /\ link[n] = "open" THEN "broken" ELSE link[n]]
    BY <1>4 DEF Crash
  <2> QED
    BY <1>1, <2>1
<1>5. ASSUME NEW m \in StreamId, Break(m) PROVE Current'
  <2>1. /\ UNCHANGED <<stream, newest, session, late>>
        /\ link[m] = "open" /\ link' = [link EXCEPT ![m] = "broken"]
    BY <1>5 DEF Break
  <2> QED
    BY <1>1, <1>a, <2>1
<1>6. ASSUME NEW m \in StreamId, Close(m) PROVE Current'
  <2>1. /\ UNCHANGED <<stream, newest, late>> /\ link' = [link EXCEPT ![m] = "closed"]
        /\ session' = IF session = m THEN 0 ELSE session
    BY <1>6 DEF Close
  <2>2. CASE m = stream
    <3>1. link'[stream'] = "closed"
      BY <1>a, <2>1, <2>2
    <3> QED
      BY <3>1 DEF Current
  <2>3. CASE m # stream
    <3>1. stream # 0 => link'[stream'] = link[stream]
      BY <1>a, <2>1, <2>3
    <3> QED
      BY <1>0, <2>1, <2>3, <3>1 DEF Current
  <2> QED
    BY <2>2, <2>3
<1>7. ASSUME NEW m \in StreamId, Intake(m) PROVE Current'
  <2> DEFINE f == Head(wire[m])
  <2>1. /\ wire[m] # << >> /\ UNCHANGED <<link, stream>>
        /\ session' = IF f.type = "Register" THEN m ELSE session
        /\ newest' = IF f.type = "Register" /\ m > newest THEN m ELSE newest
        /\ late' = IF m < newest THEN late \cup Topics(f) ELSE late \ Topics(f)
    BY <1>7 DEF Intake
  <2>2. f \in Frame
    BY <1>a, <2>1, ElementsOf
  <2>3. m <= stream
    BY <1>0, <1>a, <2>1 DEF Unwired
  <2> HIDE DEF f
  <2>4. CASE f.type = "Register"
    <3>1. Topics(f) = {<<"Register", None>>}
      BY <2>2, <2>4, FrameKinds, FrameFields, TopicsOf
    <3>2. CASE m = stream
      BY <2>1, <2>4, <3>2 DEF Current
    <3>3. CASE m # stream
      <4>1. newest' = stream => newest = stream /\ m < newest
        BY <1>a, <2>1, <2>3, <3>3
      <4>2. newest' = stream => <<"Register", None>> \in late'
        BY <2>1, <3>1, <4>1
      <4> QED
        BY <2>1, <4>2 DEF Current
    <3> QED
      BY <3>2, <3>3
  <2>5. CASE f.type # "Register"
    <3>1. <<"Register", None>> \notin Topics(f)
      <4>1. f # Register
        BY <2>5, FrameFields
      <4>2. \A b : <<"Register", None>> \notin Topics(TaintStatus(b))
        BY TopicsOf, TopicsDiffer
      <4>3. \A i, s : <<"Register", None>> \notin Topics(Status(i, s))
        BY TopicsOf, TopicsDiffer
      <4>4. \A v : <<"Register", None>> \notin Topics(Report(v))
        BY TopicsOf, TopicsDiffer
      <4>5. <<"Register", None>> \notin Topics(Heartbeat)
        BY TopicsOf
      <4> QED
        BY <2>2, <4>1, <4>2, <4>3, <4>4, <4>5, FrameKinds
    <3>2. <<"Register", None>> \in late => <<"Register", None>> \in late'
      BY <2>1, <3>1
    <3>3. session' = session /\ newest' = newest
      BY <2>1, <2>5
    <3> QED
      BY <1>0, <2>1, <3>2, <3>3 DEF Current
  <2> QED
    BY <2>4, <2>5
<1>8. CASE Pushing
  BY <1>2, <1>8, PushingIs
<1>9. ASSUME NEW i \in Instance, React(i) \/ Perform(i) \/ ReplayEntry(i) \/ SkipEntry(i) \/ Order(i)
      PROVE  UNCHANGED <<stream, newest, session, late, link>>
  BY <1>9 DEF React, Perform, ReplayEntry, SkipEntry, Order
<1>10. ASSUME NEW n \in StreamId, Acknowledge(n)
       PROVE  UNCHANGED <<stream, newest, session, late, link>>
  BY <1>10 DEF Acknowledge
<1>12. Taking \/ Aside => UNCHANGED <<stream, newest, session, late, link>>
  BY <1>0, TakingIs, AsideIs
<1>11. AwaitAck \/ Receive \/ Booted \/ AbandonReplay \/ Relay \/ PerformClear \/ UNCHANGED vars
         => UNCHANGED <<stream, newest, session, late, link>>
  BY DEF AwaitAck, Receive, Booted, AbandonReplay, Relay, PerformClear, vars
<1> QED
  BY <1>2, <1>3, <1>4, <1>5, <1>6, <1>7, <1>8, <1>9, <1>10, <1>11, <1>12, StepsRelay
  DEF Relaying

(* Until the agent has read the acknowledgement it is on the way.           *)
LEMMA AwaitedKept ==
  ASSUME LinkInv, Registration, [Next]_vars
  PROVE  Awaited'
<1> USE DEF hostVars, loopVars, wireVars, masterVars, readerVars, history
<1>0. Typed /\ Streams /\ Linked /\ Awaited
  BY DEF LinkInv, Streams, Registration
<1>a. /\ wire \in [StreamId -> Seq(Frame)] /\ down \in [StreamId -> Seq(Command)]
      /\ link \in [StreamId -> {"unused", "open", "broken", "closed"}]
      /\ stream \in Nat
  BY <1>0, StreamFacts DEF Typed, WireTyped, LoopTyped
<1>b. Elements(<<Register>>) = {Register} /\ RegisterAck \in Command
  BY ElementsShort, RegisterAlone
<1>1. ASSUME NEW s \in StreamId, s = stream, stage = "ack", UNCHANGED stream,
             Open' => Open,
             Register \in Elements(wire[s]) =>
               Register \in Elements(wire'[s]) \/ s \in acking',
             s \in acking => s \in acking' \/ RegisterAck \in Elements(down'[s]),
             RegisterAck \in Elements(down[s]) =>
               RegisterAck \in Elements(down'[s]) \/ stage' # "ack"
      PROVE  Awaited'
  BY <1>0, <1>1 DEF Awaited
<1>2. CASE stage' # "ack" \/ ~Open'
  BY <1>2 DEF Awaited
<1>3. CASE UNCHANGED <<stage, stream, link, wire, acking, down>>
  BY <1>0, <1>3 DEF Awaited, Open
<1>4. CASE Connect
  <2>1. stream' = stream + 1 /\ wire' = [wire EXCEPT ![stream'] = <<Register>>]
        /\ link' = [link EXCEPT ![stream'] = "open"] /\ UNCHANGED <<down, acking>>
    BY <1>4 DEF Connect
  <2>2. stream' \in StreamId
    BY <1>a, <2>1, TypedKept DEF Typed, LoopTyped
  <2>3. wire'[stream'] = <<Register>>
    BY <1>a, <2>1, <2>2
  <2> QED
    BY <1>b, <2>3 DEF Awaited
<1> SUFFICES ASSUME stage = "ack", stage' = "ack", UNCHANGED stream, ~Connect PROVE Awaited'
  <2>1. Pushing \/ Taking \/ Aside =>
          UNCHANGED stream /\ (stage' # "ack" \/ stage = "ack")
    BY <1>0, PushingIs, TakingIs, AsideIs DEF Registered
  <2>2. (UNCHANGED stream /\ (stage' # "ack" \/ stage = "ack")) \/ Connect
    BY <2>1, StepsRelay
    DEF Relaying, AwaitAck, Receive, React, Perform, PerformClear, ReplayEntry, SkipEntry,
        AbandonReplay, Booted, Crash, Break, Intake, Acknowledge, Close, Order, Relay, vars
  <2> QED
    BY <1>2, <1>4, <2>2
<1>5. PICK s \in StreamId : s = stream
  BY <1>0, HasStream
<1>6. CASE AwaitAck
  <2>1. /\ down[s] # << >> /\ Head(down[s]) # RegisterAck
        /\ down' = [down EXCEPT ![s] = Tail(@)] /\ UNCHANGED <<wire, acking, link>>
    BY <1>5, <1>6 DEF AwaitAck
  <2>2. /\ down'[s] = Tail(down[s])
        /\ Elements(down[s]) = {Head(down[s])} \cup Elements(Tail(down[s]))
    BY <1>a, <2>1, ElementsOf
  <2> QED
    BY <1>1, <1>5, <2>1, <2>2 DEF Open
<1>7. ASSUME NEW m \in StreamId, Intake(m) PROVE Awaited'
  <2> DEFINE f == Head(wire[m])
  <2>1. /\ wire[m] # << >> /\ wire' = [wire EXCEPT ![m] = Tail(@)]
        /\ acking' = IF f.type = "Register" THEN acking \cup {m} ELSE acking
        /\ UNCHANGED <<down, link>>
    BY <1>7 DEF Intake
  <2>2. f \in Frame /\ Elements(wire[m]) = {f} \cup Elements(Tail(wire[m]))
    BY <1>a, <2>1, ElementsOf
  <2> HIDE DEF f
  <2>3. f = Register => f.type = "Register"
    BY FrameFields
  <2>4. Register \in Elements(wire[s]) => Register \in Elements(wire'[s]) \/ s \in acking'
    <3>1. CASE m = s
      <4>1. wire'[s] = Tail(wire[s])
        BY <1>a, <2>1, <3>1
      <4> QED
        BY <2>1, <2>2, <2>3, <3>1, <4>1
    <3>2. CASE m # s
      BY <1>a, <2>1, <3>2
    <3> QED
      BY <3>1, <3>2
  <2> QED
    BY <1>1, <1>5, <2>1, <2>4 DEF Open
<1>8. ASSUME NEW m \in StreamId, Acknowledge(m) PROVE Awaited'
  <2>1. /\ acking' = acking \ {m} /\ Pass(m, RegisterAck) /\ UNCHANGED <<wire, link>>
    BY <1>8 DEF Acknowledge
  <2>3. /\ \A k \in StreamId \ {m} : down'[k] = down[k]
        /\ Elements(down'[m]) = Elements(down[m]) \cup {RegisterAck}
    BY <1>0, <1>b, <2>1, DownPassed
  <2>4. Elements(down[s]) \subseteq Elements(down'[s])
    BY <2>3
  <2>5. m = s => RegisterAck \in Elements(down'[s])
    BY <2>3
  <2> QED
    BY <1>1, <1>5, <2>1, <2>4, <2>5 DEF Open
<1>9. ASSUME NEW m \in StreamId, NEW c \in Command, Pass(m, c) \/ UNCHANGED down,
             UNCHANGED <<wire, link, acking>>
      PROVE  Awaited'
  <2>1. /\ \A k \in StreamId \ {m} : down'[k] = down[k]
        /\ Elements(down[m]) \subseteq Elements(down'[m])
    BY <1>0, <1>9, DownPassed
  <2>2. Elements(down[s]) \subseteq Elements(down'[s])
    BY <2>1
  <2> QED
    BY <1>1, <1>5, <1>9, <2>2 DEF Open
<1>10. ASSUME NEW m \in StreamId, Close(m) \/ Break(m) PROVE Awaited'
  <2>1. /\ link[m] \in {"open", "broken"} /\ UNCHANGED down
        /\ acking' \subseteq acking /\ acking \subseteq acking' \cup {m}
        /\ link' = [link EXCEPT ![m] = "closed"] \/ link' = [link EXCEPT ![m] = "broken"]
        /\ UNCHANGED wire \/ wire' = [wire EXCEPT ![m] = << >>]
    BY <1>10 DEF Close, Break
  <2>2. CASE m = s
    <3>1. link'[s] # "open"
      BY <1>a, <2>1, <2>2
    <3> QED
      BY <1>2, <1>5, <3>1 DEF Open
  <2>3. CASE m # s
    <3>1. link'[s] = link[s] /\ wire'[s] = wire[s]
      BY <1>a, <2>1, <2>3
    <3>2. s \in acking => s \in acking'
      BY <2>1, <2>3
    <3>3. Open' => Open
      BY <1>5, <3>1 DEF Open
    <3> QED
      BY <1>1, <1>5, <2>1, <3>1, <3>2, <3>3
  <2> QED
    BY <2>2, <2>3
<1>11. ASSUME NEW i \in Instance, Order(i) PROVE Awaited'
  <2>1. session # 0 /\ (Pass(session, RunFault(i)) \/ UNCHANGED down)
        /\ UNCHANGED <<wire, link, acking>>
    BY <1>11 DEF Order, Say
  <2>2. session \in StreamId /\ RunFault(i) \in Command
    BY <1>0, <2>1, FrameMakers DEF Typed, MasterTyped
  <2> QED
    BY <1>9, <2>1, <2>2
<1>12. CASE Relay
  <2>1. session # 0 /\ (Pass(session, ClearTaint) \/ UNCHANGED down)
        /\ UNCHANGED <<wire, link, acking>>
    BY <1>12 DEF Relay, Say
  <2>2. session \in StreamId /\ ClearTaint \in Command
    BY <1>0, <2>1, FrameMakers DEF Typed, MasterTyped
  <2> QED
    BY <1>9, <2>1, <2>2
<1>13. ~Receive /\ ~Booted /\ ~AbandonReplay /\ ~Crash
       /\ (\A i \in Instance : ~ReplayEntry(i) /\ ~SkipEntry(i))
  BY DEF Receive, Booted, AbandonReplay, Crash, ReplayEntry, SkipEntry
<1>14. ~Pushing /\ ~Taking
  BY PushingIs, TakingIs DEF Registered
<1>17. CASE Aside
  <2>1. /\ UNCHANGED <<wire, link, acking, stage, stream>>
        /\ UNCHANGED down \/ \E m \in StreamId, c \in Idle : Pass(m, c)
    BY <1>0, <1>17, AsideIs
  <2>2. ASSUME NEW m \in StreamId, NEW c \in Idle, Pass(m, c) PROVE Awaited'
    <3>1. c \in Command
      BY IdleIs
    <3> QED
      BY <1>9, <2>1, <2>2, <3>1
  <2> QED
    BY <1>3, <2>1, <2>2
<1>15. ASSUME NEW i \in Instance, React(i) \/ Perform(i)
       PROVE  UNCHANGED <<stage, stream, link, wire, acking, down>>
  BY <1>15 DEF React, Perform
<1>16. PerformClear \/ UNCHANGED vars => UNCHANGED <<stage, stream, link, wire, acking, down>>
  BY DEF PerformClear, vars
<1> QED
  BY <1>3, <1>6, <1>7, <1>8, <1>10, <1>11, <1>12, <1>13, <1>14, <1>15, <1>16, <1>17, StepsRelay
  DEF Relaying

(* Registration is inductive next to LinkInv.                               *)
LEMMA RegistrationInit ==
  ASSUME Init
  PROVE  Registration
<1>1. Elements(<< >>) = {} /\ \A c : Once(<< >>, c)
  BY ElementsShort DEF Once
<1>2. \A n \in StreamId : wire[n] = << >> /\ down[n] = << >> /\ n \notin acking
  BY DEF Init
<1>3. Unregistering
  BY <1>1 DEF Init, Unregistering
<1>4. ASSUME NEW n \in StreamId PROVE Handed(n)
  <2>1. ~Onward(n)
    BY DEF Init, Onward, Registered
  <2> QED
    BY <1>1, <1>2, <2>1 DEF Handed
<1>5. Awaited /\ Current
  BY DEF Init, Awaited, Current
<1>6. Emptied
  BY <1>2 DEF Emptied
<1> QED
  BY <1>3, <1>4, <1>5, <1>6 DEF Registration

(* It holds in every reachable state: a registration is never lost, doubled *)
(* or overtaken (register, run_session).                                    *)
THEOREM RegistrationInvariant == Spec => [](LinkInv /\ Registration)
<1>1. Init => Registration
  BY RegistrationInit
<1>2. LinkInv /\ Registration /\ [Next]_vars => Registration'
  <2> SUFFICES ASSUME LinkInv, Registration, [Next]_vars PROVE Registration'
    OBVIOUS
  <2>1. Unregistering'
    BY UnregisteringKept DEF Registration
  <2>2. (\A n \in StreamId : Handed(n))'
    BY HandedKept
  <2>3. Awaited' /\ Current' /\ Emptied'
    BY AwaitedKept, CurrentKept, EmptiedKept
  <2> QED
    BY <2>1, <2>2, <2>3 DEF Registration
<1> QED
  BY <1>1, <1>2, LinkInvariant, PTL DEF Spec

(* A reader that has something in hand and cannot go on waits for room in a *)
(* full channel, which is that of the stream the agent listens to.          *)
LEMMA ReaderWaits ==
  ASSUME Typed, NEW n \in StreamId, ~ReaderCan(n), ~Free(n)
  PROVE  stage \notin {"boot", "down"} /\ Open /\ Len(down[stream]) = DownCap
<1>1. aim[n] \in StreamId \cup {0} /\ stream \in StreamId \cup {0}
  BY DEF Typed, MasterTyped, ReadersTyped, LoopTyped
<1>2. ASSUME NEW m \in StreamId, ~Sayable(m)
      PROVE  stage \notin {"boot", "down"} /\ Open /\ Len(down[stream]) = DownCap
  <2>1. m = stream /\ stage \notin {"boot", "down"} /\ link[m] = "open" /\ ~(Len(down[m]) < DownCap)
    BY <1>2 DEF Sayable, Refused, Heard
  <2>2. Len(down[m]) \in Nat /\ DownCap \in Nat /\ Len(down[m]) <= DownCap
    BY LenProperties, ConstantsAssumption DEF Typed, WireTyped
  <2> QED
    BY <2>1, <2>2 DEF Open
<1>3. CASE owes[n] # {}
  <2>1. aim[n] # 0 /\ ~Sayable(aim[n])
    BY <1>3 DEF ReaderCan
  <2> QED
    BY <1>1, <1>2, <2>1
<1>4. CASE owes[n] = {}
  <2>1. n \in acking \cup beating
    BY <1>4 DEF Free
  <2>2. ~Sayable(n)
    BY <2>1 DEF ReaderCan
  <2> QED
    BY <1>2, <2>2
<1> QED
  BY <1>3, <1>4

(* Where nobody can go on and the channels are not both full, the loop has  *)
(* no frame in hand: it waits for the acknowledgement, or for news.         *)
LEMMA LoopWaits ==
  ASSUME Typed, Streams, ~LoopCan, ~MasterCan, ~BothFull
  PROVE  stage \in {"ack", "up"} /\ Open /\ stream \in StreamId /\ down[stream] = << >>
<1>1. stage \in Stages /\ stage \notin {"boot", "down"}
  BY DEF LoopCan, Typed, LoopTyped
<1>2. stream \in StreamId
  BY <1>1, HasStream
<1>3. ASSUME stage \in InHand PROVE FALSE
  <2>1. ~Pushable
    BY <1>3 DEF LoopCan
  <2>2. Open /\ Len(wire[stream]) = WireCap /\ WireCap # 0
    <3>1. Open /\ ~(Len(wire[stream]) < WireCap)
      BY <2>1 DEF Pushable
    <3>2. Len(wire[stream]) \in Nat /\ WireCap \in Nat \ {0} /\ Len(wire[stream]) <= WireCap
      BY <1>2, LenProperties, ConstantsAssumption DEF Typed, WireTyped
    <3> QED
      BY <3>1, <3>2
  <2>3. wire[stream] # << >>
    <3>1. Len(<< >>) = 0
      BY FrameSequences
    <3> QED
      BY <2>2, <3>1
  <2>4. ~ReaderCan(stream)
    BY <1>2 DEF MasterCan
  <2>5. ~Free(stream)
    BY <2>2, <2>3, <2>4 DEF ReaderCan, Open
  <2>6. Len(down[stream]) = DownCap
    BY <1>2, <2>4, <2>5, ReaderWaits
  <2> QED
    BY <1>3, <2>2, <2>5, <2>6 DEF BothFull
<1>4. stage \in {"ack", "up"}
  BY <1>1, <1>3 DEF Stages, InHand
<1> QED
  BY <1>2, <1>4 DEF LoopCan

(* A task whose next effect cannot be performed finds the channel full, and *)
(* the loop can go on.                                                      *)
LEMMA SilentTasks ==
  ASSUME LinkInv, ~CanGoOn, stage = "up"
  PROVE  out = << >> /\ clearing = << >> /\ \A i \in Instance : todo[i] = << >>
<1>1. out = << >>
  BY DEF CanGoOn, LoopCan
<1>2. Len(out) < OutCap
  BY <1>1, FrameSequences, ConstantsAssumption
<1>3. clearing = << >>
  BY <1>2 DEF CanGoOn, Performable
<1>4. \A i \in Instance : todo[i] = << >>
  BY <1>2 DEF CanGoOn, TaskCan, Performable
<1> QED
  BY <1>1, <1>3, <1>4

(* NeverStalled: agent and master wait for each other only where both       *)
(* directions of a stream are full, whatever broke in the middle of a       *)
(* registration (register, run_session, send_frame, send_to_host): the      *)
(* Register or its acknowledgement is on the way until the agent has read   *)
(* it, and the stream read last stays the session (remove_if_current).      *)
THEOREM NobodyStalls == Spec => []NeverStalled
<1>1. LinkInv /\ Registration => NeverStalled
  <2> SUFFICES ASSUME LinkInv, Registration, ~CanGoOn, ~BothFull,
                      <<"Register", None>> \notin late
               PROVE  Quiet
    BY DEF NeverStalled
  <2>1. Typed /\ Streams /\ Linked /\ Heeded
    BY DEF LinkInv, Streams
  <2>2. ~LoopCan /\ ~MasterCan
    BY DEF CanGoOn
  <2>3. stage \in {"ack", "up"} /\ Open /\ stream \in StreamId /\ down[stream] = << >>
    BY <2>1, <2>2, LoopWaits
  <2>4. Len(down[stream]) # DownCap
    BY <2>3, FrameSequences, ConstantsAssumption
  <2>5. \A n \in StreamId : ~ReaderCan(n) /\ Free(n)
    BY <2>1, <2>2, <2>4, ReaderWaits DEF MasterCan
  <2>6. \A n \in StreamId : wire[n] = << >>
    <3>1. ASSUME NEW n \in StreamId PROVE wire[n] = << >>
      <4>1. link[n] # "broken" /\ (link[n] = "open" => wire[n] = << >>)
        BY <2>5 DEF ReaderCan, Free
      <4>2. link[n] \in {"unused", "closed"} => wire[n] = << >>
        BY DEF Registration, Emptied
      <4>3. link[n] \in {"unused", "open", "broken", "closed"}
        BY <2>1 DEF Typed, WireTyped
      <4> QED
        BY <4>1, <4>2, <4>3
    <3> QED
      BY <3>1
  <2>7. \A n \in StreamId : down[n] = << >>
    BY <2>1, <2>3 DEF Linked
  <2>8. stage = "up"
    <3>1. SUFFICES ASSUME stage = "ack" PROVE FALSE
      BY <2>3
    <3>2. Elements(wire[stream]) = {} /\ Elements(down[stream]) = {}
      BY <2>3, <2>6, ElementsShort
    <3>3. stream \notin acking
      BY <2>3, <2>5 DEF Free
    <3> QED
      BY <2>3, <3>1, <3>2, <3>3 DEF Registration, Awaited
  <2>9. session = stream
    <3>1. newest = stream
      BY <2>1, <2>8 DEF Heeded, Registered
    <3> QED
      BY <2>3, <3>1, StreamFacts DEF Registration, Current, Open
  <2> QED
    BY <2>3, <2>5, <2>6, <2>7, <2>8, <2>9, SilentTasks DEF Quiet
<1> QED
  BY <1>1, RegistrationInvariant, PTL

-----------------------------------------------------------------------------
(***************************************************************************)
(* Eighth, the quarantine.  Until ClearTaint comes no mark runs into a     *)
(* clear, and no frame of a task denies the taint; what was given up in    *)
(* this life of the agent is on record, or its mark failed.  Where that    *)
(* was on the newest stream, the frame that follows a mark is still to be  *)
(* told, or has the last word on the way to the master.                    *)
(***************************************************************************)
Given == ~cleared => ~raced /\ (quarantined # {} /\ unmarked = {} => taint)

Undenied == ~cleared => TaintStatus(FALSE) \notin Elements(out)

Dated == unmarked \subseteq 0..stream

Reported == {"carry", "beat", "up"}

Carried ==
  \/ Right(carry, TaintTopic, TRUE)
  \/ Silent(carry, TaintTopic) /\ Arrives(TaintTopic, TRUE)

Warned ==
  \/ Telltales \/ TaintStatus(TRUE) \in Elements(out)
  \/ ~Open \/ (stage \in Reported /\ Carried)

Loud == ~cleared /\ unmarked = {stream} /\ Connected => Warned

Quarantine == Given /\ Undenied /\ Dated /\ Loud

(* In the steps that perform no effect and replay nothing, what this        *)
(* process gave up stays as it is, and so does the record.                  *)
LEMMA NothingGiven ==
  ASSUME Typed, Relaying, ~\E i \in Instance : ReplayEntry(i) \/ SkipEntry(i)
  PROVE  UNCHANGED <<raced, quarantined, unmarked, taint>> /\ cleared' \in {cleared, TRUE}
<1> USE DEF hostVars, loopVars, wireVars, masterVars, readerVars, history
<1>1. Pushing \/ Taking \/ Aside => UNCHANGED <<raced, quarantined, unmarked, taint, cleared>>
  BY PushingIs, TakingIs, AsideIs
<1> QED
  BY <1>1 DEF Relaying, Connect, AwaitAck, Booted, AbandonReplay, React, Order, Intake, Receive,
              Acknowledge, Close, Break, Relay, vars

(* The clearing task has something to do only after ClearTaint.             *)
LEMMA ClearedBefore ==
  ASSUME LinkInv, PerformClear
  PROVE  cleared /\ cleared' = cleared
<1>1. clearing # << >> /\ cleared' = cleared
  BY DEF PerformClear, masterVars
<1> QED
  BY <1>1 DEF LinkInv, Clearing

(* What is given up is on record, or its mark failed.                       *)
LEMMA GivenKept ==
  ASSUME LinkInv, Given, [Next]_vars
  PROVE  Given'
<1> USE DEF hostVars, loopVars, wireVars, masterVars, readerVars, history
<1>0. Typed /\ Clearing /\ cleared \in BOOLEAN /\ taint \in BOOLEAN
  BY DEF LinkInv, Typed, HostTyped, MasterTyped
<1>a. WriteMark => taint' \/ unmarked' = {stream}
  BY <1>0, MarkIs
<1>1. ASSUME NEW i \in Instance, Perform(i) PROVE Given'
  <2>1. UNCHANGED <<cleared, clearing>>
    BY <1>1 DEF Perform
  <2>2. \/ UNCHANGED <<raced, quarantined, unmarked, taint>>
        \/ WriteMark /\ raced' = (raced \/ clearing # << >>)
    BY <1>1 DEF Perform
  <2>3. ASSUME WriteMark, raced' = (raced \/ clearing # << >>), ~cleared
        PROVE  ~raced' /\ (unmarked' = {} => taint')
    <3>1. clearing = << >> /\ ~raced
      BY <1>0, <2>3 DEF Clearing, Given
    <3>2. unmarked' = {} => taint'
      BY <1>a, <2>3
    <3> QED
      BY <2>3, <3>1, <3>2
  <2> QED
    BY <2>1, <2>2, <2>3 DEF Given
<1>2. CASE PerformClear
  BY <1>2, ClearedBefore DEF Given
<1>3. CASE Crash
  <2>1. UNCHANGED <<cleared, raced>> /\ quarantined' = {}
    BY <1>3 DEF Crash
  <2> QED
    BY <2>1 DEF Given
<1>4. ASSUME NEW i \in Instance, ReplayEntry(i) \/ SkipEntry(i) PROVE Given'
  <2>1. /\ UNCHANGED <<cleared, raced>>
        /\ UNCHANGED <<quarantined, unmarked, taint>> \/ WriteMark
    BY <1>4 DEF ReplayEntry, SkipEntry
  <2> QED
    BY <1>a, <2>1 DEF Given
<1>5. ASSUME Relaying, ~\E i \in Instance : ReplayEntry(i) \/ SkipEntry(i) PROVE Given'
  BY <1>0, <1>5, NothingGiven DEF Given
<1> QED
  BY <1>1, <1>2, <1>3, <1>4, <1>5, StepsRelay

(* A pushing loop leaves the channel of the tasks alone.                    *)
LEMMA PushingTakes ==
  ASSUME Pushing
  PROVE  out' = out
  BY DEF Pushing, SendReport, SendTaint, SendStartup, SendCarry, SendBeat, Notice

(* In the steps that perform no effect, the channel gets no frame.          *)
LEMMA OutTaken ==
  ASSUME Typed, Relaying
  PROVE  out' = out \/ (out # << >> /\ out' = Tail(out))
<1> USE DEF hostVars, loopVars, wireVars, masterVars, readerVars, history
<1> QED
  BY PushingTakes, TakingIs, AsideIs
  DEF Relaying, Connect, AwaitAck, Booted, AbandonReplay, React, ReplayEntry, SkipEntry, Order, Intake, Receive,
      Acknowledge, Close, Break, Relay, vars

(* What denies the taint.                                                   *)
LEMMA TaintDenied ==
  /\ TaintStatus(FALSE) # TaintStatus(TRUE)
  /\ \A i, s : TaintStatus(FALSE) # Status(i, s) /\ TaintStatus(TRUE) # Status(i, s)
<1>1. TaintStatus(FALSE).tainted = FALSE /\ TaintStatus(TRUE).tainted = TRUE
  BY DEF TaintStatus
<1>2. \A i, s : Status(i, s).type = "InstanceStatus"
  BY FrameFields
<1>3. TaintStatus(FALSE).type = "TaintStatus" /\ TaintStatus(TRUE).type = "TaintStatus"
  BY DEF TaintStatus
<1> QED
  BY <1>1, <1>2, <1>3

(* No frame of a task denies the taint.                                     *)
LEMMA UndeniedKept ==
  ASSUME LinkInv, Undenied, [Next]_vars
  PROVE  Undenied'
<1> USE DEF hostVars, loopVars, wireVars, masterVars, readerVars, history
<1>0. Typed /\ Tasks /\ out \in Seq(Frame) /\ view \in [Instance -> View]
  BY DEF LinkInv, Typed, HostTyped, LoopTyped, Agent
<1>a. TaintStatus(FALSE) # TaintStatus(TRUE) /\ \A i, s : TaintStatus(FALSE) # Status(i, s)
  BY TaintDenied
<1>b. /\ \A f \in Frame : Elements(Append(out, f)) = Elements(out) \cup {f}
      /\ out # << >> => Elements(Tail(out)) \subseteq Elements(out)
  BY <1>0, ElementsOf
<1>1. ASSUME NEW i \in Instance, Perform(i) PROVE Undenied'
  <2>1. /\ view[i] \in Live \cup Terminal /\ cleared' = cleared
        /\ Said(i) \/ Removed(i) \/ MarkedNow(i) \/ ToldTaint(i)
    BY <1>0, <1>1, PerformIs DEF Tasks
  <2>2. \/ out' = out
        \/ out' = Append(out, Status(i, view[i]))
        \/ out' = Append(out, TaintStatus(TRUE))
    BY <2>1 DEF Said, Removed, MarkedNow, ToldTaint
  <2>3. Status(i, view[i]) \in Frame /\ TaintStatus(TRUE) \in Frame
    BY <2>1, FrameMakers
  <2>4. Elements(out') \subseteq Elements(out) \cup {Status(i, view[i]), TaintStatus(TRUE)}
    BY <1>b, <2>2, <2>3
  <2> QED
    BY <1>a, <2>1, <2>4 DEF Undenied
<1>2. CASE PerformClear
  BY <1>2, ClearedBefore DEF Undenied
<1>3. CASE Crash
  <2>1. out' = << >>
    BY <1>3 DEF Crash
  <2> QED
    BY <2>1, ElementsShort DEF Undenied
<1>4. CASE Relaying
  <2>1. cleared' \in {cleared, TRUE}
    <3>1. ASSUME NEW i \in Instance, ReplayEntry(i) \/ SkipEntry(i) PROVE cleared' = cleared
      BY <3>1 DEF ReplayEntry, SkipEntry
    <3> QED
      BY <1>0, <1>4, <3>1, NothingGiven
  <2>2. Elements(out') \subseteq Elements(out)
    BY <1>0, <1>b, <1>4, OutTaken
  <2> QED
    BY <2>1, <2>2 DEF Undenied
<1> QED
  BY <1>1, <1>2, <1>3, <1>4, StepsRelay

(* A mark failed on this stream or on an older one.                         *)
LEMMA DatedKept ==
  ASSUME LinkInv, Dated, [Next]_vars
  PROVE  Dated'
<1> USE DEF hostVars, loopVars, wireVars, masterVars, readerVars, history
<1>0. Typed /\ Tasks /\ Clearing /\ stream \in Nat /\ taint \in BOOLEAN
      /\ view \in [Instance -> View]
  BY StreamFacts DEF LinkInv, Typed, HostTyped, LoopTyped, Agent
<1>a. ASSUME stream' = stream, unmarked' \in {unmarked, {}, {stream}} PROVE Dated'
  BY <1>0, <1>a DEF Dated
<1>1. ASSUME NEW i \in Instance, Perform(i) PROVE Dated'
  <2>1. stream' = stream /\ (unmarked' = unmarked \/ WriteMark)
    BY <1>1 DEF Perform
  <2> QED
    BY <1>0, <1>a, <2>1, MarkIs
<1>2. CASE PerformClear
  <2>1. stream' = stream /\ (Cleared \/ ReadBack \/ ToldClear)
    BY <1>0, <1>2, PerformClearIs
  <2> QED
    BY <1>a, <2>1 DEF Cleared, ReadBack, ToldClear
<1>3. CASE Crash
  BY <1>3, <1>a DEF Crash
<1>4. ASSUME NEW i \in Instance, ReplayEntry(i) \/ SkipEntry(i) PROVE Dated'
  <2>1. stream' = stream /\ (unmarked' = unmarked \/ WriteMark)
    BY <1>4 DEF ReplayEntry, SkipEntry
  <2> QED
    BY <1>0, <1>a, <2>1, MarkIs
<1>5. ASSUME Relaying, ~\E i \in Instance : ReplayEntry(i) \/ SkipEntry(i) PROVE Dated'
  <2>1. unmarked' = unmarked
    BY <1>0, <1>5, NothingGiven
  <2>2. CASE Connect
    <3>1. stream' = stream + 1
      BY <2>2 DEF Connect
    <3>2. 0..stream \subseteq 0..(stream + 1)
      BY <1>0
    <3> QED
      BY <2>1, <3>1, <3>2 DEF Dated
  <2>3. CASE ~Connect
    <3>1. Pushing \/ Taking \/ Aside => stream' = stream
      BY <1>0, PushingIs, TakingIs, AsideIs
    <3>2. stream' = stream
      BY <1>5, <2>3, <3>1 DEF Relaying, AwaitAck, Booted, AbandonReplay, React, Order, Intake, Receive,
                               Acknowledge, Close, Break, Relay, vars
    <3> QED
      BY <1>a, <2>1, <3>2
  <2> QED
    BY <2>2, <2>3
<1> QED
  BY <1>1, <1>2, <1>3, <1>4, <1>5, StepsRelay

(* A pushing loop leaves it so: the frame in hand goes on the wire.         *)
LEMMA LoudPushed ==
  ASSUME LinkInv, Loud, Pushing, Telltales' <=> Telltales
  PROVE  Loud'
<1> USE DEF hostVars, loopVars, wireVars, masterVars, readerVars, history
<1>0. Typed /\ LoopTyped /\ Streams /\ Held
  BY DEF LinkInv, Typed, Agent
<1>1. /\ UNCHANGED <<link, stream, cleared, unmarked, told, flag, late>> /\ out' = out
      /\ Connected /\ stream \in StreamId /\ (Open' <=> Open)
  BY <1>0, PushingIs, PushingWires, PushingTakes DEF Open
<1>2. Loud' <=> (~cleared /\ unmarked = {stream} /\ Connected' => Warned')
  BY <1>1 DEF Loud
<1>3. Warned' <=>
        \/ Telltales \/ TaintStatus(TRUE) \in Elements(out)
        \/ ~Open \/ (stage' \in Reported /\ Carried')
  BY <1>1 DEF Warned
<1>4. ASSUME Open, stage \in Reported, Carried PROVE stage' = "up" /\ Carried'
  <2>1. PICK b : b = TRUE
    OBVIOUS
  <2>2. \/ Right(carry, TaintTopic, b)
        \/ Silent(carry, TaintTopic) /\ Arrives(TaintTopic, b)
    BY <1>4, <2>1 DEF Carried
  <2>3. ASSUME carry' = << >>, Arrives(TaintTopic, b)' PROVE Carried'
    BY <2>1, <2>3, NewsShort DEF Carried
  <2>4. CASE SendCarry
    <3>1. stage = "carry" /\ Put(carry[1]) /\ carry' = << >> /\ stage' = "up"
      BY <1>4, <2>4 DEF SendCarry, Leave
    <3>2. carry[1] \in Frame /\ carry = <<carry[1]>>
      BY <1>0, <3>1, CarryIs DEF Held
    <3>3. /\ Right(carry, TaintTopic, b) => Says(carry[1], TaintTopic, b)
          /\ Silent(carry, TaintTopic) => TaintTopic \notin Topics(carry[1])
      BY <3>2, NewsShort
    <3>4. ~Open' \/ Arrives(TaintTopic, b)'
      BY <1>0, <1>1, <2>2, <3>1, <3>2, <3>3, NewsPut
    <3> QED
      BY <1>1, <1>4, <2>3, <3>1, <3>4
  <2>5. CASE SendBeat
    <3>1. stage = "beat" /\ Put(Heartbeat) /\ carry' = carry /\ stage' = "up"
      BY <1>4, <2>5 DEF SendBeat, Leave
    <3>2. carry = << >> /\ Heartbeat \in Frame /\ TaintTopic \notin Topics(Heartbeat)
      BY <1>0, <3>1, RegisterAlone, TopicsOf DEF Held
    <3>3. Arrives(TaintTopic, b)
      BY <2>2, <3>2, NewsShort
    <3>4. ~Open' \/ Arrives(TaintTopic, b)'
      BY <1>0, <1>1, <3>1, <3>2, <3>3, NewsPut
    <3> QED
      BY <1>1, <1>4, <2>3, <3>1, <3>2, <3>4
  <2>6. ~SendReport /\ ~SendTaint /\ ~SendStartup
    BY <1>4 DEF SendReport, SendTaint, SendStartup, Reported
  <2>7. ~Notice
    BY <1>4 DEF Notice, Leave
  <2> QED
    BY <2>4, <2>5, <2>6, <2>7 DEF Pushing
<1>5. Warned => Warned'
  BY <1>3, <1>4 DEF Warned, Reported
<1> QED
  BY <1>1, <1>2, <1>5 DEF Loud

(* A loop that takes a frame has it in hand: of what a task said, nothing   *)
(* denies the taint.                                                        *)
LEMMA LoudTaken ==
  ASSUME LinkInv, Undenied, Loud, Taking, Telltales' <=> Telltales
  PROVE  Loud'
<1> USE DEF hostVars, loopVars, wireVars, masterVars, readerVars, history
<1>0. Typed /\ Held /\ out \in Seq(Frame)
  BY DEF LinkInv, Typed, LoopTyped, Agent
<1>1. /\ UNCHANGED <<link, wire, stream, cleared, unmarked, told, flag, late>>
      /\ stage = "up" /\ stage' \in Reported /\ carry = << >>
      /\ \/ out # << >> /\ carry' = <<Head(out)>> /\ out' = Tail(out)
         \/ UNCHANGED <<out, carry>>
  BY <1>0, TakingIs DEF Reported, Held
<1>2. (Open' <=> Open) /\ Connected /\ (Arrives(TaintTopic, TRUE) => Arrives(TaintTopic, TRUE)')
  BY <1>1 DEF Open, Connected, Arrives, Known
<1>3. Loud' <=> (~cleared /\ unmarked = {stream} /\ Connected' => Warned')
  BY <1>1 DEF Loud
<1>4. Warned' <=> \/ Telltales \/ TaintStatus(TRUE) \in Elements(out')
                  \/ ~Open \/ Carried'
  BY <1>1, <1>2 DEF Warned
<1>5. Carried => Arrives(TaintTopic, TRUE)
  BY <1>1, NewsShort DEF Carried
<1>6. CASE UNCHANGED <<out, carry>>
  <2>1. Carried => Carried'
    BY <1>1, <1>2, <1>5, <1>6, NewsShort DEF Carried
  <2> QED
    BY <1>2, <1>3, <1>4, <1>6, <2>1 DEF Loud, Warned
<1>7. CASE out # << >> /\ carry' = <<Head(out)>> /\ out' = Tail(out)
  <2>1. PICK h : h = Head(out)
    OBVIOUS
  <2>2. h \in Frame /\ Elements(out) = {h} \cup Elements(out') /\ carry' = <<h>>
    BY <1>0, <1>7, <2>1, ElementsOf
  <2>3. PICK b : b = TRUE
    OBVIOUS
  <2>4. CASE h = TaintStatus(TRUE)
    <3>1. h = TaintStatus(b) /\ Says(TaintStatus(b), TaintTopic, b)
      BY <2>3, <2>4, SaysOf
    <3>2. Right(carry', TaintTopic, b)
      BY <2>2, <3>1, NewsShort
    <3>3. Carried'
      BY <2>3, <3>2 DEF Carried
    <3> QED
      BY <1>3, <1>4, <3>3
  <2>5. CASE h # TaintStatus(TRUE) /\ ~cleared
    <3>1. h # TaintStatus(FALSE)
      BY <2>2, <2>5 DEF Undenied
    <3>2. ~\E c \in BOOLEAN : h = TaintStatus(c)
      BY <2>5, <3>1
    <3>3. TaintTopic \notin Topics(h)
      BY <2>2, <3>2, FrameKinds, TopicsOf, TopicsDiffer
    <3>4. Silent(carry', TaintTopic)
      BY <2>2, <3>3, NewsShort
    <3>5. Carried => Carried'
      BY <1>2, <1>5, <3>4 DEF Carried
    <3>6. TaintStatus(TRUE) \in Elements(out) => TaintStatus(TRUE) \in Elements(out')
      BY <2>2, <2>5
    <3> QED
      BY <1>2, <1>3, <1>4, <3>5, <3>6 DEF Loud, Warned
  <2> QED
    BY <1>3, <2>4, <2>5
<1> QED
  BY <1>1, <1>6, <1>7

(* What follows a failed mark is still to be told, or has the last word.    *)
LEMMA LoudKept ==
  ASSUME LinkInv, Undenied, Dated, Loud, [Next]_vars
  PROVE  Loud'
<1> USE DEF hostVars, loopVars, wireVars, masterVars, readerVars, history
<1>0. /\ Typed /\ Streams /\ Tasks /\ Held /\ out \in Seq(Frame) /\ stream \in Nat
      /\ view \in [Instance -> View] /\ taint \in BOOLEAN
  BY StreamFacts DEF LinkInv, Typed, HostTyped, LoopTyped, Agent
<1>a. Warned' <=>
        \/ Telltales' \/ TaintStatus(TRUE) \in Elements(out')
        \/ ~Open' \/ (stage' \in Reported /\ Carried')
  BY DEF Warned
<1>b. Loud' <=> (~cleared' /\ unmarked' = {stream'} /\ Connected' => Warned')
  BY DEF Loud
<1>c. ASSUME UNCHANGED <<cleared, unmarked, stream, stage, link, carry>>,
             Telltales => Telltales' \/ TaintStatus(TRUE) \in Elements(out'),
             TaintStatus(TRUE) \in Elements(out) => TaintStatus(TRUE) \in Elements(out'),
             UNCHANGED <<wire, told, flag, late>>
      PROVE  Loud'
  <2>1. (Open' <=> Open) /\ (Connected' <=> Connected)
    BY <1>c DEF Open, Connected
  <2>2. Carried => Carried'
    BY <1>c DEF Carried, Arrives, Known
  <2>3. Warned => Warned'
    BY <1>a, <1>c, <2>1, <2>2 DEF Warned
  <2> QED
    BY <1>b, <1>c, <2>1, <2>3 DEF Loud
<1>d. /\ \A f \in Frame : Elements(Append(out, f)) = Elements(out) \cup {f}
      /\ out # << >> => /\ Elements(out) = {Head(out)} \cup Elements(Tail(out))
                        /\ Head(out) \in Frame
  BY <1>0, ElementsOf
<1>1. ASSUME NEW i \in Instance, Perform(i) PROVE Loud'
  <2>1. /\ view[i] \in Live \cup Terminal
        /\ Said(i) \/ Removed(i) \/ MarkedNow(i) \/ ToldTaint(i)
        /\ UNCHANGED <<cleared, stage, stream, link, carry, wire, told, flag, late>>
    BY <1>0, <1>1, PerformIs DEF Tasks
  <2>2. /\ \A j \in Instance \ {i} : todo'[j] = todo[j]
        /\ Said(i) => ~TellsTaint(todo[i]) /\ ~TellsTaint(todo'[i])
        /\ Removed(i) => ~TellsTaint(todo[i]) /\ ~TellsTaint(todo'[i])
        /\ MarkedNow(i) => ~TellsTaint(todo[i]) /\ TellsTaint(todo'[i])
        /\ ToldTaint(i) => TellsTaint(todo[i]) /\ ~TellsTaint(todo'[i])
    BY <1>0, <1>1, TellersOf
  <2>3. Status(i, view[i]) \in Frame /\ TaintStatus(TRUE) \in Frame
    BY <2>1, FrameMakers
  <2>4. CASE Said(i)
    <3>1. unmarked' = unmarked /\ out' = Append(out, Status(i, view[i]))
      BY <2>4 DEF Said
    <3>2. TaintStatus(TRUE) \in Elements(out) => TaintStatus(TRUE) \in Elements(out')
      BY <1>d, <2>3, <3>1
    <3>3. Telltales => Telltales'
      BY <2>2, <2>4 DEF Telltales
    <3> QED
      BY <1>c, <2>1, <3>1, <3>2, <3>3
  <2>5. CASE Removed(i)
    <3>1. unmarked' = unmarked /\ out' = out
      BY <2>5 DEF Removed
    <3>2. Telltales => Telltales'
      BY <2>2, <2>5 DEF Telltales
    <3> QED
      BY <1>c, <2>1, <3>1, <3>2
  <2>6. CASE MarkedNow(i)
    <3>1. Telltales'
      BY <2>2, <2>6 DEF Telltales
    <3> QED
      BY <1>a, <1>b, <3>1
  <2>7. CASE ToldTaint(i)
    <3>1. out' = Append(out, TaintStatus(TRUE))
      BY <2>7 DEF ToldTaint
    <3>2. TaintStatus(TRUE) \in Elements(out')
      BY <1>d, <2>3, <3>1
    <3> QED
      BY <1>a, <1>b, <3>2
  <2> QED
    BY <2>1, <2>4, <2>5, <2>6, <2>7
<1>2. CASE PerformClear
  BY <1>2, <1>b, ClearedBefore
<1>3. ASSUME stage' \in {"boot", "down"} PROVE Loud'
  BY <1>b, <1>3 DEF Connected
<1>4. CASE Crash
  BY <1>3, <1>4 DEF Crash
<1>5. ASSUME NEW i \in Instance, ReplayEntry(i) \/ SkipEntry(i) PROVE Loud'
  BY <1>3, <1>5 DEF ReplayEntry, SkipEntry
<1>6. ASSUME Relaying, ~\E i \in Instance : ReplayEntry(i) \/ SkipEntry(i) PROVE Loud'
  <2>1. unmarked' = unmarked /\ cleared' \in {cleared, TRUE}
    BY <1>0, <1>6, NothingGiven
  <2>2. Telltales' <=> Telltales
    BY <1>6, TellersStay DEF Telltales
  <2>a. ASSUME UNCHANGED <<out, carry, stream, stage, link, wire, told, flag, late>> PROVE Loud'
    <3>1. CASE cleared' = cleared
      BY <1>c, <2>1, <2>2, <2>a, <3>1
    <3>2. CASE cleared' = TRUE
      BY <1>b, <3>2
    <3> QED
      BY <2>1, <3>1, <3>2
  <2>b. ASSUME UNCHANGED <<out, carry, stream, stage>>, ~Open => ~Open',
               stage \in Reported /\ (~Open \/ Arrives(TaintTopic, TRUE)) =>
                 ~Open' \/ Arrives(TaintTopic, TRUE)',
               cleared' = cleared
        PROVE  Loud'
    <3>1. Connected' <=> Connected
      BY <2>b DEF Connected
    <3>2. Warned => Warned'
      BY <1>a, <2>2, <2>b DEF Warned, Carried
    <3> QED
      BY <1>b, <2>1, <2>b, <3>1, <3>2 DEF Loud
  <2>3. CASE Pushing
    BY <2>2, <2>3, LoudPushed
  <2>4. CASE Connect
    <3>1. stream' = stream + 1
      BY <2>4 DEF Connect
    <3>2. stream' \notin unmarked'
      BY <1>0, <2>1, <3>1 DEF Dated
    <3> QED
      BY <1>b, <3>2
  <2>5. CASE AwaitAck
    <3>1. /\ stage = "ack" /\ stage' \in {"ack", "report"}
          /\ UNCHANGED <<out, stream, link, cleared>>
      BY <2>5 DEF AwaitAck
    <3>2. (Open' <=> Open) /\ Connected
      BY <3>1 DEF Open, Connected
    <3>3. Warned => Warned'
      BY <1>a, <2>2, <3>1, <3>2 DEF Warned, Reported
    <3> QED
      BY <1>b, <2>1, <3>1, <3>2, <3>3 DEF Loud
  <2>6. CASE Booted \/ AbandonReplay
    BY <1>3, <2>6 DEF Booted, AbandonReplay
  <2>7. Receive \/ Relay \/ UNCHANGED vars => Loud'
    BY <2>a DEF Receive, Relay, vars
  <2>8. ASSUME NEW i \in Instance, React(i) \/ Order(i) PROVE Loud'
    BY <2>a, <2>8 DEF React, Order
  <2>9. ASSUME NEW n \in StreamId, Acknowledge(n) PROVE Loud'
    BY <2>a, <2>9 DEF Acknowledge
  <2>10. ASSUME NEW n \in StreamId, Intake(n) PROVE Loud'
    <3>1. UNCHANGED <<out, carry, stream, stage, link, cleared>>
      BY <2>10 DEF Intake
    <3>2. Open' <=> Open
      BY <3>1 DEF Open
    <3>3. stage \in Reported /\ Arrives(TaintTopic, TRUE) => Arrives(TaintTopic, TRUE)'
      <4>1. stage \in Reported => ~Unreported(TaintTopic)
        BY DEF Unreported, Reported
      <4> QED
        BY <2>10, <4>1, ArrivesIntake
    <3> QED
      BY <2>b, <3>1, <3>2, <3>3
  <2>11. ASSUME NEW n \in StreamId, NEW l, link' = [link EXCEPT ![n] = l], l # "open",
                \A k \in StreamId \ {n} : wire'[k] = wire[k],
                UNCHANGED <<out, carry, stage, stream, told, flag, late, cleared>>
         PROVE  Loud'
    <3>1. stage \in Reported => Connected
      BY DEF Connected, Reported
    <3>2. stage \in Reported /\ (~Open \/ Arrives(TaintTopic, TRUE)) =>
            ~Open' \/ Arrives(TaintTopic, TRUE)'
      BY <1>0, <2>11, <3>1, ArrivesCut
    <3>3. ~Open /\ Connected => ~Open'
      <4>1. Connected => stream \in StreamId
        BY <1>0, HasStream DEF Connected
      <4> QED
        BY <1>0, <2>11, <4>1 DEF Open, Typed, WireTyped
    <3>4. Connected' <=> Connected
      BY <2>11 DEF Connected
    <3>5. Connected /\ Warned => Warned'
      BY <1>a, <2>2, <2>11, <3>2, <3>3 DEF Warned, Carried
    <3> QED
      BY <1>b, <2>1, <2>11, <3>4, <3>5 DEF Loud
  <2>12. ASSUME NEW n \in StreamId, Close(n) PROVE Loud'
    <3>1. /\ link' = [link EXCEPT ![n] = "closed"] /\ wire' = [wire EXCEPT ![n] = << >>]
          /\ UNCHANGED <<out, carry, stage, stream, told, flag, late, cleared>>
      BY <2>12 DEF Close
    <3>2. \A k \in StreamId \ {n} : wire'[k] = wire[k]
      BY <1>0, <3>1 DEF Typed, WireTyped
    <3> QED
      BY <2>11, <3>1, <3>2
  <2>13. ASSUME NEW n \in StreamId, Break(n) PROVE Loud'
    <3>1. /\ link' = [link EXCEPT ![n] = "broken"]
          /\ UNCHANGED <<out, carry, stage, stream, wire, told, flag, late, cleared>>
      BY <2>13 DEF Break
    <3> QED
      BY <2>11, <3>1
  <2>14. CASE Taking
    BY <2>2, <2>14, LoudTaken
  <2>15. CASE Aside
    BY <1>0, <2>a, <2>15, AsideIs
  <2> QED
    BY <1>6, <2>3, <2>4, <2>5, <2>6, <2>7, <2>8, <2>9, <2>10, <2>12, <2>13, <2>14, <2>15
    DEF Relaying
<1> QED
  BY <1>1, <1>2, <1>4, <1>5, <1>6, StepsRelay

(* What has been said of the quarantine is true all along.                  *)
LEMMA QuarantineInvariant == Spec => []Quarantine
<1>1. Init => Quarantine
  <2> SUFFICES ASSUME Init PROVE Quarantine
    OBVIOUS
  <2>1. ~raced /\ quarantined = {} /\ unmarked = {} /\ out = << >>
    BY DEF Init
  <2> QED
    BY <2>1, ElementsShort DEF Quarantine, Given, Undenied, Dated, Loud
<1>2. LinkInv /\ Quarantine /\ [Next]_vars => Quarantine'
  BY GivenKept, UndeniedKept, DatedKept, LoudKept DEF Quarantine
<1> QED
  BY <1>1, <1>2, LinkInvariant, PTL DEF Spec

(* TaintKnown: once both sides are silent, and unless an older stream spoke *)
(* last, the registry's flag is what the disk says, but where a mark failed *)
(* or ran into a clear; and the agent whose process gave an instance up for *)
(* quarantine is tainted there until it is cleared, even where the mark     *)
(* failed, up to the next registration (mark_tainted, taint_status_frame,   *)
(* handle_clear_taint).                                                     *)
THEOREM TaintIsKnown == Spec => []TaintKnown
<1>1. LinkInv /\ Quarantine => TaintKnown
  <2> SUFFICES ASSUME LinkInv, Quarantine PROVE TaintKnown
    OBVIOUS
  <2>1. FlagAgrees
    BY FlagIs
  <2>2. QuarantineReported
    <3> SUFFICES ASSUME Quiet, quarantined # {}, unmarked \subseteq {stream}, ~cleared
                 PROVE  flag \/ <<"TaintStatus", None>> \in late
      BY DEF QuarantineReported
    <3>1. CASE unmarked = {}
      <4>1. ~raced /\ taint
        BY <3>1 DEF Quarantine, Given
      <4> QED
        BY <2>1, <3>1, <4>1 DEF FlagAgrees
    <3>2. CASE unmarked = {stream}
      <4>1. /\ stage = "up" /\ Open /\ out = << >> /\ wire[stream] = << >>
            /\ \A i \in Instance : todo[i] = << >>
        BY QuietIs
      <4>2. ~Telltales /\ TaintStatus(TRUE) \notin Elements(out) /\ Connected
        BY <4>1, ElementsShort DEF Telltales, TellsTaint, Connected
      <4>3. Arrives(TaintTopic, TRUE)
        <5>1. Carried
          BY <3>2, <4>1, <4>2 DEF Quarantine, Loud, Warned
        <5>2. carry = << >>
          BY QuietIs
        <5> QED
          BY <5>1, <5>2, NewsShort DEF Carried
      <4>4. ~Right(wire[stream], TaintTopic, TRUE)
        BY <4>1, NewsShort
      <4> QED
        BY <4>3, <4>4 DEF Arrives, Known, TaintTopic
    <3> QED
      BY <3>1, <3>2
  <2> QED
    BY <2>1, <2>2 DEF TaintKnown
<1> QED
  BY <1>1, LinkInvariant, QuarantineInvariant, PTL
=============================================================================
