-------------------------- MODULE DeadlinesProofs --------------------------
(***************************************************************************)
(* The deadlines of an instance, for all durations, graces, thresholds,    *)
(* timeouts, delays and breaks: no stop is late, none is early, a recovery *)
(* ends in bounded time and the master outwaits it.                        *)
(*                                                                         *)
(* The invariant has one part per clock.  Fits and Prompt follow the state *)
(* of the machine and the command under way; Heard relates the loss the    *)
(* agent published to the silence of the master; Armed says that a sleeper *)
(* is armed for the next stop or has news it has not looked at; InTime     *)
(* follows, because time does not pass over what is due; Ended carries the *)
(* bounds through the recovery.                                            *)
(***************************************************************************)
EXTENDS Deadlines, InstanceMachineProofs, SequenceTheorems

(* A least number is the minimum.                                           *)
LEMMA LeastIs ==
  ASSUME NEW S \in SUBSET Int, NEW x \in S, \A y \in S : x <= y
  PROVE  Min(S) = x
<1>1. PICK m \in S : m = Min(S) /\ \A y \in S : m <= y
  BY DEF Min
<1> QED
  BY <1>1

(* A greatest number is the maximum.                                        *)
LEMMA GreatestIs ==
  ASSUME NEW S \in SUBSET Int, NEW x \in S, \A y \in S : x >= y
  PROVE  Max(S) = x
<1>1. PICK m \in S : m = Max(S) /\ \A y \in S : m >= y
  BY DEF Max
<1> QED
  BY <1>1

(* The later of two instants.                                               *)
LEMMA LaterIs ==
  ASSUME NEW a \in Int, NEW b \in Int
  PROVE  /\ Later(a, b) \in {a, b}
         /\ Later(a, b) >= a /\ Later(a, b) >= b
<1>1. CASE a >= b
  <2>1. Later(a, b) = a
    BY <1>1, GreatestIs DEF Later
  <2> QED
    BY <1>1, <2>1
<1>2. CASE b >= a
  <2>1. Later(a, b) = b
    BY <1>2, GreatestIs DEF Later
  <2> QED
    BY <1>2, <2>1
<1> QED
  BY <1>1, <1>2

(* The least of three numbers.                                              *)
LEMMA LeastOfThree ==
  ASSUME NEW a \in Int, NEW b \in Int, NEW c \in Int
  PROVE  /\ Min({a, b, c}) \in {a, b, c}
         /\ Min({a, b, c}) <= a /\ Min({a, b, c}) <= b /\ Min({a, b, c}) <= c
<1>1. CASE a <= b /\ a <= c
  BY <1>1, LeastIs
<1>2. CASE b <= a /\ b <= c
  BY <1>2, LeastIs
<1>3. CASE c <= a /\ c <= b
  BY <1>3, LeastIs
<1> QED
  BY <1>1, <1>2, <1>3

(* The first of the candidates that meet a condition.                       *)
LEMMA FirstIs ==
  ASSUME NEW K \in SUBSET {1, 2, 3}, K # {}
  PROVE  /\ Min(K) \in K
         /\ \A k \in K : Min(K) <= k
<1>1. CASE 1 \in K
  <2>1. Min(K) = 1
    BY <1>1, LeastIs
  <2> QED
    BY <1>1, <2>1
<1>2. CASE 1 \notin K /\ 2 \in K
  <2>1. Min(K) = 2
    BY <1>2, LeastIs
  <2> QED
    BY <1>2, <2>1
<1>3. CASE K = {3}
  <2>1. Min(K) = 3
    BY <1>3, LeastIs
  <2> QED
    BY <1>3, <2>1
<1> QED
  BY <1>1, <1>2, <1>3

-----------------------------------------------------------------------------
(* What the constants are.                                                  *)
LEMMA TheTimes ==
  /\ Second \in Nat /\ Second > 0 /\ LongestRun \in Nat /\ LongestRun > 0
  /\ Durations \subseteq Nat /\ Graces \subseteq Nat /\ Thresholds \subseteq Nat
  /\ BackoffCap \in Nat /\ BackoffCap >= Second
  /\ Margin \in Nat /\ Notice \in Nat /\ Horizon \in Nat /\ Second <= Horizon
  /\ MaxStops \in Nat /\ MaxBreaks \in Nat /\ MaxDelay \in Nat
  BY TimesAssumption

(* The instants a stop may be due at.                                       *)
LEMMA StopInstants ==
  ASSUME TypeOK
  PROVE  /\ plan.ours \in Nat /\ plan.other \in Nat /\ plan.grace \in Nat /\ plan.threshold \in Nat
         /\ start \in Int /\ active \in Int /\ conn.since \in Int
         /\ Deadman \in Int
         /\ DurationEnd \in Int /\ active <= DurationEnd
<1>1. /\ plan.ours \in Nat /\ plan.other \in Nat /\ plan.grace \in Nat /\ plan.threshold \in Nat
  BY TheTimes DEF TypeOK
<1>2. start \in Int /\ active \in Int /\ conn.since \in Int
  BY TheTimes DEF TypeOK, Instant, Time, Never
<1>3. Deadman \in Int
  <2>1. start \div Second \in Int
    BY <1>2, TheTimes
  <2>2. start \div Second + plan.ours + plan.grace \in Int
    BY <1>1, <2>1
  <2> QED
    BY <2>2, TheTimes DEF Deadman
<1>4. DurationEnd \in Int /\ active <= DurationEnd
  <2>1. PICK p \in Nat : p = plan.ours * Second
    BY <1>1, TheTimes
  <2>2. DurationEnd = active + p
    BY <2>1 DEF DurationEnd
  <2> QED
    BY <1>2, <2>2
<1> QED
  BY <1>1, <1>2, <1>3, <1>4

(* Candidates strung together.                                              *)
LEMMA Strung ==
  ASSUME NEW a, NEW b, NEW c
  PROVE  /\ <<a>> \o <<b>> \o <<c>> = <<a, b, c>>
         /\ <<a>> \o << >> \o <<c>> = <<a, c>>
<1> DEFINE S == {a, b, c}
<1>a. \A x, y \in {a, b, c} : <<x>> \o <<y>> = <<x, y>>
  <2> SUFFICES ASSUME NEW x \in {a, b, c}, NEW y \in {a, b, c}
               PROVE  <<x>> \o <<y>> = <<x, y>>
    OBVIOUS
  <2>1. <<x>> \in Seq(S) /\ <<y>> \in Seq(S) /\ <<x, y>> \in Seq(S)
    OBVIOUS
  <2>2. Len(<<x>> \o <<y>>) = 2 /\ <<x>> \o <<y>> \in Seq(S)
    BY <2>1, ConcatProperties
  <2>3. (<<x>> \o <<y>>)[1] = x /\ (<<x>> \o <<y>>)[2] = y
    BY <2>1, ConcatProperties
  <2>4. PICK s \in Seq(S), t \in Seq(S) : s = <<x>> \o <<y>> /\ t = <<x, y>>
    BY <2>1, <2>2
  <2>a. Len(s) = Len(t) /\ Len(s) \in {2, 3}
    BY <2>2, <2>4
  <2>b. s[1] = t[1] /\ s[2] = t[2] /\ Len(s) = 2
    BY <2>2, <2>3, <2>4
  <2>5. Len(s) = Len(t) /\ \A i \in 1..Len(s) : s[i] = t[i]
    BY <2>a, <2>b
  <2> HIDE DEF S
  <2>6. s = t
    BY <2>5, SeqEqual
  <2> QED
    BY <2>4, <2>6
<1>b. <<a, b>> \o <<c>> = <<a, b, c>>
  <2>1. <<a, b>> \in Seq(S) /\ <<c>> \in Seq(S) /\ <<a, b, c>> \in Seq(S)
    OBVIOUS
  <2>2. Len(<<a, b>> \o <<c>>) = 3 /\ <<a, b>> \o <<c>> \in Seq(S)
    BY <2>1, ConcatProperties
  <2>3. /\ (<<a, b>> \o <<c>>)[1] = a /\ (<<a, b>> \o <<c>>)[2] = b
        /\ (<<a, b>> \o <<c>>)[3] = c
    BY <2>1, ConcatProperties
  <2>4. PICK s \in Seq(S), t \in Seq(S) : s = <<a, b>> \o <<c>> /\ t = <<a, b, c>>
    BY <2>1, <2>2
  <2>a. Len(s) = Len(t) /\ Len(s) \in {2, 3}
    BY <2>2, <2>4
  <2>b. s[1] = t[1] /\ s[2] = t[2] /\ s[3] = t[3] /\ Len(s) = 3
    BY <2>2, <2>3, <2>4
  <2>5. Len(s) = Len(t) /\ \A i \in 1..Len(s) : s[i] = t[i]
    BY <2>a, <2>b
  <2> HIDE DEF S
  <2>6. s = t
    BY <2>5, SeqEqual
  <2> QED
    BY <2>4, <2>6
<1>c. <<a>> \o << >> = <<a>>
  <2>1. <<a>> \in Seq(S)
    OBVIOUS
  <2> QED
    BY <2>1, ConcatEmptySeq
<1> QED
  BY <1>a, <1>b, <1>c

(* The candidates, one by one.                                              *)
LEMMA StopsAre ==
  /\ conn.lost => Stops = <<Asleep(DurationEnd, "DurationElapsed"),
                            Asleep(conn.since + plan.threshold, "MasterLost"),
                            Asleep(Deadman, "Deadman")>>
  /\ ~conn.lost => Stops = <<Asleep(DurationEnd, "DurationElapsed"),
                             Asleep(Deadman, "Deadman")>>
<1>1. PICK a : a = Asleep(DurationEnd, "DurationElapsed")
  OBVIOUS
<1>2. PICK b : b = Asleep(conn.since + plan.threshold, "MasterLost")
  OBVIOUS
<1>3. PICK c : c = Asleep(Deadman, "Deadman")
  OBVIOUS
<1>4. Stops = <<a>> \o (IF conn.lost THEN <<b>> ELSE << >>) \o <<c>>
  BY <1>1, <1>2, <1>3 DEF Stops
<1>5. conn.lost => Stops = <<a, b, c>>
  BY <1>4, Strung
<1>6. ~conn.lost => Stops = <<a, c>>
  BY <1>4, Strung
<1> QED
  BY <1>1, <1>2, <1>3, <1>5, <1>6

(* The next stop is one of the candidates, none of them is due before it,   *)
(* and the dead-man only if the duration ends later.                        *)
LEMMA NextStopIs ==
  ASSUME TypeOK
  PROVE  /\ NextStop \in [at : Int, cause : StopCause]
         /\ NextStop.at <= DurationEnd /\ NextStop.at <= Deadman
         /\ conn.lost => NextStop.at <= conn.since + plan.threshold
         /\ \/ NextStop.cause = "DurationElapsed" /\ NextStop.at = DurationEnd
            \/ /\ NextStop.cause = "Deadman" /\ NextStop.at = Deadman
               /\ Deadman < DurationEnd
            \/ /\ NextStop.cause = "MasterLost" /\ conn.lost
               /\ NextStop.at = conn.since + plan.threshold
<1> DEFINE a == DurationEnd
           b == conn.since + plan.threshold
           c == Deadman
<1>1. a \in Int /\ b \in Int /\ c \in Int
  BY StopInstants
<1>c. {"DurationElapsed", "Deadman", "MasterLost"} \subseteq StopCause
  BY DEF StopCause
<1>2. CASE conn.lost
  <2>1. Stops = <<Asleep(a, "DurationElapsed"), Asleep(b, "MasterLost"), Asleep(c, "Deadman")>>
    BY <1>2, StopsAre
  <2> HIDE DEF a, b, c
  <2>2. /\ DOMAIN Stops = {1, 2, 3}
        /\ Stops[1] = Asleep(a, "DurationElapsed") /\ Stops[2] = Asleep(b, "MasterLost")
        /\ Stops[3] = Asleep(c, "Deadman")
    BY <2>1
  <2>3. Stops[1].at = a /\ Stops[2].at = b /\ Stops[3].at = c
    BY <2>2 DEF Asleep
  <2> DEFINE at == {Stops[k].at : k \in DOMAIN Stops}
             K == {k \in DOMAIN Stops : Stops[k].at = Min(at)}
  <2>4. at = {a, b, c}
    BY <2>2, <2>3
  <2>5. Min(at) \in {a, b, c} /\ Min(at) <= a /\ Min(at) <= b /\ Min(at) <= c
    BY <2>4, <1>1, LeastOfThree
  <2>6. K \in SUBSET {1, 2, 3} /\ K # {}
    BY <2>2, <2>3, <2>5
  <2>7. NextStop = Stops[Min(K)]
    BY DEF NextStop
  <2>8. Min(K) \in K /\ \A k \in K : Min(K) <= k
    BY <2>6, FirstIs
  <2>9. PICK m : m = Min(at)
    OBVIOUS
  <2>10. PICK k \in {1, 2, 3} : k = Min(K)
    BY <2>6, <2>8
  <2>11. Stops[k].at = m /\ \A j \in {1, 2, 3} : Stops[j].at = m => k <= j
    BY <2>2, <2>8, <2>9, <2>10
  <2> HIDE DEF at, K
  <2>12. /\ m <= a /\ m <= b /\ m <= c /\ m \in Int
    BY <2>5, <2>9, <1>1
  <2>13. CASE k = 1
    <3>1. NextStop = Asleep(a, "DurationElapsed") /\ m = a
      BY <2>2, <2>3, <2>7, <2>10, <2>11, <2>13
    <3> QED
      BY <3>1, <2>12, <1>1, <1>c DEF Asleep, a, b, c
  <2>14. CASE k = 2
    <3>1. NextStop = Asleep(b, "MasterLost") /\ m = b
      BY <2>2, <2>3, <2>7, <2>10, <2>11, <2>14
    <3> QED
      BY <3>1, <2>12, <1>1, <1>2, <1>c DEF Asleep, a, b, c
  <2>15. CASE k = 3
    <3>1. NextStop = Asleep(c, "Deadman") /\ m = c /\ m # a
      BY <2>2, <2>3, <2>7, <2>10, <2>11, <2>15
    <3>2. c < a
      BY <3>1, <2>12, <1>1
    <3> QED
      BY <3>1, <3>2, <2>12, <1>1, <1>c DEF Asleep, a, b, c
  <2> QED
    BY <2>13, <2>14, <2>15
<1>3. CASE ~conn.lost
  <2>1. Stops = <<Asleep(a, "DurationElapsed"), Asleep(c, "Deadman")>>
    BY <1>3, StopsAre
  <2> HIDE DEF a, b, c
  <2>2. /\ DOMAIN Stops = {1, 2}
        /\ Stops[1] = Asleep(a, "DurationElapsed") /\ Stops[2] = Asleep(c, "Deadman")
    BY <2>1
  <2>3. Stops[1].at = a /\ Stops[2].at = c
    BY <2>2 DEF Asleep
  <2> DEFINE at == {Stops[k].at : k \in DOMAIN Stops}
             K == {k \in DOMAIN Stops : Stops[k].at = Min(at)}
  <2>4. at = {a, c, c}
    BY <2>2, <2>3
  <2>5. Min(at) \in {a, c} /\ Min(at) <= a /\ Min(at) <= c
    BY <2>4, <1>1, LeastOfThree
  <2>6. K \in SUBSET {1, 2, 3} /\ K # {}
    BY <2>2, <2>3, <2>5
  <2>7. NextStop = Stops[Min(K)]
    BY DEF NextStop
  <2>8. Min(K) \in K /\ \A k \in K : Min(K) <= k
    BY <2>6, FirstIs
  <2>9. PICK m : m = Min(at)
    OBVIOUS
  <2>10. PICK k \in {1, 2} : k = Min(K)
    BY <2>2, <2>8
  <2>11. Stops[k].at = m /\ \A j \in {1, 2} : Stops[j].at = m => k <= j
    BY <2>2, <2>8, <2>9, <2>10
  <2> HIDE DEF at, K
  <2>12. /\ m <= a /\ m <= c /\ m \in Int
    BY <2>5, <2>9, <1>1
  <2>13. CASE k = 1
    <3>1. NextStop = Asleep(a, "DurationElapsed") /\ m = a
      BY <2>2, <2>3, <2>7, <2>10, <2>11, <2>13
    <3> QED
      BY <3>1, <2>12, <1>1, <1>3, <1>c DEF Asleep, a, b, c
  <2>15. CASE k = 2
    <3>1. NextStop = Asleep(c, "Deadman") /\ m = c /\ m # a
      BY <2>2, <2>3, <2>7, <2>10, <2>11, <2>15
    <3>2. c < a
      BY <3>1, <2>12, <1>1
    <3> QED
      BY <3>1, <3>2, <2>12, <1>1, <1>3, <1>c DEF Asleep, a, b, c
  <2> QED
    BY <2>13, <2>15
<1> QED
  BY <1>2, <1>3

-----------------------------------------------------------------------------
(***************************************************************************)
(* What the machine asks for, and what Feed makes of it.                   *)
(***************************************************************************)
(* The machine goes to s and asks for the command c, or for none.           *)
Becomes(s, c) ==
  /\ st' = s /\ wait' = Awake
  /\ busy' = IF c = None THEN NotBusy ELSE [command |-> c, since |-> now]
  /\ active' = IF s.kind = "Active" /\ active = Never THEN now ELSE active

(* The events that tell the fault is not in effect.                         *)
Relieves(ev) ==
  \/ busy.command = "Inject" /\ ev.disposition = "InjectFailed"
  \/ busy.command \in {"Abort", "Cleanup"} /\ ev.disposition = "Success"

(* The same, with what becomes of the fault and of the cause.               *)
Follows(s, c, ev) ==
  /\ Becomes(s, c)
  /\ c = "Inject" => live' = TRUE
  /\ c # "Inject" /\ Relieves(ev) => live' = FALSE
  /\ c # "Inject" /\ ~Relieves(ev) => live' = live
  /\ st.kind = "Active" => cause' = ev.cause
  /\ st.kind # "Active" => cause' = cause

(* A list that asks for no command.                                         *)
LEMMA AsksNone ==
  ASSUME NEW effects,
         \/ effects = << >>
         \/ effects = <<WriteJournal>>
         \/ \E s \in WireState : effects \in {<<EmitStatus(s)>>, <<RemoveJournal, EmitStatus(s)>>,
                                              <<MarkTainted, RemoveJournal, EmitStatus(s)>>}
  PROVE  {c \in Command : Asks(effects, Invoke(c))} = {}
<1> SUFFICES ASSUME NEW c \in Command, NEW k \in DOMAIN effects, effects[k] = Invoke(c)
             PROVE  FALSE
  BY DEF Asks
<1>1. effects[k].type = "Invoke"
  BY DEF Invoke, EffectOf
<1>2. CASE effects = << >>
  BY <1>2
<1>3. CASE effects = <<WriteJournal>>
  BY <1>1, <1>3 DEF WriteJournal, EffectOf
<1>4. CASE \E s \in WireState : effects \in {<<EmitStatus(s)>>, <<RemoveJournal, EmitStatus(s)>>,
                                             <<MarkTainted, RemoveJournal, EmitStatus(s)>>}
  <2>1. PICK s \in WireState :
          effects \in {<<EmitStatus(s)>>, <<RemoveJournal, EmitStatus(s)>>,
                      <<MarkTainted, RemoveJournal, EmitStatus(s)>>}
    BY <1>4
  <2>2. effects[k] \in {EmitStatus(s), RemoveJournal, MarkTainted}
    <3>1. CASE effects = <<EmitStatus(s)>>
      BY <3>1
    <3>2. CASE effects = <<RemoveJournal, EmitStatus(s)>>
      BY <3>2
    <3>3. CASE effects = <<MarkTainted, RemoveJournal, EmitStatus(s)>>
      BY <3>3
    <3> QED
      BY <2>1, <3>1, <3>2, <3>3
  <2> QED
    BY <1>1, <2>2 DEF EmitStatus, RemoveJournal, MarkTainted, EffectOf
<1> QED
  BY <1>2, <1>3, <1>4

(* A list that asks for one command, after announcing a state or not.       *)
LEMMA AsksOne ==
  ASSUME NEW c \in Command, NEW effects,
         effects = <<Invoke(c)>> \/ \E s \in WireState : effects = <<EmitStatus(s), Invoke(c)>>
  PROVE  /\ {d \in Command : Asks(effects, Invoke(d))} = {c}
         /\ ~Asks(effects, MarkTainted)
<1>1. CASE effects = <<Invoke(c)>>
  <2>1. \A k \in DOMAIN effects : effects[k] = Invoke(c)
    BY <1>1
  <2>2. Asks(effects, Invoke(c))
    BY <1>1 DEF Asks
  <2>3. \A d \in Command : Asks(effects, Invoke(d)) => d = c
    BY <2>1 DEF Asks, Invoke, EffectOf
  <2>4. ~Asks(effects, MarkTainted)
    BY <2>1 DEF Asks, Invoke, MarkTainted, EffectOf
  <2> QED
    BY <2>2, <2>3, <2>4
<1>2. CASE \E s \in WireState : effects = <<EmitStatus(s), Invoke(c)>>
  <2>1. PICK s \in WireState : effects = <<EmitStatus(s), Invoke(c)>>
    BY <1>2
  <2>2. \A k \in DOMAIN effects : effects[k] \in {EmitStatus(s), Invoke(c)}
    BY <2>1
  <2>3. Asks(effects, Invoke(c))
    BY <2>1 DEF Asks
  <2>4. \A d \in Command : Asks(effects, Invoke(d)) => d = c
    BY <2>2 DEF Asks, Invoke, EmitStatus, EffectOf
  <2>5. ~Asks(effects, MarkTainted)
    BY <2>2 DEF Asks, Invoke, EmitStatus, MarkTainted, EffectOf
  <2> QED
    BY <2>3, <2>4, <2>5
<1> QED
  BY <1>1, <1>2

(* A list that says nothing of quarantine.                                  *)
LEMMA AsksNoTaint ==
  ASSUME NEW effects,
         \/ effects = << >>
         \/ effects = <<WriteJournal>>
         \/ \E s \in WireState : effects \in {<<EmitStatus(s)>>, <<RemoveJournal, EmitStatus(s)>>}
  PROVE  ~Asks(effects, MarkTainted)
<1> SUFFICES ASSUME NEW k \in DOMAIN effects, effects[k] = MarkTainted
             PROVE  FALSE
  BY DEF Asks
<1>1. effects[k].type = "MarkTainted"
  BY DEF MarkTainted, EffectOf
<1>2. CASE effects = << >>
  BY <1>2
<1>3. CASE effects = <<WriteJournal>>
  BY <1>1, <1>3 DEF WriteJournal, EffectOf
<1>4. CASE \E s \in WireState : effects \in {<<EmitStatus(s)>>, <<RemoveJournal, EmitStatus(s)>>}
  <2>1. PICK s \in WireState : effects[k] \in {EmitStatus(s), RemoveJournal}
    <3>1. PICK s \in WireState : effects \in {<<EmitStatus(s)>>, <<RemoveJournal, EmitStatus(s)>>}
      BY <1>4
    <3>2. CASE effects = <<EmitStatus(s)>>
      BY <3>2
    <3>3. CASE effects = <<RemoveJournal, EmitStatus(s)>>
      BY <3>3
    <3> QED
      BY <3>1, <3>2, <3>3
  <2> QED
    BY <1>1, <2>1 DEF EmitStatus, RemoveJournal, EffectOf
<1> QED
  BY <1>2, <1>3, <1>4

(* The machine asks for nothing that runs or quarantines.                   *)
LEMMA FeedsNone ==
  ASSUME TypeOK, NEW ev, Feed(ev), NEW s, NEW effects, Step(st, ev) = To(s, effects),
         \/ effects = << >>
         \/ effects = <<WriteJournal>>
         \/ \E w \in WireState : effects \in {<<EmitStatus(w)>>, <<RemoveJournal, EmitStatus(w)>>}
  PROVE  Follows(s, None, ev) /\ tainted' = tainted
<1>1. {c \in Command : Asks(effects, Invoke(c))} = {} /\ ~Asks(effects, MarkTainted)
  BY AsksNone, AsksNoTaint
<1>2. Step(st, ev).state = s /\ Step(st, ev).effects = effects
  BY DEF To
<1>3. Becomes(s, None)
  BY <1>1, <1>2 DEF Feed, Becomes
<1>4. tainted' = tainted
  BY <1>1, <1>2 DEF Feed, TypeOK
<1>5. None # "Inject"
  BY DEF None
<1> QED
  BY <1>1, <1>2, <1>3, <1>4, <1>5 DEF Feed, Follows, Relieves

(* The machine quarantines the host.                                        *)
LEMMA FeedsTaint ==
  ASSUME TypeOK, NEW ev, Feed(ev), NEW s, NEW w \in WireState,
         Step(st, ev) = To(s, <<MarkTainted, RemoveJournal, EmitStatus(w)>>)
  PROVE  Follows(s, None, ev) /\ tainted' = TRUE
<1>1. PICK effects : effects = <<MarkTainted, RemoveJournal, EmitStatus(w)>>
  OBVIOUS
<1>2. {c \in Command : Asks(effects, Invoke(c))} = {} /\ Asks(effects, MarkTainted)
  <2>1. Asks(effects, MarkTainted)
    BY <1>1 DEF Asks
  <2> QED
    BY <1>1, <2>1, AsksNone
<1>3. Step(st, ev).state = s /\ Step(st, ev).effects = effects
  BY <1>1 DEF To
<1>4. Becomes(s, None)
  BY <1>2, <1>3 DEF Feed, Becomes
<1>5. tainted' = TRUE
  BY <1>2, <1>3 DEF Feed, TypeOK
<1>6. None # "Inject"
  BY DEF None
<1> QED
  BY <1>2, <1>3, <1>4, <1>5, <1>6 DEF Feed, Follows, Relieves

(* The machine asks for one command.                                        *)
LEMMA FeedsOne ==
  ASSUME TypeOK, NEW ev, Feed(ev), NEW s, NEW effects, Step(st, ev) = To(s, effects),
         NEW c \in Command,
         effects = <<Invoke(c)>> \/ \E w \in WireState : effects = <<EmitStatus(w), Invoke(c)>>
  PROVE  Follows(s, c, ev) /\ tainted' = tainted
<1>1. /\ {d \in Command : Asks(effects, Invoke(d))} = {c}
      /\ ~Asks(effects, MarkTainted)
  BY AsksOne
<1>2. Step(st, ev).state = s /\ Step(st, ev).effects = effects
  BY DEF To
<1>3. (CHOOSE d \in {c} : TRUE) = c /\ c # None
  BY DEF Command, None
<1>4. Becomes(s, c)
  BY <1>1, <1>2, <1>3 DEF Feed, Becomes
<1>5. "Inject" \in {d \in Command : Asks(effects, Invoke(d))} <=> c = "Inject"
  BY <1>1
<1>6. tainted' = tainted
  BY <1>1, <1>2 DEF Feed, TypeOK
<1> QED
  BY <1>1, <1>2, <1>4, <1>5, <1>6 DEF Feed, Follows, Relieves

-----------------------------------------------------------------------------
(***************************************************************************)
(* The invariant, part by part.                                            *)
(***************************************************************************)
Opening == {"Pending", "PreflightInstall", "PreflightRuntime", "WritingJournal", "Injecting"}

(* The command a state waits for.                                           *)
Runs(s) ==
  IF s.kind \in {"PreflightInstall", "PreflightRuntime"} THEN "Preflight"
  ELSE IF s.kind = "Injecting" THEN "Inject"
  ELSE IF s.kind = "Recovering" THEN s.current ELSE None

(* What the state of the machine says of the rest of the task.              *)
Fits ==
  /\ wait \in [at : Int, cause : StopCause \cup {None}]
  /\ st.kind = "Pending" <=> start = Never
  /\ st.kind \in Opening => active = Never /\ cause = None
  /\ st.kind \in PreInject => ~live
  /\ st.kind \in {"Injecting", "Active"} => live
  /\ st.kind = "Active" => active # Never /\ cause = None
  /\ busy.command = Runs(st)
  /\ wait # Awake => st.kind = "Active"
  /\ start <= now /\ active <= now

(* No command outlasts its longest run, and the three of a start follow one *)
(* another.                                                                 *)
Prompt ==
  /\ busy.command # None => busy.since <= now /\ now <= busy.since + LongestRun
  /\ st.kind = "PreflightInstall" => busy.since <= start
  /\ st.kind = "PreflightRuntime" => busy.since <= start + LongestRun
  /\ st.kind = "WritingJournal" => now <= start + 2 * LongestRun
  /\ st.kind = "Injecting" => busy.since <= start + 2 * LongestRun
  /\ active # Never => active <= start + 3 * LongestRun

(* The loss the agent published against the silence of the master.          *)
Heard ==
  /\ conn.since <= now /\ silence.since <= now
  /\ silence.from <= silence.to /\ silence.to <= now
  /\ Silent => silence.to <= silence.since
  /\ Watched => (Silent <=> ~link \/ conn.lost)
  /\ Watched /\ ~link /\ ~conn.lost => now <= silence.since + Notice
  /\ Watched /\ conn.lost => /\ silence.since <= conn.since
                              /\ conn.since <= silence.since + Notice

(* The sleeper is armed for the next stop, or was until the news it has not *)
(* looked at yet; what it is armed for is earned.                           *)
Armed ==
  wait # Awake =>
    /\ news \/ wait = NextStop
    /\ \/ wait.cause = "DurationElapsed" /\ wait.at = DurationEnd
       \/ wait.cause = "Deadman" /\ wait.at = Deadman /\ Deadman < DurationEnd
       \/ /\ wait.cause = "MasterLost"
          /\ \/ conn.lost /\ wait.at = conn.since + plan.threshold
             \/ news /\ silence.to = now /\ silence.from + plan.threshold <= wait.at

(* No stop is overdue.                                                      *)
InTime ==
  st.kind = "Active" =>
    /\ now <= DurationEnd
    /\ now <= Later(Deadman, active)
    /\ conn.lost => now <= Later(conn.since + plan.threshold, active)

(* Each command of a recovery begins in time, and lifts the fault or leaves *)
(* its quarantine.                                                          *)
Ended ==
  /\ cause = "Deadman" => Deadman < DurationEnd
  /\ st.kind = "Recovering" =>
       IF live THEN busy.since <= LatestStop + (IF st.retried THEN LongestRun ELSE 0)
       ELSE /\ st.remaining = << >>
            /\ busy.since <= LatestStop + (IF st.retried THEN 3 ELSE 2) * LongestRun
  /\ IsTerminal(st) => ~live \/ tainted

TimeInv == TypeOK /\ Fits /\ Prompt /\ Heard /\ Armed /\ InTime /\ Ended

-----------------------------------------------------------------------------
(***************************************************************************)
(* Every step of the task, with what it leaves behind.                     *)
(***************************************************************************)
(* The order is received.                                                   *)
LEMMA ReceiveIs ==
  ASSUME TypeOK, Fits, Receive
  PROVE  /\ st.kind = "Pending" /\ Becomes(Plain("PreflightInstall", None), "Preflight")
         /\ live' = live /\ tainted' = tainted /\ cause' = cause
<1>1. PICK ev : ev = Plainly("SetupOk")
  OBVIOUS
<1>2. st.kind = "Pending" /\ Feed(ev) /\ ev.type = "SetupOk" /\ ev.disposition = None
  BY <1>1 DEF Receive, Plainly, EventOf
<1>3. PICK c, s, e :
        c \in Command /\ c = "Preflight" /\ s = Plain("PreflightInstall", None)
        /\ e = <<EmitStatus("Preflight"), Invoke(c)>>
  BY DEF Command
<1>4. Step(st, ev) = To(s, e)
  BY <1>2, <1>3 DEF Step, StepPending, Terminal
<1>5. \E w \in WireState : e = <<EmitStatus(w), Invoke(c)>>
  BY <1>3 DEF WireState
<1>6. Follows(s, c, ev) /\ tainted' = tainted
  BY <1>2, <1>3, <1>4, <1>5, FeedsOne
<1>7. ~Relieves(ev)
  BY <1>2 DEF Relieves, None
<1> QED
  BY <1>2, <1>3, <1>6, <1>7 DEF Follows

(* The write of the journal ends.                                           *)
LEMMA JournalIs ==
  ASSUME TypeOK, Fits, JournalWritten
  PROVE  /\ st.kind = "WritingJournal" /\ tainted' = tainted /\ cause' = cause
         /\ \/ Becomes(Plain("Aborted", None), None) /\ live' = live
            \/ Becomes(Plain("Injecting", None), "Inject") /\ live' = TRUE
<1>1. PICK ev : ev = Plainly("JournalWritten")
  OBVIOUS
<1>2. /\ st.kind = "WritingJournal" /\ Feed(ev)
      /\ ev.type = "JournalWritten" /\ ev.disposition = None
  BY <1>1 DEF JournalWritten, Plainly, EventOf
<1>3. Step(st, ev) = StepWritingJournal(st, ev)
  BY <1>2 DEF Step, Terminal
<1>4. ~Relieves(ev) /\ None # "Inject"
  BY <1>2 DEF Relieves, None
<1>5. CASE st.stop # None
  <2>1. PICK s, e : s = Plain("Aborted", None) /\ e = <<RemoveJournal, EmitStatus("Aborted")>>
    OBVIOUS
  <2>2. Step(st, ev) = To(s, e)
    BY <1>2, <1>3, <1>5, <2>1 DEF StepWritingJournal, AbortedUnjournaled
  <2>3. \E w \in WireState : e \in {<<EmitStatus(w)>>, <<RemoveJournal, EmitStatus(w)>>}
    BY <2>1 DEF WireState, Terminal
  <2>4. Follows(s, None, ev) /\ tainted' = tainted
    BY <1>2, <2>2, <2>3, FeedsNone
  <2> QED
    BY <1>2, <1>4, <2>1, <2>4 DEF Follows
<1>6. CASE st.stop = None
  <2>1. PICK c, s, e :
          c \in Command /\ c = "Inject" /\ s = Plain("Injecting", None) /\ e = <<EmitStatus("Injecting"), Invoke(c)>>
    BY DEF Command
  <2>2. Step(st, ev) = To(s, e)
    BY <1>2, <1>3, <1>6, <2>1 DEF StepWritingJournal
  <2>3. \E w \in WireState : e = <<EmitStatus(w), Invoke(c)>>
    BY <2>1 DEF WireState
  <2>4. Follows(s, c, ev) /\ tainted' = tainted
    BY <1>2, <2>1, <2>2, <2>3, FeedsOne
  <2> QED
    BY <1>2, <2>1, <2>4 DEF Follows
<1> QED
  BY <1>5, <1>6

(* A recovery begins.                                                       *)
LEMMA RecoveryBegins ==
  ASSUME TypeOK, NEW ev, Feed(ev), NEW c \in StopCause, Step(st, ev) = StartRecovery(c)
  PROVE  \E d \in {"Abort", "Cleanup"}, rest \in {<< >>, <<"Cleanup">>}, o \in Terminal :
           Follows(Recovering(d, rest, o, FALSE), d, ev) /\ tainted' = tainted
<1>1. PICK d \in {"Abort", "Cleanup"}, rest \in {<< >>, <<"Cleanup">>} :
        RecoverySteps(c)[1] = d /\ RecoverySteps(c)[2] = rest
  BY DEF RecoverySteps
<1>2. PICK o \in Terminal : o = Outcome(c)
  BY DEF Outcome, Terminal, StopCause
<1>3. PICK s, e : s = Recovering(d, rest, o, FALSE)
                  /\ e = <<EmitStatus("Recovering"), Invoke(d)>>
  OBVIOUS
<1>4. Step(st, ev) = To(s, e)
  BY <1>1, <1>2, <1>3 DEF StartRecovery
<1>5. d \in Command /\ \E w \in WireState : e = <<EmitStatus(w), Invoke(d)>>
  BY <1>3 DEF Command, WireState
<1>6. Follows(s, d, ev) /\ tainted' = tainted
  BY <1>4, <1>5, FeedsOne
<1> QED
  BY <1>3, <1>6

(* A stop is taken in Active.                                               *)
LEMMA StopIs ==
  ASSUME TypeOK, Fits, st.kind = "Active", NEW c \in StopCause, Feed(StopRequested(c))
  PROVE  /\ \E d \in {"Abort", "Cleanup"}, rest \in {<< >>, <<"Cleanup">>}, o \in Terminal :
              Becomes(Recovering(d, rest, o, FALSE), d)
         /\ live' = live /\ tainted' = tainted /\ cause' = c
<1>1. PICK ev : ev = StopRequested(c)
  OBVIOUS
<1>2. /\ Feed(ev) /\ ev.type = "StopRequested" /\ ev.cause = c /\ ev.disposition = None
  BY <1>1 DEF StopRequested, EventOf
<1>3. Step(st, ev) = StartRecovery(c)
  BY <1>2 DEF Step, StepActive, Terminal
<1>4. PICK d \in {"Abort", "Cleanup"}, rest \in {<< >>, <<"Cleanup">>}, o \in Terminal :
        Follows(Recovering(d, rest, o, FALSE), d, ev) /\ tainted' = tainted
  BY <1>2, <1>3, RecoveryBegins
<1>5. ~Relieves(ev)
  BY <1>2 DEF Relieves, None
<1> QED
  BY <1>2, <1>4, <1>5 DEF Follows

(* The command of a preflight ends.                                         *)
LEMMA PreflightEnds ==
  ASSUME TypeOK, Fits, st.kind \in {"PreflightInstall", "PreflightRuntime"}, InvocationEnds
  PROVE  /\ live' = live /\ tainted' = tainted /\ cause' = cause
         /\ \/ /\ st.kind = "PreflightInstall"
               /\ Becomes(Plain("PreflightRuntime", None), "Preflight")
            \/ st.kind = "PreflightRuntime" /\ Becomes(Plain("WritingJournal", None), None)
            \/ Becomes(Plain("Aborted", None), None)
<1>1. busy.command = "Preflight"
  BY DEF Fits, Runs
<1>2. PICK ev : /\ Feed(ev)
                /\ \/ ev = CommandFinished("Preflight", "Success")
                   \/ ev = InvocationFailed("Preflight")
  BY <1>1 DEF InvocationEnds
<1>3. Step(st, ev) = StepPreflight(st, ev)
  BY DEF Step, Terminal
<1>4. ~Relieves(ev) /\ st.kind # "Active"
  BY <1>1 DEF Relieves
<1>5. PICK aborted, told : aborted = Plain("Aborted", None) /\ told = <<EmitStatus("Aborted")>>
  OBVIOUS
<1>6. \E w \in WireState : told \in {<<EmitStatus(w)>>, <<RemoveJournal, EmitStatus(w)>>}
  BY <1>5 DEF WireState, Terminal
<1>7. CASE Step(st, ev) = AbortedWith
  <2>1. Step(st, ev) = To(aborted, told)
    BY <1>5, <1>7 DEF AbortedWith
  <2>2. Follows(aborted, None, ev) /\ tainted' = tainted
    BY <1>2, <1>6, <2>1, FeedsNone
  <2> QED
    BY <1>4, <1>5, <2>2 DEF Follows, None
<1>8. CASE Step(st, ev) # AbortedWith
  <2>1. ev.type = "CommandFinished" /\ ev.command = "Preflight" /\ ev.disposition = "Success"
    <3>1. CASE ev = InvocationFailed("Preflight")
      <4>1. ev.type = "InvocationFailed" /\ ev.command = "Preflight"
        BY <3>1 DEF InvocationFailed, EventOf
      <4> QED
        BY <1>3, <1>8, <4>1 DEF StepPreflight, IsFailureOf, Succeeded
    <3> QED
      BY <1>2, <3>1 DEF CommandFinished, EventOf
  <2>2. Succeeded(ev, "Preflight") /\ ev.type # "StopRequested"
    BY <2>1 DEF Succeeded
  <2>3. st.stop = None
    BY <1>3, <1>8, <2>2 DEF StepPreflight
  <2>4. CASE st.kind = "PreflightInstall"
    <3>1. PICK c, s, e :
            c \in Command /\ c = "Preflight" /\ s = Plain("PreflightRuntime", None) /\ e = <<Invoke(c)>>
      BY DEF Command
    <3>2. Step(st, ev) = To(s, e)
      BY <1>3, <2>2, <2>3, <2>4, <3>1 DEF StepPreflight, IsFailureOf
    <3>3. Follows(s, c, ev) /\ tainted' = tainted
      BY <1>2, <3>1, <3>2, FeedsOne
    <3> QED
      BY <1>4, <2>4, <3>1, <3>3 DEF Follows
  <2>5. CASE st.kind = "PreflightRuntime"
    <3>1. PICK s, e : s = Plain("WritingJournal", None) /\ e = <<WriteJournal>>
      OBVIOUS
    <3>2. Step(st, ev) = To(s, e)
      BY <1>3, <2>2, <2>3, <2>5, <3>1 DEF StepPreflight, IsFailureOf
    <3>3. Follows(s, None, ev) /\ tainted' = tainted
      BY <1>2, <3>1, <3>2, FeedsNone
    <3> QED
      BY <1>4, <2>5, <3>1, <3>3 DEF Follows, None
  <2> QED
    BY <2>4, <2>5
<1> QED
  BY <1>7, <1>8

(* Inject ends.                                                             *)
LEMMA InjectEnds ==
  ASSUME TypeOK, Fits, st.kind = "Injecting", InvocationEnds
  PROVE  /\ tainted' = tainted /\ cause' = cause
         /\ \/ Becomes(Plain("Active", None), None) /\ live' = live
            \/ Becomes(Plain("Aborted", None), None) /\ live' = FALSE
            \/ /\ \E d \in {"Abort", "Cleanup"}, rest \in {<< >>, <<"Cleanup">>}, o \in Terminal :
                    Becomes(Recovering(d, rest, o, FALSE), d)
               /\ live' = live
<1>1. busy.command = "Inject"
  BY DEF Fits, Runs
<1>2. PICK ev : /\ Feed(ev)
                /\ \/ ev = CommandFinished("Inject", "Success")
                   \/ ev = CommandFinished("Inject", "InjectFailed")
                   \/ ev = InvocationFailed("Inject")
  BY <1>1 DEF InvocationEnds
<1>3. Step(st, ev) = StepInjecting(st, ev)
  BY DEF Step, Terminal
<1>4. None # "Inject" /\ st.kind # "Active" /\ st.stop \in StopCause \cup {None}
  BY DEF None, TypeOK, MachineState
<1>5. CASE ev = CommandFinished("Inject", "Success")
  <2>1. ev.type = "CommandFinished" /\ ev.command = "Inject" /\ ev.disposition = "Success"
    BY <1>5 DEF CommandFinished, EventOf
  <2>2. ~Relieves(ev)
    BY <1>1, <2>1 DEF Relieves
  <2>3. CASE st.stop = None
    <3>1. PICK s, e : s = Plain("Active", None) /\ e = <<EmitStatus("Active")>>
      OBVIOUS
    <3>2. Step(st, ev) = To(s, e)
      BY <1>3, <2>1, <2>3, <3>1 DEF StepInjecting
    <3>3. \E w \in WireState : e \in {<<EmitStatus(w)>>, <<RemoveJournal, EmitStatus(w)>>}
      BY <3>1 DEF WireState
    <3>4. Follows(s, None, ev) /\ tainted' = tainted
      BY <1>2, <3>2, <3>3, FeedsNone
    <3> QED
      BY <1>4, <2>2, <3>1, <3>4 DEF Follows
  <2>4. CASE st.stop # None
    <3>1. Step(st, ev) = StartRecovery(st.stop) /\ st.stop \in StopCause
      BY <1>3, <1>4, <2>1, <2>4 DEF StepInjecting
    <3>2. PICK d \in {"Abort", "Cleanup"}, rest \in {<< >>, <<"Cleanup">>}, o \in Terminal :
            Follows(Recovering(d, rest, o, FALSE), d, ev) /\ tainted' = tainted
      BY <1>2, <3>1, RecoveryBegins
    <3> QED
      BY <1>4, <2>2, <3>2 DEF Follows
  <2> QED
    BY <2>3, <2>4
<1>6. CASE ev = CommandFinished("Inject", "InjectFailed")
  <2>1. ev.type = "CommandFinished" /\ ev.command = "Inject" /\ ev.disposition = "InjectFailed"
    BY <1>6 DEF CommandFinished, EventOf
  <2>2. Relieves(ev)
    BY <1>1, <2>1 DEF Relieves
  <2>3. PICK s, e : s = Plain("Aborted", None) /\ e = <<RemoveJournal, EmitStatus("Aborted")>>
    OBVIOUS
  <2>4. Step(st, ev) = To(s, e)
    BY <1>3, <2>1, <2>3 DEF StepInjecting, AbortedUnjournaled
  <2>5. \E w \in WireState : e \in {<<EmitStatus(w)>>, <<RemoveJournal, EmitStatus(w)>>}
    BY <2>3 DEF WireState, Terminal
  <2>6. Follows(s, None, ev) /\ tainted' = tainted
    BY <1>2, <2>4, <2>5, FeedsNone
  <2> QED
    BY <1>4, <2>2, <2>3, <2>6 DEF Follows
<1>7. CASE ev = InvocationFailed("Inject")
  <2>1. ev.type = "InvocationFailed" /\ ev.disposition = None
    BY <1>7 DEF InvocationFailed, EventOf
  <2>2. ~Relieves(ev)
    BY <2>1 DEF Relieves, None
  <2>3. PICK c \in StopCause : c = "Deadman"
    BY DEF StopCause
  <2>4. Step(st, ev) = StartRecovery(c)
    BY <1>3, <2>1, <2>3 DEF StepInjecting
  <2>5. PICK d \in {"Abort", "Cleanup"}, rest \in {<< >>, <<"Cleanup">>}, o \in Terminal :
          Follows(Recovering(d, rest, o, FALSE), d, ev) /\ tainted' = tainted
    BY <1>2, <2>4, RecoveryBegins
  <2> QED
    BY <1>4, <2>2, <2>5 DEF Follows
<1> QED
  BY <1>2, <1>5, <1>6, <1>7

(* A command of the recovery ends.                                          *)
LEMMA RecoveryEnds ==
  ASSUME TypeOK, Fits, st.kind = "Recovering", InvocationEnds
  PROVE  /\ cause' = cause
         /\ \/ /\ Becomes(Plain(st.outcome, None), None)
               /\ live' = FALSE /\ tainted' = tainted
            \/ /\ st.remaining # << >> /\ Becomes(Recovering("Cleanup", << >>, st.outcome, FALSE), "Cleanup")
               /\ live' = FALSE /\ tainted' = tainted
            \/ /\ ~st.retried /\ Becomes([st EXCEPT !.retried = TRUE], st.current)
               /\ live' = live /\ tainted' = tainted
            \/ /\ Becomes(Plain("Error", None), None)
               /\ live' = live /\ tainted' = TRUE
<1>1. /\ st.current \in {"Abort", "Cleanup"} /\ st.outcome \in Terminal
      /\ st.remaining \in {<< >>, <<"Cleanup">>} /\ st.retried \in BOOLEAN
      /\ busy.command = st.current
  BY DEF Fits, Runs, TypeOK, MachineState
<1>2. PICK ev : /\ Feed(ev)
                /\ \/ ev = CommandFinished(st.current, "Success")
                   \/ ev = CommandFinished(st.current, "RecoveryFailed")
                   \/ ev = InvocationFailed(st.current)
  BY <1>1 DEF InvocationEnds
<1>3. Step(st, ev) = StepRecovering(st, ev)
  BY DEF Step, Terminal
<1>4. st.kind # "Active" /\ None # "Inject" /\ st.current # "Inject" /\ st.current \in Command
  BY <1>1 DEF None, Command
<1>5. CASE ev = CommandFinished(st.current, "Success")
  <2>1. /\ ev.type = "CommandFinished" /\ ev.command = st.current /\ ev.disposition = "Success"
    BY <1>5 DEF CommandFinished, EventOf
  <2>2. Relieves(ev) /\ Succeeded(ev, st.current)
    BY <1>1, <2>1 DEF Relieves, Succeeded
  <2>3. Step(st, ev) = RecoverySuccess(st)
    BY <1>3, <2>1, <2>2 DEF StepRecovering, IsFailureOf
  <2>4. CASE st.remaining = << >>
    <3>1. PICK s, e : s = Plain(st.outcome, None) /\ e = <<RemoveJournal, EmitStatus(st.outcome)>>
      OBVIOUS
    <3>2. Step(st, ev) = To(s, e)
      BY <2>3, <2>4, <3>1 DEF RecoverySuccess
    <3>3. \E w \in WireState : e \in {<<EmitStatus(w)>>, <<RemoveJournal, EmitStatus(w)>>}
      BY <1>1, <3>1 DEF WireState
    <3>4. Follows(s, None, ev) /\ tainted' = tainted
      BY <1>2, <3>2, <3>3, FeedsNone
    <3> QED
      BY <1>4, <2>2, <3>1, <3>4 DEF Follows
  <2>5. CASE st.remaining = <<"Cleanup">>
    <3>1. Head(st.remaining) = "Cleanup" /\ Tail(st.remaining) = << >> /\ st.remaining # << >>
      BY <2>5
    <3>2. PICK c, s, e : /\ c \in Command /\ c = "Cleanup" /\ e = <<Invoke(c)>>
                                     /\ s = Recovering("Cleanup", << >>, st.outcome, FALSE)
      BY DEF Command
    <3>3. Step(st, ev) = To(s, e)
      BY <2>3, <3>1, <3>2 DEF RecoverySuccess
    <3>4. Follows(s, c, ev) /\ tainted' = tainted
      BY <1>2, <3>2, <3>3, FeedsOne
    <3> QED
      BY <1>4, <2>2, <3>1, <3>2, <3>4 DEF Follows
  <2> QED
    BY <1>1, <2>4, <2>5
<1>6. CASE \/ ev = CommandFinished(st.current, "RecoveryFailed")
           \/ ev = InvocationFailed(st.current)
  <2>1. /\ ev.type \in {"CommandFinished", "InvocationFailed"} /\ ev.command = st.current
        /\ ev.disposition \in {"RecoveryFailed", None}
    BY <1>6 DEF CommandFinished, InvocationFailed, EventOf
  <2>2. ~Relieves(ev) /\ ~Succeeded(ev, st.current) /\ IsFailureOf(ev, st.current)
    BY <2>1 DEF Relieves, Succeeded, IsFailureOf, None
  <2>3. Step(st, ev) = RecoveryFailure(st)
    BY <1>3, <2>1, <2>2 DEF StepRecovering
  <2>4. CASE st.retried
    <3>1. PICK s : s = Plain("Error", None)
      OBVIOUS
    <3>a. PICK w \in WireState : w = "Error"
      BY DEF WireState, Terminal
    <3>2. Step(st, ev) = To(s, <<MarkTainted, RemoveJournal, EmitStatus(w)>>)
      BY <2>3, <2>4, <3>1, <3>a DEF RecoveryFailure
    <3>3. Follows(s, None, ev) /\ tainted' = TRUE
      BY <1>2, <3>2, FeedsTaint
    <3> QED
      BY <1>4, <2>2, <3>1, <3>3 DEF Follows
  <2>5. CASE ~st.retried
    <3>1. PICK c, s, e : /\ c \in Command /\ c = st.current /\ e = <<Invoke(c)>>
                                     /\ s = [st EXCEPT !.retried = TRUE]
      BY <1>4
    <3>2. Step(st, ev) = To(s, e)
      BY <2>3, <2>5, <3>1 DEF RecoveryFailure
    <3>3. Follows(s, c, ev) /\ tainted' = tainted
      BY <1>2, <3>1, <3>2, FeedsOne
    <3> QED
      BY <1>4, <2>2, <2>5, <3>1, <3>3 DEF Follows
  <2> QED
    BY <2>4, <2>5
<1> QED
  BY <1>2, <1>5, <1>6

-----------------------------------------------------------------------------
(***************************************************************************)
(* The steps, grouped by what they do to the machine.                      *)
(***************************************************************************)
Recoveries ==
  {s \in MachineState : s.kind = "Recovering" /\ ~s.retried /\ s.current \in {"Abort", "Cleanup"}}

(* The stop c is due.                                                       *)
Earned(c) ==
  \/ c = "OperatorAbort"
  \/ c = "DurationElapsed" /\ now >= DurationEnd
  \/ c = "Deadman" /\ now >= Deadman /\ Deadman < DurationEnd
  \/ /\ c = "MasterLost"
     /\ \/ conn.lost /\ now >= conn.since + plan.threshold
        \/ silence.to = now /\ silence.from + plan.threshold <= now

Calm == live' = live /\ tainted' = tainted /\ cause' = cause

Begins ==
  /\ st.kind = "Pending" /\ Becomes(Plain("PreflightInstall", None), "Preflight")
  /\ start' = now /\ Calm

Advances ==
  /\ start' = start /\ tainted' = tainted /\ cause' = cause
  /\ \/ /\ st.kind = "PreflightInstall" /\ live' = live
        /\ Becomes(Plain("PreflightRuntime", None), "Preflight")
     \/ /\ st.kind = "PreflightRuntime" /\ live' = live
        /\ Becomes(Plain("WritingJournal", None), None)
     \/ /\ st.kind = "WritingJournal" /\ live' = TRUE
        /\ Becomes(Plain("Injecting", None), "Inject")
     \/ /\ st.kind = "Injecting" /\ live' = live /\ Becomes(Plain("Active", None), None)

GivesUp ==
  /\ start' = start /\ tainted' = tainted /\ cause' = cause
  /\ st.kind \in {"PreflightInstall", "PreflightRuntime", "WritingJournal", "Injecting"}
  /\ Becomes(Plain("Aborted", None), None)
  /\ live' = IF st.kind = "Injecting" THEN FALSE ELSE live

Stopped ==
  /\ st.kind = "Active"
  /\ \E s \in Recoveries : Becomes(s, s.current)
  /\ \E c \in StopCause : Earned(c) /\ cause' = c
  /\ start' = start /\ live' = live /\ tainted' = tainted

Recovers ==
  /\ start' = start /\ cause' = cause
  /\ \/ /\ st.kind = "Injecting" /\ live' = live /\ tainted' = tainted
        /\ \E s \in Recoveries : Becomes(s, s.current)
     \/ /\ st.kind = "Recovering" /\ live' = FALSE /\ tainted' = tainted
        /\ \/ Becomes(Plain(st.outcome, None), None)
           \/ /\ st.remaining # << >>
              /\ Becomes(Recovering("Cleanup", << >>, st.outcome, FALSE), "Cleanup")
     \/ /\ st.kind = "Recovering" /\ live' = live
        /\ \/ /\ ~st.retried /\ tainted' = tainted
              /\ Becomes([st EXCEPT !.retried = TRUE], st.current)
           \/ tainted' = TRUE /\ Becomes(Plain("Error", None), None)

(* An abort the machine takes note of.                                      *)
Notes ==
  /\ st' \in MachineState /\ st'.kind = st.kind /\ st'.current = st.current
  /\ st.kind = "Recovering" => st' = st
  /\ UNCHANGED <<start, active, busy, wait, cause, live, tainted, news>>

Dozes ==
  /\ st.kind = "Active"
  /\ \/ wait' = Awake /\ news' = news
     \/ wait' = NextStop /\ NextStop.at > now /\ news' = FALSE
  /\ UNCHANGED <<st, start, active, busy, cause, live, tainted>>

TaskMove ==
  /\ UNCHANGED <<clockVars, sessionVars>> /\ stops' \in 0..MaxStops /\ news' \in BOOLEAN
  /\ \/ Begins \/ Advances \/ GivesUp \/ Stopped \/ Recovers \/ Notes
     \/ Dozes

(* What the machine begins a recovery with.                                 *)
LEMMA RecoveryIn ==
  ASSUME NEW d \in {"Abort", "Cleanup"}, NEW rest \in {<< >>, <<"Cleanup">>}, NEW o \in Terminal
  PROVE  /\ Recovering(d, rest, o, FALSE) \in Recoveries
         /\ Recovering(d, rest, o, FALSE).current = d
  BY RecoveringType DEF Recoveries, Recovering

(* A stop taken in Active, with its cause.                                  *)
LEMMA StopTaken ==
  ASSUME TypeOK, Fits, st.kind = "Active", NEW c \in StopCause, Feed(StopRequested(c)),
         Earned(c), start' = start
  PROVE  Stopped
<1>1. PICK d \in {"Abort", "Cleanup"}, rest \in {<< >>, <<"Cleanup">>}, o \in Terminal :
        /\ Becomes(Recovering(d, rest, o, FALSE), d)
        /\ live' = live /\ tainted' = tainted /\ cause' = c
  BY StopIs
<1>2. Recovering(d, rest, o, FALSE) \in Recoveries /\ Recovering(d, rest, o, FALSE).current = d
  BY RecoveryIn
<1> QED
  BY <1>1, <1>2 DEF Stopped

(* The head of the loop.                                                    *)
LEMMA ArmMoves ==
  ASSUME TypeOK, Fits, Arm
  PROVE  TaskMove
<1>1. /\ st.kind = "Active" /\ news' = FALSE
      /\ UNCHANGED <<clockVars, sessionVars, start, stops>>
  BY DEF Arm
<1>2. CASE NextStop.at <= now /\ Feed(StopRequested(NextStop.cause))
  <2>1. PICK n : n = NextStop
    OBVIOUS
  <2>2. /\ n.cause \in StopCause /\ n.at \in Int /\ n.at <= now
        /\ \/ n.cause = "DurationElapsed" /\ n.at = DurationEnd
           \/ n.cause = "Deadman" /\ n.at = Deadman /\ Deadman < DurationEnd
           \/ n.cause = "MasterLost" /\ conn.lost /\ n.at = conn.since + plan.threshold
    BY <1>2, <2>1, NextStopIs
  <2>3. Earned(n.cause)
    BY <2>2, StopInstants DEF Earned, TypeOK, Time
  <2>4. PICK c \in StopCause : c = n.cause
    BY <2>2
  <2>5. Stopped
    BY <1>1, <1>2, <2>1, <2>3, <2>4, StopTaken
  <2> QED
    BY <1>1, <2>5 DEF TaskMove, TypeOK
<1>3. CASE NextStop.at > now /\ wait' = NextStop
           /\ UNCHANGED <<st, active, busy, cause, live, tainted>>
  BY <1>1, <1>3 DEF TaskMove, Dozes, TypeOK
<1> QED
  BY <1>2, <1>3 DEF Arm

(* The sleep ends.                                                          *)
LEMMA TimerMoves ==
  ASSUME TypeOK, Fits, Armed, TimerFires
  PROVE  TaskMove
<1>1. /\ wait # Awake /\ now >= wait.at /\ Feed(StopRequested(wait.cause)) /\ st.kind = "Active"
      /\ UNCHANGED <<clockVars, sessionVars, start, stops, news>>
  BY DEF TimerFires, Fits
<1>2. /\ wait.at \in Int
      /\ \/ wait.cause = "DurationElapsed" /\ wait.at = DurationEnd
         \/ wait.cause = "Deadman" /\ wait.at = Deadman /\ Deadman < DurationEnd
         \/ /\ wait.cause = "MasterLost"
            /\ \/ conn.lost /\ wait.at = conn.since + plan.threshold
               \/ news /\ silence.to = now /\ silence.from + plan.threshold <= wait.at
  BY <1>1 DEF Armed, Fits
<1>3. /\ now \in Int /\ silence.from \in Int /\ plan.threshold \in Int
      /\ DurationEnd \in Int /\ Deadman \in Int /\ conn.since + plan.threshold \in Int
      /\ silence.from + plan.threshold \in Int
  BY StopInstants, TheTimes DEF TypeOK, Time, Instant, Never
<1>4. Earned(wait.cause)
  <2>1. CASE wait.cause = "DurationElapsed" /\ wait.at = DurationEnd
    BY <1>1, <2>1 DEF Earned
  <2>2. CASE wait.cause = "Deadman" /\ wait.at = Deadman /\ Deadman < DurationEnd
    BY <1>1, <2>2 DEF Earned
  <2>3. CASE wait.cause = "MasterLost" /\ conn.lost /\ wait.at = conn.since + plan.threshold
    BY <1>1, <2>3 DEF Earned
  <2>4. CASE /\ wait.cause = "MasterLost" /\ silence.to = now
             /\ silence.from + plan.threshold <= wait.at
    <3>1. silence.from + plan.threshold <= now
      BY <1>1, <1>2, <1>3, <2>4
    <3> QED
      BY <2>4, <3>1 DEF Earned
  <2> QED
    BY <1>2, <2>1, <2>2, <2>3, <2>4
<1>5. PICK c \in StopCause : c = wait.cause
  BY <1>2 DEF StopCause
<1>6. Stopped
  BY <1>1, <1>4, <1>5, StopTaken
<1> QED
  BY <1>1, <1>6 DEF TaskMove, TypeOK

(* An operator aborts.                                                      *)
LEMMA AbortMoves ==
  ASSUME TypeOK, Fits, OperatorAborts
  PROVE  TaskMove
<1>1. /\ stops < MaxStops /\ stops' = stops + 1
      /\ UNCHANGED <<clockVars, sessionVars, start, news>>
  BY DEF OperatorAborts
<1>2. stops' \in 0..MaxStops /\ news' \in BOOLEAN
  BY <1>1, TheTimes DEF TypeOK
<1>3. CASE wait # Awake /\ Feed(StopRequested("OperatorAbort"))
  <2>1. PICK c \in StopCause : c = "OperatorAbort"
    BY DEF StopCause
  <2>2. Stopped
    BY <1>1, <1>3, <2>1, StopTaken DEF Fits, Earned
  <2> QED
    BY <1>1, <1>2, <2>2 DEF TaskMove
<1>4. CASE /\ busy.command # None
           /\ st' = Step(st, StopRequested("OperatorAbort")).state
           /\ UNCHANGED <<active, busy, wait, cause, live, tainted>>
  <2>1. PICK ev \in Event : ev = StopRequested("OperatorAbort")
    BY DEF Event, StopCause
  <2>2. ev.type = "StopRequested" /\ ev.cause = "OperatorAbort" /\ st \in MachineState
    BY <2>1 DEF StopRequested, EventOf, TypeOK
  <2>3. st.kind \in {"PreflightInstall", "PreflightRuntime", "Injecting", "Recovering"}
    BY <1>4 DEF Fits, Runs
  <2>4. st.kind # "Recovering" => Step(st, ev) = Ignore(RecordStop(st, ev))
    <3>1. CASE st.kind \in {"PreflightInstall", "PreflightRuntime"}
      <4>1. Step(st, ev) = StepPreflight(st, ev)
        BY <3>1 DEF Step, Terminal
      <4> QED
        BY <2>2, <4>1 DEF StepPreflight, Succeeded, IsFailureOf
    <3>2. CASE st.kind = "Injecting"
      <4>1. Step(st, ev) = StepInjecting(st, ev)
        BY <3>2 DEF Step, Terminal
      <4> QED
        BY <2>2, <4>1 DEF StepInjecting
    <3> QED
      BY <2>3, <3>1, <3>2
  <2>5. st.kind = "Recovering" => Step(st, ev) = Ignore(st)
    <3> SUFFICES ASSUME st.kind = "Recovering"
                 PROVE  Step(st, ev) = Ignore(st)
      OBVIOUS
    <3>1. Step(st, ev) = StepRecovering(st, ev)
      BY DEF Step, Terminal
    <3> QED
      BY <2>2, <3>1 DEF StepRecovering, Succeeded, IsFailureOf
  <2>6. Absorbed(st, Ignore(RecordStop(st, ev))) /\ Absorbed(st, Ignore(st))
    <3>1. Absorbed(st, Ignore(st))
      BY <2>2 DEF Absorbed, Ignore, To
    <3> QED
      BY <2>2, <3>1, RecordStopAbsorbed
  <2>7. Absorbed(st, Step(st, ev))
    BY <2>4, <2>5, <2>6
  <2>8. st.kind = "Recovering" => st' = st
    BY <1>4, <2>1, <2>5 DEF Ignore, To
  <2>9. st' = Step(st, ev).state
    BY <1>4, <2>1
  <2>10. Notes
    BY <1>1, <1>4, <2>7, <2>8, <2>9 DEF Notes, Absorbed
  <2> QED
    BY <1>1, <1>2, <2>10 DEF TaskMove
<1> QED
  BY <1>3, <1>4 DEF OperatorAborts

(* Every step of the task is one of the moves.                              *)
LEMMA TaskMoves ==
  ASSUME TypeOK, Fits, Armed,
         Receive \/ JournalWritten \/ InvocationEnds \/ Arm \/ Rearm \/ TimerFires \/ OperatorAborts
  PROVE  TaskMove
<1>1. stops \in 0..MaxStops /\ news \in BOOLEAN
  BY DEF TypeOK
<1>2. CASE Receive
  <2>1. start' = now /\ UNCHANGED <<clockVars, sessionVars, stops, news>>
    BY <1>2 DEF Receive
  <2> QED
    BY <1>1, <1>2, <2>1, ReceiveIs DEF TaskMove, Begins, Calm
<1>3. CASE JournalWritten
  <2>1. UNCHANGED <<clockVars, sessionVars, start, stops, news>>
    BY <1>3 DEF JournalWritten
  <2>2. Advances \/ GivesUp
    BY <1>3, <2>1, JournalIs DEF Advances, GivesUp
  <2> QED
    BY <1>1, <2>1, <2>2 DEF TaskMove
<1>4. CASE InvocationEnds
  <2>1. UNCHANGED <<clockVars, sessionVars, start, stops, news>>
    BY <1>4 DEF InvocationEnds
  <2>2. st.kind \in {"PreflightInstall", "PreflightRuntime", "Injecting", "Recovering"}
    BY <1>4 DEF Fits, Runs, InvocationEnds
  <2>3. CASE st.kind \in {"PreflightInstall", "PreflightRuntime"}
    <3>1. Advances \/ GivesUp
      BY <1>4, <2>1, <2>3, PreflightEnds DEF Advances, GivesUp
    <3> QED
      BY <1>1, <2>1, <3>1 DEF TaskMove
  <2>4. CASE st.kind = "Injecting"
    <3>1. CASE \E d \in {"Abort", "Cleanup"}, rest \in {<< >>, <<"Cleanup">>}, o \in Terminal :
                 Becomes(Recovering(d, rest, o, FALSE), d)
               /\ live' = live /\ tainted' = tainted /\ cause' = cause
      <4>1. PICK d \in {"Abort", "Cleanup"}, rest \in {<< >>, <<"Cleanup">>}, o \in Terminal :
              /\ Becomes(Recovering(d, rest, o, FALSE), d)
              /\ live' = live /\ tainted' = tainted /\ cause' = cause
        BY <3>1
      <4>2. /\ Recovering(d, rest, o, FALSE) \in Recoveries
            /\ Recovering(d, rest, o, FALSE).current = d
        BY RecoveryIn
      <4>3. Recovers
        BY <2>1, <2>4, <4>1, <4>2 DEF Recovers
      <4> QED
        BY <1>1, <2>1, <4>3 DEF TaskMove
    <3>2. CASE /\ tainted' = tainted /\ cause' = cause
               /\ \/ Becomes(Plain("Active", None), None) /\ live' = live
                  \/ Becomes(Plain("Aborted", None), None) /\ live' = FALSE
      <4>1. Advances \/ GivesUp
        BY <2>1, <2>4, <3>2 DEF Advances, GivesUp
      <4> QED
        BY <1>1, <2>1, <4>1 DEF TaskMove
    <3> QED
      BY <1>4, <2>4, <3>1, <3>2, InjectEnds
  <2>5. CASE st.kind = "Recovering"
    <3>1. Recovers
      BY <1>4, <2>1, <2>5, RecoveryEnds DEF Recovers
    <3> QED
      BY <1>1, <2>1, <3>1 DEF TaskMove
  <2> QED
    BY <2>2, <2>3, <2>4, <2>5
<1>5. CASE Rearm
  BY <1>1, <1>5 DEF Rearm, Woken, TaskMove, Dozes
<1> QED
  BY <1>2, <1>3, <1>4, <1>5, ArmMoves, TimerMoves, AbortMoves

-----------------------------------------------------------------------------
(***************************************************************************)
(* The types.                                                              *)
(***************************************************************************)
(* The variables a move of the task may change.                             *)
TaskTypes ==
  /\ {start, active} \subseteq Instant /\ {live, tainted} \subseteq BOOLEAN
  /\ st \in MachineState
  /\ busy \in [command : Command \cup {None}, since : Time]
  /\ wait \in [at : Int, cause : StopCause \cup {None}]
  /\ cause \in StopCause \cup {None}

(* The machine goes to a state and asks for a command of the vocabulary.    *)
LEMMA BecomesTyped ==
  ASSUME TypeOK, NEW s \in MachineState, NEW c \in Command \cup {None}, Becomes(s, c)
  PROVE  /\ st' \in MachineState /\ wait' \in [at : Int, cause : StopCause \cup {None}]
         /\ busy' \in [command : Command \cup {None}, since : Time]
         /\ active' \in Instant
         /\ st' = s /\ busy'.command = c /\ wait' = Awake
         /\ c # None => busy'.since = now
<1>1. now \in Time /\ active \in Instant /\ 0 \in Time
  BY TheTimes DEF TypeOK, Time
<1>2. NotBusy \in [command : Command \cup {None}, since : Time]
  BY <1>1 DEF NotBusy
<1>3. Awake \in [at : Int, cause : StopCause \cup {None}]
  BY DEF Awake, Asleep, Never
<1>4. busy' \in [command : Command \cup {None}, since : Time] /\ busy'.command = c
      /\ (c # None => busy'.since = now)
  <2>1. CASE c = None
    BY <1>2, <2>1 DEF Becomes, NotBusy
  <2>2. CASE c # None
    BY <1>1, <2>2 DEF Becomes
  <2> QED
    BY <2>1, <2>2
<1>5. active' \in Instant
  BY <1>1 DEF Becomes, Instant
<1> QED
  BY <1>3, <1>4, <1>5 DEF Becomes

(* Every move of the task.                                                  *)
LEMMA TaskTyped ==
  ASSUME TypeOK, Fits, TaskMove
  PROVE  TaskTypes'
<1>1. /\ TaskTypes /\ now \in Instant
  BY DEF TypeOK, Fits, TaskTypes, Instant
<1>2. "Preflight" \in Command /\ "Inject" \in Command /\ "Cleanup" \in Command
  BY DEF Command
<1>3. \A k \in Kind \ {"Recovering"} : Plain(k, None) \in MachineState
  BY PlainType
<1>4. {"PreflightInstall", "PreflightRuntime", "WritingJournal", "Injecting", "Active", "Aborted",
       "Error"} \subseteq Kind \ {"Recovering"}
  BY DEF Kind, PreInject, Terminal
<1>5. CASE Begins
  <2>1. Plain("PreflightInstall", None) \in MachineState
    BY <1>3, <1>4
  <2> QED
    BY <1>1, <1>2, <1>5, <2>1, BecomesTyped DEF Begins, Calm, TaskTypes
<1>6. CASE Advances
  <2>1. /\ Plain("PreflightRuntime", None) \in MachineState
        /\ Plain("WritingJournal", None) \in MachineState
        /\ Plain("Injecting", None) \in MachineState /\ Plain("Active", None) \in MachineState
    BY <1>3, <1>4
  <2>2. PICK s \in MachineState, c \in Command \cup {None} : Becomes(s, c)
    BY <1>2, <1>6, <2>1 DEF Advances
  <2>3. live' \in BOOLEAN /\ tainted' = tainted /\ cause' = cause /\ start' = start
    BY <1>1, <1>6 DEF Advances, TaskTypes
  <2> QED
    BY <1>1, <2>2, <2>3, BecomesTyped DEF TaskTypes
<1>7. CASE GivesUp
  <2>1. PICK s \in MachineState : Becomes(s, None)
    BY <1>3, <1>4, <1>7 DEF GivesUp
  <2>2. live' \in BOOLEAN /\ tainted' = tainted /\ cause' = cause /\ start' = start
    BY <1>1, <1>7 DEF GivesUp, TaskTypes
  <2> QED
    BY <1>1, <2>1, <2>2, BecomesTyped DEF TaskTypes
<1>8. CASE Stopped
  <2>1. PICK s \in MachineState, c \in Command \cup {None} : Becomes(s, c)
    BY <1>8 DEF Stopped, Recoveries, Command
  <2>2. live' = live /\ tainted' = tainted /\ cause' \in StopCause /\ start' = start
    BY <1>8 DEF Stopped
  <2> QED
    BY <1>1, <2>1, <2>2, BecomesTyped DEF TaskTypes
<1>9. CASE Recovers
  <2>1. live' \in BOOLEAN /\ tainted' \in BOOLEAN /\ cause' = cause /\ start' = start
    BY <1>1, <1>9 DEF Recovers, TaskTypes
  <2>2. PICK s \in MachineState, c \in Command \cup {None} : Becomes(s, c)
    <3>1. CASE st.kind = "Injecting"
      BY <1>9, <3>1 DEF Recovers, Recoveries, Command
    <3>2. CASE st.kind = "Recovering"
      <4>1. /\ st.current \in {"Abort", "Cleanup"} /\ st.outcome \in Terminal
            /\ st.outcome \in Kind \ {"Recovering"}
        BY <3>2 DEF TypeOK, MachineState, Kind, Terminal
      <4>2. /\ Plain(st.outcome, None) \in MachineState /\ Plain("Error", None) \in MachineState
            /\ Recovering("Cleanup", << >>, st.outcome, FALSE) \in MachineState
        BY <1>3, <1>4, <4>1, RecoveringType
      <4>3. [st EXCEPT !.retried = TRUE] \in MachineState
        BY DEF TypeOK, MachineState
      <4>4. st.current \in Command
        BY <4>1 DEF Command
      <4> QED
        BY <1>2, <1>9, <3>2, <4>2, <4>3, <4>4 DEF Recovers
    <3> QED
      BY <1>9, <3>1, <3>2 DEF Recovers
  <2> QED
    BY <1>1, <2>1, <2>2, BecomesTyped DEF TaskTypes
<1>10. CASE Notes
  BY <1>1, <1>10 DEF Notes, TaskTypes
<1>11. CASE Dozes
  <2>1. wait' \in [at : Int, cause : StopCause \cup {None}]
    <3>1. CASE wait' = Awake
      BY <3>1 DEF Awake, Asleep, Never
    <3>2. CASE wait' = NextStop
      BY <3>2, NextStopIs
    <3> QED
      BY <1>11, <3>1, <3>2 DEF Dozes
  <2> QED
    BY <1>1, <1>11, <2>1 DEF Dozes, TaskTypes
<1> QED
  BY <1>5, <1>6, <1>7, <1>8, <1>9, <1>10, <1>11 DEF TaskMove

(* The backoff stays between a second and its cap.                          *)
LEMMA BackoffTyped ==
  ASSUME TypeOK, BackOff
  PROVE  retry' \in Int /\ backoff' \in Second..BackoffCap
<1>1. PICK b \in Second..BackoffCap : b = backoff
  BY DEF TypeOK
<1>2. b \in Int /\ 2 * b \in Int /\ 2 * b >= Second /\ BackoffCap >= Second /\ BackoffCap \in Int
  BY TheTimes
<1>3. /\ Min({2 * b, BackoffCap, BackoffCap}) \in {2 * b, BackoffCap}
      /\ Min({2 * b, BackoffCap, BackoffCap}) <= BackoffCap
  BY <1>2, LeastOfThree
<1>4. NextBackoff = Min({2 * b, BackoffCap, BackoffCap})
  BY <1>1 DEF NextBackoff
<1>5. backoff' = NextBackoff /\ retry' = now + b
  BY <1>1 DEF BackOff
<1>6. now \in Int
  BY TheTimes DEF TypeOK, Time
<1>7. PICK m : m = NextBackoff
  OBVIOUS
<1>8. m \in {2 * b, BackoffCap} /\ m <= BackoffCap
  BY <1>3, <1>4, <1>7
<1>9. m \in Second..BackoffCap
  BY <1>2, <1>8, TheTimes
<1> QED
  BY <1>2, <1>5, <1>6, <1>7, <1>9

(* What the network and the session may change.                             *)
SessionTypes ==
  /\ {news, link} \subseteq BOOLEAN /\ retry \in Int
  /\ conn \in [lost : BOOLEAN, since : Time]
  /\ backoff \in Second..BackoffCap
  /\ silence \in [since : Instant, from : Instant, to : Instant]
  /\ breaks \in 0..MaxBreaks

(* The silence stays a silence.                                             *)
LEMMA SilenceTyped ==
  ASSUME TypeOK, FallsSilent \/ SpeaksAgain \/ Past \/ UNCHANGED silence
  PROVE  silence' \in [since : Instant, from : Instant, to : Instant]
<1>1. /\ now \in Instant /\ Never \in Instant
      /\ silence \in [since : Instant, from : Instant, to : Instant]
  BY DEF TypeOK, Instant
<1>2. CASE Past
  BY <1>1, <1>2 DEF Past
<1>3. CASE FallsSilent
  BY <1>1, <1>3 DEF FallsSilent
<1>4. CASE SpeaksAgain
  BY <1>1, <1>4 DEF SpeaksAgain
<1> QED
  BY <1>1, <1>2, <1>3, <1>4

(* Every step of the session.                                               *)
LEMMA SessionTyped ==
  ASSUME TypeOK, Cut \/ Heal \/ SessionEnds \/ AttemptFails \/ Registers
  PROVE  SessionTypes'
<1>1. /\ SessionTypes /\ now \in Time
  BY DEF TypeOK, SessionTypes
<1>2. silence' \in [since : Instant, from : Instant, to : Instant]
  BY SilenceTyped DEF Cut, Heal, SessionEnds, AttemptFails, Registers
<1>3. breaks' \in 0..MaxBreaks
  <2>1. CASE breaks < MaxBreaks /\ breaks' = breaks + 1
    BY <1>1, <2>1, TheTimes DEF SessionTypes
  <2>2. CASE UNCHANGED breaks
    BY <1>1, <2>2 DEF SessionTypes
  <2> QED
    BY <2>1, <2>2 DEF Cut, Heal, SessionEnds, AttemptFails, Registers
<1>4. retry' \in Int /\ backoff' \in Second..BackoffCap
  <2>1. Second \in Second..BackoffCap
    BY TheTimes
  <2>2. CASE BackOff
    BY <2>2, BackoffTyped
  <2>3. CASE backoff' = Second /\ retry' = retry
    BY <1>1, <2>1, <2>3 DEF SessionTypes
  <2>4. CASE UNCHANGED <<backoff, retry>>
    BY <1>1, <2>4 DEF SessionTypes
  <2>5. BackOff \/ (backoff' = Second /\ retry' = retry) \/ UNCHANGED <<backoff, retry>>
    BY DEF Cut, Heal, SessionEnds, AttemptFails, Registers
  <2> QED
    BY <2>2, <2>3, <2>4, <2>5
<1>5. conn' \in [lost : BOOLEAN, since : Time] /\ news' \in BOOLEAN /\ link' \in BOOLEAN
  <2>1. conn \in [lost : BOOLEAN, since : Time] /\ news \in BOOLEAN /\ link \in BOOLEAN
    BY <1>1 DEF SessionTypes
  <2>2. CASE Cut \/ Heal
    BY <2>1, <2>2 DEF Cut, Heal
  <2>3. CASE SessionEnds
    BY <1>1, <2>1, <2>3 DEF SessionEnds
  <2>4. CASE AttemptFails
    BY <2>1, <2>4 DEF AttemptFails
  <2>5. CASE Registers
    BY <2>1, <2>5 DEF Registers
  <2> QED
    BY <2>2, <2>3, <2>4, <2>5
<1> QED
  BY <1>2, <1>3, <1>4, <1>5 DEF SessionTypes

(* The clocks.                                                              *)
ClockTypes ==
  /\ now \in Time /\ minted \in Time /\ expired \in BOOLEAN
  /\ plan \in [ours : Durations, other : Durations, grace : Graces, threshold : Thresholds]

(* The types, cut in three.                                                 *)
LEMMA TypesAre ==
  ASSUME TaskTypes', SessionTypes', ClockTypes', stops' \in 0..MaxStops
  PROVE  TypeOK'
<1>1. Time \subseteq Int /\ Instant \subseteq Int
  BY TheTimes DEF Time, Instant, Never
<1> QED
  BY <1>1 DEF TaskTypes, SessionTypes, ClockTypes, TypeOK

(* Every step keeps the types, with the range of the sleep.                 *)
LEMMA Typed ==
  ASSUME TypeOK, Fits, Armed, [Next]_vars
  PROVE  TypeOK' /\ (wait \in [at : Int, cause : StopCause \cup {None}])'
<1>1. TaskTypes /\ SessionTypes /\ ClockTypes /\ stops \in 0..MaxStops
  BY DEF TypeOK, Fits, TaskTypes, SessionTypes, ClockTypes
<1>2. CASE Receive \/ JournalWritten \/ InvocationEnds \/ Arm \/ Rearm \/ TimerFires
           \/ OperatorAborts
  <2>1. TaskMove
    BY <1>2, TaskMoves
  <2>2. TaskTypes'
    BY <2>1, TaskTyped
  <2>3. /\ UNCHANGED <<now, minted, plan, expired>> /\ stops' \in 0..MaxStops
        /\ UNCHANGED <<conn, backoff, retry, link, silence, breaks>> /\ news' \in BOOLEAN
    BY <2>1 DEF TaskMove, clockVars, sessionVars
  <2>4. SessionTypes' /\ ClockTypes'
    BY <1>1, <2>3 DEF SessionTypes, ClockTypes
  <2> QED
    BY <2>2, <2>3, <2>4, TypesAre DEF TaskTypes
<1>3. CASE Cut \/ Heal \/ SessionEnds \/ AttemptFails \/ Registers
  <2>1. UNCHANGED <<clockVars, taskVars>>
    BY <1>3 DEF Cut, Heal, SessionEnds, AttemptFails, Registers
  <2>2. UNCHANGED <<now, minted, plan, expired, st, start, active, busy, wait, cause, live,
                    tainted, stops>>
    BY <2>1 DEF clockVars, taskVars
  <2>3. TaskTypes' /\ ClockTypes' /\ stops' \in 0..MaxStops
    BY <1>1, <2>2 DEF TaskTypes, ClockTypes
  <2>4. SessionTypes'
    BY <1>3, SessionTyped
  <2> QED
    BY <2>3, <2>4, TypesAre DEF TaskTypes
<1>4. CASE DeadlineExpires \/ Tick \/ UNCHANGED vars
  <2>1. UNCHANGED <<taskVars, conn, backoff, retry, link, breaks, news, minted, plan>>
    BY <1>4 DEF DeadlineExpires, Tick, vars, clockVars, sessionVars
  <2>2. UNCHANGED <<minted, plan, st, start, active, busy, wait, cause, live, tainted, stops,
                    conn, backoff, retry, link, breaks, news>>
    BY <2>1 DEF taskVars
  <2>3. silence' \in [since : Instant, from : Instant, to : Instant]
    BY <1>4, SilenceTyped DEF DeadlineExpires, Tick, vars, sessionVars
  <2>4. TaskTypes' /\ SessionTypes' /\ stops' \in 0..MaxStops
    BY <1>1, <2>2, <2>3 DEF TaskTypes, SessionTypes
  <2>5. now' \in Time /\ expired' \in BOOLEAN
    <3>1. CASE Tick
      BY <1>1, <3>1, TheTimes DEF Tick, ClockTypes, Time
    <3>2. CASE DeadlineExpires \/ UNCHANGED vars
      BY <1>1, <3>2 DEF DeadlineExpires, ClockTypes, vars, clockVars
    <3> QED
      BY <1>4, <3>1, <3>2
  <2>6. ClockTypes'
    BY <1>1, <2>2, <2>5 DEF ClockTypes
  <2> QED
    BY <2>4, <2>6, TypesAre DEF TaskTypes
<1> QED
  BY <1>2, <1>3, <1>4 DEF Next

-----------------------------------------------------------------------------
(***************************************************************************)
(* The moves, field by field.                                              *)
(***************************************************************************)
(* The machine goes to a state of the kind k and asks for c.                *)
Enters(k, c) ==
  /\ st'.kind = k /\ wait' = Awake /\ busy'.command = c
  /\ c # None => busy'.since = now
  /\ k # "Active" => active' = active

(* The machine enters a recovery.                                           *)
EntersRecovery ==
  /\ st'.kind = "Recovering" /\ wait' = Awake /\ active' = active
  /\ st'.retried = FALSE /\ st'.current \in {"Abort", "Cleanup"}
  /\ busy'.command = st'.current /\ busy'.since = now

(* A state without recovery bookkeeping.                                    *)
LEMMA EntersPlain ==
  ASSUME NEW k, NEW c, Becomes(Plain(k, None), c)
  PROVE  /\ Enters(k, c)
         /\ k = "Active" /\ active = Never => active' = now
  BY DEF Becomes, Enters, Plain, NotBusy

(* A recovery, by its fields.                                               *)
LEMMA EntersOne ==
  ASSUME NEW s, s.kind = "Recovering", s.retried = FALSE, s.current \in {"Abort", "Cleanup"},
         Becomes(s, s.current)
  PROVE  EntersRecovery
<1>1. s.current # None /\ s.kind # "Active"
  BY DEF None
<1> QED
  BY <1>1 DEF Becomes, EntersRecovery, NotBusy

(* Any recovery a stop or a failed inject begins.                           *)
LEMMA EntersSome ==
  ASSUME \E s \in Recoveries : Becomes(s, s.current)
  PROVE  EntersRecovery
<1>1. PICK s \in Recoveries : Becomes(s, s.current)
  OBVIOUS
<1>2. s.kind = "Recovering" /\ s.retried = FALSE /\ s.current \in {"Abort", "Cleanup"}
  BY DEF Recoveries, MachineState
<1> QED
  BY <1>1, <1>2, EntersOne

(* The order is received.                                                   *)
LEMMA BeginsIs ==
  ASSUME Begins
  PROVE  /\ st.kind = "Pending" /\ Enters("PreflightInstall", "Preflight")
         /\ start' = now /\ Calm
  BY EntersPlain DEF Begins

(* A start advances.                                                        *)
LEMMA AdvancesIs ==
  ASSUME Advances
  PROVE  /\ start' = start /\ tainted' = tainted /\ cause' = cause
         /\ \/ /\ st.kind = "PreflightInstall" /\ live' = live
               /\ Enters("PreflightRuntime", "Preflight")
            \/ /\ st.kind = "PreflightRuntime" /\ live' = live
               /\ Enters("WritingJournal", None)
            \/ /\ st.kind = "WritingJournal" /\ live' = TRUE
               /\ Enters("Injecting", "Inject")
            \/ /\ st.kind = "Injecting" /\ live' = live /\ Enters("Active", None)
               /\ active = Never => active' = now
<1>1. start' = start /\ tainted' = tainted /\ cause' = cause
  BY DEF Advances
<1>2. CASE Becomes(Plain("PreflightRuntime", None), "Preflight")
           /\ st.kind = "PreflightInstall" /\ live' = live
  BY <1>1, <1>2, EntersPlain
<1>3. CASE Becomes(Plain("WritingJournal", None), None)
           /\ st.kind = "PreflightRuntime" /\ live' = live
  BY <1>1, <1>3, EntersPlain
<1>4. CASE Becomes(Plain("Injecting", None), "Inject")
           /\ st.kind = "WritingJournal" /\ live' = TRUE
  BY <1>1, <1>4, EntersPlain
<1>5. CASE Becomes(Plain("Active", None), None) /\ st.kind = "Injecting" /\ live' = live
  BY <1>1, <1>5, EntersPlain
<1> QED
  BY <1>2, <1>3, <1>4, <1>5 DEF Advances

(* A start is given up.                                                     *)
LEMMA GivesUpIs ==
  ASSUME GivesUp
  PROVE  /\ start' = start /\ tainted' = tainted /\ cause' = cause
         /\ st.kind \in {"PreflightInstall", "PreflightRuntime", "WritingJournal", "Injecting"}
         /\ Enters("Aborted", None)
         /\ live' = IF st.kind = "Injecting" THEN FALSE ELSE live
  BY EntersPlain DEF GivesUp

(* A stop is taken.                                                         *)
LEMMA StoppedIs ==
  ASSUME Stopped
  PROVE  /\ st.kind = "Active" /\ EntersRecovery
         /\ \E c \in StopCause : Earned(c) /\ cause' = c
         /\ start' = start /\ live' = live /\ tainted' = tainted
  BY EntersSome DEF Stopped

(* A recovery goes on.                                                      *)
LEMMA RecoversIs ==
  ASSUME TypeOK, Recovers
  PROVE  /\ start' = start /\ cause' = cause
         /\ \/ /\ st.kind = "Injecting" /\ live' = live /\ tainted' = tainted
               /\ EntersRecovery
            \/ /\ st.kind = "Recovering" /\ live' = FALSE /\ tainted' = tainted
               /\ \E k \in Terminal : Enters(k, None)
            \/ /\ st.kind = "Recovering" /\ live' = FALSE /\ tainted' = tainted
               /\ st.remaining # << >> /\ st'.remaining = << >> /\ EntersRecovery
            \/ /\ st.kind = "Recovering" /\ live' = live /\ tainted' = tainted
               /\ ~st.retried /\ st'.retried = TRUE /\ st'.remaining = st.remaining
               /\ st'.current = st.current /\ Enters("Recovering", st.current)
            \/ /\ st.kind = "Recovering" /\ live' = live /\ tainted' = TRUE
               /\ Enters("Error", None)
<1>1. start' = start /\ cause' = cause
  BY DEF Recovers
<1>2. CASE /\ st.kind = "Injecting" /\ live' = live /\ tainted' = tainted
           /\ \E s \in Recoveries : Becomes(s, s.current)
  <2>1. EntersRecovery
    BY <1>2, EntersSome
  <2> QED
    BY <1>1, <1>2, <2>1
<1>3. CASE /\ st.kind = "Recovering" /\ live' = FALSE /\ tainted' = tainted
           /\ Becomes(Plain(st.outcome, None), None)
  <2>1. PICK k \in Terminal : k = st.outcome
    BY <1>3 DEF TypeOK, MachineState
  <2>2. Enters(k, None)
    BY <1>3, <2>1, EntersPlain
  <2> QED
    BY <1>1, <1>3, <2>2
<1>4. CASE /\ st.kind = "Recovering" /\ live' = FALSE /\ tainted' = tainted
           /\ st.remaining # << >>
           /\ Becomes(Recovering("Cleanup", << >>, st.outcome, FALSE), "Cleanup")
  <2>1. PICK s : s = Recovering("Cleanup", << >>, st.outcome, FALSE)
    OBVIOUS
  <2>2. s.kind = "Recovering" /\ s.retried = FALSE /\ s.current = "Cleanup" /\ s.remaining = << >>
    BY <2>1 DEF Recovering
  <2>3. Becomes(s, s.current)
    BY <1>4, <2>1, <2>2
  <2>4. EntersRecovery /\ st' = s
    BY <2>2, <2>3, EntersOne DEF Becomes
  <2> QED
    BY <1>1, <1>4, <2>2, <2>4
<1>5. CASE /\ st.kind = "Recovering" /\ live' = live /\ ~st.retried /\ tainted' = tainted
           /\ Becomes([st EXCEPT !.retried = TRUE], st.current)
  <2>1. PICK s : s = [st EXCEPT !.retried = TRUE]
    OBVIOUS
  <2>2. /\ s.kind = "Recovering" /\ s.retried = TRUE /\ s.current = st.current
        /\ s.remaining = st.remaining
    BY <1>5, <2>1 DEF TypeOK, MachineState
  <2>3. Becomes(s, st.current) /\ st.current # None
    BY <1>5, <2>1 DEF TypeOK, MachineState, None
  <2>4. st' = s /\ Enters("Recovering", st.current)
    BY <2>2, <2>3 DEF Becomes, Enters
  <2> QED
    BY <1>1, <1>5, <2>2, <2>4
<1>6. CASE st.kind = "Recovering" /\ live' = live /\ tainted' = TRUE /\ Becomes(Plain("Error", None), None)
  <2>1. Enters("Error", None)
    BY <1>6, EntersPlain
  <2> QED
    BY <1>1, <1>6, <2>1
<1> QED
  BY <1>2, <1>3, <1>4, <1>5, <1>6 DEF Recovers

-----------------------------------------------------------------------------
(***************************************************************************)
(* What fits, stays.                                                       *)
(***************************************************************************)
(* Kinds are what they are called, and commands are none of the absence.    *)
LEMMA Names ==
  /\ None \notin Command /\ None # "Preflight" /\ None # "Inject"
  /\ PreInject = {"Pending", "PreflightInstall", "PreflightRuntime", "WritingJournal"}
  /\ Opening = {"Pending", "PreflightInstall", "PreflightRuntime", "WritingJournal", "Injecting"}
  /\ Terminal = {"Done", "Aborted", "Error"}
  BY DEF None, Command, PreInject, Opening, Terminal

(* A move of the task.                                                      *)
LEMMA FitsMove ==
  ASSUME TypeOK, Fits, TaskMove, (wait \in [at : Int, cause : StopCause \cup {None}])'
  PROVE  Fits'
<1>1. now \in Int /\ now # Never /\ now' = now /\ start \in Int /\ active \in Int
  BY TheTimes DEF TaskMove, clockVars, TypeOK, Time, Instant, Never
<1>2. CASE Begins
  <2>1. /\ st.kind = "Pending" /\ Enters("PreflightInstall", "Preflight")
        /\ start' = now /\ Calm
    BY <1>2, BeginsIs
  <2> QED
    BY <1>1, <2>1, Names DEF Fits, Enters, Calm, Runs
<1>3. CASE Advances
  <2>1. start' = start /\ cause' = cause
    BY <1>3, AdvancesIs
  <2>2. CASE st.kind = "PreflightInstall" /\ live' = live /\ Enters("PreflightRuntime", "Preflight")
    BY <1>1, <2>1, <2>2, Names DEF Fits, Enters, Runs
  <2>3. CASE st.kind = "PreflightRuntime" /\ live' = live /\ Enters("WritingJournal", None)
    BY <1>1, <2>1, <2>3, Names DEF Fits, Enters, Runs
  <2>4. CASE st.kind = "WritingJournal" /\ live' = TRUE /\ Enters("Injecting", "Inject")
    BY <1>1, <2>1, <2>4, Names DEF Fits, Enters, Runs
  <2>5. CASE st.kind = "Injecting" /\ live' = live /\ Enters("Active", None)
             /\ (active = Never => active' = now)
    BY <1>1, <2>1, <2>5, Names DEF Fits, Enters, Runs
  <2> QED
    BY <1>3, <2>2, <2>3, <2>4, <2>5, AdvancesIs
<1>4. CASE GivesUp
  <2>1. /\ start' = start /\ cause' = cause /\ Enters("Aborted", None)
        /\ st.kind \in {"PreflightInstall", "PreflightRuntime", "WritingJournal", "Injecting"}
    BY <1>4, GivesUpIs
  <2> QED
    BY <1>1, <2>1, Names DEF Fits, Enters, Runs
<1>5. CASE Stopped
  <2>1. start' = start /\ EntersRecovery /\ st.kind = "Active"
    BY <1>5, StoppedIs
  <2> QED
    BY <1>1, <2>1, Names DEF Fits, EntersRecovery, Runs
<1>6. CASE Recovers
  <2>1. start' = start /\ st.kind \in {"Injecting", "Recovering"}
    BY <1>6 DEF Recovers
  <2>2. CASE EntersRecovery
    BY <1>1, <2>1, <2>2, Names DEF Fits, EntersRecovery, Runs
  <2>3. CASE \E k \in Terminal : Enters(k, None)
    BY <1>1, <2>1, <2>3, Names DEF Fits, Enters, Runs
  <2>4. CASE st'.current = st.current /\ Enters("Recovering", st.current)
    BY <1>1, <2>1, <2>4, Names DEF Fits, Enters, Runs
  <2>5. "Error" \in Terminal
    BY DEF Terminal
  <2> QED
    BY <1>6, <2>2, <2>3, <2>4, <2>5, RecoversIs
<1>7. CASE Notes
  <2>1. Runs(st') = Runs(st)
    BY <1>7 DEF Notes, Runs
  <2> QED
    BY <1>1, <1>7, <2>1, Names DEF Fits, Notes
<1>8. CASE Dozes
  BY <1>1, <1>8, Names DEF Fits, Dozes
<1> QED
  BY <1>2, <1>3, <1>4, <1>5, <1>6, <1>7, <1>8 DEF TaskMove

(* Any other step, which leaves the task alone and lets at most time pass.  *)
LEMMA FitsElse ==
  ASSUME TypeOK, Fits, UNCHANGED taskVars, now' \in {now, now + 1}
  PROVE  Fits'
<1>1. now \in Int /\ start \in Int /\ active \in Int
  BY TheTimes DEF TypeOK, Time, Instant, Never
<1>2. UNCHANGED <<st, start, active, busy, wait, cause, live>>
  BY DEF taskVars
<1>3. start <= now' /\ active <= now'
  BY <1>1 DEF Fits
<1>4. Runs(st') = Runs(st)
  BY <1>2
<1> QED
  BY <1>2, <1>3, <1>4 DEF Fits

-----------------------------------------------------------------------------
(***************************************************************************)
(* The three commands of a start, and every other, are prompt.             *)
(***************************************************************************)
(* The numbers.                                                             *)
LEMMA Numbers ==
  ASSUME TypeOK
  PROVE  /\ now \in Int /\ now >= 0 /\ start \in Int /\ active \in Int /\ busy.since \in Int
         /\ conn.since \in Int /\ silence.since \in Int /\ silence.from \in Int /\ silence.to \in Int
         /\ LongestRun \in Int /\ LongestRun > 0 /\ Notice \in Int /\ Never = -1
  BY TheTimes DEF TypeOK, Time, Instant, Never

(* A move of the task.                                                      *)
LEMMA PromptMove ==
  ASSUME TypeOK, Fits, Prompt, TaskMove
  PROVE  Prompt'
<1>1. now' = now
  BY DEF TaskMove, clockVars
<1>2. busy.command = Runs(st)
  BY DEF Fits
<1>3. CASE Begins
  <2>1. /\ st.kind = "Pending" /\ Enters("PreflightInstall", "Preflight") /\ start' = now
    BY <1>3, BeginsIs
  <2>2. active' = Never
    BY <2>1, Names DEF Enters, Fits
  <2> QED
    BY <1>1, <2>1, <2>2, Numbers, Names DEF Prompt, Enters
<1>4. CASE Advances
  <2>1. start' = start
    BY <1>4, AdvancesIs
  <2>2. CASE st.kind = "PreflightInstall" /\ Enters("PreflightRuntime", "Preflight")
    <3>1. busy.command # None
      BY <1>2, <2>2, Names DEF Runs, None
    <3>2. now <= start + LongestRun /\ active' = active
      BY <2>2, <3>1, Numbers DEF Prompt, Enters
    <3> QED
      BY <1>1, <2>1, <2>2, <3>2, Numbers, Names DEF Prompt, Enters
  <2>3. CASE st.kind = "PreflightRuntime" /\ Enters("WritingJournal", None)
    <3>1. busy.command # None
      BY <1>2, <2>3, Names DEF Runs, None
    <3>2. now <= start + 2 * LongestRun /\ active' = active
      BY <2>3, <3>1, Numbers DEF Prompt, Enters
    <3> QED
      BY <1>1, <2>1, <2>3, <3>2, Numbers DEF Prompt, Enters
  <2>4. CASE st.kind = "WritingJournal" /\ Enters("Injecting", "Inject")
    <3>1. now <= start + 2 * LongestRun /\ active' = active
      BY <2>4 DEF Prompt, Enters
    <3> QED
      BY <1>1, <2>1, <2>4, <3>1, Numbers, Names DEF Prompt, Enters
  <2>5. CASE st.kind = "Injecting" /\ Enters("Active", None) /\ (active = Never => active' = now)
    <3>1. busy.command # None /\ active = Never
      BY <1>2, <2>5, Names DEF Runs, None, Fits
    <3>2. now <= start + 3 * LongestRun /\ active' = now
      BY <2>5, <3>1, Numbers DEF Prompt
    <3> QED
      BY <1>1, <2>1, <2>5, <3>2, Numbers DEF Prompt, Enters
  <2> QED
    BY <1>4, <2>2, <2>3, <2>4, <2>5, AdvancesIs
<1>5. CASE GivesUp
  <2>1. start' = start /\ Enters("Aborted", None)
    BY <1>5, GivesUpIs
  <2> QED
    BY <1>1, <2>1, Numbers DEF Prompt, Enters
<1>6. CASE Stopped \/ Recovers
  <2>1. start' = start /\ (EntersRecovery \/ (\E k \in Terminal \cup {"Recovering"} : \E c : Enters(k, c)))
    <3>1. "Error" \in Terminal
      BY DEF Terminal
    <3> QED
      BY <1>6, <3>1, StoppedIs, RecoversIs
  <2>2. /\ st'.kind \in Terminal \cup {"Recovering"} /\ active' = active
        /\ busy'.command # None => busy'.since = now
    BY <2>1, Names DEF EntersRecovery, Enters
  <2> QED
    BY <1>1, <2>1, <2>2, Numbers, Names DEF Prompt
<1>7. CASE Notes \/ Dozes
  <2>1. UNCHANGED <<start, active, busy>> /\ st'.kind = st.kind
    BY <1>7 DEF Notes, Dozes
  <2> QED
    BY <1>1, <2>1 DEF Prompt
<1> QED
  BY <1>3, <1>4, <1>5, <1>6, <1>7 DEF TaskMove

(* Time passes.                                                             *)
LEMMA PromptTick ==
  ASSUME TypeOK, Prompt, Tick
  PROVE  Prompt'
<1>1. /\ now' = now + 1 /\ st.kind # "WritingJournal"
      /\ busy.command # None => now - busy.since < LongestRun
  BY Numbers DEF Tick, Due
<1>2. UNCHANGED <<st, start, active, busy>>
  BY DEF Tick, taskVars
<1> QED
  BY <1>1, <1>2, Numbers DEF Prompt

-----------------------------------------------------------------------------
(***************************************************************************)
(* What the agent published of the silence of the master.                  *)
(***************************************************************************)
(* A move of the task: nothing is watched again that was not.               *)
LEMMA HeardMove ==
  ASSUME TypeOK, Heard, TaskMove
  PROVE  Heard'
<1>1. UNCHANGED <<now, conn, link, silence>>
  BY DEF TaskMove, clockVars, sessionVars
<1>2. Watched' => Watched
  <2>1. CASE Begins \/ Advances \/ GivesUp \/ Stopped
    BY <2>1, Names DEF Begins, Advances, GivesUp, Stopped, Watched, IsTerminal
  <2>2. CASE Recovers
    <3>1. CASE st.kind = "Injecting"
      BY <3>1, Names DEF Watched, IsTerminal
    <3>2. CASE st.kind = "Recovering"
      <4>1. EntersRecovery \/ \E k \in Terminal \cup {"Recovering"} : \E c : Enters(k, c)
        <5>1. "Error" \in Terminal
          BY DEF Terminal
        <5> QED
          BY <2>2, <5>1, RecoversIs
      <4> QED
        BY <4>1 DEF EntersRecovery, Enters, Watched, IsTerminal
    <3> QED
      BY <2>2, <3>1, <3>2 DEF Recovers
  <2>3. CASE Notes \/ Dozes
    BY <2>3 DEF Notes, Dozes, Watched, IsTerminal
  <2> QED
    BY <2>1, <2>2, <2>3 DEF TaskMove
<1> QED
  BY <1>1, <1>2 DEF Heard, Silent

(* A silence that begins.                                                   *)
LEMMA Falls ==
  ASSUME TypeOK, FallsSilent
  PROVE  /\ silence'.from = silence.from /\ silence'.to = silence.to
         /\ silence'.since = IF Silent THEN silence.since ELSE now
  BY DEF FallsSilent, TypeOK, Silent

(* A silence that ends.                                                     *)
LEMMA Speaks ==
  ASSUME TypeOK, SpeaksAgain
  PROVE  /\ silence'.since = Never /\ silence'.to = now
         /\ silence'.from = IF silence.to = now THEN silence.from ELSE silence.since
  BY DEF SpeaksAgain, TypeOK

(* A step of the session.                                                   *)
LEMMA HeardSession ==
  ASSUME TypeOK, Heard, Cut \/ Heal \/ SessionEnds \/ AttemptFails \/ Registers
  PROVE  Heard'
<1>1. UNCHANGED <<clockVars, taskVars>>
  BY DEF Cut, Heal, SessionEnds, AttemptFails, Registers
<1>2. now' = now /\ (Watched' <=> Watched) /\ now # Never
  BY <1>1, Numbers DEF clockVars, taskVars, Watched, IsTerminal
<1>3. CASE Cut
  <2>1. Watched /\ link /\ link' = FALSE /\ conn' = conn /\ FallsSilent
    BY <1>3 DEF Cut
  <2> QED
    BY <1>2, <2>1, Falls, Numbers, TheTimes DEF Heard, Silent
<1>4. CASE Heal
  <2>1. Watched /\ ~link /\ link' = TRUE /\ conn' = conn
    BY <1>4 DEF Heal
  <2>2. CASE conn.lost /\ silence' = silence
    BY <1>2, <2>1, <2>2 DEF Heard, Silent
  <2>3. CASE ~conn.lost /\ SpeaksAgain
    BY <1>2, <2>1, <2>3, Speaks, Numbers DEF Heard, Silent
  <2> QED
    BY <1>4, <2>2, <2>3 DEF Heal
<1>5. CASE SessionEnds
  <2>1. /\ Watched /\ ~conn.lost /\ conn' = [lost |-> TRUE, since |-> now] /\ link' = link
        /\ FallsSilent
    BY <1>5 DEF SessionEnds
  <2> QED
    BY <1>2, <2>1, Falls, Numbers, TheTimes DEF Heard, Silent
<1>6. CASE AttemptFails
  BY <1>2, <1>6 DEF AttemptFails, Heard, Silent
<1>7. CASE Registers
  <2>1. /\ Watched /\ conn.lost /\ link /\ conn' = [conn EXCEPT !.lost = FALSE] /\ link' = link
        /\ SpeaksAgain
    BY <1>7 DEF Registers
  <2>2. conn'.lost = FALSE /\ conn'.since = conn.since
    BY <2>1 DEF TypeOK
  <2> QED
    BY <1>2, <2>1, <2>2, Speaks, Numbers DEF Heard, Silent
<1> QED
  BY <1>3, <1>4, <1>5, <1>6, <1>7

(* Time passes.                                                             *)
LEMMA HeardTick ==
  ASSUME TypeOK, Heard, Tick
  PROVE  Heard'
<1>1. /\ now' = now + 1
      /\ Watched /\ ~link /\ ~conn.lost => now - silence.since < Notice
  BY Numbers DEF Tick, Due
<1>2. UNCHANGED <<st, conn, link>>
  BY DEF Tick, taskVars
<1>3. Watched' <=> Watched
  BY <1>2 DEF Watched, IsTerminal
<1>4. silence'.since = silence.since /\ silence'.from = Never /\ silence'.to = Never
  BY DEF Tick, Past, TypeOK
<1>5. Silent => Never <= silence.since
  BY DEF TypeOK, Instant, Time, Silent, Never
<1> QED
  BY <1>1, <1>2, <1>3, <1>4, <1>5, Numbers DEF Heard, Silent, Never

-----------------------------------------------------------------------------
(***************************************************************************)
(* The sleeper is armed, and in time.                                      *)
(***************************************************************************)
(* The deadlines move only with what they are computed from.                *)
LEMMA DeadlinesKept ==
  /\ UNCHANGED <<plan, start>> => Deadman' = Deadman /\ LatestStop' = LatestStop
  /\ UNCHANGED <<plan, active>> => DurationEnd' = DurationEnd
<1>1. UNCHANGED <<plan, start>> => Deadman' = Deadman
  BY DEF Deadman
<1>2. UNCHANGED <<plan, start>> => LatestStop' = LatestStop
  BY <1>1 DEF LatestStop, Later
<1>3. UNCHANGED <<plan, active>> => DurationEnd' = DurationEnd
  BY DEF DurationEnd
<1> QED
  BY <1>1, <1>2, <1>3

(* The next stop moves only with what it is chosen from.                    *)
LEMMA NextStopKept ==
  ASSUME UNCHANGED <<plan, start, active, conn>>
  PROVE  NextStop' = NextStop
<1>1. Deadman' = Deadman /\ DurationEnd' = DurationEnd
  BY DeadlinesKept
<1>2. Stops' = Stops
  BY <1>1 DEF Stops
<1> QED
  BY <1>2 DEF NextStop

(* A move of the task.                                                      *)
LEMMA ArmedMove ==
  ASSUME TypeOK, Fits, Armed, TaskMove
  PROVE  Armed'
<1>1. UNCHANGED <<now, plan, conn, silence>>
  BY DEF TaskMove, clockVars, sessionVars
<1>2. CASE wait' = Awake
  BY <1>2 DEF Armed, Awake
<1>3. CASE Notes
  <2>1. UNCHANGED <<start, active, wait, news>>
    BY <1>3 DEF Notes
  <2>2. NextStop' = NextStop /\ Deadman' = Deadman /\ DurationEnd' = DurationEnd
    BY <1>1, <2>1, NextStopKept, DeadlinesKept
  <2> QED
    BY <1>1, <2>1, <2>2 DEF Armed, Awake
<1>4. CASE Dozes /\ wait' = NextStop
  <2>1. UNCHANGED <<start, active>>
    BY <1>4 DEF Dozes
  <2>2. NextStop' = NextStop /\ Deadman' = Deadman /\ DurationEnd' = DurationEnd
    BY <1>1, <2>1, NextStopKept, DeadlinesKept
  <2>3. \/ wait'.cause = "DurationElapsed" /\ wait'.at = DurationEnd
        \/ wait'.cause = "Deadman" /\ wait'.at = Deadman /\ Deadman < DurationEnd
        \/ wait'.cause = "MasterLost" /\ conn.lost /\ wait'.at = conn.since + plan.threshold
    BY <1>4, NextStopIs
  <2> QED
    BY <1>1, <1>4, <2>2, <2>3 DEF Armed
<1>5. wait' = Awake \/ Notes \/ (Dozes /\ wait' = NextStop)
  BY DEF TaskMove, Begins, Advances, GivesUp, Stopped, Recovers, Dozes, Becomes
<1> QED
  BY <1>2, <1>3, <1>4, <1>5

(* A step of the session.                                                   *)
LEMMA ArmedSession ==
  ASSUME TypeOK, Fits, Heard, Armed, Cut \/ Heal \/ SessionEnds \/ AttemptFails \/ Registers
  PROVE  Armed'
<1>1. UNCHANGED <<now, plan, st, start, active, wait>>
  BY DEF Cut, Heal, SessionEnds, AttemptFails, Registers, clockVars, taskVars
<1>2. Deadman' = Deadman /\ DurationEnd' = DurationEnd
  BY <1>1, DeadlinesKept
<1> SUFFICES ASSUME wait # Awake
             PROVE  Armed'
  BY <1>1 DEF Armed, Awake
<1>3. news' \/ wait' = NextStop'
  <2>1. CASE Cut \/ Heal \/ AttemptFails
    <3>1. UNCHANGED <<conn, news>>
      BY <2>1 DEF Cut, Heal, AttemptFails
    <3>2. NextStop' = NextStop
      BY <1>1, <3>1, NextStopKept
    <3> QED
      BY <1>1, <3>1, <3>2 DEF Armed
  <2>2. CASE SessionEnds \/ Registers
    BY <2>2 DEF SessionEnds, Registers
  <2> QED
    BY <2>1, <2>2
<1>4. CASE wait.cause \in {"DurationElapsed", "Deadman"}
  BY <1>1, <1>2, <1>3, <1>4 DEF Armed
<1>5. CASE wait.cause \notin {"DurationElapsed", "Deadman"}
  <2>1. wait.cause = "MasterLost" /\ wait.at \in Int /\ plan.threshold \in Int
    BY <1>5, StopInstants DEF Armed, Fits
  <2>2. SUFFICES \/ conn'.lost /\ wait.at = conn'.since + plan.threshold
                 \/ news' /\ silence'.to = now /\ silence'.from + plan.threshold <= wait.at
    BY <1>1, <1>3, <2>1 DEF Armed
  <2>3. CASE conn.lost /\ wait.at = conn.since + plan.threshold
    <3>1. CASE Cut \/ Heal \/ AttemptFails
      BY <2>3, <3>1 DEF Cut, Heal, AttemptFails
    <3>2. CASE SessionEnds
      BY <2>3, <3>2 DEF SessionEnds
    <3>3. CASE Registers
      <4>1. Watched /\ SpeaksAgain /\ news'
        BY <3>3 DEF Registers
      <4>2. silence.from <= conn.since /\ silence.since <= conn.since
        BY <2>3, <4>1, Numbers DEF Heard
      <4>3. silence'.to = now /\ silence'.from \in {silence.from, silence.since}
        BY <4>1, Speaks
      <4>4. silence'.from + plan.threshold <= wait.at
        BY <2>1, <2>3, <4>2, <4>3, Numbers
      <4> QED
        BY <4>1, <4>3, <4>4
    <3> QED
      BY <3>1, <3>2, <3>3
  <2>4. CASE news /\ silence.to = now /\ silence.from + plan.threshold <= wait.at
    <3>1. news'
      BY <2>4 DEF Cut, Heal, SessionEnds, AttemptFails, Registers
    <3>2. silence'.to = now /\ silence'.from = silence.from
      <4>1. FallsSilent \/ SpeaksAgain \/ UNCHANGED silence
        BY DEF Cut, Heal, SessionEnds, AttemptFails, Registers
      <4> QED
        BY <2>4, <4>1, Falls, Speaks
    <3> QED
      BY <2>4, <3>1, <3>2
  <2> QED
    BY <1>5, <2>3, <2>4 DEF Armed
<1> QED
  BY <1>4, <1>5

(* What ~Due says of an instance that is active.                            *)
LEMMA NotDue ==
  ASSUME TypeOK, Fits, Armed, Tick, st.kind = "Active"
  PROVE  wait # Awake /\ ~news /\ wait = NextStop /\ now < wait.at
<1>1. wait # Awake /\ ~news /\ ~(now >= wait.at)
  BY DEF Tick, Due, Woken
<1>2. wait.at \in Int
  BY DEF Fits
<1> QED
  BY <1>1, <1>2, Numbers DEF Armed

(* Time passes.                                                             *)
LEMMA ArmedTick ==
  ASSUME TypeOK, Fits, Armed, Tick
  PROVE  Armed'
<1>1. UNCHANGED <<plan, st, start, active, wait, conn, news>>
  BY DEF Tick, taskVars
<1> SUFFICES ASSUME wait # Awake
             PROVE  Armed'
  BY <1>1 DEF Armed, Awake
<1>2. ~news
  BY NotDue DEF Fits
<1>3. NextStop' = NextStop /\ Deadman' = Deadman /\ DurationEnd' = DurationEnd
  BY <1>1, NextStopKept, DeadlinesKept
<1> QED
  BY <1>1, <1>2, <1>3 DEF Armed

(* A move of the task.                                                      *)
LEMMA InTimeMove ==
  ASSUME TypeOK, Fits, InTime, TaskMove
  PROVE  InTime'
<1>1. UNCHANGED <<now, plan, conn>>
  BY DEF TaskMove, clockVars, sessionVars
<1> SUFFICES ASSUME st'.kind = "Active"
             PROVE  InTime'
  BY DEF InTime
<1>2. CASE Notes \/ Dozes
  <2>1. UNCHANGED <<start, active>> /\ st.kind = "Active"
    BY <1>2 DEF Notes, Dozes
  <2>2. Deadman' = Deadman /\ DurationEnd' = DurationEnd
    BY <1>1, <2>1, DeadlinesKept
  <2> QED
    BY <1>1, <2>1, <2>2 DEF InTime, Later
<1>3. CASE Advances
  <2>1. start' = start /\ active' = now
    BY <1>3, AdvancesIs DEF Enters, Fits, Opening
  <2>2. Deadman' = Deadman
    BY <1>1, <2>1, DeadlinesKept
  <2>3. PICK p \in Nat : p = plan.ours * Second
    BY StopInstants, TheTimes
  <2>4. DurationEnd' = now + p
    BY <1>1, <2>1, <2>3 DEF DurationEnd
  <2>5. now <= DurationEnd'
    BY <2>4, Numbers
  <2>6. PICK d \in Int : d = Deadman
    BY StopInstants
  <2>7. now <= Later(d, now)
    BY LaterIs, Numbers
  <2>8. PICK t \in Int : t = conn.since + plan.threshold
    BY StopInstants
  <2>9. now <= Later(t, now)
    BY LaterIs, Numbers
  <2> QED
    BY <1>1, <2>1, <2>2, <2>5, <2>6, <2>7, <2>8, <2>9 DEF InTime, Later
<1>4. CASE Begins \/ GivesUp \/ Stopped \/ Recovers
  <2>1. EntersRecovery \/ \E k \in {"PreflightInstall", "Recovering", "Done", "Aborted", "Error"} :
                            \E c : Enters(k, c)
    BY <1>4, BeginsIs, GivesUpIs, StoppedIs, RecoversIs, Names
  <2> QED
    BY <2>1 DEF EntersRecovery, Enters
<1> QED
  BY <1>2, <1>3, <1>4 DEF TaskMove

(* A step of the session.                                                   *)
LEMMA InTimeSession ==
  ASSUME TypeOK, InTime, Cut \/ Heal \/ SessionEnds \/ AttemptFails \/ Registers
  PROVE  InTime'
<1>1. UNCHANGED <<now, plan, st, start, active>>
  BY DEF Cut, Heal, SessionEnds, AttemptFails, Registers, clockVars, taskVars
<1>2. Deadman' = Deadman /\ DurationEnd' = DurationEnd
  BY <1>1, DeadlinesKept
<1>3. CASE conn' = conn \/ ~conn'.lost
  BY <1>1, <1>2, <1>3 DEF InTime, Later
<1>4. CASE conn'.since = now
  <2>1. PICK t \in Int : t = now + plan.threshold
    BY StopInstants, Numbers
  <2>2. PICK a \in Int : a = active
    BY Numbers
  <2>3. t >= now
    BY <2>1, StopInstants, Numbers
  <2>4. now <= Later(t, a)
    BY <2>3, LaterIs, Numbers
  <2> QED
    BY <1>1, <1>2, <1>4, <2>1, <2>2, <2>4 DEF InTime, Later
<1>5. (conn' = conn \/ ~conn'.lost) \/ conn'.since = now
  <2>1. CASE Registers
    BY <2>1 DEF Registers, TypeOK
  <2> QED
    BY <2>1 DEF Cut, Heal, SessionEnds, AttemptFails
<1> QED
  BY <1>3, <1>4, <1>5

(* Time passes, but not over the next stop.                                 *)
LEMMA InTimeTick ==
  ASSUME TypeOK, Fits, Armed, Tick
  PROVE  InTime'
<1>1. UNCHANGED <<plan, st, start, active, conn>> /\ now' = now + 1
  BY DEF Tick, taskVars, sessionVars
<1> SUFFICES ASSUME st.kind = "Active"
             PROVE  InTime'
  BY <1>1 DEF InTime
<1>2. Deadman' = Deadman /\ DurationEnd' = DurationEnd
  BY <1>1, DeadlinesKept
<1>3. PICK n \in Int : n = NextStop.at
  BY NextStopIs
<1>4. /\ n <= DurationEnd /\ n <= Deadman /\ now + 1 <= n
      /\ conn.lost => n <= conn.since + plan.threshold
  BY <1>3, NotDue, NextStopIs, Numbers
<1>5. PICK d \in Int, t \in Int, a \in Int :
        d = Deadman /\ t = conn.since + plan.threshold /\ a = active
  BY StopInstants
<1>6. Later(d, a) >= d /\ Later(t, a) >= t /\ Later(d, a) \in Int /\ Later(t, a) \in Int
  BY LaterIs
<1>7. now + 1 <= DurationEnd
  BY <1>4, StopInstants, Numbers
<1>8. now + 1 <= Later(d, a)
  BY <1>4, <1>5, <1>6, Numbers
<1>9. conn.lost => now + 1 <= Later(t, a)
  BY <1>4, <1>5, <1>6, Numbers
<1> QED
  BY <1>1, <1>2, <1>5, <1>7, <1>8, <1>9 DEF InTime, Later

-----------------------------------------------------------------------------
(***************************************************************************)
(* The recovery.                                                           *)
(***************************************************************************)
(* The latest stop is no earlier than either of its bounds.                 *)
LEMMA LatestIs ==
  ASSUME TypeOK
  PROVE  LatestStop \in Int /\ LatestStop >= Deadman /\ LatestStop >= start + 3 * LongestRun
<1>1. PICK d \in Int, t \in Int : d = Deadman /\ t = start + 3 * LongestRun
  BY StopInstants, Numbers
<1>2. Later(d, t) >= d /\ Later(d, t) >= t /\ Later(d, t) \in Int
  BY LaterIs
<1> QED
  BY <1>1, <1>2 DEF LatestStop

(* An instance that is not over yet is in time for its latest stop.         *)
LEMMA StartsInTime ==
  ASSUME TypeOK, Fits, Prompt, InTime,
         st.kind \in {"PreflightInstall", "PreflightRuntime", "WritingJournal", "Injecting", "Active"}
  PROVE  now <= LatestStop
<1>1. st.kind # "Active" => now <= start + 3 * LongestRun
  <2>1. CASE st.kind = "PreflightInstall"
    BY <2>1, Names, Numbers DEF Fits, Runs, Prompt
  <2>2. CASE st.kind = "PreflightRuntime"
    BY <2>2, Names, Numbers DEF Fits, Runs, Prompt
  <2>3. CASE st.kind = "WritingJournal"
    BY <2>3, Numbers DEF Prompt
  <2>4. CASE st.kind = "Injecting"
    BY <2>4, Names, Numbers DEF Fits, Runs, Prompt
  <2> QED
    BY <2>1, <2>2, <2>3, <2>4
<1>2. CASE st.kind # "Active"
  BY <1>1, <1>2, LatestIs, Numbers
<1>3. CASE st.kind = "Active"
  <2>1. active <= start + 3 * LongestRun
    BY <1>3 DEF Fits, Prompt
  <2>2. PICK d \in Int, a \in Int : d = Deadman /\ a = active
    BY StopInstants
  <2>3. now <= Later(d, a) /\ Later(d, a) \in {d, a}
    BY <1>3, <2>2, LaterIs DEF InTime
  <2> QED
    BY <2>1, <2>2, <2>3, LatestIs, Numbers
<1> QED
  BY <1>2, <1>3

(* The command of a recovery is in time.                                    *)
LEMMA RecoversInTime ==
  ASSUME TypeOK, Fits, Prompt, Ended, st.kind = "Recovering"
  PROVE  /\ live /\ ~st.retried => busy.since <= LatestStop /\ now <= LatestStop + LongestRun
         /\ live /\ st.retried => now <= LatestStop + 2 * LongestRun
         /\ ~live /\ ~st.retried =>
              busy.since <= LatestStop + 2 * LongestRun /\ now <= LatestStop + 3 * LongestRun
         /\ ~live /\ st.retried => now <= LatestStop + 4 * LongestRun
         /\ ~live => st.remaining = << >>
<1>1. busy.command # None
  BY DEF Fits, Runs, TypeOK, MachineState, None
<1>2. now <= busy.since + LongestRun
  BY <1>1 DEF Prompt
<1>3. /\ live /\ ~st.retried => busy.since <= LatestStop
      /\ live /\ st.retried => busy.since <= LatestStop + LongestRun
      /\ ~live /\ ~st.retried => busy.since <= LatestStop + 2 * LongestRun
      /\ ~live /\ st.retried => busy.since <= LatestStop + 3 * LongestRun
      /\ ~live => st.remaining = << >>
  <2>1. CASE live /\ ~st.retried
    BY <2>1, LatestIs, Numbers DEF Ended
  <2>2. CASE live /\ st.retried
    BY <2>2 DEF Ended
  <2>3. CASE ~live /\ ~st.retried
    BY <2>3 DEF Ended
  <2>4. CASE ~live /\ st.retried
    BY <2>4 DEF Ended
  <2> QED
    BY <2>1, <2>2, <2>3, <2>4
<1>4. PICK l \in Int, b \in Int, n \in Int, t \in Int :
        l = LatestStop /\ b = busy.since /\ n = now /\ t = LongestRun
  BY LatestIs, Numbers
<1>5. n <= b + t
  BY <1>2, <1>4
<1>6. /\ b <= l => n <= l + t
      /\ b <= l + t => n <= l + 2 * t
      /\ b <= l + 2 * t => n <= l + 3 * t
      /\ b <= l + 3 * t => n <= l + 4 * t
  BY <1>5
<1> QED
  BY <1>3, <1>4, <1>6

(* A move of the task.                                                      *)
LEMMA EndedMove ==
  ASSUME TypeOK, Fits, Prompt, InTime, Ended, TaskMove
  PROVE  Ended'
<1>1. UNCHANGED <<now, plan>>
  BY DEF TaskMove, clockVars
<1>2. CASE Begins
  <2>1. st'.kind = "PreflightInstall" /\ cause' = cause /\ st.kind = "Pending"
    BY <1>2, BeginsIs DEF Enters, Calm
  <2>2. cause' # "Deadman"
    BY <2>1 DEF Fits, Opening, None
  <2> QED
    BY <2>1, <2>2, Names DEF Ended, IsTerminal
<1>3. CASE Advances
  <2>1. /\ st'.kind \in {"PreflightRuntime", "WritingJournal", "Injecting", "Active"}
        /\ cause' = cause /\ st.kind \in Opening
    BY <1>3, AdvancesIs DEF Enters, Opening
  <2>2. cause' # "Deadman"
    BY <2>1 DEF Fits, None
  <2> QED
    BY <2>1, <2>2, Names DEF Ended, IsTerminal
<1>4. CASE GivesUp
  <2>1. /\ st'.kind = "Aborted" /\ cause' = cause /\ st.kind \in Opening
        /\ live' = IF st.kind = "Injecting" THEN FALSE ELSE live
        /\ st.kind \in {"PreflightInstall", "PreflightRuntime", "WritingJournal", "Injecting"}
    BY <1>4, GivesUpIs DEF Enters, Opening
  <2>2. cause' # "Deadman"
    BY <2>1 DEF Fits, None
  <2>3. ~live'
    BY <2>1, Names DEF Fits
  <2> QED
    BY <2>1, <2>2, <2>3 DEF Ended
<1>5. CASE Stopped
  <2>1. /\ st.kind = "Active" /\ EntersRecovery /\ start' = start /\ live' = live
        /\ cause' = "Deadman" => Deadman < DurationEnd
    BY <1>5, StoppedIs DEF Earned
  <2>2. active' = active /\ st'.kind = "Recovering" /\ st'.retried = FALSE /\ busy'.since = now
    BY <2>1 DEF EntersRecovery
  <2>3. Deadman' = Deadman /\ LatestStop' = LatestStop /\ DurationEnd' = DurationEnd
    BY <1>1, <2>1, <2>2, DeadlinesKept
  <2>4. live' /\ now <= LatestStop + 0
    BY <2>1, StartsInTime, LatestIs, Numbers DEF Fits
  <2> QED
    BY <2>1, <2>2, <2>3, <2>4, Names DEF Ended, IsTerminal
<1>6. CASE Recovers
  <2>1. start' = start /\ cause' = cause
    BY <1>6, RecoversIs
  <2>2. active' = active
    <3>1. EntersRecovery \/ \E k \in Terminal \cup {"Recovering"} : \E c : Enters(k, c)
      <4>1. "Error" \in Terminal
        BY DEF Terminal
      <4> QED
        BY <1>6, <4>1, RecoversIs
    <3> QED
      BY <3>1, Names DEF EntersRecovery, Enters
  <2>3. Deadman' = Deadman /\ LatestStop' = LatestStop /\ DurationEnd' = DurationEnd
    BY <1>1, <2>1, <2>2, DeadlinesKept
  <2>4. cause' = "Deadman" => Deadman' < DurationEnd'
    BY <2>1, <2>3 DEF Ended
  <2>5. CASE st.kind = "Injecting" /\ live' = live /\ EntersRecovery
    <3>1. live' /\ now <= LatestStop + 0
      BY <2>5, StartsInTime, LatestIs, Numbers DEF Fits
    <3> QED
      BY <2>3, <2>4, <2>5, <3>1, Names DEF EntersRecovery, Ended, IsTerminal
  <2>6. CASE live' = FALSE /\ \E k \in Terminal : Enters(k, None)
    BY <2>4, <2>6, Names DEF Enters, Ended, IsTerminal
  <2>7. CASE /\ st.kind = "Recovering" /\ live' = FALSE
             /\ st.remaining # << >> /\ st'.remaining = << >> /\ EntersRecovery
    <3>1. live
      BY <2>7, RecoversInTime
    <3>2. now <= LatestStop + 2 * LongestRun
      <4>1. LatestStop \in Int /\ now \in Int /\ LongestRun \in Int /\ LongestRun > 0
        BY LatestIs, Numbers
      <4>2. \/ now <= LatestStop + LongestRun
            \/ now <= LatestStop + 2 * LongestRun
        BY <2>7, <3>1, RecoversInTime
      <4> QED
        BY <4>1, <4>2
    <3>3. /\ st'.kind = "Recovering" /\ st'.remaining = << >> /\ busy'.since = now
          /\ live' = FALSE
      BY <2>7, Names DEF EntersRecovery, Enters
    <3>4. busy'.since <= LatestStop' + (IF st'.retried THEN 3 ELSE 2) * LongestRun
      <4>1. LatestStop \in Int /\ now \in Int /\ LongestRun \in Int /\ LongestRun > 0
        BY LatestIs, Numbers
      <4>2. now <= LatestStop + 3 * LongestRun
        BY <3>2, <4>1
      <4> QED
        BY <2>3, <3>2, <3>3, <4>2
    <3> QED
      BY <2>4, <3>3, <3>4 DEF Ended, IsTerminal
  <2>8. CASE /\ st.kind = "Recovering" /\ live' = live
             /\ ~st.retried /\ st'.retried = TRUE /\ st'.remaining = st.remaining
             /\ Enters("Recovering", st.current)
    <3>1. busy'.since = now /\ st'.kind = "Recovering"
      BY <2>8 DEF Enters, TypeOK, MachineState, None
    <3>2. CASE live
      <4>1. now <= LatestStop + LongestRun
        BY <2>8, <3>2, RecoversInTime
      <4> QED
        BY <2>3, <2>4, <2>8, <3>1, <3>2, <4>1, Names DEF Ended, IsTerminal
    <3>3. CASE ~live
      <4>1. now <= LatestStop + 3 * LongestRun /\ st.remaining = << >>
        BY <2>8, <3>3, RecoversInTime
      <4> QED
        BY <2>3, <2>4, <2>8, <3>1, <3>3, <4>1, Names DEF Ended, IsTerminal
    <3> QED
      BY <3>2, <3>3
  <2>9. CASE tainted' = TRUE /\ Enters("Error", None)
    BY <2>4, <2>9, Names DEF Enters, Ended, IsTerminal
  <2> QED
    BY <1>6, <2>5, <2>6, <2>7, <2>8, <2>9, RecoversIs
<1>7. CASE Notes
  <2>1. /\ UNCHANGED <<start, active, busy, cause, live, tainted>> /\ st'.kind = st.kind
        /\ st.kind = "Recovering" => st' = st
    BY <1>7 DEF Notes
  <2>2. Deadman' = Deadman /\ LatestStop' = LatestStop /\ DurationEnd' = DurationEnd
    BY <1>1, <2>1, DeadlinesKept
  <2> QED
    BY <2>1, <2>2 DEF Ended, IsTerminal
<1>8. CASE Dozes
  <2>1. UNCHANGED <<st, start, active, busy, cause, live, tainted>>
    BY <1>8 DEF Dozes
  <2>2. Deadman' = Deadman /\ LatestStop' = LatestStop /\ DurationEnd' = DurationEnd
    BY <1>1, <2>1, DeadlinesKept
  <2> QED
    BY <2>1, <2>2 DEF Ended, IsTerminal
<1> QED
  BY <1>2, <1>3, <1>4, <1>5, <1>6, <1>7, <1>8 DEF TaskMove

(* Any other step.                                                          *)
LEMMA EndedElse ==
  ASSUME Ended, UNCHANGED <<taskVars, plan>>
  PROVE  Ended'
<1>1. UNCHANGED <<st, start, active, busy, cause, live, tainted>>
  BY DEF taskVars
<1>2. Deadman' = Deadman /\ LatestStop' = LatestStop /\ DurationEnd' = DurationEnd
  BY <1>1, DeadlinesKept
<1> QED
  BY <1>1, <1>2 DEF Ended, IsTerminal

-----------------------------------------------------------------------------
(***************************************************************************)
(* The invariant of every reachable state.                                 *)
(***************************************************************************)
(* The invariant at the start.                                              *)
LEMMA TimeInit == Init => TimeInv
<1> SUFFICES ASSUME Init
             PROVE  TimeInv
  OBVIOUS
<1>1. /\ st.kind = "Pending" /\ start = Never /\ active = Never /\ cause = None /\ wait = Awake
      /\ busy.command = None /\ ~conn.lost /\ link /\ ~live /\ ~tainted
      /\ conn.since = 0 /\ silence.since = Never /\ silence.from = Never /\ silence.to = Never
      /\ st \in MachineState
  <2>1. "Pending" \in Kind \ {"Recovering"}
    BY DEF Kind, PreInject, Terminal
  <2>2. Plain("Pending", None) \in MachineState /\ Plain("Pending", None).kind = "Pending"
    BY <2>1, PlainType DEF Plain
  <2> QED
    BY <2>2 DEF Init, NotBusy
<1>2. now \in Time /\ now >= 0 /\ now \in Int /\ Never \in Instant /\ 0 \in Time
  BY TheTimes DEF Init, Time, Instant
<1>3. Awake \in [at : Int, cause : StopCause \cup {None}]
  BY DEF Awake, Asleep, Never
<1>4. TypeOK
  <2>1. Second \in Second..BackoffCap /\ 0 \in 0..MaxStops /\ 0 \in 0..MaxBreaks /\ Never \in Int
    BY TheTimes DEF Never
  <2>2. NotBusy \in [command : Command \cup {None}, since : Time]
    BY <1>2 DEF NotBusy
  <2>3. /\ conn \in [lost : BOOLEAN, since : Time]
        /\ silence \in [since : Instant, from : Instant, to : Instant]
    BY <1>2 DEF Init
  <2>4. Time \subseteq Int
    BY TheTimes DEF Time
  <2>5. {minted, start, active, retry} \subseteq Int /\ minted \in Time
    BY <1>2, <2>1, <2>4 DEF Init
  <2>6. wait.at \in Int /\ {wait.cause, cause} \subseteq StopCause \cup {None}
    BY <1>1, <1>3
  <2> QED
    BY <1>1, <1>2, <2>1, <2>2, <2>3, <2>5, <2>6 DEF Init, TypeOK
<1>5. Fits
  <2>1. Runs(st) = None
    BY <1>1 DEF Runs
  <2>2. start <= now /\ active <= now
    BY <1>1, <1>2 DEF Never
  <2> QED
    BY <1>1, <1>3, <2>1, <2>2 DEF Fits
<1>6. Prompt
  BY <1>1 DEF Prompt
<1>7. Heard
  BY <1>1, <1>2 DEF Heard, Silent, Never
<1>8. Armed /\ InTime
  BY <1>1 DEF Armed, InTime
<1>9. Ended
  BY <1>1 DEF Ended, IsTerminal, Terminal, None
<1> QED
  BY <1>4, <1>5, <1>6, <1>7, <1>8, <1>9 DEF TimeInv

(* Every step keeps the invariant.                                          *)
LEMMA TimeStep ==
  ASSUME TimeInv, [Next]_vars
  PROVE  TimeInv'
<1>1. TypeOK /\ Fits /\ Prompt /\ Heard /\ Armed /\ InTime /\ Ended
  BY DEF TimeInv
<1>2. TypeOK' /\ (wait \in [at : Int, cause : StopCause \cup {None}])'
  BY <1>1, Typed
<1>3. CASE Receive \/ JournalWritten \/ InvocationEnds \/ Arm \/ Rearm \/ TimerFires
           \/ OperatorAborts
  <2>1. TaskMove
    BY <1>1, <1>3, TaskMoves
  <2> QED
    BY <1>1, <1>2, <2>1, FitsMove, PromptMove, HeardMove, ArmedMove, InTimeMove, EndedMove
    DEF TimeInv
<1>4. CASE Cut \/ Heal \/ SessionEnds \/ AttemptFails \/ Registers
  <2>1. UNCHANGED <<now, plan, taskVars>>
    BY <1>4 DEF Cut, Heal, SessionEnds, AttemptFails, Registers, clockVars
  <2>2. Prompt'
    BY <1>1, <2>1 DEF Prompt, taskVars
  <2> QED
    BY <1>1, <1>2, <1>4, <2>1, <2>2, FitsElse, HeardSession, ArmedSession, InTimeSession, EndedElse
    DEF TimeInv
<1>5. CASE Tick
  <2>1. UNCHANGED <<plan, taskVars>> /\ now' = now + 1
    BY <1>5 DEF Tick
  <2> QED
    BY <1>1, <1>2, <1>5, <2>1, FitsElse, PromptTick, HeardTick, ArmedTick, InTimeTick, EndedElse
    DEF TimeInv
<1>6. CASE DeadlineExpires \/ UNCHANGED vars
  <2>1. UNCHANGED <<now, plan, taskVars, conn, link, silence, news>>
    BY <1>6 DEF DeadlineExpires, vars, clockVars, sessionVars
  <2>2. UNCHANGED <<st, start, active, busy, wait, cause, live, tainted>>
    BY <2>1 DEF taskVars
  <2>3. /\ Deadman' = Deadman /\ DurationEnd' = DurationEnd /\ LatestStop' = LatestStop
        /\ NextStop' = NextStop
    BY <2>1, <2>2, DeadlinesKept, NextStopKept
  <2>4. Fits' /\ Ended'
    BY <1>1, <2>1, FitsElse, EndedElse
  <2>5. Prompt'
    BY <1>1, <2>1, <2>2 DEF Prompt
  <2>6. Heard'
    BY <1>1, <2>1, <2>2 DEF Heard, Silent, Watched, IsTerminal
  <2>7. Armed'
    BY <1>1, <2>1, <2>2, <2>3 DEF Armed, Awake
  <2>8. InTime'
    BY <1>1, <2>1, <2>2, <2>3 DEF InTime, Later
  <2> QED
    BY <1>2, <2>4, <2>5, <2>6, <2>7, <2>8 DEF TimeInv
<1> QED
  BY <1>3, <1>4, <1>5, <1>6 DEF Next

(* The invariant holds in every reachable state.                            *)
THEOREM TimeInvariant == Spec => []TimeInv
<1>1. Init => TimeInv
  BY TimeInit
<1>2. TimeInv /\ [Next]_vars => TimeInv'
  BY TimeStep
<1> QED
  BY <1>1, <1>2, PTL DEF Spec

-----------------------------------------------------------------------------
(***************************************************************************)
(* What the instance promises of time.                                     *)
(***************************************************************************)
(* An active fault is never past the end of its duration, its dead-man or   *)
(* the threshold since the master was last heard of (wait_for_stop).        *)
THEOREM FaultsEndInTime == Spec => []NeverLate
<1>1. TimeInv => NeverLate
  <2> SUFFICES ASSUME TimeInv, st.kind = "Active"
               PROVE  /\ now <= DurationEnd
                      /\ now <= Later(Deadman, active)
                      /\ Silent => now <= Later(silence.since + Notice + plan.threshold, active)
    BY DEF NeverLate
  <2>1. TypeOK /\ Heard /\ InTime
    BY DEF TimeInv
  <2>2. Watched
    BY DEF Watched, IsTerminal, Terminal
  <2>3. ASSUME Silent
        PROVE  now <= Later(silence.since + Notice + plan.threshold, active)
    <3>1. PICK c \in Int, s \in Int, a \in Int :
            /\ c = conn.since + plan.threshold /\ a = active
            /\ s = silence.since + Notice + plan.threshold
      BY <2>1, StopInstants, Numbers
    <3>2. /\ Later(c, a) \in {c, a} /\ Later(s, a) >= s /\ Later(s, a) >= a
          /\ Later(s, a) \in {s, a}
      BY LaterIs
    <3>3. CASE conn.lost
      <4>1. now <= Later(c, a)
        BY <2>1, <3>1, <3>3 DEF InTime
      <4>2. c <= s
        BY <2>1, <2>2, <3>1, <3>3, StopInstants, Numbers DEF Heard
      <4>3. now <= Later(s, a)
        BY <2>1, <3>2, <4>1, <4>2, Numbers
      <4> QED
        BY <3>1, <4>3
    <3>4. CASE ~conn.lost
      <4>1. now <= silence.since + Notice
        BY <2>1, <2>2, <2>3, <3>4 DEF Heard
      <4>2. now <= s
        BY <2>1, <3>1, <4>1, StopInstants, Numbers
      <4>3. now <= Later(s, a)
        BY <2>1, <3>2, <4>2, Numbers
      <4> QED
        BY <3>1, <4>3
    <3> QED
      BY <3>3, <3>4
  <2> QED
    BY <2>1, <2>3 DEF InTime
<1> QED
  BY <1>1, TimeInvariant, PTL

(* The dead-man fires in Active only if the fault became active later than  *)
(* the grace after the whole second of the start (the ties of next_stop,    *)
(* the rounding of deadline_unix), and every variable stays in its range.   *)
THEOREM OnlyALateStartMeetsTheDeadman == Spec => []TimersSound
<1>1. TimeInv => TimersSound
  <2> SUFFICES ASSUME TimeInv, cause = "Deadman"
               PROVE  active > (start \div Second + plan.grace) * Second
    BY DEF TimersSound, DeadmanMeansLateStart, TimeInv
  <2>1. TypeOK /\ Deadman < DurationEnd
    BY DEF TimeInv, Ended
  <2>2. PICK o \in Int, g \in Int, s \in Int, k \in Int, a \in Int :
          /\ o = plan.ours /\ g = plan.grace /\ s = Second /\ k = start \div Second /\ a = active
    BY <2>1, StopInstants, TheTimes
  <2>3. (k + o + g) * s < a + o * s
    BY <2>1, <2>2 DEF Deadman, DurationEnd
  <2>4. (k + o + g) * s = (k + g) * s + o * s
    OBVIOUS
  <2>5. a > (k + g) * s
    BY <2>3, <2>4
  <2> QED
    BY <2>2, <2>5
<1> QED
  BY <1>1, TimeInvariant, PTL

(* A stop is earned at the moment it fires: a master heard of before the    *)
(* threshold never stops an instance (wait_for_stop, next_stop).            *)
THEOREM EveryStopIsEarned == Spec => StopsEarned
<1>1. ASSUME TimeInv, [Next]_vars, st.kind = "Active", st'.kind = "Recovering"
      PROVE  /\ cause' = "DurationElapsed" => now >= DurationEnd
             /\ cause' = "Deadman" => now >= Deadman
             /\ cause' = "MasterLost" =>
                  \/ Silent /\ now - silence.since >= plan.threshold
                  \/ silence.to = now /\ now - silence.from >= plan.threshold
  <2>1. TypeOK /\ Fits /\ Heard /\ Armed
    BY <1>1 DEF TimeInv
  <2>2. Watched
    BY <1>1 DEF Watched, IsTerminal, Terminal
  <2>3. TaskMove
    <3>1. ~UNCHANGED st
      BY <1>1
    <3>2. ~(Cut \/ Heal \/ SessionEnds \/ AttemptFails \/ Registers \/ DeadlineExpires \/ Tick
            \/ UNCHANGED vars)
      BY <3>1 DEF Cut, Heal, SessionEnds, AttemptFails, Registers, DeadlineExpires, Tick,
                  taskVars, vars
    <3> QED
      BY <1>1, <2>1, <3>2, TaskMoves DEF Next
  <2>4. Stopped
    BY <1>1, <2>3 DEF TaskMove, Begins, Advances, GivesUp, Recovers, Notes, Dozes
  <2>5. PICK c \in StopCause : Earned(c) /\ cause' = c
    BY <2>4, StoppedIs
  <2>6. CASE c = "MasterLost" /\ conn.lost /\ now >= conn.since + plan.threshold
    <3>1. Silent /\ silence.since <= conn.since
      BY <2>1, <2>2, <2>6 DEF Heard
    <3>2. now - silence.since >= plan.threshold
      BY <2>1, <2>6, <3>1, Numbers, StopInstants
    <3> QED
      BY <2>5, <2>6, <3>1, <3>2
  <2>7. CASE c = "MasterLost" /\ silence.to = now /\ silence.from + plan.threshold <= now
    <3>1. now - silence.from >= plan.threshold
      BY <2>1, <2>7, Numbers, StopInstants
    <3> QED
      BY <2>5, <2>7, <3>1
  <2>8. CASE c # "MasterLost"
    BY <2>5, <2>8 DEF Earned
  <2> QED
    BY <2>5, <2>6, <2>7, <2>8 DEF Earned
<1>2. TimeInv /\ [Next]_vars =>
        [st.kind = "Active" /\ st'.kind = "Recovering" =>
           /\ cause' = "DurationElapsed" => now >= DurationEnd
           /\ cause' = "Deadman" => now >= Deadman
           /\ cause' = "MasterLost" =>
                \/ Silent /\ now - silence.since >= plan.threshold
                \/ silence.to = now /\ now - silence.from >= plan.threshold]_vars
  BY <1>1
<1> QED
  BY <1>2, TimeInvariant, PTL DEF Spec, StopsEarned

(* Where an instance is, in time.                                           *)
LEMMA InTimeOver == TimeInv => OverInTime
<1> SUFFICES ASSUME TimeInv, start # Never
             PROVE  /\ now > LatestStop + 4 * LongestRun => IsTerminal(st)
                    /\ now > LatestStop + 2 * LongestRun => ~live \/ tainted
  BY DEF OverInTime
<1>1. TypeOK /\ Fits /\ Prompt /\ InTime /\ Ended
  BY DEF TimeInv
<1>2. LatestStop \in Int /\ now \in Int /\ LongestRun \in Int /\ LongestRun > 0
  BY <1>1, LatestIs, Numbers
<1>3. st.kind \in Kind /\ st.kind # "Pending"
  BY <1>1 DEF Fits, TypeOK, MachineState
<1>4. CASE IsTerminal(st)
  BY <1>1, <1>4 DEF Ended
<1>5. CASE st.kind = "Recovering"
  <2>1. now <= LatestStop + 4 * LongestRun /\ (live => now <= LatestStop + 2 * LongestRun)
    <3>1. CASE live /\ ~st.retried
      BY <1>1, <1>2, <1>5, <3>1, RecoversInTime
    <3>2. CASE live /\ st.retried
      BY <1>1, <1>2, <1>5, <3>2, RecoversInTime
    <3>3. CASE ~live /\ ~st.retried
      BY <1>1, <1>2, <1>5, <3>3, RecoversInTime
    <3>4. CASE ~live /\ st.retried
      BY <1>1, <1>2, <1>5, <3>4, RecoversInTime
    <3> QED
      BY <3>1, <3>2, <3>3, <3>4
  <2> QED
    BY <1>2, <2>1
<1>6. CASE st.kind \in {"PreflightInstall", "PreflightRuntime", "WritingJournal", "Injecting",
                        "Active"}
  BY <1>1, <1>2, <1>6, StartsInTime
<1> QED
  BY <1>3, <1>4, <1>5, <1>6 DEF Kind, PreInject, IsTerminal

(* An instance is over, and its fault lifted or quarantined, in bounded     *)
(* time (the timeout of the runner, the single retry).                      *)
THEOREM InstancesEndInTime == Spec => []OverInTime
  BY InTimeOver, TimeInvariant, PTL

(* The whole seconds of an instant are not after it.                        *)
LEMMA WholeSeconds ==
  ASSUME NEW n \in Int, NEW s \in Nat, s > 0
  PROVE  (n \div s) * s <= n
<1>1. n \div s \in Int /\ n % s \in 0..(s - 1)
  OBVIOUS
<1>2. n = s * (n \div s) + (n % s)
  OBVIOUS
<1> QED
  BY <1>1, <1>2

(* More seconds are more ticks.                                             *)
LEMMA MoreTicks ==
  ASSUME NEW a \in Int, NEW b \in Int, NEW s \in Nat, a <= b
  PROVE  a * s <= b * s
<1>1. PICK d \in Nat : b = a + d
  <2>1. b - a \in Nat /\ b = a + (b - a)
    OBVIOUS
  <2> QED
    BY <2>1
<1>2. b * s = a * s + d * s /\ d * s \in Nat
  BY <1>1
<1> QED
  BY <1>2

(* The master gives up on an instance only if the agent overran the margin  *)
(* (deadline_unix_ms, "plus margin").                                       *)
THEOREM TheMasterOutwaits == Spec => MasterOutwaits
<1>1. ASSUME TimeInv, [Next]_vars, expired' # expired, start # Never, ~IsTerminal(st)
      PROVE  Margin <= (start - minted) + (LatestStop - Deadman) + 4 * LongestRun
  <2>1. TypeOK /\ Fits /\ Prompt /\ InTime /\ Ended
    BY <1>1 DEF TimeInv
  <2>2. DeadlineExpires
    BY <1>1, <2>1, TaskMoves
    DEF Next, TimeInv, TaskMove, clockVars, Cut, Heal, SessionEnds, AttemptFails, Registers, Tick, vars
  <2>3. now >= MasterDeadline
    BY <2>2 DEF DeadlineExpires
  <2>4. now <= LatestStop + 4 * LongestRun
    <3>1. OverInTime
      BY <1>1, InTimeOver
    <3> QED
      BY <1>1, <2>1, <3>1, LatestIs, Numbers DEF OverInTime
  <2>5. /\ plan.ours \in Nat /\ plan.other \in Nat /\ plan.grace \in Nat /\ Second \in Nat
        /\ Second > 0 /\ start \in Int /\ minted \in Int /\ Margin \in Int /\ now \in Int
        /\ LatestStop \in Int /\ Deadman \in Int /\ LongestRun \in Int
    BY <2>1, StopInstants, TheTimes, LatestIs, Numbers DEF TypeOK
  <2>6. PICK m \in Int : m = Max({plan.ours, plan.other}) /\ m >= plan.ours
    <3>1. PICK a \in Int, b \in Int : a = plan.ours /\ b = plan.other
      BY <2>5
    <3>2. Later(a, b) \in {a, b} /\ Later(a, b) >= a
      BY LaterIs
    <3>3. Later(a, b) = Max({plan.ours, plan.other})
      BY <3>1 DEF Later
    <3> QED
      BY <3>1, <3>2, <3>3
  <2>7. PICK w \in Int : w = (m + plan.grace) * Second
    BY <2>5, <2>6
  <2>8. now >= minted + w + Margin
    BY <2>3, <2>6, <2>7 DEF MasterDeadline
  <2>9. Deadman <= start + w
    <3>1. PICK k \in Int : k = start \div Second
      BY <2>5
    <3>2. k * Second <= start
      BY <2>5, <3>1, WholeSeconds
    <3>3. PICK v \in Int : v = (plan.ours + plan.grace) * Second
      BY <2>5
    <3>4. v <= w
      BY <2>5, <2>6, <2>7, <3>3, MoreTicks
    <3>5. Deadman = k * Second + v
      <4>1. Deadman = (k + plan.ours + plan.grace) * Second
        BY <3>1 DEF Deadman
      <4>2. PICK e \in Int, s \in Int : e = plan.ours + plan.grace /\ s = Second
        BY <2>5
      <4>3. (k + e) * s = k * s + e * s
        OBVIOUS
      <4>4. k + plan.ours + plan.grace = k + e
        BY <2>5, <4>2
      <4> QED
        BY <3>3, <4>1, <4>2, <4>3, <4>4
    <3>6. PICK ks \in Int : ks = k * Second
      BY <2>5
    <3> QED
      BY <2>5, <3>2, <3>4, <3>5, <3>6
  <2> QED
    BY <2>4, <2>5, <2>8, <2>9
<1>2. TimeInv /\ [Next]_vars =>
        [expired' # expired /\ start # Never /\ ~IsTerminal(st) =>
           Margin <= (start - minted) + (LatestStop - Deadman) + 4 * LongestRun]_vars
  BY <1>1
<1> QED
  BY <1>2, TimeInvariant, PTL DEF Spec, MasterOutwaits
=============================================================================
