----------------------------- MODULE Deadlines -----------------------------
(***************************************************************************)
(* Time.  One instance, the stop it waits for in Active, the session whose *)
(* loss may stop it, the invocations that delay it, and the deadline at    *)
(* which the master gives up on it.  Time is counted in ticks, Second of   *)
(* them to a second; the code counts milliseconds, but the dead-man in     *)
(* whole seconds of the start.                                             *)
(*                                                                         *)
(* The scheduler is ideal: time does not pass over a timer that is due or  *)
(* over a wake-up (Tick).  An invocation is over within LongestRun: its    *)
(* timeout, the retries of a busy entrypoint (5 of 20 ms) before it and    *)
(* the wait for its two pipes (500 ms each) after it; that presumes a      *)
(* plugin which reads the order it is given, or an order that fits the     *)
(* pipe.  The wall clock is never set.  Setup, the digest                  *)
(* gate, the journal and free sends take no time.  A link that broke is    *)
(* noticed within Notice, which is an assumption: the agent itself sets no *)
(* limit to how long it waits for a silent stream.                         *)
(***************************************************************************)
EXTENDS InstanceMachine, Integers, FiniteSetsExt

CONSTANTS
  Second,      \* ticks to a second (1000 in the code)
  Durations,   \* durations of an action, in seconds
  Graces,      \* default_grace_secs the master may be configured with
  Thresholds,  \* master loss thresholds of the agent, in ticks
  LongestRun,  \* assumed: the longest an invocation takes, in ticks
  Margin,      \* DEADLINE_MARGIN_MS, in ticks
  BackoffCap,  \* the longest reconnect backoff, in ticks (30 s in the code)
  Notice,      \* assumed: the longest a broken link goes unnoticed, in ticks
  MaxStops,    \* bound: operator aborts
  MaxDelay,    \* bound: ticks an order may be under way
  MaxBreaks,   \* bound: links cut and streams closed by the master
  Horizon      \* bound: the last tick

ASSUME TimesAssumption ==
  /\ {Second, LongestRun} \subseteq Nat \ {0}
  /\ UNION {Durations, Graces, Thresholds} \subseteq Nat
  /\ {BackoffCap, Margin, Notice, MaxStops, MaxDelay, MaxBreaks, Horizon} \subseteq Nat
  /\ BackoffCap >= Second /\ Horizon >= Second

Never == -1
Time == 0..Horizon
Instant == Time \cup {Never}

VARIABLES
  now,
  plan,     \* duration of our action, of another, grace and threshold
  minted,   \* when the master accepted the experiment
  expired,  \* has the master's deadline passed?
  st,       \* the machine state
  start,    \* when the order reached the agent
  active,   \* when the instance became active
  busy,     \* the command under way and when it began
  wait,     \* the stop the task sleeps for; at = Never outside the sleep
  conn,     \* what the session layer published: lost, and since when
  news,     \* has it changed since the task last looked?
  backoff, retry, \* the next backoff, and when the next attempt may begin
  link,     \* does the network carry frames?
  silence,  \* since when the master is not heard of, and from when to when it
            \* was not, if it was heard of again within this tick (history)
  stops, breaks, \* operator aborts and breaks, against their bounds
  cause,    \* the stop the machine acted on in Active (history)
  live,     \* is the fault in effect, as far as can be known?
  tainted

clockVars == <<now, plan, minted, expired>>
taskVars == <<st, start, active, busy, wait, cause, live, tainted, stops>>
sessionVars == <<conn, backoff, retry, link, silence, breaks>>
vars == <<clockVars, taskVars, sessionVars, news>>

TypeOK ==
  /\ now \in Time
  /\ plan \in [ours : Durations, other : Durations, grace : Graces, threshold : Thresholds]
  /\ {minted, start, active, retry} \subseteq Int
  /\ minted \in Time /\ {start, active} \subseteq Instant
  /\ {expired, news, live, tainted, link} \subseteq BOOLEAN
  /\ st \in MachineState
  /\ busy \in [command : Command \cup {None}, since : Time]
  /\ wait.at \in Int /\ {wait.cause, cause} \subseteq StopCause \cup {None}
  /\ conn \in [lost : BOOLEAN, since : Time]
  /\ backoff \in Second..BackoffCap
  /\ silence \in [since : Instant, from : Instant, to : Instant]
  /\ stops \in 0..MaxStops /\ breaks \in 0..MaxBreaks

NotBusy == [command |-> None, since |-> 0]
Asleep(at, why) == [at |-> at, cause |-> why]
Awake == Asleep(Never, None)

(* The experiment is accepted at any fraction of a second, by a master that *)
(* holds a session with the agent.                                          *)
Init ==
  /\ now \in 0..(Second - 1)
  /\ plan \in [ours : Durations, other : Durations, grace : Graces, threshold : Thresholds]
  /\ minted = now /\ expired = FALSE
  /\ st = Plain("Pending", None)
  /\ start = Never /\ active = Never
  /\ busy = NotBusy /\ wait = Awake
  /\ conn = [lost |-> FALSE, since |-> 0] /\ news = FALSE
  /\ backoff = Second /\ retry = 0
  /\ link = TRUE /\ silence = [since |-> Never, from |-> Never, to |-> Never]
  /\ stops = 0 /\ breaks = 0 /\ cause = None
  /\ live = FALSE /\ tainted = FALSE

-----------------------------------------------------------------------------
(***************************************************************************)
(* Deadlines.                                                              *)
(***************************************************************************)
Later(a, b) == Max({a, b})

(* deadline_unix is in whole seconds.                                       *)
Deadman == (start \div Second + plan.ours + plan.grace) * Second
DurationEnd == active + plan.ours * Second

(* Mutant: the shortest action sets the deadline.                           *)
MasterDeadlineShort == minted + (Min({plan.ours, plan.other}) + plan.grace) * Second + Margin

(* The longest window of any action, and the margin.                        *)
MasterDeadline == minted + (Max({plan.ours, plan.other}) + plan.grace) * Second + Margin

(* The candidates, the gentlest first.                                      *)
Stops ==
  <<Asleep(DurationEnd, "DurationElapsed")>>
  \o (IF conn.lost THEN <<Asleep(conn.since + plan.threshold, "MasterLost")>> ELSE << >>)
  \o <<Asleep(Deadman, "Deadman")>>

(* Mutant: ties prefer the harshest.                                        *)
NextStopHarsh ==
  LET earliest == Min({Stops[k].at : k \in DOMAIN Stops})
  IN  Stops[Max({k \in DOMAIN Stops : Stops[k].at = earliest})]

(* The earliest, ties going to the gentlest.                                *)
NextStop ==
  LET earliest == Min({Stops[k].at : k \in DOMAIN Stops})
  IN  Stops[Min({k \in DOMAIN Stops : Stops[k].at = earliest})]

-----------------------------------------------------------------------------
(***************************************************************************)
(* The instance task.                                                      *)
(***************************************************************************)
Asks(effects, effect) == \E k \in DOMAIN effects : effects[k] = effect

(* The machine takes an event; a command it invokes begins at once.  From   *)
(* then on inject may have acted.                                           *)
Feed(ev) ==
  LET r == Step(st, ev)
      asked == {c \in Command : Asks(r.effects, Invoke(c))}
  IN  /\ st' = r.state
      /\ busy' = IF asked = {} THEN NotBusy
                 ELSE [command |-> CHOOSE c \in asked : TRUE, since |-> now]
      /\ live' = IF "Inject" \in asked THEN TRUE
                 ELSE IF busy.command = "Inject" /\ ev.disposition = "InjectFailed" THEN FALSE
                 ELSE IF busy.command \in {"Abort", "Cleanup"} /\ ev.disposition = "Success"
                 THEN FALSE ELSE live
      /\ tainted' = (tainted \/ Asks(r.effects, MarkTainted))
      /\ active' = IF r.state.kind = "Active" /\ active = Never THEN now ELSE active
      /\ cause' = IF st.kind = "Active" THEN ev.cause ELSE cause
      /\ wait' = Awake

(* The order arrives; setup is passed at once.                              *)
Receive ==
  /\ st.kind = "Pending" /\ start = Never
  /\ link /\ ~conn.lost
  /\ start' = now
  /\ Feed(Plainly("SetupOk"))
  /\ UNCHANGED <<clockVars, sessionVars, stops, news>>

JournalWritten ==
  /\ st.kind = "WritingJournal"
  /\ Feed(Plainly("JournalWritten"))
  /\ UNCHANGED <<clockVars, sessionVars, start, stops, news>>

(* A command ends with an answer, or fails at any moment: it could not be   *)
(* started, died of a signal, or was killed at its timeout.                 *)
InvocationEnds ==
  LET c == busy.command
  IN  /\ c # None
      /\ \/ Feed(CommandFinished(c, "Success"))
         \/ c = "Inject" /\ Feed(CommandFinished(c, "InjectFailed"))
         \/ c \in {"Abort", "Cleanup"} /\ Feed(CommandFinished(c, "RecoveryFailed"))
         \/ Feed(InvocationFailed(c))
      /\ UNCHANGED <<clockVars, sessionVars, start, stops, news>>

(* The head of the loop in wait_for_stop: look at the connection, fire what *)
(* is due, sleep until the next stop.                                       *)
Arm ==
  /\ st.kind = "Active" /\ wait = Awake
  /\ news' = FALSE
  /\ \/ NextStop.at <= now /\ Feed(StopRequested(NextStop.cause))
     \/ /\ NextStop.at > now
        /\ wait' = NextStop
        /\ UNCHANGED <<st, active, busy, cause, live, tainted>>
  /\ UNCHANGED <<clockVars, sessionVars, start, stops>>

(* Mutant: only a loss wakes the sleeper.                                   *)
WokenByLoss == st.kind = "Active" /\ wait # Awake /\ news /\ conn.lost

Woken == st.kind = "Active" /\ wait # Awake /\ news

(* The connection changed during the sleep: begin again.                    *)
Rearm ==
  /\ Woken
  /\ wait' = Awake
  /\ UNCHANGED <<clockVars, sessionVars, st, start, active, busy, cause, live, tainted, stops,
                 news>>

TimerFires ==
  /\ wait # Awake /\ now >= wait.at
  /\ Feed(StopRequested(wait.cause))
  /\ UNCHANGED <<clockVars, sessionVars, start, stops, news>>

OperatorAborts ==
  /\ link /\ ~conn.lost /\ stops < MaxStops
  /\ stops' = stops + 1
  /\ \/ wait # Awake /\ Feed(StopRequested("OperatorAbort"))
     \/ /\ busy.command # None
        /\ st' = Step(st, StopRequested("OperatorAbort")).state
        /\ UNCHANGED <<active, busy, wait, cause, live, tainted>>
  /\ UNCHANGED <<clockVars, sessionVars, start, news>>

-----------------------------------------------------------------------------
(***************************************************************************)
(* The session.                                                            *)
(***************************************************************************)
(* Bound: nothing in a recovery looks at the connection any more.           *)
Watched == st.kind # "Recovering" /\ ~IsTerminal(st)

Silent == silence.since # Never
FallsSilent == silence' = IF Silent THEN silence ELSE [silence EXCEPT !.since = now]

(* Several ends within one tick count as the first of them.                 *)
SpeaksAgain ==
  silence' = IF silence.to = now THEN [silence EXCEPT !.since = Never]
             ELSE [since |-> Never, from |-> silence.since, to |-> now]

(* A silence that is over is told of for the tick it ended in.              *)
Past == silence' = [silence EXCEPT !.from = Never, !.to = Never]

Cut ==
  /\ Watched /\ link /\ breaks < MaxBreaks
  /\ link' = FALSE /\ breaks' = breaks + 1
  /\ FallsSilent
  /\ UNCHANGED <<clockVars, taskVars, news, conn, backoff, retry>>

(* A stream the agent still believes in goes on where it was.               *)
Heal ==
  /\ Watched /\ ~link /\ link' = TRUE
  /\ IF conn.lost THEN UNCHANGED silence ELSE SpeaksAgain
  /\ UNCHANGED <<clockVars, taskVars, news, conn, backoff, retry, breaks>>

NextBackoff == Min({2 * backoff, BackoffCap})

(* The backoff is slept, and doubled for the time after.                    *)
BackOff == retry' = now + backoff /\ backoff' = NextBackoff

(* The stream fails, or the master closes it.                               *)
SessionEnds ==
  /\ Watched /\ ~conn.lost
  /\ \/ ~link /\ UNCHANGED breaks
     \/ link /\ breaks < MaxBreaks /\ breaks' = breaks + 1
  /\ conn' = [lost |-> TRUE, since |-> now] /\ news' = TRUE
  /\ FallsSilent
  /\ BackOff
  /\ UNCHANGED <<clockVars, taskVars, link>>

(* Mutant: the loss is dated from the last attempt.                         *)
AttemptFailsRenewing ==
  /\ Watched /\ conn.lost /\ now >= retry
  /\ conn' = [conn EXCEPT !.since = now] /\ news' = TRUE
  /\ BackOff
  /\ UNCHANGED <<clockVars, taskVars, link, silence, breaks>>

(* The original instant of the loss is kept.                                *)
AttemptFails ==
  /\ Watched /\ conn.lost /\ now >= retry
  /\ BackOff
  /\ UNCHANGED <<clockVars, taskVars, link, silence, breaks, conn, news>>

Registers ==
  /\ Watched /\ conn.lost /\ now >= retry /\ link
  /\ conn' = [conn EXCEPT !.lost = FALSE] /\ news' = TRUE
  /\ backoff' = Second
  /\ SpeaksAgain
  /\ UNCHANGED <<clockVars, taskVars, link, retry, breaks>>

-----------------------------------------------------------------------------
DeadlineExpires ==
  /\ ~expired /\ now >= MasterDeadline
  /\ expired' = TRUE
  /\ UNCHANGED <<now, plan, minted, taskVars, sessionVars, news>>

(* What may not wait for the next tick.                                     *)
Due ==
  \/ st.kind = "Active" /\ (wait = Awake \/ Woken \/ now >= wait.at)
  \/ st.kind = "WritingJournal"
  \/ busy.command # None /\ now - busy.since >= LongestRun
  \/ Watched /\ ~link /\ ~conn.lost /\ now - silence.since >= Notice
  \/ ~expired /\ now >= MasterDeadline

Tick ==
  /\ ~Due /\ now < Horizon
  /\ ~IsTerminal(st)
  /\ start = Never => now - minted < MaxDelay
  /\ now' = now + 1 /\ Past
  /\ UNCHANGED <<plan, minted, expired, taskVars, conn, backoff, retry, link, breaks, news>>

Next ==
  \/ Receive \/ JournalWritten \/ InvocationEnds
  \/ Arm \/ Rearm \/ TimerFires \/ OperatorAborts
  \/ Cut \/ Heal \/ SessionEnds \/ AttemptFails \/ Registers
  \/ DeadlineExpires \/ Tick

Spec == Init /\ [][Next]_vars

-----------------------------------------------------------------------------
(* An active fault is never past its deadline: the end of its duration, the *)
(* dead-man, or the threshold counted from the last the master was heard    *)
(* of, whichever is first, given that a broken link is noticed in time.     *)
(* Only a deadline that had passed before the fault became active may be    *)
(* late, and then the fault is stopped at once.  About: wait_for_stop, its  *)
(* re-arming, and the instant of loss that failed attempts must not renew.  *)
NeverLate ==
  st.kind = "Active" =>
    /\ now <= DurationEnd
    /\ now <= Later(Deadman, active)
    /\ Silent => now <= Later(silence.since + Notice + plan.threshold, active)

(* A stop is earned at the moment it fires: the duration is over, the       *)
(* dead-man has passed, or the master has been silent for the threshold and *)
(* not been heard of before this very tick.  About: "reconnection before    *)
(* the threshold cancels self-abort", and causes computed before a sleep    *)
(* and used after it.                                                       *)
StopsEarned ==
  [][st.kind = "Active" /\ st'.kind = "Recovering" =>
       /\ cause' = "DurationElapsed" => now >= DurationEnd
       /\ cause' = "Deadman" => now >= Deadman
       /\ cause' = "MasterLost" =>
            \/ Silent /\ now - silence.since >= plan.threshold
            \/ silence.to = now /\ now - silence.from >= plan.threshold]_vars

(* The dead-man ends an active fault only if the fault became active later  *)
(* than the grace after the whole second of the start: it then comes before *)
(* the end of the duration, whatever the grace is, since it counts from the *)
(* start and not from Active.  A fault that became active in time ends      *)
(* gently, on the tie too.  About: ties in next_stop and the rounding of    *)
(* deadline_unix.                                                           *)
DeadmanMeansLateStart ==
  cause = "Deadman" => active > (start \div Second + plan.grace) * Second

(* The same, with every variable in its range.                              *)
TimersSound == TypeOK /\ DeadmanMeansLateStart

(* An instance is over four invocations after the later of its dead-man and *)
(* its first three invocations, and the host is free of the fault, or       *)
(* quarantined, two invocations after it.  About: what bounds an invocation *)
(* and the single retry, the only things that bound a start or a recovery,  *)
(* for which the dead-man is not armed.                                     *)
LatestStop == Later(Deadman, start + 3 * LongestRun)

OverInTime ==
  start # Never =>
    /\ now > LatestStop + 4 * LongestRun => IsTerminal(st)
    /\ now > LatestStop + 2 * LongestRun => ~live \/ tainted

(* The master gives up on an unfinished instance only when the agent has    *)
(* overrun it: the delivery of the order, a start beyond the dead-man and   *)
(* the recovery together exceeded the margin.  About: deadline_unix_ms,     *)
(* "the latest possible dead-man across actions plus margin".               *)
MasterOutwaits ==
  [][expired' # expired /\ start # Never /\ ~IsTerminal(st) =>
       Margin <= (start - minted) + (LatestStop - Deadman) + 4 * LongestRun]_vars
=============================================================================
