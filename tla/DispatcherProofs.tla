-------------------------- MODULE DispatcherProofs --------------------------
(***************************************************************************)
(* Theorems about the master, for any experiments, hosts and bounds.       *)
(***************************************************************************)
EXTENDS Dispatcher, SequenceTheorems, WellFoundedInduction, TLAPS

-----------------------------------------------------------------------------
(***************************************************************************)
(* What is true of a record between two steps.                             *)
(***************************************************************************)
CauseSet ==
  [host : Host \cup {None}, instance : Nat,
   why : {None, "halt", "taint", "deadline", "Error", "Aborted"}]

Record(hosts) ==
  [phase : Phase, state : [DOMAIN hosts -> InstanceStates],
   asked : [DOMAIN hosts -> BOOLEAN], tainted : Seq(Host), cause : CauseSet]

(* A halting record has a cause, and has asked for every abort there is.    *)
HaltedWhole(x) ==
  x.phase = "Halting" => x.cause # NoCause /\ \A i \in Unfinished(x) : x.asked[i]

(* A concluded one has the outcome its instances and taints give it.        *)
EndedTruly(x) ==
  IsConcluded(x) => OutcomeOf(x) = x.phase /\ (x.phase # "Completed" => x.cause # NoCause)

(* Any other has something unfinished, and no reason to halt if it runs.    *)
OpenRightly(x, hosts) ==
  ~IsConcluded(x) =>
    Unfinished(x) # {} /\ (x.phase = "Running" => KillTrigger(x, hosts) = NoCause)

Settled(x, hosts) ==
  x \in Record(hosts) /\ HaltedWhole(x) /\ EndedTruly(x) /\ OpenRightly(x, hosts)

(* What every decision makes of a record: it is settled, keeps its cause,   *)
(* and sends an abort for every instance it newly asked.                    *)
Decided(x, r, hosts) ==
  /\ Settled(r.record, hosts)
  /\ x.cause # NoCause => r.record.cause = x.cause
  /\ r.aborts \subseteq DOMAIN hosts
  /\ \A i \in DOMAIN hosts : r.record.asked[i] => x.asked[i] \/ i \in r.aborts

-----------------------------------------------------------------------------
(***************************************************************************)
(* The first and the last of a set of numbers.                             *)
(***************************************************************************)
LEMMA MinExists ==
  ASSUME NEW S \in SUBSET Nat, S # {}
  PROVE  Min(S) \in S /\ \A y \in S : Min(S) <= y
<1> DEFINE less == {p \in Nat \X Nat : p[1] < p[2]}
<1>1. IsWellFoundedOn(less, Nat)
  BY Zenon, NatLessThanWellFounded DEF OpToRel
<1>2. PICK x \in S : \A y \in S : <<y, x>> \notin less
  <2> HIDE DEF less
  <2> QED
    BY <1>1, WFMin
<1>3. \A y \in S : x <= y
  <2> TAKE y \in S
  <2>1. x \in Nat /\ y \in Nat
    OBVIOUS
  <2>2. ~(y < x)
    BY <1>2, <2>1
  <2> QED
    BY <2>1, <2>2
<1> QED
  BY <1>3 DEF Min

LEMMA MaxExists ==
  ASSUME NEW n \in Nat, NEW S \in SUBSET (1..n), S # {}
  PROVE  Max(S) \in S /\ \A y \in S : Max(S) >= y
<1> DEFINE T == {n - y : y \in S}
<1>0. \A y \in S : y \in Nat /\ y <= n /\ n - y \in Nat
  OBVIOUS
<1>1. T \in SUBSET Nat /\ T # {}
  BY <1>0
<1>2. Min(T) \in T /\ \A u \in T : Min(T) <= u
  <2> HIDE DEF T
  <2> QED
    BY <1>1, MinExists
<1>3. PICK x \in S : Min(T) = n - x
  BY <1>2
<1>4. \A y \in S : x >= y
  <2> TAKE y \in S
  <2>1. n - y \in T /\ x \in Int /\ y \in Int
    OBVIOUS
  <2>2. n - x <= n - y
    BY <1>2, <1>3, <2>1
  <2> QED
    BY <2>1, <2>2
<1> QED
  BY <1>4 DEF Max

-----------------------------------------------------------------------------
(***************************************************************************)
(* The decisions over one record.                                          *)
(***************************************************************************)

(* There is an outcome exactly when nothing is unfinished.                  *)
LEMMA OutcomeFits ==
  ASSUME NEW x
  PROVE  /\ Unfinished(x) # {} => OutcomeOf(x) = None
         /\ Unfinished(x) = {} => OutcomeOf(x) \in Concluded
<1>1. CASE Unfinished(x) # {}
  <2>1. InState(x, "Done") # DOMAIN x.state
    BY <1>1 DEF Unfinished, InState, Terminal
  <2> QED
    BY <1>1, <2>1 DEF OutcomeOf
<1>2. CASE Unfinished(x) = {}
  BY <1>2 DEF OutcomeOf, Concluded
<1> QED
  BY <1>1, <1>2

(* An outcome other than a completion has a cause.                          *)
LEMMA OutcomeCauseFits ==
  ASSUME NEW hosts \in Seq(Host), NEW x \in Record(hosts), Unfinished(x) = {}
  PROVE  LET c == OutcomeCause(x, hosts, OutcomeOf(x))
         IN  c \in CauseSet /\ (OutcomeOf(x) # "Completed" => c # NoCause)
<1> DEFINE first(s) == LET i == Min(InState(x, s)) IN Cause(hosts[i], i, s)
<1>0. NoCause \in CauseSet /\ NoCause.why = None
  BY DEF CauseSet, NoCause, Cause
<1>1. \A s \in {"Error", "Aborted"} : InState(x, s) # {} => first(s) \in CauseSet /\ first(s) # NoCause
  <2> SUFFICES ASSUME NEW s \in {"Error", "Aborted"}, InState(x, s) # {}
               PROVE  first(s) \in CauseSet /\ first(s) # NoCause
    OBVIOUS
  <2>1. InState(x, s) \in SUBSET (DOMAIN hosts) /\ DOMAIN hosts \subseteq Nat
    BY DEF InState, Record
  <2>2. Min(InState(x, s)) \in DOMAIN hosts /\ Min(InState(x, s)) \in Nat
    BY <2>1, MinExists
  <2> QED
    BY <2>2 DEF CauseSet, NoCause, Cause, None
<1>2. x.tainted # << >> => TaintCause(x) \in CauseSet /\ TaintCause(x) # NoCause
  BY DEF Record, TaintCause, CauseSet, NoCause, Cause, None
<1>3. CASE InState(x, "Error") # {}
  <2>1. OutcomeOf(x) = "Failed"
    <3>1. InState(x, "Done") # DOMAIN x.state
      BY <1>3 DEF InState
    <3> QED
      BY <1>3, <3>1 DEF OutcomeOf
  <2>2. OutcomeCause(x, hosts, OutcomeOf(x)) = first("Error")
    BY <1>3, <2>1 DEF OutcomeCause
  <2> QED
    BY <1>1, <1>3, <2>1, <2>2
<1>4. CASE InState(x, "Error") = {} /\ x.tainted # << >>
  <2>1. OutcomeOf(x) = "Failed"
    BY <1>4 DEF OutcomeOf
  <2>2. OutcomeCause(x, hosts, OutcomeOf(x)) = TaintCause(x)
    BY <1>4, <2>1 DEF OutcomeCause
  <2> QED
    BY <1>2, <1>4, <2>1, <2>2
<1>5. CASE InState(x, "Error") = {} /\ x.tainted = << >> /\ InState(x, "Done") = DOMAIN x.state
  <2>1. OutcomeOf(x) = "Completed"
    BY <1>5 DEF OutcomeOf
  <2>2. OutcomeCause(x, hosts, OutcomeOf(x)) = NoCause
    BY <2>1 DEF OutcomeCause
  <2> QED
    BY <1>0, <2>1, <2>2
<1>6. CASE InState(x, "Error") = {} /\ x.tainted = << >> /\ InState(x, "Done") # DOMAIN x.state
  <2>1. OutcomeOf(x) = "AbortedClean"
    BY <1>6 DEF OutcomeOf
  <2>2. OutcomeCause(x, hosts, OutcomeOf(x)) = first("Aborted")
    BY <2>1 DEF OutcomeCause
  <2>3. InState(x, "Aborted") # {}
    BY <1>6 DEF Unfinished, InState, Terminal
  <2> QED
    BY <1>1, <2>2, <2>3
<1> QED
  BY <1>3, <1>4, <1>5, <1>6

(* Concluding touches only the phase and a cause still missing.             *)
LEMMA ConcludeFits ==
  ASSUME NEW hosts \in Seq(Host), NEW x \in Record(hosts), ~IsConcluded(x)
  PROVE  LET y == ConcludeIfDone(x, hosts)
         IN  /\ y \in Record(hosts) /\ EndedTruly(y)
             /\ y.asked = x.asked
             /\ x.cause # NoCause => y.cause = x.cause
             /\ ~IsConcluded(y) => y = x /\ Unfinished(x) # {}
<1> DEFINE y == ConcludeIfDone(x, hosts)
<1>1. CASE Unfinished(x) # {}
  <2>1. y = x
    BY <1>1, OutcomeFits DEF ConcludeIfDone
  <2> QED
    BY <1>1, <2>1 DEF EndedTruly
<1>2. CASE Unfinished(x) = {}
  <2>1. OutcomeOf(x) \in Concluded /\ OutcomeOf(x) # None
    BY <1>2, OutcomeFits DEF Concluded, None
  <2> DEFINE c == OutcomeCause(x, hosts, OutcomeOf(x))
  <2>2. c \in CauseSet /\ (OutcomeOf(x) # "Completed" => c # NoCause)
    BY <1>2, OutcomeCauseFits
  <2> HIDE DEF c
  <2>3. y = [x EXCEPT !.phase = OutcomeOf(x),
                      !.cause = IF x.cause = NoCause THEN c ELSE x.cause]
    BY <2>1 DEF ConcludeIfDone, Record, c
  <2>4. y \in Record(hosts)
    BY <2>1, <2>2, <2>3 DEF Record, Phase
  <2>5. /\ y.state = x.state /\ y.tainted = x.tainted /\ y.asked = x.asked
        /\ y.phase = OutcomeOf(x)
        /\ y.cause = IF x.cause = NoCause THEN c ELSE x.cause
    BY <2>3 DEF Record
  <2>6. OutcomeOf(y) = OutcomeOf(x)
    BY <2>5 DEF OutcomeOf, Unfinished, InState
  <2> QED
    BY <2>1, <2>2, <2>4, <2>5, <2>6 DEF EndedTruly, IsConcluded
<1> QED
  BY <1>1, <1>2

(* A trigger that fires has a cause to give.                                *)
LEMMA TriggerFits ==
  ASSUME NEW hosts \in Seq(Host), NEW x \in Record(hosts)
  PROVE  KillTrigger(x, hosts) \in CauseSet
<1>0. NoCause \in CauseSet
  BY DEF CauseSet, NoCause, Cause
<1>1. CASE x.phase # "Running"
  BY <1>0, <1>1 DEF KillTrigger
<1>2. CASE x.phase = "Running" /\ Failures(x) # {}
  <2>1. Failures(x) \in SUBSET (DOMAIN hosts) /\ DOMAIN hosts \subseteq Nat
    BY DEF Failures, InState, Record
  <2> DEFINE i == Min(Failures(x))
  <2>2. i \in Failures(x) /\ i \in DOMAIN hosts /\ i \in Nat
    BY <1>2, <2>1, MinExists
  <2> HIDE DEF i
  <2>3. x.state[i] \in {"Error", "Aborted"}
    BY <2>2 DEF Failures, InState
  <2>4. Cause(hosts[i], i, x.state[i]) \in CauseSet
    BY <2>2, <2>3 DEF CauseSet, Cause
  <2> QED
    BY <1>2, <2>4 DEF KillTrigger, i
<1>3. CASE x.phase = "Running" /\ Failures(x) = {} /\ x.tainted # << >>
  BY <1>3 DEF KillTrigger, Record, TaintCause, CauseSet, Cause
<1>4. CASE x.phase = "Running" /\ Failures(x) = {} /\ x.tainted = << >>
  BY <1>0, <1>4 DEF KillTrigger
<1> QED
  BY <1>1, <1>2, <1>3, <1>4

(* The kill switch asks for every abort still to be asked for.              *)
LEMMA FireFits ==
  ASSUME NEW hosts \in Seq(Host), NEW x \in Record(hosts),
         NEW c \in CauseSet, c # NoCause
  PROVE  LET y == FireKillSwitch(x, c)
         IN  /\ y \in Record(hosts) /\ HaltedWhole(y) /\ ~IsConcluded(y)
             /\ y.phase = "Halting"
             /\ x.cause # NoCause => y.cause = x.cause
             /\ ToAbort(x) \subseteq DOMAIN hosts
             /\ \A i \in DOMAIN hosts : y.asked[i] => x.asked[i] \/ i \in ToAbort(x)
<1> DEFINE y == FireKillSwitch(x, c)
           asked == [i \in DOMAIN x.asked |-> x.asked[i] \/ i \in ToAbort(x)]
<1>1. ToAbort(x) \subseteq DOMAIN hosts
  BY DEF ToAbort, Unfinished, Record
<1>2. DOMAIN x.asked = DOMAIN hosts /\ DOMAIN x.state = DOMAIN hosts
  BY DEF Record
<1>3. asked \in [DOMAIN hosts -> BOOLEAN]
  BY <1>2
<1>4. \A i \in DOMAIN hosts : asked[i] = (x.asked[i] \/ i \in ToAbort(x))
  BY <1>2
<1>5. y = [x EXCEPT !.phase = "Halting",
                    !.cause = IF x.cause = NoCause THEN c ELSE x.cause,
                    !.asked = asked]
  BY DEF FireKillSwitch, Record
<1> HIDE DEF asked, y
<1>6. /\ y.phase = "Halting" /\ y.state = x.state /\ y.asked = asked
      /\ y.cause = IF x.cause = NoCause THEN c ELSE x.cause
  BY <1>5 DEF Record
<1>7. y \in Record(hosts)
  BY <1>3, <1>5 DEF Record, Phase
<1>8. \A i \in Unfinished(y) : y.asked[i]
  BY <1>2, <1>4, <1>6 DEF Unfinished, ToAbort
<1>9. ~IsConcluded(y)
  BY <1>6 DEF IsConcluded, Concluded
<1> QED
  BY <1>1, <1>4, <1>6, <1>7, <1>8, <1>9 DEF HaltedWhole, y

(* After any change of a record that has not concluded.                     *)
LEMMA ReactFits ==
  ASSUME NEW hosts \in Seq(Host), NEW x \in Record(hosts),
         HaltedWhole(x), ~IsConcluded(x)
  PROVE  Decided(x, ReactToUpdate(x, hosts), hosts)
<1> DEFINE trigger == KillTrigger(x, hosts)
           r == ReactToUpdate(x, hosts)
<1>1. CASE trigger = NoCause
  <2>1. r.record = ConcludeIfDone(x, hosts) /\ r.aborts = {}
    BY <1>1 DEF ReactToUpdate
  <2>2. r.record \in Record(hosts) /\ EndedTruly(r.record) /\ r.record.asked = x.asked
    BY <2>1, ConcludeFits
  <2>3. x.cause # NoCause => r.record.cause = x.cause
    BY <2>1, ConcludeFits
  <2>4. ~IsConcluded(r.record) => r.record = x /\ Unfinished(x) # {}
    BY <2>1, ConcludeFits
  <2>5. HaltedWhole(r.record)
    BY <2>4 DEF HaltedWhole, IsConcluded, Concluded
  <2>6. OpenRightly(r.record, hosts)
    BY <1>1, <2>4 DEF OpenRightly
  <2> QED
    BY <2>1, <2>2, <2>3, <2>5, <2>6 DEF Decided, Settled
<1>2. CASE trigger # NoCause
  <2> DEFINE y == FireKillSwitch(x, trigger)
  <2>0. trigger \in CauseSet
    BY TriggerFits
  <2> HIDE DEF trigger
  <2>1. r.record = ConcludeIfDone(y, hosts) /\ r.aborts = ToAbort(x)
    BY <1>2 DEF ReactToUpdate, trigger
  <2>2. /\ y \in Record(hosts) /\ HaltedWhole(y) /\ ~IsConcluded(y) /\ y.phase = "Halting"
        /\ x.cause # NoCause => y.cause = x.cause
        /\ ToAbort(x) \subseteq DOMAIN hosts
        /\ \A i \in DOMAIN hosts : y.asked[i] => x.asked[i] \/ i \in ToAbort(x)
    BY <1>2, <2>0, FireFits
  <2> HIDE DEF y
  <2>3. /\ r.record \in Record(hosts) /\ EndedTruly(r.record) /\ r.record.asked = y.asked
        /\ y.cause # NoCause => r.record.cause = y.cause
        /\ ~IsConcluded(r.record) => r.record = y /\ Unfinished(y) # {}
    BY <2>1, <2>2, ConcludeFits
  <2>4. HaltedWhole(r.record)
    BY <2>2, <2>3 DEF HaltedWhole, IsConcluded, Concluded
  <2>5. OpenRightly(r.record, hosts)
    BY <2>2, <2>3 DEF OpenRightly
  <2> QED
    BY <2>1, <2>2, <2>3, <2>4, <2>5 DEF Decided, Settled
<1> QED
  BY <1>1, <1>2

(* An operator's halt.                                                      *)
LEMMA HaltFits ==
  ASSUME NEW hosts \in Seq(Host), NEW x, Settled(x, hosts), ~IsConcluded(x)
  PROVE  Decided(x, Halt(x, hosts), hosts)
<1> DEFINE y == FireKillSwitch(x, OperatorHalt)
           r == Halt(x, hosts)
<1>0. OperatorHalt \in CauseSet /\ OperatorHalt # NoCause
  BY DEF OperatorHalt, NoCause, Cause, CauseSet, None
<1>1. r.record = ConcludeIfDone(y, hosts) /\ r.aborts = ToAbort(x)
  BY DEF Halt
<1>2. /\ y \in Record(hosts) /\ HaltedWhole(y) /\ ~IsConcluded(y) /\ y.phase = "Halting"
      /\ x.cause # NoCause => y.cause = x.cause
      /\ ToAbort(x) \subseteq DOMAIN hosts
      /\ \A i \in DOMAIN hosts : y.asked[i] => x.asked[i] \/ i \in ToAbort(x)
  BY <1>0, FireFits DEF Settled
<1> HIDE DEF y
<1>3. /\ r.record \in Record(hosts) /\ EndedTruly(r.record) /\ r.record.asked = y.asked
      /\ y.cause # NoCause => r.record.cause = y.cause
      /\ ~IsConcluded(r.record) => r.record = y /\ Unfinished(y) # {}
  BY <1>1, <1>2, ConcludeFits
<1>4. HaltedWhole(r.record)
  BY <1>2, <1>3 DEF HaltedWhole, IsConcluded, Concluded
<1>5. OpenRightly(r.record, hosts)
  BY <1>2, <1>3 DEF OpenRightly
<1> QED
  BY <1>1, <1>2, <1>3, <1>4, <1>5 DEF Decided, Settled

(* The deadline concludes whatever has not concluded.                       *)
LEMMA DeadlineFits ==
  ASSUME NEW hosts \in Seq(Host), NEW x, Settled(x, hosts), ~IsConcluded(x)
  PROVE  Decided(x, ResolveDeadline(x, hosts), hosts)
<1> DEFINE late == Unfinished(x)
           first == Min(late)
           state == [i \in DOMAIN x.state |-> IF i \in late THEN "Error" ELSE x.state[i]]
           cause == IF x.cause = NoCause THEN Cause(hosts[first], first, "deadline") ELSE x.cause
           y == [x EXCEPT !.state = state, !.cause = cause]
           r == ResolveDeadline(x, hosts)
<1>0. x \in Record(hosts) /\ DOMAIN x.state = DOMAIN hosts
  BY DEF Settled, Record
<1>1. late \in SUBSET (DOMAIN hosts) /\ DOMAIN hosts \subseteq Nat /\ late # {}
  BY <1>0 DEF Unfinished, Settled, OpenRightly
<1>2. first \in DOMAIN hosts /\ first \in Nat
  BY <1>1, MinExists
<1>3. state \in [DOMAIN hosts -> InstanceStates] /\ \A i \in DOMAIN hosts : state[i] \in Terminal
  <2>1. \A i \in DOMAIN hosts : state[i] = IF i \in late THEN "Error" ELSE x.state[i]
    BY <1>0
  <2>2. \A i \in DOMAIN hosts : state[i] \in Terminal
    BY <1>0, <2>1 DEF Unfinished, Terminal
  <2> QED
    BY <1>0, <2>2 DEF InstanceStates
<1>4. r.record = ConcludeIfDone(y, hosts) /\ r.aborts = late
  BY <1>0 DEF ResolveDeadline, Record
<1>5. cause \in CauseSet /\ (x.cause # NoCause => cause = x.cause)
  <2> HIDE DEF first
  <2> QED
    BY <1>0, <1>2 DEF Record, CauseSet, Cause
<1> HIDE DEF late, first, state, cause, r
<1>6. y \in Record(hosts) /\ y.state = state /\ y.cause = cause /\ y.asked = x.asked /\ y.phase = x.phase
  BY <1>0, <1>3, <1>5 DEF Record
<1>7. ~IsConcluded(y) /\ Unfinished(y) = {}
  BY <1>3, <1>6 DEF IsConcluded, Unfinished
<1> HIDE DEF y
<1>8. /\ r.record \in Record(hosts) /\ EndedTruly(r.record) /\ r.record.asked = x.asked
      /\ y.cause # NoCause => r.record.cause = y.cause
      /\ IsConcluded(r.record)
  BY <1>4, <1>6, <1>7, ConcludeFits
<1>9. HaltedWhole(r.record) /\ OpenRightly(r.record, hosts)
  BY <1>8 DEF HaltedWhole, OpenRightly, IsConcluded, Concluded
<1> QED
  BY <1>1, <1>4, <1>5, <1>6, <1>8, <1>9 DEF Decided, Settled, r

(* A status of an unfinished instance.                                      *)
LEMMA StatusFits ==
  ASSUME NEW hosts \in Seq(Host), NEW x, Settled(x, hosts),
         NEW i \in DOMAIN hosts, NEW s \in InstanceStates, Accepts(x, i)
  PROVE  Decided(x, ReactToUpdate(ApplyStatus(x, i, s), hosts), hosts)
<1> DEFINE y == ApplyStatus(x, i, s)
<1>0. x \in Record(hosts)
  BY DEF Settled
<1>1. ~IsConcluded(x)
  <2>1. i \in Unfinished(x)
    BY DEF Accepts, Unfinished
  <2>2. OutcomeOf(x) = None
    BY <2>1, OutcomeFits
  <2> QED
    BY <2>2 DEF Settled, EndedTruly, IsConcluded, Concluded, None
<1>2. y = [x EXCEPT !.state = [x.state EXCEPT ![i] = s]]
  BY <1>0 DEF ApplyStatus, Record
<1>3. /\ y \in Record(hosts) /\ y.asked = x.asked /\ y.cause = x.cause /\ y.phase = x.phase
      /\ y.state = [x.state EXCEPT ![i] = s]
  BY <1>0, <1>2 DEF Record
<1> HIDE DEF y
<1>4. Unfinished(y) \subseteq Unfinished(x)
  BY <1>0, <1>3 DEF Unfinished, Accepts, Record
<1>5. HaltedWhole(y) /\ ~IsConcluded(y)
  BY <1>1, <1>3, <1>4 DEF HaltedWhole, Settled, IsConcluded
<1>6. Decided(y, ReactToUpdate(y, hosts), hosts)
  BY <1>3, <1>5, ReactFits
<1> QED
  BY <1>3, <1>6 DEF Decided, y

(* A taint of a record that has not concluded.                              *)
LEMMA TaintFits ==
  ASSUME NEW hosts \in Seq(Host), NEW x, Settled(x, hosts), ~IsConcluded(x), NEW h \in Host
  PROVE  Decided(x, ReactToUpdate(RecordTaint(x, h), hosts), hosts)
<1> DEFINE y == RecordTaint(x, h)
<1>0. x \in Record(hosts)
  BY DEF Settled
<1>1. /\ y \in Record(hosts) /\ y.asked = x.asked /\ y.cause = x.cause /\ y.phase = x.phase
      /\ y.state = x.state
  BY <1>0, AppendProperties DEF RecordTaint, Record
<1> HIDE DEF y
<1>2. HaltedWhole(y) /\ ~IsConcluded(y)
  BY <1>1 DEF HaltedWhole, Settled, IsConcluded, Unfinished
<1>3. Decided(y, ReactToUpdate(y, hosts), hosts)
  BY <1>1, <1>2, ReactFits
<1> QED
  BY <1>1, <1>3 DEF Decided, y

(* A new record is settled: it has an instance, and nothing has happened.   *)
LEMMA MintFits ==
  ASSUME NEW hosts \in Seq(Host), Len(hosts) > 0
  PROVE  Settled(Mint(hosts), hosts) /\ \A i \in DOMAIN hosts : ~Mint(hosts).asked[i]
<1> DEFINE x == Mint(hosts)
<1>1. /\ x.phase = "Running" /\ x.state = [i \in DOMAIN hosts |-> "Pending"]
      /\ x.asked = [i \in DOMAIN hosts |-> FALSE] /\ x.tainted = << >> /\ x.cause = NoCause
  BY DEF Mint
<1>2. x \in Record(hosts)
  BY DEF Mint, Record, Phase, InstanceStates, CauseSet, NoCause, Cause
<1> HIDE DEF x
<1>3. Unfinished(x) # {} /\ Failures(x) = {}
  <2>1. 1 \in DOMAIN hosts
    OBVIOUS
  <2> QED
    BY <1>1, <2>1 DEF Unfinished, Failures, InState, Terminal
<1>4. KillTrigger(x, hosts) = NoCause
  BY <1>1, <1>3 DEF KillTrigger
<1>5. ~IsConcluded(x) /\ x.phase # "Halting"
  BY <1>1 DEF IsConcluded, Concluded
<1>6. Settled(x, hosts)
  BY <1>2, <1>3, <1>4, <1>5 DEF Settled, HaltedWhole, EndedTruly, OpenRightly
<1> QED
  BY <1>1, <1>6 DEF x

-----------------------------------------------------------------------------
(***************************************************************************)
(* The invariant of the master.                                            *)
(***************************************************************************)
Held == {NotWaiting} \cup [frame : Frame, into : StreamId]

StreamShape ==
  [host : Host \cup {None}, stage : {"unused", "open", "broken", "closed"}, chan : Seq(Frame)]

Typed ==
  /\ call \in [Experiment -> {"unsent", "checked", "salvo", "over", "cancelled"}]
  /\ DOMAIN store = Experiment
  /\ armed \subseteq Experiment
  /\ halts \in [Experiment -> 0..MaxHalts]
  /\ sending \in [Task -> SUBSET Frame]
  /\ held \in [Task -> Held]
  /\ stream \in [StreamId -> StreamShape]
  /\ \A n \in StreamId :
       /\ Len(stream[n].chan) <= ChanCap
       /\ stream[n].stage # "unused" => stream[n].host \in Host
  /\ session \in [Host -> 0..MaxStreams]
  /\ flagged \subseteq Host

(* An experiment has a record from the moment it is accepted.               *)
RecordsFit ==
  \A e \in Experiment :
    IF call[e] \in {"unsent", "checked"}
    THEN store[e] = NoRecord
    ELSE Settled(store[e], Target[e])

(* A request sends its salvo, then arms its deadline, which fires once.     *)
TasksFit ==
  \A e \in Experiment :
    /\ e \in armed => call[e] = "over"
    /\ ~Idle(<<"start", e>>) => call[e] = "salvo"
    /\ ~Idle(<<"deadline", e>>) => call[e] = "over" /\ e \notin armed

(* An abort that was asked for is under way until it is sent or dropped.    *)
AbortsKept ==
  \A e \in Experiment : \A i \in DOMAIN Target[e] :
    Known(e) /\ store[e].asked[i] => AbortPending(e, i) \/ <<e, i>> \in gone

(* Streams are numbered as they open; the last of a host is its session.    *)
StreamsOrdered ==
  /\ \A m, n \in StreamId : m < n /\ stream[n].stage # "unused" => stream[m].stage # "unused"
  /\ \A n \in StreamId :
       /\ stream[n].stage \in {"open", "broken"}
       /\ \A m \in StreamId : m > n /\ stream[m].stage # "unused" => stream[m].host # stream[n].host
       => session[stream[n].host] = n

MasterInv == Typed /\ RecordsFit /\ TasksFit /\ AbortsKept /\ StreamsOrdered

-----------------------------------------------------------------------------
LEMMA HostsOf ==
  \A e \in Experiment : Target[e] \in Seq(Host) /\ Len(Target[e]) > 0
BY ConstantsAssumption DEF ConstantsAssumption

LEMMA KnownMeans ==
  ASSUME RecordsFit, NEW e \in Experiment
  PROVE  /\ Known(e) <=> call[e] \notin {"unsent", "checked"}
         /\ Known(e) <=> Settled(store[e], Target[e])
<1>1. NoRecord.phase = None
  BY DEF NoRecord, Mint
<1>2. Settled(store[e], Target[e]) => store[e].phase # None
  BY DEF Settled, Record, Phase, Concluded, None
<1> QED
  BY <1>1, <1>2 DEF RecordsFit, Known

LEMMA AbortsAreFrames ==
  ASSUME NEW e \in Experiment, NEW S \in SUBSET (DOMAIN Target[e])
  PROVE  /\ Aborts(e, S) \subseteq Frame
         /\ \A i \in S : FrameOf("AbortFault", e, i) \in Aborts(e, S)
<1>0. Target[e] \in Seq(Host)
  BY HostsOf
<1>1. DOMAIN Target[e] = 1..Len(Target[e]) /\ Len(Target[e]) \in Nat
  BY <1>0
<1>2. S \subseteq Nat
  BY <1>1
<1>3. ASSUME NEW i \in S
      PROVE  FrameOf("AbortFault", e, i) \in Frame
  <2>1. i \in Nat /\ i \in DOMAIN Target[e]
    BY <1>2
  <2> QED
    BY <2>1 DEF FrameOf, Frame
<1> QED
  BY <1>3 DEF Aborts

(* A decision taken over some records, by a task with nothing to send.      *)
Decides(hit, r, t) ==
  /\ \A e \in hit : Known(e) /\ Decided(store[e], r[e], Target[e])
  /\ Idle(t)
  /\ DOMAIN store' = Experiment
  /\ \A e \in Experiment : store'[e] = IF e \in hit THEN r[e].record ELSE store[e]
  /\ sending' = [sending EXCEPT ![t] = UNION {Aborts(e, r[e].aborts) : e \in hit}]
  /\ UNCHANGED <<call, held, gone>>

(* What every step does to causes.                                          *)
CausesKept ==
  \A e \in Experiment :
    Known(e) /\ store[e].cause # NoCause => store'[e].cause = store[e].cause

LEMMA DecidesKeeps ==
  ASSUME Typed, RecordsFit, AbortsKept, NEW t \in Task, NEW hit \in SUBSET Experiment,
         NEW r, Decides(hit, r, t)
  PROVE  /\ RecordsFit' /\ AbortsKept' /\ CausesKept
         /\ DOMAIN store' = Experiment
         /\ sending' \in [Task -> SUBSET Frame]
         /\ \A u \in Task : u # t => sending'[u] = sending[u]
<1>1. \A e \in Experiment : store'[e] = IF e \in hit THEN r[e].record ELSE store[e]
  BY DEF Decides
<1>2. \A e \in hit : Known(e) /\ Decided(store[e], r[e], Target[e])
  BY DEF Decides
<1> DEFINE news == UNION {Aborts(e, r[e].aborts) : e \in hit}
<1>3. \A e \in hit : /\ Aborts(e, r[e].aborts) \subseteq Frame
                     /\ \A i \in r[e].aborts : FrameOf("AbortFault", e, i) \in Aborts(e, r[e].aborts)
  BY <1>2, AbortsAreFrames DEF Decided
<1>4. news \subseteq Frame
  BY <1>3
<1>5. \A e \in hit : \A i \in r[e].aborts : FrameOf("AbortFault", e, i) \in news
  BY <1>3
<1> HIDE DEF news
<1>6. /\ sending' \in [Task -> SUBSET Frame] /\ sending'[t] = news
      /\ \A u \in Task : u # t => sending'[u] = sending[u]
  BY <1>4 DEF Decides, Typed, news
<1>7. RecordsFit'
  <2> SUFFICES ASSUME NEW e \in Experiment
               PROVE  IF call[e] \in {"unsent", "checked"}
                      THEN store'[e] = NoRecord
                      ELSE Settled(store'[e], Target[e])
    BY DEF RecordsFit, Decides
  <2>1. CASE e \in hit
    BY <1>1, <1>2, <2>1, KnownMeans DEF Decided
  <2>2. CASE e \notin hit
    BY <1>1, <2>2 DEF RecordsFit
  <2> QED
    BY <2>1, <2>2
<1>8. AbortsKept'
  <2> SUFFICES ASSUME NEW e \in Experiment, NEW i \in DOMAIN Target[e],
                      Known(e)', store'[e].asked[i]
               PROVE  AbortPending(e, i)' \/ <<e, i>> \in gone'
    BY DEF AbortsKept
  <2>0. Known(e)
    BY <1>1, <1>2 DEF Known
  <2>1. CASE e \in hit /\ i \in r[e].aborts
    BY <1>5, <1>6, <2>1 DEF AbortPending
  <2>2. CASE ~(e \in hit /\ i \in r[e].aborts)
    <3>1. store[e].asked[i]
      BY <1>1, <1>2, <2>2 DEF Decided
    <3>2. CASE <<e, i>> \in gone
      BY <3>2 DEF Decides
    <3>3. CASE AbortPending(e, i)
      <4>1. PICK u \in Task : FrameOf("AbortFault", e, i) \in sending[u] \cup {held[u].frame}
        BY <3>3 DEF AbortPending
      <4>2. CASE u # t
        BY <1>6, <4>1, <4>2 DEF AbortPending, Decides
      <4>3. CASE u = t
        <5>1. sending[t] = {} /\ held[t] = NotWaiting
          BY DEF Decides, Idle
        <5>2. FrameOf("AbortFault", e, i) = FrameOf(None, None, 0)
          BY <4>1, <4>3, <5>1 DEF NotWaiting, Waits
        <5> QED
          BY <5>2 DEF FrameOf, None
      <4> QED
        BY <4>2, <4>3
    <3> QED
      BY <2>0, <3>1, <3>2, <3>3 DEF AbortsKept
  <2> QED
    BY <2>1, <2>2
<1>9. CausesKept
  BY <1>1, <1>2 DEF CausesKept, Decided
<1> QED
  BY <1>6, <1>7, <1>8, <1>9 DEF Decides

LEMMA TasksAre ==
  /\ \A kind \in {"start", "halt", "deadline"}, e \in Experiment : <<kind, e>> \in Task
  /\ \A n \in StreamId : <<"stream", n>> \in Task
BY DEF Task

(* A decision over one record is a decision.                                *)
LEMMA DecidesOne ==
  ASSUME Typed, NEW e \in Experiment, NEW r, NEW t \in Task,
         Known(e), Decided(store[e], r, Target[e]), Idle(t),
         store' = [store EXCEPT ![e] = r.record],
         sending' = [sending EXCEPT ![t] = Aborts(e, r.aborts)],
         UNCHANGED <<call, held, gone>>
  PROVE  Decides({e}, [x \in {e} |-> r], t)
<1> DEFINE f == [x \in {e} |-> r]
<1>1. f[e] = r
  OBVIOUS
<1>2. UNION {Aborts(x, f[x].aborts) : x \in {e}} = Aborts(e, r.aborts)
  BY <1>1
<1>3. DOMAIN store' = Experiment
      /\ \A x \in Experiment : store'[x] = IF x \in {e} THEN f[x].record ELSE store[x]
  BY <1>1 DEF Typed
<1>4. \A x \in {e} : Known(x) /\ Decided(store[x], f[x], Target[x])
  BY <1>1
<1> HIDE DEF f
<1> QED
  BY <1>2, <1>3, <1>4 DEF Decides, f

(* So is none at all, by a task with nothing to send.                       *)
LEMMA DecidesNone ==
  ASSUME Typed, NEW t \in Task, Idle(t), UNCHANGED <<call, store, sending, held, gone>>
  PROVE  Decides({}, << >>, t)
<1>1. sending' = [sending EXCEPT ![t] = {}]
  BY DEF Typed, Idle
<1>2. UNION {Aborts(x, << >>[x].aborts) : x \in {}} = {}
  OBVIOUS
<1> QED
  BY <1>1, <1>2 DEF Decides, Typed

LEMMA HaltDecides ==
  ASSUME MasterInv, NEW e \in Experiment, HaltExperiment(e)
  PROVE  \E hit \in SUBSET Experiment : \E r : Decides(hit, r, <<"halt", e>>)
<1>0. <<"halt", e>> \in Task /\ Typed
  BY TasksAre DEF MasterInv
<1>1. CASE IsConcluded(store[e])
  <2>1. Decides({}, << >>, <<"halt", e>>)
    BY <1>0, <1>1, DecidesNone DEF HaltExperiment
  <2> QED
    BY <2>1
<1>2. CASE ~IsConcluded(store[e])
  <2> DEFINE r == Halt(store[e], Target[e])
  <2>1. Settled(store[e], Target[e])
    BY KnownMeans DEF MasterInv, HaltExperiment
  <2>2. Decided(store[e], r, Target[e])
    BY <1>2, <2>1, HaltFits, HostsOf
  <2>3. /\ Known(e) /\ Idle(<<"halt", e>>)
        /\ store' = [store EXCEPT ![e] = r.record]
        /\ sending' = [sending EXCEPT ![<<"halt", e>>] = Aborts(e, r.aborts)]
        /\ UNCHANGED <<call, held, gone>>
    BY <1>2 DEF HaltExperiment
  <2> HIDE DEF r
  <2>4. Decides({e}, [x \in {e} |-> r], <<"halt", e>>)
    BY <1>0, <2>2, <2>3, DecidesOne
  <2> QED
    BY <2>4
<1> QED
  BY <1>1, <1>2

LEMMA DeadlineDecides ==
  ASSUME MasterInv, NEW e \in Experiment, DeadlineFires(e)
  PROVE  \E hit \in SUBSET Experiment : \E r : Decides(hit, r, <<"deadline", e>>)
<1>0. <<"deadline", e>> \in Task /\ Typed
  BY TasksAre DEF MasterInv
<1>a. call[e] = "over" /\ Idle(<<"deadline", e>>)
  BY DEF MasterInv, TasksFit, DeadlineFires
<1>1. CASE IsConcluded(store[e])
  <2>1. Decides({}, << >>, <<"deadline", e>>)
    BY <1>0, <1>a, <1>1, DecidesNone DEF DeadlineFires
  <2> QED
    BY <2>1
<1>2. CASE ~IsConcluded(store[e])
  <2> DEFINE r == ResolveDeadline(store[e], Target[e])
  <2>1. Known(e) /\ Settled(store[e], Target[e])
    BY <1>a, KnownMeans DEF MasterInv
  <2>2. Decided(store[e], r, Target[e])
    BY <1>2, <2>1, DeadlineFits, HostsOf
  <2>3. /\ store' = [store EXCEPT ![e] = r.record]
        /\ sending' = [sending EXCEPT ![<<"deadline", e>>] = Aborts(e, r.aborts)]
        /\ UNCHANGED <<call, held, gone>>
    BY <1>2 DEF DeadlineFires
  <2> HIDE DEF r
  <2>4. Decides({e}, [x \in {e} |-> r], <<"deadline", e>>)
    BY <1>0, <1>a, <2>1, <2>2, <2>3, DecidesOne
  <2> QED
    BY <2>4
<1> QED
  BY <1>1, <1>2

LEMMA StatusDecides ==
  ASSUME MasterInv, NEW e \in Experiment, NEW n \in StreamId, NEW i \in DOMAIN Target[e],
         NEW s \in InstanceStates, Status(n, e, i, s)
  PROVE  \E hit \in SUBSET Experiment : \E r : Decides(hit, r, <<"stream", n>>)
<1> DEFINE r == ReactToUpdate(ApplyStatus(store[e], i, s), Target[e])
<1>0. <<"stream", n>> \in Task /\ Typed
  BY TasksAre DEF MasterInv
<1>1. Known(e) /\ Settled(store[e], Target[e]) /\ Accepts(store[e], i)
  BY KnownMeans DEF MasterInv, Status
<1>2. Decided(store[e], r, Target[e])
  BY <1>1, StatusFits, HostsOf
<1>3. /\ Idle(<<"stream", n>>)
      /\ store' = [store EXCEPT ![e] = r.record]
      /\ sending' = [sending EXCEPT ![<<"stream", n>>] = Aborts(e, r.aborts)]
      /\ UNCHANGED <<call, held, gone>>
  BY DEF Status, Readable
<1> HIDE DEF r
<1>4. Decides({e}, [x \in {e} |-> r], <<"stream", n>>)
  BY <1>0, <1>1, <1>2, <1>3, DecidesOne
<1> QED
  BY <1>4

LEMMA TaintDecides ==
  ASSUME MasterInv, NEW n \in StreamId, Taint(n)
  PROVE  \E hit \in SUBSET Experiment : \E r : Decides(hit, r, <<"stream", n>>)
<1> DEFINE h == stream[n].host
           hit == {e \in Experiment : Known(e) /\ ~IsConcluded(store[e])
                                        /\ h \in {Target[e][i] : i \in DOMAIN Target[e]}}
           r == [e \in hit |-> ReactToUpdate(RecordTaint(store[e], h), Target[e])]
<1>0. <<"stream", n>> \in Task /\ Typed
  BY TasksAre DEF MasterInv
<1>1. h \in Host /\ Idle(<<"stream", n>>)
  BY <1>0 DEF Taint, Readable, Typed
<1>2. \A e \in hit : Known(e) /\ Decided(store[e], r[e], Target[e])
  <2> TAKE e \in hit
  <2>1. e \in Experiment /\ Known(e) /\ ~IsConcluded(store[e])
    OBVIOUS
  <2>2. Settled(store[e], Target[e])
    BY <2>1, KnownMeans DEF MasterInv
  <2>3. Decided(store[e], ReactToUpdate(RecordTaint(store[e], h), Target[e]), Target[e])
    BY <1>1, <2>1, <2>2, TaintFits, HostsOf
  <2> QED
    BY <2>1, <2>3
<1>3. /\ store' = [e \in Experiment |-> IF e \in hit THEN r[e].record ELSE store[e]]
      /\ sending' = [sending EXCEPT ![<<"stream", n>>] = UNION {Aborts(e, r[e].aborts) : e \in hit}]
      /\ UNCHANGED <<call, held, gone>>
  BY DEF Taint
<1>4. hit \in SUBSET Experiment
  OBVIOUS
<1> HIDE DEF h, hit, r
<1>5. Decides(hit, r, <<"stream", n>>)
  BY <1>1, <1>2, <1>3, <1>4 DEF Decides
<1> QED
  BY <1>4, <1>5

-----------------------------------------------------------------------------
(***************************************************************************)
(* Types.                                                                  *)
(***************************************************************************)
StreamsTyped ==
  /\ stream \in [StreamId -> StreamShape]
  /\ \A n \in StreamId :
       /\ Len(stream[n].chan) <= ChanCap
       /\ stream[n].stage # "unused" => stream[n].host \in Host
  /\ session \in [Host -> 0..MaxStreams]

LEMMA ConstantsType ==
  MaxStreams \in Nat /\ MaxHalts \in Nat /\ ChanCap \in Nat /\ StreamId = 1..MaxStreams
BY ConstantsAssumption DEF ConstantsAssumption, StreamId

LEMMA StreamEdit ==
  ASSUME Typed, NEW n \in StreamId, NEW y \in StreamShape, Len(y.chan) <= ChanCap,
         y.stage # "unused" => y.host \in Host,
         stream' = [stream EXCEPT ![n] = y], session' \in [Host -> 0..MaxStreams]
  PROVE  StreamsTyped'
BY DEF Typed, StreamsTyped

LEMMA StreamsTypedStep ==
  ASSUME MasterInv, Next
  PROVE  StreamsTyped'
<1>0. Typed /\ StreamsTyped
  BY DEF MasterInv, Typed, StreamsTyped
<1>1. CASE UNCHANGED <<stream, session>>
  BY <1>0, <1>1 DEF StreamsTyped
<1>2. ASSUME NEW t \in Task, Push(t)
      PROVE  StreamsTyped'
  <2> DEFINE f == held[t].frame
             n == held[t].into
  <2>1. f \in Frame /\ n \in StreamId
    BY <1>0, <1>2 DEF Typed, Held, Push
  <2>2. CASE stream[n].stage = "open"
    <3> DEFINE y == [stream[n] EXCEPT !.chan = Append(@, f)]
    <3>1. stream' = [stream EXCEPT ![n] = y] /\ session' = session
      BY <1>0, <1>2, <2>1, <2>2 DEF Push, Typed
    <3>2. stream[n] \in StreamShape /\ stream[n].chan \in Seq(Frame)
      BY <1>0, <2>1 DEF Typed, StreamShape
    <3>3. Append(stream[n].chan, f) \in Seq(Frame)
          /\ Len(Append(stream[n].chan, f)) = Len(stream[n].chan) + 1
      BY <2>1, <3>2, AppendProperties
    <3>4. y \in StreamShape /\ y.chan = Append(stream[n].chan, f) /\ y.host = stream[n].host
      BY <3>2, <3>3 DEF StreamShape
    <3>5. Len(stream[n].chan) < ChanCap
      BY <1>2, <2>2 DEF Push, HasRoom
    <3>6. Len(y.chan) <= ChanCap /\ y.host \in Host
      BY <1>0, <2>1, <2>2, <3>2, <3>3, <3>4, <3>5, ConstantsType, LenProperties DEF Typed
    <3> HIDE DEF y
    <3> QED
      BY <1>0, <2>1, <3>1, <3>4, <3>6, StreamEdit DEF StreamsTyped
  <2>3. CASE stream[n].stage # "open"
    BY <1>0, <1>2, <2>3 DEF Push, StreamsTyped
  <2> QED
    BY <2>2, <2>3
<1>3. ASSUME NEW h \in Host, NEW n \in StreamId, Register(h, n)
      PROVE  StreamsTyped'
  <2> DEFINE y == [host |-> h, stage |-> "open", chan |-> << >>]
  <2>1. y \in StreamShape /\ Len(y.chan) <= ChanCap
    BY ConstantsType DEF StreamShape
  <2>2. session' \in [Host -> 0..MaxStreams]
    BY <1>0, <1>3, ConstantsType DEF Register, Typed
  <2>3. stream' = [stream EXCEPT ![n] = y]
    BY <1>3 DEF Register
  <2> QED
    BY <1>0, <2>1, <2>2, <2>3, StreamEdit
<1>4. ASSUME NEW n \in StreamId, Break(n)
      PROVE  StreamsTyped'
  <2> DEFINE y == [stream[n] EXCEPT !.stage = "broken", !.chan = << >>]
  <2>0. stream[n] \in StreamShape /\ stream[n].host \in Host
    BY <1>0, <1>4 DEF Typed, Break
  <2>a. << >> \in Seq(Frame) /\ Len(<< >>) = 0
    OBVIOUS
  <2>b. y.chan = << >> /\ y.host = stream[n].host /\ y \in StreamShape
    BY <2>0, <2>a DEF StreamShape
  <2>1. y \in StreamShape /\ Len(y.chan) <= ChanCap /\ y.host \in Host
    BY <2>0, <2>a, <2>b, ConstantsType
  <2>2. stream' = [stream EXCEPT ![n] = y] /\ session' = session
    BY <1>0, <1>4 DEF Break, Typed
  <2> HIDE DEF y
  <2> QED
    BY <1>0, <2>1, <2>2, StreamEdit DEF StreamsTyped
<1>5. ASSUME NEW n \in StreamId, Close(n)
      PROVE  StreamsTyped'
  <2> DEFINE y == [stream[n] EXCEPT !.stage = "closed"]
  <2>0. stream[n] \in StreamShape /\ stream[n].host \in Host /\ Len(stream[n].chan) <= ChanCap
    BY <1>0, <1>5 DEF Typed, Close
  <2>1. y \in StreamShape /\ Len(y.chan) <= ChanCap /\ y.host \in Host
    BY <2>0 DEF StreamShape
  <2>2. stream' = [stream EXCEPT ![n] = y]
    BY <1>0, <1>5 DEF Close, Typed
  <2>3. session' \in [Host -> 0..MaxStreams]
    BY <1>0, <1>5, ConstantsType DEF Close, Typed
  <2> HIDE DEF y
  <2> QED
    BY <1>0, <2>1, <2>2, <2>3, StreamEdit
<1>6. ASSUME NEW n \in StreamId, Deliver(n)
      PROVE  StreamsTyped'
  <2> DEFINE y == [stream[n] EXCEPT !.chan = Tail(@)]
  <2>0. /\ stream[n] \in StreamShape /\ stream[n].host \in Host /\ Len(stream[n].chan) <= ChanCap
        /\ stream[n].chan \in Seq(Frame) /\ stream[n].chan # << >>
    BY <1>0, <1>6 DEF Typed, Deliver, StreamShape
  <2>1. Tail(stream[n].chan) \in Seq(Frame) /\ Len(Tail(stream[n].chan)) = Len(stream[n].chan) - 1
    BY <2>0, HeadTailProperties
  <2>2. y \in StreamShape /\ y.chan = Tail(stream[n].chan) /\ y.host \in Host
    BY <2>0, <2>1 DEF StreamShape
  <2>3. Len(y.chan) <= ChanCap
    BY <2>0, <2>1, <2>2, ConstantsType, LenProperties
  <2>4. stream' = [stream EXCEPT ![n] = y] /\ session' = session
    BY <1>0, <1>6 DEF Deliver, Typed
  <2> HIDE DEF y
  <2> QED
    BY <1>0, <2>2, <2>3, <2>4, StreamEdit DEF StreamsTyped
<1>7. ASSUME NEW e \in Experiment,
             \/ Submit(e) \/ Accept(e) \/ ArmDeadline(e) \/ HaltExperiment(e) \/ DeadlineFires(e)
             \/ \E kind \in {"start", "halt"} : HangUp(e, kind)
      PROVE  UNCHANGED <<stream, session>>
  BY <1>7 DEF Submit, Accept, ArmDeadline, HaltExperiment, DeadlineFires, HangUp, streamVars
<1>8. ASSUME NEW t \in Task, LookUp(t)
      PROVE  UNCHANGED <<stream, session>>
  BY <1>8 DEF LookUp, streamVars
<1>9. ASSUME NEW n \in StreamId,
             \/ Taint(n) \/ Untaint(n)
             \/ \E e \in Experiment : \E i \in DOMAIN Target[e], s \in InstanceStates :
                  Status(n, e, i, s)
      PROVE  UNCHANGED <<stream, session>>
  BY <1>9 DEF Taint, Untaint, Status, streamVars
<1> QED
  BY <1>1, <1>2, <1>3, <1>4, <1>5, <1>6, <1>7, <1>8, <1>9 DEF Next, Work

(* The rest of the types, where no decision is taken.                       *)
TasksTyped ==
  /\ call \in [Experiment -> {"unsent", "checked", "salvo", "over", "cancelled"}]
  /\ DOMAIN store = Experiment
  /\ armed \subseteq Experiment
  /\ halts \in [Experiment -> 0..MaxHalts]
  /\ sending \in [Task -> SUBSET Frame]
  /\ held \in [Task -> Held]
  /\ flagged \subseteq Host

LEMMA RequestsTyped ==
  ASSUME MasterInv, NEW e \in Experiment,
         \/ Submit(e) \/ Accept(e) \/ ArmDeadline(e) \/ HaltExperiment(e) \/ DeadlineFires(e)
         \/ \E kind \in {"start", "halt"} : HangUp(e, kind)
  PROVE  TasksTyped'
<1>0. Typed /\ RecordsFit /\ AbortsKept
  BY DEF MasterInv
<1>1. CASE Submit(e)
  BY <1>0, <1>1 DEF Submit, Typed, TasksTyped, recordVars, streamVars
<1>2. CASE Accept(e)
  <2> DEFINE salvo == {FrameOf("RunFault", e, i) : i \in DOMAIN Target[e]}
  <2>1. salvo \subseteq Frame
    <3> SUFFICES ASSUME NEW i \in DOMAIN Target[e]
                 PROVE  FrameOf("RunFault", e, i) \in Frame
      OBVIOUS
    <3>1. Target[e] \in Seq(Host)
      BY HostsOf
    <3>2. i \in Nat
      BY <3>1
    <3> QED
      BY <3>2 DEF FrameOf, Frame
  <2>2. sending' = [sending EXCEPT ![<<"start", e>>] = salvo]
    BY <1>2 DEF Accept
  <2> HIDE DEF salvo
  <2>3. sending' \in [Task -> SUBSET Frame]
    BY <1>0, <2>1, <2>2 DEF Typed
  <2> QED
    BY <1>0, <1>2, <2>3 DEF Accept, Typed, TasksTyped, streamVars
<1>3. CASE ArmDeadline(e)
  BY <1>0, <1>3 DEF ArmDeadline, Typed, TasksTyped, streamVars
<1>4. CASE HaltExperiment(e)
  <2>1. <<"halt", e>> \in Task
    BY TasksAre
  <2>2. DOMAIN store' = Experiment /\ sending' \in [Task -> SUBSET Frame]
    BY <1>0, <1>4, <2>1, HaltDecides, DecidesKeeps
  <2>3. halts' \in [Experiment -> 0..MaxHalts]
    BY <1>0, <1>4, ConstantsType DEF HaltExperiment, Typed
  <2>4. UNCHANGED <<call, armed, held, flagged>>
    BY <1>4 DEF HaltExperiment, streamVars
  <2> QED
    BY <1>0, <2>2, <2>3, <2>4 DEF Typed, TasksTyped
<1>5. CASE DeadlineFires(e)
  <2>1. <<"deadline", e>> \in Task
    BY TasksAre
  <2>2. DOMAIN store' = Experiment /\ sending' \in [Task -> SUBSET Frame]
    BY <1>0, <1>5, <2>1, DeadlineDecides, DecidesKeeps
  <2>3. UNCHANGED <<call, halts, held, flagged>> /\ armed' \subseteq armed
    BY <1>5 DEF DeadlineFires, streamVars
  <2> QED
    BY <1>0, <2>2, <2>3 DEF Typed, TasksTyped
<1>6. ASSUME NEW kind \in {"start", "halt"}, HangUp(e, kind)
      PROVE  TasksTyped'
  <2>1. call' \in [Experiment -> {"unsent", "checked", "salvo", "over", "cancelled"}]
    BY <1>0, <1>6 DEF HangUp, Typed
  <2>2. sending' \in [Task -> SUBSET Frame] /\ held' \in [Task -> Held]
    BY <1>0, <1>6 DEF HangUp, Typed, Held
  <2>3. UNCHANGED <<store, armed, halts, flagged>>
    BY <1>6 DEF HangUp, recordVars, streamVars
  <2> QED
    BY <1>0, <2>1, <2>2, <2>3 DEF Typed, TasksTyped
<1> QED
  BY <1>1, <1>2, <1>3, <1>4, <1>5, <1>6

LEMMA SendersTyped ==
  ASSUME Typed, NEW t \in Task, Work(t)
  PROVE  TasksTyped'
<1>1. CASE LookUp(t)
  <2>1. PICK f \in NextFrames(t) :
           LET n == session[HostOf(f)]
           IN  /\ sending' = [sending EXCEPT ![t] = @ \ {f}]
               /\ held' = [held EXCEPT ![t] = IF n = 0 THEN NotWaiting ELSE Waits(f, n)]
    BY <1>1 DEF LookUp
  <2>2. f \in Frame /\ HostOf(f) \in Host
    <3>1. f \in Frame
      BY DEF NextFrames, Typed
    <3>2. f.exp \in Experiment /\ f.nr \in DOMAIN Target[f.exp]
      BY <3>1 DEF Frame
    <3>3. Target[f.exp] \in Seq(Host)
      BY <3>2, HostsOf
    <3> QED
      BY <3>1, <3>2, <3>3 DEF HostOf
  <2>3. session[HostOf(f)] \in 0..MaxStreams
    BY <2>2 DEF Typed
  <2>4. session[HostOf(f)] # 0 => Waits(f, session[HostOf(f)]) \in Held
    BY <2>2, <2>3, ConstantsType DEF Held, Waits
  <2>5. held' \in [Task -> Held] /\ sending' \in [Task -> SUBSET Frame]
    BY <2>1, <2>4 DEF Typed, Held
  <2>6. UNCHANGED <<call, store, armed, halts, flagged>>
    BY <1>1 DEF LookUp, recordVars, streamVars
  <2> QED
    BY <2>5, <2>6 DEF Typed, TasksTyped
<1>2. CASE Push(t)
  <2>1. held' \in [Task -> Held]
    BY <1>2 DEF Push, Typed, Held
  <2>2. UNCHANGED <<call, store, armed, halts, sending, flagged>>
    BY <1>2 DEF Push, recordVars, streamVars
  <2> QED
    BY <2>1, <2>2 DEF Typed, TasksTyped
<1> QED
  BY <1>1, <1>2 DEF Work

LEMMA StreamTasksTyped ==
  ASSUME MasterInv, NEW n \in StreamId,
         \/ \E h \in Host : Register(h, n)
         \/ Break(n) \/ Close(n) \/ Deliver(n) \/ Taint(n) \/ Untaint(n)
         \/ \E e \in Experiment : \E i \in DOMAIN Target[e], s \in InstanceStates :
              Status(n, e, i, s)
  PROVE  TasksTyped'
<1>0. Typed /\ RecordsFit /\ AbortsKept /\ <<"stream", n>> \in Task
  BY TasksAre DEF MasterInv
<1>1. CASE \/ \E h \in Host : Register(h, n)
           \/ Break(n) \/ Close(n) \/ Deliver(n)
  <2>1. UNCHANGED <<call, store, armed, halts, sending, held, flagged>>
    BY <1>1 DEF Register, Break, Close, Deliver, recordVars
  <2> QED
    BY <1>0, <2>1 DEF Typed, TasksTyped
<1>2. CASE Untaint(n)
  BY <1>0, <1>2 DEF Untaint, Typed, TasksTyped, recordVars
<1>3. CASE Taint(n)
  <2>1. DOMAIN store' = Experiment /\ sending' \in [Task -> SUBSET Frame]
    BY <1>0, <1>3, TaintDecides, DecidesKeeps
  <2>2. UNCHANGED <<call, armed, halts, held>> /\ flagged' = flagged \cup {stream[n].host}
    BY <1>3 DEF Taint
  <2>3. stream[n].host \in Host
    BY <1>0, <1>3 DEF Taint, Readable, Typed
  <2> QED
    BY <1>0, <2>1, <2>2, <2>3 DEF Typed, TasksTyped
<1>4. ASSUME NEW e \in Experiment, NEW i \in DOMAIN Target[e], NEW s \in InstanceStates,
             Status(n, e, i, s)
      PROVE  TasksTyped'
  <2>1. DOMAIN store' = Experiment /\ sending' \in [Task -> SUBSET Frame]
    BY <1>0, <1>4, StatusDecides, DecidesKeeps
  <2>2. UNCHANGED <<call, armed, halts, held, flagged>>
    BY <1>4 DEF Status, streamVars
  <2> QED
    BY <1>0, <2>1, <2>2 DEF Typed, TasksTyped
<1> QED
  BY <1>1, <1>2, <1>3, <1>4

LEMMA TypedStep ==
  ASSUME MasterInv, Next
  PROVE  Typed'
<1>1. TasksTyped'
  BY RequestsTyped, SendersTyped, StreamTasksTyped DEF Next, MasterInv
<1>2. StreamsTyped'
  BY StreamsTypedStep
<1> QED
  BY <1>1, <1>2 DEF Typed, TasksTyped, StreamsTyped

-----------------------------------------------------------------------------
(***************************************************************************)
(* Streams and sessions.                                                   *)
(***************************************************************************)
SameStreams ==
  /\ session' = session
  /\ \A n \in StreamId :
       stream'[n].host = stream[n].host /\ stream'[n].stage = stream[n].stage

LEMMA StreamsOrderedStep ==
  ASSUME MasterInv, Next
  PROVE  StreamsOrdered'
<1>0. Typed /\ StreamsOrdered
  BY DEF MasterInv
<1>1. CASE SameStreams
  BY <1>0, <1>1 DEF SameStreams, StreamsOrdered
<1>2. ASSUME NEW h \in Host, NEW n \in StreamId, Register(h, n)
      PROVE  StreamsOrdered'
  <2>1. /\ stream'[n].host = h /\ stream'[n].stage = "open"
        /\ \A m \in StreamId : m # n => stream'[m] = stream[m]
        /\ session'[h] = n
        /\ \A g \in Host : g # h => session'[g] = session[g]
    BY <1>0, <1>2 DEF Register, Typed
  <2>2. /\ stream[n].stage = "unused"
        /\ \A m \in StreamId : m < n => stream[m].stage # "unused"
    BY <1>2 DEF Register
  <2>3. \A m, k \in StreamId : m < k /\ stream'[k].stage # "unused" => stream'[m].stage # "unused"
    <3> SUFFICES ASSUME NEW m \in StreamId, NEW k \in StreamId, m < k, stream'[k].stage # "unused"
                 PROVE  stream'[m].stage # "unused"
      OBVIOUS
    <3>1. CASE m = n
      BY <2>1, <3>1
    <3>2. CASE m # n /\ k = n
      BY <2>1, <2>2, <3>2
    <3>3. CASE m # n /\ k # n
      BY <1>0, <2>1, <3>3 DEF StreamsOrdered
    <3> QED
      BY <3>1, <3>2, <3>3
  <2>4. ASSUME NEW k \in StreamId, stream'[k].stage \in {"open", "broken"},
               \A m \in StreamId : m > k /\ stream'[m].stage # "unused" => stream'[m].host # stream'[k].host
        PROVE  session'[stream'[k].host] = k
    <3>1. CASE k = n
      BY <2>1, <3>1
    <3>2. CASE k # n
      <4>1. stream'[k] = stream[k] /\ stream[k].host \in Host
        BY <1>0, <2>1, <2>4, <3>2 DEF Typed
      <4>2. k < n
        <5>1. k \in Int /\ n \in Int
          BY ConstantsType
        <5>2. ~(n < k)
          BY <1>0, <2>2, <2>4, <4>1 DEF StreamsOrdered
        <5> QED
          BY <3>2, <5>1, <5>2
      <4>3. stream[k].host # h
        BY <2>1, <2>4, <4>1, <4>2, ConstantsType
      <4>4. \A m \in StreamId : m > k /\ stream[m].stage # "unused" => stream[m].host # stream[k].host
        BY <2>1, <2>2, <2>4, <4>1
      <4>5. session[stream[k].host] = k
        BY <1>0, <2>4, <4>1, <4>4 DEF StreamsOrdered
      <4> QED
        BY <2>1, <4>1, <4>3, <4>5
    <3> QED
      BY <3>1, <3>2
  <2> QED
    BY <2>3, <2>4 DEF StreamsOrdered
<1>3. ASSUME NEW n \in StreamId, Break(n)
      PROVE  StreamsOrdered'
  <2>1. /\ session' = session
        /\ \A m \in StreamId : stream'[m].host = stream[m].host
        /\ \A m \in StreamId : m # n => stream'[m].stage = stream[m].stage
        /\ stream[n].stage = "open" /\ stream'[n].stage = "broken"
    BY <1>0, <1>3 DEF Break, Typed, StreamShape
  <2> QED
    BY <1>0, <2>1 DEF StreamsOrdered
<1>4. ASSUME NEW n \in StreamId, Close(n)
      PROVE  StreamsOrdered'
  <2>1. /\ \A h \in Host : session'[h] = IF session[h] = n THEN 0 ELSE session[h]
        /\ \A m \in StreamId : stream'[m].host = stream[m].host
        /\ \A m \in StreamId : m # n => stream'[m].stage = stream[m].stage
        /\ stream[n].stage = "broken" /\ stream'[n].stage = "closed"
    BY <1>0, <1>4 DEF Close, Typed, StreamShape
  <2>2. \A m \in StreamId : (stream'[m].stage = "unused") = (stream[m].stage = "unused")
    BY <2>1
  <2>3. ASSUME NEW k \in StreamId, stream'[k].stage \in {"open", "broken"},
               \A m \in StreamId : m > k /\ stream'[m].stage # "unused" => stream'[m].host # stream'[k].host
        PROVE  session'[stream'[k].host] = k
    <3>1. k # n
      BY <2>1, <2>3
    <3>2. stream[k].stage \in {"open", "broken"} /\ stream[k].host \in Host
      BY <1>0, <2>1, <2>3, <3>1 DEF Typed
    <3>3. session[stream[k].host] = k
      BY <1>0, <2>1, <2>2, <2>3, <3>2 DEF StreamsOrdered
    <3> QED
      BY <2>1, <3>1, <3>2, <3>3
  <2> QED
    BY <1>0, <2>2, <2>3 DEF StreamsOrdered
<1>5. ASSUME NEW n \in StreamId, Deliver(n)
      PROVE  SameStreams
  BY <1>0, <1>5 DEF Deliver, Typed, StreamShape, SameStreams
<1>6. ASSUME NEW t \in Task, Work(t)
      PROVE  SameStreams
  <2>1. CASE LookUp(t)
    BY <2>1 DEF LookUp, streamVars, SameStreams
  <2>2. CASE Push(t)
    BY <1>0, <2>2 DEF Push, Typed, StreamShape, SameStreams
  <2> QED
    BY <1>6, <2>1, <2>2 DEF Work
<1>7. ASSUME NEW e \in Experiment,
             \/ Submit(e) \/ Accept(e) \/ ArmDeadline(e) \/ HaltExperiment(e) \/ DeadlineFires(e)
             \/ \E kind \in {"start", "halt"} : HangUp(e, kind)
      PROVE  SameStreams
  BY <1>7 DEF Submit, Accept, ArmDeadline, HaltExperiment, DeadlineFires, HangUp, streamVars, SameStreams
<1>8. ASSUME NEW n \in StreamId,
             \/ Taint(n) \/ Untaint(n)
             \/ \E e \in Experiment : \E i \in DOMAIN Target[e], s \in InstanceStates :
                  Status(n, e, i, s)
      PROVE  SameStreams
  BY <1>8 DEF Taint, Untaint, Status, streamVars, SameStreams
<1> QED
  BY <1>1, <1>2, <1>3, <1>4, <1>5, <1>6, <1>7, <1>8 DEF Next

-----------------------------------------------------------------------------
(***************************************************************************)
(* Requests and their deadlines.                                           *)
(***************************************************************************)
SameTasks ==
  /\ UNCHANGED <<call, armed>>
  /\ \A e \in Experiment, kind \in {"start", "deadline"} :
       Idle(<<kind, e>>) => Idle(<<kind, e>>)'

LEMMA TasksFitStep ==
  ASSUME MasterInv, Next
  PROVE  TasksFit'
<1>0. Typed /\ TasksFit /\ RecordsFit /\ AbortsKept
  BY DEF MasterInv
<1>1. CASE SameTasks
  BY <1>0, <1>1 DEF SameTasks, TasksFit
<1>2. ASSUME NEW e \in Experiment, Submit(e)
      PROVE  TasksFit'
  <2>1. /\ call' = [call EXCEPT ![e] = "checked"] /\ call[e] = "unsent"
        /\ UNCHANGED <<armed, sending, held>>
    BY <1>2 DEF Submit, recordVars
  <2> QED
    BY <1>0, <2>1 DEF TasksFit, Typed, Idle
<1>3. ASSUME NEW e \in Experiment, Accept(e)
      PROVE  TasksFit'
  <2>1. /\ call' = [call EXCEPT ![e] = "salvo"] /\ call[e] = "checked"
        /\ UNCHANGED <<armed, held>>
        /\ \A u \in Task : u # <<"start", e>> => sending'[u] = sending[u]
    BY <1>0, <1>3 DEF Accept, Typed
  <2>2. \A x \in Experiment : <<"deadline", x>> \in Task /\ <<"deadline", x>> # <<"start", e>>
    BY TasksAre
  <2>3. \A x \in Experiment : x # e => <<"start", x>> \in Task /\ <<"start", x>> # <<"start", e>>
    BY TasksAre
  <2>4. \A x \in Experiment : /\ Idle(<<"deadline", x>>)' = Idle(<<"deadline", x>>)
                              /\ x # e => Idle(<<"start", x>>)' = Idle(<<"start", x>>)
    BY <2>1, <2>2, <2>3 DEF Idle
  <2>5. \A x \in Experiment : call'[x] = IF x = e THEN "salvo" ELSE call[x]
    BY <1>0, <2>1 DEF Typed
  <2> QED
    BY <1>0, <2>1, <2>4, <2>5 DEF TasksFit
<1>4. ASSUME NEW e \in Experiment, ArmDeadline(e)
      PROVE  TasksFit'
  <2>1. /\ call' = [call EXCEPT ![e] = "over"] /\ call[e] = "salvo" /\ Idle(<<"start", e>>)
        /\ armed' = armed \cup {e} /\ UNCHANGED <<sending, held>>
    BY <1>4 DEF ArmDeadline
  <2>2. \A x \in Experiment : call'[x] = IF x = e THEN "over" ELSE call[x]
    BY <1>0, <2>1 DEF Typed
  <2>3. \A t \in Task : Idle(t)' = Idle(t)
    BY <2>1 DEF Idle
  <2>4. \A x \in Experiment : Idle(<<"start", x>>)' = Idle(<<"start", x>>)
                              /\ Idle(<<"deadline", x>>)' = Idle(<<"deadline", x>>)
    BY <2>3, TasksAre
  <2> QED
    BY <1>0, <2>1, <2>2, <2>4 DEF TasksFit
<1>5. ASSUME NEW e \in Experiment, DeadlineFires(e)
      PROVE  TasksFit'
  <2>1. \A u \in Task : u # <<"deadline", e>> => sending'[u] = sending[u]
    <3>1. <<"deadline", e>> \in Task
      BY TasksAre
    <3> QED
      BY <1>0, <1>5, <3>1, DeadlineDecides, DecidesKeeps
  <2>2. UNCHANGED <<call, held>> /\ e \in armed /\ armed' = armed \ {e}
    BY <1>5 DEF DeadlineFires
  <2>3. \A x \in Experiment : <<"start", x>> \in Task /\ <<"start", x>> # <<"deadline", e>>
    BY TasksAre
  <2>4. \A x \in Experiment : x # e => <<"deadline", x>> \in Task /\ <<"deadline", x>> # <<"deadline", e>>
    BY TasksAre
  <2>5. \A x \in Experiment : /\ Idle(<<"start", x>>)' = Idle(<<"start", x>>)
                              /\ x # e => Idle(<<"deadline", x>>)' = Idle(<<"deadline", x>>)
    BY <2>1, <2>2, <2>3, <2>4 DEF Idle
  <2> QED
    BY <1>0, <2>2, <2>5 DEF TasksFit
<1>6. ASSUME NEW e \in Experiment, NEW kind \in {"start", "halt"}, HangUp(e, kind)
      PROVE  TasksFit'
  <2>0. <<kind, e>> \in Task
    BY TasksAre
  <2>1. /\ ~Idle(<<kind, e>>)
        /\ sending' = [sending EXCEPT ![<<kind, e>>] = {}]
        /\ held' = [held EXCEPT ![<<kind, e>>] = NotWaiting]
        /\ armed' = armed
    BY <1>6 DEF HangUp, Idle, recordVars
  <2>2. \A t \in Task : Idle(t) => Idle(t)'
    BY <1>0, <2>0, <2>1 DEF Idle, Typed
  <2>3. \A x \in Experiment : /\ Idle(<<"start", x>>) => Idle(<<"start", x>>)'
                              /\ Idle(<<"deadline", x>>) => Idle(<<"deadline", x>>)'
    BY <2>2, TasksAre
  <2>4. CASE kind = "halt"
    <3>1. call' = call
      BY <1>6, <2>4 DEF HangUp
    <3> QED
      BY <1>0, <2>1, <2>3, <3>1 DEF TasksFit
  <2>5. CASE kind = "start"
    <3>1. call[e] = "salvo"
      BY <1>0, <2>1, <2>5 DEF TasksFit
    <3>2. \A x \in Experiment : call'[x] = IF x = e THEN "cancelled" ELSE call[x]
      BY <1>0, <1>6, <2>5 DEF HangUp, Typed
    <3>3. Idle(<<"start", e>>)'
      BY <1>0, <2>0, <2>1, <2>5 DEF Idle, Typed
    <3> QED
      BY <1>0, <2>1, <2>3, <3>1, <3>2, <3>3 DEF TasksFit
  <2> QED
    BY <2>4, <2>5
<1>7. ASSUME NEW e \in Experiment, HaltExperiment(e)
      PROVE  SameTasks
  <2>1. \A u \in Task : u # <<"halt", e>> => sending'[u] = sending[u]
    <3>1. <<"halt", e>> \in Task
      BY TasksAre
    <3> QED
      BY <1>0, <1>7, <3>1, HaltDecides, DecidesKeeps
  <2>2. \A x \in Experiment, kind \in {"start", "deadline"} :
           <<kind, x>> \in Task /\ <<kind, x>> # <<"halt", e>>
    BY TasksAre
  <2>3. UNCHANGED <<call, armed, held>>
    BY <1>7 DEF HaltExperiment
  <2> QED
    BY <2>1, <2>2, <2>3 DEF SameTasks, Idle
<1>8. ASSUME NEW t \in Task, Work(t)
      PROVE  SameTasks
  <2>1. UNCHANGED <<call, armed>> /\ ~Idle(t)
    BY <1>8 DEF Work, LookUp, Push, NextFrames, Idle, recordVars
  <2>2. \A u \in Task : u # t => sending'[u] = sending[u] /\ held'[u] = held[u]
    BY <1>0, <1>8 DEF Work, LookUp, Push, Typed
  <2>3. \A u \in Task : Idle(u) => Idle(u)'
    BY <2>1, <2>2 DEF Idle
  <2> QED
    BY <2>1, <2>3, TasksAre DEF SameTasks
<1>9. ASSUME NEW n \in StreamId,
             \/ Taint(n)
             \/ \E e \in Experiment : \E i \in DOMAIN Target[e], s \in InstanceStates :
                  Status(n, e, i, s)
      PROVE  SameTasks
  <2>1. \A u \in Task : u # <<"stream", n>> => sending'[u] = sending[u]
    <3>1. <<"stream", n>> \in Task
      BY TasksAre
    <3> QED
      BY <1>0, <1>9, <3>1, TaintDecides, StatusDecides, DecidesKeeps
  <2>2. \A x \in Experiment, kind \in {"start", "deadline"} :
           <<kind, x>> \in Task /\ <<kind, x>> # <<"stream", n>>
    BY TasksAre
  <2>3. UNCHANGED <<call, armed, held>>
    BY <1>9 DEF Taint, Status
  <2> QED
    BY <2>1, <2>2, <2>3 DEF SameTasks, Idle
<1>10. ASSUME NEW n \in StreamId,
              \/ \E h \in Host : Register(h, n)
              \/ Break(n) \/ Close(n) \/ Deliver(n) \/ Untaint(n)
       PROVE  SameTasks
  <2>1. UNCHANGED <<call, armed, sending, held>>
    BY <1>10 DEF Register, Break, Close, Deliver, Untaint, recordVars
  <2> QED
    BY <2>1 DEF SameTasks, Idle
<1> QED
  BY <1>1, <1>2, <1>3, <1>4, <1>5, <1>6, <1>7, <1>8, <1>9, <1>10 DEF Next

-----------------------------------------------------------------------------
(***************************************************************************)
(* Records and the aborts they asked for.                                  *)
(***************************************************************************)
SameRecords ==
  /\ store' = store
  /\ \A e \in Experiment :
       (call'[e] \in {"unsent", "checked"}) = (call[e] \in {"unsent", "checked"})
  /\ gone \subseteq gone'
  /\ \A e \in Experiment : \A i \in DOMAIN Target[e] :
       AbortPending(e, i) => AbortPending(e, i)' \/ <<e, i>> \in gone'

LEMMA SameRecordsKeep ==
  ASSUME MasterInv, SameRecords
  PROVE  RecordsFit' /\ AbortsKept' /\ CausesKept
BY DEF MasterInv, SameRecords, RecordsFit, AbortsKept, CausesKept, Known

(* A frame that leaves a task reaches a channel, or is dropped.             *)
LEMMA SendersKeep ==
  ASSUME MasterInv, NEW t \in Task, Work(t)
  PROVE  SameRecords
<1>0. Typed
  BY DEF MasterInv
<1>1. UNCHANGED <<store, call>> /\ gone \subseteq gone'
  BY DEF Work, LookUp, Push, recordVars
<1>2. \A u \in Task : u # t => sending'[u] = sending[u] /\ held'[u] = held[u]
  BY <1>0 DEF Work, LookUp, Push, Typed
<1>3. ASSUME NEW e \in Experiment, NEW i \in DOMAIN Target[e], AbortPending(e, i)
      PROVE  AbortPending(e, i)' \/ <<e, i>> \in gone'
  <2> DEFINE g == FrameOf("AbortFault", e, i)
  <2>0. Left(g) = {<<e, i>>} /\ g # NotWaiting.frame
    BY DEF Left, FrameOf, NotWaiting, Waits, None
  <2> HIDE DEF g
  <2>1. PICK u \in Task : g \in sending[u] \cup {held[u].frame}
    BY <1>3 DEF AbortPending, g
  <2>2. CASE u # t
    BY <1>2, <2>1, <2>2 DEF AbortPending, g
  <2>3. CASE u = t /\ LookUp(t)
    <3>1. PICK f \in NextFrames(t) :
             LET n == session[HostOf(f)]
             IN  /\ sending' = [sending EXCEPT ![t] = @ \ {f}]
                 /\ held' = [held EXCEPT ![t] = IF n = 0 THEN NotWaiting ELSE Waits(f, n)]
                 /\ gone' = IF n = 0 THEN gone \cup Left(f) ELSE gone
      BY <2>3 DEF LookUp
    <3>2. g \in sending[t]
      BY <2>0, <2>1, <2>3 DEF LookUp
    <3>3. CASE g # f
      <4>1. g \in sending'[t]
        BY <1>0, <3>1, <3>2, <3>3 DEF Typed
      <4> QED
        BY <4>1 DEF AbortPending, g
    <3>4. CASE g = f /\ session[HostOf(f)] = 0
      BY <2>0, <3>1, <3>4
    <3>5. CASE g = f /\ session[HostOf(f)] # 0
      <4>1. held'[t].frame = g
        BY <1>0, <3>1, <3>5 DEF Typed, Waits
      <4> QED
        BY <4>1 DEF AbortPending, g
    <3> QED
      BY <3>3, <3>4, <3>5
  <2>4. CASE u = t /\ Push(t)
    <3>1. gone' = gone \cup Left(held[t].frame) /\ sending' = sending
      BY <2>4 DEF Push
    <3>2. CASE g \in sending[t]
      BY <3>1, <3>2 DEF AbortPending, g
    <3>3. CASE g = held[t].frame
      BY <2>0, <3>1, <3>3
    <3> QED
      BY <2>1, <2>4, <3>2, <3>3
  <2> QED
    BY <2>2, <2>3, <2>4 DEF Work
<1> QED
  BY <1>1, <1>3 DEF SameRecords

LEMMA HangUpKeeps ==
  ASSUME MasterInv, NEW e \in Experiment, NEW kind \in {"start", "halt"}, HangUp(e, kind)
  PROVE  SameRecords
<1> DEFINE t == <<kind, e>>
<1>0. Typed /\ t \in Task /\ TasksFit
  BY TasksAre DEF MasterInv
<1>1. /\ held[t] # NotWaiting /\ store' = store
      /\ sending' = [sending EXCEPT ![t] = {}]
      /\ held' = [held EXCEPT ![t] = NotWaiting]
      /\ gone' = gone \cup UNION {Left(f) : f \in sending[t] \cup {held[t].frame}}
  BY DEF HangUp, recordVars
<1>2. \A x \in Experiment :
         (call'[x] \in {"unsent", "checked"}) = (call[x] \in {"unsent", "checked"})
  <2>1. CASE kind = "halt"
    BY <2>1 DEF HangUp
  <2>2. CASE kind = "start"
    <3>1. call[e] = "salvo"
      BY <1>0, <1>1, <2>2 DEF TasksFit, Idle
    <3>2. \A x \in Experiment : call'[x] = IF x = e THEN "cancelled" ELSE call[x]
      BY <1>0, <2>2 DEF HangUp, Typed
    <3> QED
      BY <3>1, <3>2
  <2> QED
    BY <2>1, <2>2
<1> HIDE DEF t
<1>3. ASSUME NEW x \in Experiment, NEW i \in DOMAIN Target[x], AbortPending(x, i)
      PROVE  AbortPending(x, i)' \/ <<x, i>> \in gone'
  <2> DEFINE g == FrameOf("AbortFault", x, i)
  <2>0. Left(g) = {<<x, i>>}
    BY DEF Left, FrameOf
  <2> HIDE DEF g
  <2>1. PICK u \in Task : g \in sending[u] \cup {held[u].frame}
    BY <1>3 DEF AbortPending, g
  <2>2. CASE u # t
    <3>1. sending'[u] = sending[u] /\ held'[u] = held[u]
      BY <1>0, <1>1, <2>2 DEF Typed
    <3> QED
      BY <2>1, <3>1 DEF AbortPending, g
  <2>3. CASE u = t
    BY <1>1, <2>0, <2>1, <2>3
  <2> QED
    BY <2>2, <2>3
<1> QED
  BY <1>1, <1>2, <1>3 DEF SameRecords

LEMMA AcceptKeeps ==
  ASSUME MasterInv, NEW e \in Experiment, Accept(e)
  PROVE  RecordsFit' /\ AbortsKept' /\ CausesKept
<1>0. Typed /\ RecordsFit /\ AbortsKept /\ TasksFit /\ <<"start", e>> \in Task
  BY TasksAre DEF MasterInv
<1>1. /\ call[e] = "checked"
      /\ \A x \in Experiment : call'[x] = IF x = e THEN "salvo" ELSE call[x]
      /\ \A x \in Experiment : store'[x] = IF x = e THEN Mint(Target[e]) ELSE store[x]
      /\ UNCHANGED <<held, gone>>
      /\ \A u \in Task : u # <<"start", e>> => sending'[u] = sending[u]
  BY <1>0 DEF Accept, Typed
<1>2. Settled(Mint(Target[e]), Target[e]) /\ \A i \in DOMAIN Target[e] : ~Mint(Target[e]).asked[i]
  BY MintFits, HostsOf
<1>3. RecordsFit'
  BY <1>0, <1>1, <1>2 DEF RecordsFit
<1>4. CausesKept
  <2>1. ~Known(e)
    BY <1>0, <1>1, KnownMeans
  <2> QED
    BY <1>1, <2>1 DEF CausesKept
<1>5. Idle(<<"start", e>>)
  BY <1>0, <1>1 DEF TasksFit
<1>6. AbortsKept'
  <2> SUFFICES ASSUME NEW x \in Experiment, NEW i \in DOMAIN Target[x], Known(x)', store'[x].asked[i]
               PROVE  AbortPending(x, i)' \/ <<x, i>> \in gone'
    BY DEF AbortsKept
  <2>1. x # e /\ store'[x] = store[x]
    BY <1>1, <1>2
  <2>2. AbortPending(x, i) \/ <<x, i>> \in gone
    BY <1>0, <2>1 DEF AbortsKept, Known
  <2>3. CASE AbortPending(x, i)
    <3>1. PICK u \in Task : FrameOf("AbortFault", x, i) \in sending[u] \cup {held[u].frame}
      BY <2>3 DEF AbortPending
    <3>2. u # <<"start", e>>
      <4>1. FrameOf("AbortFault", x, i) # NotWaiting.frame
        BY DEF FrameOf, NotWaiting, Waits, None
      <4> QED
        BY <1>5, <3>1, <4>1 DEF Idle
    <3> QED
      BY <1>1, <3>1, <3>2 DEF AbortPending
  <2> QED
    BY <1>1, <2>2, <2>3
<1> QED
  BY <1>3, <1>4, <1>6

LEMMA RecordsStep ==
  ASSUME MasterInv, Next
  PROVE  RecordsFit' /\ AbortsKept' /\ CausesKept
<1>0. Typed /\ RecordsFit /\ AbortsKept
  BY DEF MasterInv
<1>1. ASSUME NEW e \in Experiment, Submit(e) \/ ArmDeadline(e)
      PROVE  SameRecords
  BY <1>0, <1>1 DEF Submit, ArmDeadline, Typed, SameRecords, AbortPending, recordVars
<1>2. ASSUME NEW n \in StreamId,
             \/ \E h \in Host : Register(h, n)
             \/ Break(n) \/ Close(n) \/ Deliver(n) \/ Untaint(n)
      PROVE  SameRecords
  <2>1. UNCHANGED <<call, store, sending, held, gone>>
    BY <1>2 DEF Register, Break, Close, Deliver, Untaint, recordVars
  <2> QED
    BY <2>1 DEF SameRecords, AbortPending
<1>3. ASSUME NEW e \in Experiment, HaltExperiment(e)
      PROVE  RecordsFit' /\ AbortsKept' /\ CausesKept
  BY <1>0, <1>3, HaltDecides, DecidesKeeps, TasksAre
<1>4. ASSUME NEW e \in Experiment, DeadlineFires(e)
      PROVE  RecordsFit' /\ AbortsKept' /\ CausesKept
  BY <1>0, <1>4, DeadlineDecides, DecidesKeeps, TasksAre
<1>5. ASSUME NEW n \in StreamId, Taint(n)
      PROVE  RecordsFit' /\ AbortsKept' /\ CausesKept
  BY <1>0, <1>5, TaintDecides, DecidesKeeps, TasksAre
<1>6. ASSUME NEW n \in StreamId, NEW e \in Experiment, NEW i \in DOMAIN Target[e],
             NEW s \in InstanceStates, Status(n, e, i, s)
      PROVE  RecordsFit' /\ AbortsKept' /\ CausesKept
  BY <1>0, <1>6, StatusDecides, DecidesKeeps, TasksAre
<1>7. ASSUME NEW e \in Experiment, NEW kind \in {"start", "halt"}, HangUp(e, kind)
      PROVE  RecordsFit' /\ AbortsKept' /\ CausesKept
  BY <1>7, HangUpKeeps, SameRecordsKeep
<1> QED
  BY <1>1, <1>2, <1>3, <1>4, <1>5, <1>6, <1>7, SendersKeep, AcceptKeeps, SameRecordsKeep DEF Next

-----------------------------------------------------------------------------
(***************************************************************************)
(* The invariant, and the theorems.                                        *)
(***************************************************************************)
LEMMA InitMaster == Init => MasterInv
<1> SUFFICES ASSUME Init
             PROVE  MasterInv
  OBVIOUS
<1>1. \A t \in Task : sending[t] = {} /\ held[t] = NotWaiting
  BY DEF Init
<1>2. Typed
  <2>1. << >> \in Seq(Frame) /\ Len(<< >>) = 0
    OBVIOUS
  <2>2. Unused \in StreamShape /\ Unused.stage = "unused" /\ Unused.chan = << >>
    BY <2>1 DEF Unused, StreamShape
  <2> QED
    BY <2>1, <2>2, ConstantsType DEF Init, Typed, Held
<1>3. RecordsFit
  BY DEF Init, RecordsFit
<1>4. TasksFit
  BY <1>1, TasksAre DEF Init, TasksFit, Idle
<1>5. AbortsKept
  <2>1. \A e \in Experiment : ~Known(e)
    BY <1>3, KnownMeans DEF Init
  <2> QED
    BY <2>1 DEF AbortsKept
<1>6. StreamsOrdered
  BY DEF Init, StreamsOrdered, Unused
<1> QED
  BY <1>2, <1>3, <1>4, <1>5, <1>6 DEF MasterInv

LEMMA MasterStutters ==
  ASSUME MasterInv, UNCHANGED vars
  PROVE  MasterInv' /\ CausesKept
<1>1. UNCHANGED <<call, store, armed, halts, sending, held, stream, session, flagged, gone>>
  BY DEF vars
<1>2. Typed' /\ StreamsOrdered'
  BY <1>1 DEF MasterInv, Typed, StreamsOrdered
<1>3. TasksFit' /\ SameRecords
  BY <1>1 DEF MasterInv, TasksFit, Idle, SameRecords, AbortPending
<1> QED
  BY <1>2, <1>3, SameRecordsKeep DEF MasterInv

LEMMA MasterInvariant == Spec => [](MasterInv)
<1>1. MasterInv /\ [Next]_vars => MasterInv'
  BY TypedStep, RecordsStep, TasksFitStep, StreamsOrderedStep, MasterStutters DEF MasterInv
<1> QED
  BY <1>1, InitMaster, PTL DEF Spec

LEMMA HeldImplies ==
  ASSUME MasterInv
  PROVE  TypeOK /\ TriggersTaken /\ HaltReachesAll /\ OutcomeTrue
<1>0. Typed /\ RecordsFit /\ AbortsKept
  BY DEF MasterInv
<1>1. \A e \in Experiment : Known(e) => Settled(store[e], Target[e])
  BY <1>0, KnownMeans
<1>2. TypeOK
  <2>1. ASSUME NEW e \in Experiment, Known(e)
        PROVE  /\ store[e].phase \in Phase
               /\ store[e].state \in [DOMAIN Target[e] -> InstanceStates]
               /\ store[e].asked \in [DOMAIN Target[e] -> BOOLEAN]
               /\ store[e].tainted \in Seq(Host)
               /\ store[e].cause.host \in Host \cup {None}
    BY <1>1, <2>1 DEF Settled, Record, CauseSet
  <2>2. \A t \in Task : /\ sending[t] \subseteq Frame
                        /\ held[t] = NotWaiting \/ (held[t].frame \in Frame /\ held[t].into \in StreamId)
    BY <1>0 DEF Typed, Held
  <2>3. \A n \in StreamId : /\ stream[n].host \in Host \cup {None}
                            /\ stream[n].stage \in {"unused", "open", "broken", "closed"}
                            /\ Len(stream[n].chan) <= ChanCap
    BY <1>0 DEF Typed, StreamShape
  <2> QED
    BY <1>0, <2>1, <2>2, <2>3 DEF Typed, TypeOK
<1>3. TriggersTaken
  BY <1>1 DEF TriggersTaken, Settled, OpenRightly
<1>4. OutcomeTrue
  BY <1>1 DEF OutcomeTrue, Settled, EndedTruly
<1>5. HaltReachesAll
  <2> SUFFICES ASSUME NEW e \in Experiment, Known(e), store[e].phase = "Halting",
                      NEW i \in Unfinished(store[e])
               PROVE  AbortPending(e, i) \/ <<e, i>> \in gone
    BY DEF HaltReachesAll
  <2>1. store[e].asked[i] /\ i \in DOMAIN Target[e]
    BY <1>1 DEF Settled, HaltedWhole, Unfinished, Record
  <2> QED
    BY <1>0, <2>1 DEF AbortsKept
<1> QED
  BY <1>2, <1>3, <1>4, <1>5

LEMMA OrderImplies ==
  ASSUME MasterInv
  PROVE  NewestIsCurrent
<1> SUFFICES ASSUME NEW n \in StreamId, stream[n].stage \in {"open", "broken"}, Newest(n)
             PROVE  session[stream[n].host] = n
  BY DEF NewestIsCurrent
<1> DEFINE S == Streams(stream[n].host)
<1>1. n \in S /\ S \in SUBSET (1..MaxStreams)
  BY ConstantsType DEF Streams
<1>2. \A m \in S : n >= m
  <2>1. n = Max(S)
    BY DEF Newest
  <2> HIDE DEF S
  <2> QED
    BY <1>1, <2>1, MaxExists, ConstantsType
<1>3. \A m \in StreamId : m > n => stream[m].host # stream[n].host
  BY <1>2, ConstantsType DEF Streams
<1> QED
  BY <1>3 DEF MasterInv, StreamsOrdered

(* At every moment: the records keep their types, no trigger is left        *)
(* untaken, no abort that was asked for is forgotten, and a concluded       *)
(* record is true.  About: every handler of dispatch.rs that changes a      *)
(* record and the tasks that send what it decided.                          *)
THEOREM RecordsStaySound == Spec => []RecordsSound
<1>1. MasterInv => RecordsSound
  BY HeldImplies DEF RecordsSound
<1> QED
  BY <1>1, MasterInvariant, PTL

(* No failure, unrequested abort or taint goes by unheeded, whichever task  *)
(* brings it.  About: react_to_update under the store lock.                 *)
THEOREM NoTriggerIsMissed == Spec => []TriggersTaken
BY HeldImplies, MasterInvariant, PTL

(* The kill switch forgets no instance.  About: fire_kill_switch marking an *)
(* instance as asked before the frame for it is sent.                       *)
THEOREM TheSwitchForgetsNone == Spec => []HaltReachesAll
BY HeldImplies, MasterInvariant, PTL

(* What a concluded record says stays true.  About: outcome and             *)
(* outcome_cause, and statuses, taints, halts and deadlines coming late.    *)
THEOREM OutcomesAreTrue == Spec => []OutcomeTrue
BY HeldImplies, MasterInvariant, PTL

(* The cause recorded first is never replaced.  About: fire_kill_switch,    *)
(* conclude_if_done and resolve_deadline on one record.                     *)
THEOREM TheFirstCauseStays == Spec => FirstCauseKept
<1>1. MasterInv /\ [Next]_vars => CausesKept
  BY RecordsStep, MasterStutters
<1>2. MasterInv /\ [Next]_vars =>
        [\A e \in Experiment :
           Known(e) /\ store[e].cause # NoCause => store'[e].cause = store[e].cause]_vars
  BY <1>1 DEF CausesKept
<1> QED
  BY <1>2, MasterInvariant, PTL DEF Spec, FirstCauseKept

(* However many streams a host opens and in whatever order they close, the  *)
(* newest that is not closed is its session.  About: insert and             *)
(* remove_if_current of the session map.                                    *)
THEOREM TheNewestStreamIsUsed == Spec => []NewestIsCurrent
BY OrderImplies, MasterInvariant, PTL
=============================================================================
