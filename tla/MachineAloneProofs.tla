------------------------- MODULE MachineAloneProofs -------------------------
(***************************************************************************)
(* What no sequence of events can make the instance machine do, whatever   *)
(* its shell delivers and however often.                                   *)
(***************************************************************************)
EXTENDS MachineAlone, InstanceMachineProofs

-----------------------------------------------------------------------------
(***************************************************************************)
(* The inductive invariant: what is known of the history in each state.    *)
(***************************************************************************)
(* Nothing was asked of the host yet, or only inject.                       *)
Fresh == effected = "nothing" /\ ~restored /\ ~gaveUp /\ ~escalated

(* Before inject there is no entry, and the stop recorded is the first.     *)
BeforeInject == st.kind \in PreInject =>
  /\ Fresh /\ ~entry /\ injects = 0 /\ st.stop = first
  /\ st.kind = "Pending" => first = None

WhileInjecting == st.kind = "Injecting" => Fresh /\ entry /\ st.stop = first

WhileActive == st.kind = "Active" => effected = "fault" /\ ~restored /\ ~gaveUp /\ ~escalated
                                     /\ entry /\ first = None

(* Cleanup is the last command of every recovery, and the outcome aimed at  *)
(* is the one the stops so far give.                                        *)
WhileRecovering == st.kind = "Recovering" =>
  /\ effected # "nothing" /\ ~restored /\ ~gaveUp /\ entry
  /\ st.current = "Cleanup" <=> st.remaining = << >>
  /\ st.outcome = "Done" => first = "DurationElapsed" /\ ~escalated
  /\ st.outcome = "Aborted" => first \in {"OperatorAbort", "MasterLost"} /\ ~escalated
  /\ st.outcome = "Error" => escalated \/ effected = "unknown" \/ first = "Deadman"

AloneInv ==
  /\ TypeOK /\ BeforeInject /\ WhileInjecting /\ WhileActive /\ WhileRecovering
  /\ EndsSettled /\ OutcomeFollowsCause

-----------------------------------------------------------------------------
(***************************************************************************)
(* Lists of effects, and what a step does to the history.                  *)
(***************************************************************************)
(* A list asks for what is in it.                                           *)
LEMMA NothingAsked == \A e : ~Requests(<< >>, e)
  BY DEF Requests

LEMMA OneAsked ==
  ASSUME NEW a, NEW e
  PROVE  Requests(<<a>>, e) <=> a = e
<1>1. 1..Len(<<a>>) = {1}
  OBVIOUS
<1> QED
  BY <1>1 DEF Requests

LEMMA TwoAsked ==
  ASSUME NEW a, NEW b, NEW e
  PROVE  Requests(<<a, b>>, e) <=> a = e \/ b = e
<1>1. 1..Len(<<a, b>>) = {1, 2}
  OBVIOUS
<1> QED
  BY <1>1 DEF Requests

LEMMA ThreeAsked ==
  ASSUME NEW a, NEW b, NEW c, NEW e
  PROVE  Requests(<<a, b, c>>, e) <=> a = e \/ b = e \/ c = e
<1>1. 1..Len(<<a, b, c>>) = {1, 2, 3}
  OBVIOUS
<1> QED
  BY <1>1 DEF Requests

(* The effects the history watches are told apart from all others.          *)
LEMMA EffectsDiffer ==
  /\ RemoveJournal # Invoke("Inject") /\ MarkTainted # Invoke("Inject")
  /\ WriteJournal # Invoke("Inject") /\ MarkTainted # RemoveJournal
  /\ WriteJournal # RemoveJournal /\ WriteJournal # MarkTainted
  /\ \A s : EmitStatus(s) \notin {Invoke("Inject"), RemoveJournal, MarkTainted}
  /\ \A c : Invoke(c) \notin {RemoveJournal, MarkTainted}
  /\ \A c : c # "Inject" => Invoke(c) # Invoke("Inject")
  BY DEF EmitStatus, Invoke, WriteJournal, RemoveJournal, MarkTainted, EffectOf

(* What a list of effects asks for, as far as the history tells.            *)
Quiet(list) == /\ ~Requests(list, RemoveJournal) /\ ~Requests(list, MarkTainted)
               /\ ~Requests(list, Invoke("Inject"))
Starts(list) == /\ ~Requests(list, RemoveJournal) /\ ~Requests(list, MarkTainted)
                /\ Requests(list, Invoke("Inject"))
Drops(list) == /\ Requests(list, RemoveJournal) /\ ~Requests(list, MarkTainted)
               /\ ~Requests(list, Invoke("Inject"))
Quarantines(list) == /\ Requests(list, RemoveJournal) /\ Requests(list, MarkTainted)
                     /\ ~Requests(list, Invoke("Inject"))

LEMMA ListsAsk ==
  /\ Quiet(<< >>) /\ Quiet(<<WriteJournal>>)
  /\ \A w : Quiet(<<EmitStatus(w)>>) /\ Drops(<<RemoveJournal, EmitStatus(w)>>)
            /\ Starts(<<EmitStatus(w), Invoke("Inject")>>)
            /\ Quarantines(<<MarkTainted, RemoveJournal, EmitStatus(w)>>)
  /\ \A c : c # "Inject" => Quiet(<<Invoke(c)>>) /\ \A w : Quiet(<<EmitStatus(w), Invoke(c)>>)
<1>1. Quiet(<< >>)
  BY NothingAsked DEF Quiet
<1>2. Quiet(<<WriteJournal>>)
  BY OneAsked, EffectsDiffer DEF Quiet
<1>3. ASSUME NEW w
      PROVE  Quiet(<<EmitStatus(w)>>)
  <2>1. \A e : Requests(<<EmitStatus(w)>>, e) <=> EmitStatus(w) = e
    BY OneAsked
  <2> QED
    BY <2>1, EffectsDiffer DEF Quiet
<1>4. ASSUME NEW w
      PROVE  /\ Drops(<<RemoveJournal, EmitStatus(w)>>)
             /\ Starts(<<EmitStatus(w), Invoke("Inject")>>)
  <2>1. \A a, b, e : Requests(<<a, b>>, e) <=> a = e \/ b = e
    BY TwoAsked
  <2> QED
    BY <2>1, EffectsDiffer DEF Drops, Starts
<1>5. ASSUME NEW w
      PROVE  Quarantines(<<MarkTainted, RemoveJournal, EmitStatus(w)>>)
  <2>1. \A e : Requests(<<MarkTainted, RemoveJournal, EmitStatus(w)>>, e) <=>
                 MarkTainted = e \/ RemoveJournal = e \/ EmitStatus(w) = e
    BY ThreeAsked
  <2> QED
    BY <2>1, EffectsDiffer DEF Quarantines
<1>6. ASSUME NEW c, c # "Inject"
      PROVE  Quiet(<<Invoke(c)>>) /\ \A w : Quiet(<<EmitStatus(w), Invoke(c)>>)
  <2>1. /\ \A e : Requests(<<Invoke(c)>>, e) <=> Invoke(c) = e
        /\ \A w, e : Requests(<<EmitStatus(w), Invoke(c)>>, e) <=> EmitStatus(w) = e \/ Invoke(c) = e
    BY OneAsked, TwoAsked
  <2> QED
    BY <1>6, <2>1, EffectsDiffer DEF Quiet
<1> QED
  BY <1>1, <1>2, <1>3, <1>4, <1>5, <1>6

(* What a step does to the history, by what it asks for.                    *)
LEMMA FeedCounts ==
  ASSUME TypeOK, NEW ev \in Event, Feed(ev), NEW s, NEW list, Step(st, ev) = To(s, list)
  PROVE  /\ st' = s
         /\ Quiet(list) => UNCHANGED <<injects, gaveUp>>
         /\ Quiet(list) \/ Starts(list) =>
              entry' = (entry \/ (st.kind = "WritingJournal" /\ ev.type = "JournalWritten"))
         /\ Starts(list) => injects' = injects + 1 /\ gaveUp' = gaveUp
         /\ Drops(list) => injects' = injects /\ gaveUp' = gaveUp /\ entry' = FALSE
         /\ Quarantines(list) => injects' = injects /\ gaveUp' = TRUE /\ entry' = FALSE
<1>1. Step(st, ev).state = s /\ Step(st, ev).effects = list
  BY DEF To
<1>2. /\ st' = s
      /\ entry' = ((entry \/ (st.kind = "WritingJournal" /\ ev.type = "JournalWritten"))
                      /\ ~Requests(list, RemoveJournal))
      /\ injects' = injects + Tally(list, Invoke("Inject"))
      /\ gaveUp' = (gaveUp \/ Requests(list, MarkTainted))
  BY <1>1 DEF Feed
<1>3. injects \in Int /\ gaveUp \in BOOLEAN /\ entry \in BOOLEAN
  BY DEF TypeOK
<1>4. /\ Requests(list, Invoke("Inject")) => injects' = injects + 1
      /\ ~Requests(list, Invoke("Inject")) => injects' = injects
  BY <1>2, <1>3 DEF Tally
<1>5. /\ Requests(list, RemoveJournal) => entry' = FALSE
      /\ ~Requests(list, RemoveJournal) =>
           entry' = (entry \/ (st.kind = "WritingJournal" /\ ev.type = "JournalWritten"))
      /\ Requests(list, MarkTainted) => gaveUp' = TRUE
      /\ ~Requests(list, MarkTainted) => gaveUp' = gaveUp
  BY <1>2, <1>3, Zenon
<1> QED
  BY <1>2, <1>4, <1>5 DEF Quiet, Starts, Drops, Quarantines

(* What a step does to the history by the event and the state alone.        *)
LEMMA FeedKeeps ==
  ASSUME TypeOK, NEW ev \in Event, Feed(ev)
  PROVE  /\ st.kind # "Injecting" => effected' = effected
         /\ st.kind # "Recovering" => restored' = restored /\ escalated' = escalated
         /\ ev.type # "StopRequested" => first' = first /\ escalated' = escalated
         /\ st.kind \in {"Recovering"} \cup Terminal => first' = first
         /\ ev.type = "StopRequested" /\ st.kind \notin {"Recovering"} \cup Terminal =>
              first' = IF first = None THEN ev.cause ELSE first
         /\ st.kind = "Recovering" =>
              /\ restored' = (restored \/ (st.current = "Cleanup" /\ Succeeded(ev, "Cleanup")))
              /\ escalated' = (escalated \/ (ev.type = "StopRequested" /\ ev.cause = "Deadman"))
         /\ st.kind = "Injecting" => effected' = Effected(ev)
<1>1. restored \in BOOLEAN /\ escalated \in BOOLEAN
  BY DEF TypeOK
<1> QED
  BY <1>1 DEF Feed

(* The ranges that do not depend on the kind of the state.                  *)
LEMMA FeedTypes ==
  ASSUME TypeOK, NEW ev \in Event, Feed(ev), injects' \in 0..1
  PROVE  TypeOK'
<1>1. st' \in MachineState
  BY StepType DEF TypeOK, Feed
<1>2. ev.type = "StopRequested" => ev.cause \in StopCause
  BY EventFields
<1>3. effected' \in {"nothing", "fault", "unknown"}
  BY DEF Feed, Effected, TypeOK
<1>4. first' \in StopCause \cup {None}
  BY <1>2 DEF Feed, TypeOK
<1>5. entry' \in BOOLEAN /\ restored' \in BOOLEAN /\ gaveUp' \in BOOLEAN /\ escalated' \in BOOLEAN
  BY DEF Feed, TypeOK
<1> QED
  BY <1>1, <1>3, <1>4, <1>5 DEF TypeOK

-----------------------------------------------------------------------------
(***************************************************************************)
(* One step, by the state it starts from.                                  *)
(***************************************************************************)
(* A machine stopped with the host untouched is settled and tells why.      *)
LEMMA EndsUntouched ==
  ASSUME NEW ev \in Event, AloneInv, Feed(ev), injects' \in 0..1,
         st' = Plain("Aborted", None), ~entry', effected' = "nothing"
  PROVE  AloneInv'
<1>1. TypeOK'
  BY FeedTypes DEF AloneInv
<1>2. st'.kind = "Aborted"
  BY DEF Plain
<1> QED
  BY <1>1, <1>2
  DEF AloneInv, BeforeInject, WhileInjecting, WhileActive, WhileRecovering, EndsSettled,
      OutcomeFollowsCause, IsTerminal, Terminal, PreInject

(* A state that stays before inject keeps what holds there.                 *)
LEMMA StaysBefore ==
  ASSUME NEW ev \in Event, AloneInv, Feed(ev), st.kind \in PreInject, st'.kind \in PreInject,
         injects' = injects, ~entry', ~gaveUp', st'.stop = first',
         st'.kind = "Pending" => first' = None
  PROVE  AloneInv'
<1>1. TypeOK /\ Fresh /\ injects = 0
  BY DEF AloneInv, BeforeInject
<1>2. Fresh'
  BY <1>1, FeedKeeps DEF Fresh, PreInject
<1>3. TypeOK'
  BY <1>1, FeedTypes
<1> QED
  BY <1>1, <1>2, <1>3
  DEF AloneInv, BeforeInject, WhileInjecting, WhileActive, WhileRecovering, EndsSettled,
      OutcomeFollowsCause, IsTerminal, Terminal, PreInject

(* A first stop recorded is the first stop delivered.                       *)
LEMMA RecordsFirst ==
  ASSUME NEW ev \in Event, TypeOK, Feed(ev), ev.type = "StopRequested", st.stop = first,
         st.kind \in {"PreflightInstall", "PreflightRuntime", "WritingJournal", "Injecting"},
         st' = RecordStop(st, ev)
  PROVE  st'.kind = st.kind /\ st'.stop = first'
<1>1. first' = IF first = None THEN ev.cause ELSE first
  BY FeedKeeps DEF Terminal
<1> QED
  BY <1>1 DEF RecordStop, TypeOK, MachineState

LEMMA FromPending ==
  ASSUME NEW ev \in Event, AloneInv, Feed(ev), st.kind = "Pending"
  PROVE  AloneInv'
<1>1. /\ TypeOK /\ Fresh /\ ~entry /\ injects = 0 /\ st.stop = first /\ first = None
      /\ st.kind \in PreInject
  BY DEF AloneInv, BeforeInject, PreInject
<1>2. Step(st, ev) = StepPending(st, ev)
  BY DEF Step, Terminal
<1>3. effected' = "nothing"
  BY <1>1, FeedKeeps DEF Fresh
<1>4. CASE ev.type = "SetupOk"
  <2>1. Step(st, ev) = To(Plain("PreflightInstall", None),
                          <<EmitStatus("Preflight"), Invoke("Preflight")>>)
    BY <1>2, <1>4 DEF StepPending
  <2>2. Quiet(<<EmitStatus("Preflight"), Invoke("Preflight")>>)
    BY ListsAsk
  <2>3. st' = Plain("PreflightInstall", None) /\ UNCHANGED <<injects, gaveUp>> /\ ~entry'
    BY <1>1, <2>1, <2>2, FeedCounts
  <2>4. first' = first
    BY <1>1, <1>4, FeedKeeps
  <2> QED
    BY <1>1, <2>3, <2>4, StaysBefore DEF Plain, PreInject, Fresh
<1>5. CASE ev.type \in {"SetupFailed", "StopRequested"}
  <2>1. Step(st, ev) = To(Plain("Aborted", None), <<EmitStatus("Aborted")>>)
    BY <1>2, <1>5 DEF StepPending, AbortedWith
  <2>2. Quiet(<<EmitStatus("Aborted")>>)
    BY ListsAsk
  <2>3. st' = Plain("Aborted", None) /\ injects' = 0 /\ ~entry'
    BY <1>1, <2>1, <2>2, FeedCounts
  <2> QED
    BY <1>3, <2>3, EndsUntouched
<1>6. CASE ev.type \notin {"SetupOk", "SetupFailed", "StopRequested"}
  <2>1. Step(st, ev) = To(st, << >>)
    BY <1>2, <1>6 DEF StepPending, Ignore
  <2>2. st' = st /\ UNCHANGED <<injects, gaveUp>> /\ ~entry'
    BY <1>1, <2>1, ListsAsk, FeedCounts
  <2>3. first' = first
    BY <1>1, <1>6, FeedKeeps
  <2> QED
    BY <1>1, <2>2, <2>3, StaysBefore DEF Fresh
<1> QED
  BY <1>4, <1>5, <1>6

LEMMA FromPreflight ==
  ASSUME NEW ev \in Event, AloneInv, Feed(ev), st.kind \in {"PreflightInstall", "PreflightRuntime"}
  PROVE  AloneInv'
<1>1. /\ TypeOK /\ Fresh /\ ~entry /\ injects = 0 /\ st.stop = first /\ st.kind \in PreInject
  BY DEF AloneInv, BeforeInject, PreInject
<1>2. Step(st, ev) = StepPreflight(st, ev)
  BY DEF Step, Terminal
<1>3. effected' = "nothing"
  BY <1>1, FeedKeeps DEF Fresh
<1>4. ASSUME NEW s, NEW list, Step(st, ev) = To(s, list), Quiet(list)
      PROVE  st' = s /\ UNCHANGED <<injects, gaveUp>> /\ ~entry'
  BY <1>1, <1>4, FeedCounts
<1>5. CASE ev.type = "StopRequested"
  <2>1. Step(st, ev) = To(RecordStop(st, ev), << >>)
    BY <1>2, <1>5 DEF StepPreflight, Ignore, Succeeded, IsFailureOf
  <2>2. st' = RecordStop(st, ev) /\ UNCHANGED <<injects, gaveUp>> /\ ~entry'
    BY <1>4, <2>1, ListsAsk
  <2>3. st'.kind = st.kind /\ st'.stop = first'
    BY <1>1, <1>5, <2>2, RecordsFirst
  <2> QED
    BY <1>1, <2>2, <2>3, StaysBefore DEF Fresh
<1>6. CASE \/ Succeeded(ev, "Preflight") /\ st.stop # None
           \/ IsFailureOf(ev, "Preflight")
  <2>1. Step(st, ev) = To(Plain("Aborted", None), <<EmitStatus("Aborted")>>)
    BY <1>2, <1>6 DEF StepPreflight, AbortedWith, Succeeded, IsFailureOf
  <2>2. st' = Plain("Aborted", None) /\ injects' = 0 /\ ~entry'
    BY <1>1, <1>4, <2>1, ListsAsk
  <2> QED
    BY <1>3, <2>2, EndsUntouched
<1>7. CASE Succeeded(ev, "Preflight") /\ st.stop = None
  <2>1. \/ Step(st, ev) = To(Plain("PreflightRuntime", None), <<Invoke("Preflight")>>)
        \/ Step(st, ev) = To(Plain("WritingJournal", None), <<WriteJournal>>)
    BY <1>2, <1>7 DEF StepPreflight, Succeeded, IsFailureOf
  <2>2. /\ st' \in {Plain("PreflightRuntime", None), Plain("WritingJournal", None)}
        /\ UNCHANGED <<injects, gaveUp>> /\ ~entry'
    BY <1>4, <2>1, ListsAsk
  <2>3. first' = first
    BY <1>1, <1>7, FeedKeeps DEF Succeeded
  <2>4. st'.kind \in {"PreflightRuntime", "WritingJournal"} /\ st'.stop = None
    BY <2>2 DEF Plain
  <2>5. st'.stop = first'
    BY <1>1, <1>7, <2>3, <2>4
  <2> QED
    BY <1>1, <2>2, <2>4, <2>5, StaysBefore DEF PreInject, Fresh
<1>8. CASE /\ ev.type # "StopRequested"
           /\ ~Succeeded(ev, "Preflight") /\ ~IsFailureOf(ev, "Preflight")
  <2>1. Step(st, ev) = To(st, << >>)
    BY <1>2, <1>8 DEF StepPreflight, Ignore
  <2>2. st' = st /\ UNCHANGED <<injects, gaveUp>> /\ ~entry'
    BY <1>4, <2>1, ListsAsk
  <2>3. first' = first
    BY <1>1, <1>8, FeedKeeps
  <2> QED
    BY <1>1, <2>2, <2>3, StaysBefore DEF Fresh
<1> QED
  BY <1>5, <1>6, <1>7, <1>8

LEMMA FromWritingJournal ==
  ASSUME NEW ev \in Event, AloneInv, Feed(ev), st.kind = "WritingJournal"
  PROVE  AloneInv'
<1>1. /\ TypeOK /\ Fresh /\ ~entry /\ injects = 0 /\ st.stop = first /\ st.kind \in PreInject
  BY DEF AloneInv, BeforeInject, PreInject
<1>2. Step(st, ev) = StepWritingJournal(st, ev)
  BY DEF Step, Terminal
<1>3. effected' = "nothing" /\ restored' = restored /\ escalated' = escalated
  BY <1>1, FeedKeeps DEF Fresh
<1>4. CASE ev.type = "StopRequested"
  <2>1. Step(st, ev) = To(RecordStop(st, ev), << >>)
    BY <1>2, <1>4 DEF StepWritingJournal, Ignore
  <2>2. st' = RecordStop(st, ev) /\ UNCHANGED <<injects, gaveUp>> /\ ~entry'
    BY <1>1, <1>4, <2>1, ListsAsk, FeedCounts
  <2>3. st'.kind = st.kind /\ st'.stop = first'
    BY <1>1, <1>4, <2>2, RecordsFirst
  <2> QED
    BY <1>1, <2>2, <2>3, StaysBefore DEF Fresh
<1>5. CASE ev.type = "JournalWritten" /\ st.stop # None
  <2>1. Step(st, ev) = To(Plain("Aborted", None), <<RemoveJournal, EmitStatus("Aborted")>>)
    BY <1>2, <1>5 DEF StepWritingJournal, AbortedUnjournaled
  <2>2. Drops(<<RemoveJournal, EmitStatus("Aborted")>>)
    BY ListsAsk
  <2>3. st' = Plain("Aborted", None) /\ injects' = 0 /\ ~entry'
    BY <1>1, <2>1, <2>2, FeedCounts
  <2> QED
    BY <1>3, <2>3, EndsUntouched
<1>6. CASE ev.type = "JournalWritten" /\ st.stop = None
  <2>1. Step(st, ev) = To(Plain("Injecting", None), <<EmitStatus("Injecting"), Invoke("Inject")>>)
    BY <1>2, <1>6 DEF StepWritingJournal
  <2>2. Starts(<<EmitStatus("Injecting"), Invoke("Inject")>>)
    BY ListsAsk
  <2>3. st' = Plain("Injecting", None) /\ injects' = 1 /\ gaveUp' = gaveUp /\ entry'
    <3>1. /\ st' = Plain("Injecting", None) /\ injects' = injects + 1 /\ gaveUp' = gaveUp
          /\ entry' = (entry \/ (st.kind = "WritingJournal" /\ ev.type = "JournalWritten"))
      BY <1>1, <2>1, <2>2, FeedCounts
    <3>2. injects' = 1
      BY <1>1, <3>1
    <3> QED
      BY <1>6, <3>1, <3>2
  <2>4. first' = first
    BY <1>1, <1>6, FeedKeeps
  <2>5. st'.kind = "Injecting" /\ st'.stop = first'
    BY <1>1, <1>6, <2>3, <2>4 DEF Plain
  <2>6. TypeOK'
    BY <1>1, <2>3, FeedTypes
  <2>7. Fresh'
    BY <1>1, <1>3, <2>3 DEF Fresh
  <2> QED
    BY <2>3, <2>5, <2>6, <2>7
    DEF AloneInv, BeforeInject, WhileInjecting, WhileActive, WhileRecovering, EndsSettled,
        OutcomeFollowsCause, IsTerminal, Terminal, PreInject
<1>7. CASE ev.type = "JournalWriteFailed"
  <2>1. Step(st, ev) = To(Plain("Aborted", None), <<EmitStatus("Aborted")>>)
    BY <1>2, <1>7 DEF StepWritingJournal, AbortedWith
  <2>2. Quiet(<<EmitStatus("Aborted")>>)
    BY ListsAsk
  <2>3. st' = Plain("Aborted", None) /\ injects' = 0 /\ ~entry'
    BY <1>1, <1>7, <2>1, <2>2, FeedCounts
  <2> QED
    BY <1>3, <2>3, EndsUntouched
<1>8. CASE ev.type \notin {"StopRequested", "JournalWritten", "JournalWriteFailed"}
  <2>1. Step(st, ev) = To(st, << >>)
    BY <1>2, <1>8 DEF StepWritingJournal, Ignore
  <2>2. st' = st /\ UNCHANGED <<injects, gaveUp>> /\ ~entry'
    BY <1>1, <1>8, <2>1, ListsAsk, FeedCounts
  <2>3. first' = first
    BY <1>1, <1>8, FeedKeeps
  <2> QED
    BY <1>1, <2>2, <2>3, StaysBefore DEF Fresh
<1> QED
  BY <1>4, <1>5, <1>6, <1>7, <1>8

(* What the cause of a recovery makes of it.                                *)
LEMMA RecoveryBegins ==
  ASSUME NEW cause \in StopCause
  PROVE  \E s, w, c :
           /\ s \in MachineState
           /\ StartRecovery(cause) = To(s, <<EmitStatus(w), Invoke(c)>>) /\ c # "Inject"
           /\ s.kind = "Recovering"
           /\ s.current = "Cleanup" <=> s.remaining = << >>
           /\ s.outcome = Outcome(cause)
<1>1. CASE cause = "DurationElapsed"
  <2>1. RecoverySteps(cause)[1] = "Cleanup" /\ RecoverySteps(cause)[2] = << >>
    BY <1>1 DEF RecoverySteps
  <2>2. StartRecovery(cause) = To(Recovering("Cleanup", << >>, Outcome(cause), FALSE),
                                  <<EmitStatus("Recovering"), Invoke("Cleanup")>>)
    BY <2>1 DEF StartRecovery
  <2>3. Outcome(cause) \in Terminal
    BY DEF Outcome, StopCause, Terminal
  <2>4. Recovering("Cleanup", << >>, Outcome(cause), FALSE) \in MachineState
    BY <2>3, RecoveringType
  <2> QED
    BY <2>2, <2>4 DEF Recovering
<1>2. CASE cause # "DurationElapsed"
  <2>1. RecoverySteps(cause)[1] = "Abort" /\ RecoverySteps(cause)[2] = <<"Cleanup">>
    BY <1>2 DEF RecoverySteps
  <2>2. StartRecovery(cause) = To(Recovering("Abort", <<"Cleanup">>, Outcome(cause), FALSE),
                                  <<EmitStatus("Recovering"), Invoke("Abort")>>)
    BY <2>1 DEF StartRecovery
  <2>3. Outcome(cause) \in Terminal
    BY DEF Outcome, StopCause, Terminal
  <2>4. Recovering("Abort", <<"Cleanup">>, Outcome(cause), FALSE) \in MachineState
    BY <2>3, RecoveringType
  <2>5. <<"Cleanup">> # << >>
    OBVIOUS
  <2> QED
    BY <2>2, <2>4, <2>5 DEF Recovering
<1> QED
  BY <1>1, <1>2

(* A recovery that begins aims at the outcome its cause gives.              *)
LEMMA StartsRecovering ==
  ASSUME NEW ev \in Event, AloneInv, Feed(ev), NEW cause \in StopCause,
         Step(st, ev) = StartRecovery(cause), entry, ~gaveUp, st.kind \in {"Injecting", "Active"},
         ~restored', ~escalated', effected' # "nothing",
         \/ first' = cause
         \/ cause = "Deadman" /\ effected' = "unknown"
  PROVE  AloneInv'
<1>1. PICK s, w, c :
        /\ s \in MachineState
        /\ StartRecovery(cause) = To(s, <<EmitStatus(w), Invoke(c)>>) /\ c # "Inject"
        /\ s.kind = "Recovering"
        /\ s.current = "Cleanup" <=> s.remaining = << >>
        /\ s.outcome = Outcome(cause)
  BY RecoveryBegins
<1>2. TypeOK
  BY DEF AloneInv
<1>3. Quiet(<<EmitStatus(w), Invoke(c)>>)
  BY <1>1, ListsAsk
<1>4. st' = s /\ UNCHANGED <<injects, gaveUp>> /\ entry'
  BY <1>1, <1>2, <1>3, FeedCounts
<1>5. TypeOK'
  BY <1>2, <1>4, FeedTypes DEF TypeOK
<1>6. /\ Outcome(cause) = "Done" => cause = "DurationElapsed"
      /\ Outcome(cause) = "Aborted" => cause \in {"OperatorAbort", "MasterLost"}
      /\ Outcome(cause) = "Error" => cause = "Deadman"
  BY DEF Outcome, StopCause
<1>7. WhileRecovering'
  BY <1>1, <1>4, <1>6 DEF WhileRecovering, Outcome
<1>8. st'.kind = "Recovering"
  BY <1>1, <1>4
<1> QED
  BY <1>5, <1>7, <1>8
  DEF AloneInv, BeforeInject, WhileInjecting, WhileActive, EndsSettled,
      OutcomeFollowsCause, IsTerminal, Terminal, PreInject

LEMMA FromInjecting ==
  ASSUME NEW ev \in Event, AloneInv, Feed(ev), st.kind = "Injecting"
  PROVE  AloneInv'
<1>1. TypeOK /\ Fresh /\ entry /\ st.stop = first
  BY DEF AloneInv, WhileInjecting
<1>2. Step(st, ev) = StepInjecting(st, ev)
  BY DEF Step, Terminal
<1>3. restored' = restored /\ escalated' = escalated /\ effected' = Effected(ev)
  BY <1>1, FeedKeeps
<1>4. ev.type # "StopRequested" => first' = first
  BY <1>1, FeedKeeps
<1>5. injects' = injects => TypeOK'
  BY <1>1, FeedTypes DEF TypeOK
<1>6. st.stop \in StopCause \cup {None} /\ "Deadman" \in StopCause
  BY <1>1 DEF TypeOK, MachineState, StopCause
<1>7. ASSUME NEW s, s.kind = "Injecting", Step(st, ev) = To(s, << >>),
             effected' = effected, s.stop = first'
      PROVE  AloneInv'
  <2>1. st' = s /\ UNCHANGED <<injects, gaveUp>> /\ entry'
    BY <1>1, <1>7, ListsAsk, FeedCounts
  <2>2. Fresh'
    BY <1>1, <1>3, <1>7, <2>1 DEF Fresh
  <2> QED
    BY <1>5, <1>7, <2>1, <2>2
    DEF AloneInv, BeforeInject, WhileInjecting, WhileActive, WhileRecovering, EndsSettled,
        OutcomeFollowsCause, IsTerminal, Terminal, PreInject
<1>8. ASSUME Step(st, ev) = AbortedUnjournaled, effected' = effected
      PROVE  AloneInv'
  <2>1. Step(st, ev) = To(Plain("Aborted", None), <<RemoveJournal, EmitStatus("Aborted")>>)
    BY <1>8 DEF AbortedUnjournaled
  <2>2. Drops(<<RemoveJournal, EmitStatus("Aborted")>>)
    BY ListsAsk
  <2>3. st' = Plain("Aborted", None) /\ injects' = injects /\ ~entry'
    BY <1>1, <2>1, <2>2, FeedCounts
  <2>4. injects' \in 0..1 /\ effected' = "nothing"
    BY <1>1, <1>8, <2>3 DEF TypeOK, Fresh
  <2> QED
    BY <2>3, <2>4, EndsUntouched
<1>9. CASE ev.type = "StopRequested"
  <2>1. Step(st, ev) = To(RecordStop(st, ev), << >>)
    BY <1>2, <1>9 DEF StepInjecting, Ignore
  <2>2. st' = RecordStop(st, ev)
    BY <1>1, <2>1, FeedCounts
  <2>3. st'.kind = st.kind /\ st'.stop = first'
    BY <1>1, <1>9, <2>2, RecordsFirst
  <2>4. effected' = effected
    BY <1>3, <1>9 DEF Effected, Succeeded
  <2> QED
    BY <1>7, <2>1, <2>2, <2>3, <2>4
<1>10. CASE ev.type = "CommandFinished" /\ ev.command = "Inject" /\ ev.disposition = "Success"
  <2>1. effected' = "fault"
    BY <1>3, <1>10 DEF Effected, Succeeded
  <2>2. CASE st.stop # None
    <3>1. Step(st, ev) = StartRecovery(st.stop)
      BY <1>2, <1>10, <2>2 DEF StepInjecting
    <3>2. st.stop \in StopCause /\ first' = st.stop
      BY <1>1, <1>4, <1>6, <1>10, <2>2
    <3> QED
      BY <1>1, <1>3, <2>1, <3>1, <3>2, StartsRecovering DEF Fresh
  <2>3. CASE st.stop = None
    <3>1. Step(st, ev) = To(Plain("Active", None), <<EmitStatus("Active")>>)
      BY <1>2, <1>10, <2>3 DEF StepInjecting
    <3>2. Quiet(<<EmitStatus("Active")>>)
      BY ListsAsk
    <3>3. st' = Plain("Active", None) /\ UNCHANGED <<injects, gaveUp>> /\ entry'
      BY <1>1, <3>1, <3>2, FeedCounts
    <3>4. st'.kind = "Active"
      BY <3>3 DEF Plain
    <3>5. first' = None /\ ~restored' /\ ~gaveUp' /\ ~escalated'
      BY <1>1, <1>3, <1>4, <1>10, <2>3, <3>3 DEF Fresh
    <3> QED
      BY <1>5, <2>1, <3>3, <3>4, <3>5
      DEF AloneInv, BeforeInject, WhileInjecting, WhileActive, WhileRecovering, EndsSettled,
          OutcomeFollowsCause, IsTerminal, Terminal, PreInject
  <2> QED
    BY <2>2, <2>3
<1>11. CASE \/ ev.type = "InvocationFailed"
            \/ /\ ev.type = "CommandFinished" /\ ev.command = "Inject"
               /\ ev.disposition \notin {"Success", "InjectFailed"}
  <2>1. Step(st, ev) = StartRecovery("Deadman")
    BY <1>2, <1>11 DEF StepInjecting
  <2>2. effected' = "unknown"
    BY <1>3, <1>11 DEF Effected, Succeeded
  <2> QED
    BY <1>1, <1>3, <1>6, <2>1, <2>2, StartsRecovering DEF Fresh
<1>12. CASE \/ ev.type = "InvokeRejected"
            \/ /\ ev.type = "CommandFinished" /\ ev.command = "Inject"
               /\ ev.disposition = "InjectFailed"
  <2>1. Step(st, ev) = AbortedUnjournaled
    BY <1>2, <1>12 DEF StepInjecting
  <2>2. effected' = effected
    BY <1>3, <1>12 DEF Effected, Succeeded
  <2> QED
    BY <1>8, <2>1, <2>2
<1>13. CASE /\ ev.type \notin {"StopRequested", "InvocationFailed", "InvokeRejected"}
            /\ ~(ev.type = "CommandFinished" /\ ev.command = "Inject")
  <2>1. Step(st, ev) = To(st, << >>)
    BY <1>2, <1>13 DEF StepInjecting, Ignore
  <2>2. effected' = effected
    BY <1>3, <1>13 DEF Effected, Succeeded
  <2> QED
    BY <1>1, <1>4, <1>7, <1>13, <2>1, <2>2
<1> QED
  BY <1>9, <1>10, <1>11, <1>12, <1>13

LEMMA FromActive ==
  ASSUME NEW ev \in Event, AloneInv, Feed(ev), st.kind = "Active"
  PROVE  AloneInv'
<1>1. /\ TypeOK /\ effected = "fault" /\ ~restored /\ ~gaveUp /\ ~escalated /\ entry
      /\ first = None
  BY DEF AloneInv, WhileActive
<1>2. Step(st, ev) = StepActive(st, ev)
  BY DEF Step, Terminal
<1>3. effected' = effected /\ restored' = restored /\ escalated' = escalated
  BY <1>1, FeedKeeps
<1>4. CASE ev.type = "StopRequested"
  <2>1. Step(st, ev) = StartRecovery(ev.cause)
    BY <1>2, <1>4 DEF StepActive
  <2>2. ev.cause \in StopCause
    BY <1>4, EventFields
  <2>3. first' = ev.cause
    BY <1>1, <1>4, FeedKeeps DEF Terminal
  <2> QED
    BY <1>1, <1>3, <2>1, <2>2, <2>3, StartsRecovering
<1>5. CASE ev.type # "StopRequested"
  <2>1. Step(st, ev) = To(st, << >>)
    BY <1>2, <1>5 DEF StepActive, Ignore
  <2>2. st' = st /\ UNCHANGED <<injects, gaveUp>> /\ entry'
    BY <1>1, <2>1, ListsAsk, FeedCounts
  <2>3. first' = first
    BY <1>1, <1>5, FeedKeeps
  <2>4. TypeOK'
    BY <1>1, <2>2, FeedTypes DEF TypeOK
  <2> QED
    BY <1>1, <1>3, <2>2, <2>3, <2>4
    DEF AloneInv, BeforeInject, WhileInjecting, WhileActive, WhileRecovering, EndsSettled,
        OutcomeFollowsCause, IsTerminal, Terminal, PreInject
<1> QED
  BY <1>4, <1>5

LEMMA FromRecovering ==
  ASSUME NEW ev \in Event, AloneInv, Feed(ev), st.kind = "Recovering"
  PROVE  AloneInv'
<1>1. /\ TypeOK /\ WhileRecovering /\ effected # "nothing" /\ ~restored /\ ~gaveUp /\ entry
      /\ (st.current = "Cleanup" <=> st.remaining = << >>)
      /\ st \in MachineState
  BY DEF AloneInv, WhileRecovering, TypeOK
<1>2. Step(st, ev) = StepRecovering(st, ev)
  BY DEF Step, Terminal
<1>3. effected' = effected /\ first' = first
  BY <1>1, FeedKeeps
<1>4. escalated' = (escalated \/ (ev.type = "StopRequested" /\ ev.cause = "Deadman"))
  BY <1>1, FeedKeeps
<1>5. restored' = (restored \/ (st.current = "Cleanup" /\ Succeeded(ev, "Cleanup")))
  BY <1>1, FeedKeeps
<1>6. injects' = injects => TypeOK'
  BY <1>1, FeedTypes DEF TypeOK
<1>7. /\ st.outcome \in Terminal /\ st.current \in {"Abort", "Cleanup"}
      /\ st.remaining \in {<< >>, <<"Cleanup">>}
  BY <1>1 DEF MachineState
<1>8. ASSUME NEW s, NEW list, Step(st, ev) = To(s, list), Quiet(list), ~restored',
             s.kind = "Recovering", s.current = "Cleanup" <=> s.remaining = << >>,
             s.outcome = st.outcome /\ escalated' = escalated
      PROVE  AloneInv'
  <2>1. st' = s /\ UNCHANGED <<injects, gaveUp>> /\ entry'
    BY <1>1, <1>8, FeedCounts
  <2>2. WhileRecovering'
    BY <1>1, <1>3, <1>8, <2>1 DEF WhileRecovering
  <2> QED
    BY <1>6, <1>8, <2>1, <2>2
    DEF AloneInv, BeforeInject, WhileInjecting, WhileActive, EndsSettled,
        OutcomeFollowsCause, IsTerminal, Terminal, PreInject
<1>9. CASE ev.type = "StopRequested" /\ ev.cause = "Deadman"
  <2>1. Step(st, ev) = To([st EXCEPT !.outcome = "Error"], << >>)
    BY <1>2, <1>9 DEF StepRecovering, Ignore, Succeeded, IsFailureOf
  <2>2. st' = [st EXCEPT !.outcome = "Error"] /\ UNCHANGED <<injects, gaveUp>> /\ entry'
    BY <1>1, <2>1, ListsAsk, FeedCounts
  <2>3. /\ st'.kind = "Recovering" /\ st'.outcome = "Error"
        /\ st'.current = st.current /\ st'.remaining = st.remaining
    BY <1>1, <2>2 DEF MachineState
  <2>4. escalated' /\ ~restored'
    BY <1>1, <1>4, <1>5, <1>9 DEF Succeeded
  <2>5. WhileRecovering'
    BY <1>1, <1>3, <2>2, <2>3, <2>4 DEF WhileRecovering
  <2> QED
    BY <1>6, <2>2, <2>3, <2>5
    DEF AloneInv, BeforeInject, WhileInjecting, WhileActive, EndsSettled,
        OutcomeFollowsCause, IsTerminal, Terminal, PreInject
<1>10. CASE Succeeded(ev, st.current)
  <2>1. Step(st, ev) = RecoverySuccess(st)
    BY <1>2, <1>10 DEF StepRecovering, Succeeded, IsFailureOf
  <2>2. escalated' = escalated
    BY <1>4, <1>10, <1>1 DEF Succeeded, TypeOK
  <2>3. CASE st.remaining = << >>
    <3>1. Step(st, ev) = To(Plain(st.outcome, None), <<RemoveJournal, EmitStatus(st.outcome)>>)
      BY <2>1, <2>3 DEF RecoverySuccess
    <3>2. Drops(<<RemoveJournal, EmitStatus(st.outcome)>>)
      BY ListsAsk
    <3>3. st' = Plain(st.outcome, None) /\ UNCHANGED <<injects, gaveUp>> /\ ~entry'
      BY <1>1, <3>1, <3>2, FeedCounts
    <3>4. st'.kind = st.outcome
      BY <3>3 DEF Plain
    <3>5. restored'
      BY <1>1, <1>5, <1>10, <2>3
    <3>6. EndsSettled' /\ OutcomeFollowsCause'
      BY <1>1, <1>3, <2>2, <3>3, <3>4, <3>5
      DEF EndsSettled, OutcomeFollowsCause, WhileRecovering
    <3> QED
      BY <1>6, <1>7, <3>3, <3>4, <3>6
      DEF AloneInv, BeforeInject, WhileInjecting, WhileActive, WhileRecovering, Terminal, PreInject
  <2>4. CASE st.remaining = <<"Cleanup">>
    <3>1. /\ Head(st.remaining) = "Cleanup" /\ Tail(st.remaining) = << >>
          /\ st.remaining # << >>
      BY <2>4
    <3>2. Step(st, ev) = To(Recovering("Cleanup", << >>, st.outcome, FALSE), <<Invoke("Cleanup")>>)
      BY <2>1, <3>1 DEF RecoverySuccess
    <3>3. Quiet(<<Invoke("Cleanup")>>)
      BY ListsAsk
    <3>4. ~restored'
      BY <1>1, <1>5, <3>1
    <3> QED
      BY <1>8, <2>2, <3>2, <3>3, <3>4 DEF Recovering
  <2> QED
    BY <1>7, <2>3, <2>4
<1>11. CASE IsFailureOf(ev, st.current)
  <2>1. Step(st, ev) = RecoveryFailure(st)
    BY <1>2, <1>11 DEF StepRecovering, Succeeded, IsFailureOf
  <2>2. escalated' = escalated
    BY <1>1, <1>4, <1>11 DEF IsFailureOf, TypeOK
  <2>3. ~restored'
    BY <1>1, <1>5, <1>11 DEF IsFailureOf
  <2>4. CASE st.retried
    <3>1. Step(st, ev) = To(Plain("Error", None), <<MarkTainted, RemoveJournal, EmitStatus("Error")>>)
      BY <2>1, <2>4 DEF RecoveryFailure
    <3>2. Quarantines(<<MarkTainted, RemoveJournal, EmitStatus("Error")>>)
      BY ListsAsk
    <3>3. st' = Plain("Error", None) /\ injects' = injects /\ gaveUp' /\ ~entry'
      BY <1>1, <3>1, <3>2, FeedCounts
    <3>4. st'.kind = "Error"
      BY <3>3 DEF Plain
    <3> QED
      BY <1>6, <3>3, <3>4
      DEF AloneInv, BeforeInject, WhileInjecting, WhileActive, WhileRecovering, EndsSettled,
          OutcomeFollowsCause, Terminal, PreInject
  <2>5. CASE ~st.retried
    <3>1. Step(st, ev) = To([st EXCEPT !.retried = TRUE], <<Invoke(st.current)>>)
      BY <2>1, <2>5 DEF RecoveryFailure
    <3>2. Quiet(<<Invoke(st.current)>>)
      BY <1>7, ListsAsk
    <3>3. /\ [st EXCEPT !.retried = TRUE].kind = "Recovering"
          /\ [st EXCEPT !.retried = TRUE].current = st.current
          /\ [st EXCEPT !.retried = TRUE].remaining = st.remaining
          /\ [st EXCEPT !.retried = TRUE].outcome = st.outcome
      BY <1>1 DEF MachineState
    <3> QED
      BY <1>1, <1>8, <2>2, <2>3, <3>1, <3>2, <3>3
  <2> QED
    BY <2>4, <2>5
<1>12. CASE /\ ~(ev.type = "StopRequested" /\ ev.cause = "Deadman")
            /\ ~Succeeded(ev, st.current) /\ ~IsFailureOf(ev, st.current)
  <2>1. Step(st, ev) = To(st, << >>)
    BY <1>2, <1>12 DEF StepRecovering, Ignore
  <2>2. escalated' = escalated
    BY <1>1, <1>4, <1>12 DEF TypeOK
  <2>3. ~restored'
    BY <1>1, <1>5, <1>12
  <2> QED
    BY <1>1, <1>8, <2>1, <2>2, <2>3, ListsAsk
<1> QED
  BY <1>9, <1>10, <1>11, <1>12

LEMMA FromTerminal ==
  ASSUME NEW ev \in Event, AloneInv, Feed(ev), IsTerminal(st)
  PROVE  AloneInv'
<1>1. TypeOK /\ EndsSettled /\ OutcomeFollowsCause /\ st.kind \in Terminal
  BY DEF AloneInv, IsTerminal
<1>2. Step(st, ev) = To(st, << >>)
  BY <1>1 DEF Step, Terminal, Ignore
<1>3. st' = st /\ UNCHANGED <<injects, gaveUp>> /\ entry' = entry
  <2>1. /\ st' = st /\ UNCHANGED <<injects, gaveUp>>
        /\ entry' = (entry \/ (st.kind = "WritingJournal" /\ ev.type = "JournalWritten"))
    BY <1>1, <1>2, ListsAsk, FeedCounts
  <2>2. st.kind # "WritingJournal" /\ entry \in BOOLEAN
    BY <1>1 DEF Terminal, TypeOK
  <2> QED
    BY <2>1, <2>2
<1>4. effected' = effected /\ restored' = restored /\ first' = first /\ escalated' = escalated
  BY <1>1, FeedKeeps DEF Terminal
<1>5. TypeOK'
  BY <1>1, <1>3, FeedTypes DEF TypeOK
<1> QED
  BY <1>1, <1>3, <1>4, <1>5
  DEF AloneInv, BeforeInject, WhileInjecting, WhileActive, WhileRecovering, EndsSettled,
      OutcomeFollowsCause, IsTerminal, Terminal, PreInject

-----------------------------------------------------------------------------
LEMMA StartsSound == Init => AloneInv
<1> SUFFICES ASSUME Init PROVE AloneInv
  OBVIOUS
<1>1. st \in MachineState
  BY PlainType DEF Init, Kind, PreInject, Terminal
<1>2. st.kind = "Pending" /\ st.stop = None
  BY DEF Init, Plain
<1>3. TypeOK
  <2>1. entry \in BOOLEAN /\ restored \in BOOLEAN /\ gaveUp \in BOOLEAN /\ escalated \in BOOLEAN
    BY DEF Init
  <2> QED
    BY <1>1, <2>1 DEF Init, TypeOK
<1>4. Fresh /\ ~entry /\ injects = 0 /\ first = None
  BY DEF Init, Fresh
<1> QED
  BY <1>2, <1>3, <1>4
  DEF AloneInv, BeforeInject, WhileInjecting, WhileActive, WhileRecovering,
      EndsSettled, OutcomeFollowsCause, IsTerminal, Terminal, PreInject

LEMMA FeedKeepsSound ==
  ASSUME NEW ev \in Event, AloneInv, Feed(ev)
  PROVE  AloneInv'
<1>1. st.kind \in Kind
  BY DEF AloneInv, TypeOK, MachineState
<1>2. \/ st.kind = "Pending" \/ st.kind \in {"PreflightInstall", "PreflightRuntime"}
      \/ st.kind = "WritingJournal" \/ st.kind = "Injecting" \/ st.kind = "Active"
      \/ st.kind = "Recovering" \/ IsTerminal(st)
  BY <1>1 DEF Kind, PreInject, IsTerminal
<1> QED
  BY <1>2, FromPending, FromPreflight, FromWritingJournal, FromInjecting, FromActive,
     FromRecovering, FromTerminal

(* The invariant holds of every run of the machine.                         *)
THEOREM AloneInvariant == Spec => []AloneInv
<1>1. AloneInv /\ [Next]_vars => AloneInv'
  <2>1. AloneInv /\ UNCHANGED vars => AloneInv'
    BY DEF vars, AloneInv, TypeOK, BeforeInject, WhileInjecting, WhileActive, WhileRecovering,
           EndsSettled, OutcomeFollowsCause, Fresh
  <2> QED
    BY <2>1, FeedKeepsSound DEF Next
<1> QED
  BY <1>1, StartsSound, PTL DEF Spec

(* Whatever events come, in whatever order, inject is asked for once, and   *)
(* an instance at its end has dropped its entry and is clean or given up    *)
(* (the exits of step_writing_journal, step_injecting, step_recovering).    *)
THEOREM NoEventsUnsettle == Spec => []MachineSound
<1>1. AloneInv => MachineSound
  BY DEF AloneInv, MachineSound
<1> QED
  BY <1>1, AloneInvariant, PTL

(* Whatever events come, the end says why (stop.or, StopCause::outcome, the *)
(* escalation in step_recovering).                                          *)
THEOREM TheEndSaysWhy == Spec => []OutcomeFollowsCause
<1>1. AloneInv => OutcomeFollowsCause
  BY DEF AloneInv
<1> QED
  BY <1>1, AloneInvariant, PTL

(* Only a step from the journal written, with no stop recorded, asks for    *)
(* inject.                                                                  *)
LEMMA InjectIsJournaled ==
  ASSUME NEW ev \in Event, AloneInv, Feed(ev), injects' > injects
  PROVE  entry' /\ first = None
<1>1. TypeOK /\ injects \in Int /\ injects' # injects
  BY DEF AloneInv, TypeOK
<1>2. ASSUME NEW s, NEW list, Step(st, ev) = To(s, list),
             Quiet(list) \/ Drops(list) \/ Quarantines(list)
      PROVE  FALSE
  BY <1>1, <1>2, FeedCounts
<1>3. ~Absorbed(st, Step(st, ev))
  <2> SUFFICES ASSUME Absorbed(st, Step(st, ev)) PROVE FALSE
    OBVIOUS
  <2>1. Step(st, ev).effects = << >>
    BY DEF Absorbed
  <2>2. ~Requests(Step(st, ev).effects, Invoke("Inject"))
    BY <2>1, NothingAsked
  <2> QED
    BY <1>1, <2>2 DEF Feed, Tally
<1>4. \A cause \in StopCause : Step(st, ev) # StartRecovery(cause)
  <2> SUFFICES ASSUME NEW cause \in StopCause, Step(st, ev) = StartRecovery(cause) PROVE FALSE
    OBVIOUS
  <2>1. PICK s, w, c :
          StartRecovery(cause) = To(s, <<EmitStatus(w), Invoke(c)>>) /\ c # "Inject"
    BY RecoveryBegins
  <2> QED
    BY <1>2, <2>1, ListsAsk
<1>5. Step(st, ev) # AbortedWith /\ Step(st, ev) # AbortedUnjournaled
  BY <1>2, ListsAsk DEF AbortedWith, AbortedUnjournaled
<1>6. ~InjectMove(st, ev, Step(st, ev))
  <2>1. Step(st, ev) # To(Plain("Active", None), <<EmitStatus("Active")>>)
    BY <1>2, ListsAsk
  <2> QED
    BY <1>4, <1>5, <2>1 DEF InjectMove
<1>7. ~RecoveryMove(st, ev, Step(st, ev))
  <2> SUFFICES ASSUME RecoveryMove(st, ev, Step(st, ev)) PROVE FALSE
    OBVIOUS
  <2>1. ev.type = "StopRequested" => ev.cause \in StopCause
    BY EventFields
  <2>2. st.kind = "Recovering" => st.current \in {"Abort", "Cleanup"}
    BY <1>1 DEF TypeOK, MachineState
  <2>3. /\ \A w : Drops(<<RemoveJournal, EmitStatus(w)>>)
        /\ \A w : Quarantines(<<MarkTainted, RemoveJournal, EmitStatus(w)>>)
        /\ Quiet(<<Invoke("Abort")>>) /\ Quiet(<<Invoke("Cleanup")>>)
    BY ListsAsk
  <2> QED
    BY <1>2, <1>4, <2>1, <2>2, <2>3 DEF RecoveryMove
<1>8. PreInjectMove(st, ev, Step(st, ev))
  BY <1>1, <1>3, <1>6, <1>7, StepCases DEF TypeOK
<1>9. /\ Quiet(<<EmitStatus("Preflight"), Invoke("Preflight")>>)
      /\ Quiet(<<Invoke("Preflight")>>) /\ Quiet(<<WriteJournal>>)
  BY ListsAsk
<1>10. /\ st.kind = "WritingJournal" /\ ev.type = "JournalWritten" /\ st.stop = None
       /\ Step(st, ev) = To(Plain("Injecting", None), <<EmitStatus("Injecting"), Invoke("Inject")>>)
  BY <1>2, <1>5, <1>8, <1>9 DEF PreInjectMove
<1>11. entry'
  BY <1>1, <1>10, ListsAsk, FeedCounts
<1>12. st.stop = first
  BY <1>10 DEF AloneInv, BeforeInject, PreInject
<1> QED
  BY <1>10, <1>11, <1>12

(* Inject is asked for only with an entry outstanding, and never once a     *)
(* stop was delivered (step_preflight, step_writing_journal).               *)
THEOREM InjectNeedsItsEntry == Spec => InjectsJournaled
<1>1. AloneInv /\ [Next]_vars => [injects' > injects => entry' /\ first = None]_vars
  BY InjectIsJournaled DEF Next
<1> QED
  BY <1>1, AloneInvariant, PTL DEF Spec, InjectsJournaled
=============================================================================
