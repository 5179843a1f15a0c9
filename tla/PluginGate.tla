---------------------------- MODULE PluginGate ----------------------------
(***************************************************************************)
(* One order from the master's VALIDATE to the end of its instance, seen   *)
(* from the plugin: the order carries the digest of the master's copy, the *)
(* agent resolves and hashes its own copy before setup and before every    *)
(* command, and the process it then spawns is noop-marker.  Meanwhile an   *)
(* operator installs plugins file by file, the marker directory may change *)
(* its mode, the process may be killed and the agent may crash.            *)
(*                                                                         *)
(* The instance is InstanceMachine.  Left to Supervisor: other instances,  *)
(* frames, timers, the taint check of setup, processes that outlive a      *)
(* crash.  Temporary files other than the one being written are left out.  *)
(***************************************************************************)
EXTENDS InstanceMachine, PluginCatalog

CONSTANTS
  Libraries,      \* the catalog roots a master may start with
  Definition,     \* the plugin part of the actions an operator may submit
  SpawnRetries,   \* spawn attempts after ETXTBSY (5 in the code)
  MaxInstalls,    \* bound: files replaced in the agent's copy
  MaxModes,       \* bound: mode changes of the marker directory
  MaxStops,       \* bound: stops requested
  MaxCrashes      \* bound: crashes of the agent

ASSUME BoundsAssumption ==
  {SpawnRetries, MaxInstalls, MaxModes, MaxStops, MaxCrashes} \subseteq Nat

ASSUME LibrariesAssumption ==
  \A entry \in UNION Libraries :
    /\ entry.manifest \in Manifest \cup {Absent, Garbled}
    /\ entry.program \in Program \cup {Absent, Garbled}

VARIABLES
  catalog,   \* the master's catalog
  order,     \* the RunFault frame, or Absent
  shelf,     \* the agent's directory for the version ordered
  agent,     \* "idle" (no order yet), "running", "down" or "forgot"
  st,        \* the machine state
  todo,      \* effects still to perform, the head being under way
  gate,      \* how far resolution, spawn and process of the current purpose got
  dir,       \* the marker directory
  marker,    \* the file at marker_path
  journal,   \* is the instance journaled?
  tainted,   \* is the host quarantined?
  denied,    \* why setup rejected the order, and by which manifest (history)
  denier,
  said,      \* result of the last command that exited (history)
  replaced,  \* files replaced, and since the last verification? (history)
  modes, stops, crashes, \* against their bounds
  killed,    \* was a process killed? (history)
  unwritten  \* did the last taint record fail to be written? (history)

machineVars == <<agent, st, todo, journal, tainted>>
hostVars == <<dir, marker>>
histVars == <<denied, denier, said, modes, stops, crashes, killed, unwritten>>
vars == <<catalog, order, shelf, machineVars, gate, hostVars, histVars, replaced>>

(* A gate is at rest, reading, verified or running.  seen is the manifest   *)
(* read, image the program a process was started from, tries the spawn      *)
(* attempts lost, code the exit code a process is about to return.          *)
Gate(at, purpose, seen, image) ==
  [at |-> at, purpose |-> purpose, seen |-> seen, image |-> image, tries |-> 0, code |-> 0]
NoGate == Gate("rest", None, Absent, Absent)

NothingSaid == <<None, None>>
ProcessAt == {"started", "probe", "written", "exiting"}
IsRunning == gate.at \in ProcessAt

Code == {0, 1, 10, 20, 30}
Files == [manifest : Manifest \cup {Absent, Garbled}, program : Program \cup {Absent, Garbled}]
Modes == {"missing", "writable", "readonly", "barred", "unreachable"}

TypeOK ==
  /\ catalog \in {LoadCatalog(l) : l \in Libraries}
  /\ order = Absent \/ \E e \in catalog, def \in Definition : order = OrderOf(e, def)
  /\ shelf \in Files
  /\ agent \in {"idle", "running", "down", "forgot"}
  /\ st \in MachineState
  /\ todo \in Seq(Effect)
  /\ gate \in [at : {"rest", "manifest", "program", "spawn"} \cup ProcessAt,
               purpose : Command \cup {"Setup", None},
               seen : Manifest \cup {Absent}, image : Program \cup {Absent},
               tries : 0..SpawnRetries, code : Code]
  /\ dir \in Modes
  /\ marker \in {"absent", "present"}
  /\ {journal, tainted, killed, unwritten} \subseteq BOOLEAN
  /\ denied \in {None, "Unresolved", "Params", "Duration"}
  /\ denier \in Manifest \cup {Absent}
  /\ said \in {NothingSaid} \cup (Command \X Disposition)
  /\ replaced \in [files : 0..MaxInstalls, since : BOOLEAN]
  /\ modes \in 0..MaxModes /\ stops \in 0..MaxStops /\ crashes \in 0..MaxCrashes

(* Any agent's copy, any directory, a master that has read its catalog.     *)
Init ==
  /\ catalog \in {LoadCatalog(l) : l \in Libraries}
  /\ order = Absent
  /\ shelf \in {f \in Files : f.program # Garbled}
  /\ agent = "idle"
  /\ st = Plain("Pending", None)
  /\ todo = << >>
  /\ gate = NoGate
  /\ dir \in Modes
  /\ marker = "absent"
  /\ journal = FALSE /\ tainted = FALSE
  /\ denied = None /\ denier = Absent /\ said = NothingSaid
  /\ killed = FALSE /\ unwritten = FALSE
  /\ replaced = [files |-> 0, since |-> FALSE]
  /\ modes = 0 /\ stops = 0 /\ crashes = 0

-----------------------------------------------------------------------------
(***************************************************************************)
(* The master accepts a definition and sends the order; the agent starts   *)
(* the task, whose first act is setup.                                     *)
(***************************************************************************)
Submit ==
  /\ agent = "idle"
  /\ \E def \in Definition :
       /\ PluginFailures(catalog, def) = {}
       /\ \E e \in Entries(catalog, def.version) : order' = OrderOf(e, def)
  /\ agent' = "running"
  /\ gate' = [NoGate EXCEPT !.at = "manifest", !.purpose = "Setup"]
  /\ UNCHANGED <<catalog, shelf, st, todo, journal, tainted, hostVars, histVars, replaced>>

(* An event reaches the machine; its effects follow those still to perform. *)
Deliver(ev, rest) ==
  /\ st' = Step(st, ev).state
  /\ todo' = rest \o Step(st, ev).effects

(* What was asked for ended: setup, or the Invoke at the head of todo.      *)
Conclude(ev) ==
  /\ Deliver(ev, IF gate.purpose = "Setup" THEN << >> ELSE Tail(todo))
  /\ gate' = NoGate

-----------------------------------------------------------------------------
(***************************************************************************)
(* resolve_verified, before setup and before every command: the manifest   *)
(* is read, then the program is hashed, then (later still) spawned.        *)
(***************************************************************************)
Unresolved ==
  /\ IF gate.purpose = "Setup"
     THEN denied' = "Unresolved" /\ Conclude(Plainly("SetupFailed"))
     ELSE UNCHANGED denied /\ Conclude(InvokeRejected(gate.purpose))
  /\ UNCHANGED <<denier, replaced>>

ReadManifest ==
  /\ gate.at = "manifest"
  /\ \/ /\ PathSafe(order.version) /\ Parses(shelf.manifest)
        /\ gate' = [gate EXCEPT !.at = "program", !.seen = shelf.manifest]
        /\ UNCHANGED <<st, todo, denied, denier, replaced>>
     \/ /\ ~(PathSafe(order.version) /\ Parses(shelf.manifest))
        /\ Unresolved
  /\ UNCHANGED <<catalog, order, shelf, agent, journal, tainted, hostVars, said, modes,
                 stops, crashes, killed, unwritten>>

(* Mutant: recovery trusts the verdict that let the fault in.               *)
VerifiedOnce ==
  /\ shelf.program # Absent
  /\ gate.purpose \in {"Setup", "Preflight", "Inject"} =>
       Digest(gate.seen, shelf.program) = order.digest

Verified == shelf.program # Absent /\ Digest(gate.seen, shelf.program) = order.digest

Setup ==
  /\ denied' = SetupDenial(gate.seen, order)
  /\ denier' = IF denied' = None THEN Absent ELSE gate.seen
  /\ Conclude(Plainly(IF denied' = None THEN "SetupOk" ELSE "SetupFailed"))
  /\ UNCHANGED replaced

HashProgram ==
  /\ gate.at = "program"
  /\ \/ Verified /\ gate.purpose = "Setup" /\ Setup
     \/ /\ Verified /\ gate.purpose # "Setup"
        /\ gate' = [gate EXCEPT !.at = "spawn"]
        /\ replaced' = [replaced EXCEPT !.since = FALSE]
        /\ UNCHANGED <<st, todo, denied, denier>>
     \/ ~Verified /\ Unresolved
  /\ UNCHANGED <<catalog, order, shelf, agent, journal, tainted, hostVars, said, modes,
                 stops, crashes, killed, unwritten>>

TriesAgain == shelf.program = Garbled /\ gate.tries < SpawnRetries

(* A program still open for writing is tried again a few times; a missing   *)
(* one fails at once.                                                       *)
Spawn ==
  /\ gate.at = "spawn"
  /\ \/ /\ shelf.program \in Program
        /\ gate' = [gate EXCEPT !.at = "started", !.image = shelf.program]
        /\ said' = NothingSaid
        /\ UNCHANGED <<st, todo>>
     \/ /\ TriesAgain
        /\ gate' = [gate EXCEPT !.tries = @ + 1]
        /\ UNCHANGED <<st, todo, said>>
     \/ /\ shelf.program \notin Program /\ ~TriesAgain
        /\ Conclude(InvocationFailed(gate.purpose))
        /\ UNCHANGED said
  /\ UNCHANGED <<catalog, order, shelf, agent, journal, tainted, hostVars, denied, denier, modes,
                 stops, crashes, killed, unwritten, replaced>>

-----------------------------------------------------------------------------
(***************************************************************************)
(* The other effects, and the wait in Active.  An entry that cannot be     *)
(* removed and a taint record that cannot be written are logged, and the   *)
(* task goes on.                                                           *)
(***************************************************************************)
Performs(effect) == agent = "running" /\ gate.at = "rest" /\ todo # << >> /\ Head(todo) = effect

Perform ==
  /\ \/ /\ \E c \in Command :
             Performs(Invoke(c)) /\ gate' = [NoGate EXCEPT !.at = "manifest", !.purpose = c]
        /\ UNCHANGED <<st, todo, journal, tainted, unwritten>>
     \/ /\ \E s \in WireState : Performs(EmitStatus(s))
        /\ todo' = Tail(todo)
        /\ UNCHANGED <<st, gate, journal, tainted, unwritten>>
     \/ /\ Performs(WriteJournal)
        /\ \/ journal' = TRUE /\ Deliver(Plainly("JournalWritten"), Tail(todo))
           \/ UNCHANGED journal /\ Deliver(Plainly("JournalWriteFailed"), Tail(todo))
        /\ UNCHANGED <<gate, tainted, unwritten>>
     \/ /\ Performs(RemoveJournal)
        /\ journal' \in {FALSE, journal} /\ todo' = Tail(todo)
        /\ UNCHANGED <<st, gate, tainted, unwritten>>
     \/ /\ Performs(MarkTainted)
        /\ \/ tainted' = TRUE /\ unwritten' = FALSE
           \/ UNCHANGED tainted /\ unwritten' = TRUE
        /\ todo' = Tail(todo)
        /\ UNCHANGED <<st, gate, journal>>
  /\ UNCHANGED <<catalog, order, shelf, agent, hostVars, denied, denier, said, modes, stops,
                 crashes, killed, replaced>>

StopActive ==
  /\ agent = "running" /\ st.kind = "Active" /\ todo = << >>
  /\ \E cause \in StopCause : Deliver(StopRequested(cause), << >>)
  /\ UNCHANGED <<catalog, order, shelf, agent, gate, journal, tainted, hostVars, histVars,
                 replaced>>

(* An operator abort during a command goes to the front of the queue, hence *)
(* to the machine before the result of the command does.                    *)
StopDuringRun ==
  /\ IsRunning /\ stops < MaxStops
  /\ st' = Step(st, StopRequested("OperatorAbort")).state
  /\ stops' = stops + 1
  /\ UNCHANGED <<catalog, order, shelf, agent, todo, gate, journal, tainted, hostVars, denied,
                 denier, said, modes, crashes, killed, unwritten, replaced>>

-----------------------------------------------------------------------------
(***************************************************************************)
(* The process.  Every command but preflight refuses a marker_path that is *)
(* not absolute.                                                           *)
(***************************************************************************)
Runs(commands, at) == gate.purpose \in commands /\ gate.at = at
Exiting(code) == [gate EXCEPT !.at = "exiting", !.code = code]

OnHost == UNCHANGED <<catalog, order, shelf, machineVars, histVars, replaced>>

(* create_dir makes at most the last component.                             *)
PreflightDir ==
  /\ Runs({"Preflight"}, "started")
  /\ IF order.path # "absolute" \/ dir = "unreachable"
     THEN gate' = Exiting(10) /\ UNCHANGED dir
     ELSE /\ gate' = [gate EXCEPT !.at = "probe"]
          /\ dir' = IF dir = "missing" THEN "writable" ELSE dir
  /\ UNCHANGED marker /\ OnHost

PreflightProbe ==
  /\ Runs({"Preflight"}, "probe")
  /\ gate' = Exiting(IF dir = "writable" THEN 0 ELSE 10)
  /\ UNCHANGED hostVars /\ OnHost

(* The temporary file is created, written and synced; any of it may fail.   *)
WriteTemp ==
  /\ Runs({"Inject"}, "started")
  /\ gate' \in IF order.path # "absolute" THEN {Exiting(1)}
               ELSE IF dir # "writable" THEN {Exiting(20)}
               ELSE {Exiting(20), [gate EXCEPT !.at = "written"]}
  /\ UNCHANGED hostVars /\ OnHost

(* Mutant: a failure after the rename is reported as a failed inject.       *)
PersistLate ==
  /\ Runs({"Inject"}, "written")
  /\ \/ dir = "writable" /\ marker' = "present" /\ gate' \in {Exiting(0), Exiting(20)}
     \/ dir # "writable" /\ gate' = Exiting(20) /\ UNCHANGED marker
  /\ UNCHANGED dir /\ OnHost

(* The rename is the last thing that can fail.                              *)
Persist ==
  /\ Runs({"Inject"}, "written")
  /\ \/ dir = "writable" /\ marker' = "present" /\ gate' = Exiting(0)
     \/ dir # "writable" /\ gate' = Exiting(20) /\ UNCHANGED marker
  /\ UNCHANGED dir /\ OnHost

Removable == marker # "absent" /\ dir = "writable"
NotThere == marker = "absent" /\ dir # "barred"

(* Mutant: an absent marker is an error.                                    *)
RevertOnce ==
  /\ Runs({"Abort", "Cleanup"}, "started")
  /\ IF order.path = "absolute" /\ Removable
     THEN marker' = "absent" /\ gate' = Exiting(0)
     ELSE gate' = Exiting(30) /\ UNCHANGED marker
  /\ UNCHANGED dir /\ OnHost

(* Removed or already gone: either way the host is clean.                   *)
Revert ==
  /\ Runs({"Abort", "Cleanup"}, "started")
  /\ IF order.path # "absolute" THEN gate' = Exiting(1) /\ UNCHANGED marker
     ELSE IF Removable THEN marker' = "absent" /\ gate' = Exiting(0)
     ELSE gate' = Exiting(IF NotThere THEN 0 ELSE 30) /\ UNCHANGED marker
  /\ UNCHANGED dir /\ OnHost

DispositionOf(code) ==
  CASE code = 0 -> "Success" [] code = 10 -> "PreflightFailed"
    [] code = 20 -> "InjectFailed" [] code = 30 -> "RecoveryFailed" [] OTHER -> "Unexpected"

ProcessExits ==
  /\ gate.at = "exiting"
  /\ said' = <<gate.purpose, DispositionOf(gate.code)>>
  /\ Conclude(CommandFinished(gate.purpose, DispositionOf(gate.code)))
  /\ UNCHANGED <<catalog, order, shelf, agent, journal, tainted, hostVars, denied, denier, modes,
                 stops, crashes, killed, unwritten, replaced>>

(* The invocation timeout, or a signal from anyone, at any moment.          *)
ProcessKilled ==
  /\ IsRunning
  /\ killed' = TRUE /\ said' = NothingSaid
  /\ Conclude(InvocationFailed(gate.purpose))
  /\ UNCHANGED <<catalog, order, shelf, agent, journal, tainted, hostVars, denied, denier, modes,
                 stops, crashes, unwritten, replaced>>

-----------------------------------------------------------------------------
(***************************************************************************)
(* The operator at the agent's catalog and at the directory; a crash takes *)
(* the process along, and what the restarted agent finds is the journal.   *)
(***************************************************************************)
Installed(files) ==
  /\ order # Absent
  /\ replaced.files < MaxInstalls
  /\ files # shelf
  /\ shelf' = files
  /\ replaced' = [files |-> replaced.files + 1, since |-> TRUE]
  /\ UNCHANGED <<catalog, order, machineVars, gate, hostVars, histVars>>

(* A running program cannot be opened for writing, only renamed over.       *)
Install ==
  \/ \E m \in Manifest \cup {Absent, Garbled} : Installed([shelf EXCEPT !.manifest = m])
  \/ \E p \in Program \cup {Absent} : Installed([shelf EXCEPT !.program = p])
  \/ ~IsRunning /\ Installed([shelf EXCEPT !.program = Garbled])

ChangeMode ==
  /\ order # Absent
  /\ dir \in {"writable", "readonly", "barred"} /\ modes < MaxModes
  /\ dir' \in {"writable", "readonly", "barred"} \ {dir}
  /\ modes' = modes + 1
  /\ UNCHANGED <<catalog, order, shelf, machineVars, gate, marker, denied, denier, said, stops,
                 crashes, killed, unwritten, replaced>>

Crash ==
  /\ agent = "running" /\ crashes < MaxCrashes
  /\ agent' = "down"
  /\ crashes' = crashes + 1
  /\ gate' = NoGate
  /\ todo' = << >>
  /\ said' = IF IsRunning THEN NothingSaid ELSE said
  /\ UNCHANGED <<catalog, order, shelf, st, journal, tainted, hostVars, denied, denier, modes,
                 stops, killed, unwritten, replaced>>

(* Replay of the entry, which holds the digest of the order.                *)
Restart ==
  /\ agent = "down"
  /\ \/ /\ journal
        /\ agent' = "running"
        /\ \E outcome \in {"Aborted", "Error"} :
             LET r == ReplayRecovery(outcome) IN st' = r.state /\ todo' = r.effects
     \/ ~journal /\ agent' = "forgot" /\ UNCHANGED <<st, todo>>
  /\ UNCHANGED <<catalog, order, shelf, gate, journal, tainted, hostVars, histVars, replaced>>

Process == PreflightDir \/ PreflightProbe \/ WriteTemp \/ Persist \/ Revert

Next ==
  \/ Submit
  \/ ReadManifest \/ HashProgram \/ Spawn
  \/ Perform \/ StopActive \/ StopDuringRun
  \/ Process \/ ProcessExits \/ ProcessKilled
  \/ Install \/ ChangeMode
  \/ Crash \/ Restart

Spec == Init /\ [][Next]_vars

-----------------------------------------------------------------------------
(* The manifest that was read and the program that runs are, one after the  *)
(* other, the very bytes the master ordered, unless a file was replaced     *)
(* after they were hashed.  About: the digest recomputed before    *)
(* every command in invoke_gated, from a manifest and a program read one    *)
(* after the other while either may be replaced.                            *)
RanAsOrdered ==
  IsRunning /\ ~replaced.since => Digest(gate.seen, gate.image) = order.digest

(* What the master accepts the agent accepts: with its own copy of the      *)
(* plugin, read at another time, the agent denies an order for its          *)
(* parameters or its duration only where the digest is blind: by a manifest *)
(* that is the master's with the cut to the program moved.  About:          *)
(* validate_params "cannot drift between the two ends", the bound on the    *)
(* duration written twice, and a digest over a plain concatenation.         *)
Recut(one, other) ==
  IsStrictPrefix(one.bytes, other.bytes) \/ IsStrictPrefix(other.bytes, one.bytes)

ValidationAgrees ==
  denied \in {"Params", "Duration"} =>
    \E e \in Entries(catalog, order.version) :
      DigestOf(e) = order.digest /\ Recut(denier, e.manifest)

(* A marker is never left behind unnoticed: while it is there the instance  *)
(* is journaled or the host quarantined, whatever was killed, closed or     *)
(* replaced meanwhile, or else the record of its quarantine could not be    *)
(* written, "the loudest failure the agent has".  About: the exit codes of  *)
(* inject and revert, what the machine concludes from each, and writes that *)
(* fail at the end.                                                         *)
MarkerAccounted == marker # "absent" => journal \/ tainted \/ unwritten

(* The host is not quarantined for nothing: some file was replaced, the     *)
(* directory changed its mode, or a process was killed.  About: the abort   *)
(* and cleanup that a stop runs one after the other, and the repeats after  *)
(* a crash, which find the marker gone.                                     *)
QuarantineHasCause == tainted => replaced.files > 0 \/ modes > 0 \/ killed

(* The same, with every variable in its range.                              *)
GateSound == TypeOK /\ QuarantineHasCause

(* The plugin the agent runs keeps the contract the agent relies on.        *)
(* About: the exit-code table of the protocol against the commands of       *)
(* noop-marker, with kills, crashes and closed directories in between.      *)
Contract ==
  INSTANCE FaultPlugin WITH
    live <- marker # "absent",
    running <- IF IsRunning THEN gate.purpose ELSE None

KeepsContract == Contract!Spec
=============================================================================
