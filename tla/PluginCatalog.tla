--------------------------- MODULE PluginCatalog ---------------------------
(***************************************************************************)
(* The pure half of the plugin contract, shared by master and agent:       *)
(* manifests, parameter schemas, digests and the two catalogs.  A JSON     *)
(* value is its type, an entrypoint is where it points, a file is a record *)
(* of its bytes, cut in chunks, and a manifest also of what it says.  The  *)
(* name of the plugin is fixed; a version is its identity.                 *)
(***************************************************************************)
EXTENDS Naturals, SequencesExt

CONSTANTS
  Version,     \* plugin versions a definition may name
  Chunk,       \* runs of bytes a file may be made of
  Manifest,    \* contents of a manifest file that is valid YAML
  Program,     \* contents of a complete entrypoint file
  Absent,      \* nothing there: no such file, no order yet
  Garbled      \* a file that is being written, or that does not parse

(* What a manifest says is decided by its bytes.                            *)
ASSUME FilesAssumption ==
  /\ \A file \in Manifest \cup Program \cup {Garbled} : file.bytes \in Seq(Chunk)
  /\ \A one, other \in Manifest : one.bytes = other.bytes => one = other

EmptyVersion == ""
UnsafeVersion == "../1"

ParamType == {"String", "Int", "Bool"}

-----------------------------------------------------------------------------
(* A closed schema: nothing undeclared, nothing missing, each of its type.  *)
ValidParams(schema, params) ==
  /\ DOMAIN params \subseteq DOMAIN schema
  /\ DOMAIN schema \subseteq DOMAIN params
  /\ \A name \in DOMAIN schema : params[name] = schema[name]

PathSafe(version) == version # UnsafeVersion

ValidManifest(m) ==
  /\ m.entrypoint = "inside"    \* not "", absolute, or with a ".." component
  /\ m.version # EmptyVersion
  /\ PathSafe(m.version)
  /\ m.max > 0

(* What of the bytes of a manifest file parses: strictly, then validated.   *)
Parses(bytes) == bytes \notin {Absent, Garbled} /\ ValidManifest(bytes)

(* sha256 of the manifest and then the program, with nothing in between: a  *)
(* digest tells their bytes apart, but not where the one ends.              *)
Digest(manifest, program) == manifest.bytes \o program.bytes

Loads(dir) == Parses(dir.manifest) /\ dir.program # Absent

DigestOf(dir) == Digest(dir.manifest, dir.program)

-----------------------------------------------------------------------------
(***************************************************************************)
(* The master: its catalog, read once at start, and the checks VALIDATE    *)
(* makes of the plugin an action names.                                    *)
(***************************************************************************)
LoadCatalog(library) ==
  {dir \in library : Loads(dir) /\ dir.name = dir.manifest.version}

Entries(catalog, version) == {dir \in catalog : dir.manifest.version = version}

PluginFailures(catalog, def) ==
  {f \in {"UnknownPlugin", "InvalidParams", "DurationOverMax", "ZeroDuration"} :
     \/ f = "UnknownPlugin" /\ Entries(catalog, def.version) = {}
     \/ f = "InvalidParams" /\ \E e \in Entries(catalog, def.version) :
                                 ~ValidParams(e.manifest.schema, def.params)
     \/ f = "DurationOverMax" /\ \E e \in Entries(catalog, def.version) :
                                   def.duration > e.manifest.max
     \/ f = "ZeroDuration" /\ def.duration = 0}

(* The digest, which the master reads from its own copy of the plugin, is   *)
(* all that ties an order to the agent's copy.                              *)
OrderOf(entry, def) ==
  [version |-> def.version, digest |-> DigestOf(entry), params |-> def.params,
   path |-> def.path, duration |-> def.duration]

-----------------------------------------------------------------------------
(* Mutant: a bound that is not the master's.                                *)
SetupDenialStrict(manifest, order) ==
  IF ~ValidParams(manifest.schema, order.params) THEN "Params"
  ELSE IF order.duration >= manifest.max THEN "Duration"
  ELSE "None"

(* The agent: what setup checks of an order once its plugin is resolved.    *)
SetupDenial(manifest, order) ==
  IF ~ValidParams(manifest.schema, order.params) THEN "Params"
  ELSE IF order.duration > manifest.max THEN "Duration"
  ELSE "None"
=============================================================================
