---------------------------- MODULE MCPluginGate ----------------------------
(***************************************************************************)
(* TLC instance of PluginGate: builds of version 1 with schemas and        *)
(* durations of their own, a manifest that does not validate, and the ways *)
(* a catalog root can be right or wrong.  Grown is Old with a parameter    *)
(* more at its end, and p1 begins with the bytes of that parameter: Old    *)
(* with p1 has the digest of Grown with p2.                                *)
(***************************************************************************)
EXTENDS PluginGate, TLC

Chunks == {"old", "mode", "new", "bad", "elf", "part"}

p1 == [bytes |-> <<"mode", "elf">>]
p2 == [bytes |-> <<"elf">>]
Programs == {p1, p2}
Partial == [bytes |-> <<"part">>]

Old == [version |-> "1", entrypoint |-> "inside", max |-> 2,
        schema |-> "marker_path" :> "String", bytes |-> <<"old">>]
Grown == [Old EXCEPT !.schema = @ @@ "mode" :> "Int", !.bytes = <<"old", "mode">>]
New == [Grown EXCEPT !.max = 1, !.bytes = <<"new">>]
Escaping == [Old EXCEPT !.entrypoint = "escaping", !.bytes = <<"bad">>]

Manifests == {Old, Grown, New, Escaping}

Entry(name, manifest, program) == [name |-> name, manifest |-> manifest, program |-> program]

Roots ==
  {{Entry("1", Old, p1)}, {Entry("1", New, p1), Entry("copy", Old, p2)}, {Entry("1", Grown, p2)},
   {Entry("1", Escaping, p1)}, {Entry("1", Old, Absent)}}

Parameters ==
  {"marker_path" :> "String", "marker_path" :> "Int",
   "marker_path" :> "String" @@ "mode" :> "Int"}

Definitions ==
  [version : Version, params : Parameters, path : {"absolute", "relative"}, duration : 0..2]
=============================================================================
