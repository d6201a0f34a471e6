---------------------------- MODULE ParseMeaning ----------------------------
(***************************************************************************)
(* What parseLine reads, against what the line says: JsonDecoder, which is *)
(* what ffjson generated, and JsonValues, which is what it was generated   *)
(* from.                                                                   *)
(***************************************************************************)
EXTENDS ParseLine, JsonValues

(* A whole line is read exactly when every member that nf knows, in any    *)
(* spelling of its key, has a value of its field's type, and nf then holds *)
(* what the tags of types.go say: the switch, the comparisons, the         *)
(* dispatch and the handlers of types_ffjson.go agree on all 143 fields,   *)
(* and skipping an unknown value never swallows a member after it.         *)
ReadByTags ==
    pc = "parse" /\ ~cut /\ outcome # "scanning" =>
        /\ outcome = "done" <=> Fits("nf", doc)
        /\ outcome = "done" => value = Meaning("nf", <<>>, doc, EmptyStruct)
=============================================================================
