----------------------------- MODULE JsonValues -----------------------------
(***************************************************************************)
(* What the json tags of types.go promise, whatever code carries it out:   *)
(* which JSON values an nf can be read from and what it then holds.  A     *)
(* JSON value is a tree; its text is a sequence of tokens.                 *)
(***************************************************************************)
EXTENDS StructTags

Node(kind, text, members) ==
    [kind |-> kind, text |-> text, members |-> members]
Scalar(kind, text) == Node(kind, text, <<>>)
Object(members) == Node("object", "empty", members)
Array(items) == Node("array", "empty", items)
Member(key, val) == [key |-> key, val |-> val]

RECURSIVE Tokens(_)
Tokens(node) ==
    CASE node.kind = "object" ->
           <<Mark("left_bracket")>>
           \o Listed([k \in DOMAIN node.members |->
                         <<node.members[k].key, Mark("colon")>>
                         \o Tokens(node.members[k].val)])
           \o <<Mark("right_bracket")>>
      [] node.kind = "array" ->
           <<Mark("left_brace")>>
           \o Listed([k \in DOMAIN node.members |-> Tokens(node.members[k])])
           \o <<Mark("right_brace")>>
      [] OTHER ->
           <<[tok |-> node.kind, text |-> node.text, spelled |-> "exact"]>>

FieldsOf(s, key) == {f \in DOMAIN Tag[s] : Tag[s][f] = key.text}

RECURSIVE Fits(_, _)
Fits(s, node) ==
    /\ node.kind = "object"
    /\ \A k \in DOMAIN node.members :
       \A f \in FieldsOf(s, node.members[k].key) :
          LET val == node.members[k].val
              type == TypeOf(s, f)
          IN  \/ val.kind = "null"
              \/ type \in DOMAIN Tag /\ Fits(type, val)
              \/ /\ val.text # "out_of_range"
                 /\ <<val.kind, type>> \in
                       {<<"string", "string">>, <<"integer", "int">>,
                        <<"integer", "float64">>, <<"double", "float64">>}

(* What a struct at `path` holds once the members have been read into v:   *)
(* the last of several members with the same key counts.                   *)
RECURSIVE Meaning(_, _, _, _)
Meaning(s, path, node, v0) ==
    LET Forget(v, at) ==
            Restrict(v, {p \in DOMAIN v : ~IsPrefix(at, p)})
        Read(v, m) ==
            IF FieldsOf(s, m.key) = {} THEN v
            ELSE LET f == CHOOSE g \in FieldsOf(s, m.key) : TRUE
                     at == Append(path, f)
                     type == TypeOf(s, f)
                 IN  IF m.val.kind = "null"
                     THEN IF f \in Plain THEN v ELSE Forget(v, at)
                     ELSE IF type = "esGeoIP" THEN Meaning(type, at, m.val, v)
                     ELSE IF type = "esGeoIPLocation"
                     THEN Meaning(type, at, m.val, (at :> "new") @@ v)
                     ELSE IF f \in Plain /\ m.val.text = "empty"
                     THEN Forget(v, at)
                     ELSE (at :> m.val.text) @@ v
    IN  FoldLeft(Read, v0, node.members)
=============================================================================
