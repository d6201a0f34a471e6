---------------------------- MODULE JsonDecoder -----------------------------
(***************************************************************************)
(* ffjson.Unmarshal(line, &f) for the struct nf: UnmarshalJSONFFLexer of   *)
(* types_ffjson.go, one step per token of the lexer.  The same code is     *)
(* generated three times, for nf, for esGeoIP, which the GeoIP handler     *)
(* enters on the same lexer, and for esGeoIPLocation inside that: the      *)
(* activations are the frames of a stack.                                  *)
(*                                                                         *)
(* A key is the word it spells and how it is spelled: exactly, in another  *)
(* case, or with one of the two letters outside ASCII that fold to s and   *)
(* k.  Tokens have the names of fflib: a left_bracket is {, a left_brace   *)
(* is [.  The struct is a function from the paths of the fields that are   *)
(* set (a path is a sequence of field names) to the text they were given.  *)
(***************************************************************************)
EXTENDS GeoIPTables, Integers, SequencesExt

VARIABLES input,    \* the line, as a sequence of tokens
          next,     \* position of the token that Scan returns next
          frames,   \* the activations of UnmarshalJSONFFLexer
          value,    \* the struct nf
          outcome   \* "scanning", "done", "error"

decoderVars == <<input, next, frames, value, outcome>>

EmptyStruct == <<>>

Frame(struct, state, path) ==
    [struct |-> struct, state |-> state, path |-> path, key |-> "base",
     open |-> "none", depth |-> 0]

(* Unmarshal starts on a line, with a zero nf.                             *)
DecodeInit(line) ==
    /\ input = line
    /\ next = 1
    /\ frames = <<Frame("nf", "map_start", <<>>)>>
    /\ value = EmptyStruct
    /\ outcome = "scanning"

DecodeAgain(line) ==
    /\ input' = line
    /\ next' = 1
    /\ frames' = <<Frame("nf", "map_start", <<>>)>>
    /\ value' = EmptyStruct
    /\ outcome' = "scanning"

Token(tok) == [tok |-> tok, text |-> "empty", spelled |-> "exact"]

Scanned == IF next <= Len(input) THEN input[next] ELSE Token("eof")

Top == frames[Len(frames)]

-----------------------------------------------------------------------------
(* Finding the field of a key.                                             *)
FirstLetter(key) == SubSeq(key, 1, 1)

MatchesExactly(s, f, t) ==
    /\ t.spelled = "exact"
    /\ t.text = Key[s][f]
    /\ FirstLetter(t.text) \in DOMAIN Switch[s]
    /\ f \in Switch[s][FirstLetter(t.text)]

MatchesFolded(s, f, t) ==
    /\ t.text = Key[s][f]
    /\ t.spelled = "folded" => Fold[s][f] = "EqualFoldRight"

(* The switch on the first letter, then the comparisons ignoring case, in  *)
(* the reverse order of the fields, then ffj_t_*no_such_key.               *)
FieldOf(s, t) ==
    LET exact == {f \in DOMAIN Key[s] : MatchesExactly(s, f, t)}
        folded == {k \in DOMAIN Enum[s] : /\ Enum[s][k] \in DOMAIN Fold[s]
                                          /\ MatchesFolded(s, Enum[s][k], t)}
    IN  IF t.text = "empty" THEN "no_such_key"
        ELSE IF exact # {} THEN CHOOSE f \in exact : TRUE
        ELSE IF folded # {} THEN Enum[s][CHOOSE k \in folded :
                                            \A j \in folded : j <= k]
        ELSE "no_such_key"

-----------------------------------------------------------------------------
(* The outcomes of a token.                                                *)
Goto(state) ==
    /\ frames' = [frames EXCEPT ![Len(frames)].state = state]
    /\ UNCHANGED outcome

(* wrongtokenerror, wantedvalue, tokerror, or an error of a handler.       *)
Fail ==
    /\ outcome' = "error"
    /\ UNCHANGED <<frames, value>>

(* done: nil is returned, to Unmarshal or to the handler that entered.     *)
Return ==
    /\ IF Len(frames) = 1
       THEN outcome' = "done" /\ UNCHANGED frames
       ELSE /\ frames' = [Front(frames) EXCEPT
                             ![Len(frames) - 1].state = "after_value"]
            /\ UNCHANGED outcome
    /\ UNCHANGED value

(* The function g, and h where g is undefined.                             *)
Over(g, h) ==
    [x \in DOMAIN g \cup DOMAIN h |-> IF x \in DOMAIN g THEN g[x] ELSE h[x]]

Assign(path, text) == value' = Over([p \in {path} |-> text], value)

(* Assigning nil, or the empty string to a field that is no pointer, also  *)
(* forgets what the struct it pointed to held.                             *)
Clear(path) ==
    value' = Restrict(value, {p \in DOMAIN value : ~IsPrefix(path, p)})

Keep == UNCHANGED value

Scan(state) ==
    /\ outcome = "scanning"
    /\ Top.state = state
    /\ next' = next + 1
    /\ UNCHANGED input

-----------------------------------------------------------------------------
(* One action per state of the generated loop.                             *)
MapStart ==
    /\ Scan("map_start")
    /\ \/ Scanned.tok = "left_bracket" /\ Goto("want_key") /\ Keep
       \/ Scanned.tok # "left_bracket" /\ Fail

(* Mutant: the end of the line closes an object, too.                      *)
AfterValueOrEnd ==
    /\ Scan("after_value")
    /\ \/ Scanned.tok = "comma" /\ Goto("want_key") /\ Keep
       \/ Scanned.tok \in {"right_bracket", "eof"} /\ Return
       \/ Scanned.tok \notin {"comma", "right_bracket", "eof"} /\ Fail

AfterValue ==
    /\ Scan("after_value")
    /\ \/ Scanned.tok = "comma" /\ Goto("want_key") /\ Keep
       \/ Scanned.tok = "right_bracket" /\ Return
       \/ Scanned.tok \notin {"comma", "right_bracket"} /\ Fail

WantKey ==
    /\ Scan("want_key")
    /\ \/ Scanned.tok = "right_bracket" /\ Return
       \/ /\ Scanned.tok = "string"
          /\ frames' = [frames EXCEPT ![Len(frames)].state = "want_colon",
                                      ![Len(frames)].key =
                                          FieldOf(Top.struct, Scanned)]
          /\ UNCHANGED <<value, outcome>>
       \/ Scanned.tok \notin {"right_bracket", "string"} /\ Fail

WantColon ==
    /\ Scan("want_colon")
    /\ \/ Scanned.tok = "colon" /\ Goto("want_value") /\ Keep
       \/ Scanned.tok # "colon" /\ Fail

-----------------------------------------------------------------------------
(* want_value: SkipField for an unknown key, the field's handler else.     *)
ValueTokens == {"left_bracket", "left_brace", "integer", "double", "string",
                "bool", "null"}

NoValue ==
    /\ Scan("want_value")
    /\ Scanned.tok \notin ValueTokens
    /\ Fail

SkipField ==
    /\ Scan("want_value")
    /\ Scanned.tok \in ValueTokens
    /\ Top.key = "no_such_key"
    /\ IF Scanned.tok \in {"left_bracket", "left_brace"}
       THEN /\ frames' = [frames EXCEPT ![Len(frames)].state = "skip",
                                        ![Len(frames)].open = Scanned.tok,
                                        ![Len(frames)].depth = 1]
            /\ UNCHANGED outcome
       ELSE Goto("after_value")
    /\ Keep

Close == [x \in {"left_bracket", "left_brace"} |->
             IF x = "left_bracket" THEN "right_bracket" ELSE "right_brace"]

(* Mutant: a nested bracket of the same kind is not counted.               *)
ScanFieldFlat ==
    /\ Scan("skip")
    /\ \/ /\ Scanned.tok = Close[Top.open]
          /\ Goto("after_value")
          /\ Keep
       \/ Scanned.tok \in {"eof", "error"} /\ Fail
       \/ /\ Scanned.tok \notin {Close[Top.open], "eof", "error"}
          /\ UNCHANGED <<frames, value, outcome>>

(* Mutant: the depth is not compared with the start.                       *)
ScanFieldNegative ==
    /\ Scan("skip")
    /\ \/ /\ Scanned.tok \in {Top.open, Close[Top.open]}
          /\ frames' = [frames EXCEPT ![Len(frames)].depth =
                            IF Scanned.tok = Top.open THEN @ + 1 ELSE @ - 1]
          /\ UNCHANGED <<value, outcome>>
       \/ Scanned.tok \in {"eof", "error"} /\ Fail
       \/ /\ Scanned.tok \notin {Top.open, Close[Top.open], "eof", "error"}
          /\ UNCHANGED <<frames, value, outcome>>

(* scanField: on to the bracket that closes the value, counting only the   *)
(* brackets of its kind.                                                   *)
ScanField ==
    /\ Scan("skip")
    /\ \/ /\ Scanned.tok = Close[Top.open]
          /\ Top.depth = 1
          /\ Goto("after_value")
          /\ Keep
       \/ /\ Scanned.tok \in {Top.open, Close[Top.open]}
          /\ Scanned.tok = Top.open \/ Top.depth > 1
          /\ frames' = [frames EXCEPT ![Len(frames)].depth =
                            IF Scanned.tok = Top.open THEN @ + 1 ELSE @ - 1]
          /\ UNCHANGED <<value, outcome>>
       \/ Scanned.tok \in {"eof", "error"} /\ Fail
       \/ /\ Scanned.tok \notin {Top.open, Close[Top.open], "eof", "error"}
          /\ UNCHANGED <<frames, value, outcome>>

Kind(frame) == Handler[frame.struct][Dispatch[frame.struct][frame.key]]

Field == Append(Top.path, Dispatch[Top.struct][Top.key])

Handles(kinds) ==
    /\ Scan("want_value")
    /\ Scanned.tok \in ValueTokens
    /\ Top.key # "no_such_key"
    /\ Kind(Top) \in kinds

(* What the handlers of the scalar types accept; null is always accepted.  *)
(* A number may not fit: ParseInt and ParseFloat return an error then.     *)
Accepts == [kind \in {"*int", "*float64", "*string", "string"} |->
               IF kind = "*int" THEN {"integer"}
               ELSE IF kind = "*float64" THEN {"integer", "double"}
               ELSE {"string"}]

HandleScalar ==
    /\ Handles(DOMAIN Accepts)
    /\ \/ /\ Scanned.tok \in Accepts[Kind(Top)]
          /\ Scanned.text # "out_of_range"
          /\ IF Kind(Top) = "string" /\ Scanned.text = "empty"
             THEN Clear(Field) ELSE Assign(Field, Scanned.text)
          /\ Goto("after_value")
       \/ /\ Scanned.tok = "null"
          /\ IF Kind(Top) = "string" THEN Keep ELSE Clear(Field)
          /\ Goto("after_value")
       \/ /\ \/ Scanned.tok \notin Accepts[Kind(Top)] \cup {"null"}
             \/ /\ Scanned.tok \in Accepts[Kind(Top)]
                /\ Scanned.text = "out_of_range"
          /\ Fail

Enter(struct) ==
    /\ frames' = Append(frames, Frame(struct, "want_key", Field))
    /\ UNCHANGED outcome

(* handle_GeoIP: whatever token is not null is taken for the opening one.  *)
HandleStruct ==
    /\ Handles({"esGeoIP"})
    /\ Keep
    /\ IF Scanned.tok = "null" THEN Goto("after_value") ELSE Enter("esGeoIP")

(* handle_Location, handle_Coordinates: the same behind a pointer.         *)
HandlePointer ==
    /\ Handles({"*esGeoIPLocation"})
    /\ IF Scanned.tok = "null"
       THEN Clear(Field) /\ Goto("after_value")
       ELSE /\ IF Field \in DOMAIN value THEN Keep ELSE Assign(Field, "new")
            /\ Enter("esGeoIPLocation")

Decode ==
    \/ MapStart
    \/ AfterValue
    \/ WantKey
    \/ WantColon
    \/ NoValue
    \/ SkipField
    \/ ScanField
    \/ HandleScalar
    \/ HandleStruct
    \/ HandlePointer
=============================================================================
