----------------------------- MODULE StructTags -----------------------------
(***************************************************************************)
(* The tokens of a line, and the json tags and types of the fields of nf   *)
(* (types.go), which both encoders follow.                                 *)
(***************************************************************************)
EXTENDS GeoIPTables, Integers, SequencesExt

Word(text, spelled) == [tok |-> "string", text |-> text, spelled |-> spelled]
Mark(tok) == [tok |-> tok, text |-> "empty", spelled |-> "exact"]

(* The tokens of the values of a list, with commas between them.           *)
Listed(values) ==
    FlattenSeq([k \in DOMAIN values |->
                   (IF k = 1 THEN <<>> ELSE <<Mark("comma")>>) \o values[k]])

Tag == [nf |-> TagNf, esGeoIP |-> TagGeoIP, esGeoIPLocation |-> TagLocation]

(* The type of a field, without the star.                                  *)
TypeOf(s, f) ==
    IF s = "nf" /\ f = "GeoIP" THEN "esGeoIP"
    ELSE IF s = "esGeoIP" /\ f \in {"Location", "Coordinates"}
    THEN "esGeoIPLocation"
    ELSE IF f \in {"Longitude", "Latitude", "Lon", "Lat"} THEN "float64"
    ELSE IF f \in NfStrings \cup GeoIPStrings THEN "string"
    ELSE "int"

Structs == {"nf", "esGeoIP", "esGeoIPLocation"}

FieldsIn(s) == Range(Enum[s])

(* The fields that are no pointers: null leaves them alone.                *)
Plain == {"GeoIP", "Ltimestamp", "CountryName", "CityName"}

(* The handler that a field of a type has.                                 *)
Handlers ==
    [int |-> {"*int"}, float64 |-> {"*float64"},
     string |-> {"*string", "string"},
     esGeoIP |-> {"esGeoIP"}, esGeoIPLocation |-> {"*esGeoIPLocation"}]

KeysAgree(s) ==
    \A g \in FieldsIn(s) :
        /\ Key[s][g] = Tag[s][g]
        /\ Encoded[s][g].key = Tag[s][g]
        /\ Tag[s][g] # "empty"
        /\ \A h \in FieldsIn(s) : Key[s][h] = Key[s][g] => h = g

HandlersAgree(s) ==
    \A g \in FieldsIn(s) :
        /\ Dispatch[s][g] = g
        /\ Handler[s][g] \in Handlers[TypeOf(s, g)]
        /\ Handler[s][g] \in {"string", "esGeoIP"} <=> g \in Plain
        /\ Encoded[s][g].conv = "WriteJsonString" <=> TypeOf(s, g) = "string"
        /\ Encoded[s][g].conv = "MarshalJSONBuf" <=> TypeOf(s, g) \in Structs

(* The listings of types_ffjson.go name the same fields with the same keys *)
(* and handle them by their types.  This is a statement about the tables   *)
(* of NfTables and GeoIPTables alone, with no constant or variable in it,  *)
(* so that evaluating it decides it.                                       *)
ASSUME ListingsAgree ==
    \A s \in Structs :
        /\ DOMAIN Key[s] = FieldsIn(s)
        /\ FieldsIn(s) \cap {"base", "no_such_key"} = {}
        /\ FieldsIn(s) \subseteq DOMAIN Fold[s]
        /\ \A j, k \in DOMAIN Enum[s] : Enum[s][j] = Enum[s][k] => j = k
        /\ KeysAgree(s)
        /\ HandlersAgree(s)
=============================================================================
