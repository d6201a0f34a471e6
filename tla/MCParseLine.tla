---------------------------- MODULE MCParseLine -----------------------------
(***************************************************************************)
(* The lines that ParseLine is checked on: every field of the three        *)
(* structs with every kind of value and every spelling of its key, and     *)
(* lines of two or three members that act on each other.                   *)
(***************************************************************************)
EXTENDS ParseMeaning

Scalars ==
    {Scalar("integer", "0"), Scalar("integer", "1"), Scalar("double", "1.5"),
     Scalar("integer", "out_of_range"), Scalar("double", "out_of_range"),
     Scalar("string", "empty"), Scalar("string", "x"), Scalar("bool", "true"),
     Scalar("null", "empty")}

Exactly(key) == Word(key, "exact")
Only(key, val) == Object(<<Member(Exactly(key), val)>>)

(* Values that only SkipField can get over, and an empty object.           *)
Compounds ==
    {Object(<<>>), Array(<<>>), Only("no", Scalar("null", "empty")),
     Array(<<Array(<<>>), Only("no", Array(<<Scalar("bool", "true")>>))>>),
     Only("no", Only("no", Array(<<Object(<<>>), Scalar("integer", "1")>>)))}

Spellings(key) ==
    {"exact", "other case"} \cup
    (IF \E k \in 1..Len(key) : SubSeq(key, k, k) \in {"s", "k"}
     THEN {"folded"} ELSE {})

Singles(keys, values) ==
    {Object(<<Member(Word(key, spelled), val)>>) :
        key \in keys, spelled \in {"exact", "other case"}, val \in values}
    \cup {Object(<<Member(Word(key, "folded"), val)>>) :
             key \in {k \in keys : "folded" \in Spellings(k)},
             val \in {Scalar("string", "x"), Scalar("integer", "1")}}

In(key, values) == {Only(key, v) : v \in values}

NfDocs == Singles(Range(TagNf) \cup {"empty", "no"}, Scalars \cup Compounds)

GeoIPDocs ==
    In("geoip", Singles(Range(TagGeoIP) \cup {"no"}, Scalars \cup Compounds))

LocationDocs ==
    In("geoip", In("location", Singles({"lon", "lat", "no"}, Scalars))
                \cup In("coordinates", Singles({"lon"}, Scalars)))

(* Lines as ulogd sends them, with one member that is out of the ordinary. *)
Common(stamp) ==
    <<Member(Exactly("src_ip"), Scalar("string", "10.0.0.1")),
      Member(Exactly("timestamp"), Scalar("string", stamp))>>

Odd ==
    {Member(Exactly(key), val) :
        key \in {"no", "oob.mark", "oob.prefix", "src_ip", "timestamp",
                 "@timestamp", "raw.mac"},
        val \in {Scalar("integer", "0"), Scalar("string", "empty"),
                 Scalar("string", "Jan-2-12:00"), Scalar("null", "empty"),
                 Array(<<Object(<<>>)>>)}}
    \cup {Member(Exactly("geoip"), val) :
             val \in {Object(<<>>), Scalar("null", "empty"),
                      Scalar("bool", "true"),
                      Only("location", Object(<<>>)),
                      Only("location", Only("lon", Scalar("integer", "1"))),
                      Only("city_name", Scalar("string", "x")),
                      Only("timezone", Scalar("string", "empty"))}}

Lines ==
    {Object(Common(stamp)) : stamp \in {"Jan-2-00:30", "Jan-2-12:00", "x"}}
    \cup {Object(<<m>> \o Common("Jan-2-00:30")) : m \in Odd}
    \cup {Object(Common("Jan-2-00:30") \o <<m>>) : m \in Odd}
    \cup {Object(<<m, n>>) : m \in Odd, n \in Odd}

MCDocs == NfDocs \cup GeoIPDocs \cup LocationDocs \cup Lines

MCText == [d \in MCDocs |-> Tokens(d)]

MCGlued == {Object(Common("Jan-2-12:00"))}
=============================================================================
