----------------------------- MODULE ParseLine ------------------------------
(***************************************************************************)
(* One line on its way through the programs: parseLine of ulog2queue or    *)
(* ulog2file unmarshals it, adds @timestamp and geoip data and marshals it *)
(* again; when its turn comes, TimeFromLine of file2queue unmarshals what  *)
(* was sent on to choose the index of the day.  The line may have been cut *)
(* short, with another one glued to it.                                    *)
(***************************************************************************)
EXTENDS JsonDecoder, StructTags

CONSTANTS Docs,      \* the JSON values that lines hold
          Text,      \* the text of each, as a sequence of tokens
          Glued,     \* the values whose line may follow a cut one at once
          Encoders   \* "encoding/json" (Marshal(f)) or "ffjson" (Marshal(&f))

(* How many brackets of a kind are open after the first i tokens of a text.*)
Seen(text, tok, i) == Cardinality({k \in 1..i : text[k].tok = tok})
OpenObjects(text, i) ==
    Seen(text, "left_bracket", i) - Seen(text, "right_bracket", i)

OpenArrays(text, i) ==
    Seen(text, "left_brace", i) - Seen(text, "right_brace", i)

(* The i-th token is a bracket that the j-th closes.                       *)
Closes(text, i, j) ==
    /\ text[i].tok = "left_brace"
    /\ text[j].tok = "right_brace"
    /\ i < j
    /\ \A k \in i..(j - 1) : OpenArrays(text, k) > OpenArrays(text, j)

(* Nothing is closed that was not opened, and an array holds whole values. *)
Bracketed(text) ==
    /\ \A i \in 1..Len(text) : /\ OpenObjects(text, i) >= 0
                                /\ OpenArrays(text, i) >= 0
    /\ \A i, j \in 1..Len(text) :
          Closes(text, i, j) => OpenObjects(text, i) = OpenObjects(text, j)

(* A sequence of tokens.  The lexer gives a number with a fraction, which  *)
(* is 1.5 here, as a double.                                               *)
IsText(text) ==
    /\ text \in Seq(Range(text))
    /\ \A k \in DOMAIN text : text[k].tok = "integer" => text[k].text # "1.5"

ASSUME TextsOfLines ==
    /\ Glued \subseteq Docs
    /\ DOMAIN Text = Docs
    /\ \A d \in Docs : IsText(Text[d])
    /\ \A d \in Glued : Bracketed(Text[d])

VARIABLES pc,      \* "parse", "index", "end", "panic"
          doc,     \* the JSON value of the line
          cut,     \* whether the line was cut short
          sent,    \* how it went on: "no", "blank", "unchanged", "enriched"
          f,       \* the local variable of parseLine, as it was marshalled
          index    \* the day of the index file2queue chose

parseVars == <<pc, doc, cut, sent, f, index>>
vars == <<decoderVars, parseVars>>

Init ==
    /\ doc \in Docs
    /\ DecodeInit(Text[doc])
    /\ pc = "parse"
    /\ cut = FALSE
    /\ sent = "no"
    /\ f = EmptyStruct
    /\ index = "none"

-----------------------------------------------------------------------------
(* The text of the line ends after the tokens that have been scanned, with *)
(* nothing behind them, with half a token, or with another whole line.     *)
Cut(rest) ==
    /\ pc = "parse"
    /\ outcome = "scanning"
    /\ ~cut
    /\ next <= Len(input)
    /\ rest # <<>> => next > 1
    /\ cut' = TRUE
    /\ input' = SubSeq(input, 1, next - 1) \o rest
    /\ UNCHANGED <<next, frames, value, outcome, pc, doc, sent, f, index>>

Scanning ==
    /\ pc \in {"parse", "index"}
    /\ Decode
    /\ UNCHANGED parseVars

-----------------------------------------------------------------------------
(* Marshalling a struct v.  A nil pointer is written as null; a float that *)
(* has nothing behind the point is written like an integer.                *)
ValueToken(quoted, v, at) ==
    IF at \notin DOMAIN v THEN Mark("null")
    ELSE [text |-> v[at], spelled |-> "exact",
          tok |-> IF quoted THEN "string"
                  ELSE IF v[at] = "1.5" THEN "double" ELSE "integer"]

Pair(key, val) == <<Word(key, "exact"), Mark("colon")>> \o val

Braced(tokens) ==
    <<Mark("left_bracket")>> \o tokens \o <<Mark("right_bracket")>>

(* Every member is followed by a comma; the fields of a struct come in     *)
(* their order, those that are left out as an empty text.                  *)
Put(key, val) == Pair(key, val) \o <<Mark("comma")>>

Members(s, put) == FlattenSeq([k \in DOMAIN Enum[s] |-> put[Enum[s][k]]])

(* MarshalJSONBuf of esGeoIPLocation: generated code that both ways use,   *)
(* the structs being behind pointers.                                      *)
MarshalLocation(v, path) ==
    LET Half(g) == Pair(Encoded["esGeoIPLocation"][g].key,
                        <<ValueToken(FALSE, v, Append(path, g))>>)
    IN  Braced(Half("Lon") \o <<Mark("comma")>> \o Half("Lat"))

(* ffjson.Marshal(f) falls back to json.Marshal, the methods of nf having  *)
(* pointer receivers: the fields in order, by their tags.                  *)
StdStruct(s, v, path, inner) ==
    LET At(g) == Append(path, g)
        always == NfAlways \cup {"Longitude", "Latitude"}
        put == [g \in Range(Enum[s]) |->
                   IF g \notin always /\ At(g) \notin DOMAIN v THEN <<>>
                   ELSE Put(Tag[s][g],
                            IF g \in DOMAIN inner THEN inner[g]
                            ELSE <<ValueToken(TypeOf(s, g) = "string",
                                              v, At(g))>>)]
    IN  Braced(Front(Members(s, put)))

JsonMarshal(v) ==
    LET locations == [g \in {"Location", "Coordinates"} |->
                         MarshalLocation(v, <<"GeoIP", g>>)]
        geoip == StdStruct("esGeoIP", v, <<"GeoIP">>, locations)
    IN  StdStruct("nf", v, <<>>, [g \in {"GeoIP"} |-> geoip])

(* MarshalJSONBuf of esGeoIP: Rewind(1) takes the last comma back.         *)
MarshalGeoIP(v, path) ==
    LET At(g) == Append(path, g)
        put == [g \in Range(EnumGeoIP) |->
                   IF /\ g \notin {"Longitude", "Latitude"}
                      /\ At(g) \notin DOMAIN v
                   THEN <<>>
                   ELSE Put(EncodeGeoIP[g].key,
                            IF EncodeGeoIP[g].conv = "MarshalJSONBuf"
                            THEN MarshalLocation(v, At(g))
                            ELSE <<ValueToken(
                                     EncodeGeoIP[g].conv = "WriteJsonString",
                                     v, At(g))>>)]
    IN  Braced(Front(Members("esGeoIP", put)))

PutNf(v, g) ==
    Put(EncodeNf[g].key,
        <<ValueToken(EncodeNf[g].conv = "WriteJsonString", v, <<g>>)>>)

(* Mutant: omitempty leaves out a zero as well as a nil.                   *)
MarshalNfNonZero(v) ==
    LET put == [g \in Range(EnumNf) |->
                   IF \/ g \in {"GeoIP", "Oobmark"}
                      \/ <<g>> \notin DOMAIN v
                      \/ v[<<g>>] = "0"
                   THEN <<>> ELSE PutNf(v, g)]
    IN  Braced(Members("nf", put)
               \o Pair(EncodeNf["GeoIP"].key, MarshalGeoIP(v, <<"GeoIP">>)))

(* MarshalJSONBuf of nf: after the other members always geoip.             *)
MarshalNf(v) ==
    LET put == [g \in Range(EnumNf) |->
                   IF \/ g = "GeoIP"
                      \/ g # "Oobmark" /\ <<g>> \notin DOMAIN v
                   THEN <<>> ELSE PutNf(v, g)]
    IN  Braced(Members("nf", put)
               \o Pair(EncodeNf["GeoIP"].key, MarshalGeoIP(v, <<"GeoIP">>)))

Marshal(v, encoder) ==
    IF encoder = "ffjson" THEN MarshalNf(v) ELSE JsonMarshal(v)

-----------------------------------------------------------------------------
(* The `timestamp` of a line is local time, which an hour of offset may    *)
(* move to the day before; time.Parse returns the zero time with its       *)
(* error, which parseLine and TimeFromLine both ignore.                    *)
Utc == [t \in {"Jan-2-00:30", "Jan-2-12:00"} |->
           IF t = "Jan-2-00:30" THEN "Jan-1-23:30Z" ELSE "Jan-2-11:00Z"]

ZeroTime == "Jan-1-year-1"

Day == [t \in Range(Utc) |-> IF t = "Jan-1-23:30Z" THEN "Jan-1" ELSE "Jan-2"]

At(function, x, default) ==
    IF x \in DOMAIN function THEN function[x] ELSE default

(* The geoip record of the source ip, from the database or from the cache: *)
(* when it has coordinates, every field of f.GeoIP is assigned.  Some      *)
(* addresses belong to no city.                                            *)
GeoFields(city) ==
    {<<"GeoIP", g>> : g \in {"Longitude", "Latitude", "IP", "CountryName",
                            "Timezone", "ContinentCode", "CountryCode2",
                            "RealRegionName", "RegionName", "Location",
                            "Coordinates"} \cup city}
    \cup {<<"GeoIP", g, h>> : g \in {"Location", "Coordinates"},
                               h \in {"Lon", "Lat"}}

GeoData(srcip, city) ==
    [at \in GeoFields(city) |->
        IF Last(at) = "IP" THEN srcip
        ELSE IF Last(at) \in {"Longitude", "Lon"} THEN "1.5"
        ELSE IF Last(at) \in {"Latitude", "Lat"} THEN "1"
        ELSE IF Last(at) \in {"Location", "Coordinates"} THEN "new"
        ELSE "name"]

Located(v, srcip, city) ==
    Over(GeoData(srcip, city),
         Restrict(v, {p \in DOMAIN v : ~IsPrefix(<<"GeoIP">>, p)}))

SrcIP == <<"Srcip">>
Timestamp == <<"Timestamp">>
Ltimestamp == <<"Ltimestamp">>

(* parseLine after Unmarshal.                                              *)
SendOn(how, line) ==
    /\ pc' = "index"
    /\ sent' = how
    /\ DecodeAgain(line)
    /\ UNCHANGED <<doc, cut, index>>

ParseFails ==
    /\ pc = "parse"
    /\ outcome = "error"
    /\ SendOn("blank", <<>>)
    /\ UNCHANGED f

NoSourceIP ==
    /\ pc = "parse"
    /\ outcome = "done"
    /\ SrcIP \notin DOMAIN value
    /\ SendOn("unchanged", input)
    /\ f' = value

(* `*f.Timestamp` of a line without one: the process ends.                 *)
NilTimestamp ==
    /\ pc = "parse"
    /\ outcome = "done"
    /\ SrcIP \in DOMAIN value
    /\ Timestamp \notin DOMAIN value
    /\ pc' = "panic"
    /\ UNCHANGED <<decoderVars, doc, cut, sent, f, index>>

Stamp(v) == [p \in {Ltimestamp} |-> At(Utc, v[Timestamp], ZeroTime)]

EnrichFrom(v) ==
    {v} \cup {Located(v, v[SrcIP], city) : city \in {{}, {"CityName"}}}

(* Mutant: an @timestamp that is already there is not overwritten.         *)
EnrichKeepsStamp ==
    /\ pc = "parse"
    /\ outcome = "done"
    /\ {SrcIP, Timestamp} \subseteq DOMAIN value
    /\ \E v \in EnrichFrom(value), encoder \in Encoders :
          /\ f' = Over(v, Stamp(v))
          /\ SendOn("enriched", Marshal(f', encoder))

(* Add @timestamp and geoip and marshal.                                   *)
Enrich ==
    /\ pc = "parse"
    /\ outcome = "done"
    /\ {SrcIP, Timestamp} \subseteq DOMAIN value
    /\ \E v \in EnrichFrom(value), encoder \in Encoders :
          /\ f' = Over(Stamp(v), v)
          /\ SendOn("enriched", Marshal(f', encoder))

(* TimeFromLine: the day of @timestamp, today's if Unmarshal fails.        *)
TimeFromLine ==
    /\ pc = "index"
    /\ outcome # "scanning"
    /\ pc' = "end"
    /\ index' = IF outcome = "error" THEN "today"
                ELSE IF Ltimestamp \in DOMAIN value
                THEN At(Day, value[Ltimestamp], ZeroTime) ELSE ZeroTime
    /\ UNCHANGED <<decoderVars, doc, cut, sent, f>>

Finished ==
    /\ pc \in {"end", "panic"}
    /\ UNCHANGED vars

Next ==
    \/ Scanning
    \/ Cut(<<>>)
    \/ Cut(<<Token("error")>>)
    \/ \E d \in Glued : Cut(Text[d])
    \/ ParseFails
    \/ NoSourceIP
    \/ NilTimestamp
    \/ Enrich
    \/ TimeFromLine
    \/ Finished

Spec == Init /\ [][Next]_vars

-----------------------------------------------------------------------------
(* The variables keep to their types.                                      *)
TypeOK ==
    /\ pc \in {"parse", "index", "end", "panic"}
    /\ outcome \in {"scanning", "done", "error"}
    /\ sent \in {"no", "blank", "unchanged", "enriched"}
    /\ next \in 1..(Len(input) + 2)
    /\ Len(frames) \in 1..3
    /\ \A k \in DOMAIN frames : frames[k].depth >= 0

(* A line that was cut short is never taken for a whole one, wherever it   *)
(* ends and whether or not another line follows on it: it is blanked, not  *)
(* indexed as half an event or as a mixture of two, and it cannot bring    *)
(* the parser down (ulog2queue.go parseLine, types_ffjson.go).             *)
CutLineIsBlanked == cut => sent \in {"no", "blank"} /\ pc # "panic"

(* What file2queue unmarshals is what parseLine marshalled, whichever      *)
(* encoder wrote it: no field is lost, renamed, or turned from zero or     *)
(* nil into the other (types_ffjson.go, ulog2queue.go, file2queue/es.go).  *)
SurvivesEncoding ==
    pc = "end" /\ sent # "blank" => outcome = "done" /\ value = f

(* A line with a source ip and a time stamp that can be read is indexed    *)
(* under the UTC day of that time stamp, even when it arrived with an      *)
(* @timestamp of its own (ulog2queue.go parseLine, file2queue/es.go        *)
(* TimeFromLine).                                                          *)
IndexedUnderItsDay ==
    pc = "end" /\ sent = "enriched" /\ f[Timestamp] \in DOMAIN Utc =>
        index = Day[Utc[f[Timestamp]]]
=============================================================================
