---------------------------- MODULE GeoIPTables -----------------------------
(***************************************************************************)
(* The structs esGeoIP and esGeoIPLocation (types.go), nested in nf, and   *)
(* the listings of their fields in the generated code, as in NfTables.     *)
(***************************************************************************)
EXTENDS NfTables

FloatPointers(S) == [f \in S |-> "*float64"]
Locations(S) == [f \in S |-> "*esGeoIPLocation"]
WriteFloats(r) == Written(r, "AppendFloat")

TagGeoIP ==
    [Longitude |-> "longitude", Latitude |-> "latitude",
     CountryName |-> "country_name", Timezone |-> "timezone",
     ContinentCode |-> "continent_code", CityName |-> "city_name",
     CountryCode2 |-> "country_code2", RealRegionName |-> "real_region_name",
     RegionName |-> "region_name", IP |-> "ip", Location |-> "location",
     Coordinates |-> "coordinates"]

(* Longitude and Latitude are *float64, Location and Coordinates are       *)
(* *esGeoIPLocation, the others strings or *string.                        *)
GeoIPStrings ==
    DOMAIN TagGeoIP \ {"Longitude", "Latitude", "Location", "Coordinates"}

TagLocation == [Lon |-> "lon", Lat |-> "lat"]

EnumGeoIP ==
    <<"Longitude", "Latitude", "CountryName", "Timezone", "ContinentCode",
      "CityName", "CountryCode2", "RealRegionName", "RegionName", "IP",
      "Location", "Coordinates">>

EnumLocation == <<"Lon", "Lat">>

KeyGeoIP ==
    [Longitude |-> "longitude", Latitude |-> "latitude",
     CountryName |-> "country_name", Timezone |-> "timezone",
     ContinentCode |-> "continent_code", CityName |-> "city_name",
     CountryCode2 |-> "country_code2", RealRegionName |-> "real_region_name",
     RegionName |-> "region_name", IP |-> "ip", Location |-> "location",
     Coordinates |-> "coordinates"]

KeyLocation == [Lon |-> "lon", Lat |-> "lat"]

SwitchGeoIP ==
    ("c" :> {"CountryName", "ContinentCode", "CityName", "CountryCode2",
             "Coordinates"})
    @@ ("i" :> {"IP"})
    @@ ("l" :> {"Longitude", "Latitude", "Location"})
    @@ ("r" :> {"RealRegionName", "RegionName"})
    @@ ("t" :> {"Timezone"})

SwitchLocation == "l" :> {"Lon", "Lat"}

FoldGeoIP ==
    Right({"Coordinates"})
    @@ Ascii({"RegionName", "RealRegionName", "CountryCode2", "CityName",
              "ContinentCode", "CountryName"})
    @@ Letters({"Location", "IP", "Timezone", "Latitude", "Longitude"})

FoldLocation == Letters({"Lat", "Lon"})

DispatchGeoIP == [f \in Range(EnumGeoIP) |-> f]

DispatchLocation == [f \in Range(EnumLocation) |-> f]

HandleCountry ==
    FloatPointers({"Longitude", "Latitude"})
    @@ StringValues({"CountryName"})
    @@ StringPointers({"Timezone"})
HandleCity ==
    StringValues({"CityName"})
    @@ StringPointers({"ContinentCode", "CountryCode2", "RealRegionName"})
HandleLocation ==
    StringPointers({"RegionName", "IP"})
    @@ Locations({"Location", "Coordinates"})

HandleGeoIP == HandleCountry @@ HandleCity @@ HandleLocation

HandleLonLat == FloatPointers({"Lon", "Lat"})

(* MarshalJSONBuf.  Longitude, Latitude, Lon and Lat are written as null   *)
(* when they are nil, the others are left out.                             *)
EncodeGeoIP ==
    WriteFloats([Longitude |-> "longitude", Latitude |-> "latitude"])
    @@ WriteStrings([CountryName |-> "country_name", Timezone |-> "timezone",
                     ContinentCode |-> "continent_code",
                     CityName |-> "city_name",
                     CountryCode2 |-> "country_code2",
                     RealRegionName |-> "real_region_name",
                     RegionName |-> "region_name", IP |-> "ip"])
    @@ WriteStruct([Location |-> "location", Coordinates |-> "coordinates"])

EncodeLocation == WriteFloats([Lon |-> "lon", Lat |-> "lat"])

-----------------------------------------------------------------------------
(* The listings by struct.                                                 *)
Enum == [nf |-> EnumNf, esGeoIP |-> EnumGeoIP,
         esGeoIPLocation |-> EnumLocation]
Key == [nf |-> KeyNf, esGeoIP |-> KeyGeoIP, esGeoIPLocation |-> KeyLocation]
Switch == [nf |-> SwitchNf, esGeoIP |-> SwitchGeoIP,
           esGeoIPLocation |-> SwitchLocation]
Fold == [nf |-> FoldNf, esGeoIP |-> FoldGeoIP,
         esGeoIPLocation |-> FoldLocation]
Dispatch == [nf |-> DispatchNf, esGeoIP |-> DispatchGeoIP,
             esGeoIPLocation |-> DispatchLocation]
Handler == [nf |-> HandleNf, esGeoIP |-> HandleGeoIP,
            esGeoIPLocation |-> HandleLonLat]
Encoded == [nf |-> EncodeNf, esGeoIP |-> EncodeGeoIP,
            esGeoIPLocation |-> EncodeLocation]
=============================================================================
