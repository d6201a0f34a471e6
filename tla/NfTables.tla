------------------------------ MODULE NfTables ------------------------------
(***************************************************************************)
(* The struct nf (types.go), a line of ulogd, and the code ffjson has      *)
(* generated for it (types_ffjson.go, the same file in ulog2queue,         *)
(* ulog2file and file2queue).  The generated code is eight listings of the *)
(* same 129 fields which have to agree: enumeration constants, keys, two   *)
(* ways to find a field by its key, dispatch, handlers and the encoder.    *)
(* Each is a table here, a few fields of the listing per definition; a     *)
(* definition is named after the first field it holds.                     *)
(***************************************************************************)
EXTENDS Sequences, Functions, TLC

(* Key comparisons of fflib: with long s and kelvin sign, ASCII, letters.  *)
Right(S) == [f \in S |-> "EqualFoldRight"]
Ascii(S) == [f \in S |-> "AsciiEqualFold"]
Letters(S) == [f \in S |-> "SimpleLetterEqualFold"]

(* Handlers: what a field accepts.                                         *)
IntPointers(S) == [f \in S |-> "*int"]
StringPointers(S) == [f \in S |-> "*string"]
StringValues(S) == [f \in S |-> "string"]
GeoIPs(S) == [f \in S |-> "esGeoIP"]

(* What MarshalJSONBuf writes: the key and the conversion of the value.    *)
Written(r, x) == [f \in DOMAIN r |-> [key |-> r[f], conv |-> x]]
WriteInts(r) == Written(r, "FormatBits2")
WriteStrings(r) == Written(r, "WriteJsonString")
WriteStruct(r) == Written(r, "MarshalJSONBuf")

(* The json tags of the fields of struct nf (types.go).                    *)
TagNf ==
    [Ahespspi |-> "ahesp.spi", Arpdaddrstr |-> "arp.daddr.str",
     Arpdhwaddr |-> "arp.dhwaddr", Arphwtype |-> "arp.hwtype",
     Arpoperation |-> "arp.operation",
     Arpprotocoltype |-> "arp.protocoltype", Arpsaddrstr |-> "arp.saddr.str",
     Arpshwaddr |-> "arp.shwaddr", Ctevent |-> "ct.event", Ctid |-> "ct.id",
     Ctmark |-> "ct.mark", Flowendsec |-> "flow.end.sec",
     Flowendusec |-> "flow.end.usec", Flowstartsec |-> "flow.start.sec",
     Flowstartusec |-> "flow.start.usec", Icmpcode |-> "icmp.code",
     Icmpcsum |-> "icmp.csum", Icmpechoid |-> "icmp.echoid",
     Icmpechoseq |-> "icmp.echoseq", Icmpfragmtu |-> "icmp.fragmtu",
     Icmpgateway |-> "icmp.gateway", Icmptype |-> "icmp.type",
     Icmpv6code |-> "icmpv6.code", Icmpv6csum |-> "icmpv6.csum",
     Icmpv6echoid |-> "icmpv6.echoid", Icmpv6echoseq |-> "icmpv6.echoseq",
     Icmpv6type |-> "icmpv6.type", Ip6flowlabel |-> "ip6.flowlabel",
     Ip6fragid |-> "ip6.fragid", Ip6fragoff |-> "ip6.fragoff",
     Ip6hoplimit |-> "ip6.hoplimit", Ip6nexthdr |-> "ip6.nexthdr",
     Ip6payloadlen |-> "ip6.payloadlen", Ip6priority |-> "ip6.priority",
     Ipcsum |-> "ip.csum", Ipdaddrstr |-> "ip.daddr.str",
     Ipfragoff |-> "ip.fragoff", Ipid |-> "ip.id", Ipihl |-> "ip.ihl",
     Ipprotocol |-> "ip.protocol", Ipsaddrstr |-> "ip.saddr.str",
     Iptos |-> "ip.tos", Iptotlen |-> "ip.totlen", Ipttl |-> "ip.ttl",
     Macdaddrstr |-> "mac.daddr.str", Macsaddrstr |-> "mac.saddr.str",
     Macstr |-> "mac.str", Nufwappname |-> "nufw.app.name",
     Nufwosname |-> "nufw.os.name", Nufwosrel |-> "nufw.os.rel",
     Nufwosvers |-> "nufw.os.vers", Nufwuserid |-> "nufw.user.id",
     Nufwusername |-> "nufw.user.name", Oobfamily |-> "oob.family",
     Oobgid |-> "oob.gid", Oobhook |-> "oob.hook",
     Oobifindexin |-> "oob.ifindex_in", Oobifindexout |-> "oob.ifindex_out",
     Oobin |-> "oob.in", Oobmark |-> "oob.mark", Oobout |-> "oob.out",
     Oobprefix |-> "oob.prefix", Oobprotocol |-> "oob.protocol",
     Oobseqglobal |-> "oob.seq.global", Oobseqlocal |-> "oob.seq.local",
     Oobtimesec |-> "oob.time.sec", Oobtimeusec |-> "oob.time.usec",
     Oobuid |-> "oob.uid", Origipdaddrstr |-> "orig.ip.daddr.str",
     Origipprotocol |-> "orig.ip.protocol",
     Origipsaddrstr |-> "orig.ip.saddr.str", Origl4dport |-> "orig.l4.dport",
     Origl4sport |-> "orig.l4.sport",
     Origrawpktcount |-> "orig.raw.pktcount",
     Origrawpktlen |-> "orig.raw.pktlen",
     Pwsniffpass |-> "pwsniff.pass", Pwsniffuser |-> "pwsniff.user",
     Rawlabel |-> "raw.label", Rawmacaddrlen |-> "raw.mac.addrlen",
     Rawmac |-> "raw.mac", Rawmaclen |-> "raw.mac_len",
     Rawpktcount |-> "raw.pktcount", Rawpkt |-> "raw.pkt",
     Rawpktlen |-> "raw.pktlen", Rawtype |-> "raw.type",
     Replyipdaddrstr |-> "reply.ip.daddr.str",
     Replyipprotocol |-> "reply.ip.protocol",
     Replyipsaddrstr |-> "reply.ip.saddr.str",
     Replyl4dport |-> "reply.l4.dport", Replyl4sport |-> "reply.l4.sport",
     Replyrawpktcount |-> "reply.raw.pktcount",
     Replyrawpktlen |-> "reply.raw.pktlen", Sctpcsum |-> "sctp.csum",
     Sctpdport |-> "sctp.dport", Sctpsport |-> "sctp.sport",
     Sumbytes |-> "sum.bytes", Sumname |-> "sum.name",
     Sumpkts |-> "sum.pkts", Tcpack |-> "tcp.ack",
     Tcpackseq |-> "tcp.ackseq", Tcpcsum |-> "tcp.csum",
     Tcpdport |-> "tcp.dport", Tcpfin |-> "tcp.fin",
     Tcpoffset |-> "tcp.offset", Tcppsh |-> "tcp.psh",
     Tcpreserved |-> "tcp.reserved", Tcpres1 |-> "tcp.res1",
     Tcpres2 |-> "tcp.res2", Tcprst |-> "tcp.rst", Tcpseq |-> "tcp.seq",
     Tcpsport |-> "tcp.sport", Tcpsyn |-> "tcp.syn", Tcpurg |-> "tcp.urg",
     Tcpurgp |-> "tcp.urgp", Tcpwindow |-> "tcp.window",
     Udpcsum |-> "udp.csum", Udpdport |-> "udp.dport", Udplen |-> "udp.len",
     Udpsport |-> "udp.sport", Srcport |-> "src_port", Srcip |-> "src_ip",
     Destport |-> "dest_port", Destip |-> "dest_ip", Dvc |-> "dvc",
     Timestamp |-> "timestamp", Ltimestamp |-> "@timestamp",
     Action |-> "action", GeoIP |-> "geoip"]
    @@ ("Print" :> "print")

(* Its fields of type string or *string.  GeoIP is a struct, all others *int.*)
NfStrings ==
    {"Arpdaddrstr", "Arpsaddrstr", "Ipdaddrstr", "Ipsaddrstr", "Macdaddrstr",
     "Macsaddrstr", "Macstr", "Nufwappname", "Nufwosname", "Nufwosrel",
     "Nufwosvers", "Nufwusername", "Oobin", "Oobout", "Oobprefix",
     "Origipdaddrstr", "Origipsaddrstr", "Print", "Pwsniffpass",
     "Pwsniffuser", "Replyipdaddrstr", "Replyipsaddrstr", "Sumname", "Srcip",
     "Destip", "Dvc", "Timestamp", "Ltimestamp", "Action"}

(* Its fields without omitempty: written even when they are nil.           *)
NfAlways ==
    {"Oobmark", "GeoIP"}

(* The constants ffj_t_nf_*.                                               *)
EnumFromAhespspi ==
    <<"Ahespspi", "Arpdaddrstr", "Arpdhwaddr", "Arphwtype", "Arpoperation",
      "Arpprotocoltype", "Arpsaddrstr", "Arpshwaddr", "Ctevent", "Ctid",
      "Ctmark", "Flowendsec", "Flowendusec", "Flowstartsec", "Flowstartusec",
      "Icmpcode", "Icmpcsum", "Icmpechoid", "Icmpechoseq", "Icmpfragmtu",
      "Icmpgateway", "Icmptype", "Icmpv6code", "Icmpv6csum", "Icmpv6echoid",
      "Icmpv6echoseq", "Icmpv6type", "Ip6flowlabel", "Ip6fragid",
      "Ip6fragoff", "Ip6hoplimit", "Ip6nexthdr", "Ip6payloadlen",
      "Ip6priority", "Ipcsum", "Ipdaddrstr", "Ipfragoff", "Ipid", "Ipihl",
      "Ipprotocol", "Ipsaddrstr", "Iptos", "Iptotlen">>

EnumFromIpttl ==
    <<"Ipttl", "Macdaddrstr", "Macsaddrstr", "Macstr", "Nufwappname",
      "Nufwosname", "Nufwosrel", "Nufwosvers", "Nufwuserid", "Nufwusername",
      "Oobfamily", "Oobgid", "Oobhook", "Oobifindexin", "Oobifindexout",
      "Oobin", "Oobmark", "Oobout", "Oobprefix", "Oobprotocol",
      "Oobseqglobal", "Oobseqlocal", "Oobtimesec", "Oobtimeusec", "Oobuid",
      "Origipdaddrstr", "Origipprotocol", "Origipsaddrstr", "Origl4dport",
      "Origl4sport", "Origrawpktcount", "Origrawpktlen", "Print",
      "Pwsniffpass", "Pwsniffuser", "Rawlabel", "Rawmacaddrlen", "Rawmac",
      "Rawmaclen", "Rawpktcount", "Rawpkt", "Rawpktlen", "Rawtype">>

EnumFromReplyipdaddrstr ==
    <<"Replyipdaddrstr", "Replyipprotocol", "Replyipsaddrstr",
      "Replyl4dport", "Replyl4sport", "Replyrawpktcount", "Replyrawpktlen",
      "Sctpcsum", "Sctpdport", "Sctpsport", "Sumbytes", "Sumname", "Sumpkts",
      "Tcpack", "Tcpackseq", "Tcpcsum", "Tcpdport", "Tcpfin", "Tcpoffset",
      "Tcppsh", "Tcpreserved", "Tcpres1", "Tcpres2", "Tcprst", "Tcpseq",
      "Tcpsport", "Tcpsyn", "Tcpurg", "Tcpurgp", "Tcpwindow", "Udpcsum",
      "Udpdport", "Udplen", "Udpsport", "Srcport", "Srcip", "Destport",
      "Destip", "Dvc", "Timestamp", "Ltimestamp", "Action", "GeoIP">>

(* The variables ffj_key_nf_*.                                             *)
KeyFromAhespspi ==
    [Ahespspi |-> "ahesp.spi", Arpdaddrstr |-> "arp.daddr.str",
     Arpdhwaddr |-> "arp.dhwaddr", Arphwtype |-> "arp.hwtype",
     Arpoperation |-> "arp.operation",
     Arpprotocoltype |-> "arp.protocoltype", Arpsaddrstr |-> "arp.saddr.str",
     Arpshwaddr |-> "arp.shwaddr", Ctevent |-> "ct.event", Ctid |-> "ct.id",
     Ctmark |-> "ct.mark", Flowendsec |-> "flow.end.sec",
     Flowendusec |-> "flow.end.usec", Flowstartsec |-> "flow.start.sec",
     Flowstartusec |-> "flow.start.usec", Icmpcode |-> "icmp.code",
     Icmpcsum |-> "icmp.csum", Icmpechoid |-> "icmp.echoid",
     Icmpechoseq |-> "icmp.echoseq", Icmpfragmtu |-> "icmp.fragmtu",
     Icmpgateway |-> "icmp.gateway", Icmptype |-> "icmp.type",
     Icmpv6code |-> "icmpv6.code", Icmpv6csum |-> "icmpv6.csum",
     Icmpv6echoid |-> "icmpv6.echoid", Icmpv6echoseq |-> "icmpv6.echoseq",
     Icmpv6type |-> "icmpv6.type", Ip6flowlabel |-> "ip6.flowlabel",
     Ip6fragid |-> "ip6.fragid", Ip6fragoff |-> "ip6.fragoff",
     Ip6hoplimit |-> "ip6.hoplimit", Ip6nexthdr |-> "ip6.nexthdr",
     Ip6payloadlen |-> "ip6.payloadlen", Ip6priority |-> "ip6.priority",
     Ipcsum |-> "ip.csum", Ipdaddrstr |-> "ip.daddr.str",
     Ipfragoff |-> "ip.fragoff", Ipid |-> "ip.id", Ipihl |-> "ip.ihl",
     Ipprotocol |-> "ip.protocol", Ipsaddrstr |-> "ip.saddr.str",
     Iptos |-> "ip.tos", Iptotlen |-> "ip.totlen", Ipttl |-> "ip.ttl",
     Macdaddrstr |-> "mac.daddr.str", Macsaddrstr |-> "mac.saddr.str",
     Macstr |-> "mac.str", Nufwappname |-> "nufw.app.name",
     Nufwosname |-> "nufw.os.name", Nufwosrel |-> "nufw.os.rel",
     Nufwosvers |-> "nufw.os.vers", Nufwuserid |-> "nufw.user.id",
     Nufwusername |-> "nufw.user.name", Oobfamily |-> "oob.family",
     Oobgid |-> "oob.gid", Oobhook |-> "oob.hook",
     Oobifindexin |-> "oob.ifindex_in", Oobifindexout |-> "oob.ifindex_out",
     Oobin |-> "oob.in", Oobmark |-> "oob.mark", Oobout |-> "oob.out",
     Oobprefix |-> "oob.prefix", Oobprotocol |-> "oob.protocol",
     Oobseqglobal |-> "oob.seq.global", Oobseqlocal |-> "oob.seq.local",
     Oobtimesec |-> "oob.time.sec", Oobtimeusec |-> "oob.time.usec",
     Oobuid |-> "oob.uid", Origipdaddrstr |-> "orig.ip.daddr.str",
     Origipprotocol |-> "orig.ip.protocol",
     Origipsaddrstr |-> "orig.ip.saddr.str", Origl4dport |-> "orig.l4.dport",
     Origl4sport |-> "orig.l4.sport",
     Origrawpktcount |-> "orig.raw.pktcount",
     Origrawpktlen |-> "orig.raw.pktlen"]

KeyFromPrint ==
    ("Print" :> "print") @@
    [Pwsniffpass |-> "pwsniff.pass",
     Pwsniffuser |-> "pwsniff.user", Rawlabel |-> "raw.label",
     Rawmacaddrlen |-> "raw.mac.addrlen", Rawmac |-> "raw.mac",
     Rawmaclen |-> "raw.mac_len", Rawpktcount |-> "raw.pktcount",
     Rawpkt |-> "raw.pkt", Rawpktlen |-> "raw.pktlen",
     Rawtype |-> "raw.type", Replyipdaddrstr |-> "reply.ip.daddr.str",
     Replyipprotocol |-> "reply.ip.protocol",
     Replyipsaddrstr |-> "reply.ip.saddr.str",
     Replyl4dport |-> "reply.l4.dport", Replyl4sport |-> "reply.l4.sport",
     Replyrawpktcount |-> "reply.raw.pktcount",
     Replyrawpktlen |-> "reply.raw.pktlen", Sctpcsum |-> "sctp.csum",
     Sctpdport |-> "sctp.dport", Sctpsport |-> "sctp.sport",
     Sumbytes |-> "sum.bytes", Sumname |-> "sum.name",
     Sumpkts |-> "sum.pkts", Tcpack |-> "tcp.ack",
     Tcpackseq |-> "tcp.ackseq", Tcpcsum |-> "tcp.csum",
     Tcpdport |-> "tcp.dport", Tcpfin |-> "tcp.fin",
     Tcpoffset |-> "tcp.offset", Tcppsh |-> "tcp.psh",
     Tcpreserved |-> "tcp.reserved", Tcpres1 |-> "tcp.res1",
     Tcpres2 |-> "tcp.res2", Tcprst |-> "tcp.rst", Tcpseq |-> "tcp.seq",
     Tcpsport |-> "tcp.sport", Tcpsyn |-> "tcp.syn", Tcpurg |-> "tcp.urg",
     Tcpurgp |-> "tcp.urgp", Tcpwindow |-> "tcp.window",
     Udpcsum |-> "udp.csum", Udpdport |-> "udp.dport", Udplen |-> "udp.len",
     Udpsport |-> "udp.sport", Srcport |-> "src_port", Srcip |-> "src_ip",
     Destport |-> "dest_port", Destip |-> "dest_ip", Dvc |-> "dvc",
     Timestamp |-> "timestamp", Ltimestamp |-> "@timestamp",
     Action |-> "action", GeoIP |-> "geoip"]

(* `switch kn[0]`: the fields compared exactly, by the key's first letter. *)
SwitchFromAt ==
    ("@" :> {"Ltimestamp"})
    @@ ("a" :> {"Ahespspi", "Arpdaddrstr", "Arpdhwaddr", "Arphwtype",
                "Arpoperation", "Arpprotocoltype", "Arpsaddrstr",
                "Arpshwaddr", "Action"})
    @@ ("c" :> {"Ctevent", "Ctid", "Ctmark"})
    @@ ("d" :> {"Destport", "Destip", "Dvc"})
    @@ ("f" :> {"Flowendsec", "Flowendusec", "Flowstartsec", "Flowstartusec"})
    @@ ("g" :> {"GeoIP"})

SwitchFromI ==
    ("i" :> {"Icmpcode", "Icmpcsum", "Icmpechoid", "Icmpechoseq",
             "Icmpfragmtu", "Icmpgateway", "Icmptype", "Icmpv6code",
             "Icmpv6csum", "Icmpv6echoid", "Icmpv6echoseq", "Icmpv6type",
             "Ip6flowlabel", "Ip6fragid", "Ip6fragoff", "Ip6hoplimit",
             "Ip6nexthdr", "Ip6payloadlen", "Ip6priority", "Ipcsum",
             "Ipdaddrstr", "Ipfragoff", "Ipid", "Ipihl", "Ipprotocol",
             "Ipsaddrstr", "Iptos", "Iptotlen", "Ipttl"})

SwitchFromM ==
    ("m" :> {"Macdaddrstr", "Macsaddrstr", "Macstr"})
    @@ ("n" :> {"Nufwappname", "Nufwosname", "Nufwosrel", "Nufwosvers",
                "Nufwuserid", "Nufwusername"})

SwitchFromO ==
    ("o" :> {"Oobfamily", "Oobgid", "Oobhook", "Oobifindexin",
             "Oobifindexout", "Oobin", "Oobmark", "Oobout", "Oobprefix",
             "Oobprotocol", "Oobseqglobal", "Oobseqlocal", "Oobtimesec",
             "Oobtimeusec", "Oobuid", "Origipdaddrstr", "Origipprotocol",
             "Origipsaddrstr", "Origl4dport", "Origl4sport",
             "Origrawpktcount", "Origrawpktlen"})
    @@ ("p" :> {"Print", "Pwsniffpass", "Pwsniffuser"})

SwitchFromR ==
    ("r" :> {"Rawlabel", "Rawmacaddrlen", "Rawmac", "Rawmaclen",
             "Rawpktcount", "Rawpkt", "Rawpktlen", "Rawtype",
             "Replyipdaddrstr", "Replyipprotocol", "Replyipsaddrstr",
             "Replyl4dport", "Replyl4sport", "Replyrawpktcount",
             "Replyrawpktlen"})
    @@ ("s" :> {"Sctpcsum", "Sctpdport", "Sctpsport", "Sumbytes", "Sumname",
                "Sumpkts", "Srcport", "Srcip"})

SwitchFromT ==
    ("t" :> {"Tcpack", "Tcpackseq", "Tcpcsum", "Tcpdport", "Tcpfin",
             "Tcpoffset", "Tcppsh", "Tcpreserved", "Tcpres1", "Tcpres2",
             "Tcprst", "Tcpseq", "Tcpsport", "Tcpsyn", "Tcpurg", "Tcpurgp",
             "Tcpwindow", "Timestamp"})
    @@ ("u" :> {"Udpcsum", "Udpdport", "Udplen", "Udpsport"})

(* The comparisons that ignore case, tried after the switch.               *)
FoldFromGeoIP ==
    Right({"Ltimestamp", "Timestamp", "Destip", "Destport", "Srcip",
           "Srcport", "Udpsport", "Udpcsum", "Tcpsyn", "Tcpsport", "Tcpseq",
           "Tcprst", "Tcpres2", "Tcpres1", "Tcpreserved", "Tcppsh",
           "Tcpoffset"})
    @@ Ascii({"Udplen", "Udpdport", "Tcpwindow", "Tcpurgp", "Tcpurg"})
    @@ Letters({"GeoIP", "Action", "Dvc"})

FoldFromTcpfin ==
    Right({"Tcpcsum", "Tcpackseq", "Tcpack", "Sumpkts", "Sumname",
           "Sumbytes", "Sctpsport", "Sctpdport", "Sctpcsum",
           "Replyrawpktlen", "Replyrawpktcount", "Replyl4sport",
           "Replyipsaddrstr", "Replyipdaddrstr", "Rawpktlen", "Rawpkt",
           "Rawpktcount"})
    @@ Ascii({"Tcpfin", "Tcpdport", "Replyl4dport", "Replyipprotocol",
              "Rawtype", "Rawmaclen", "Rawmac", "Rawmacaddrlen"})

FoldFromRawlabel ==
    Right({"Pwsniffuser", "Pwsniffpass", "Origrawpktlen", "Origrawpktcount",
           "Origl4sport", "Origipsaddrstr", "Origipdaddrstr", "Oobtimeusec",
           "Oobtimesec", "Oobseqlocal", "Oobseqglobal", "Oobmark", "Oobhook"})
    @@ Ascii({"Rawlabel", "Origl4dport", "Origipprotocol", "Oobuid",
              "Oobprotocol", "Oobprefix", "Oobout", "Oobin", "Oobifindexout",
              "Oobifindexin", "Oobgid"})
    @@ Letters({"Print"})

FoldFromOobfamily ==
    Right({"Nufwusername", "Nufwuserid", "Nufwosvers", "Nufwosrel",
           "Nufwosname", "Macstr", "Macsaddrstr", "Macdaddrstr", "Iptos",
           "Ipsaddrstr", "Ipdaddrstr", "Ipcsum"})
    @@ Ascii({"Oobfamily", "Nufwappname", "Ipttl", "Iptotlen", "Ipprotocol",
              "Ipihl", "Ipid", "Ipfragoff", "Ip6priority", "Ip6payloadlen",
              "Ip6nexthdr", "Ip6hoplimit", "Ip6fragoff"})

FoldFromIp6fragid ==
    Right({"Icmpv6echoseq", "Icmpv6csum", "Icmpechoseq", "Icmpcsum",
           "Flowstartusec", "Flowstartsec", "Flowendusec", "Flowendsec",
           "Ctmark", "Arpshwaddr", "Arpsaddrstr"})
    @@ Ascii({"Ip6fragid", "Ip6flowlabel", "Icmpv6type", "Icmpv6echoid",
              "Icmpv6code", "Icmptype", "Icmpgateway", "Icmpfragmtu",
              "Icmpechoid", "Icmpcode", "Ctid", "Ctevent", "Arpprotocoltype",
              "Arpoperation"})

FoldFromArphwtype ==
    Right({"Arpdaddrstr", "Ahespspi"})
    @@ Ascii({"Arphwtype", "Arpdhwaddr"})

(* `case ffj_t_nf_*: goto handle_*`, the label of each field.              *)
DispatchFromAhespspi ==
    [f \in Range(EnumFromAhespspi) |-> f]

DispatchFromIpttl ==
    [f \in Range(EnumFromIpttl) |-> f]

DispatchFromReplyipdaddrstr ==
    [f \in Range(EnumFromReplyipdaddrstr) |-> f]

(* The handlers, by what they accept and set.                              *)
HandleFromAhespspi ==
    IntPointers({"Ahespspi", "Arpdhwaddr", "Arphwtype"})
    @@ StringPointers({"Arpdaddrstr"})

HandleFromArpoperation ==
    IntPointers({"Arpoperation", "Arpprotocoltype", "Arpshwaddr"})
    @@ StringPointers({"Arpsaddrstr"})

HandleFromCtevent ==
    IntPointers({"Ctevent", "Ctid", "Ctmark", "Flowendsec"})

HandleFromFlowendusec ==
    IntPointers({"Flowendusec", "Flowstartsec", "Flowstartusec", "Icmpcode"})

HandleFromIcmpcsum ==
    IntPointers({"Icmpcsum", "Icmpechoid", "Icmpechoseq", "Icmpfragmtu"})

HandleFromIcmpgateway ==
    IntPointers({"Icmpgateway", "Icmptype", "Icmpv6code", "Icmpv6csum"})

HandleFromIcmpv6echoid ==
    IntPointers({"Icmpv6echoid", "Icmpv6echoseq", "Icmpv6type",
                 "Ip6flowlabel"})

HandleFromIp6fragid ==
    IntPointers({"Ip6fragid", "Ip6fragoff", "Ip6hoplimit", "Ip6nexthdr"})

HandleFromIp6payloadlen ==
    IntPointers({"Ip6payloadlen", "Ip6priority", "Ipcsum"})
    @@ StringPointers({"Ipdaddrstr"})

HandleFromIpfragoff ==
    IntPointers({"Ipfragoff", "Ipid", "Ipihl", "Ipprotocol"})

HandleFromIpsaddrstr ==
    IntPointers({"Iptos", "Iptotlen", "Ipttl"})
    @@ StringPointers({"Ipsaddrstr"})

HandleFromMacdaddrstr ==
    StringPointers({"Macdaddrstr", "Macsaddrstr", "Macstr", "Nufwappname",
                    "Nufwosname"})

HandleFromNufwosrel ==
    IntPointers({"Nufwuserid"})
    @@ StringPointers({"Nufwosrel", "Nufwosvers", "Nufwusername"})

HandleFromOobfamily ==
    IntPointers({"Oobfamily", "Oobgid", "Oobhook", "Oobifindexin"})

HandleFromOobifindexout ==
    IntPointers({"Oobifindexout", "Oobmark"})
    @@ StringPointers({"Oobin", "Oobout"})

HandleFromOobprefix ==
    IntPointers({"Oobprotocol", "Oobseqglobal", "Oobseqlocal"})
    @@ StringPointers({"Oobprefix"})

HandleFromOobtimesec ==
    IntPointers({"Oobtimesec", "Oobtimeusec", "Oobuid"})
    @@ StringPointers({"Origipdaddrstr"})

HandleFromOrigipprotocol ==
    IntPointers({"Origipprotocol", "Origl4dport", "Origl4sport"})
    @@ StringPointers({"Origipsaddrstr"})

HandleFromOrigrawpktcount ==
    IntPointers({"Origrawpktcount", "Origrawpktlen"})
    @@ StringPointers({"Print", "Pwsniffpass"})

HandleFromPwsniffuser ==
    IntPointers({"Rawlabel", "Rawmacaddrlen", "Rawmac"})
    @@ StringPointers({"Pwsniffuser"})

HandleFromRawmaclen ==
    IntPointers({"Rawmaclen", "Rawpktcount", "Rawpkt", "Rawpktlen"})

HandleFromRawtype ==
    IntPointers({"Rawtype", "Replyipprotocol"})
    @@ StringPointers({"Replyipdaddrstr", "Replyipsaddrstr"})

HandleFromReplyl4dport ==
    IntPointers({"Replyl4dport", "Replyl4sport", "Replyrawpktcount",
                 "Replyrawpktlen"})

HandleFromSctpcsum ==
    IntPointers({"Sctpcsum", "Sctpdport", "Sctpsport", "Sumbytes"})

HandleFromSumname ==
    IntPointers({"Sumpkts", "Tcpack", "Tcpackseq"})
    @@ StringPointers({"Sumname"})

HandleFromTcpcsum ==
    IntPointers({"Tcpcsum", "Tcpdport", "Tcpfin", "Tcpoffset"})

HandleFromTcppsh ==
    IntPointers({"Tcppsh", "Tcpreserved", "Tcpres1", "Tcpres2"})

HandleFromTcprst ==
    IntPointers({"Tcprst", "Tcpseq", "Tcpsport", "Tcpsyn"})

HandleFromTcpurg ==
    IntPointers({"Tcpurg", "Tcpurgp", "Tcpwindow", "Udpcsum"})

HandleFromUdpdport ==
    IntPointers({"Udpdport", "Udplen", "Udpsport", "Srcport"})

HandleFromSrcip ==
    IntPointers({"Destport"})
    @@ StringPointers({"Srcip", "Destip", "Dvc"})

HandleFromTimestamp ==
    StringPointers({"Timestamp", "Action"})
    @@ StringValues({"Ltimestamp"})
    @@ GeoIPs({"GeoIP"})

(* MarshalJSONBuf: the key it writes for a field and the value's conversion.*)
EncodeFromAhespspi ==
    WriteInts([Ahespspi |-> "ahesp.spi", Arpdhwaddr |-> "arp.dhwaddr",
               Arphwtype |-> "arp.hwtype", Arpoperation |-> "arp.operation",
               Arpprotocoltype |-> "arp.protocoltype",
               Arpshwaddr |-> "arp.shwaddr", Ctevent |-> "ct.event",
               Ctid |-> "ct.id", Ctmark |-> "ct.mark",
               Flowendsec |-> "flow.end.sec",
               Flowendusec |-> "flow.end.usec",
               Flowstartsec |-> "flow.start.sec",
               Flowstartusec |-> "flow.start.usec", Icmpcode |-> "icmp.code",
               Icmpcsum |-> "icmp.csum", Icmpechoid |-> "icmp.echoid",
               Icmpechoseq |-> "icmp.echoseq",
               Icmpfragmtu |-> "icmp.fragmtu", Icmpgateway |-> "icmp.gateway"])
    @@ WriteStrings([Arpdaddrstr |-> "arp.daddr.str",
                     Arpsaddrstr |-> "arp.saddr.str"])

EncodeFromIcmptype ==
    WriteInts([Icmptype |-> "icmp.type", Icmpv6code |-> "icmpv6.code",
               Icmpv6csum |-> "icmpv6.csum",
               Icmpv6echoid |-> "icmpv6.echoid",
               Icmpv6echoseq |-> "icmpv6.echoseq",
               Icmpv6type |-> "icmpv6.type",
               Ip6flowlabel |-> "ip6.flowlabel", Ip6fragid |-> "ip6.fragid",
               Ip6fragoff |-> "ip6.fragoff", Ip6hoplimit |-> "ip6.hoplimit",
               Ip6nexthdr |-> "ip6.nexthdr",
               Ip6payloadlen |-> "ip6.payloadlen",
               Ip6priority |-> "ip6.priority", Ipcsum |-> "ip.csum",
               Ipfragoff |-> "ip.fragoff", Ipid |-> "ip.id",
               Ipihl |-> "ip.ihl", Ipprotocol |-> "ip.protocol",
               Iptos |-> "ip.tos"])
    @@ WriteStrings([Ipdaddrstr |-> "ip.daddr.str",
                     Ipsaddrstr |-> "ip.saddr.str"])

EncodeFromIptotlen ==
    WriteInts([Iptotlen |-> "ip.totlen", Ipttl |-> "ip.ttl",
               Nufwuserid |-> "nufw.user.id", Oobfamily |-> "oob.family",
               Oobgid |-> "oob.gid", Oobhook |-> "oob.hook",
               Oobifindexin |-> "oob.ifindex_in",
               Oobifindexout |-> "oob.ifindex_out", Oobmark |-> "oob.mark",
               Oobprotocol |-> "oob.protocol"])
    @@ WriteStrings([Macdaddrstr |-> "mac.daddr.str",
                     Macsaddrstr |-> "mac.saddr.str", Macstr |-> "mac.str",
                     Nufwappname |-> "nufw.app.name",
                     Nufwosname |-> "nufw.os.name",
                     Nufwosrel |-> "nufw.os.rel",
                     Nufwosvers |-> "nufw.os.vers",
                     Nufwusername |-> "nufw.user.name", Oobin |-> "oob.in",
                     Oobout |-> "oob.out", Oobprefix |-> "oob.prefix"])

EncodeFromOobseqglobal ==
    WriteInts([Oobseqglobal |-> "oob.seq.global",
               Oobseqlocal |-> "oob.seq.local",
               Oobtimesec |-> "oob.time.sec",
               Oobtimeusec |-> "oob.time.usec", Oobuid |-> "oob.uid",
               Origipprotocol |-> "orig.ip.protocol",
               Origl4dport |-> "orig.l4.dport",
               Origl4sport |-> "orig.l4.sport",
               Origrawpktcount |-> "orig.raw.pktcount",
               Origrawpktlen |-> "orig.raw.pktlen", Rawlabel |-> "raw.label",
               Rawmacaddrlen |-> "raw.mac.addrlen", Rawmac |-> "raw.mac",
               Rawmaclen |-> "raw.mac_len", Rawpktcount |-> "raw.pktcount",
               Rawpkt |-> "raw.pkt"])
    @@ WriteStrings([Origipdaddrstr |-> "orig.ip.daddr.str",
                     Origipsaddrstr |-> "orig.ip.saddr.str",
                     Pwsniffpass |-> "pwsniff.pass",
                     Pwsniffuser |-> "pwsniff.user"]
                    @@ ("Print" :> "print"))

EncodeFromRawpktlen ==
    WriteInts([Rawpktlen |-> "raw.pktlen", Rawtype |-> "raw.type",
               Replyipprotocol |-> "reply.ip.protocol",
               Replyl4dport |-> "reply.l4.dport",
               Replyl4sport |-> "reply.l4.sport",
               Replyrawpktcount |-> "reply.raw.pktcount",
               Replyrawpktlen |-> "reply.raw.pktlen",
               Sctpcsum |-> "sctp.csum", Sctpdport |-> "sctp.dport",
               Sctpsport |-> "sctp.sport", Sumbytes |-> "sum.bytes",
               Sumpkts |-> "sum.pkts", Tcpack |-> "tcp.ack",
               Tcpackseq |-> "tcp.ackseq", Tcpcsum |-> "tcp.csum",
               Tcpdport |-> "tcp.dport", Tcpfin |-> "tcp.fin",
               Tcpoffset |-> "tcp.offset"])
    @@ WriteStrings([Replyipdaddrstr |-> "reply.ip.daddr.str",
                     Replyipsaddrstr |-> "reply.ip.saddr.str",
                     Sumname |-> "sum.name"])

EncodeFromTcppsh ==
    WriteInts([Tcppsh |-> "tcp.psh", Tcpreserved |-> "tcp.reserved",
               Tcpres1 |-> "tcp.res1", Tcpres2 |-> "tcp.res2",
               Tcprst |-> "tcp.rst", Tcpseq |-> "tcp.seq",
               Tcpsport |-> "tcp.sport", Tcpsyn |-> "tcp.syn",
               Tcpurg |-> "tcp.urg", Tcpurgp |-> "tcp.urgp",
               Tcpwindow |-> "tcp.window", Udpcsum |-> "udp.csum",
               Udpdport |-> "udp.dport", Udplen |-> "udp.len",
               Udpsport |-> "udp.sport", Srcport |-> "src_port",
               Destport |-> "dest_port"])
    @@ WriteStrings([Srcip |-> "src_ip", Destip |-> "dest_ip", Dvc |-> "dvc",
                     Timestamp |-> "timestamp"])

EncodeFromLtimestamp ==
    WriteStrings([Ltimestamp |-> "@timestamp", Action |-> "action"])
    @@ WriteStruct([GeoIP |-> "geoip"])

(* The listings of the whole struct.                                       *)
EnumNf ==
    EnumFromAhespspi \o EnumFromIpttl \o EnumFromReplyipdaddrstr

KeyNf ==
    KeyFromAhespspi @@ KeyFromPrint

SwitchNf ==
    SwitchFromAt @@ SwitchFromI @@ SwitchFromM @@ SwitchFromO @@ SwitchFromR
    @@ SwitchFromT

FoldNf ==
    FoldFromGeoIP @@ FoldFromTcpfin @@ FoldFromRawlabel @@ FoldFromOobfamily
    @@ FoldFromIp6fragid @@ FoldFromArphwtype

DispatchNf ==
    DispatchFromAhespspi @@ DispatchFromIpttl @@ DispatchFromReplyipdaddrstr

HandleNf ==
    HandleFromAhespspi @@ HandleFromArpoperation @@ HandleFromCtevent
    @@ HandleFromFlowendusec @@ HandleFromIcmpcsum @@ HandleFromIcmpgateway
    @@ HandleFromIcmpv6echoid @@ HandleFromIp6fragid
    @@ HandleFromIp6payloadlen @@ HandleFromIpfragoff @@ HandleFromIpsaddrstr
    @@ HandleFromMacdaddrstr @@ HandleFromNufwosrel @@ HandleFromOobfamily
    @@ HandleFromOobifindexout @@ HandleFromOobprefix @@ HandleFromOobtimesec
    @@ HandleFromOrigipprotocol @@ HandleFromOrigrawpktcount
    @@ HandleFromPwsniffuser @@ HandleFromRawmaclen @@ HandleFromRawtype
    @@ HandleFromReplyl4dport @@ HandleFromSctpcsum @@ HandleFromSumname
    @@ HandleFromTcpcsum @@ HandleFromTcppsh @@ HandleFromTcprst
    @@ HandleFromTcpurg @@ HandleFromUdpdport @@ HandleFromSrcip
    @@ HandleFromTimestamp

EncodeNf ==
    EncodeFromAhespspi @@ EncodeFromIcmptype @@ EncodeFromIptotlen
    @@ EncodeFromOobseqglobal @@ EncodeFromRawpktlen @@ EncodeFromTcppsh
    @@ EncodeFromLtimestamp
=============================================================================
