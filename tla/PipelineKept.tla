---------------------------- MODULE PipelineKept ----------------------------
(***************************************************************************)
(* Lines vanish from the two programs and the spool only in the ways that  *)
(* are known, for every number of lines, files and deaths.  A file that is *)
(* not created again under its reader is removed when all its lines are in *)
(* the hands of the reader, but for the one too many; and a file that is   *)
(* there when a process of ulog2file creates it holds lines only if a      *)
(* process has begun with it before.                                       *)
(***************************************************************************)
EXTENDS PipelineOnce

(* A process of ulog2file has a file open.                                 *)
Open == wpc \notin {"down", "start"}

(* Only files up to the number in meta/status, and files that a process    *)
(* has begun with, have ever had lines or a gzip header.                   *)
Noted(k) == k <= status \/ k \in begun

Numbers ==
    /\ begun \subseteq 1..(status + 1)
    /\ Open => status <= backupcount /\ begun \subseteq 1..backupcount
    /\ wpc \in {"created", "select", "flush", "rotate"} => Noted(backupcount)
    /\ \A k \in Files : plain[k] # <<>> => Noted(k)
    /\ \A k \in DOMAIN gz : k \notin blank => Noted(k)
    /\ rest # <<>> => Noted(rfile)

(* The open file is the one meta/current names, or it is blank.            *)
Named ==
    /\ wpc \in {"select", "flush", "rotate", "status"} => current = backupcount
    /\ wpc \in {"created", "current"} /\ backupcount \in DOMAIN gz =>
          backupcount \in blank

(* The compressed files have no lines of their own.                        *)
GzInPlain ==
    /\ \A k \in DOMAIN gz : Range(gz[k]) \subseteq Range(plain[k])
    /\ \A n \in 1..written : bulkRequest[n] \in Range(plain[backupcount])

(* i counts the lines since the last flush, j those of the file, and the   *)
(* line that finds i at Bulk and j at 0 is the last one.                   *)
FilledTo(lines, c, d) ==
    /\ lines <= FileLines
    /\ d = IF lines = FileLines THEN 0 ELSE lines
    /\ \E q \in Nat : lines = q * Bulk + c /\ (c = 0 => q = 0)

Filled(o) == FilledTo(Has + o - Lag, i, j)

WriterFills ==
    /\ wpc \in {"select", "flush"} => Filled(0) \/ Filled(1)
    /\ \A k \in Files : Len(plain[k]) <= FileLines + 1

(* What the reader has taken is in a channel, in the bulk, or was handed   *)
(* over.                                                                   *)
Hand == Range(parsedLines) \cup Range(actions) \cup esDocs \cup dropped

(* A file that is unpacked is not open, and its lines are on their way.    *)
UnpackedKept ==
    rpc \in {"gz", "remove"} /\ rfile \notin recreated =>
        /\ rfile \notin blank
        /\ Open => backupcount # rfile
        /\ Range(gz[rfile]) \subseteq Range(rest) \cup Hand

(* Of a file that is followed, the lines up to the count are.              *)
FollowedKept ==
    /\ rpc \notin {"tail", "push"} => count = 0
    /\ rpc \in {"tail", "push"} /\ rfile \notin recreated =>
          /\ ~truncated
          /\ tpos = count + Ahead /\ tpos <= Len(plain[rfile])
          /\ tpc = "send" => tline = plain[rfile][tpos]
          /\ rpc = "push" => rline = plain[rfile][count + 1]
          /\ \A n \in 1..count : plain[rfile][n] \in Hand
    /\ rpc \in {"stop", "join", "unlink"} /\ rfile \notin recreated =>
          /\ Len(plain[rfile]) >= FileLines
          /\ \A n \in 1..FileLines : plain[rfile][n] \in Hand

(* A file that was removed while it was open is complete.                  *)
RemovedFull ==
    Open /\ backupcount \notin DOMAIN gz /\ backupcount \notin recreated =>
        Len(plain[backupcount]) >= FileLines

KInv ==
    /\ CInv /\ TailHere /\ Begun
    /\ Numbers /\ Named /\ GzInPlain /\ WriterFills
    /\ UnpackedKept /\ FollowedKept /\ RemovedFull

-----------------------------------------------------------------------------
(* Ranges of sequences of lines.                                           *)
LEMMA SubSeqRange ==
    ASSUME NEW s \in Seq(LineNo), NEW n \in 0..Len(s)
    PROVE  /\ SubSeq(s, 1, n) \in Seq(LineNo)
           /\ Range(SubSeq(s, 1, n)) = {s[m] : m \in 1..n}
           /\ Range(SubSeq(s, 1, n)) \subseteq Range(s)
<1>1. /\ SubSeq(s, 1, n) \in Seq(LineNo) /\ Len(SubSeq(s, 1, n)) = n
      /\ \A m \in 1..n : SubSeq(s, 1, n)[m] = s[m]
  OBVIOUS
<1>2. /\ Range(SubSeq(s, 1, n)) = {SubSeq(s, 1, n)[m] : m \in 1..n}
      /\ Range(s) = {s[m] : m \in 1..Len(s)}
  BY <1>1, RangeEquality
<1>3. 1..n \subseteq 1..Len(s)
  OBVIOUS
<1> QED BY <1>1, <1>2, <1>3

LEMMA HeadAndTail ==
    ASSUME NEW s \in Seq(LineNo), s # <<>>
    PROVE  /\ Tail(s) \in Seq(LineNo) /\ Head(s) \in LineNo
           /\ Range(s) = {Head(s)} \cup Range(Tail(s))
<1>1. /\ Tail(s) \in Seq(LineNo) /\ Len(Tail(s)) = Len(s) - 1
      /\ \A n \in 1..(Len(s) - 1) : Tail(s)[n] = s[n + 1]
      /\ Head(s) = s[1] /\ Len(s) \in Nat /\ Len(s) > 0
  OBVIOUS
<1>2. /\ Range(s) = {s[n] : n \in 1..Len(s)}
      /\ Range(Tail(s)) = {Tail(s)[n] : n \in 1..(Len(s) - 1)}
  BY <1>1, RangeEquality
<1>3. Range(s) \subseteq {Head(s)} \cup Range(Tail(s))
  <2> SUFFICES ASSUME NEW n \in 1..Len(s), n # 1
               PROVE  s[n] \in Range(Tail(s))
    BY <1>1, <1>2
  <2>1. n - 1 \in 1..(Len(s) - 1) /\ (n - 1) + 1 = n
    OBVIOUS
  <2>2. Tail(s)[n - 1] = s[n]
    BY <1>1, <2>1
  <2> QED BY <1>2, <2>1, <2>2
<1>4. {Head(s)} \cup Range(Tail(s)) \subseteq Range(s)
  <2>1. 1 \in 1..Len(s) /\ \A n \in 1..(Len(s) - 1) : n + 1 \in 1..Len(s)
    BY <1>1
  <2> QED BY <1>1, <1>2, <2>1
<1>5. Head(s) \in LineNo
  BY <1>1
<1> QED BY <1>1, <1>3, <1>4, <1>5

LEMMA AppendedRange ==
    ASSUME NEW s \in Seq(LineNo), NEW l \in LineNo
    PROVE  Append(s, l) \in Seq(LineNo) /\ Range(Append(s, l)) = Range(s) \cup {l}
<1> DEFINE t == Append(s, l)
<1>1. /\ t \in Seq(LineNo) /\ Len(t) = Len(s) + 1 /\ t[Len(s) + 1] = l
      /\ \A n \in 1..Len(s) : t[n] = s[n]
      /\ 1..(Len(s) + 1) = 1..Len(s) \cup {Len(s) + 1}
  OBVIOUS
<1>2. /\ Range(s) = {s[n] : n \in 1..Len(s)}
      /\ Range(t) = {t[n] : n \in 1..(Len(s) + 1)}
  BY <1>1, RangeEquality
<1> HIDE DEF t
<1>3. Range(t) = Range(s) \cup {l}
  BY <1>1, <1>2
<1> QED BY <1>1, <1>3 DEF t

-----------------------------------------------------------------------------
(* What the operations on the files do.                                    *)
LEMMA CreatedFile ==
    ASSUME Typed, NEW k \in Files, CreateFile(k)
    PROVE  /\ DOMAIN gz' = DOMAIN gz \cup {k} /\ blank' = blank \cup {k}
           /\ gz'[k] = <<>> /\ plain'[k] = <<>>
           /\ \A n \in DOMAIN gz : n # k => gz'[n] = gz[n]
           /\ \A n \in Files : n # k => plain'[n] = plain[n]
BY DEF Typed, PlainTyped, CreateFile

LEMMA CompressedFile ==
    ASSUME Typed, NEW n \in 0..Len(bulkRequest), Compressed(n)
    PROVE  /\ DOMAIN gz' = DOMAIN gz
           /\ blank' \subseteq blank /\ blank \ {backupcount} \subseteq blank'
           /\ \A k \in DOMAIN gz : k # backupcount => gz'[k] = gz[k]
           /\ backupcount \in DOMAIN gz =>
                 Range(gz'[backupcount]) =
                    Range(gz[backupcount]) \cup {bulkRequest[m] : m \in 1..n}
<1>1. CASE backupcount \in DOMAIN gz
  <2> DEFINE some == SubSeq(bulkRequest, 1, n)
  <2>1. some \in Seq(LineNo) /\ Range(some) = {bulkRequest[m] : m \in 1..n}
    BY SubSeqRange DEF Typed, WriterTyped
  <2>2. gz' = [gz EXCEPT ![backupcount] = gz[backupcount] \o some]
    BY <1>1 DEF Compressed
  <2>3. gz[backupcount] \in Seq(LineNo)
    BY <1>1 DEF Typed, GzTyped
  <2> HIDE DEF some
  <2>4. Range(gz[backupcount] \o some) = Range(gz[backupcount]) \cup Range(some)
    BY <2>1, <2>3, RangeConcatenation
  <2> QED BY <1>1, <2>1, <2>2, <2>4 DEF Compressed
<1>2. CASE backupcount \notin DOMAIN gz
  BY <1>2 DEF Compressed
<1> QED BY <1>1, <1>2

LEMMA RemovedFile ==
    ASSUME NEW k, Removed(k)
    PROVE  /\ DOMAIN gz' = DOMAIN gz \ {k} /\ blank' = blank \ {k}
           /\ \A n \in DOMAIN gz' : gz'[n] = gz[n]
BY DEF Removed

-----------------------------------------------------------------------------
(* The numbers there are.                                                  *)
LEMMA NumbersOf ==
    ASSUME Typed
    PROVE  /\ MaxFile \in Nat /\ Files = 1..MaxFile /\ Files \subseteq Nat
           /\ backupcount \in 0..MaxFile /\ backupcount \in Nat
           /\ status \in 0..MaxFile /\ status \in Nat
           /\ DOMAIN gz \subseteq Files /\ blank \subseteq DOMAIN gz
           /\ rfile \in Files /\ tfile \in Files
           /\ Open => backupcount \in Files
<1>1. MaxFile \in Nat /\ Files = 1..MaxFile /\ Files \subseteq Nat
  BY Constants DEF Files
<1>2. backupcount \in 0..MaxFile /\ status \in 0..MaxFile
  BY DEF Typed, MetaTyped, WriterTyped, WriterTypeOK
<1>3. /\ DOMAIN gz \subseteq Files /\ blank \subseteq DOMAIN gz
      /\ rfile \in Files /\ tfile \in Files
      /\ Open => backupcount \in Files
  BY DEF Typed, GzTyped, ReaderTyped, ReaderTypeOK, TailTyped, TailTypeOK,
         WriterTyped, Open
<1> QED BY <1>1, <1>2, <1>3

(* What the steps of ulog2file leave alone.                                *)
LEMMA WritesLeave ==
    ASSUME Writes
    PROVE  /\ UNCHANGED <<begun, recreated, dropped, tailVars, readerVars>>
           /\ UNCHANGED <<rpc, rfile, rline, rest, count, parsedLines, actions,
                          esDocs>>
           /\ UNCHANGED <<tpc, tfile, tpos, tline, truncated>>
BY DEF Writes, startVars, tailVars, readerVars, restoreVars, primaryVars

LEMMA EnvironmentLeaves ==
    ASSUME Environment
    PROVE  /\ UNCHANGED <<begun, recreated, dropped, tailVars, readerVars>>
           /\ UNCHANGED <<rpc, rfile, rline, rest, count, parsedLines, actions,
                          esDocs>>
           /\ UNCHANGED <<tpc, tfile, tpos, tline, truncated>>
BY DEF Environment, startVars, tailVars, readerVars, restoreVars, primaryVars

-----------------------------------------------------------------------------
(* The numbers of the files.                                               *)
LEMMA NumbersKept ==
    ASSUME Numbers, UNCHANGED <<status, begun>>,
           Open' => Open /\ backupcount' = backupcount,
           wpc' \in {"created", "select", "flush", "rotate"} =>
              wpc \in {"created", "select", "flush", "rotate"},
           \A k \in Files : plain'[k] # <<>> => plain[k] # <<>> \/ Noted(k),
           \A k \in DOMAIN gz' : k \notin blank' =>
              (k \in DOMAIN gz /\ k \notin blank) \/ Noted(k),
           rest' # <<>> => Noted(rfile')
    PROVE  Numbers'
<1>1. \A k : Noted(k) => Noted(k)'
  BY DEF Noted
<1>2. rest' # <<>> => (Noted(rfile))'
  BY DEF Noted
<1>3. wpc' \in {"created", "select", "flush", "rotate"} => Noted(backupcount)'
  BY DEF Numbers, Noted, Open
<1> QED BY <1>1, <1>2, <1>3 DEF Numbers, Noted, Open

(* The file after the current one has never had a line.                    *)
LEMMA NextIsNew ==
    ASSUME Typed, Numbers, Open
    PROVE  ~Noted(backupcount + 1)
<1>1. backupcount \in Nat /\ status \in Nat
  BY Lengths DEF Typed, MetaTyped
<1> QED BY <1>1 DEF Numbers, Noted

LEMMA WritesNumbers == KInv /\ Writes => Numbers'
<1> SUFFICES ASSUME KInv, Writes PROVE Numbers'
  OBVIOUS
<1>1. /\ Typed /\ Numbers
      /\ UNCHANGED <<begun, rest, rfile>>
      /\ rest' # <<>> => Noted(rfile')
  BY WritesLeave DEF KInv, CInv, Numbers
<1>2. CASE WriterRotates
  <2>1. PICK k \in Files : k = backupcount + 1 /\ CreateFile(k)
    BY <1>1, <1>2, NumbersOf DEF WriterRotates
  <2>2. /\ Open /\ Open' /\ wpc' = "current" /\ backupcount' = k
        /\ UNCHANGED status
    BY <1>2, <2>1 DEF WriterRotates, Open
  <2>3. /\ status \in Nat /\ backupcount \in Nat
    BY <1>1, Lengths DEF Typed, MetaTyped
  <2>4. /\ begun' \subseteq 1..(status' + 1)
        /\ status' <= backupcount' /\ begun' \subseteq 1..backupcount'
    BY <1>1, <2>1, <2>2, <2>3 DEF Numbers
  <2>5. \A n \in Files : plain'[n] # <<>> => Noted(n)
    BY <1>1, <2>1, CreatedFile DEF Numbers
  <2>6. \A n \in DOMAIN gz' : n \notin blank' => Noted(n)
    BY <1>1, <2>1, CreatedFile DEF Numbers
  <2>7. \A n : Noted(n) => Noted(n)'
    BY <1>1, <2>2 DEF Noted
  <2>8. rest' # <<>> => Noted(rfile)'
    BY <1>1, <2>7
  <2> QED BY <2>2, <2>4, <2>5, <2>6, <2>7, <2>8 DEF Numbers
<1>3. CASE WriterNotesNumber
  <2>1. /\ wpc = "status" /\ Open /\ Open' /\ wpc' = "select"
        /\ status' = backupcount
        /\ UNCHANGED <<backupcount, plain, gz, blank>>
    BY <1>3 DEF WriterNotesNumber, Open
  <2>2. /\ status \in Nat /\ backupcount \in Nat /\ DOMAIN gz \subseteq Nat
        /\ Files \subseteq Nat /\ rfile \in Nat
    BY <1>1, NumbersOf
  <2>3. /\ begun' \subseteq 1..(status' + 1)
        /\ status' <= backupcount' /\ begun' \subseteq 1..backupcount'
    BY <1>1, <2>1, <2>2 DEF Numbers
  <2>4. \A n \in Nat : Noted(n) => Noted(n)'
    BY <1>1, <2>1, <2>2 DEF Numbers, Noted
  <2>5. Noted(backupcount)'
    BY <2>1, <2>2 DEF Noted
  <2>6. /\ \A n \in Files : plain'[n] # <<>> => Noted(n)'
        /\ \A n \in DOMAIN gz' : n \notin blank' => Noted(n)'
    BY <1>1, <2>1, <2>2, <2>4 DEF Numbers
  <2>7. rest' # <<>> => Noted(rfile)'
    BY <1>1, <2>2, <2>4 DEF Noted
  <2> QED BY <2>1, <2>3, <2>5, <2>6, <2>7 DEF Numbers
<1>4. CASE WriterWrites
  <2>1. /\ wpc = "flush" /\ UNCHANGED <<wpc, status, backupcount, gz, blank>>
        /\ \A n \in Files : n # backupcount => plain'[n] = plain[n]
    BY <1>1, <1>4 DEF WriterWrites, Typed, PlainTyped
  <2>2. Noted(backupcount)
    BY <1>1, <2>1 DEF Numbers
  <2> QED BY <1>1, <2>1, <2>2, NumbersKept DEF Open
<1>5. CASE WriterFlushed
  <2>1. /\ wpc = "flush" /\ wpc' \in {"select", "rotate"}
        /\ Compressed(written)
        /\ UNCHANGED <<status, backupcount, plain>>
    BY <1>5 DEF WriterFlushed
  <2>2. written \in 0..Len(bulkRequest)
    BY <1>1, Lengths
  <2>3. DOMAIN gz' = DOMAIN gz /\ blank \ {backupcount} \subseteq blank'
    BY <1>1, <2>1, <2>2, CompressedFile
  <2>4. Noted(backupcount)
    BY <1>1, <2>1 DEF Numbers
  <2> QED BY <1>1, <2>1, <2>3, <2>4, NumbersKept DEF Open
<1>6. CASE \/ WriterNamesFile \/ WriterReceive \/ WriterIdle
           \/ WriterNamesNext \/ WriterRestarts
           \/ \E k \in Files : RemovesPlain(k)
  <2>1. UNCHANGED <<status, backupcount, plain, gz, blank>>
    BY <1>6 DEF WriterNamesFile, WriterReceive, WriterIdle, WriterNamesNext,
                WriterRestarts, RemovesPlain, RemovePlain, spoolVars
  <2>2. /\ Open' => Open
        /\ wpc' \in {"created", "select", "flush", "rotate"} =>
              wpc \in {"created", "select", "flush", "rotate"}
    BY <1>6 DEF WriterNamesFile, WriterReceive, WriterIdle, WriterNamesNext,
                WriterRestarts, RemovesPlain, RemovePlain, Open
  <2> QED BY <1>1, <2>1, <2>2, NumbersKept
<1> QED BY <1>2, <1>3, <1>4, <1>5, <1>6 DEF Writes

LEMMA BeginsNumbers == KInv /\ WriterBegins => Numbers'
<1> SUFFICES ASSUME KInv, WriterBegins PROVE Numbers'
  OBVIOUS
<1>1. Typed /\ Numbers
  BY DEF KInv, CInv
<1>2. PICK k \in Files : k = status + 1 /\ CreateFile(k) /\ backupcount' = k
  BY <1>1, NumbersOf DEF WriterBegins, WriterStart
<1>3. /\ wpc' = "created" /\ UNCHANGED <<status, rfile>>
      /\ begun' = begun \cup {k}
  BY <1>2 DEF WriterBegins, WriterStart
<1>4. rest' # <<>> => rest # <<>>
  <2>1. rest' = rest \/ \E n \in 0..Len(rest) : rest' = SubSeq(rest, 1, n)
    BY DEF WriterBegins
  <2>2. rest = <<>> => \A n \in 0..Len(rest) : SubSeq(rest, 1, n) = <<>>
    OBVIOUS
  <2> QED BY <2>1, <2>2
<1>5. \A n : Noted(n) => Noted(n)'
  BY <1>3 DEF Noted
<1>6. /\ begun' \subseteq 1..(status' + 1) /\ status' <= backupcount'
      /\ begun' \subseteq 1..backupcount'
  <2>1. begun \subseteq 1..k /\ k \in 1..k /\ status <= k
    BY <1>1, <1>2, NumbersOf DEF Numbers
  <2> QED BY <1>2, <1>3, <2>1
<1>7. Noted(backupcount)'
  BY <1>2, <1>3 DEF Noted
<1>8. /\ \A n \in Files : plain'[n] # <<>> => Noted(n)
      /\ \A n \in DOMAIN gz' : n \notin blank' => Noted(n)
  BY <1>1, <1>2, CreatedFile DEF Numbers
<1>9. rest' # <<>> => Noted(rfile)'
  <2>1. rest' # <<>> => Noted(rfile)
    BY <1>1, <1>4 DEF Numbers
  <2>2. rest' # <<>> => Noted(rfile')
    BY <1>3, <2>1
  <2> QED BY <1>3, <2>1 DEF Noted
<1> QED BY <1>3, <1>5, <1>6, <1>7, <1>8, <1>9 DEF Numbers

LEMMA EnvironmentNumbers == KInv /\ Environment => Numbers'
<1> SUFFICES ASSUME KInv, Environment PROVE Numbers'
  OBVIOUS
<1>1. /\ Typed /\ Numbers
      /\ UNCHANGED <<begun, rest, rfile>>
      /\ rest' # <<>> => Noted(rfile')
  BY EnvironmentLeaves DEF KInv, CInv, Numbers
<1>2. CASE LineArrives
  <2>1. UNCHANGED <<wpc, status, backupcount, plain, gz, blank>>
    BY <1>2 DEF LineArrives, spoolVars
  <2> QED BY <1>1, <2>1, NumbersKept DEF Open
<1>3. CASE WriterDiesNow
  <2>1. wpc' = "down" /\ ~Open' /\ UNCHANGED <<status, plain>>
    BY <1>3 DEF WriterDiesNow, Open
  <2>2. CASE UNCHANGED <<gz, blank>>
    BY <1>1, <2>1, <2>2, NumbersKept
  <2>3. CASE written > 0 /\ \E n \in 0..written : Compressed(n)
    <3>1. PICK n \in 0..Len(bulkRequest) : Compressed(n)
      BY <1>1, <2>3, Lengths
    <3>2. DOMAIN gz' = DOMAIN gz /\ blank \ {backupcount} \subseteq blank'
      BY <1>1, <3>1, CompressedFile
    <3>3. wpc \in {"select", "flush"}
      BY <1>1, <2>3, Lengths DEF Typed, WriterTyped
    <3>4. Noted(backupcount)
      BY <1>1, <3>3 DEF Numbers
    <3> QED BY <1>1, <2>1, <3>2, <3>4, NumbersKept
  <2> QED BY <1>3, <2>2, <2>3 DEF WriterDiesNow
<1> QED BY <1>2, <1>3 DEF Environment

(* The files and the writer are left alone, or a file is removed.          *)
LEMMA ReaderNumbers ==
    ASSUME KInv, UNCHANGED <<writerVars, startVars, plain, status>>,
           UNCHANGED <<gz, blank>> \/ Removed(rfile),
           \/ rest' = <<>>
           \/ rest # <<>> /\ UNCHANGED rfile
           \/ rfile' \in DOMAIN gz /\ rfile' \notin blank
    PROVE  Numbers'
<1>1. Numbers /\ UNCHANGED <<wpc, backupcount, begun>>
  BY DEF KInv, writerVars, startVars
<1>2. \A k \in DOMAIN gz' : k \notin blank' =>
          k \in DOMAIN gz /\ k \notin blank
  BY RemovedFile
<1>3. rest' # <<>> => Noted(rfile')
  BY <1>1 DEF Numbers
<1> QED BY <1>1, <1>2, <1>3, NumbersKept DEF Open

(* What file2queue does to the files and to what it unpacks.               *)
RestGoes ==
    \/ rest' = <<>>
    \/ rest # <<>> /\ UNCHANGED rfile
    \/ rfile' \in DOMAIN gz /\ rfile' \notin blank

Reads == Tails \/ Restores \/ Indexes \/ Disturbs \/ UNCHANGED vars

LEMMA ReaderSpool ==
    ASSUME KInv, Reads
    PROVE  /\ UNCHANGED <<writerVars, startVars, plain, status, current>>
           /\ \/ UNCHANGED <<gz, blank>>
              \/ rpc \in {"remove", "unlink"} /\ Removed(rfile)
           /\ RestGoes
<1>1. TailHere /\ FileThere
  BY DEF KInv, CInv, Typed
<1>2. UNCHANGED <<writerVars, startVars>>
  BY DEF Reads, Tails, Restores, Indexes, Disturbs, vars
<1>3. CASE UNCHANGED <<spoolVars, rest, rfile>>
  BY <1>2, <1>3 DEF spoolVars, RestGoes
<1>4. CASE ReaderEnds
  BY <1>2, <1>4 DEF ReaderEnds, spoolVars, RestGoes
<1>5. CASE ReaderLists
  <2>1. rpc = "list" /\ UNCHANGED <<rest, spoolVars>>
    BY <1>5 DEF ReaderLists, RestoreStep
  <2> QED BY <1>1, <1>2, <2>1 DEF TailHere, RestGoes, spoolVars
<1>6. CASE ReaderUnpacks
  <2>1. /\ rpc = "decide" /\ rfile \notin blank /\ UNCHANGED <<rfile, spoolVars>>
    BY <1>6 DEF ReaderUnpacks, RestoreStep
  <2> QED BY <1>1, <1>2, <2>1 DEF FileThere, RestGoes, spoolVars
<1>7. CASE ReaderSends
  BY <1>2, <1>7 DEF ReaderSends, RestoreStep, RestGoes, spoolVars
<1>8. CASE ReaderRemoves \/ ReaderUnlinks
  BY <1>2, <1>8 DEF ReaderRemoves, ReaderUnlinks, Removed, RestGoes
<1>9. CASE Tails \/ Disturbs \/ UNCHANGED vars
  BY <1>3, <1>4, <1>9 DEF Tails, Disturbs, ReaderKilled, EsToggles, readerVars,
                          restoreVars, vars
<1>10. CASE Indexes
  BY <1>3, <1>4, <1>10
  DEF Indexes, Indexing, PrimaryConnects, PrimaryIsFatal, PrimaryAdds,
      PrimaryWaits, PrimaryPings, PrimaryIdles, PrimaryFlushes, PrimaryFails,
      PrimaryStep, restoreVars
<1>11. CASE Restores
  BY <1>3, <1>4, <1>5, <1>6, <1>7, <1>8, <1>11
  DEF Restores, Restoring, ReaderStarts, ReaderFindsNone, ReaderFollows,
      ReaderPanics, ReaderAtEOF, ReaderReceives, ReaderPushes, ReaderStops,
      ReaderJoins, Wakes, ReaderWakes, RestoreStep
<1> QED BY <1>9, <1>10, <1>11 DEF Reads

LEMMA StepNumbers == KInv /\ [Next]_vars => Numbers'
<1>1. KInv /\ Reads => Numbers'
  BY ReaderSpool, ReaderNumbers DEF RestGoes
<1> QED BY <1>1, BeginsNumbers, WritesNumbers, EnvironmentNumbers
        DEF Next, Reads

-----------------------------------------------------------------------------
(* The name of the file.                                                   *)
LEMMA NamedKept ==
    ASSUME Named, UNCHANGED <<wpc, current, backupcount>>,
           DOMAIN gz' \subseteq DOMAIN gz,
           \A k \in DOMAIN gz' : k \in blank => k \in blank'
    PROVE  Named'
BY DEF Named

LEMMA StepNamed == KInv /\ [Next]_vars => Named'
<1> SUFFICES ASSUME KInv, [Next]_vars PROVE Named'
  OBVIOUS
<1>1. Typed /\ Named
  BY DEF KInv, CInv
<1>2. CASE WriterBegins
  <2>1. wpc' = "created" /\ backupcount' \in blank'
    BY <1>2 DEF WriterBegins, WriterStart, CreateFile
  <2> QED BY <2>1 DEF Named
<1>3. CASE Reads
  <2>1. UNCHANGED <<wpc, current, backupcount>>
    BY <1>3, ReaderSpool DEF writerVars
  <2>2. /\ DOMAIN gz' \subseteq DOMAIN gz
        /\ \A k \in DOMAIN gz' : k \in blank => k \in blank'
    BY <1>3, ReaderSpool, RemovedFile
  <2> QED BY <1>1, <2>1, <2>2, NamedKept
<1>4. CASE WriterRotates
  <2>1. wpc' = "current" /\ backupcount' \in blank'
    BY <1>4 DEF WriterRotates, CreateFile
  <2> QED BY <2>1 DEF Named
<1>5. CASE WriterFlushed
  <2>1. /\ wpc = "flush" /\ wpc' \in {"select", "rotate"}
        /\ UNCHANGED <<current, backupcount>>
    BY <1>5 DEF WriterFlushed
  <2> QED BY <1>1, <2>1 DEF Named
<1>6. CASE WriterDiesNow
  <2>1. wpc' = "down"
    BY <1>6 DEF WriterDiesNow
  <2> QED BY <2>1 DEF Named
<1>7. CASE WriterNamesFile \/ WriterReceive \/ WriterIdle \/ WriterWrites
  BY <1>1, <1>7 DEF WriterNamesFile, WriterReceive, WriterIdle, WriterWrites,
                    spoolVars, Named
<1>8. CASE \/ WriterNamesNext \/ WriterNotesNumber \/ WriterRestarts
           \/ LineArrives
  BY <1>1, <1>8 DEF WriterNamesNext, WriterNotesNumber, WriterRestarts,
                    LineArrives, spoolVars, Named
<1>9. CASE \E k \in Files : RemovesPlain(k)
  BY <1>1, <1>9 DEF RemovesPlain, RemovePlain, Named
<1> QED BY <1>2, <1>3, <1>4, <1>5, <1>6, <1>7, <1>8, <1>9
        DEF Next, Reads, Writes, Environment

-----------------------------------------------------------------------------
(* The compressed files and the plain ones.                                *)
LEMMA NothingInIt == Range(<<>>) = {}
BY DEF Range

LEMMA GzInPlainKept ==
    ASSUME GzInPlain, DOMAIN gz' \subseteq DOMAIN gz,
           \A k \in DOMAIN gz' : gz'[k] = gz[k],
           UNCHANGED <<plain, backupcount, written>>,
           \A n \in 1..written : bulkRequest'[n] = bulkRequest[n]
    PROVE  GzInPlain'
BY DEF GzInPlain

LEMMA CreatedGzInPlain ==
    ASSUME Typed, GzInPlain, NEW k \in Files, CreateFile(k),
           wpc \notin {"select", "flush"}, UNCHANGED <<written, bulkRequest>>
    PROVE  GzInPlain'
<1>1. written = 0
  <2>1. Len(bulkRequest) = 0
    BY DEF Typed, WriterTyped
  <2> QED BY <2>1, Lengths
<1>2. \A n \in DOMAIN gz' : Range(gz'[n]) \subseteq Range(plain'[n])
  <2>1. /\ DOMAIN gz' = DOMAIN gz \cup {k} /\ gz'[k] = <<>>
        /\ \A n \in DOMAIN gz : n # k => gz'[n] = gz[n]
        /\ \A n \in Files : n # k => plain'[n] = plain[n]
        /\ DOMAIN gz \subseteq Files
    BY CreatedFile, NumbersOf
  <2>2. Range(gz'[k]) = {}
    BY <2>1, NothingInIt
  <2>3. \A n \in DOMAIN gz : Range(gz[n]) \subseteq Range(plain[n])
    BY DEF GzInPlain
  <2> QED BY <2>1, <2>2, <2>3
<1> QED BY <1>1, <1>2 DEF GzInPlain

LEMMA CompressedGzInPlain ==
    ASSUME Typed, GzInPlain, NEW n \in 0..written, Compressed(n),
           UNCHANGED plain, written' = 0
    PROVE  GzInPlain'
<1>1. n \in 0..Len(bulkRequest) /\ 1..n \subseteq 1..written
  BY Lengths
<1>2. /\ DOMAIN gz' = DOMAIN gz
      /\ \A k \in DOMAIN gz : k # backupcount => gz'[k] = gz[k]
      /\ backupcount \in DOMAIN gz =>
            Range(gz'[backupcount]) =
               Range(gz[backupcount]) \cup {bulkRequest[m] : m \in 1..n}
  BY <1>1, CompressedFile
<1>3. {bulkRequest[m] : m \in 1..n} \subseteq Range(plain[backupcount])
  BY <1>1 DEF GzInPlain
<1>4. \A k \in DOMAIN gz' : Range(gz'[k]) \subseteq Range(plain'[k])
  BY <1>2, <1>3 DEF GzInPlain
<1>5. 1..written' = {}
  OBVIOUS
<1> QED BY <1>4, <1>5 DEF GzInPlain

LEMMA StepGzInPlain == KInv /\ [Next]_vars => GzInPlain'
<1> SUFFICES ASSUME KInv, [Next]_vars PROVE GzInPlain'
  OBVIOUS
<1>1. Typed /\ GzInPlain
  BY DEF KInv, CInv
<1>2. CASE WriterBegins
  <2>1. PICK k \in Files : CreateFile(k)
    BY <1>1, <1>2, NumbersOf DEF WriterBegins, WriterStart
  <2> QED BY <1>1, <1>2, <2>1, CreatedGzInPlain DEF WriterBegins, WriterStart
<1>3. CASE WriterRotates
  <2>1. PICK k \in Files : CreateFile(k)
    BY <1>1, <1>3, NumbersOf DEF WriterRotates
  <2> QED BY <1>1, <1>3, <2>1, CreatedGzInPlain DEF WriterRotates
<1>4. CASE WriterFlushed
  <2>1. Compressed(written) /\ written' = 0 /\ UNCHANGED plain
    BY <1>4 DEF WriterFlushed
  <2>2. written \in 0..written
    BY <1>1, Lengths
  <2> QED BY <1>1, <2>1, <2>2, CompressedGzInPlain
<1>5. CASE WriterDiesNow
  <2>1. written' = 0 /\ UNCHANGED <<plain, backupcount>>
    BY <1>5 DEF WriterDiesNow
  <2>2. CASE UNCHANGED gz
    BY <1>1, <2>1, <2>2 DEF GzInPlain
  <2>3. CASE \E n \in 0..written : Compressed(n)
    BY <1>1, <2>1, <2>3, CompressedGzInPlain
  <2> QED BY <1>5, <2>2, <2>3 DEF WriterDiesNow
<1>6. CASE WriterWrites
  <2>1. /\ wpc = "flush" /\ written' = written + 1
        /\ written < Len(bulkRequest)
        /\ plain' = [plain EXCEPT ![backupcount] =
                        Append(@, bulkRequest[written + 1])]
        /\ UNCHANGED <<bulkRequest, backupcount, gz>>
    BY <1>6 DEF WriterWrites
  <2>2. backupcount \in Files /\ Open
    BY <1>1, <2>1, NumbersOf DEF Open
  <2>3. /\ bulkRequest \in Seq(LineNo) /\ plain[backupcount] \in Seq(LineNo)
        /\ plain \in [Files -> Seq(LineNo)]
    BY <1>1, <2>2 DEF Typed, WriterTyped, PlainTyped
  <2>4. written + 1 \in 1..Len(bulkRequest) /\ written \in Nat
    BY <1>1, <2>1, Lengths
  <2>5. /\ Range(plain'[backupcount]) =
              Range(plain[backupcount]) \cup {bulkRequest[written + 1]}
        /\ \A k \in Files : k # backupcount => plain'[k] = plain[k]
    <3>1. bulkRequest[written + 1] \in LineNo
      BY <2>3, <2>4
    <3>2. /\ plain'[backupcount] =
                Append(plain[backupcount], bulkRequest[written + 1])
          /\ \A k \in Files : k # backupcount => plain'[k] = plain[k]
      BY <2>1, <2>2, <2>3
    <3> QED BY <2>3, <3>1, <3>2, AppendedRange
  <2>6. \A k \in DOMAIN gz' : Range(gz'[k]) \subseteq Range(plain'[k])
    BY <1>1, <2>1, <2>5, NumbersOf DEF GzInPlain
  <2>7. \A n \in 1..written' : bulkRequest'[n] \in Range(plain'[backupcount'])
    <3> SUFFICES ASSUME NEW n \in 1..(written + 1)
                 PROVE  bulkRequest[n] \in Range(plain'[backupcount])
      BY <2>1
    <3>1. n \in 1..written \/ n = written + 1
      BY <2>4
    <3> QED BY <1>1, <2>5, <3>1 DEF GzInPlain
  <2> QED BY <2>6, <2>7 DEF GzInPlain
<1>7. CASE WriterReceive
  <2>1. /\ bulkRequest' = Append(bulkRequest, Head(backupLines))
        /\ UNCHANGED <<gz, plain, backupcount, written>>
    BY <1>7 DEF WriterReceive, spoolVars
  <2>2. bulkRequest \in Seq(LineNo) /\ written \in 0..Len(bulkRequest)
    BY <1>1, Lengths DEF Typed, WriterTyped
  <2>3. \A n \in 1..written : bulkRequest'[n] = bulkRequest[n]
    BY <2>1, <2>2
  <2> QED BY <1>1, <2>1, <2>3, GzInPlainKept
<1>8. CASE \/ WriterNamesFile \/ WriterIdle \/ WriterNamesNext
           \/ WriterNotesNumber \/ WriterRestarts \/ LineArrives
           \/ \E k \in Files : RemovesPlain(k)
  <2>1. UNCHANGED <<gz, plain, backupcount, written, bulkRequest>>
    BY <1>8 DEF WriterNamesFile, WriterIdle, WriterNamesNext,
                WriterNotesNumber, WriterRestarts, LineArrives, RemovesPlain,
                RemovePlain, spoolVars
  <2> QED BY <1>1, <2>1, GzInPlainKept
<1>9. CASE Reads
  <2>1. UNCHANGED <<plain, backupcount, written, bulkRequest>>
    BY <1>9, ReaderSpool DEF writerVars
  <2>2. /\ DOMAIN gz' \subseteq DOMAIN gz
        /\ \A k \in DOMAIN gz' : gz'[k] = gz[k]
    BY <1>9, ReaderSpool, RemovedFile
  <2> QED BY <1>1, <2>1, <2>2, GzInPlainKept
<1> QED BY <1>2, <1>3, <1>4, <1>5, <1>6, <1>7, <1>8, <1>9
        DEF Next, Reads, Writes, Environment

-----------------------------------------------------------------------------
(* A file is flushed an exact number of times.                             *)
LEMMA WholeBulks == \E m \in Nat : m > 0 /\ FileLines = m * Bulk
<1>1. /\ FileLines \in Nat /\ FileLines > 0 /\ Bulk \in Nat /\ Bulk > 1
      /\ FileLines % Bulk = 0
  BY Constants, Ulog2fileAssumption
<1> DEFINE m == FileLines \div Bulk
<1>2. m \in Nat /\ FileLines = m * Bulk
  BY <1>1
<1> HIDE DEF m
<1>3. m # 0
  BY <1>1, <1>2
<1> QED BY <1>2, <1>3

(* What is filled to a number of bulks and some lines more of the next one *)
(* is not filled up.                                                       *)
LEMMA NotFull ==
    ASSUME NEW m \in Nat, NEW b \in Nat, NEW q \in Nat, NEW c \in Nat,
           m > 0, c < b, c = 0 => q = 0
    PROVE  m * b # q * b + c
<1>1. CASE q >= m
  <2>1. q * b >= m * b /\ c > 0
    BY <1>1
  <2>2. q * b \in Nat /\ m * b \in Nat
    OBVIOUS
  <2> QED BY <2>1, <2>2
<1>2. CASE q + 1 <= m
  <2>1. (q + 1) * b <= m * b
    BY <1>2
  <2>2. (q + 1) * b = q * b + b /\ q * b \in Nat /\ m * b \in Nat
    OBVIOUS
  <2> QED BY <2>1, <2>2
<1> QED BY <1>1, <1>2

(* One line more of a bulk, ...                                            *)
LEMMA OneMore ==
    ASSUME NEW n, NEW c \in Nat, NEW d, FilledTo(n, c, d), c < Bulk
    PROVE  FilledTo(n + 1, c + 1, (d + 1) % FileLines)
<1>1. FileLines \in Nat /\ FileLines > 0 /\ Bulk \in Nat
  BY Constants
<1>2. PICK q \in Nat : n = q * Bulk + c /\ (c = 0 => q = 0)
  BY DEF FilledTo
<1>3. PICK m \in Nat : m > 0 /\ FileLines = m * Bulk
  BY WholeBulks
<1>4. n # FileLines
  BY <1>1, <1>2, <1>3, NotFull
<1>5. q * Bulk \in Nat
  BY <1>1
<1>6. n \in Nat /\ n < FileLines /\ d = n
  BY <1>1, <1>2, <1>4, <1>5 DEF FilledTo
<1>7. (n + 1) % FileLines = IF n + 1 = FileLines THEN 0 ELSE n + 1
  BY <1>1, <1>6
<1>8. n + 1 = q * Bulk + (c + 1) /\ c + 1 # 0
  BY <1>2, <1>5
<1> QED BY <1>1, <1>6, <1>7, <1>8 DEF FilledTo

(* ... and the first line of the next one.                                 *)
LEMMA NextBulk ==
    ASSUME NEW n, NEW d, FilledTo(n, Bulk, d), d # 0
    PROVE  FilledTo(n + 1, 1, (d + 1) % FileLines)
<1>1. FileLines \in Nat /\ FileLines > 0 /\ Bulk \in Nat
  BY Constants
<1>2. PICK q \in Nat : n = q * Bulk + Bulk
  BY DEF FilledTo
<1>3. q * Bulk \in Nat /\ (q + 1) * Bulk = q * Bulk + Bulk
  BY <1>1
<1>4. n \in Nat /\ n < FileLines /\ d = n
  BY <1>1, <1>2, <1>3 DEF FilledTo
<1>5. (n + 1) % FileLines = IF n + 1 = FileLines THEN 0 ELSE n + 1
  BY <1>1, <1>4
<1>6. n + 1 = (q + 1) * Bulk + 1 /\ q + 1 \in Nat
  BY <1>2, <1>3
<1> QED BY <1>1, <1>4, <1>5, <1>6 DEF FilledTo

(* The file has room for one more line than the reader counts.             *)
LEMMA HasAtMost ==
    ASSUME KInv, wpc \in {"select", "flush"}
    PROVE  /\ Has \in Nat /\ Has <= FileLines + Lag
           /\ backupcount \in Files
<1>1. Has \in Nat /\ backupcount \in Files
  BY Lengths DEF KInv, CInv
<1>2. Lag \in {0, 1} /\ FileLines \in Nat
  BY Constants DEF Lag
<1>3. Has + 0 - Lag <= FileLines \/ Has + 1 - Lag <= FileLines
  BY DEF KInv, WriterFills, Filled, FilledTo
<1> QED BY <1>1, <1>2, <1>3

PlainShort == \A k \in Files : Len(plain[k]) <= FileLines + 1

(* Plain files are not longer than that.                                   *)
LEMMA StepShort == KInv /\ [Next]_vars => PlainShort'
<1> SUFFICES ASSUME KInv, [Next]_vars PROVE PlainShort'
  OBVIOUS
<1>1. Typed /\ PlainShort /\ FileLines \in Nat
  BY Constants DEF KInv, CInv, WriterFills, PlainShort
<1>2. ASSUME NEW k \in Files, CreateFile(k) PROVE PlainShort'
  <2>1. plain'[k] = <<>> /\ \A n \in Files : n # k => plain'[n] = plain[n]
    BY <1>1, <1>2, CreatedFile
  <2>2. Len(<<>>) <= FileLines + 1
    BY <1>1
  <2> QED BY <1>1, <2>1, <2>2 DEF PlainShort
<1>3. CASE WriterBegins
  <2>1. PICK k \in Files : CreateFile(k)
    BY <1>1, <1>3, NumbersOf DEF WriterBegins, WriterStart
  <2> QED BY <1>2, <2>1
<1>4. CASE WriterRotates
  <2>1. PICK k \in Files : CreateFile(k)
    BY <1>1, <1>4, NumbersOf DEF WriterRotates
  <2> QED BY <1>2, <2>1
<1>5. CASE WriterWrites
  <2>1. /\ wpc = "flush" /\ written < Len(bulkRequest)
        /\ plain' = [plain EXCEPT ![backupcount] =
                        Append(@, bulkRequest[written'])]
    BY <1>5 DEF WriterWrites
  <2>2. backupcount \in Files /\ Has <= FileLines + 1 /\ Has \in Nat
    <3>1. Lag \in {0, 1}
      BY DEF Lag
    <3> QED BY <1>1, <2>1, <3>1, HasAtMost
  <2>3. Len(plain[backupcount]) + 1 <= FileLines + 1
    <3>1. /\ Len(plain[backupcount]) \in Nat /\ Len(bulkRequest) \in Nat
          /\ written \in Nat
      BY <1>1, <2>2, Lengths
    <3> QED BY <1>1, <2>1, <2>2, <3>1 DEF Has
  <2>4. plain[backupcount] \in Seq(LineNo) /\ plain \in [Files -> Seq(LineNo)]
    BY <1>1, <2>2 DEF Typed, PlainTyped
  <2>5. /\ Len(plain'[backupcount]) = Len(plain[backupcount]) + 1
        /\ \A n \in Files : n # backupcount => plain'[n] = plain[n]
    BY <2>1, <2>2, <2>4
  <2> QED BY <1>1, <2>3, <2>5 DEF PlainShort
<1>6. CASE UNCHANGED plain
  BY <1>1, <1>6 DEF PlainShort
<1>7. \/ WriterBegins \/ WriterRotates \/ WriterWrites \/ UNCHANGED plain
  <2>1. Writes => WriterRotates \/ WriterWrites \/ UNCHANGED plain
    BY DEF Writes, WriterNamesFile, WriterReceive, WriterIdle, WriterFlushed,
           WriterNamesNext, WriterNotesNumber, WriterRestarts, RemovesPlain,
           RemovePlain, spoolVars
  <2>2. Environment => UNCHANGED plain
    BY DEF Environment, LineArrives, WriterDiesNow, spoolVars
  <2>3. Reads => UNCHANGED plain
    BY ReaderSpool
  <2> QED BY <2>1, <2>2, <2>3 DEF Next, Reads
<1> QED BY <1>3, <1>4, <1>5, <1>6, <1>7

(* The counters of the writer.                                             *)
FillsAgree == wpc \in {"select", "flush"} => Filled(0) \/ Filled(1)

LEMMA FilledSame ==
    ASSUME Has' - Lag' = Has - Lag, Has \in Int, Lag \in Int, Has' \in Int,
           Lag' \in Int, UNCHANGED <<i, j>>, Filled(0) \/ Filled(1)
    PROVE  FillsAgree'
<1>1. \A a, b, c, d \in Int : a - b = c - d =>
        a + 0 - b = c + 0 - d /\ a + 1 - b = c + 1 - d
  OBVIOUS
<1>2. Has' + 0 - Lag' = Has + 0 - Lag /\ Has' + 1 - Lag' = Has + 1 - Lag
  <2>1. PICK a \in Int, b \in Int, c \in Int, d \in Int :
            a = Has' /\ b = Lag' /\ c = Has /\ d = Lag
    OBVIOUS
  <2>2. a - b = c - d
    BY <2>1
  <2>3. a + 0 - b = c + 0 - d /\ a + 1 - b = c + 1 - d
    BY <1>1, <2>2
  <2> QED BY <2>1, <2>3
<1> QED BY <1>2 DEF FillsAgree, Filled, FilledTo

LEMMA StepFills == KInv /\ [Next]_vars => FillsAgree'
<1> SUFFICES ASSUME KInv, [Next]_vars PROVE FillsAgree'
  OBVIOUS
<1>1. CInv /\ Typed /\ FillsAgree
  BY DEF KInv, CInv, WriterFills, FillsAgree
<1>2. /\ i \in Nat /\ j \in 0..(FileLines - 1) /\ written \in Nat
      /\ Len(bulkRequest) \in Nat /\ bulkRequest \in Seq(LineNo)
      /\ FileLines \in Nat /\ FileLines > 0 /\ Bulk \in Nat /\ Bulk > 1
  BY <1>1, Lengths, Constants DEF Typed, WriterTyped
<1>3. /\ Open => backupcount \in Files /\ Len(plain[backupcount]) \in Nat
                 /\ Has \in Nat
      /\ plain \in [Files -> Seq(LineNo)]
  BY <1>1, NumbersOf, Lengths DEF Open, Typed, PlainTyped
<1>4. wpc # "flush" => ~idle /\ Lag = 0
  BY <1>1 DEF Typed, WriterTyped, Lag
<1>5. \/ wpc' \notin {"select", "flush"} \/ WriterNamesFile \/ WriterReceive
      \/ WriterIdle \/ WriterWrites \/ WriterFlushed \/ WriterNotesNumber
      \/ UNCHANGED <<wpc, idle, plain, bulkRequest, written, backupcount, i, j>>
  <2>1. WriterBegins => wpc' \notin {"select", "flush"}
    BY DEF WriterBegins, WriterStart
  <2>2. Writes => \/ wpc' \notin {"select", "flush"} \/ WriterNamesFile
                  \/ WriterReceive \/ WriterIdle \/ WriterWrites
                  \/ WriterFlushed \/ WriterNotesNumber
                  \/ \E k \in Files : RemovesPlain(k)
    BY DEF Writes, WriterRotates, WriterNamesNext, WriterRestarts
  <2>3. Environment => LineArrives \/ wpc' = "down"
    BY DEF Environment, WriterDiesNow
  <2>4. Reads => UNCHANGED <<plain, writerVars>>
    BY ReaderSpool
  <2>5. LineArrives \/ (\E k \in Files : RemovesPlain(k)) =>
           UNCHANGED <<wpc, idle, plain, bulkRequest, written, backupcount, i,
                       j>>
    BY DEF LineArrives, RemovesPlain, RemovePlain, spoolVars
  <2> QED BY <2>1, <2>2, <2>3, <2>4, <2>5 DEF Next, Reads, writerVars
<1>6. CASE wpc' \notin {"select", "flush"}
  BY <1>6 DEF FillsAgree
<1>7. CASE UNCHANGED <<wpc, idle, plain, bulkRequest, written, backupcount, i,
                       j>>
  BY <1>1, <1>7 DEF FillsAgree, Filled, FilledTo, Has, Lag
<1>8. CASE WriterNamesFile
  <2>1. /\ wpc = "created" /\ wpc' = "select" /\ Lag' = 0
        /\ UNCHANGED <<plain, bulkRequest, written, backupcount, i, j>>
    BY <1>8 DEF WriterNamesFile, Lag
  <2>2. Has = 0 /\ i = 0 /\ j = 0 /\ Has' = Has
    BY <1>1, <2>1 DEF CInv, WriterCounts, Has
  <2>3. 0 = 0 * Bulk + 0
    BY <1>2
  <2>4. FilledTo(0, 0, 0)
    BY <1>2, <2>3 DEF FilledTo
  <2>5. Filled(0)'
    BY <2>1, <2>2, <2>4 DEF Filled, FilledTo
  <2> QED BY <2>5 DEF FillsAgree
<1>9. CASE WriterNotesNumber
  <2>1. /\ wpc = "status" /\ wpc' = "select" /\ Lag' = 0
        /\ UNCHANGED <<plain, bulkRequest, written, backupcount>>
        /\ i' = 1 /\ j' = (j + 1) % FileLines
    BY <1>9 DEF WriterNotesNumber, Lag
  <2>2. Has = 0 /\ j = 0 /\ Has' = Has
    BY <1>1, <2>1 DEF CInv, WriterCounts, Has
  <2>3. 0 = 0 * Bulk + 0
    BY <1>2
  <2>4. FilledTo(0, 0, 0)
    BY <1>2, <2>3 DEF FilledTo
  <2>5. FilledTo(1, 1, (0 + 1) % FileLines)
    <3>1. \A n, c, d \in Nat : n = 0 /\ c = 0 /\ d = 0 =>
              FilledTo(n + 1, c + 1, (d + 1) % FileLines)
      <4> SUFFICES ASSUME NEW n \in Nat, NEW c \in Nat, NEW d \in Nat,
                          FilledTo(n, c, d), c < Bulk
                   PROVE  FilledTo(n + 1, c + 1, (d + 1) % FileLines)
        BY <1>2, <2>4
      <4> QED BY OneMore
    <3>2. FilledTo(0 + 1, 0 + 1, (0 + 1) % FileLines)
      BY <3>1
    <3> QED BY <3>2
  <2>6. Filled(1)'
    BY <2>1, <2>2, <2>5 DEF Filled, FilledTo
  <2> QED BY <2>6 DEF FillsAgree
<1>10. CASE WriterIdle
  <2>1. /\ wpc = "select" /\ Open /\ Lag' = 0
        /\ UNCHANGED <<plain, bulkRequest, written, backupcount, i, j>>
    BY <1>10 DEF WriterIdle, spoolVars, Lag, Open
  <2>2. Has' = Has /\ Has \in Int /\ Lag = 0
    BY <1>3, <1>4, <2>1 DEF Has
  <2> QED BY <1>1, <2>1, <2>2, FilledSame DEF FillsAgree
<1>11. CASE WriterReceive
  <2>1. /\ wpc = "select" /\ Open /\ ~idle' /\ ~idle
        /\ bulkRequest' = Append(bulkRequest, Head(backupLines))
        /\ UNCHANGED <<plain, written, backupcount>>
    BY <1>4, <1>11 DEF WriterReceive, spoolVars, Open
  <2>2. Has' = Has + 1 /\ Has \in Nat /\ Lag = 0
    <3>1. Len(bulkRequest') = Len(bulkRequest) + 1
      BY <1>2, <2>1
    <3>2. Has' = Len(plain[backupcount]) + Len(bulkRequest') - written
      BY <2>1 DEF Has
    <3>3. Has = Len(plain[backupcount]) + Len(bulkRequest) - written
      BY DEF Has
    <3> QED BY <1>2, <1>3, <1>4, <2>1, <3>1, <3>2, <3>3
  <2>3. CASE i >= Bulk /\ wpc' = "flush" /\ UNCHANGED <<i, j>>
    <3>1. Lag' = 1
      BY <2>1, <2>3 DEF Lag
    <3> QED BY <1>1, <2>1, <2>2, <2>3, <3>1, FilledSame DEF FillsAgree
  <2>4. CASE /\ i < Bulk /\ i' = i + 1 /\ j' = (j + 1) % FileLines
             /\ wpc' = "select"
    <3>1. Lag' = 0
      BY <2>4 DEF Lag
    <3>2. \A o \in {0, 1} : Has' + o - Lag' = (Has + o - Lag) + 1
      BY <2>2, <3>1
    <3>3. \A o \in {0, 1} : Filled(o) => Filled(o)'
      <4> TAKE o \in {0, 1}
      <4> HAVE Filled(o)
      <4>1. FilledTo(Has + o - Lag, i, j)
        BY DEF Filled
      <4>2. FilledTo((Has + o - Lag) + 1, i', j')
        BY <1>2, <2>4, <4>1, OneMore
      <4> QED BY <3>2, <4>2 DEF Filled, FilledTo
    <3> QED BY <1>1, <2>1, <3>3 DEF FillsAgree
  <2> QED BY <1>11, <2>3, <2>4 DEF WriterReceive
<1>12. CASE WriterWrites
  <2>1. /\ wpc = "flush" /\ Open
        /\ written < Len(bulkRequest) /\ written' = written + 1
        /\ plain' = [plain EXCEPT ![backupcount] =
                        Append(@, bulkRequest[written'])]
        /\ UNCHANGED <<wpc, idle, bulkRequest, backupcount, i, j>>
    BY <1>12 DEF WriterWrites, Open
  <2>2. Len(plain'[backupcount]) = Len(plain[backupcount]) + 1
    <3>1. plain[backupcount] \in Seq(LineNo) /\ backupcount \in DOMAIN plain
      BY <1>3, <2>1
    <3>2. plain'[backupcount] = Append(plain[backupcount], bulkRequest[written'])
      BY <2>1, <3>1
    <3> QED BY <3>1, <3>2
  <2>3. Has' = Has /\ Has \in Int
    <3>1. Has' = Len(plain'[backupcount]) + Len(bulkRequest) - (written + 1)
      BY <2>1 DEF Has
    <3> QED BY <1>2, <1>3, <2>1, <2>2, <3>1 DEF Has
  <2>4. Lag' = Lag /\ Lag \in Int
    BY <2>1 DEF Lag
  <2> QED BY <1>1, <2>1, <2>3, <2>4, FilledSame DEF FillsAgree
<1>13. CASE WriterFlushed
  <2>1. /\ wpc = "flush" /\ Open /\ written = Len(bulkRequest)
        /\ bulkRequest' = <<>> /\ written' = 0 /\ ~idle'
        /\ UNCHANGED <<plain, backupcount>>
    BY <1>13 DEF WriterFlushed, Open
  <2>2. Has' = Has /\ Has \in Int /\ Lag' = 0
    <3>1. Has' = Len(plain[backupcount]) + Len(<<>>) - 0
      BY <2>1 DEF Has
    <3>2. Lag' = 0
      BY <1>13 DEF WriterFlushed, Lag
    <3> QED BY <1>2, <1>3, <2>1, <3>1, <3>2 DEF Has
  <2>3. CASE idle /\ UNCHANGED <<i, j>>
    <3>1. Lag = 0
      BY <2>3 DEF Lag
    <3> QED BY <1>1, <2>1, <2>2, <2>3, <3>1, FilledSame DEF FillsAgree
  <2>4. CASE ~idle /\ j > 0 /\ i' = 1 /\ j' = (j + 1) % FileLines
    <3>1. Lag = 1 /\ i = Bulk
      BY <1>1, <1>2, <2>1, <2>4
      DEF Lag, CInv, WriterCounts, Typed, WriterTyped, WriterTypeOK
    <3>2. \A o \in {0, 1} : Has' + o - Lag' = (Has + o - Lag) + 1
      BY <2>2, <3>1
    <3>3. \A o \in {0, 1} : Filled(o) => Filled(o)'
      <4> TAKE o \in {0, 1}
      <4> HAVE Filled(o)
      <4>1. FilledTo(Has + o - Lag, Bulk, j) /\ j # 0
        BY <1>2, <2>4, <3>1 DEF Filled
      <4>2. FilledTo((Has + o - Lag) + 1, i', j')
        BY <2>4, <4>1, NextBulk
      <4> QED BY <3>2, <4>2 DEF Filled, FilledTo
    <3> QED BY <1>1, <2>1, <3>3 DEF FillsAgree
  <2>5. CASE wpc' = "rotate"
    BY <2>5 DEF FillsAgree
  <2> QED BY <1>13, <2>3, <2>4, <2>5 DEF WriterFlushed
<1> QED BY <1>5, <1>6, <1>7, <1>8, <1>9, <1>10, <1>11, <1>12, <1>13

-----------------------------------------------------------------------------
(* Lines stay in a plain file until a process begins with it again; the    *)
(* file that comes next when files are changed has none.                   *)
Stays(k) ==
    \A n \in 1..Len(plain[k]) :
        n \in 1..Len(plain'[k]) /\ plain'[k][n] = plain[k][n]

LEMMA PlainStays ==
    ASSUME KInv, [Next]_vars, NEW k \in Files,
           WriterBegins => k # backupcount'
    PROVE  Stays(k)
<1>1. Typed /\ Numbers
  BY DEF KInv, CInv
<1>2. CASE plain'[k] = plain[k]
  BY <1>2 DEF Stays
<1>3. CASE WriterBegins
  <2>1. PICK m \in Files : m = backupcount' /\ CreateFile(m)
    BY <1>1, <1>3, NumbersOf DEF WriterBegins, WriterStart
  <2>2. plain'[k] = plain[k]
    BY <1>1, <1>3, <2>1, CreatedFile
  <2> QED BY <2>2, <1>2
<1>4. CASE WriterRotates
  <2>1. PICK m \in Files : m = backupcount + 1 /\ CreateFile(m)
    BY <1>1, <1>4, NumbersOf DEF WriterRotates
  <2>2. ~Noted(m)
    BY <1>1, <1>4, <2>1, NextIsNew DEF WriterRotates, Open
  <2>3. plain[m] = <<>> /\ plain'[m] = <<>>
    BY <1>1, <2>1, <2>2, CreatedFile DEF Numbers
  <2>4. m # k => plain'[k] = plain[k]
    BY <1>1, <2>1, CreatedFile
  <2> QED BY <1>2, <2>3, <2>4
<1>5. CASE WriterWrites
  <2>1. plain' = [plain EXCEPT ![backupcount] =
                     Append(@, bulkRequest[written'])]
    BY <1>5 DEF WriterWrites
  <2>2. plain[k] \in Seq(LineNo) /\ plain \in [Files -> Seq(LineNo)]
    BY <1>1 DEF Typed, PlainTyped
  <2>3. plain'[k] = plain[k] \/ plain'[k] = Append(plain[k], bulkRequest[written'])
    BY <2>1, <2>2
  <2> QED BY <1>2, <2>2, <2>3 DEF Stays
<1>6. \/ WriterBegins \/ WriterRotates \/ WriterWrites \/ plain' = plain
  <2>1. Writes => WriterRotates \/ WriterWrites \/ plain' = plain
    BY DEF Writes, WriterNamesFile, WriterReceive, WriterIdle, WriterFlushed,
           WriterNamesNext, WriterNotesNumber, WriterRestarts, RemovesPlain,
           RemovePlain, spoolVars
  <2>2. Environment => plain' = plain
    BY DEF Environment, LineArrives, WriterDiesNow, spoolVars
  <2>3. Reads => plain' = plain
    BY ReaderSpool
  <2> QED BY <2>1, <2>2, <2>3 DEF Next, Reads
<1> QED BY <1>2, <1>3, <1>4, <1>5, <1>6

LEMMA RecreatedStay == [Next]_vars => recreated \subseteq recreated'
BY DEF Next, WriterBegins, Writes, Environment, Tails, Restores, Indexes,
       Disturbs, vars, startVars

(* What the reader has taken stays in its hands as long as it lives.       *)
LEMMA HandStays ==
    ASSUME KInv, [Next]_vars, rpc' # "down"
    PROVE  Hand \subseteq Hand'
<1>1. /\ parsedLines \in Seq(LineNo) /\ actions \in Seq(LineNo)
      /\ rpc = "push" => rline \in LineNo
      /\ rest \in Seq(LineNo)
  BY DEF KInv, CInv, Typed, ReaderTyped
<1>2. CASE UNCHANGED <<parsedLines, actions, esDocs, dropped>>
  BY <1>2 DEF Hand
<1>3. CASE (ReaderSends \/ ReaderPushes) /\ UNCHANGED dropped
  <2>1. PICK l \in LineNo : parsedLines' = Append(parsedLines, l)
    BY <1>1, <1>3, HeadAndTail DEF ReaderSends, ReaderPushes
  <2>2. UNCHANGED <<actions, esDocs>>
    BY <1>3 DEF ReaderSends, ReaderPushes, RestoreStep, primaryVars
  <2> QED BY <1>1, <1>3, <2>1, <2>2, AppendedRange DEF Hand
<1>4. CASE PrimaryAdds /\ dropped \subseteq dropped'
  <2>1. /\ parsedLines # <<>> /\ parsedLines' = Tail(parsedLines)
        /\ actions' = Append(actions, Head(parsedLines))
        /\ UNCHANGED esDocs
    BY <1>4 DEF PrimaryAdds
  <2>2. /\ Range(parsedLines) = {Head(parsedLines)} \cup Range(parsedLines')
        /\ Range(actions') = Range(actions) \cup {Head(parsedLines)}
    BY <1>1, <2>1, HeadAndTail, AppendedRange
  <2> QED BY <1>4, <2>1, <2>2 DEF Hand
<1>5. CASE PrimaryWaits /\ Indexes
  <2>1. /\ parsedLines # <<>> /\ parsedLines' = Tail(parsedLines)
        /\ dropped' = dropped \cup {Head(parsedLines)}
        /\ UNCHANGED <<actions, esDocs>>
    BY <1>5 DEF PrimaryWaits, Indexes
  <2>2. Range(parsedLines) = {Head(parsedLines)} \cup Range(parsedLines')
    BY <1>1, <2>1, HeadAndTail
  <2> QED BY <2>1, <2>2 DEF Hand
<1>6. CASE PrimaryFlushes /\ dropped \subseteq dropped'
  BY <1>6 DEF PrimaryFlushes, Hand
<1>7. CASE PrimaryFails /\ dropped \subseteq dropped'
  BY <1>7 DEF PrimaryFails, Hand
<1>8. CASE Indexes
  <2>1. dropped \subseteq dropped'
    BY <1>8 DEF Indexes
  <2>2. PrimaryConnects \/ PrimaryPings \/ PrimaryIdles =>
           UNCHANGED <<parsedLines, actions, esDocs>>
    BY DEF PrimaryConnects, PrimaryPings, PrimaryIdles, PrimaryStep
  <2>3. ~PrimaryIsFatal
    BY DEF PrimaryIsFatal, ReaderEnds
  <2>4. CASE PrimaryConnects \/ PrimaryPings \/ PrimaryIdles
    BY <2>1, <2>2, <2>4 DEF Hand
  <2> QED BY <1>4, <1>5, <1>6, <1>7, <1>8, <2>1, <2>3, <2>4
          DEF Indexes, Indexing
<1>9. CASE Restores
  <2>1. UNCHANGED dropped
    BY <1>9 DEF Restores
  <2>2. ~ReaderFindsNone /\ ~ReaderPanics
    BY DEF ReaderFindsNone, ReaderPanics, ReaderEnds
  <2>3. \/ ReaderSends \/ ReaderPushes
        \/ UNCHANGED <<parsedLines, actions, esDocs>>
    BY <1>9, <2>2
    DEF Restores, Restoring, ReaderStarts, ReaderLists, ReaderFollows,
        ReaderUnpacks, ReaderAtEOF, ReaderReceives, ReaderStops, ReaderJoins,
        ReaderRemoves, ReaderUnlinks, Removed, Wakes, ReaderWakes,
        RestoreStep, primaryVars
  <2> QED BY <1>2, <1>3, <2>1, <2>3
<1>10. CASE WriterBegins \/ Tails \/ Disturbs \/ UNCHANGED vars
  BY <1>2, <1>10 DEF WriterBegins, Tails, Disturbs, ReaderKilled, ReaderEnds,
                     EsToggles, vars, readerVars, primaryVars
<1>11. CASE Writes \/ Environment
  BY <1>2, <1>11, WritesLeave, EnvironmentLeaves
<1> QED BY <1>8, <1>9, <1>10, <1>11 DEF Next

-----------------------------------------------------------------------------
(* What is unpacked is not written to, ...                                 *)
LEMMA UnpackedUntouched ==
    ASSUME KInv, UNCHANGED <<rpc, rfile>>, Hand \subseteq Hand',
           recreated \subseteq recreated',
           rpc \in {"gz", "remove"} /\ rfile \notin recreated' =>
              /\ rest' = rest /\ gz'[rfile] = gz[rfile]
              /\ rfile \notin blank => rfile \notin blank'
              /\ Open' => backupcount' # rfile
    PROVE  UnpackedKept'
<1> SUFFICES ASSUME rpc \in {"gz", "remove"}, rfile \notin recreated'
             PROVE  /\ rfile \notin blank'
                    /\ Open' => backupcount' # rfile
                    /\ Range(gz'[rfile]) \subseteq Range(rest') \cup Hand'
  BY DEF UnpackedKept
<1>1. rfile \notin recreated
  OBVIOUS
<1>2. /\ rfile \notin blank
      /\ Range(gz[rfile]) \subseteq Range(rest) \cup Hand
  BY <1>1 DEF KInv, UnpackedKept
<1> QED BY <1>2

(* ... by no step of the writer; ...                                       *)
LEMMA WriterUnpacked ==
    ASSUME KInv, WriterBegins \/ Writes \/ Environment
    PROVE  UnpackedKept'
<1>1. /\ UNCHANGED <<rpc, rfile, parsedLines, actions, esDocs, dropped>>
      /\ recreated \subseteq recreated'
  BY WritesLeave, EnvironmentLeaves
  DEF WriterBegins, primaryVars
<1>2. Hand' = Hand
  BY <1>1 DEF Hand
<1>3. Typed /\ Numbers /\ Named
  BY DEF KInv, CInv
<1>4. rpc \in {"gz", "remove"} =>
          /\ rfile \in DOMAIN gz /\ rfile \in Files
          /\ rfile \notin recreated => rfile \notin blank /\ Noted(rfile)
          /\ Open /\ rfile \notin recreated => backupcount # rfile
  <2>1. rpc \in {"gz", "remove"} => rfile \in DOMAIN gz /\ rfile \in Files
    BY <1>3, NumbersOf DEF Typed, FileThere
  <2>2. rpc \in {"gz", "remove"} /\ rfile \notin recreated =>
           rfile \notin blank /\ (Open => backupcount # rfile)
    BY DEF KInv, UnpackedKept
  <2>3. rfile \in DOMAIN gz /\ rfile \notin blank => Noted(rfile)
    BY <1>3 DEF Numbers
  <2> QED BY <2>1, <2>2, <2>3
<1>5. CASE WriterBegins
  <2>1. PICK k \in Files : k = backupcount' /\ CreateFile(k)
    BY <1>3, <1>5, NumbersOf DEF WriterBegins, WriterStart
  <2>2. /\ recreated' = recreated \cup ({k} \cap DOMAIN gz)
        /\ (rpc = "gz" /\ rfile = k) \/ rest' = rest
    BY <1>5, <2>1 DEF WriterBegins
  <2>3. rpc \in {"gz", "remove"} /\ rfile \notin recreated' => rfile # k
    BY <1>4, <2>2
  <2>4. rpc \in {"gz", "remove"} /\ rfile \notin recreated' =>
            rest' = rest /\ gz'[rfile] = gz[rfile] /\ backupcount' # rfile
    BY <1>4, <1>3, <2>1, <2>2, <2>3, CreatedFile
  <2>5. blank' = blank \cup {k}
    BY <1>3, <2>1, CreatedFile
  <2> QED BY <1>1, <1>2, <2>3, <2>4, <2>5, UnpackedUntouched
<1>6. CASE WriterRotates
  <2>1. PICK k \in Files : k = backupcount + 1 /\ k = backupcount'
                           /\ CreateFile(k)
    BY <1>3, <1>6, NumbersOf DEF WriterRotates
  <2>2. ~Noted(k)
    BY <1>3, <1>6, <2>1, NextIsNew DEF WriterRotates, Open
  <2>3. rest' = rest
    <3>1. ~WriterBegins
      BY <1>6 DEF WriterRotates, WriterBegins, WriterStart
    <3> QED BY <3>1, WritesLeave, EnvironmentLeaves
  <2>4. rpc \in {"gz", "remove"} /\ rfile \notin recreated' => rfile # k
    BY <1>1, <1>4, <2>2
  <2>5. rpc \in {"gz", "remove"} /\ rfile \notin recreated' =>
            rest' = rest /\ gz'[rfile] = gz[rfile] /\ backupcount' # rfile
    BY <1>4, <1>3, <2>1, <2>3, <2>4, CreatedFile
  <2>6. blank' = blank \cup {k}
    BY <1>3, <2>1, CreatedFile
  <2> QED BY <1>1, <1>2, <2>4, <2>5, <2>6, UnpackedUntouched
<1>7. CASE WriterFlushed \/ WriterDiesNow
  <2>1. /\ UNCHANGED backupcount /\ (Open' => Open)
        /\ \/ UNCHANGED <<gz, blank>>
           \/ Open /\ \E n \in 0..Len(bulkRequest) : Compressed(n)
    <3>1. 0..written \subseteq 0..Len(bulkRequest) /\ written \in 0..written
      BY <1>3, Lengths
    <3>2. CASE WriterFlushed
      BY <3>1, <3>2 DEF WriterFlushed, Open
    <3>3. CASE WriterDiesNow /\ UNCHANGED <<gz, blank>>
      BY <3>3 DEF WriterDiesNow, Open
    <3>4. CASE WriterDiesNow /\ written > 0 /\ \E n \in 0..written : Compressed(n)
      <4>1. wpc = "flush" \/ wpc = "select"
        BY <1>3, <3>4, Lengths DEF Typed, WriterTyped
      <4> QED BY <3>1, <3>4, <4>1 DEF WriterDiesNow, Open
    <3> QED BY <1>7, <3>2, <3>3, <3>4 DEF WriterDiesNow
  <2>2. rest' = rest
    <3>1. ~WriterBegins
      BY <1>7 DEF WriterFlushed, WriterDiesNow, WriterBegins, WriterStart
    <3> QED BY <3>1, WritesLeave, EnvironmentLeaves
  <2>3. rpc \in {"gz", "remove"} /\ rfile \notin recreated' =>
            /\ rest' = rest /\ gz'[rfile] = gz[rfile]
            /\ rfile \notin blank => rfile \notin blank'
            /\ Open' => backupcount' # rfile
    <3>1. Open /\ rpc \in {"gz", "remove"} /\ rfile \notin recreated' =>
              backupcount # rfile /\ rfile \in DOMAIN gz
      BY <1>1, <1>4
    <3> QED BY <1>3, <2>1, <2>2, <3>1, CompressedFile
  <2> QED BY <1>1, <1>2, <2>3, UnpackedUntouched
<1>8. CASE \/ WriterNamesFile \/ WriterReceive \/ WriterIdle \/ WriterWrites
           \/ WriterNamesNext \/ WriterNotesNumber \/ WriterRestarts
           \/ LineArrives \/ \E k \in Files : RemovesPlain(k)
  <2>1. UNCHANGED <<gz, blank, backupcount>> /\ (Open' => Open)
    BY <1>8 DEF WriterNamesFile, WriterReceive, WriterIdle, WriterWrites,
                WriterNamesNext, WriterNotesNumber, WriterRestarts,
                LineArrives, RemovesPlain, RemovePlain, spoolVars, Open
  <2>2. CASE rest' = rest
    BY <1>1, <1>2, <1>4, <2>1, <2>2, UnpackedUntouched
  <2>3. CASE WriterBegins
    BY <1>5, <2>3
  <2> QED BY <2>2, <2>3, WritesLeave, EnvironmentLeaves
<1> QED BY <1>5, <1>6, <1>7, <1>8 DEF Writes, Environment

(* ... and it is sent line by line.                                        *)
LEMMA StepUnpacked == KInv /\ [Next]_vars => UnpackedKept'
<1> SUFFICES ASSUME KInv, Reads, rpc' \in {"gz", "remove"} PROVE UnpackedKept'
  BY WriterUnpacked DEF Next, Reads, UnpackedKept
<1>1. [Next]_vars
  BY DEF Reads, Next
<1>2. Hand \subseteq Hand' /\ recreated' = recreated
  BY <1>1, HandStays, ReaderSpool DEF startVars
<1>3. UNCHANGED <<wpc, backupcount>>
  BY ReaderSpool DEF writerVars
<1>4. Typed /\ Named
  BY DEF KInv, CInv
<1>5. CASE ReaderUnpacks
  <2>1. /\ rpc = "decide" /\ rfile # current /\ rfile \notin blank
        /\ rest' = gz[rfile] /\ UNCHANGED <<rfile, gz, blank>>
    BY <1>5 DEF ReaderUnpacks, RestoreStep, spoolVars
  <2>2. rfile \in DOMAIN gz
    BY <1>4, <2>1 DEF Typed, FileThere
  <2>3. Open => backupcount # rfile
    BY <1>4, <2>1, <2>2 DEF Open, Named, Typed, WriterTyped, WriterTypeOK
  <2> QED BY <1>3, <2>1, <2>3 DEF UnpackedKept, Open
<1>6. CASE ReaderSends
  <2>1. /\ rpc = "gz" /\ rest # <<>> /\ rest' = Tail(rest)
        /\ parsedLines' = Append(parsedLines, Head(rest))
        /\ UNCHANGED <<rfile, gz, blank>>
    BY <1>6 DEF ReaderSends, RestoreStep, spoolVars
  <2>2. parsedLines \in Seq(LineNo) /\ rest \in Seq(LineNo)
    BY <1>4 DEF Typed, ReaderTyped
  <2>3. /\ Range(rest) = {Head(rest)} \cup Range(rest')
        /\ Head(rest) \in Range(parsedLines')
    BY <2>1, <2>2, HeadAndTail, AppendedRange
  <2>4. Range(rest) \subseteq Range(rest') \cup Hand'
    BY <2>3 DEF Hand
  <2>5. UnpackedKept
    BY DEF KInv
  <2> QED BY <1>2, <1>3, <2>1, <2>4, <2>5 DEF UnpackedKept, Open
<1>7. CASE UNCHANGED <<rest, rfile, gz, blank>> /\ rpc \in {"gz", "remove"}
  <2>1. UnpackedKept
    BY DEF KInv
  <2> QED BY <1>2, <1>3, <1>7, <2>1 DEF UnpackedKept, Open
<1>8. \/ ReaderUnpacks \/ ReaderSends
      \/ UNCHANGED <<rest, rfile, gz, blank>> /\ rpc \in {"gz", "remove"}
  <2>1. ~ReaderEnds
    BY DEF ReaderEnds
  <2>2. CASE Restores
    BY <2>1, <2>2
    DEF Restores, Restoring, ReaderStarts, ReaderLists, ReaderFindsNone,
        ReaderFollows, ReaderPanics, ReaderAtEOF, ReaderReceives,
        ReaderPushes, ReaderStops, ReaderJoins, ReaderRemoves, ReaderUnlinks,
        Wakes, ReaderWakes, RestoreStep, spoolVars
  <2>3. CASE Indexes
    BY <2>1, <2>3
    DEF Indexes, Indexing, PrimaryConnects, PrimaryIsFatal, PrimaryAdds,
        PrimaryWaits, PrimaryPings, PrimaryIdles, PrimaryFlushes,
        PrimaryFails, PrimaryStep, restoreVars, spoolVars
  <2>4. CASE Tails \/ Disturbs \/ UNCHANGED vars
    BY <2>1, <2>4 DEF Tails, Disturbs, ReaderKilled, EsToggles, readerVars,
                      restoreVars, spoolVars, vars
  <2> QED BY <2>2, <2>3, <2>4 DEF Reads
<1> QED BY <1>5, <1>6, <1>7, <1>8

-----------------------------------------------------------------------------
(* A file in which lines stay does not get shorter.                        *)
LEMMA StaysLong ==
    ASSUME KInv, [Next]_vars, NEW k \in Files, Stays(k)
    PROVE  /\ Len(plain[k]) \in Nat /\ Len(plain'[k]) \in Nat
           /\ Len(plain[k]) <= Len(plain'[k])
           /\ \A n \in 1..Len(plain[k]) : plain'[k][n] = plain[k][n]
<1>1. Len(plain[k]) \in Nat /\ Len(plain'[k]) \in Nat
  BY StepTyped, Lengths DEF KInv, CInv, Typed, PlainTyped
<1>2. Len(plain[k]) # 0 => Len(plain[k]) \in 1..Len(plain[k])
  BY <1>1
<1>3. Len(plain[k]) # 0 => Len(plain[k]) \in 1..Len(plain'[k])
  BY <1>2 DEF Stays
<1> QED BY <1>1, <1>3 DEF Stays

(* A step that leaves the reader and its tail alone.                       *)
LEMMA FollowedUntouched ==
    ASSUME KInv, [Next]_vars, rpc # "down" => Hand \subseteq Hand',
           UNCHANGED <<rpc, rfile, rline, count, tpc, tpos, tline>>,
           (rpc \in {"tail", "push", "stop", "join", "unlink"}
            /\ rfile \notin recreated') =>
              Stays(rfile) /\ (~truncated => ~truncated')
    PROVE  FollowedKept'
<1>1. FollowedKept /\ Typed
  BY DEF KInv, CInv
<1>2. recreated \subseteq recreated'
  BY RecreatedStay
<1>3. count \in Nat /\ tpos \in Nat /\ rfile \in Files
  BY <1>1, Lengths, NumbersOf
<1>4. FileLines \in Nat
  BY Constants
<1>5. Ahead' = Ahead /\ Ahead \in {0, 1, 2}
  BY DEF Ahead
<1>6. (rpc \notin {"tail", "push"} => count = 0)'
  BY <1>1 DEF FollowedKept
<1>7. ASSUME rpc \in {"tail", "push"}, rfile \notin recreated'
      PROVE  /\ ~truncated'
             /\ tpos' = count' + Ahead' /\ tpos' <= Len(plain'[rfile'])
             /\ tpc' = "send" => tline' = plain'[rfile'][tpos']
             /\ rpc' = "push" => rline' = plain'[rfile'][count' + 1]
             /\ \A n \in 1..count' : plain'[rfile'][n] \in Hand'
  <2>1. rfile \notin recreated
    BY <1>2, <1>7
  <2>2. /\ ~truncated
        /\ tpos = count + Ahead /\ tpos <= Len(plain[rfile])
        /\ tpc = "send" => tline = plain[rfile][tpos]
        /\ rpc = "push" => rline = plain[rfile][count + 1]
        /\ \A n \in 1..count : plain[rfile][n] \in Hand
    BY <1>1, <1>7, <2>1 DEF FollowedKept
  <2>3. Stays(rfile) /\ ~truncated'
    BY <1>7, <2>2
  <2>4. /\ Len(plain[rfile]) \in Nat /\ Len(plain'[rfile]) \in Nat
        /\ Len(plain[rfile]) <= Len(plain'[rfile])
        /\ \A n \in 1..Len(plain[rfile]) : plain'[rfile][n] = plain[rfile][n]
    BY <1>3, <2>3, StaysLong
  <2>5. tpos <= Len(plain'[rfile]) /\ 1..count \subseteq 1..Len(plain[rfile])
    BY <1>3, <1>5, <2>2, <2>4
  <2>6. /\ tpc = "send" => tpos \in 1..Len(plain[rfile])
        /\ rpc = "push" => count + 1 \in 1..Len(plain[rfile])
    BY <1>3, <2>2, <2>4 DEF Ahead
  <2>7. \A n \in 1..count : plain'[rfile][n] \in Hand'
    BY <1>7, <2>2, <2>4, <2>5
  <2> QED BY <1>5, <2>2, <2>3, <2>4, <2>5, <2>6, <2>7
<1>8. ASSUME rpc \in {"stop", "join", "unlink"}, rfile \notin recreated'
      PROVE  /\ Len(plain'[rfile']) >= FileLines
             /\ \A n \in 1..FileLines : plain'[rfile'][n] \in Hand'
  <2>1. rfile \notin recreated
    BY <1>2, <1>8
  <2>2. /\ Len(plain[rfile]) >= FileLines
        /\ \A n \in 1..FileLines : plain[rfile][n] \in Hand
    BY <1>1, <1>8, <2>1 DEF FollowedKept
  <2>3. Stays(rfile)
    BY <1>8
  <2>4. /\ Len(plain[rfile]) \in Nat /\ Len(plain'[rfile]) \in Nat
        /\ Len(plain[rfile]) <= Len(plain'[rfile])
        /\ \A n \in 1..Len(plain[rfile]) : plain'[rfile][n] = plain[rfile][n]
    BY <1>3, <2>3, StaysLong
  <2>5. /\ Len(plain'[rfile]) >= FileLines
        /\ 1..FileLines \subseteq 1..Len(plain[rfile])
    BY <1>4, <2>2, <2>4
  <2> QED BY <1>8, <2>2, <2>4, <2>5
<1> QED BY <1>6, <1>7, <1>8 DEF FollowedKept

(* ulog2file does not touch what is followed, if it does not begin with it.*)
LEMMA WriterFollowed ==
    ASSUME KInv, WriterBegins \/ Writes \/ Environment
    PROVE  FollowedKept'
<1>1. /\ UNCHANGED <<rpc, rfile, rline, count, tpc, tfile, tpos, tline>>
      /\ ~WriterBegins => UNCHANGED truncated
  BY WritesLeave, EnvironmentLeaves DEF WriterBegins
<1>2. [Next]_vars /\ (rpc # "down" => Hand \subseteq Hand')
  BY <1>1, HandStays DEF Next
<1>3. /\ Typed /\ rfile \in Files /\ (Following => tfile = rfile)
      /\ rpc # "down" /\ rpc # "list" /\ rpc # "sleep" => rfile \in DOMAIN gz
  BY NumbersOf DEF KInv, CInv, TailHere, Typed, FileThere
<1>4. ASSUME rpc \in {"tail", "push", "stop", "join", "unlink"},
             rfile \notin recreated', WriterBegins
      PROVE  rfile # backupcount'
  BY <1>3, <1>4 DEF WriterBegins
<1>5. ASSUME rpc \in {"tail", "push", "stop", "join", "unlink"},
             rfile \notin recreated'
      PROVE  Stays(rfile)
  BY <1>2, <1>3, <1>4, <1>5, PlainStays
<1>6. ASSUME rpc \in {"tail", "push", "stop", "join", "unlink"},
             rfile \notin recreated', ~truncated
      PROVE  ~truncated'
  <2>1. CASE WriterBegins
    <3>1. tpc # "off" => tfile # backupcount'
      BY <1>3, <1>4, <1>6, <2>1 DEF KInv, TailHere
    <3> QED BY <1>6, <2>1, <3>1 DEF WriterBegins
  <2> QED BY <1>1, <1>6, <2>1
<1>7. (rpc \in {"tail", "push", "stop", "join", "unlink"}
       /\ rfile \notin recreated') =>
         Stays(rfile) /\ (~truncated => ~truncated')
  BY <1>5, <1>6
<1> QED BY <1>1, <1>2, <1>7, FollowedUntouched

(* The tail offers the next line.                                          *)
LEMMA TailsFollowed ==
    ASSUME KInv, Tails
    PROVE  FollowedKept'
<1>1. /\ UNCHANGED <<rpc, rfile, rline, count, parsedLines, actions, esDocs>>
      /\ UNCHANGED <<plain, dropped, recreated>>
      /\ tpc # "off"
  BY DEF Tails, Tailing, TailOpens, TailReads, TailStops, TailGoesOn,
         TailModified, TailTruncated, spoolVars, readerVars, restoreVars,
         primaryVars, startVars
<1>2. Typed /\ FollowedKept /\ Following /\ tfile = rfile /\ Hand' = Hand
  BY <1>1 DEF KInv, CInv, TailHere, Hand
<1>3. count \in Nat /\ tpos \in Nat /\ rfile \in Files
  BY <1>2, Lengths, NumbersOf
<1>4. CASE TailReads /\ tpos < Len(plain[tfile])
  <2>1. /\ tpc = "read" /\ tpc' = "send" /\ tpos' = tpos + 1
        /\ tline' = plain[rfile][tpos'] /\ UNCHANGED truncated
    BY <1>2, <1>4 DEF TailReads
  <2>2. Ahead' = Ahead + 1 /\ Ahead \in {0, 1}
    BY <1>1, <2>1 DEF Ahead
  <2>3. Len(plain[rfile]) \in Nat
    BY <1>2, <1>3, Lengths
  <2>4. tpos' <= Len(plain[rfile])
    BY <1>2, <1>3, <1>4, <2>1, <2>3
  <2>5. tpos = count + Ahead => tpos' = count + Ahead'
    BY <1>3, <2>1, <2>2
  <2> QED BY <1>1, <1>2, <2>1, <2>4, <2>5 DEF FollowedKept
<1>5. CASE /\ UNCHANGED <<tpos, tline>> /\ tpc # "send" /\ tpc' # "send"
           /\ ~truncated'
  <2>1. Ahead' = Ahead
    BY <1>1, <1>5 DEF Ahead
  <2> QED BY <1>1, <1>2, <1>5, <2>1 DEF FollowedKept
<1>6. CASE TailTruncated
  <2>1. rpc \in {"tail", "push"} => rfile \in recreated
    BY <1>2, <1>6 DEF TailTruncated, FollowedKept
  <2> QED BY <1>1, <1>2, <2>1 DEF FollowedKept
<1>7. CASE rpc \notin {"tail", "push"} \/ truncated
  BY <1>1, <1>2, <1>7 DEF FollowedKept
<1>8. \/ TailReads /\ tpos < Len(plain[tfile])
      \/ UNCHANGED <<tpos, tline>> /\ tpc # "send" /\ tpc' # "send"
         /\ (truncated \/ ~truncated')
      \/ TailTruncated
  BY DEF Tails, Tailing, TailOpens, TailReads, TailStops, TailGoesOn,
         TailModified, TailTruncated
<1> QED BY <1>4, <1>5, <1>6, <1>7, <1>8

(* The line the tail offers, the line the reader has, and the line it has  *)
(* handed on are next to each other.                                       *)
LEMMA PushesFollowed ==
    ASSUME KInv, ReaderPushes, dropped' = dropped, recreated' = recreated
    PROVE  FollowedKept'
<1>1. /\ rpc = "push" /\ parsedLines' = Append(parsedLines, rline)
      /\ UNCHANGED <<rfile, plain, actions, esDocs, tpc, tpos, tline, truncated>>
      /\ \/ count + 1 = FileLines /\ rpc' = "stop" /\ count' = 0
         \/ rpc' = "tail" /\ count' = count + 1
  BY DEF ReaderPushes, RestoreStep, spoolVars, primaryVars, tailVars
<1>2. Typed /\ FollowedKept
  BY DEF KInv, CInv
<1>3. /\ count \in Nat /\ tpos \in Nat /\ rfile \in Files
      /\ Len(plain[rfile]) \in Nat /\ FileLines \in Nat
      /\ parsedLines \in Seq(LineNo) /\ rline \in LineNo
  BY <1>1, <1>2, Lengths, NumbersOf, Constants DEF Typed, ReaderTyped
<1>4. Hand \subseteq Hand' /\ rline \in Hand'
  BY <1>1, <1>3, AppendedRange DEF Hand
<1>5. CASE rfile \in recreated
  BY <1>1, <1>5 DEF FollowedKept
<1>6. CASE rfile \notin recreated
  <2>1. /\ ~truncated
        /\ tpos = count + Ahead /\ tpos <= Len(plain[rfile])
        /\ tpc = "send" => tline = plain[rfile][tpos]
        /\ rline = plain[rfile][count + 1]
        /\ \A n \in 1..count : plain[rfile][n] \in Hand
    BY <1>1, <1>2, <1>6 DEF FollowedKept
  <2>2. \A n \in 1..(count + 1) : plain[rfile][n] \in Hand'
    <3> SUFFICES ASSUME NEW n \in 1..(count + 1)
                 PROVE  plain[rfile][n] \in Hand'
      OBVIOUS
    <3>1. n \in 1..count \/ n = count + 1
      BY <1>3
    <3> QED BY <1>4, <2>1, <3>1
  <2>3. Ahead \in {1, 2} /\ (rpc' = "tail" => Ahead' = Ahead - 1)
    BY <1>1 DEF Ahead
  <2>4. CASE count + 1 = FileLines /\ rpc' = "stop" /\ count' = 0
    <3>1. Len(plain[rfile]) >= FileLines
      BY <1>3, <2>1, <2>3, <2>4
    <3> QED BY <1>1, <2>2, <2>4, <3>1 DEF FollowedKept
  <2>5. CASE rpc' = "tail" /\ count' = count + 1
    <3>1. tpos = count' + Ahead'
      BY <1>3, <2>1, <2>3, <2>5
    <3> QED BY <1>1, <2>1, <2>2, <2>5, <3>1 DEF FollowedKept
  <2> QED BY <1>1, <2>4, <2>5
<1> QED BY <1>5, <1>6

(* The other steps of the restore task.                                    *)
LEMMA RestoresFollowed ==
    ASSUME KInv, Restores
    PROVE  FollowedKept'
<1>1. dropped' = dropped /\ recreated' = recreated
  BY DEF Restores, startVars
<1>2. /\ Typed /\ FollowedKept /\ (Following => tfile = rfile)
      /\ count \in Nat /\ tpos \in Nat /\ rfile \in Files
      /\ Len(plain[rfile]) \in Nat
  BY Lengths, NumbersOf DEF KInv, CInv, TailHere
<1>3. CASE ReaderEnds
  BY <1>3 DEF ReaderEnds, FollowedKept
<1>4. CASE ReaderPushes
  BY <1>1, <1>4, PushesFollowed
<1>5. CASE ReaderFollows
  <2>1. /\ rpc = "decide" /\ rpc' = "tail" /\ tpc' = "open" /\ tpos' = 0
        /\ truncated' = FALSE /\ UNCHANGED <<rfile, count, plain>>
    BY <1>5 DEF ReaderFollows, TailStarts, RestoreStep, spoolVars
  <2>2. count' = 0 /\ Ahead' = 0
    BY <1>2, <2>1 DEF FollowedKept, Ahead
  <2>3. 1..0 = {} /\ 0 = 0 + 0 /\ 0 <= Len(plain[rfile])
    BY <1>2
  <2> QED BY <2>1, <2>2, <2>3 DEF FollowedKept
<1>6. CASE ReaderReceives
  <2>1. /\ rpc = "tail" /\ rpc' = "push" /\ tpc = "send" /\ tpc' = "check"
        /\ rline' = tline
        /\ UNCHANGED <<rfile, count, plain, tpos, truncated, parsedLines,
                       actions, esDocs>>
    BY <1>6 DEF ReaderReceives, TailHandsOver, RestoreStep, spoolVars,
                primaryVars
  <2>2. Hand' = Hand /\ Ahead = 1 /\ Ahead' = 1
    BY <1>1, <2>1 DEF Hand, Ahead
  <2> QED BY <1>1, <1>2, <2>1, <2>2 DEF FollowedKept
<1>7. CASE ReaderStops \/ ReaderJoins
  <2>1. /\ rpc \in {"stop", "join"} /\ rpc' \in {"join", "unlink"}
        /\ UNCHANGED <<rfile, count, plain, parsedLines, actions, esDocs>>
    BY <1>7 DEF ReaderStops, ReaderJoins, RestoreStep, spoolVars, primaryVars
  <2>2. Hand' = Hand
    BY <1>1, <2>1 DEF Hand
  <2> QED BY <1>1, <1>2, <2>1, <2>2 DEF FollowedKept
<1>8. CASE \/ ReaderStarts \/ ReaderLists \/ ReaderUnpacks \/ ReaderSends
           \/ ReaderAtEOF \/ ReaderRemoves \/ ReaderUnlinks \/ Wakes
  <2>1. /\ rpc \notin {"tail", "push"} /\ UNCHANGED count
        /\ rpc' \notin {"tail", "push", "stop", "join", "unlink"}
    BY <1>8 DEF ReaderStarts, ReaderLists, ReaderUnpacks, ReaderSends,
                ReaderAtEOF, ReaderRemoves, ReaderUnlinks, Removed, Wakes,
                ReaderWakes
  <2> QED BY <1>2, <2>1 DEF FollowedKept
<1> QED BY <1>3, <1>4, <1>5, <1>6, <1>7, <1>8
        DEF Restores, Restoring, ReaderFindsNone, ReaderPanics

LEMMA StepFollowed == KInv /\ [Next]_vars => FollowedKept'
<1> SUFFICES ASSUME KInv, [Next]_vars PROVE FollowedKept'
  OBVIOUS
<1>1. CASE ReaderEnds
  BY <1>1 DEF ReaderEnds, FollowedKept
<1>2. CASE /\ Indexes \/ Disturbs \/ UNCHANGED vars
           /\ UNCHANGED <<restoreVars, tailVars, spoolVars>>
  <2>1. UNCHANGED <<rpc, rfile, rline, count, tpc, tpos, tline, truncated>>
    BY <1>2 DEF restoreVars, tailVars
  <2>2. rpc # "down" => Hand \subseteq Hand'
    BY <2>1, HandStays
  <2>3. (rpc \in {"tail", "push", "stop", "join", "unlink"}
         /\ rfile \notin recreated') =>
           Stays(rfile) /\ (~truncated => ~truncated')
    BY <1>2, <2>1 DEF spoolVars, Stays
  <2> QED BY <2>1, <2>2, <2>3, FollowedUntouched
<1>3. CASE Indexes
  BY <1>1, <1>2, <1>3
  DEF Indexes, Indexing, PrimaryConnects, PrimaryIsFatal, PrimaryAdds,
      PrimaryWaits, PrimaryPings, PrimaryIdles, PrimaryFlushes, PrimaryFails,
      PrimaryStep
<1>4. CASE Disturbs \/ UNCHANGED vars
  BY <1>1, <1>2, <1>4 DEF Disturbs, ReaderKilled, EsToggles, vars, readerVars
<1> QED BY <1>3, <1>4, WriterFollowed, TailsFollowed, RestoresFollowed
        DEF Next

-----------------------------------------------------------------------------
(* What the writer does to the directory between two files.                *)
LEMMA SameFile ==
    ASSUME KInv, Writes \/ Environment, ~WriterRotates
    PROVE  /\ UNCHANGED backupcount /\ (Open' => Open)
           /\ DOMAIN gz' = DOMAIN gz
<1>1. Typed
  BY DEF KInv, CInv
<1>2. CASE WriterFlushed \/ WriterDiesNow
  <2>1. /\ UNCHANGED backupcount /\ (Open' => Open)
        /\ UNCHANGED gz \/ \E n \in 0..Len(bulkRequest) : Compressed(n)
    <3>1. 0..written \subseteq 0..Len(bulkRequest) /\ written \in 0..written
      BY <1>1, Lengths
    <3> QED BY <1>2, <3>1 DEF WriterFlushed, WriterDiesNow, Open
  <2> QED BY <1>1, <2>1, CompressedFile
<1>3. CASE \/ WriterNamesFile \/ WriterReceive \/ WriterIdle \/ WriterWrites
           \/ WriterNamesNext \/ WriterNotesNumber \/ WriterRestarts
           \/ LineArrives \/ \E k \in Files : RemovesPlain(k)
  BY <1>3 DEF WriterNamesFile, WriterReceive, WriterIdle, WriterWrites,
              WriterNamesNext, WriterNotesNumber, WriterRestarts,
              LineArrives, RemovesPlain, RemovePlain, spoolVars, Open
<1> QED BY <1>2, <1>3 DEF Writes, Environment

LEMMA StepRemovedFull == KInv /\ [Next]_vars => RemovedFull'
<1> SUFFICES ASSUME KInv, [Next]_vars, Open', backupcount' \notin DOMAIN gz',
                    backupcount' \notin recreated'
             PROVE  Len(plain'[backupcount']) >= FileLines
  BY DEF RemovedFull
<1>1. Typed /\ RemovedFull /\ recreated \subseteq recreated'
  BY RecreatedStay DEF KInv, CInv
<1>2. ~WriterBegins /\ ~WriterRotates
  BY DEF WriterBegins, WriterStart, WriterRotates, CreateFile
<1>3. UNCHANGED backupcount /\ Open /\ backupcount \in Files
  <2>1. CASE Writes \/ Environment
    BY <1>1, <1>2, <2>1, SameFile, NumbersOf
  <2>2. CASE Reads
    BY <1>1, <2>2, ReaderSpool, NumbersOf DEF writerVars, Open
  <2> QED BY <1>2, <2>1, <2>2 DEF Next, Reads
<1>4. Stays(backupcount)
  BY <1>2, <1>3, PlainStays
<1>5. /\ Len(plain[backupcount]) \in Nat /\ Len(plain'[backupcount]) \in Nat
      /\ Len(plain[backupcount]) <= Len(plain'[backupcount])
      /\ FileLines \in Nat
  BY <1>3, <1>4, StaysLong, Constants
<1>6. Len(plain[backupcount]) >= FileLines
  <2>1. CASE backupcount \notin DOMAIN gz
    BY <1>1, <1>3, <2>1 DEF RemovedFull
  <2>2. CASE backupcount \in DOMAIN gz
    <3>1. Reads
      BY <1>2, <1>3, <2>2, SameFile DEF Next, Reads
    <3>2. rpc \in {"remove", "unlink"} /\ Removed(rfile)
      BY <1>3, <2>2, <3>1, ReaderSpool
    <3>3. rfile = backupcount /\ rfile \notin recreated
      BY <1>1, <1>3, <2>2, <3>2, RemovedFile
    <3>4. rpc # "remove"
      BY <1>3, <3>3 DEF KInv, UnpackedKept
    <3> QED BY <3>2, <3>3, <3>4 DEF KInv, FollowedKept
  <2> QED BY <2>1, <2>2
<1> QED BY <1>3, <1>5, <1>6

-----------------------------------------------------------------------------
(* Nothing has been written yet.                                           *)
LEMMA InitKept == Init => KInv
<1> SUFFICES ASSUME Init PROVE KInv
  OBVIOUS
<1>1. /\ wpc = "start" /\ backupLines = <<>> /\ bulkRequest = <<>>
      /\ written = 0 /\ gz = <<>> /\ status = 0 /\ blank = {}
      /\ plain = [k \in Files |-> <<>>]
      /\ rpc = "down" /\ rest = <<>> /\ count = 0
      /\ begun = {} /\ recreated = {}
  BY DEF Init, WriterInit, SpoolInit, ReaderInit
<1>2. Len(<<>>) = 0 /\ 1..0 = {} /\ DOMAIN <<>> = {}
  OBVIOUS
<1>3. CInv /\ TailHere /\ Begun
  BY <1>1, InitCounted, InitUndisturbed DEF Begun
<1>4. Numbers /\ Named /\ GzInPlain
  BY <1>1, <1>2 DEF Numbers, Named, GzInPlain, Open
<1>5. WriterFills
  <2>1. 0 <= FileLines + 1
    BY Constants
  <2> QED BY <1>1, <1>2, <2>1 DEF WriterFills
<1>6. UnpackedKept /\ FollowedKept /\ RemovedFull
  BY <1>1 DEF UnpackedKept, FollowedKept, RemovedFull, Open
<1> QED BY <1>3, <1>4, <1>5, <1>6 DEF KInv

LEMMA StepKept == KInv /\ [Next]_vars => KInv'
<1> SUFFICES ASSUME KInv, [Next]_vars PROVE KInv'
  OBVIOUS
<1>1. CInv' /\ TailHere' /\ Begun'
  BY StepCounted, StepTailHere, StepBegun DEF KInv, CInv
<1>2. WriterFills'
  BY StepFills, StepShort DEF FillsAgree, PlainShort, WriterFills
<1> QED BY <1>1, <1>2, StepNumbers, StepNamed, StepGzInPlain, StepUnpacked,
           StepFollowed, StepRemovedFull DEF KInv

-----------------------------------------------------------------------------
(* The ways in which a line may vanish.                                    *)
Known(l) ==
    \/ wpc' = "down" /\ l \in InWriter
    \/ rpc' = "down" /\ l \in InReader
    \/ l \in dropped'
    \/ /\ wpc = "start" /\ wpc' = "created" /\ backupcount' \in begun
       /\ l \in Overwritten(backupcount')
    \/ /\ rpc = "remove" /\ rpc' = "list"
       /\ rfile \in recreated
    \/ /\ rpc = "unlink" /\ rpc' = "sleep"
       /\ rfile \in recreated \/ Overrun(rfile, l)
    \/ /\ wpc = "select" /\ backupcount \notin DOMAIN gz
       /\ backupcount \in recreated \/ Overrun(backupcount, l)'

(* ulog2file begins: the lines of its first file, if a process has begun   *)
(* with it before.                                                         *)
LEMMA BeginsLoses ==
    ASSUME KInv, WriterBegins, NEW l \in Safe, l \notin Safe'
    PROVE  Known(l)
<1>1. Typed /\ Numbers /\ GzInPlain
  BY DEF KInv, CInv
<1>2. PICK k \in Files : k = backupcount' /\ k = status + 1 /\ CreateFile(k)
  BY <1>1, NumbersOf DEF WriterBegins, WriterStart
<1>3. /\ wpc = "start" /\ wpc' = "created"
      /\ UNCHANGED <<backupLines, parsedLines, actions, rline, tpc, tline,
                     esDocs>>
  BY DEF WriterBegins, WriterStart, primaryVars
<1>4. bulkRequest = <<>>
  BY <1>1, <1>3 DEF Typed, WriterTyped
<1>5. l \notin Range(rest') /\ l \notin Spooled'
  BY DEF Safe, InReader
<1>6. l \in Spooled \/ l \in Range(rest)
  BY <1>3, <1>4, NothingInIt DEF Safe, InWriter, InReader
<1>7. ASSUME Noted(k) PROVE k \in begun
  BY <1>1, <1>2, <1>7, NumbersOf DEF Noted
<1>8. CASE l \in Spooled
  <2>1. PICK m \in DOMAIN gz : l \in Range(gz[m])
    BY <1>8 DEF Spooled
  <2>2. m = k
    <3>1. m # k => gz'[m] = gz[m] /\ m \in DOMAIN gz'
      BY <1>1, <1>2, CreatedFile
    <3> QED BY <1>5, <2>1, <3>1 DEF Spooled
  <2>3. plain[k] # <<>>
    BY <1>1, <2>1, <2>2, NothingInIt DEF GzInPlain
  <2>4. k \in begun
    BY <1>1, <1>7, <2>3 DEF Numbers
  <2>5. l \in Overwritten(k)
    BY <2>1, <2>2 DEF Overwritten
  <2> QED BY <1>2, <1>3, <2>4, <2>5 DEF Known
<1>9. CASE l \in Range(rest)
  <2>1. rfile = k
    BY <1>2, <1>5, <1>9 DEF WriterBegins
  <2>2. rest # <<>>
    BY <1>9, NothingInIt
  <2>3. k \in begun
    BY <1>1, <1>7, <2>1, <2>2 DEF Numbers
  <2>4. l \in Overwritten(k)
    BY <1>9, <2>1 DEF Overwritten
  <2> QED BY <1>2, <1>3, <2>3, <2>4 DEF Known
<1> QED BY <1>6, <1>8, <1>9

(* What the other steps of ulog2file leave alone.                          *)
LEMMA WriterKeepsTheirs ==
    ASSUME Writes \/ Environment
    PROVE  /\ UNCHANGED <<InReader, esDocs, dropped>>
           /\ ~WriterBegins
<1>1. UNCHANGED <<InReader, esDocs, dropped>>
  BY WritesLeave, EnvironmentLeaves DEF InReader
<1>2. Writes => ~WriterBegins
  BY DEF Writes, WriterNamesFile, WriterReceive, WriterIdle, WriterWrites,
         WriterFlushed, WriterRotates, WriterNamesNext, WriterNotesNumber,
         WriterRestarts, RemovesPlain, RemovePlain, WriterBegins, WriterStart
<1>3. Environment => ~WriterBegins
  BY DEF Environment, LineArrives, WriterDiesNow, WriterBegins, WriterStart
<1> QED BY <1>1, <1>2, <1>3

(* The lines of a file and those that follow.                              *)
LEMMA JoinedLines ==
    ASSUME NEW p \in Seq(LineNo), NEW q \in Seq(LineNo)
    PROVE  /\ Len(p \o q) = Len(p) + Len(q)
           /\ \A n \in 1..Len(p) : (p \o q)[n] = p[n]
           /\ \A n \in 1..Len(q) : (p \o q)[Len(p) + n] = q[n]
<1>1. /\ Len(p \o q) = Len(p) + Len(q)
      /\ \A n \in 1..(Len(p) + Len(q)) :
            (p \o q)[n] = IF n <= Len(p) THEN p[n] ELSE q[n - Len(p)]
  BY ConcatProperties
<1>2. Len(p) \in Nat /\ Len(q) \in Nat
  OBVIOUS
<1>3. \A n \in 1..Len(p) : n \in 1..(Len(p) + Len(q)) /\ n <= Len(p)
  BY <1>2
<1>4. \A n \in 1..Len(q) :
          /\ Len(p) + n \in 1..(Len(p) + Len(q)) /\ ~(Len(p) + n <= Len(p))
          /\ (Len(p) + n) - Len(p) = n
  BY <1>2
<1> QED BY <1>1, <1>3, <1>4

(* A line is put into the bulk: if its file is gone, it is one too many.   *)
LEMMA ReceivesLoses ==
    ASSUME KInv, WriterReceive, UNCHANGED <<InReader, esDocs>>,
           NEW l \in Safe, l \notin Safe'
    PROVE  Known(l)
<1>1. /\ wpc = "select" /\ Open /\ Lag = 0
      /\ backupLines # <<>> /\ backupLines' = Tail(backupLines)
      /\ bulkRequest' = Append(bulkRequest, Head(backupLines))
      /\ UNCHANGED <<gz, plain, backupcount, written>>
  BY DEF WriterReceive, spoolVars, Open, Lag
<1>2. /\ Typed /\ backupcount \in Files /\ Has \in Nat
      /\ Has <= FileLines
  <2>1. Has <= FileLines + Lag /\ Has \in Nat /\ backupcount \in Files
    BY <1>1, HasAtMost
  <2>2. FileLines \in Nat
    BY Constants
  <2> QED BY <1>1, <2>1, <2>2 DEF KInv, CInv
<1>3. /\ backupLines \in Seq(LineNo) /\ bulkRequest \in Seq(LineNo)
      /\ Len(bulkRequest) \in Nat /\ written \in 0..Len(bulkRequest)
      /\ plain[backupcount] \in Seq(LineNo)
      /\ Len(plain[backupcount]) \in Nat
      /\ FileLines \in Nat
  BY <1>2, Lengths, Constants DEF Typed, WriterTyped, PlainTyped
<1>4. /\ Head(backupLines) \in LineNo
      /\ Range(backupLines) = {Head(backupLines)} \cup Range(backupLines')
      /\ Range(bulkRequest') = Range(bulkRequest) \cup {Head(backupLines)}
  BY <1>1, <1>3, HeadAndTail, AppendedRange
<1>5. l = Head(backupLines) /\ backupcount \notin DOMAIN gz
  BY <1>1, <1>4 DEF Safe, InWriter, Spooled
<1>6. CASE backupcount \in recreated
  BY <1>1, <1>5, <1>6 DEF Known
<1>7. CASE backupcount \notin recreated
  <2>1. Len(plain[backupcount]) >= FileLines
    BY <1>1, <1>5, <1>7 DEF KInv, RemovedFull
  <2>2. Len(plain[backupcount]) = FileLines /\ written = Len(bulkRequest)
    BY <1>2, <1>3, <2>1 DEF Has
  <2> DEFINE p == plain[backupcount]
             q == SubSeq(bulkRequest', written' + 1, Len(bulkRequest'))
  <2>3. q \in Seq(LineNo) /\ Len(q) = 1 /\ q[1] = l
    <3>1. /\ bulkRequest' \in Seq(LineNo)
          /\ Len(bulkRequest') = Len(bulkRequest) + 1
          /\ bulkRequest'[Len(bulkRequest) + 1] = l
      BY <1>1, <1>3, <1>4, <1>5
    <3>2. written' + 1 = Len(bulkRequest) + 1
      BY <1>1, <2>2
    <3> QED BY <1>3, <3>1, <3>2
  <2>4. Len(p) = FileLines /\ p \in Seq(LineNo)
    BY <1>3, <2>2
  <2> HIDE DEF p, q
  <2>5. Len(p \o q) = FileLines + 1 /\ (p \o q)[FileLines + 1] = l
    <3>1. 1 \in 1..Len(q)
      BY <2>3
    <3>2. /\ Len(p \o q) = Len(p) + Len(q)
          /\ (p \o q)[Len(p) + 1] = q[1]
      BY <2>3, <2>4, <3>1, JoinedLines
    <3> QED BY <2>3, <2>4, <3>2
  <2>6. Len(p \o q) > FileLines
    BY <1>3, <2>5
  <2>7. plain'[backupcount'] = p
    BY <1>1 DEF p
  <2>8. Overrun(backupcount, l)'
    BY <2>5, <2>6, <2>7 DEF Overrun, q
  <2> QED BY <1>1, <1>5, <2>8 DEF Known
<1> QED BY <1>6, <1>7

(* The rest of ulog2file: only its end loses lines.                        *)
LEMMA WriterLoses ==
    ASSUME KInv, Writes \/ Environment, NEW l \in Safe, l \notin Safe'
    PROVE  Known(l)
<1>1. /\ UNCHANGED <<InReader, esDocs>>
      /\ Typed /\ Numbers /\ GzInPlain
  BY WriterKeepsTheirs DEF KInv, CInv
<1>2. CASE WriterReceive
  BY <1>1, <1>2, ReceivesLoses
<1>3. CASE WriterRotates
  <2>1. PICK k \in Files : k = backupcount + 1 /\ CreateFile(k)
    BY <1>1, <1>3, NumbersOf DEF WriterRotates
  <2>2. ~Noted(k)
    BY <1>1, <1>3, <2>1, NextIsNew DEF WriterRotates, Open
  <2>3. k \in DOMAIN gz => Range(gz[k]) = {}
    BY <1>1, <2>1, <2>2, NothingInIt DEF Numbers, GzInPlain
  <2>4. UNCHANGED backupLines /\ bulkRequest = <<>>
    BY <1>1, <1>3 DEF WriterRotates, Typed, WriterTyped
  <2>5. Spooled \subseteq Spooled'
    <3> SUFFICES ASSUME NEW m \in DOMAIN gz, m # k
                 PROVE  m \in DOMAIN gz' /\ gz'[m] = gz[m]
      BY <2>3 DEF Spooled
    <3> QED BY <1>1, <2>1, CreatedFile
  <2> QED BY <1>1, <2>4, <2>5, NothingInIt DEF Safe, InWriter
<1>4. CASE WriterFlushed
  <2>1. Compressed(written) /\ UNCHANGED backupLines /\ written = Len(bulkRequest)
    BY <1>4 DEF WriterFlushed
  <2>2. written \in 0..Len(bulkRequest) /\ bulkRequest \in Seq(LineNo)
    BY <1>1, Lengths DEF Typed, WriterTyped
  <2>3. Range(bulkRequest) = {bulkRequest[m] : m \in 1..written}
    BY <2>1, <2>2, RangeEquality
  <2>4. Spooled \subseteq Spooled'
    <3> SUFFICES ASSUME NEW m \in DOMAIN gz
                 PROVE  m \in DOMAIN gz' /\ Range(gz[m]) \subseteq Range(gz'[m])
      BY DEF Spooled
    <3> QED BY <1>1, <2>1, <2>2, CompressedFile
  <2>5. backupcount \in DOMAIN gz => Range(bulkRequest) \subseteq Spooled'
    <3>1. backupcount \in DOMAIN gz =>
             /\ backupcount \in DOMAIN gz'
             /\ Range(bulkRequest) \subseteq Range(gz'[backupcount])
      BY <1>1, <2>1, <2>2, <2>3, CompressedFile
    <3> QED BY <3>1 DEF Spooled
  <2> QED BY <1>1, <2>1, <2>4, <2>5 DEF Safe, InWriter
<1>5. CASE WriterDiesNow
  <2>1. wpc' = "down" /\ \/ UNCHANGED gz
                         \/ \E n \in 0..Len(bulkRequest) : Compressed(n)
    <3>1. 0..written \subseteq 0..Len(bulkRequest)
      BY <1>1, Lengths
    <3> QED BY <1>5, <3>1 DEF WriterDiesNow
  <2>2. Spooled \subseteq Spooled'
    <3> SUFFICES ASSUME NEW m \in DOMAIN gz
                 PROVE  m \in DOMAIN gz' /\ Range(gz[m]) \subseteq Range(gz'[m])
      BY DEF Spooled
    <3> QED BY <1>1, <2>1, CompressedFile
  <2>3. l \in InWriter
    BY <1>1, <2>2 DEF Safe
  <2> QED BY <2>1, <2>3 DEF Known
<1>6. CASE LineArrives
  <2>1. /\ backupLines' = Append(backupLines, arrived')
        /\ arrived' = arrived + 1 /\ arrived < MaxLine
        /\ UNCHANGED <<bulkRequest, backupcount, gz>>
    BY <1>6 DEF LineArrives, spoolVars
  <2>2. backupLines \in Seq(LineNo) /\ arrived \in Nat
    BY <1>1, Constants DEF Typed, WriterTyped, WriterTypeOK
  <2>3. arrived' \in LineNo
    BY <2>1, <2>2, Constants DEF LineNo
  <2>4. Range(backupLines) \subseteq Range(backupLines')
    BY <2>1, <2>2, <2>3, AppendedRange
  <2> QED BY <1>1, <2>1, <2>4 DEF Safe, InWriter, Spooled
<1>7. CASE \/ WriterNamesFile \/ WriterIdle \/ WriterWrites
           \/ WriterNamesNext \/ WriterNotesNumber \/ WriterRestarts
           \/ \E k \in Files : RemovesPlain(k)
  <2>1. UNCHANGED <<backupLines, bulkRequest, backupcount, gz>>
    BY <1>7 DEF WriterNamesFile, WriterIdle, WriterWrites, WriterNamesNext,
                WriterNotesNumber, WriterRestarts, RemovesPlain, RemovePlain,
                spoolVars
  <2> QED BY <1>1, <2>1 DEF Safe, InWriter, Spooled
<1> QED BY <1>2, <1>3, <1>4, <1>5, <1>6, <1>7 DEF Writes, Environment

-----------------------------------------------------------------------------
(* A file is removed: its lines, and those that were still to come.        *)
LEMMA RemovalLoses ==
    ASSUME KInv, Removed(rfile), UNCHANGED <<writerVars, dropped>>,
           NEW l \in Safe, l \notin Safe'
    PROVE  /\ \/ rfile \in DOMAIN gz /\ l \in Range(gz[rfile])
              \/ l \in Range(bulkRequest) /\ backupcount = rfile
           /\ l \in Hand => l \in dropped'
<1>1. /\ UNCHANGED <<backupLines, bulkRequest, backupcount>>
      /\ UNCHANGED <<rline, rest, parsedLines, actions, tpc, tline, esDocs>>
      /\ DOMAIN gz' = DOMAIN gz \ {rfile}
      /\ \A n \in DOMAIN gz' : gz'[n] = gz[n]
  BY RemovedFile DEF Removed, writerVars, primaryVars, tailVars
<1>2. InReader' = InReader /\ esDocs' = esDocs
  BY <1>1 DEF InReader
<1>3. l \in InWriter \/ l \in Spooled
  BY <1>2 DEF Safe
<1>4. l \in Spooled => rfile \in DOMAIN gz /\ l \in Range(gz[rfile])
  <2> SUFFICES ASSUME NEW m \in DOMAIN gz, l \in Range(gz[m]), m # rfile
               PROVE  FALSE
    BY DEF Spooled
  <2>1. m \in DOMAIN gz' /\ l \in Range(gz'[m])
    BY <1>1
  <2> QED BY <2>1 DEF Safe, Spooled
<1>5. l \in InWriter => l \in Range(bulkRequest) /\ backupcount = rfile
  BY <1>1 DEF Safe, InWriter
<1>6. l \in Hand => l \in dropped
  BY <1>2 DEF Hand, Safe, InReader
<1> QED BY <1>3, <1>4, <1>5, <1>6

(* After it has been unpacked: none, if no process has begun with it again.*)
LEMMA RemovesLoses ==
    ASSUME KInv, ReaderRemoves, UNCHANGED <<writerVars, dropped>>,
           NEW l \in Safe, l \notin Safe'
    PROVE  Known(l)
<1>1. rpc = "remove" /\ rpc' = "list" /\ Removed(rfile)
  BY DEF ReaderRemoves
<1>2. CASE rfile \in recreated
  BY <1>1, <1>2 DEF Known
<1>3. CASE rfile \notin recreated
  <2>1. /\ Open => backupcount # rfile
        /\ Range(gz[rfile]) \subseteq Range(rest) \cup Hand
    BY <1>1, <1>3 DEF KInv, UnpackedKept
  <2>2. rest = <<>>
    BY <1>1 DEF KInv, TailHere
  <2>3. ~Open => bulkRequest = <<>>
    BY DEF KInv, CInv, Typed, WriterTyped, Open
  <2>4. l \in Hand
    BY <1>1, <2>1, <2>2, <2>3, RemovalLoses, NothingInIt
  <2>5. l \in dropped'
    BY <1>1, <2>4, RemovalLoses
  <2> QED BY <2>5 DEF Known
<1> QED BY <1>2, <1>3

(* After it has been followed: the one that is one too many.               *)
LEMMA UnlinksLoses ==
    ASSUME KInv, ReaderUnlinks, UNCHANGED <<writerVars, dropped>>,
           NEW l \in Safe, l \notin Safe'
    PROVE  Known(l)
<1>1. rpc = "unlink" /\ rpc' = "sleep" /\ Removed(rfile)
  BY DEF ReaderUnlinks
<1>2. CASE rfile \in recreated
  BY <1>1, <1>2 DEF Known
<1>3. CASE l \in dropped'
  BY <1>3 DEF Known
<1>4. CASE rfile \notin recreated /\ l \notin dropped'
  <2>1. /\ Len(plain[rfile]) >= FileLines
        /\ \A n \in 1..FileLines : plain[rfile][n] \in Hand
    BY <1>1, <1>4 DEF KInv, FollowedKept
  <2>2. /\ \/ rfile \in DOMAIN gz /\ l \in Range(gz[rfile])
           \/ l \in Range(bulkRequest) /\ backupcount = rfile
        /\ l \notin Hand
    BY <1>1, <1>4, RemovalLoses
  <2>3. /\ Typed /\ GzInPlain /\ rfile \in Files
        /\ Len(plain[rfile]) <= FileLines + 1
    BY NumbersOf DEF KInv, CInv, WriterFills
  <2> DEFINE p == plain[rfile]
             q == IF rfile = backupcount
                  THEN SubSeq(bulkRequest, written + 1, Len(bulkRequest))
                  ELSE <<>>
  <2>4. /\ p \in Seq(LineNo) /\ Len(p) \in Nat /\ FileLines \in Nat
        /\ bulkRequest \in Seq(LineNo) /\ Len(bulkRequest) \in Nat
        /\ written \in 0..Len(bulkRequest)
    BY <2>3, Lengths, Constants DEF Typed, PlainTyped, WriterTyped
  <2>5. q \in Seq(LineNo)
    BY <2>4
  <2>6. ASSUME Len(p \o q) > FileLines, l = (p \o q)[FileLines + 1]
        PROVE  Overrun(rfile, l)
    BY <2>6 DEF Overrun
  <2>7. CASE l \in Range(p)
    <3>1. PICK n \in 1..Len(p) : l = p[n]
      BY <2>4, <2>7, RangeEquality
    <3>2. n \notin 1..FileLines
      BY <2>1, <2>2, <3>1
    <3>3. n = FileLines + 1 /\ Len(p) > FileLines
      BY <2>3, <2>4, <3>1, <3>2
    <3> HIDE DEF p, q
    <3>4. /\ Len(p \o q) = Len(p) + Len(q) /\ (p \o q)[n] = p[n]
          /\ Len(q) \in Nat
      BY <2>4, <2>5, <3>1, JoinedLines
    <3>5. Len(p \o q) > FileLines /\ l = (p \o q)[FileLines + 1]
      BY <2>4, <3>1, <3>3, <3>4
    <3> QED BY <1>1, <2>6, <3>5 DEF Known
  <2>8. CASE l \in Range(bulkRequest) /\ backupcount = rfile /\ l \notin Range(p)
    <3>1. PICK m \in 1..Len(bulkRequest) : l = bulkRequest[m]
      BY <2>4, <2>8, RangeEquality
    <3>2. m \notin 1..written
      BY <2>3, <2>8, <3>1 DEF GzInPlain
    <3>3. m - written \in 1..(Len(bulkRequest) - written)
      BY <2>4, <3>1, <3>2
    <3>4. wpc \in {"select", "flush"}
      <4>1. Len(bulkRequest) # 0
        BY <2>4, <3>1
      <4> QED BY <2>3, <4>1 DEF Typed, WriterTyped
    <3>5. Len(p) + Len(bulkRequest) - written <= FileLines + 1
      <4>1. Has <= FileLines + Lag /\ Has \in Nat /\ Lag \in {0, 1}
        BY <3>4, HasAtMost DEF Lag
      <4>2. Has = Len(p) + Len(bulkRequest) - written
        BY <2>8 DEF Has
      <4> QED BY <2>4, <4>1, <4>2
    <3>6. /\ Len(p) = FileLines /\ m - written = 1
          /\ Len(bulkRequest) - written = 1
      BY <2>1, <2>4, <3>3, <3>5
    <3>7. Len(q) = 1 /\ q[1] = l
      <4>1. q = SubSeq(bulkRequest, written + 1, Len(bulkRequest))
        BY <2>8
      <4>2. m = written + 1 /\ Len(bulkRequest) = written + 1
        BY <2>4, <3>1, <3>6
      <4> QED BY <2>4, <3>1, <4>1, <4>2
    <3> HIDE DEF p, q
    <3>8. 1 \in 1..Len(q)
      BY <3>7
    <3>9. /\ Len(p \o q) = Len(p) + Len(q) /\ (p \o q)[Len(p) + 1] = q[1]
      BY <2>4, <2>5, <3>8, JoinedLines
    <3>10. Len(p \o q) > FileLines /\ l = (p \o q)[FileLines + 1]
      BY <2>4, <3>6, <3>7, <3>9
    <3> QED BY <1>1, <2>6, <3>10 DEF Known
  <2>9. l \in Range(p) \/ (l \in Range(bulkRequest) /\ backupcount = rfile)
    BY <2>2, <2>3 DEF GzInPlain
  <2> QED BY <2>7, <2>8, <2>9
<1> QED BY <1>2, <1>3, <1>4

(* What file2queue has handed over to nobody yet goes with its process.    *)
LEMMA EndLoses ==
    ASSUME ReaderEnds, UNCHANGED writerVars, NEW l \in Safe, l \notin Safe'
    PROVE  Known(l)
<1>1. /\ rpc' = "down"
      /\ UNCHANGED <<backupLines, bulkRequest, backupcount, gz, esDocs>>
  BY DEF ReaderEnds, writerVars, spoolVars
<1>2. l \in InReader
  BY <1>1 DEF Safe, InWriter, Spooled
<1> QED BY <1>1, <1>2 DEF Known

(* What the two programs and the spool have that file2queue may touch      *)
(* without removing a file.                                                *)
LEMMA MovesOn ==
    ASSUME UNCHANGED <<writerVars, gz>>,
           NEW l \in Safe, l \notin Safe'
    PROVE  /\ l \in InReader \cup esDocs
           /\ l \notin (InReader \cup esDocs)'
<1>1. UNCHANGED <<backupLines, bulkRequest, backupcount, gz>>
  BY DEF writerVars
<1> QED BY <1>1 DEF Safe, InWriter, Spooled

(* The restore task hands every line on.                                   *)
LEMMA RestoresLose ==
    ASSUME KInv, Restores, NEW l \in Safe, l \notin Safe'
    PROVE  Known(l)
<1>1. /\ UNCHANGED <<writerVars, dropped>>
      /\ Typed /\ TailHere
      /\ parsedLines \in Seq(LineNo) /\ rest \in Seq(LineNo)
  BY DEF KInv, CInv, Restores, Typed, ReaderTyped
<1>2. CASE ReaderEnds
  BY <1>1, <1>2, EndLoses
<1>3. CASE ReaderRemoves
  BY <1>1, <1>3, RemovesLoses
<1>4. CASE ReaderUnlinks
  BY <1>1, <1>4, UnlinksLoses
<1>5. CASE UNCHANGED gz
  <2>1. l \in InReader \cup esDocs /\ l \notin (InReader \cup esDocs)'
    BY <1>1, <1>5, MovesOn
  <2>2. CASE ReaderUnpacks
    <3>1. /\ rest = <<>>
          /\ UNCHANGED <<rline, parsedLines, actions, tpc, tline, esDocs>>
      BY <1>1, <2>2 DEF ReaderUnpacks, TailHere, RestoreStep, primaryVars,
                        tailVars
    <3> QED BY <2>1, <3>1, NothingInIt DEF InReader
  <2>3. CASE ReaderSends
    <3>1. /\ rest # <<>> /\ rest' = Tail(rest)
          /\ parsedLines' = Append(parsedLines, Head(rest))
          /\ UNCHANGED <<rline, actions, tpc, tline, esDocs>>
      BY <2>3 DEF ReaderSends, RestoreStep, primaryVars, tailVars
    <3>2. /\ Range(rest) = {Head(rest)} \cup Range(rest')
          /\ Range(parsedLines') = Range(parsedLines) \cup {Head(rest)}
      BY <1>1, <3>1, HeadAndTail, AppendedRange
    <3> QED BY <2>1, <3>1, <3>2 DEF InReader
  <2>4. CASE ReaderReceives
    <3>1. /\ rpc = "tail" /\ tpc = "send" /\ rline' = tline
          /\ UNCHANGED <<rest, parsedLines, actions, esDocs>>
      BY <2>4 DEF ReaderReceives, TailHandsOver, RestoreStep, primaryVars
    <3>2. rline = 0 /\ tline # 0
      BY <1>1, <3>1 DEF TailHere, Typed, TailTyped, LineNo
    <3> QED BY <2>1, <3>1, <3>2 DEF InReader
  <2>5. CASE ReaderPushes
    <3>1. /\ rpc = "push" /\ parsedLines' = Append(parsedLines, rline)
          /\ UNCHANGED <<rest, actions, tpc, tline, esDocs>>
      BY <2>5 DEF ReaderPushes, RestoreStep, primaryVars, tailVars
    <3>2. rline \in LineNo
      BY <1>1, <3>1 DEF Typed, ReaderTyped
    <3>3. Range(parsedLines') = Range(parsedLines) \cup {rline}
      BY <1>1, <3>1, <3>2, AppendedRange
    <3> QED BY <2>1, <3>1, <3>3 DEF InReader
  <2>6. CASE ReaderFollows \/ ReaderJoins
    <3>1. /\ tpc # "send"
          /\ UNCHANGED <<rline, rest, parsedLines, actions, esDocs>>
      BY <1>1, <2>6 DEF ReaderFollows, ReaderJoins, TailHere, Following,
                        RestoreStep, primaryVars
    <3> QED BY <2>1, <3>1 DEF InReader
  <2>7. CASE ReaderStarts \/ ReaderLists \/ ReaderAtEOF \/ ReaderStops \/ Wakes
    <3>1. UNCHANGED <<rline, rest, parsedLines, actions, tpc, tline, esDocs>>
      BY <2>7 DEF ReaderStarts, ReaderLists, ReaderAtEOF, ReaderStops, Wakes,
                  ReaderWakes, RestoreStep, primaryVars, tailVars
    <3> QED BY <2>1, <3>1 DEF InReader
  <2> QED BY <1>2, <1>3, <1>4, <2>2, <2>3, <2>4, <2>5, <2>6, <2>7
          DEF Restores, Restoring, ReaderFindsNone, ReaderPanics
<1>6. ReaderEnds \/ ReaderRemoves \/ ReaderUnlinks \/ UNCHANGED gz
  BY DEF Restores, Restoring, ReaderStarts, ReaderLists, ReaderFindsNone,
         ReaderFollows, ReaderUnpacks, ReaderPanics, ReaderSends, ReaderAtEOF,
         ReaderReceives, ReaderPushes, ReaderStops, ReaderJoins, Wakes,
         ReaderWakes, RestoreStep, spoolVars
<1> QED BY <1>2, <1>3, <1>4, <1>5, <1>6

(* The primary drops the line that wakes it from its wait.                 *)
LEMMA IndexesLose ==
    ASSUME KInv, Indexes, NEW l \in Safe, l \notin Safe'
    PROVE  Known(l)
<1>1. /\ UNCHANGED writerVars /\ dropped \subseteq dropped'
      /\ parsedLines \in Seq(LineNo) /\ actions \in Seq(LineNo)
  BY DEF KInv, CInv, Indexes, Typed, ReaderTyped
<1>2. CASE PrimaryIsFatal
  BY <1>1, <1>2, EndLoses DEF PrimaryIsFatal
<1>3. CASE PrimaryStep
  <2>1. UNCHANGED <<gz, rline, rest, tpc, tline>>
    BY <1>3 DEF PrimaryStep, spoolVars, restoreVars, tailVars
  <2>2. l \in InReader \cup esDocs /\ l \notin (InReader \cup esDocs)'
    BY <1>1, <2>1, MovesOn
  <2>3. CASE PrimaryAdds
    <3>1. /\ parsedLines # <<>> /\ parsedLines' = Tail(parsedLines)
          /\ actions' = Append(actions, Head(parsedLines))
          /\ UNCHANGED esDocs
      BY <2>3 DEF PrimaryAdds
    <3>2. /\ Range(parsedLines) = {Head(parsedLines)} \cup Range(parsedLines')
          /\ Range(actions') = Range(actions) \cup {Head(parsedLines)}
      BY <1>1, <3>1, HeadAndTail, AppendedRange
    <3> QED BY <2>1, <2>2, <3>1, <3>2 DEF InReader
  <2>4. CASE PrimaryWaits
    <3>1. /\ parsedLines # <<>> /\ parsedLines' = Tail(parsedLines)
          /\ Head(parsedLines) \in dropped' /\ UNCHANGED <<actions, esDocs>>
      BY <2>4 DEF PrimaryWaits, Indexes
    <3>2. Range(parsedLines) = {Head(parsedLines)} \cup Range(parsedLines')
      BY <1>1, <3>1, HeadAndTail
    <3>3. l = Head(parsedLines)
      BY <2>1, <2>2, <3>1, <3>2 DEF InReader
    <3> QED BY <3>1, <3>3 DEF Known
  <2>5. CASE PrimaryFlushes
    <3>1. UNCHANGED parsedLines /\ esDocs' = esDocs \cup Range(actions)
      BY <2>5 DEF PrimaryFlushes
    <3> QED BY <2>1, <2>2, <3>1 DEF InReader
  <2>6. CASE \/ PrimaryConnects \/ PrimaryPings \/ PrimaryIdles
             \/ PrimaryFails
    <3>1. UNCHANGED <<parsedLines, actions>> /\ esDocs \subseteq esDocs'
      BY <2>6 DEF PrimaryConnects, PrimaryPings, PrimaryIdles, PrimaryFails
    <3> QED BY <2>1, <2>2, <3>1 DEF InReader
  <2> QED BY <1>2, <2>3, <2>4, <2>5, <2>6 DEF Indexes, Indexing
<1>4. PrimaryIsFatal \/ PrimaryStep
  BY DEF Indexes, Indexing, PrimaryConnects, PrimaryAdds, PrimaryWaits,
         PrimaryPings, PrimaryIdles, PrimaryFlushes, PrimaryFails
<1> QED BY <1>2, <1>3, <1>4

(* The tail has no line in its hands when it reads the next one.           *)
LEMMA OthersLose ==
    ASSUME KInv, Tails \/ Disturbs \/ UNCHANGED vars,
           NEW l \in Safe, l \notin Safe'
    PROVE  Known(l)
<1>1. UNCHANGED writerVars
  BY DEF Tails, Disturbs, vars
<1>2. CASE ReaderEnds
  BY <1>1, <1>2, EndLoses
<1>3. CASE UNCHANGED gz
  <2>1. l \in InReader \cup esDocs /\ l \notin (InReader \cup esDocs)'
    BY <1>1, <1>3, MovesOn
  <2>2. CASE Tails
    <3>1. UNCHANGED <<rline, rest, parsedLines, actions, esDocs>>
      BY <2>2 DEF Tails, readerVars, restoreVars, primaryVars
    <3>2. tpc # "send"
      BY <2>2 DEF Tails, Tailing, TailOpens, TailReads, TailStops,
                  TailGoesOn, TailModified, TailTruncated
    <3> QED BY <2>1, <3>1, <3>2 DEF InReader
  <2>3. CASE EsToggles \/ UNCHANGED vars
    <3>1. UNCHANGED <<rline, rest, parsedLines, actions, tpc, tline, esDocs>>
      BY <2>3 DEF EsToggles, vars, readerVars, restoreVars, primaryVars,
                  tailVars
    <3> QED BY <2>1, <3>1 DEF InReader
  <2> QED BY <1>2, <2>2, <2>3 DEF Disturbs, ReaderKilled
<1>4. ReaderEnds \/ UNCHANGED gz
  BY DEF Tails, Disturbs, ReaderKilled, EsToggles, vars, spoolVars
<1> QED BY <1>2, <1>3, <1>4

LEMMA StepLoses ==
    ASSUME KInv, [Next]_vars, NEW l \in Safe, l \notin Safe'
    PROVE  Known(l)
BY BeginsLoses, WriterLoses, RestoresLose, IndexesLose, OthersLose DEF Next

(* Whatever dies, and however often, a line that was written, read or      *)
(* handed on vanishes only with a process that dies with it, as the line   *)
(* that wakes the primary, under a process of ulog2file that begins again  *)
(* with a file in use, or as the line after those file2queue counts in the *)
(* first file of a process (disk.go and backup.go of ulog2file and of      *)
(* file2queue).                                                            *)
THEOREM LosesWhereKnown == Spec => LostOnlyWhereKnown
<1>1. KInv /\ [Next]_vars => \A l \in Safe \ Safe' : Known(l)
  BY StepLoses
<1>2. Spec => [][\A l \in Safe \ Safe' : Known(l)]_vars
  BY <1>1, InitKept, StepKept, PTL DEF Spec
<1> QED BY <1>2 DEF Known, LostOnlyWhereKnown
=============================================================================
