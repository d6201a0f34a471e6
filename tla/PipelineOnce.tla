---------------------------- MODULE PipelineOnce ----------------------------
(***************************************************************************)
(* file2queue takes no line twice from the spool as long as no program     *)
(* dies, for every number of lines, files and capacities, and whatever     *)
(* Elasticsearch does.  Each line has one place in the files; the reader   *)
(* passes over these places once, for it removes a file after its last     *)
(* line, and it never finds a removed file again.                          *)
(***************************************************************************)
EXTENDS PipelineProofs

(* The lines are on their way in the order in which they came, without a   *)
(* gap, and no line is at two places of the files.                         *)
Filed == arrived - Len(backupLines) - Len(bulkRequest) + written

InOrder ==
    /\ \A n \in 1..Len(backupLines) :
          backupLines[n] = arrived - Len(backupLines) + n
    /\ \A n \in 1..Len(bulkRequest) :
          bulkRequest[n] = arrived - Len(backupLines) - Len(bulkRequest) + n

FilesApart ==
    \A k, m \in Files :
        \A p \in 1..Len(plain[k]), q \in 1..Len(plain[m]) :
            plain[k][p] = plain[m][q] => k = m /\ p = q

FiledBefore ==
    \A k \in Files : \A p \in 1..Len(plain[k]) : plain[k][p] <= Filed

LineOrder ==
    /\ InOrder /\ FiledBefore /\ FilesApart
    /\ wpc # "flush" => written = 0

(* In its first life ulog2file compresses what it has written to the plain *)
(* file, in the order of that.                                             *)
Unflushed(k) == IF k = backupcount THEN written ELSE 0

GzBehind ==
    \A k \in DOMAIN gz :
        /\ Len(plain[k]) = Len(gz[k]) + Unflushed(k)
        /\ \A n \in 1..Len(gz[k]) : gz[k][n] = plain[k][n]
        /\ \A n \in 1..Unflushed(k) : plain[k][Len(gz[k]) + n] = bulkRequest[n]

FirstLife ==
    deaths = 0 =>
        /\ \A k \in Files : k > backupcount => plain[k] = <<>>
        /\ GzBehind

-----------------------------------------------------------------------------
Following == rpc \in {"tail", "push", "stop", "join"}

(* The places of the files the reader has taken the line of.               *)
Passed(k, n) ==
    \/ k \notin DOMAIN gz
    \/ /\ k = rfile
       /\ \/ rpc \in {"gz", "remove", "unlink"}
          \/ Following /\ n <= tpos

Stems(l) ==
    \E k \in Files : \E n \in 1..Len(plain[k]) :
        plain[k][n] = l /\ Passed(k, n)

Old(l) ==
    \E k \in Files \ DOMAIN gz : \E n \in 1..Len(plain[k]) : plain[k][n] = l

Taken == Range(actions) \cup Range(parsedLines) \cup esDocs

TailHere ==
    /\ tpc # "off" => Following
    /\ Following => tfile = rfile
    /\ rpc # "gz" => rest = <<>>
    /\ rpc # "push" => rline = 0
    /\ rpc = "down" <=> ppc = "off"
    /\ ppc \in {"off", "connect"} => actions = <<>>
    /\ ppc = "off" => parsedLines = <<>>

Distinct ==
    /\ IsInjective(actions) /\ IsInjective(parsedLines) /\ IsInjective(rest)
    /\ Range(actions) \cap Range(parsedLines) = {}
    /\ Range(parsedLines) \cap esDocs = {}
    /\ Range(rest) \cap Taken = {}

(* The line the tail offers and the one the reader holds are next.         *)
TailAhead ==
    /\ Following => tpos <= Len(plain[rfile])
    /\ tpc = "send" =>
          tpos >= 1 /\ tline = plain[rfile][tpos] /\ tline \notin Taken
    /\ rpc = "push" =>
          /\ rline \notin Taken
          /\ \E n \in 1..tpos : /\ rline = plain[rfile][n]
                                /\ tpc = "send" => n < tpos

NextLine ==
    /\ \A l \in Taken : Stems(l)
    /\ ppc \in {"off", "connect"} => \A l \in esDocs : Old(l)
    /\ \A l \in Range(rest) :
          \E n \in 1..Len(plain[rfile]) : plain[rfile][n] = l
    /\ TailAhead

Undisturbed ==
    deaths = 0 /\ killed = 0 => ~truncated /\ Distinct /\ NextLine

OInv == Typed /\ PInv /\ LineOrder /\ FirstLife /\ TailHere /\ Undisturbed

-----------------------------------------------------------------------------
(* Nothing has come yet.                                                   *)
LEMMA InitOrder == Init => LineOrder /\ FirstLife
<1> SUFFICES ASSUME Init PROVE LineOrder /\ FirstLife
  OBVIOUS
<1>1. /\ wpc = "start" /\ backupLines = <<>> /\ bulkRequest = <<>>
      /\ written = 0 /\ arrived = 0 /\ gz = <<>>
      /\ plain = [k \in Files |-> <<>>]
  BY DEF Init, WriterInit, SpoolInit
<1>2. Len(<<>>) = 0 /\ 1..0 = {} /\ DOMAIN <<>> = {}
  OBVIOUS
<1>3. LineOrder
  BY <1>1, <1>2 DEF LineOrder, InOrder, FiledBefore, FilesApart
<1>4. FirstLife
  BY <1>1, <1>2 DEF FirstLife, GzBehind
<1> QED BY <1>3, <1>4

(* Files that only lose lines keep the order of those they have.           *)
LEMMA OrderOfLess ==
    ASSUME LineOrder,
           UNCHANGED <<arrived, backupLines, bulkRequest, written>>,
           wpc' # "flush" => wpc # "flush",
           \A m \in Files : \A p \in 1..Len(plain'[m]) :
               p \in 1..Len(plain[m]) /\ plain'[m][p] = plain[m][p]
    PROVE  LineOrder'
<1>1. InOrder' /\ (wpc' # "flush" => written' = 0) /\ Filed' = Filed
  BY DEF LineOrder, InOrder, Filed
<1>2. FiledBefore'
  BY <1>1 DEF LineOrder, FiledBefore
<1>3. FilesApart'
  BY DEF LineOrder, FilesApart
<1> QED BY <1>1, <1>2, <1>3 DEF LineOrder

(* The writer and the files are left alone.                                *)
LEMMA OrderUntouched ==
    ASSUME LineOrder,
           UNCHANGED <<plain, arrived, backupLines, bulkRequest, written>>,
           wpc' # "flush" => wpc # "flush"
    PROVE  LineOrder'
BY OrderOfLess

(* What creating a file does to the plain ones.                            *)
LEMMA CreatedIsLess ==
    ASSUME Typed, NEW k \in Files, CreateFile(k)
    PROVE  /\ \A m \in Files : \A p \in 1..Len(plain'[m]) :
                  p \in 1..Len(plain[m]) /\ plain'[m][p] = plain[m][p]
           /\ plain'[k] = <<>>
           /\ \A m \in Files : m # k => plain'[m] = plain[m]
<1>1. plain' = [plain EXCEPT ![k] = <<>>] /\ plain \in [Files -> Seq(LineNo)]
  BY DEF CreateFile, Typed, PlainTyped
<1>2. plain'[k] = <<>> /\ \A m \in Files : m # k => plain'[m] = plain[m]
  BY <1>1
<1>3. 1..Len(<<>>) = {}
  OBVIOUS
<1> QED BY <1>2, <1>3

(* ulog2file starts.                                                       *)
LEMMA OrderBegins == Typed /\ LineOrder /\ WriterBegins => LineOrder'
<1> SUFFICES ASSUME Typed, LineOrder, WriterBegins PROVE LineOrder'
  OBVIOUS
<1>1. PICK k \in Files : CreateFile(k)
  BY Constants DEF WriterBegins, WriterStart, Typed, MetaTyped, Files
<1>2. /\ UNCHANGED <<arrived, backupLines, bulkRequest, written>>
      /\ wpc # "flush"
  BY DEF WriterBegins, WriterStart
<1> QED BY <1>1, <1>2, OrderOfLess, CreatedIsLess

(* A line goes from the channel to the bulk.                               *)
LEMMA OrderReceives ==
    ASSUME Typed, LineOrder, WriterReceive
    PROVE  LineOrder'
<1>1. /\ backupLines # <<>> /\ backupLines' = Tail(backupLines)
      /\ bulkRequest' = Append(bulkRequest, Head(backupLines))
      /\ UNCHANGED <<arrived, written, plain>>
      /\ wpc = "select"
  BY DEF WriterReceive, spoolVars
<1>2. /\ backupLines \in Seq(LineNo) /\ bulkRequest \in Seq(LineNo)
      /\ arrived \in Nat /\ written \in Nat
  BY Constants DEF Typed, WriterTyped, WriterTypeOK
<1>3. /\ Len(backupLines) \in Nat \ {0} /\ Len(bulkRequest) \in Nat
      /\ Len(backupLines') = Len(backupLines) - 1
      /\ Len(bulkRequest') = Len(bulkRequest) + 1
      /\ \A n \in 1..(Len(backupLines) - 1) :
            backupLines'[n] = backupLines[n + 1]
      /\ \A n \in 1..Len(bulkRequest) : bulkRequest'[n] = bulkRequest[n]
      /\ bulkRequest'[Len(bulkRequest) + 1] = backupLines[1]
  BY <1>1, <1>2
<1>4. \A n \in 1..Len(backupLines') :
          backupLines'[n] = arrived - Len(backupLines') + n
  <2> SUFFICES ASSUME NEW n \in 1..Len(backupLines')
               PROVE  backupLines'[n] = arrived - Len(backupLines') + n
    OBVIOUS
  <2>1. n + 1 \in 1..Len(backupLines) /\ backupLines'[n] = backupLines[n + 1]
    BY <1>3
  <2>2. backupLines[n + 1] = arrived - Len(backupLines) + (n + 1)
    BY <2>1 DEF LineOrder, InOrder
  <2> QED BY <1>2, <1>3, <2>1, <2>2
<1>5. \A n \in 1..Len(bulkRequest') :
          bulkRequest'[n] = arrived - Len(backupLines') - Len(bulkRequest') + n
  <2> SUFFICES ASSUME NEW n \in 1..Len(bulkRequest')
               PROVE  bulkRequest'[n] =
                          arrived - Len(backupLines') - Len(bulkRequest') + n
    OBVIOUS
  <2>1. CASE n \in 1..Len(bulkRequest)
    <3>1. /\ bulkRequest'[n] = bulkRequest[n]
          /\ bulkRequest[n] = arrived - Len(backupLines) - Len(bulkRequest) + n
      BY <1>3, <2>1 DEF LineOrder, InOrder
    <3> QED BY <1>2, <1>3, <3>1
  <2>2. CASE n = Len(bulkRequest) + 1
    <3>1. 1 \in 1..Len(backupLines)
      BY <1>3
    <3>2. backupLines[1] = arrived - Len(backupLines) + 1
      BY <3>1 DEF LineOrder, InOrder
    <3> QED BY <1>2, <1>3, <2>2, <3>2
  <2> QED BY <1>3, <2>1, <2>2
<1>6. InOrder'
  BY <1>1, <1>4, <1>5 DEF InOrder
<1>7. Filed' = Filed
  BY <1>1, <1>2, <1>3 DEF Filed
<1>8. FiledBefore' /\ FilesApart'
  BY <1>1, <1>7 DEF LineOrder, FiledBefore, FilesApart
<1> QED BY <1>1, <1>6, <1>8 DEF LineOrder

(* What one written line does to the plain files.                          *)
LEMMA LineWritten ==
    ASSUME Typed, LineOrder, WriterWrites
    PROVE  /\ backupcount \in Files /\ written' = written + 1
           /\ written' \in 1..Len(bulkRequest)
           /\ Len(plain[backupcount]) \in Nat
           /\ Len(plain'[backupcount]) = Len(plain[backupcount]) + 1
           /\ \A p \in 1..Len(plain[backupcount]) :
                 plain'[backupcount][p] = plain[backupcount][p]
           /\ plain'[backupcount][Len(plain[backupcount]) + 1]
                 = bulkRequest[written']
           /\ \A k \in Files : k # backupcount => plain'[k] = plain[k]
           /\ bulkRequest[written'] = Filed + 1
           /\ Filed' = Filed + 1
<1>1. /\ wpc = "flush" /\ written < Len(bulkRequest)
      /\ written' = written + 1
      /\ UNCHANGED <<arrived, backupLines, bulkRequest, backupcount>>
  BY DEF WriterWrites
<1>2. backupcount \in Files /\ plain \in [Files -> Seq(LineNo)]
  BY <1>1 DEF Typed, WriterTyped, PlainTyped
<1>3. /\ written \in Nat /\ Len(bulkRequest) \in Nat /\ arrived \in Nat
      /\ Len(backupLines) \in Nat
  BY Constants DEF Typed, WriterTyped, WriterTypeOK
<1>4. written' \in 1..Len(bulkRequest)
  BY <1>1, <1>3
<1>5. PICK l \in LineNo : l = bulkRequest[written']
  BY <1>4 DEF Typed, WriterTyped
<1>6. plain' = [plain EXCEPT ![backupcount] = Append(plain[backupcount], l)]
  BY <1>5 DEF WriterWrites
<1>7. /\ plain'[backupcount] = Append(plain[backupcount], l)
      /\ \A k \in Files : k # backupcount => plain'[k] = plain[k]
      /\ plain[backupcount] \in Seq(LineNo)
  BY <1>2, <1>6
<1>8. bulkRequest[written'] =
          arrived - Len(backupLines) - Len(bulkRequest) + written'
  BY <1>4 DEF LineOrder, InOrder
<1>9. bulkRequest[written'] = Filed + 1 /\ Filed' = Filed + 1
  BY <1>1, <1>3, <1>8 DEF Filed
<1> QED BY <1>1, <1>2, <1>4, <1>5, <1>7, <1>9

(* The next line of the bulk goes into the plain file.                     *)
LEMMA OrderWrites ==
    ASSUME Typed, LineOrder, WriterWrites
    PROVE  LineOrder'
<1>0. UNCHANGED <<arrived, backupLines, bulkRequest, backupcount, wpc>>
          /\ wpc = "flush"
  BY DEF WriterWrites
<1> DEFINE b == backupcount
           s == Len(plain[b]) + 1
<1>1. /\ b \in Files /\ Len(plain[b]) \in Nat /\ Len(plain'[b]) = s
      /\ \A p \in 1..Len(plain[b]) : plain'[b][p] = plain[b][p]
      /\ plain'[b][s] = Filed + 1
      /\ \A k \in Files : k # b => plain'[k] = plain[k]
      /\ Filed' = Filed + 1
  BY LineWritten
<1>2. Filed \in Int
  BY Constants DEF Filed, Typed, WriterTyped, WriterTypeOK
<1>3. ASSUME NEW k \in Files, NEW p \in 1..Len(plain'[k])
      PROVE  \/ k = b /\ p = s /\ plain'[k][p] = Filed + 1
             \/ /\ p \in 1..Len(plain[k]) /\ plain'[k][p] = plain[k][p]
                /\ plain[k][p] <= Filed /\ plain[k][p] \in Int
  <2>1. \A q \in 1..Len(plain[k]) : plain[k][q] \in LineNo
    BY DEF Typed, PlainTyped
  <2>2. \A q \in 1..Len(plain[k]) : plain[k][q] <= Filed /\ plain[k][q] \in Int
    <3>1. LineNo \subseteq Int
      BY LineMembers
    <3>2. \A q \in 1..Len(plain[k]) : plain[k][q] <= Filed
      BY DEF LineOrder, FiledBefore
    <3> QED BY <2>1, <3>1, <3>2
  <2>3. CASE k = b /\ p = s
    BY <1>1, <2>3
  <2>4. CASE k = b /\ p # s
    <3>1. p \in 1..Len(plain[k])
      BY <1>1, <1>3, <2>4
    <3> QED BY <1>1, <2>2, <2>4, <3>1
  <2>5. CASE k # b
    BY <1>1, <1>3, <2>2, <2>5
  <2> QED BY <2>3, <2>4, <2>5
<1> HIDE DEF s
<1>4. FiledBefore'
  <2> SUFFICES ASSUME NEW k \in Files, NEW p \in 1..Len(plain'[k])
               PROVE  plain'[k][p] <= Filed'
    BY DEF FiledBefore
  <2>1. \A a, c \in Int : a <= c => a <= c + 1
    OBVIOUS
  <2>2. Filed + 1 <= Filed + 1
    BY <1>2
  <2>3. Filed' = Filed + 1
    BY <1>1
  <2> QED BY <1>2, <1>3, <2>1, <2>2, <2>3
<1>5. FilesApart'
  <2> SUFFICES ASSUME NEW k \in Files, NEW m \in Files,
                      NEW p \in 1..Len(plain'[k]), NEW q \in 1..Len(plain'[m]),
                      plain'[k][p] = plain'[m][q]
               PROVE  k = m /\ p = q
    BY DEF FilesApart
  <2>1. CASE plain'[k][p] = Filed + 1
    <3>1. \A x \in Int : ~(x <= Filed /\ x = Filed + 1)
      BY <1>2
    <3>2. ASSUME NEW n \in Files, NEW r \in 1..Len(plain'[n]),
                 plain'[n][r] = Filed + 1
          PROVE  n = b /\ r = s
      BY <1>3, <3>1, <3>2
    <3> QED BY <2>1, <3>2
  <2>2. CASE plain'[k][p] # Filed + 1
    <3>1. /\ p \in 1..Len(plain[k]) /\ q \in 1..Len(plain[m])
          /\ plain[k][p] = plain[m][q]
      BY <1>3, <2>2
    <3> QED BY <3>1 DEF LineOrder, FilesApart
  <2> QED BY <2>1, <2>2
<1>6. InOrder'
  BY <1>0 DEF LineOrder, InOrder
<1> QED BY <1>0, <1>4, <1>5, <1>6 DEF LineOrder

(* All of the bulk is in the file.                                         *)
LEMMA OrderFlushed ==
    ASSUME Typed, LineOrder, WriterFlushed
    PROVE  LineOrder'
<1>1. /\ written = Len(bulkRequest) /\ bulkRequest' = <<>> /\ written' = 0
      /\ UNCHANGED <<arrived, backupLines, plain>>
  BY DEF WriterFlushed
<1>2. Len(bulkRequest) \in Nat /\ arrived \in Nat /\ Len(backupLines) \in Nat
  BY Constants DEF Typed, WriterTyped, WriterTypeOK
<1>3. Len(bulkRequest') = 0 /\ 1..0 = {}
  BY <1>1
<1>4. Filed' = Filed
  BY <1>1, <1>2, <1>3 DEF Filed
<1>5. InOrder'
  BY <1>1, <1>3 DEF LineOrder, InOrder
<1> QED BY <1>1, <1>4, <1>5 DEF LineOrder, FiledBefore, FilesApart

(* The channel and the bulk are gone; no line has their numbers later.     *)
LEMMA OrderDies ==
    ASSUME Typed, LineOrder, WriterDiesNow
    PROVE  LineOrder'
<1>1. /\ backupLines' = <<>> /\ bulkRequest' = <<>> /\ written' = 0
      /\ UNCHANGED <<arrived, plain>>
  BY DEF WriterDiesNow
<1>2. /\ Len(bulkRequest) \in Nat /\ arrived \in Nat /\ Len(backupLines) \in Nat
      /\ written \in 0..Len(bulkRequest)
  BY Constants DEF Typed, WriterTyped, WriterTypeOK
<1>3. Len(bulkRequest') = 0 /\ Len(backupLines') = 0 /\ 1..0 = {}
  BY <1>1
<1>4. Filed <= Filed' /\ Filed \in Int /\ Filed' \in Int
  BY <1>1, <1>2, <1>3 DEF Filed
<1>5. InOrder'
  BY <1>3 DEF InOrder
<1>6. FiledBefore'
  <2> SUFFICES ASSUME NEW k \in Files, NEW p \in 1..Len(plain'[k])
               PROVE  plain'[k][p] <= Filed'
    BY DEF FiledBefore
  <2>1. plain[k][p] \in LineNo /\ plain[k][p] <= Filed
    BY <1>1 DEF LineOrder, FiledBefore, Typed, PlainTyped
  <2>2. plain[k][p] \in Int
    <3>1. LineNo \subseteq Int
      BY LineMembers
    <3> QED BY <2>1, <3>1
  <2>3. \A x \in Int : x <= Filed => x <= Filed'
    BY <1>4
  <2> QED BY <1>1, <2>1, <2>2, <2>3
<1> QED BY <1>1, <1>5, <1>6 DEF LineOrder, FilesApart

(* A line comes, with the next number.                                     *)
LEMMA OrderArrives ==
    ASSUME Typed, LineOrder, LineArrives
    PROVE  LineOrder'
<1>1. /\ arrived' = arrived + 1
      /\ backupLines' = Append(backupLines, arrived')
      /\ UNCHANGED <<bulkRequest, written, plain, wpc>>
  BY DEF LineArrives, spoolVars
<1>2. /\ Len(bulkRequest) \in Nat /\ arrived \in Nat /\ Len(backupLines) \in Nat
      /\ written \in Nat /\ arrived' \in Nat /\ backupLines \in Seq(Nat)
  BY <1>1, Constants DEF Typed, WriterTyped, WriterTypeOK
<1>3. PICK l \in Nat : l = arrived'
  BY <1>2
<1>4. /\ Len(backupLines') = Len(backupLines) + 1
      /\ \A n \in 1..Len(backupLines) : backupLines'[n] = backupLines[n]
      /\ backupLines'[Len(backupLines) + 1] = arrived'
  BY <1>1, <1>2, <1>3
<1>5. Filed' = Filed
  BY <1>1, <1>2, <1>4 DEF Filed
<1>6. ASSUME NEW n \in 1..Len(backupLines')
      PROVE  backupLines'[n] = arrived' - Len(backupLines') + n
  <2>1. CASE n \in 1..Len(backupLines)
    <3>1. backupLines'[n] = arrived - Len(backupLines) + n
      BY <1>4, <2>1 DEF LineOrder, InOrder
    <3> QED BY <1>1, <1>2, <1>4, <3>1
  <2>2. CASE n = Len(backupLines) + 1
    BY <1>2, <1>4, <2>2
  <2> QED BY <1>2, <1>4, <2>1, <2>2
<1>7. ASSUME NEW n \in 1..Len(bulkRequest')
      PROVE  bulkRequest'[n] =
                 arrived' - Len(backupLines') - Len(bulkRequest') + n
  <2>1. bulkRequest[n] = arrived - Len(backupLines) - Len(bulkRequest) + n
    BY <1>1, <1>7 DEF LineOrder, InOrder
  <2>2. arrived' - Len(backupLines') = arrived - Len(backupLines)
    BY <1>1, <1>2, <1>4
  <2> QED BY <1>1, <2>1, <2>2
<1>8. InOrder'
  BY <1>6, <1>7 DEF InOrder
<1> QED BY <1>1, <1>5, <1>8 DEF LineOrder, FiledBefore, FilesApart

(* The lines keep their order, whatever dies.                              *)
LEMMA StepOrder == Typed /\ LineOrder /\ [Next]_vars => LineOrder'
<1> SUFFICES ASSUME Typed, LineOrder, [Next]_vars PROVE LineOrder'
  OBVIOUS
<1>1. CASE WriterBegins
  BY <1>1, OrderBegins
<1>2. CASE Writes
  <2>1. CASE WriterRotates
    <3>1. PICK k \in Files : CreateFile(k)
      BY <2>1, Constants
      DEF WriterRotates, Typed, WriterTyped, WriterTypeOK, Files
    <3>2. /\ UNCHANGED <<arrived, backupLines, bulkRequest, written>>
          /\ wpc # "flush"
      BY <2>1 DEF WriterRotates
    <3> QED BY <3>1, <3>2, OrderOfLess, CreatedIsLess
  <2>2. CASE \/ WriterNamesFile \/ WriterIdle \/ WriterNamesNext
             \/ WriterNotesNumber \/ WriterRestarts
             \/ \E k \in Files : RemovesPlain(k)
    BY <2>2, OrderUntouched
    DEF WriterNamesFile, WriterIdle, WriterNamesNext, WriterNotesNumber,
        WriterRestarts, RemovesPlain, RemovePlain, spoolVars
  <2> QED BY <1>2, <2>1, <2>2, OrderReceives, OrderWrites, OrderFlushed
          DEF Writes
<1>3. CASE Environment
  BY <1>3, OrderArrives, OrderDies DEF Environment
<1>4. CASE UNCHANGED <<writerVars, plain>>
  BY <1>4, OrderUntouched DEF writerVars
<1>5. Tails \/ Restores \/ Indexes \/ Disturbs \/ UNCHANGED vars
          => UNCHANGED <<writerVars, plain>>
  BY DEF vars, spoolVars, Tails, Restores, Restoring, RestoreStep, Wakes,
         ReaderStarts, ReaderLists, ReaderFindsNone, ReaderFollows,
         ReaderUnpacks, ReaderPanics, ReaderEnds, ReaderSends, ReaderAtEOF,
         ReaderReceives, ReaderPushes, ReaderStops, ReaderJoins,
         ReaderRemoves, ReaderUnlinks, Removed, ReaderWakes, Indexes,
         Indexing, PrimaryConnects, PrimaryIsFatal, PrimaryAdds,
         PrimaryWaits, PrimaryPings, PrimaryIdles, PrimaryFlushes,
         PrimaryFails, PrimaryStep, Disturbs, ReaderKilled, EsToggles
<1> QED BY <1>1, <1>2, <1>3, <1>4, <1>5 DEF Next

-----------------------------------------------------------------------------
(* A step that leaves the files and what is written of the bulk.           *)
LEMMA LifeUntouched ==
    ASSUME FirstLife, UNCHANGED <<deaths, plain, gz, backupcount, written>>,
           \A n \in 1..written : bulkRequest'[n] = bulkRequest[n]
    PROVE  FirstLife'
<1>1. CASE deaths = 0
  <2>1. \A k : Unflushed(k)' = Unflushed(k)
    BY DEF Unflushed
  <2>2. \A k : \A n \in 1..Unflushed(k) : bulkRequest'[n] = bulkRequest[n]
    BY DEF Unflushed
  <2>3. GzBehind'
    BY <1>1, <2>1, <2>2 DEF FirstLife, GzBehind
  <2> QED BY <1>1, <2>3 DEF FirstLife
<1>2. CASE deaths # 0
  BY <1>2 DEF FirstLife
<1> QED BY <1>1, <1>2

(* A file with a new number.                                               *)
LEMMA LifeCreated ==
    ASSUME Typed, PInv, LineOrder, FirstLife, deaths = 0,
           NEW k \in Files, CreateFile(k), k = backupcount + 1,
           backupcount' = k, wpc # "flush", UNCHANGED written
    PROVE  FirstLife'
<1>1. /\ \A m \in Files : m # k => plain'[m] = plain[m]
      /\ plain'[k] = <<>>
  BY CreatedIsLess
<1>2. DOMAIN gz \subseteq 1..backupcount /\ backupcount \in Nat
  BY DEF PInv, Integral, WriterOrder
<1>3. written = 0
  BY DEF LineOrder
<1>4. \A m \in Files : m > backupcount' => plain'[m] = <<>>
  BY <1>1, <1>2 DEF FirstLife, Files
<1>5. /\ DOMAIN gz' = DOMAIN gz \cup {k} /\ gz'[k] = <<>>
      /\ \A m \in DOMAIN gz : m # k /\ gz'[m] = gz[m]
  BY <1>2 DEF CreateFile
<1>6. \A m : Unflushed(m) = 0 /\ Unflushed(m)' = 0
  BY <1>3 DEF Unflushed
<1>7. Len(<<>>) = 0 /\ 1..0 = {} /\ 0 + 0 = 0
  OBVIOUS
<1>8. GzBehind'
  <2> SUFFICES ASSUME NEW m \in DOMAIN gz'
               PROVE  /\ Len(plain'[m]) = Len(gz'[m]) + 0
                      /\ \A n \in 1..Len(gz'[m]) : gz'[m][n] = plain'[m][n]
    BY <1>6, <1>7 DEF GzBehind
  <2>1. CASE m = k
    BY <1>1, <1>5, <1>7, <2>1
  <2>2. CASE m # k
    <3>1. m \in DOMAIN gz /\ m \in Files
      BY <1>5, <2>2 DEF Typed, GzTyped
    <3> QED BY <1>1, <1>5, <1>6, <2>2, <3>1 DEF FirstLife, GzBehind
  <2> QED BY <2>1, <2>2
<1> QED BY <1>4, <1>8 DEF FirstLife

(* A line goes into the plain file only.                                   *)
LEMMA LifeWrites ==
    ASSUME Typed, LineOrder, FirstLife, WriterWrites
    PROVE  FirstLife'
<1>0. UNCHANGED <<deaths, backupcount, gz, bulkRequest>>
  BY DEF WriterWrites
<1>a. CASE deaths # 0
  BY <1>0, <1>a DEF FirstLife
<1>b. CASE deaths = 0
  <2> DEFINE b == backupcount
             s == Len(plain[b]) + 1
  <2>1. /\ b \in Files /\ Len(plain[b]) \in Nat /\ Len(plain'[b]) = s
        /\ \A p \in 1..Len(plain[b]) : plain'[b][p] = plain[b][p]
        /\ plain'[b][s] = bulkRequest[written']
        /\ \A k \in Files : k # b => plain'[k] = plain[k]
        /\ written' = written + 1
    BY LineWritten
  <2>2. written \in Nat /\ b \in Nat
    BY Constants DEF Typed, WriterTyped, WriterTypeOK
  <2> HIDE DEF s
  <2>3. \A k \in Files : k > b => plain'[k] = <<>>
    BY <1>b, <2>1, <2>2 DEF FirstLife, Files
  <2>4. GzBehind'
    <3> SUFFICES ASSUME NEW k \in DOMAIN gz
                 PROVE  /\ Len(plain'[k]) = Len(gz[k]) + Unflushed(k)'
                        /\ \A n \in 1..Len(gz[k]) : gz[k][n] = plain'[k][n]
                        /\ \A n \in 1..Unflushed(k)' :
                              plain'[k][Len(gz[k]) + n] = bulkRequest[n]
      BY <1>0 DEF GzBehind
    <3>1. /\ Len(plain[k]) = Len(gz[k]) + Unflushed(k)
          /\ \A n \in 1..Len(gz[k]) : gz[k][n] = plain[k][n]
          /\ \A n \in 1..Unflushed(k) :
                plain[k][Len(gz[k]) + n] = bulkRequest[n]
      BY <1>b DEF FirstLife, GzBehind
    <3>2. k \in Files /\ Len(gz[k]) \in Nat
      BY DEF Typed, GzTyped
    <3>3. CASE k # b
      BY <1>0, <2>1, <3>1, <3>2, <3>3 DEF Unflushed
    <3>4. CASE k = b
      <4>1. Unflushed(k) = written /\ Unflushed(k)' = written + 1
        BY <1>0, <2>1, <3>4 DEF Unflushed
      <4>2. /\ s = Len(gz[k]) + (written + 1)
            /\ Len(plain[b]) = Len(gz[k]) + written
        <5>1. Len(plain[b]) = Len(gz[k]) + written
          BY <3>1, <3>4, <4>1
        <5>2. Len(gz[k]) \in Nat
          BY <3>2
        <5> QED BY <2>2, <5>1, <5>2 DEF s
      <4>3. \A n \in 1..Len(gz[k]) : gz[k][n] = plain'[k][n]
        BY <2>1, <2>2, <3>1, <3>2, <3>4, <4>2
      <4>4. ASSUME NEW n \in 1..(written + 1)
            PROVE  plain'[k][Len(gz[k]) + n] = bulkRequest[n]
        <5>1. CASE n = written + 1
          BY <2>1, <3>4, <4>2, <5>1
        <5>2. CASE n # written + 1
          <6>1. n \in 1..written /\ Len(gz[k]) + n \in 1..Len(plain[b])
            BY <2>2, <3>2, <4>2, <5>2
          <6> QED BY <2>1, <3>1, <3>4, <4>1, <6>1
        <5> QED BY <5>1, <5>2
      <4> QED BY <2>1, <3>4, <4>1, <4>2, <4>3, <4>4
    <3> QED BY <3>3, <3>4
  <2> QED BY <1>0, <2>3, <2>4 DEF FirstLife
<1> QED BY <1>a, <1>b

(* The compressed file catches up with the plain one.                      *)
LEMMA LifeFlushed ==
    ASSUME Typed, FirstLife, WriterFlushed
    PROVE  FirstLife'
<1>0. /\ UNCHANGED <<deaths, backupcount, plain>> /\ written' = 0
      /\ written = Len(bulkRequest) /\ Compressed(written)
  BY DEF WriterFlushed
<1>a. CASE deaths # 0
  BY <1>0, <1>a DEF FirstLife
<1>b. CASE deaths = 0
  <2> DEFINE b == backupcount
  <2>1. \A k : Unflushed(k)' = 0
    BY <1>0 DEF Unflushed
  <2>2. bulkRequest \in Seq(LineNo) /\ written \in Nat
    BY <1>0 DEF Typed, WriterTyped
  <2>3. SubSeq(bulkRequest, 1, written) = bulkRequest
    BY <1>0, <2>2
  <2>4. CASE b \notin DOMAIN gz
    <3>1. gz' = gz /\ \A k \in DOMAIN gz : Unflushed(k) = 0
      BY <1>0, <2>4 DEF Compressed, Unflushed
    <3>2. 1..0 = {}
      OBVIOUS
    <3>3. GzBehind'
      BY <1>0, <1>b, <2>1, <3>1, <3>2 DEF FirstLife, GzBehind
    <3> QED BY <1>0, <1>b, <3>3 DEF FirstLife
  <2>5. CASE b \in DOMAIN gz
    <3> DEFINE g == gz[b]
    <3>1. gz' = [gz EXCEPT ![b] = g \o bulkRequest]
      BY <1>0, <2>3, <2>5 DEF Compressed
    <3>2. /\ gz'[b] = g \o bulkRequest /\ DOMAIN gz' = DOMAIN gz
          /\ \A k \in DOMAIN gz : k # b => gz'[k] = gz[k]
      BY <2>5, <3>1
    <3>3. g \in Seq(LineNo) /\ Len(g) \in Nat
      BY <2>5 DEF Typed, GzTyped
    <3>4. /\ Len(g \o bulkRequest) = Len(g) + Len(bulkRequest)
          /\ \A n \in 1..(Len(g) + Len(bulkRequest)) :
                (g \o bulkRequest)[n] =
                    IF n <= Len(g) THEN g[n] ELSE bulkRequest[n - Len(g)]
      BY <2>2, <3>3, ConcatProperties
    <3>5. /\ Unflushed(b) = written
          /\ \A k \in DOMAIN gz : k # b => Unflushed(k) = 0
      BY DEF Unflushed
    <3>6. /\ Len(plain[b]) = Len(g) + written
          /\ \A n \in 1..Len(g) : g[n] = plain[b][n]
          /\ \A n \in 1..written : plain[b][Len(g) + n] = bulkRequest[n]
      BY <1>b, <2>5, <3>5 DEF FirstLife, GzBehind
    <3>7. ASSUME NEW n \in 1..(Len(g) + written)
          PROVE  (g \o bulkRequest)[n] = plain[b][n]
      <4>1. CASE n <= Len(g)
        BY <1>0, <2>2, <3>3, <3>4, <3>6, <4>1
      <4>2. CASE ~(n <= Len(g))
        <5>1. n - Len(g) \in 1..written /\ Len(g) + (n - Len(g)) = n
          BY <2>2, <3>3, <4>2
        <5> QED BY <1>0, <3>4, <3>6, <4>2, <5>1
      <4> QED BY <4>1, <4>2
    <3> HIDE DEF g
    <3>8. GzBehind'
      <4> SUFFICES ASSUME NEW k \in DOMAIN gz
                   PROVE  /\ Len(plain[k]) = Len(gz'[k]) + 0
                          /\ \A n \in 1..Len(gz'[k]) : gz'[k][n] = plain[k][n]
                          /\ \A n \in 1..0 :
                                plain[k][Len(gz'[k]) + n] = bulkRequest'[n]
        <5>1. DOMAIN gz' = DOMAIN gz /\ plain' = plain
          BY <1>0, <3>2
        <5>2. \A k : Unflushed(k)' = 0
          BY <1>0, <2>1 DEF Unflushed
        <5> QED BY <5>1, <5>2 DEF GzBehind
      <4>1. 1..0 = {}
        OBVIOUS
      <4>2. CASE k = b
        <5>1. Len(gz'[k]) = Len(g) + written
          BY <1>0, <3>2, <3>4, <4>2
        <5> QED BY <2>2, <3>2, <3>3, <3>6, <3>7, <4>1, <4>2, <5>1
      <4>3. CASE k # b
        <5>1. /\ Len(plain[k]) = Len(gz[k]) + 0
              /\ \A n \in 1..Len(gz[k]) : gz[k][n] = plain[k][n]
          BY <1>b, <3>5, <4>3 DEF FirstLife, GzBehind
        <5> QED BY <3>2, <4>1, <4>3, <5>1
      <4> QED BY <4>2, <4>3
    <3> QED BY <1>0, <1>b, <3>8 DEF FirstLife
  <2> QED BY <2>4, <2>5
<1> QED BY <1>a, <1>b

(* A file is removed.                                                      *)
LEMMA LifeRemoved ==
    ASSUME FirstLife, NEW k, Removed(k), UNCHANGED writerVars
    PROVE  FirstLife'
<1>1. /\ DOMAIN gz' = DOMAIN gz \ {k}
      /\ \A m \in DOMAIN gz' : gz'[m] = gz[m]
      /\ UNCHANGED <<plain, deaths, backupcount, written, bulkRequest>>
  BY DEF Removed, writerVars
<1>2. \A m : Unflushed(m)' = Unflushed(m)
  BY <1>1 DEF Unflushed
<1>3. GzBehind => GzBehind'
  <2> SUFFICES ASSUME GzBehind, NEW m \in DOMAIN gz'
               PROVE  /\ Len(plain'[m]) = Len(gz'[m]) + Unflushed(m)'
                      /\ \A n \in 1..Len(gz'[m]) : gz'[m][n] = plain'[m][n]
                      /\ \A n \in 1..Unflushed(m)' :
                            plain'[m][Len(gz'[m]) + n] = bulkRequest'[n]
    BY DEF GzBehind
  <2>1. /\ m \in DOMAIN gz /\ gz'[m] = gz[m] /\ plain' = plain
        /\ Unflushed(m)' = Unflushed(m) /\ bulkRequest' = bulkRequest
    BY <1>1, <1>2
  <2> QED BY <2>1 DEF GzBehind
<1> QED BY <1>1, <1>3 DEF FirstLife

(* In its first life ulog2file keeps the two copies of a file in step.     *)
LEMMA StepLife ==
    Typed /\ PInv /\ LineOrder /\ FirstLife /\ [Next]_vars => FirstLife'
<1> SUFFICES ASSUME Typed, PInv, LineOrder, FirstLife, [Next]_vars
             PROVE  FirstLife'
  OBVIOUS
<1>1. CASE WriterBegins
  <2>1. CASE deaths = 0
    <3>1. backupcount = 0 /\ status = 0 /\ wpc = "start"
      BY <1>1, <2>1 DEF WriterBegins, WriterStart, PInv, WriterOrder
    <3>2. /\ backupcount' = 1 /\ 1 \in Files /\ CreateFile(1)
          /\ UNCHANGED written
      BY <1>1, <3>1, Constants DEF WriterBegins, WriterStart, Files
    <3> QED BY <2>1, <3>1, <3>2, LifeCreated
  <2>2. CASE deaths # 0
    BY <1>1, <2>2 DEF WriterBegins, WriterStart, FirstLife
  <2> QED BY <2>1, <2>2
<1>2. CASE Writes
  <2>1. CASE WriterRotates
    <3>1. PICK k \in Files : k = backupcount + 1 /\ backupcount' = k
                                 /\ CreateFile(k)
      BY <2>1, Constants
      DEF WriterRotates, Typed, WriterTyped, WriterTypeOK, Files
    <3>2. UNCHANGED <<written, deaths>> /\ wpc # "flush"
      BY <2>1 DEF WriterRotates
    <3>3. CASE deaths = 0
      BY <3>1, <3>2, <3>3, LifeCreated
    <3>4. CASE deaths # 0
      BY <3>2, <3>4 DEF FirstLife
    <3> QED BY <3>3, <3>4
  <2>2. CASE WriterReceive
    <3>1. UNCHANGED <<deaths, plain, gz, backupcount, written>>
              /\ wpc = "select"
      BY <2>2 DEF WriterReceive, spoolVars
    <3>2. 1..written = {}
      BY <3>1 DEF LineOrder
    <3> QED BY <3>1, <3>2, LifeUntouched
  <2>3. CASE \/ WriterNamesFile \/ WriterIdle \/ WriterNamesNext
             \/ WriterNotesNumber \/ WriterRestarts
             \/ \E k \in Files : RemovesPlain(k)
    BY <2>3, LifeUntouched
    DEF WriterNamesFile, WriterIdle, WriterNamesNext, WriterNotesNumber,
        WriterRestarts, RemovesPlain, RemovePlain, spoolVars
  <2> QED BY <1>2, <2>1, <2>2, <2>3, LifeWrites, LifeFlushed DEF Writes
<1>3. CASE Environment
  <2>1. CASE LineArrives
    BY <2>1, LifeUntouched DEF LineArrives, spoolVars
  <2>2. CASE WriterDiesNow
    <3>1. deaths' # 0
      BY <2>2 DEF WriterDiesNow, PInv, Integral
    <3> QED BY <3>1 DEF FirstLife
  <2> QED BY <1>3, <2>1, <2>2 DEF Environment
<1>4. CASE Restores /\ (ReaderRemoves \/ ReaderUnlinks)
  BY <1>4, LifeRemoved DEF Restores, ReaderRemoves, ReaderUnlinks
<1>5. CASE UNCHANGED <<writerVars, spoolVars>>
  BY <1>5, LifeUntouched DEF writerVars, spoolVars
<1>6. Tails \/ Restores \/ Indexes \/ Disturbs \/ UNCHANGED vars
          => \/ Restores /\ (ReaderRemoves \/ ReaderUnlinks)
             \/ UNCHANGED <<writerVars, spoolVars>>
  BY DEF vars, Tails, Restores, Restoring, RestoreStep, Wakes,
         ReaderStarts, ReaderLists, ReaderFindsNone, ReaderFollows,
         ReaderUnpacks, ReaderPanics, ReaderEnds, ReaderSends, ReaderAtEOF,
         ReaderReceives, ReaderPushes, ReaderStops, ReaderJoins,
         ReaderWakes, Indexes,
         Indexing, PrimaryConnects, PrimaryIsFatal, PrimaryAdds,
         PrimaryWaits, PrimaryPings, PrimaryIdles, PrimaryFlushes,
         PrimaryFails, PrimaryStep, Disturbs, ReaderKilled, EsToggles
<1> QED BY <1>1, <1>2, <1>3, <1>4, <1>5, <1>6 DEF Next

-----------------------------------------------------------------------------
(* The head of a sequence without repetitions, and two such sequences.     *)
LEMMA TakenApart ==
    ASSUME NEW S, NEW s \in Seq(S), IsInjective(s), s # <<>>
    PROVE  /\ Tail(s) \in Seq(S) /\ IsInjective(Tail(s))
           /\ Head(s) \in S /\ Head(s) \notin Range(Tail(s))
           /\ Range(s) = Range(Tail(s)) \cup {Head(s)}
<1> DEFINE t == Tail(s)
<1>1. /\ t \in Seq(S) /\ Len(t) = Len(s) - 1 /\ Len(s) \in Nat \ {0}
      /\ Head(s) = s[1] /\ Head(s) \in S
      /\ \A n \in 1..Len(t) : t[n] = s[n + 1]
      /\ DOMAIN t = 1..Len(t) /\ DOMAIN s = 1..Len(s)
  OBVIOUS
<1> HIDE DEF t
<1>2. /\ Range(s) = {s[n] : n \in 1..Len(s)}
      /\ Range(t) = {t[n] : n \in 1..Len(t)}
  BY <1>1, RangeEquality
<1>3. \A n \in 1..Len(t) : n + 1 \in 1..Len(s) /\ n + 1 # 1
  BY <1>1
<1>4. 1 \in 1..Len(s)
  BY <1>1
<1>5. Head(s) \notin Range(t)
  BY <1>1, <1>2, <1>3, <1>4 DEF IsInjective
<1>6. IsInjective(t)
  <2> SUFFICES ASSUME NEW m \in 1..Len(t), NEW n \in 1..Len(t), t[m] = t[n]
               PROVE  m = n
    BY <1>1 DEF IsInjective
  <2>1. \A a, b \in 1..Len(s) : s[a] = s[b] => a = b
    BY <1>1 DEF IsInjective
  <2>2. m + 1 \in 1..Len(s) /\ n + 1 \in 1..Len(s) /\ s[m + 1] = s[n + 1]
    BY <1>1, <1>3
  <2>3. m + 1 = n + 1
    BY <2>1, <2>2
  <2> QED BY <2>3
<1>7. ASSUME NEW x \in Range(s) PROVE x \in Range(t) \cup {Head(s)}
  <2>1. PICK n \in 1..Len(s) : x = s[n]
    BY <1>2
  <2>2. CASE n = 1
    BY <1>1, <2>1, <2>2
  <2>3. CASE n # 1
    <3>1. n - 1 \in 1..Len(t) /\ t[n - 1] = s[n]
      BY <1>1, <2>3
    <3> QED BY <1>2, <2>1, <3>1
  <2> QED BY <2>2, <2>3
<1>8. Range(t) \cup {Head(s)} \subseteq Range(s)
  BY <1>1, <1>2, <1>3, <1>4
<1> QED BY <1>1, <1>5, <1>6, <1>7, <1>8 DEF t

(* Two sequences without repetitions and without a common element.         *)
LEMMA JoinedApart ==
    ASSUME NEW a \in Seq(LineNo), NEW b \in Seq(LineNo), IsInjective(a),
           IsInjective(b), Range(a) \cap Range(b) = {}
    PROVE  /\ a \o b \in Seq(LineNo) /\ IsInjective(a \o b)
           /\ Range(a \o b) = Range(a) \cup Range(b)
<1> DEFINE c == a \o b
           La == Len(a)
           Lb == Len(b)
<1>1. /\ c \in Seq(LineNo) /\ Len(c) = La + Lb
      /\ \A n \in 1..(La + Lb) : c[n] = IF n <= La THEN a[n] ELSE b[n - La]
  BY ConcatProperties
<1>2. /\ DOMAIN c = 1..Len(c) /\ DOMAIN a = 1..La /\ DOMAIN b = 1..Lb
      /\ La \in Nat /\ Lb \in Nat
  BY <1>1
<1>3. Range(c) = Range(a) \cup Range(b)
  BY RangeConcatenation
<1> HIDE DEF c, La, Lb
<1>4. /\ \A n \in 1..La : a[n] \in Range(a)
      /\ \A n \in 1..Lb : b[n] \in Range(b)
  BY <1>2 DEF Range
<1>5. IsInjective(c)
  <2> SUFFICES ASSUME NEW m \in 1..(La + Lb), NEW n \in 1..(La + Lb),
                      c[m] = c[n]
               PROVE  m = n
    BY <1>1, <1>2 DEF IsInjective
  <2>1. ASSUME NEW q \in 1..(La + Lb)
        PROVE  \/ q \in 1..La /\ c[q] = a[q]
               \/ q - La \in 1..Lb /\ c[q] = b[q - La]
    BY <1>1, <1>2
  <2>2. CASE m \in 1..La /\ c[m] = a[m]
    <3>1. n \in 1..La /\ c[n] = a[n]
      BY <1>4, <2>1, <2>2
    <3> QED BY <1>2, <2>2, <3>1 DEF IsInjective
  <2>3. CASE m - La \in 1..Lb /\ c[m] = b[m - La]
    <3>1. n - La \in 1..Lb /\ c[n] = b[n - La]
      BY <1>4, <2>1, <2>3
    <3>2. m - La = n - La
      BY <1>2, <2>3, <3>1 DEF IsInjective
    <3> QED BY <1>2, <3>2
  <2> QED BY <2>1, <2>2, <2>3
<1> QED BY <1>1, <1>3, <1>5 DEF c

-----------------------------------------------------------------------------
(* The reader has a tail only while it follows a file, a line in its hands *)
(* only before it sends it, and nothing left over when it chooses a file.  *)
LEMMA StepTailHere == Typed /\ TailHere /\ [Next]_vars => TailHere'
<1> SUFFICES ASSUME Typed, TailHere, [Next]_vars PROVE TailHere'
  OBVIOUS
<1>1. CASE WriterBegins
  <2>1. /\ UNCHANGED <<tpc, tfile, rpc, rfile, rline, ppc, actions,
                       parsedLines>>
        /\ rpc # "gz" => UNCHANGED rest
    BY <1>1 DEF WriterBegins, primaryVars
  <2> QED BY <2>1 DEF TailHere, Following
<1>2. CASE UNCHANGED <<tpc, tfile, rpc, rfile, rline, rest, ppc, actions,
                       parsedLines>>
  BY <1>2 DEF TailHere, Following
<1>3. CASE Tails
  <2>1. /\ UNCHANGED <<tfile, rpc, rfile, rline, rest, ppc, actions,
                       parsedLines>>
        /\ tpc # "off"
    BY <1>3 DEF Tails, Tailing, TailOpens, TailReads, TailStops, TailGoesOn,
                TailModified, TailTruncated, readerVars, restoreVars,
                primaryVars
  <2> QED BY <2>1 DEF TailHere, Following
<1>4. CASE ReaderEnds
  BY <1>4 DEF ReaderEnds, TailForgotten, TailHere, Following
<1>5. CASE Restores /\ ~ReaderEnds
  <2>1. CASE ReaderRemoves \/ ReaderUnlinks \/ ReaderLists \/ ReaderWakes
    BY <2>1 DEF ReaderRemoves, ReaderUnlinks, Removed, ReaderLists,
                ReaderWakes, RestoreStep, tailVars, primaryVars, TailHere,
                Following
  <2>2. CASE ReaderStarts
    BY <2>2 DEF ReaderStarts, tailVars, TailHere, Following
  <2>3. CASE ReaderFollows
    BY <2>3 DEF ReaderFollows, TailStarts, RestoreStep, primaryVars, TailHere,
                Following
  <2>4. CASE ReaderUnpacks \/ ReaderSends \/ ReaderAtEOF
    BY <2>4 DEF ReaderUnpacks, ReaderSends, ReaderAtEOF, RestoreStep,
                tailVars, primaryVars, TailHere, Following
  <2>5. CASE ReaderReceives
    BY <2>5 DEF ReaderReceives, TailHandsOver, RestoreStep, primaryVars,
                TailHere, Following
  <2>6. CASE ReaderPushes
    BY <2>6 DEF ReaderPushes, RestoreStep, tailVars, primaryVars, TailHere,
                Following
  <2>7. CASE ReaderStops
    BY <2>7 DEF ReaderStops, RestoreStep, primaryVars, TailHere, Following
  <2>8. CASE ReaderJoins
    BY <2>8 DEF ReaderJoins, TailForgotten, RestoreStep, primaryVars,
                TailHere, Following
  <2> QED BY <1>5, <2>1, <2>2, <2>3, <2>4, <2>5, <2>6, <2>7, <2>8
          DEF Restores, Restoring, Wakes, ReaderFindsNone, ReaderPanics
<1>6. CASE Indexes /\ ~ReaderEnds
  <2>1. UNCHANGED <<tpc, tfile, rpc, rfile, rline, rest>>
    BY <1>6 DEF Indexes, Indexing, PrimaryConnects, PrimaryIsFatal,
                PrimaryAdds, PrimaryWaits, PrimaryPings, PrimaryIdles,
                PrimaryFlushes, PrimaryFails, PrimaryStep, restoreVars,
                tailVars
  <2>2. ppc # "off" /\ ppc' \notin {"off", "connect"}
    BY <1>6 DEF Indexes, Indexing, PrimaryConnects, PrimaryIsFatal,
                PrimaryAdds, PrimaryWaits, PrimaryPings, PrimaryIdles,
                PrimaryFlushes, PrimaryFails
  <2> QED BY <2>1, <2>2 DEF TailHere, Following
<1>7. \/ WriterBegins \/ Tails \/ ReaderEnds
      \/ (Restores /\ ~ReaderEnds) \/ (Indexes /\ ~ReaderEnds)
      \/ UNCHANGED <<tpc, tfile, rpc, rfile, rline, rest, ppc, actions,
                     parsedLines>>
  <2> DEFINE Still == UNCHANGED <<tpc, tfile, rpc, rfile, rline, rest, ppc,
                                  actions, parsedLines>>
  <2>1. Writes \/ Environment \/ UNCHANGED vars => Still
    BY DEF vars, Writes, Environment, tailVars, readerVars, restoreVars,
           primaryVars
  <2>2. Disturbs => ReaderEnds \/ Still
    BY DEF Disturbs, ReaderKilled, EsToggles, tailVars, restoreVars,
           primaryVars
  <2> HIDE DEF Still
  <2>3. \/ WriterBegins \/ Tails \/ ReaderEnds \/ Still
        \/ (Restores /\ ~ReaderEnds) \/ (Indexes /\ ~ReaderEnds)
    BY <2>1, <2>2 DEF Next
  <2> QED BY <2>3 DEF Still
<1> QED BY <1>1, <1>2, <1>3, <1>4, <1>5, <1>6, <1>7

-----------------------------------------------------------------------------
(* What holds of a state in which no program has died.                     *)
Calm == deaths = 0 /\ killed = 0

Before ==
    /\ Typed /\ PInv /\ LineOrder /\ FirstLife /\ TailHere /\ Undisturbed
    /\ Calm

(* Lines that are in a file stay there, and files that are gone stay gone. *)
Grows ==
    \A k \in Files : \A n \in 1..Len(plain[k]) :
        /\ n \in 1..Len(plain'[k]) /\ plain'[k][n] = plain[k][n]
        /\ k \notin DOMAIN gz => k \notin DOMAIN gz'

(* The plain files are left alone, the compressed ones may be removed.     *)
LEMMA SameGrows ==
    ASSUME UNCHANGED plain, DOMAIN gz' \subseteq DOMAIN gz
    PROVE  Grows
BY DEF Grows

(* A file with a number that has not been used is created.                 *)
LEMMA CreatedGrows ==
    ASSUME Typed, NEW k \in Files, CreateFile(k), plain[k] = <<>>
    PROVE  Grows
<1>1. /\ DOMAIN gz' = DOMAIN gz \cup {k}
      /\ \A m \in Files : m # k => plain'[m] = plain[m]
  BY CreatedIsLess DEF CreateFile
<1>2. 1..Len(plain[k]) = {}
  OBVIOUS
<1> QED BY <1>1, <1>2 DEF Grows

(* The writer's steps only add to the files.                               *)
LEMMA WriterGrows ==
    ASSUME Before, deaths' = 0,
           WriterBegins \/ Writes \/ Environment
    PROVE  Grows /\ DOMAIN gz \subseteq DOMAIN gz'
<1> USE DEF Before
<1>1. CASE WriterBegins
  <2>1. backupcount = 0 /\ status = 0
    BY <1>1 DEF Calm, WriterBegins, WriterStart, PInv, WriterOrder
  <2>2. 1 \in Files /\ CreateFile(1)
    BY <1>1, <2>1, Constants DEF WriterBegins, WriterStart, Files
  <2>3. plain[1] = <<>>
    BY <2>1, <2>2 DEF Calm, FirstLife
  <2> QED BY <2>2, <2>3, CreatedGrows DEF CreateFile
<1>2. CASE WriterRotates
  <2>1. PICK k \in Files : k = backupcount + 1 /\ CreateFile(k)
    BY <1>2, Constants
    DEF WriterRotates, Typed, WriterTyped, WriterTypeOK, Files
  <2>2. plain[k] = <<>>
    <3>1. k > backupcount
      BY <2>1 DEF Typed, WriterTyped, WriterTypeOK
    <3> QED BY <3>1 DEF Calm, FirstLife
  <2> QED BY <2>1, <2>2, CreatedGrows DEF CreateFile
<1>3. CASE WriterWrites
  <2>1. /\ \A p \in 1..Len(plain[backupcount]) :
              plain'[backupcount][p] = plain[backupcount][p]
        /\ Len(plain'[backupcount]) = Len(plain[backupcount]) + 1
        /\ Len(plain[backupcount]) \in Nat
        /\ \A k \in Files : k # backupcount => plain'[k] = plain[k]
    BY <1>3, LineWritten
  <2>2. gz' = gz
    BY <1>3 DEF WriterWrites
  <2>3. \A n \in 1..Len(plain[backupcount]) :
            n \in 1..Len(plain'[backupcount])
    BY <2>1
  <2> QED BY <2>1, <2>2, <2>3 DEF Grows
<1>4. CASE WriterFlushed
  BY <1>4, SameGrows DEF WriterFlushed, Compressed
<1>5. CASE \/ WriterNamesFile \/ WriterReceive \/ WriterIdle \/ WriterNamesNext
           \/ WriterNotesNumber \/ WriterRestarts \/ LineArrives
           \/ \E k \in Files : RemovesPlain(k)
  BY <1>5, SameGrows
  DEF WriterNamesFile, WriterReceive, WriterIdle, WriterNamesNext,
      WriterNotesNumber, WriterRestarts, LineArrives, RemovesPlain,
      RemovePlain, spoolVars
<1>6. ~WriterDiesNow
  BY DEF WriterDiesNow, PInv, Integral
<1> QED BY <1>1, <1>2, <1>3, <1>4, <1>5, <1>6 DEF Writes, Environment

(* A place that is passed stays passed, ...                                *)
LEMMA StemsOn ==
    ASSUME Grows,
           \A k \in Files : \A n \in 1..Len(plain[k]) :
               Passed(k, n) => Passed(k, n)'
    PROVE  \A l : Stems(l) => Stems(l)'
BY DEF Grows, Stems

(* ... and a file that is gone stays gone.                                 *)
LEMMA OldOn ==
    ASSUME Grows PROVE \A l : Old(l) => Old(l)'
BY DEF Grows, Old

(* Lines of a file that is there, beyond the passed ones, are not taken.   *)
LEMMA NotTaken ==
    ASSUME Before, NEW n \in 1..Len(plain[rfile]), ~Passed(rfile, n)
    PROVE  plain[rfile][n] \notin Taken
<1>1. rfile \in Files
  BY DEF Before, Typed, ReaderTyped, ReaderTypeOK
<1>2. SUFFICES ASSUME plain[rfile][n] \in Taken PROVE FALSE
  OBVIOUS
<1>3. Stems(plain[rfile][n])
  BY <1>2 DEF Before, Calm, Undisturbed, NextLine
<1>4. PICK k \in Files : \E m \in 1..Len(plain[k]) :
          plain[k][m] = plain[rfile][n] /\ Passed(k, m)
  BY <1>3 DEF Stems
<1>4a. PICK m \in 1..Len(plain[k]) :
          plain[k][m] = plain[rfile][n] /\ Passed(k, m)
  BY <1>4
<1>5. k = rfile /\ m = n
  BY <1>1, <1>4a DEF Before, LineOrder, FilesApart
<1> QED BY <1>4a, <1>5

-----------------------------------------------------------------------------
(* Steps of the writer, which the reader does not notice.                  *)
LEMMA WriterKeeps ==
    ASSUME Before, WriterBegins \/ Writes \/ Environment, deaths' = 0
    PROVE  Undisturbed'
<1> USE DEF Before
<1>1. Grows /\ DOMAIN gz \subseteq DOMAIN gz'
  BY WriterGrows
<1>2. /\ UNCHANGED <<tpc, tfile, tpos, tline, dying, rpc, rfile, rline, count,
                     parsedLines, ppc, actions, esDocs, killed>>
      /\ UNCHANGED <<rest, truncated>>
  <2>1. CASE WriterBegins
    <3>1. wpc = "start" /\ backupcount = 0
      BY <2>1 DEF Calm, WriterBegins, WriterStart, PInv, WriterOrder
    <3>2. DOMAIN gz = {}
      BY <3>1 DEF Calm, PInv, WriterOrder
    <3>3. rpc \in {"down", "list", "sleep"}
      BY <3>2 DEF Typed, FileThere
    <3>4. tpc = "off"
      BY <3>3 DEF TailHere, Following
    <3>5. truncated' = truncated
      BY <2>1, <3>4 DEF WriterBegins, Typed, TailTyped, TailTypeOK, Calm,
                        Undisturbed
    <3> QED BY <2>1, <3>3, <3>5 DEF WriterBegins, primaryVars
  <2>2. CASE Writes \/ Environment
    BY <2>2 DEF Writes, Environment, tailVars, readerVars, restoreVars,
                primaryVars
  <2> QED BY <2>1, <2>2
<1>3. Distinct /\ NextLine /\ ~truncated
  BY DEF Calm, Undisturbed
<1>4. Taken' = Taken /\ Distinct' /\ ~truncated'
  BY <1>2, <1>3 DEF Taken, Distinct
<1>5. \A k \in Files : \A n \in 1..Len(plain[k]) :
          Passed(k, n) => Passed(k, n)'
  BY <1>1, <1>2 DEF Grows, Passed, Following
<1>6. rfile \in Files
  BY DEF Typed, ReaderTyped, ReaderTypeOK
<1>7. /\ \A n \in 1..Len(plain[rfile]) :
            n \in 1..Len(plain'[rfile]) /\ plain'[rfile][n] = plain[rfile][n]
      /\ Len(plain[rfile]) \in Nat /\ Len(plain'[rfile]) \in Nat
      /\ tpos \in Nat
  <2>1. Typed'
    BY BeginsTyped, WritesTyped, EnvironmentTyped
  <2>2. Len(plain[rfile]) \in Nat /\ tpos \in Nat
    BY <1>6, Lengths
  <2>3. Len(plain'[rfile]) \in Nat
    BY <1>6, <2>1 DEF Typed, PlainTyped
  <2> QED BY <1>1, <1>6, <2>2, <2>3 DEF Grows
<1>8. (Following => tpos <= Len(plain[rfile]))
          => (Following => tpos <= Len(plain'[rfile]))
  BY <1>7
<1>9. NextLine'
  <2>1. \A l \in Taken' : Stems(l)'
    BY <1>1, <1>3, <1>4, <1>5, StemsOn DEF NextLine, TailAhead
  <2>2. (ppc \in {"off", "connect"} => \A l \in esDocs : Old(l))'
    BY <1>1, <1>2, <1>3, OldOn DEF NextLine, TailAhead
  <2>3. (\A l \in Range(rest) :
            \E n \in 1..Len(plain[rfile]) : plain[rfile][n] = l)'
    BY <1>2, <1>3, <1>7 DEF NextLine, TailAhead
  <2>4. (Following => tpos <= Len(plain[rfile]))'
    BY <1>2, <1>3, <1>8 DEF NextLine, TailAhead, Following
  <2>5. (tpc = "send" =>
          tpos >= 1 /\ tline = plain[rfile][tpos] /\ tline \notin Taken)'
    <3> SUFFICES ASSUME tpc = "send"
                 PROVE  /\ tpos >= 1 /\ tline = plain'[rfile][tpos]
                        /\ tline \notin Taken
      BY <1>2, <1>4
    <3>1. /\ tpos >= 1 /\ tline = plain[rfile][tpos] /\ tline \notin Taken
          /\ Following /\ tpos <= Len(plain[rfile])
      BY <1>3 DEF NextLine, TailAhead, TailHere
    <3>2. tpos \in 1..Len(plain[rfile])
      BY <1>7, <3>1
    <3> QED BY <1>7, <3>1, <3>2
  <2>6. (rpc = "push" =>
          /\ rline \notin Taken
          /\ \E n \in 1..tpos : /\ rline = plain[rfile][n]
                                /\ tpc = "send" => n < tpos)'
    <3> SUFFICES ASSUME rpc = "push"
                 PROVE  /\ rline \notin Taken
                        /\ \E n \in 1..tpos : /\ rline = plain'[rfile][n]
                                              /\ tpc = "send" => n < tpos
      BY <1>2, <1>4
    <3>1. rline \notin Taken /\ tpos <= Len(plain[rfile])
      BY <1>3 DEF NextLine, TailAhead, Following
    <3>2. PICK n \in 1..tpos : /\ rline = plain[rfile][n]
                               /\ tpc = "send" => n < tpos
      BY <1>3 DEF NextLine, TailAhead
    <3>3. n \in 1..Len(plain[rfile])
      BY <1>7, <3>1
    <3> QED BY <1>7, <3>1, <3>2, <3>3
  <2> QED BY <2>1, <2>2, <2>3, <2>4, <2>5, <2>6 DEF NextLine, TailAhead
<1> QED BY <1>4, <1>9 DEF Undisturbed

-----------------------------------------------------------------------------
(* A step that takes no line.                                              *)
LEMMA StillKeeps ==
    ASSUME Before, UNCHANGED <<plain, actions, parsedLines, esDocs, rest>>,
           DOMAIN gz' \subseteq DOMAIN gz, truncated' = FALSE,
           rest # <<>> => rfile' = rfile,
           ppc' \in {"off", "connect"} => ppc \in {"off", "connect"},
           \A k \in Files : \A n \in 1..Len(plain[k]) :
               Passed(k, n) => Passed(k, n)',
           TailAhead'
    PROVE  Undisturbed'
<1>1. Distinct /\ NextLine
  BY DEF Before, Calm, Undisturbed
<1>2. Taken' = Taken /\ Distinct'
  BY <1>1 DEF Taken, Distinct
<1>3. Grows
  BY SameGrows
<1>4. \A l \in Taken' : Stems(l)'
  BY <1>1, <1>2, <1>3, StemsOn DEF NextLine
<1>5. (ppc \in {"off", "connect"} => \A l \in esDocs : Old(l))'
  BY <1>1, <1>3, OldOn DEF NextLine
<1>6. (\A l \in Range(rest) :
          \E n \in 1..Len(plain[rfile]) : plain[rfile][n] = l)'
  <2>1. CASE rest = <<>>
    <3>1. Range(rest') = {}
      BY <2>1 DEF Range
    <3> QED BY <3>1
  <2>2. CASE rest # <<>>
    BY <1>1, <2>2 DEF NextLine
  <2> QED BY <2>1, <2>2
<1> QED BY <1>2, <1>4, <1>5, <1>6 DEF NextLine, Undisturbed

(* A step of the tail or of the primary that leaves what the reader holds. *)
LEMMA AheadKept ==
    ASSUME Before, UNCHANGED <<plain, rpc, rfile, rline, tpos, tline>>,
           tpc' = "send" => tpc = "send", Taken' \subseteq Taken
    PROVE  TailAhead'
BY DEF Before, Calm, Undisturbed, NextLine, TailAhead, Following

(* The tail reads only lines that have not been taken.                     *)
LEMMA TailsKeep ==
    ASSUME Before, Tails
    PROVE  Undisturbed'
<1> USE DEF Before
<1>1. /\ UNCHANGED <<plain, gz, actions, parsedLines, esDocs, rest, rfile,
                     rpc, rline, ppc>>
      /\ tpc # "off"
  BY DEF Tails, Tailing, TailOpens, TailReads, TailStops, TailGoesOn,
         TailModified, TailTruncated, spoolVars, readerVars, restoreVars,
         primaryVars
<1>2. Following /\ tfile = rfile
  BY <1>1 DEF TailHere
<1>3. Taken' = Taken /\ ~truncated /\ TailAhead
  BY <1>1 DEF Taken, Calm, Undisturbed, NextLine
<1>4. CASE TailReads /\ tpos < Len(plain[tfile])
  <2>1. /\ tpc = "read" /\ tpc' = "send" /\ tpos' = tpos + 1
        /\ tline' = plain[tfile][tpos + 1] /\ UNCHANGED truncated
    BY <1>4 DEF TailReads
  <2>2. /\ rfile \in Files /\ Len(plain[rfile]) \in Nat /\ tpos \in Nat
        /\ rfile \in DOMAIN gz
    BY <1>2, Lengths
    DEF Typed, ReaderTyped, ReaderTypeOK, FileThere, Following
  <2>3. /\ tpos + 1 \in 1..Len(plain[rfile]) /\ ~(tpos + 1 <= tpos)
        /\ \A n \in Nat : n <= tpos => n <= tpos + 1 /\ n < tpos + 1
        /\ \A n \in 1..tpos : n \in 1..(tpos + 1) /\ n < tpos + 1
        /\ tpos + 1 >= 1 /\ tpos + 1 <= Len(plain[rfile])
    BY <1>2, <1>4, <2>2
  <2>4. ~Passed(rfile, tpos + 1)
    BY <1>2, <2>2, <2>3 DEF Passed, Following
  <2>5. tline' \notin Taken
    BY <1>2, <2>1, <2>3, <2>4, NotTaken
  <2>6. TailAhead'
    BY <1>1, <1>2, <1>3, <2>1, <2>3, <2>5 DEF TailAhead, Following
  <2>7. \A k \in Files : \A n \in 1..Len(plain[k]) :
            Passed(k, n) => Passed(k, n)'
    BY <1>1, <2>1, <2>3 DEF Passed, Following
  <2>8. truncated' = FALSE
    BY <1>3, <2>1 DEF Typed, TailTyped, TailTypeOK
  <2> QED BY <1>1, <2>6, <2>7, <2>8, StillKeeps
<1>5. CASE /\ UNCHANGED <<tpos, tline>> /\ tpc' # "send" /\ truncated' = FALSE
  <2>1. TailAhead'
    BY <1>1, <1>3, <1>5, AheadKept
  <2>2. \A k \in Files : \A n \in 1..Len(plain[k]) :
            Passed(k, n) => Passed(k, n)'
    BY <1>1, <1>5 DEF Passed, Following
  <2> QED BY <1>1, <1>5, <2>1, <2>2, StillKeeps
<1>6. \/ TailReads /\ tpos < Len(plain[tfile])
      \/ UNCHANGED <<tpos, tline>> /\ tpc' # "send" /\ truncated' = FALSE
  BY <1>3 DEF Tails, Tailing, TailOpens, TailReads, TailStops, TailGoesOn,
              TailModified, TailTruncated, Typed, TailTyped, TailTypeOK
<1> QED BY <1>4, <1>5, <1>6

-----------------------------------------------------------------------------
(* The end of the process, when all it has indexed is gone from the spool. *)
LEMMA EndsKeep ==
    ASSUME Before, ReaderEnds, \A l \in esDocs : Old(l)
    PROVE  Undisturbed'
<1>1. /\ actions' = <<>> /\ parsedLines' = <<>> /\ rest' = <<>>
      /\ rpc' = "down" /\ tpc' = "off" /\ truncated' = FALSE
      /\ UNCHANGED <<plain, gz, esDocs>>
  BY DEF ReaderEnds, TailForgotten, spoolVars
<1>2. Range(<<>>) = {} /\ IsInjective(<<>>)
  BY DEF Range, IsInjective
<1>3. Taken' = esDocs
  BY <1>1, <1>2 DEF Taken
<1>4. Distinct'
  BY <1>1, <1>2 DEF Distinct
<1>5. \A l \in esDocs : Old(l)'
  BY <1>1, SameGrows, OldOn
<1>6. \A l : Old(l)' => Stems(l)'
  BY DEF Old, Stems, Passed
<1>7. TailAhead'
  BY <1>1 DEF TailAhead, Following
<1> QED BY <1>1, <1>2, <1>3, <1>4, <1>5, <1>6, <1>7 DEF NextLine, Undisturbed

(* Before it has chosen a file, all it has taken is gone from the spool.   *)
LEMMA BetweenFiles ==
    ASSUME Before, rpc \in {"down", "list", "decide", "sleep"}
    PROVE  /\ \A l \in Taken : Old(l)
           /\ \A k \in Files : \A n \in 1..Len(plain[k]) :
                  Passed(k, n) => k \notin DOMAIN gz
           /\ tpc = "off" /\ rest = <<>>
<1>1. \A k, n : Passed(k, n) => k \notin DOMAIN gz
  BY DEF Passed, Following
<1>2. \A l \in Taken : Old(l)
  BY <1>1 DEF Before, Calm, Undisturbed, NextLine, Stems, Old
<1> QED BY <1>1, <1>2 DEF Before, TailHere, Following

-----------------------------------------------------------------------------
(* Before a file is unpacked, no line of it has been taken.                *)
LEMMA UnpacksKeep ==
    ASSUME Before, ReaderUnpacks
    PROVE  Undisturbed'
<1> USE DEF Before
<1>1. /\ rpc = "decide" /\ rpc' = "gz" /\ rfile # current
      /\ rest' = gz[rfile]
      /\ UNCHANGED <<rfile, rline, parsedLines, actions, esDocs, plain, gz,
                     tpc, truncated, ppc>>
  BY DEF ReaderUnpacks, RestoreStep, tailVars, spoolVars, primaryVars
<1>2. /\ rfile \in DOMAIN gz /\ rfile \in Files
      /\ gz[rfile] \in Seq(LineNo) /\ Len(plain[rfile]) \in Nat
  BY <1>1, Lengths DEF Typed, FileThere, GzTyped
<1>3. /\ Len(gz[rfile]) <= Len(plain[rfile])
      /\ \A n \in 1..Len(gz[rfile]) : gz[rfile][n] = plain[rfile][n]
      /\ Len(gz[rfile]) \in Nat
  <2>1. Unflushed(rfile) \in Nat
    BY Lengths DEF Unflushed
  <2>2. /\ Len(plain[rfile]) = Len(gz[rfile]) + Unflushed(rfile)
        /\ \A n \in 1..Len(gz[rfile]) : gz[rfile][n] = plain[rfile][n]
    BY <1>2 DEF Calm, FirstLife, GzBehind
  <2>3. Len(gz[rfile]) \in Nat
    BY <1>2
  <2> QED BY <2>1, <2>2, <2>3
<1>4. \A n \in 1..Len(gz[rfile]) : n \in 1..Len(plain[rfile])
  BY <1>2, <1>3
<1>5. /\ DOMAIN gz[rfile] = 1..Len(gz[rfile])
      /\ Range(gz[rfile]) = {gz[rfile][n] : n \in 1..Len(gz[rfile])}
  BY <1>2, RangeEquality
<1>6. IsInjective(gz[rfile])
  BY <1>2, <1>3, <1>4, <1>5 DEF IsInjective, LineOrder, FilesApart
<1>7. \A n \in 1..Len(plain[rfile]) : plain[rfile][n] \notin Taken
  <2>1. \A n : ~Passed(rfile, n)
    BY <1>1, <1>2 DEF Passed, Following
  <2> QED BY <2>1, NotTaken
<1>8. Distinct /\ NextLine /\ ~truncated /\ Taken' = Taken
  BY <1>1 DEF Calm, Undisturbed, Taken
<1>9. Range(rest') \cap Taken = {}
  BY <1>1, <1>3, <1>4, <1>5, <1>7
<1>10. Distinct'
  BY <1>1, <1>6, <1>8, <1>9 DEF Distinct
<1>11. \A l \in Taken' : Stems(l)'
  <2>1. \A l \in Taken : Old(l)'
    BY <1>1, BetweenFiles, SameGrows, OldOn
  <2>2. \A l : Old(l)' => Stems(l)'
    BY DEF Old, Stems, Passed
  <2> QED BY <1>8, <2>1, <2>2
<1>12. (ppc \in {"off", "connect"} => \A l \in esDocs : Old(l))'
  BY <1>1, <1>8 DEF NextLine, Old
<1>13. (\A l \in Range(rest) :
          \E n \in 1..Len(plain[rfile]) : plain[rfile][n] = l)'
  BY <1>1, <1>3, <1>4, <1>5
<1>14. TailAhead'
  BY <1>1, BetweenFiles DEF TailAhead, Following
<1> QED BY <1>1, <1>8, <1>10, <1>11, <1>12, <1>13, <1>14
        DEF NextLine, Undisturbed

(* A line that is taken next enters parsedLines.                           *)
LEMMA EntersTaken ==
    ASSUME Before, NEW l \in LineNo, l \notin Taken,
           parsedLines' = Append(parsedLines, l),
           UNCHANGED <<actions, esDocs>>
    PROVE  /\ Taken' = Taken \cup {l}
           /\ IsInjective(actions') /\ IsInjective(parsedLines')
           /\ Range(actions') \cap Range(parsedLines') = {}
           /\ Range(parsedLines') \cap esDocs' = {}
<1>1. parsedLines \in Seq(LineNo)
  BY DEF Before, Typed, ReaderTyped
<1>2. Distinct
  BY DEF Before, Calm, Undisturbed
<1>3. l \notin Range(parsedLines)
  BY DEF Taken
<1>4. /\ IsInjective(parsedLines')
      /\ Range(parsedLines') = Range(parsedLines) \cup {l}
  BY <1>1, <1>2, <1>3, AppendedApart DEF Distinct
<1> QED BY <1>2, <1>4 DEF Taken, Distinct

(* The next line of the file that is unpacked.                             *)
LEMMA SendsKeep ==
    ASSUME Before, ReaderSends
    PROVE  Undisturbed'
<1> USE DEF Before
<1>1. /\ rpc = "gz" /\ rpc' = "gz" /\ rest # <<>> /\ rest' = Tail(rest)
      /\ parsedLines' = Append(parsedLines, Head(rest))
      /\ UNCHANGED <<rfile, rline, actions, esDocs, plain, gz, tpc, truncated,
                     ppc, tpos>>
  BY DEF ReaderSends, RestoreStep, tailVars, spoolVars, primaryVars
<1>2. Distinct /\ NextLine /\ ~truncated
  BY DEF Calm, Undisturbed
<1>3. PICK l \in LineNo : l = Head(rest) /\ l \notin Range(Tail(rest))
         /\ Range(rest) = Range(Tail(rest)) \cup {l}
         /\ IsInjective(Tail(rest))
  <2>1. rest \in Seq(LineNo)
    BY DEF Typed, ReaderTyped
  <2> QED BY <1>1, <1>2, <2>1, TakenApart DEF Distinct
<1>4. l \notin Taken
  BY <1>2, <1>3 DEF Distinct
<1>5. /\ Taken' = Taken \cup {l}
      /\ IsInjective(actions') /\ IsInjective(parsedLines')
      /\ Range(actions') \cap Range(parsedLines') = {}
      /\ Range(parsedLines') \cap esDocs' = {}
  BY <1>1, <1>3, <1>4, EntersTaken
<1>6. Distinct'
  BY <1>1, <1>2, <1>3, <1>5 DEF Distinct
<1>7. \A x : Stems(x)' = Stems(x) /\ Old(x)' = Old(x)
  BY <1>1 DEF Stems, Old, Passed, Following
<1>8. Stems(l)
  <2>1. rfile \in Files
    BY DEF Typed, ReaderTyped, ReaderTypeOK
  <2> QED BY <1>1, <1>2, <1>3, <2>1 DEF NextLine, Stems, Passed
<1>9. TailAhead'
  <2>1. tpc = "off" /\ ~Following'
    BY <1>1 DEF TailHere, Following
  <2> QED BY <1>1, <2>1 DEF TailAhead, Following
<1> QED BY <1>1, <1>2, <1>3, <1>5, <1>6, <1>7, <1>8, <1>9
        DEF NextLine, Undisturbed

(* The line that was received from the tail.                               *)
LEMMA PushesKeep ==
    ASSUME Before, ReaderPushes
    PROVE  Undisturbed'
<1> USE DEF Before
<1>1. /\ rpc = "push" /\ rpc' \in {"tail", "stop"}
      /\ parsedLines' = Append(parsedLines, rline)
      /\ UNCHANGED <<rfile, rest, actions, esDocs, plain, gz, tpc, tline,
                     truncated, ppc, tpos>>
  BY DEF ReaderPushes, RestoreStep, tailVars, spoolVars, primaryVars
<1>2. Distinct /\ NextLine /\ TailAhead /\ ~truncated
  BY DEF Calm, Undisturbed, NextLine
<1>3. rline \in LineNo /\ rline \notin Taken /\ rest = <<>>
  BY <1>1, <1>2 DEF TailAhead, Typed, ReaderTyped, TailHere
<1>4. /\ Taken' = Taken \cup {rline}
      /\ IsInjective(actions') /\ IsInjective(parsedLines')
      /\ Range(actions') \cap Range(parsedLines') = {}
      /\ Range(parsedLines') \cap esDocs' = {}
  BY <1>1, <1>3, EntersTaken
<1>5. Range(rest) = {}
  BY <1>3 DEF Range
<1>6. Distinct'
  BY <1>1, <1>2, <1>4, <1>5 DEF Distinct
<1>7. \A x : Stems(x)' = Stems(x) /\ Old(x)' = Old(x)
  BY <1>1 DEF Stems, Old, Passed, Following
<1>8. /\ rfile \in Files /\ tpos \in Nat /\ Len(plain[rfile]) \in Nat
      /\ tpos <= Len(plain[rfile])
  BY <1>1, <1>2, Lengths
  DEF Typed, ReaderTyped, ReaderTypeOK, TailAhead, Following
<1>9. PICK n \in 1..tpos : /\ rline = plain[rfile][n]
                           /\ tpc = "send" => n < tpos
  BY <1>1, <1>2 DEF TailAhead
<1>10. n \in 1..Len(plain[rfile]) /\ n <= tpos
  BY <1>8
<1>11. Stems(rline)
  BY <1>1, <1>8, <1>9, <1>10 DEF Stems, Passed, Following
<1>12. TailAhead'
  <2>1. ASSUME tpc = "send" PROVE tline \notin Taken'
    <3>1. tpos \in 1..Len(plain[rfile]) /\ n # tpos
      BY <1>2, <1>8, <1>9, <2>1 DEF TailAhead
    <3>2. tline = plain[rfile][tpos] /\ tline \notin Taken
      BY <1>2, <2>1 DEF TailAhead
    <3>3. tline # rline
      BY <1>8, <1>9, <1>10, <3>1, <3>2 DEF LineOrder, FilesApart
    <3> QED BY <1>4, <3>2, <3>3
  <2> QED BY <1>1, <1>2, <2>1 DEF TailAhead, Following
<1> QED BY <1>1, <1>2, <1>4, <1>5, <1>6, <1>7, <1>11, <1>12
        DEF NextLine, Undisturbed

-----------------------------------------------------------------------------
(* A file is removed: all of it is passed.                                 *)
LEMMA RemovalKeeps ==
    ASSUME Before, Removed(rfile), rpc \in {"remove", "unlink"},
           rpc' \in {"list", "sleep"}
    PROVE  Undisturbed'
<1> USE DEF Before
<1>1. /\ UNCHANGED <<plain, rfile, rline, rest, actions, parsedLines, esDocs,
                     ppc, tpc, truncated>>
      /\ DOMAIN gz' = DOMAIN gz \ {rfile}
  BY DEF Removed, tailVars, primaryVars
<1>2. tpc = "off" /\ truncated = FALSE
  BY DEF TailHere, Following, Calm, Undisturbed, Typed, TailTyped, TailTypeOK
<1>3. TailAhead'
  BY <1>1, <1>2 DEF TailAhead, Following
<1>4. \A k \in Files : \A n \in 1..Len(plain[k]) :
          Passed(k, n) => Passed(k, n)'
  BY <1>1 DEF Passed, Following
<1> QED BY <1>1, <1>2, <1>3, <1>4, StillKeeps

(* The end of the process, before it has chosen a file to unpack.          *)
LEMMA EndsEarly ==
    ASSUME Before, ReaderEnds, rpc \in {"list", "decide"}
    PROVE  Undisturbed'
BY BetweenFiles, EndsKeep DEF Taken

(* The other steps of doRestoreTask take no line.                          *)
LEMMA RestoresKeep ==
    ASSUME Before, Restores
    PROVE  Undisturbed'
<1> USE DEF Before
<1>a. truncated = FALSE /\ TailAhead
  BY DEF Calm, Undisturbed, NextLine, Typed, TailTyped, TailTypeOK
<1>b. /\ Len(plain[rfile]) \in Nat
      /\ rpc \notin {"down", "list", "sleep"} => rfile \in DOMAIN gz
  BY Lengths DEF Typed, ReaderTyped, ReaderTypeOK, FileThere
<1>1. CASE ReaderStarts
  <2>1. /\ rpc = "down" /\ rpc' = "list"
        /\ UNCHANGED <<plain, gz, actions, parsedLines, esDocs, rest, rfile,
                       tpc, truncated>>
    BY <1>1 DEF ReaderStarts, spoolVars, tailVars
  <2>2. ppc = "off" /\ tpc = "off"
    BY <2>1, BetweenFiles DEF TailHere
  <2>3. TailAhead'
    BY <2>1, <2>2 DEF TailAhead, Following
  <2>4. \A k \in Files : \A n \in 1..Len(plain[k]) :
            Passed(k, n) => Passed(k, n)'
    BY <2>1 DEF Passed, Following
  <2> QED BY <1>a, <2>1, <2>2, <2>3, <2>4, StillKeeps
<1>2. CASE ReaderLists \/ Wakes
  <2>1. /\ rpc \in {"list", "sleep"} /\ rpc' \in {"list", "decide"}
        /\ UNCHANGED <<plain, gz, actions, parsedLines, esDocs, rest, tpc,
                       truncated, ppc>>
    BY <1>2 DEF ReaderLists, Wakes, ReaderWakes, RestoreStep, spoolVars,
                tailVars, primaryVars
  <2>2. tpc = "off" /\ rest = <<>>
    BY <2>1, BetweenFiles
  <2>3. TailAhead'
    BY <2>1, <2>2 DEF TailAhead, Following
  <2>4. \A k \in Files : \A n \in 1..Len(plain[k]) :
            Passed(k, n) => Passed(k, n)'
    BY <2>1 DEF Passed, Following
  <2> QED BY <1>a, <2>1, <2>2, <2>3, <2>4, StillKeeps
<1>3. CASE ReaderFindsNone \/ ReaderPanics
  BY <1>3, EndsEarly DEF ReaderFindsNone, ReaderPanics
<1>4. CASE ReaderFollows
  <2>1. /\ rpc = "decide" /\ rpc' = "tail" /\ tpc' = "open" /\ tpos' = 0
        /\ truncated' = FALSE
        /\ UNCHANGED <<plain, gz, actions, parsedLines, esDocs, rest, rfile,
                       ppc>>
    BY <1>4 DEF ReaderFollows, TailStarts, RestoreStep, spoolVars, primaryVars
  <2>2. 0 <= Len(plain[rfile])
    BY <1>b
  <2>3. TailAhead'
    BY <2>1, <2>2 DEF TailAhead, Following
  <2>4. \A k \in Files : \A n \in 1..Len(plain[k]) :
            Passed(k, n) => Passed(k, n)'
    BY <2>1 DEF Passed, Following
  <2> QED BY <2>1, <2>3, <2>4, StillKeeps
<1>5. CASE ReaderAtEOF
  <2>1. /\ rpc = "gz" /\ rpc' = "remove"
        /\ UNCHANGED <<plain, gz, actions, parsedLines, esDocs, rest, rfile,
                       tpc, truncated, ppc>>
    BY <1>5 DEF ReaderAtEOF, RestoreStep, spoolVars, tailVars, primaryVars
  <2>2. tpc = "off"
    BY <2>1 DEF TailHere, Following
  <2>3. TailAhead'
    BY <2>1, <2>2 DEF TailAhead, Following
  <2>4. \A k \in Files : \A n \in 1..Len(plain[k]) :
            Passed(k, n) => Passed(k, n)'
    BY <2>1 DEF Passed, Following
  <2> QED BY <1>a, <2>1, <2>3, <2>4, StillKeeps
<1>6. CASE ReaderReceives
  <2>1. /\ rpc = "tail" /\ rpc' = "push" /\ tpc = "send" /\ tpc' = "check"
        /\ rline' = tline
        /\ UNCHANGED <<plain, gz, actions, parsedLines, esDocs, rest, rfile,
                       tpos, truncated, ppc>>
    BY <1>6 DEF ReaderReceives, TailHandsOver, RestoreStep, spoolVars,
                primaryVars
  <2>2. tpos \in 1..tpos
    BY <1>a, <2>1, Lengths DEF TailAhead
  <2>3. Taken' = Taken
    BY <2>1 DEF Taken
  <2>4. TailAhead'
    BY <1>a, <2>1, <2>2, <2>3 DEF TailAhead, Following
  <2>5. \A k \in Files : \A n \in 1..Len(plain[k]) :
            Passed(k, n) => Passed(k, n)'
    BY <2>1 DEF Passed, Following
  <2> QED BY <1>a, <2>1, <2>4, <2>5, StillKeeps
<1>7. CASE ReaderStops
  <2>1. /\ rpc = "stop" /\ rpc' = "join"
        /\ UNCHANGED <<plain, gz, actions, parsedLines, esDocs, rest, rfile,
                       tpc, tpos, tline, truncated, ppc>>
    BY <1>7 DEF ReaderStops, RestoreStep, spoolVars, primaryVars
  <2>2. Taken' = Taken
    BY <2>1 DEF Taken
  <2>3. TailAhead'
    BY <1>a, <2>1, <2>2 DEF TailAhead, Following
  <2>4. \A k \in Files : \A n \in 1..Len(plain[k]) :
            Passed(k, n) => Passed(k, n)'
    BY <2>1 DEF Passed, Following
  <2> QED BY <1>a, <2>1, <2>3, <2>4, StillKeeps
<1>8. CASE ReaderJoins
  <2>1. /\ rpc = "join" /\ rpc' = "unlink" /\ tpc' = "off"
        /\ truncated' = FALSE
        /\ UNCHANGED <<plain, gz, actions, parsedLines, esDocs, rest, rfile,
                       ppc>>
    BY <1>8 DEF ReaderJoins, TailForgotten, RestoreStep, spoolVars,
                primaryVars
  <2>2. TailAhead'
    BY <2>1 DEF TailAhead, Following
  <2>3. \A k \in Files : \A n \in 1..Len(plain[k]) :
            Passed(k, n) => Passed(k, n)'
    BY <2>1 DEF Passed, Following
  <2> QED BY <2>1, <2>2, <2>3, StillKeeps
<1>9. CASE ReaderRemoves \/ ReaderUnlinks
  BY <1>9, RemovalKeeps DEF ReaderRemoves, ReaderUnlinks
<1> QED BY <1>1, <1>2, <1>3, <1>4, <1>5, <1>6, <1>7, <1>8, <1>9, UnpacksKeep,
           SendsKeep, PushesKeep DEF Restores, Restoring

-----------------------------------------------------------------------------
(* The primary hands on what has been taken.                               *)
LEMMA HandsOnKeeps ==
    ASSUME Before, PrimaryStep, ppc' \notin {"off", "connect"},
           Taken' \subseteq Taken, IsInjective(actions'),
           IsInjective(parsedLines'),
           Range(actions') \cap Range(parsedLines') = {},
           Range(parsedLines') \cap esDocs' = {}
    PROVE  Undisturbed'
<1> USE DEF Before
<1>1. UNCHANGED <<rpc, rfile, rline, rest, tpc, tpos, tline, truncated, plain,
                  gz>>
  BY DEF PrimaryStep, restoreVars, tailVars, spoolVars
<1>2. Distinct /\ NextLine /\ ~truncated
  BY DEF Calm, Undisturbed
<1>3. Distinct'
  BY <1>1, <1>2 DEF Distinct
<1>4. \A l : Stems(l)' = Stems(l)
  BY <1>1 DEF Stems, Passed, Following
<1>5. TailAhead'
  BY <1>1, AheadKept
<1> QED BY <1>1, <1>2, <1>3, <1>4, <1>5 DEF NextLine, Undisturbed

(* The steps of doPrimaryTask.                                             *)
LEMMA IndexesKeep ==
    ASSUME Before, Indexes
    PROVE  Undisturbed'
<1> USE DEF Before
<1>1. Distinct /\ NextLine
  BY DEF Calm, Undisturbed
<1>2. parsedLines \in Seq(LineNo) /\ actions \in Seq(LineNo)
  BY DEF Typed, ReaderTyped
<1>3. CASE PrimaryConnects \/ PrimaryPings \/ PrimaryIdles
  <2>1. /\ PrimaryStep /\ UNCHANGED <<parsedLines, actions, esDocs>>
        /\ ppc' \notin {"off", "connect"}
    BY <1>3 DEF PrimaryConnects, PrimaryPings, PrimaryIdles
  <2> QED BY <1>1, <2>1, HandsOnKeeps DEF Taken, Distinct
<1>4. CASE PrimaryIsFatal
  BY <1>1, <1>4, EndsKeep DEF PrimaryIsFatal, NextLine
<1>5. CASE PrimaryAdds
  <2>1. /\ PrimaryStep /\ parsedLines # <<>>
        /\ parsedLines' = Tail(parsedLines)
        /\ actions' = Append(actions, Head(parsedLines))
        /\ esDocs' = esDocs /\ ppc' \notin {"off", "connect"}
    BY <1>5 DEF PrimaryAdds
  <2>2. PICK l \in LineNo :
           /\ l = Head(parsedLines) /\ l \notin Range(Tail(parsedLines))
           /\ Range(parsedLines) = Range(Tail(parsedLines)) \cup {l}
           /\ IsInjective(Tail(parsedLines))
    BY <1>1, <1>2, <2>1, TakenApart DEF Distinct
  <2>3. l \notin Range(actions)
    BY <1>1, <2>2 DEF Distinct
  <2>4. /\ IsInjective(actions') /\ Range(actions') = Range(actions) \cup {l}
    BY <1>1, <1>2, <2>1, <2>2, <2>3, AppendedApart DEF Distinct
  <2>5. Taken' = Taken
    BY <2>1, <2>2, <2>4 DEF Taken
  <2> QED BY <1>1, <2>1, <2>2, <2>4, <2>5, HandsOnKeeps DEF Distinct
<1>6. CASE PrimaryWaits
  <2>1. /\ PrimaryStep /\ parsedLines # <<>>
        /\ parsedLines' = Tail(parsedLines)
        /\ UNCHANGED <<actions, esDocs>> /\ ppc' \notin {"off", "connect"}
    BY <1>6 DEF PrimaryWaits
  <2>2. /\ IsInjective(parsedLines')
        /\ Range(parsedLines') \subseteq Range(parsedLines)
    BY <1>1, <1>2, <2>1, TakenApart DEF Distinct
  <2> QED BY <1>1, <2>1, <2>2, HandsOnKeeps DEF Distinct, Taken
<1>7. CASE PrimaryFlushes
  <2>1. /\ PrimaryStep /\ esDocs' = esDocs \cup Range(actions)
        /\ actions' = <<>> /\ parsedLines' = parsedLines
        /\ ppc' \notin {"off", "connect"}
    BY <1>7 DEF PrimaryFlushes
  <2>2. Range(<<>>) = {} /\ IsInjective(<<>>)
    BY DEF Range, IsInjective
  <2> QED BY <1>1, <2>1, <2>2, HandsOnKeeps DEF Distinct, Taken
<1>8. CASE PrimaryFails
  <2>1. PICK some \in SUBSET Range(actions) : esDocs' = esDocs \cup some
    BY <1>8 DEF PrimaryFails
  <2>2. /\ PrimaryStep /\ UNCHANGED <<parsedLines, actions>>
        /\ ppc' \notin {"off", "connect"}
    BY <1>8 DEF PrimaryFails
  <2> QED BY <1>1, <2>1, <2>2, HandsOnKeeps DEF Distinct, Taken
<1> QED BY <1>3, <1>4, <1>5, <1>6, <1>7, <1>8 DEF Indexes, Indexing

(* Elasticsearch becomes unavailable, or available again.                  *)
LEMMA DisturbsKeep ==
    ASSUME Before, Disturbs, killed' = 0
    PROVE  Undisturbed'
<1>1. killed \in Nat
  BY Constants DEF Before, Typed, ReaderTyped, ReaderTypeOK
<1>2. EsToggles
  BY <1>1 DEF Disturbs, ReaderKilled
<1>3. UNCHANGED <<rpc, rfile, rline, rest, tpc, tfile, tpos, tline, truncated,
                  plain, gz, actions, parsedLines, ppc, esDocs>>
  BY <1>2 DEF EsToggles, restoreVars, primaryVars, tailVars, spoolVars
<1>4. truncated' = FALSE
  BY <1>3 DEF Before, Calm, Undisturbed, Typed, TailTyped, TailTypeOK
<1>5. TailAhead'
  BY <1>3, AheadKept DEF Taken
<1>6. \A k \in Files : \A n \in 1..Len(plain[k]) :
          Passed(k, n) => Passed(k, n)'
  BY <1>3 DEF Passed, Following
<1> QED BY <1>3, <1>4, <1>5, <1>6, StillKeeps

-----------------------------------------------------------------------------
(* Every step of either program.                                           *)
LEMMA StepUndisturbed ==
    ASSUME OInv, [Next]_vars PROVE Undisturbed'
<1> SUFFICES ASSUME deaths' = 0, killed' = 0 PROVE Undisturbed'
  BY DEF Undisturbed
<1>1. deaths = 0
  <2>1. deaths \in Nat
    BY DEF OInv, PInv, Integral
  <2>2. deaths' = deaths \/ deaths' = deaths + 1
    BY DEF Next, vars, WriterBegins, WriterStart, Writes, WriterNamesFile,
           WriterReceive, WriterIdle, WriterWrites, WriterFlushed,
           WriterRotates, WriterNamesNext, WriterNotesNumber, WriterRestarts,
           RemovesPlain, RemovePlain, Environment, LineArrives,
           WriterDiesNow, Tails, Restores, Indexes, Disturbs, writerVars
  <2> QED BY <2>1, <2>2
<1>2. killed = 0
  <2>1. killed \in Nat
    BY Constants DEF OInv, Typed, ReaderTyped, ReaderTypeOK
  <2>2. CASE Disturbs
    BY <2>1, <2>2 DEF Disturbs, ReaderKilled, EsToggles
  <2>3. CASE Restores
    BY <2>3 DEF Restores, Restoring, Wakes, ReaderStarts, ReaderLists,
                ReaderFindsNone, ReaderFollows, ReaderUnpacks, ReaderPanics,
                ReaderSends, ReaderAtEOF, ReaderReceives, ReaderPushes,
                ReaderStops, ReaderJoins, ReaderRemoves, ReaderUnlinks,
                ReaderWakes, Removed, RestoreStep
  <2>4. CASE Indexes
    BY <2>4 DEF Indexes, Indexing, PrimaryConnects, PrimaryIsFatal,
                PrimaryAdds, PrimaryWaits, PrimaryPings, PrimaryIdles,
                PrimaryFlushes, PrimaryFails, PrimaryStep
  <2>5. CASE ~Disturbs /\ ~Restores /\ ~Indexes
    BY <2>5 DEF Next, vars, WriterBegins, Writes, Environment, Tails,
                readerVars
  <2> QED BY <2>2, <2>3, <2>4, <2>5
<1>3. Before
  BY <1>1, <1>2 DEF OInv, Before, Calm
<1>4. CASE UNCHANGED vars
  <2>1. UNCHANGED <<rpc, rfile, rline, rest, tpc, tfile, tpos, tline,
                    truncated, plain, gz, actions, parsedLines, ppc, esDocs>>
    BY <1>4 DEF vars, readerVars, restoreVars, primaryVars, tailVars,
                spoolVars
  <2>2. truncated' = FALSE
    BY <1>3, <2>1 DEF Before, Calm, Undisturbed, Typed, TailTyped, TailTypeOK
  <2>3. TailAhead'
    BY <1>3, <2>1, AheadKept DEF Taken
  <2>4. \A k \in Files : \A n \in 1..Len(plain[k]) :
            Passed(k, n) => Passed(k, n)'
    BY <2>1 DEF Passed, Following
  <2> QED BY <1>3, <2>1, <2>2, <2>3, <2>4, StillKeeps
<1> QED BY <1>3, <1>4, WriterKeeps, TailsKeep, RestoresKeep, IndexesKeep,
           DisturbsKeep DEF Next

(* Nothing has been taken yet.                                             *)
LEMMA InitUndisturbed == Init => TailHere /\ Undisturbed
<1> SUFFICES ASSUME Init PROVE TailHere /\ Undisturbed
  OBVIOUS
<1>1. /\ actions = <<>> /\ parsedLines = <<>> /\ rest = <<>> /\ esDocs = {}
      /\ rpc = "down" /\ ppc = "off" /\ tpc = "off" /\ rline = 0
      /\ truncated = FALSE
  BY DEF Init, ReaderInit, TailInit
<1>2. Range(<<>>) = {} /\ IsInjective(<<>>)
  BY DEF Range, IsInjective
<1>3. TailHere
  BY <1>1 DEF TailHere, Following
<1>4. Taken = {} /\ Distinct /\ TailAhead
  BY <1>1, <1>2 DEF Taken, Distinct, TailAhead, Following
<1> QED BY <1>1, <1>2, <1>3, <1>4 DEF NextLine, Undisturbed

(* The inductive invariant ...                                             *)
LEMMA StepTaken == OInv /\ [Next]_vars => OInv'
BY StepTyped, StepOrdered, StepOrder, StepLife, StepTailHere, StepUndisturbed
DEF OInv

(* ... and what follows from it.                                           *)
LEMMA TakenApartOnce == OInv => TakenOnce
<1> SUFFICES ASSUME OInv, deaths = 0, killed = 0
             PROVE  /\ IsInjective((actions \o parsedLines) \o rest)
                    /\ Range(parsedLines \o rest) \cap esDocs = {}
                    /\ rline \notin
                          esDocs \cup Range((actions \o parsedLines) \o rest)
  BY DEF TakenOnce
<1>1. Distinct /\ NextLine
  BY DEF OInv, Undisturbed
<1>2. /\ actions \in Seq(LineNo) /\ parsedLines \in Seq(LineNo)
      /\ rest \in Seq(LineNo)
  BY DEF OInv, Typed, ReaderTyped
<1>3. PICK a \in Seq(LineNo) :
          /\ a = actions \o parsedLines /\ IsInjective(a)
          /\ Range(a) = Range(actions) \cup Range(parsedLines)
  BY <1>1, <1>2, JoinedApart DEF Distinct
<1>4. Range(a) \cap Range(rest) = {} /\ IsInjective(rest)
  BY <1>1, <1>3 DEF Distinct, Taken
<1>5. /\ IsInjective(a \o rest)
      /\ Range(a \o rest) = Range(a) \cup Range(rest)
  BY <1>2, <1>3, <1>4, JoinedApart
<1>6. Range(parsedLines \o rest) = Range(parsedLines) \cup Range(rest)
  BY <1>2, RangeConcatenation
<1>7. Range(parsedLines \o rest) \cap esDocs = {}
  BY <1>1, <1>6 DEF Distinct, Taken
<1>8. rline \notin Taken \cup Range(rest)
  <2>1. CASE rpc = "push"
    <3>1. rest = <<>> /\ rline \notin Taken
      BY <1>1, <2>1 DEF OInv, TailHere, NextLine, TailAhead
    <3> QED BY <3>1 DEF Range
  <2>2. CASE rpc # "push"
    <3>1. rline = 0
      BY <2>2 DEF OInv, TailHere
    <3>2. 0 \notin LineNo
      BY DEF LineNo
    <3>3. \A l \in Taken \cup Range(rest) : l \in LineNo
      <4>1. \A k \in Files : \A n \in 1..Len(plain[k]) : plain[k][n] \in LineNo
        BY DEF OInv, Typed, PlainTyped
      <4>2. \A l \in Taken : l \in LineNo
        BY <1>1, <4>1 DEF NextLine, Stems
      <4>3. \A l \in Range(rest) : l \in LineNo
        BY <1>2, LineMembers
      <4> QED BY <4>2, <4>3
    <3> QED BY <3>1, <3>2, <3>3
  <2> QED BY <2>1, <2>2
<1>9. rline \notin esDocs \cup Range((actions \o parsedLines) \o rest)
  BY <1>3, <1>5, <1>8 DEF Taken
<1> QED BY <1>3, <1>5, <1>7, <1>9

(* As long as no program dies, file2queue takes no line twice: no two of   *)
(* the lines it holds in its bulk, in ctx.parsedLines and in a file it     *)
(* unpacks are the same, and none of those it still has to send has been   *)
(* indexed, whatever Elasticsearch does (RestoreTail and Restore, disk.go, *)
(* and doPrimaryTask, primary.go).                                         *)
THEOREM TakesOnce == Spec => []TakenOnce
<1>1. Init => OInv
  BY InitTyped, InitOrdered, InitOrder, InitUndisturbed DEF OInv
<1> QED BY <1>1, StepTaken, TakenApartOnce, PTL DEF Spec
=============================================================================
