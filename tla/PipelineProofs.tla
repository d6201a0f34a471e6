--------------------------- MODULE PipelineProofs ---------------------------
(***************************************************************************)
(* ulog2file and file2queue on one spool, for every number of lines, files *)
(* and capacities, and whatever dies: the types of the variables, that the *)
(* reader leaves a file by its count only, and, as long as ulog2file has   *)
(* not died, that the file the reader unpacks and removes is complete.     *)
(***************************************************************************)
EXTENDS Pipeline, SequenceTheorems, TLAPS

(***************************************************************************)
(* What file2queue unpacks is complete.  What makes it true is the order   *)
(* in which the writer creates a file, names it in meta/current and writes *)
(* to it, against the order in which the reader lists the files and reads  *)
(* that name.                                                              *)
(***************************************************************************)
Integral ==
    /\ deaths \in Nat
    /\ {backupcount, current, status} \subseteq Nat

(* The files are numbered up to the current one of the writer; between its *)
(* creation and the writing of meta/current that file is still blank and   *)
(* meta/current names an earlier one.                                      *)
WriterOrder ==
    /\ wpc # "down"
    /\ wpc = "start" => backupcount = 0 /\ current = 0 /\ status = 0
    /\ DOMAIN gz \subseteq 1..backupcount
    /\ IF wpc \in {"created", "current"}
       THEN current < backupcount /\ backupcount \in blank
       ELSE current = backupcount

(* The reader has a file the writer has created, follows one that was      *)
(* named, and unpacks one that is older than the writer's.                 *)
ReaderBehind ==
    /\ rfile \in Nat
    /\ rpc = "decide" => rfile <= backupcount
    /\ rpc \in {"tail", "push", "stop", "join", "unlink"} => rfile <= current
    /\ rpc \in {"gz", "remove"} => rfile < backupcount

PInv == Integral /\ (deaths = 0 => WriterOrder /\ ReaderBehind)

-----------------------------------------------------------------------------
(* Nothing has been created yet.                                           *)
LEMMA InitOrdered == Init => PInv
BY DEF Init, SpoolInit, WriterInit, ReaderInit, PInv, Integral, WriterOrder,
       ReaderBehind

(* A process of ulog2file begins: only the first one has deaths = 0.       *)
LEMMA BeginsOrdered == PInv /\ WriterBegins => PInv'
<1> SUFFICES ASSUME PInv, WriterBegins PROVE PInv'
    OBVIOUS
<1> USE DEF PInv, WriterBegins, WriterStart, CreateFile
<1>1. Integral'
    BY DEF Integral
<1>2. CASE deaths = 0
    <2>1. backupcount' = 1 /\ current' = 0 /\ deaths' = 0
        BY <1>2 DEF WriterOrder
    <2>2. WriterOrder'
        BY <1>2, <2>1, <1>1 DEF WriterOrder, Integral
    <2>3. ReaderBehind'
        BY <1>2, <2>1, <1>1 DEF ReaderBehind, WriterOrder, Integral
    <2> QED BY <1>1, <2>2, <2>3
<1>3. CASE deaths # 0
    BY <1>1, <1>3
<1> QED BY <1>2, <1>3

(* The other steps of ulog2file; those that only it notices first.         *)
LEMMA WritesOrdered == PInv /\ Writes => PInv'
<1> SUFFICES ASSUME PInv, Writes PROVE PInv'
    OBVIOUS
<1> USE DEF PInv
<1>0. UNCHANGED <<rpc, rfile>> /\ deaths' = deaths
    BY DEF Writes, readerVars, restoreVars, WriterNamesFile, WriterReceive,
           WriterIdle, WriterWrites, WriterFlushed, WriterRotates,
           WriterNamesNext, WriterNotesNumber, WriterRestarts, RemovesPlain,
           RemovePlain
<1>1. CASE WriterNamesFile
    BY <1>0, <1>1 DEF WriterNamesFile, Integral, WriterOrder, ReaderBehind
<1>2. CASE WriterReceive
    BY <1>0, <1>2
    DEF WriterReceive, spoolVars, Integral, WriterOrder, ReaderBehind
<1>3. CASE WriterIdle
    BY <1>0, <1>3
    DEF WriterIdle, spoolVars, Integral, WriterOrder, ReaderBehind
<1>4. CASE WriterWrites
    BY <1>0, <1>4 DEF WriterWrites, Integral, WriterOrder, ReaderBehind
<1>5. CASE WriterFlushed
    <2>1. DOMAIN gz' = DOMAIN gz
        BY <1>5 DEF WriterFlushed, Compressed
    <2> QED BY <1>0, <1>5, <2>1
            DEF WriterFlushed, Integral, WriterOrder, ReaderBehind
<1>6. CASE WriterRotates
    <2>1. /\ backupcount' = backupcount + 1
          /\ DOMAIN gz' = DOMAIN gz \cup {backupcount'}
          /\ backupcount' \in blank'
          /\ UNCHANGED <<current, status>>
          /\ wpc = "rotate" /\ wpc' = "current"
        BY <1>6 DEF WriterRotates, CreateFile
    <2>2. Integral'
        BY <1>0, <2>1 DEF Integral
    <2>3. ASSUME deaths = 0 PROVE WriterOrder'
        BY <2>1, <2>3 DEF WriterOrder, Integral
    <2>4. ASSUME deaths = 0 PROVE ReaderBehind'
        BY <1>0, <2>1, <2>4 DEF ReaderBehind, Integral
    <2> QED BY <1>0, <2>2, <2>3, <2>4
<1>7. CASE WriterNamesNext
    BY <1>0, <1>7 DEF WriterNamesNext, Integral, WriterOrder, ReaderBehind
<1>8. CASE WriterNotesNumber
    BY <1>0, <1>8 DEF WriterNotesNumber, Integral, WriterOrder, ReaderBehind
<1>9. CASE WriterRestarts
    BY <1>0, <1>9
    DEF WriterRestarts, spoolVars, Integral, WriterOrder, ReaderBehind
<1>10. CASE \E k \in Files : RemovesPlain(k)
    BY <1>0, <1>10
    DEF RemovesPlain, RemovePlain, Integral, WriterOrder, ReaderBehind
<1> QED BY <1>1, <1>2, <1>3, <1>4, <1>5, <1>6, <1>7, <1>8, <1>9, <1>10
        DEF Writes

(* A line comes, which changes nothing here, or the process dies, and the  *)
(* promise ends.                                                           *)
LEMMA EnvironmentOrdered == PInv /\ Environment => PInv'
<1> SUFFICES ASSUME PInv, Environment PROVE PInv'
    OBVIOUS
<1> USE DEF PInv, Environment, readerVars, restoreVars
<1>1. CASE LineArrives
    BY <1>1 DEF LineArrives, spoolVars, Integral, WriterOrder, ReaderBehind
<1>2. CASE WriterDiesNow
    BY <1>2 DEF WriterDiesNow, Integral
<1> QED BY <1>1, <1>2 DEF Environment

-----------------------------------------------------------------------------
(* The end of file2queue leaves the spool as it is.                        *)
LEMMA EndsOrdered ==
    PInv /\ ReaderEnds /\ UNCHANGED writerVars => PInv'
BY DEF PInv, ReaderEnds, writerVars, spoolVars, Integral, WriterOrder,
       ReaderBehind

(* The removal of a file that is older than the writer's, or that has been *)
(* named.                                                                  *)
LEMMA RemovalOrdered ==
    ASSUME PInv, Removed(rfile), UNCHANGED writerVars,
           rpc \in {"remove", "unlink"}, rpc' \in {"list", "sleep"}
    PROVE  PInv'
<1>1. Integral' /\ deaths' = deaths
    BY DEF PInv, Integral, Removed, writerVars
<1>2. ASSUME deaths = 0 PROVE WriterOrder'
    <2>1. wpc \in {"created", "current"} => rfile # backupcount
        BY <1>2 DEF PInv, Integral, WriterOrder, ReaderBehind
    <2>2. DOMAIN gz' \subseteq DOMAIN gz
        BY DEF Removed
    <2>3. blank' = blank \ {rfile}
        BY DEF Removed
    <2> QED BY <1>2, <2>1, <2>2, <2>3
            DEF PInv, WriterOrder, Removed, writerVars
<1>3. ASSUME deaths = 0 PROVE ReaderBehind'
    BY <1>3 DEF PInv, ReaderBehind, Removed
<1> QED BY <1>1, <1>2, <1>3 DEF PInv

LEMMA RestoresOrdered == PInv /\ Restores => PInv'
<1> SUFFICES ASSUME PInv, Restores PROVE PInv'
    OBVIOUS
<1>0. UNCHANGED writerVars
    BY DEF Restores
<1> USE DEF PInv, writerVars, spoolVars, RestoreStep
<1>1. CASE ReaderStarts
    BY <1>0, <1>1 DEF ReaderStarts, Integral, WriterOrder, ReaderBehind
<1>2. CASE ReaderLists
    <2>1. rfile' \in DOMAIN gz
        BY <1>2 DEF ReaderLists, Oldest
    <2>2. UNCHANGED <<gz, blank, current, status>> /\ rpc' = "decide"
        BY <1>2 DEF ReaderLists
    <2>3. CASE deaths = 0
        BY <1>0, <2>1, <2>2, <2>3 DEF Integral, WriterOrder, ReaderBehind
    <2>4. CASE deaths # 0
        BY <1>0, <2>1, <2>2, <2>4 DEF Integral
    <2> QED BY <2>3, <2>4
<1>3. CASE ReaderFindsNone
    BY <1>0, <1>3, EndsOrdered DEF ReaderFindsNone
<1>4. CASE ReaderFollows
    BY <1>0, <1>4 DEF ReaderFollows, Integral, WriterOrder, ReaderBehind
<1>5. CASE ReaderUnpacks
    BY <1>0, <1>5 DEF ReaderUnpacks, Integral, WriterOrder, ReaderBehind
<1>6. CASE ReaderPanics
    BY <1>0, <1>6, EndsOrdered DEF ReaderPanics
<1>7. CASE ReaderSends
    BY <1>0, <1>7 DEF ReaderSends, Integral, WriterOrder, ReaderBehind
<1>8. CASE ReaderAtEOF
    BY <1>0, <1>8 DEF ReaderAtEOF, Integral, WriterOrder, ReaderBehind
<1>9. CASE ReaderReceives
    BY <1>0, <1>9 DEF ReaderReceives, Integral, WriterOrder, ReaderBehind
<1>10. CASE ReaderPushes
    BY <1>0, <1>10 DEF ReaderPushes, Integral, WriterOrder, ReaderBehind
<1>11. CASE ReaderStops
    BY <1>0, <1>11 DEF ReaderStops, Integral, WriterOrder, ReaderBehind
<1>12. CASE ReaderJoins
    BY <1>0, <1>12 DEF ReaderJoins, Integral, WriterOrder, ReaderBehind
<1>13. CASE ReaderRemoves
    BY <1>0, <1>13, RemovalOrdered DEF ReaderRemoves
<1>14. CASE ReaderUnlinks
    BY <1>0, <1>14, RemovalOrdered DEF ReaderUnlinks
<1>15. CASE Wakes
    BY <1>0, <1>15
    DEF Wakes, ReaderWakes, Integral, WriterOrder, ReaderBehind
<1> QED BY <1>1, <1>2, <1>3, <1>4, <1>5, <1>6, <1>7, <1>8, <1>9, <1>10,
           <1>11, <1>12, <1>13, <1>14, <1>15 DEF Restores, Restoring

(* The primary and the tail touch neither the directory nor the reader,    *)
(* but for the end of the process.                                         *)
LEMMA ElsewhereOrdered ==
    PInv /\ UNCHANGED <<wpc, backupcount, deaths, gz, blank, current, status,
                        rpc, rfile>> => PInv'
BY DEF PInv, Integral, WriterOrder, ReaderBehind

LEMMA IndexesOrdered == PInv /\ Indexes => PInv'
<1> SUFFICES ASSUME PInv, Indexes PROVE PInv'
    OBVIOUS
<1>0. UNCHANGED writerVars
    BY DEF Indexes
<1>1. CASE PrimaryIsFatal
    BY <1>0, <1>1, EndsOrdered DEF PrimaryIsFatal
<1>2. CASE PrimaryStep
    BY <1>0, <1>2, ElsewhereOrdered
    DEF PrimaryStep, writerVars, spoolVars, restoreVars
<1>3. PrimaryStep \/ PrimaryIsFatal
    BY DEF Indexes, Indexing, PrimaryConnects, PrimaryAdds, PrimaryWaits,
           PrimaryPings, PrimaryIdles, PrimaryFlushes, PrimaryFails
<1> QED BY <1>1, <1>2, <1>3

LEMMA OthersOrdered == PInv /\ (Tails \/ Disturbs) => PInv'
<1> SUFFICES ASSUME PInv, Tails \/ Disturbs PROVE PInv'
    OBVIOUS
<1>1. CASE Tails
    BY <1>1, ElsewhereOrdered
    DEF Tails, spoolVars, readerVars, restoreVars, writerVars
<1>2. CASE Disturbs /\ ReaderKilled
    BY <1>2, EndsOrdered DEF Disturbs, ReaderKilled
<1>3. CASE Disturbs /\ EsToggles
    BY <1>3, ElsewhereOrdered
    DEF Disturbs, EsToggles, spoolVars, restoreVars, writerVars
<1> QED BY <1>1, <1>2, <1>3 DEF Disturbs

-----------------------------------------------------------------------------
(* Every step of either program.                                           *)
LEMMA StepOrdered == PInv /\ [Next]_vars => PInv'
<1> SUFFICES ASSUME PInv, [Next]_vars PROVE PInv'
    OBVIOUS
<1>1. CASE UNCHANGED vars
    BY <1>1, ElsewhereOrdered
    DEF vars, spoolVars, writerVars, readerVars, restoreVars
<1>2. CASE Next
    BY <1>2, BeginsOrdered, WritesOrdered, EnvironmentOrdered, OthersOrdered,
       RestoresOrdered, IndexesOrdered DEF Next
<1> QED BY <1>1, <1>2

(* file2queue never unpacks, and then removes, the file that ulog2file is  *)
(* writing, as long as ulog2file has not died.                             *)
THEOREM OnlyCompleteFiles == Spec => []NeverUnpacksOpenFile
<1>1. PInv => NeverUnpacksOpenFile
    BY DEF PInv, Integral, ReaderBehind, NeverUnpacksOpenFile
<1> QED BY <1>1, InitOrdered, StepOrdered, PTL DEF Spec

-----------------------------------------------------------------------------
(***************************************************************************)
(* Types.  The lines are numbers of lines, the bulk of ulog2file is empty  *)
(* where it is, and the reader is about a file that is there.              *)
(***************************************************************************)
(* What RemoveFirst does to a sequence without repetitions.                *)
LEMMA RemovedFirst ==
    ASSUME NEW S, NEW s \in Seq(S), IsInjective(s), NEW e
    PROVE  /\ RemoveFirst(s, e) \in Seq(S)
           /\ IsInjective(RemoveFirst(s, e))
           /\ Range(RemoveFirst(s, e)) = Range(s) \ {e}
<1>1. CASE ~\E k \in 1..Len(s) : s[k] = e
  <2>1. RemoveFirst(s, e) = s
    BY <1>1 DEF RemoveFirst
  <2>2. Range(s) = {s[k] : k \in 1..Len(s)}
    BY RangeEquality
  <2> QED BY <1>1, <2>1, <2>2
<1>2. CASE \E k \in 1..Len(s) : s[k] = e
  <2>1. PICK k \in 1..Len(s) : s[k] = e
    BY <1>2
  <2>2. \A n \in 1..Len(s) : s[n] = e <=> n = k
    BY <2>1 DEF IsInjective
  <2>3. RemoveFirst(s, e) = RemoveAt(s, k)
    <3>1. {n \in 1..Len(s) : s[n] = e} = {k}
      BY <2>2
    <3>2. Min({k}) = k
      BY DEF Min
    <3>3. SelectInSeq(s, LAMBDA v : v = e) = k
      BY <3>1, <3>2 DEF SelectInSeq
    <3> QED BY <1>2, <3>3 DEF RemoveFirst
  <2> DEFINE t == RemoveAt(s, k)
  <2>4. /\ t \in Seq(S)
        /\ Len(t) = Len(s) - 1
        /\ \A n \in 1..Len(t) : t[n] = IF n < k THEN s[n] ELSE s[n + 1]
    <3> DEFINE a == SubSeq(s, 1, k - 1)
               b == SubSeq(s, k + 1, Len(s))
    <3>1. /\ a \in Seq(S) /\ Len(a) = k - 1
          /\ \A n \in 1..(k - 1) : a[n] = s[n]
      OBVIOUS
    <3>2. /\ b \in Seq(S) /\ Len(b) = Len(s) - k
          /\ \A n \in 1..(Len(s) - k) : b[n] = s[k + n]
      OBVIOUS
    <3> HIDE DEF a, b
    <3>3. /\ a \o b \in Seq(S) /\ Len(a \o b) = Len(s) - 1
          /\ \A n \in 1..(Len(s) - 1) :
                (a \o b)[n] = IF n <= k - 1 THEN a[n] ELSE b[n - (k - 1)]
      <4>1. /\ a \o b \in Seq(S) /\ Len(a \o b) = Len(a) + Len(b)
            /\ \A n \in 1..(Len(a) + Len(b)) :
                  (a \o b)[n] = IF n <= Len(a) THEN a[n] ELSE b[n - Len(a)]
        BY <3>1, <3>2, ConcatProperties
      <4>2. Len(a) + Len(b) = Len(s) - 1
        BY <3>1, <3>2
      <4> QED BY <3>1, <4>1, <4>2
    <3>4. t = a \o b
      BY DEF RemoveAt, a, b
    <3>5. ASSUME NEW n \in 1..Len(t)
          PROVE  t[n] = IF n < k THEN s[n] ELSE s[n + 1]
      <4>1. CASE n < k
        BY <3>1, <3>3, <3>4, <4>1
      <4>2. CASE ~(n < k)
        <5>1. n - (k - 1) \in 1..(Len(s) - k) /\ k + (n - (k - 1)) = n + 1
          BY <3>3, <3>4, <4>2
        <5> QED BY <3>2, <3>3, <3>4, <4>2, <5>1
      <4> QED BY <4>1, <4>2
    <3> QED BY <3>3, <3>4, <3>5
  <2> HIDE DEF t
  <2>5. DOMAIN t = 1..Len(t) /\ DOMAIN s = 1..Len(s)
    BY <2>4
  <2>6. ASSUME NEW m \in 1..Len(t), NEW n \in 1..Len(t), t[m] = t[n]
        PROVE  m = n
    <3> DEFINE at(q) == IF q < k THEN q ELSE q + 1
    <3>1. /\ at(m) \in 1..Len(s) /\ at(n) \in 1..Len(s)
          /\ t[m] = s[at(m)] /\ t[n] = s[at(n)]
      BY <2>4
    <3>2. at(m) = at(n)
      BY <2>5, <2>6, <3>1 DEF IsInjective
    <3> QED BY <3>2
  <2>7. Range(t) = Range(s) \ {e}
    <3>1. /\ Range(t) = {t[n] : n \in 1..Len(t)}
          /\ Range(s) = {s[n] : n \in 1..Len(s)}
      BY <2>4, RangeEquality
    <3>2. ASSUME NEW x \in Range(t) PROVE x \in Range(s) \ {e}
      <4>1. PICK n \in 1..Len(t) : x = t[n]
        BY <3>1
      <4>2. \E q \in 1..Len(s) : x = s[q] /\ q # k
        BY <2>4, <4>1
      <4> QED BY <2>2, <3>1, <4>2
    <3>3. ASSUME NEW x \in Range(s) \ {e} PROVE x \in Range(t)
      <4>1. PICK n \in 1..Len(s) : x = s[n] /\ n # k
        BY <2>2, <3>1
      <4>2. CASE n < k
        <5>1. n \in 1..Len(t) /\ t[n] = s[n]
          BY <2>4, <4>2
        <5> QED BY <3>1, <4>1, <5>1
      <4>3. CASE ~(n < k)
        <5>1. n - 1 \in 1..Len(t) /\ t[n - 1] = s[n]
          BY <2>4, <4>1, <4>3
        <5> QED BY <3>1, <4>1, <5>1
      <4> QED BY <4>2, <4>3
    <3> QED BY <3>2, <3>3
  <2> QED BY <2>3, <2>4, <2>5, <2>6, <2>7 DEF IsInjective, t
<1> QED BY <1>1, <1>2

(* An element more.                                                        *)
LEMMA AppendedApart ==
    ASSUME NEW S, NEW s \in Seq(S), IsInjective(s), NEW e \in S,
           e \notin Range(s)
    PROVE  /\ Append(s, e) \in Seq(S) /\ IsInjective(Append(s, e))
           /\ Range(Append(s, e)) = Range(s) \cup {e}
<1> DEFINE t == Append(s, e)
<1>1. /\ t \in Seq(S) /\ Len(t) = Len(s) + 1 /\ Len(s) \in Nat
      /\ \A n \in 1..Len(s) : t[n] = s[n]
      /\ t[Len(s) + 1] = e
      /\ DOMAIN t = 1..(Len(s) + 1) /\ DOMAIN s = 1..Len(s)
  OBVIOUS
<1> HIDE DEF t
<1>2. /\ Range(s) = {s[n] : n \in 1..Len(s)}
      /\ Range(t) = {t[n] : n \in 1..(Len(s) + 1)}
  BY <1>1, RangeEquality
<1>3. \A n \in 1..Len(s) : s[n] # e
  BY <1>2
<1>4. IsInjective(t)
  <2> SUFFICES ASSUME NEW m \in 1..(Len(s) + 1), NEW n \in 1..(Len(s) + 1),
                      t[m] = t[n]
               PROVE  m = n
    BY <1>1 DEF IsInjective
  <2> QED BY <1>1, <1>3 DEF IsInjective
<1>5. ASSUME NEW x \in Range(t) PROVE x \in Range(s) \cup {e}
  BY <1>1, <1>2, <1>5
<1>6. ASSUME NEW x \in Range(s) \cup {e} PROVE x \in Range(t)
  <2>1. CASE x = e
    <3>1. Len(s) + 1 \in 1..(Len(s) + 1)
      BY <1>1
    <3> QED BY <1>1, <1>2, <2>1, <3>1
  <2>2. CASE x # e
    <3>1. PICK n \in 1..Len(s) : x = s[n]
      BY <1>2, <1>6, <2>2
    <3>2. n \in 1..(Len(s) + 1)
      BY <1>1
    <3> QED BY <1>1, <1>2, <3>1, <3>2
  <2> QED BY <2>1, <2>2
<1> QED BY <1>1, <1>4, <1>5, <1>6 DEF t

LineNo == 1..MaxLine

(* The files, by kind of copy.                                             *)
GzTyped ==
    /\ DOMAIN gz \subseteq Files
    /\ \A k \in DOMAIN gz : gz[k] \in Seq(LineNo)
    /\ blank \subseteq DOMAIN gz
    /\ byTime \in Seq(Files)
    /\ Range(byTime) = DOMAIN gz /\ IsInjective(byTime)
    /\ tied \in BOOLEAN

PlainTyped == plain \in [Files -> Seq(LineNo)] /\ unc \subseteq Files

MetaTyped == {current, status} \subseteq 0..MaxFile

WriterTyped ==
    /\ WriterTypeOK
    /\ {backupLines, bulkRequest} \subseteq Seq(LineNo)
    /\ wpc = "select" => Len(bulkRequest) <= i
    /\ wpc \notin {"select", "flush"} => bulkRequest = <<>>
    /\ wpc # "flush" => ~idle
    /\ wpc \notin {"start", "down"} => backupcount \in Files

TailTyped == TailTypeOK /\ (tpc = "send" => tline \in LineNo)

ReaderTyped ==
    /\ ReaderTypeOK
    /\ {rest, parsedLines, actions} \subseteq Seq(LineNo)
    /\ count < FileLines
    /\ rpc = "push" => rline \in LineNo

(* The reader is about a file that is there.                               *)
FileThere ==
    rpc \notin {"down", "list", "sleep"} => rfile \in DOMAIN gz

Typed ==
    /\ GzTyped /\ PlainTyped /\ MetaTyped
    /\ WriterTyped /\ TailTyped /\ ReaderTyped /\ FileThere
    /\ dropped \subseteq LineNo

(* The types of the constants.                                             *)
LEMMA Constants ==
    /\ FileLines \in Nat /\ FileLines > 0 /\ MaxFile \in Nat /\ MaxFile > 0
    /\ Bulk \in Nat /\ Bulk > 1 /\ BackupCap \in Nat /\ BackupCap > 0
    /\ MaxLine \in Nat /\ WriterDies \in Nat /\ Buffer \in Nat /\ Buffer > 0
    /\ EsBulk \in Nat /\ EsBulk > 0 /\ ReaderDies \in Nat
BY SpoolAssumption, Ulog2fileAssumption, File2queueAssumption

(* Sequences of line numbers ...                                           *)
LEMMA LineSeqs == Seq(LineNo) \subseteq Seq(Nat) /\ <<>> \in Seq(LineNo)
<1>1. LineNo \subseteq Nat
  BY Constants DEF LineNo
<1>2. Seq(LineNo) \subseteq Seq(Nat)
  BY <1>1, SeqMonotonic
<1>3. <<>> \in Seq(LineNo)
  OBVIOUS
<1> QED BY <1>2, <1>3

(* ... and their elements.                                                 *)
LEMMA LineMembers ==
    /\ \A s \in Seq(LineNo) : Range(s) \subseteq LineNo
    /\ LineNo \subseteq Nat
<1>1. LineNo \subseteq Nat
  BY Constants DEF LineNo
<1> QED BY <1>1, RangeOfSeq

(* The types of the first state.                                           *)
LEMMA InitTyped == Init => Typed
<1> SUFFICES ASSUME Init PROVE Typed
  OBVIOUS
<1>1. GzTyped
  <2>1. gz = <<>> /\ byTime = <<>> /\ blank = {} /\ tied = FALSE
    BY DEF Init, SpoolInit
  <2>2. DOMAIN gz = {} /\ DOMAIN byTime = {} /\ Range(byTime) = {}
    BY <2>1 DEF Range
  <2>3. byTime \in Seq(Files) /\ IsInjective(byTime)
    BY <2>1, <2>2 DEF IsInjective
  <2> QED BY <2>1, <2>2, <2>3 DEF GzTyped
<1>2. PlainTyped /\ MetaTyped
  BY LineSeqs, Constants DEF Init, SpoolInit, PlainTyped, MetaTyped
<1> <<>> \in Seq(LineNo) /\ <<>> \in Seq(Nat) /\ Len(<<>>) = 0
  BY LineSeqs
<1>3. WriterTyped
  <2>1. /\ 0 \in 0..MaxLine /\ 0 \in 0..Bulk /\ 0 \in 0..(FileLines - 1)
        /\ 0 \in 0..MaxFile /\ 0 \in 0..WriterDies /\ 0 <= BackupCap
    BY Constants
  <2>2. /\ wpc = "start" /\ arrived = 0 /\ backupLines = <<>>
        /\ bulkRequest = <<>> /\ written = 0 /\ idle = FALSE /\ i = 0
        /\ j = 0 /\ backupcount = 0 /\ closing = {} /\ deaths = 0
    BY DEF Init, WriterInit
  <2>3. written \in 0..Len(bulkRequest) /\ Len(bulkRequest) <= Bulk + 1
    BY <2>2, Constants
  <2> QED BY <2>1, <2>2, <2>3 DEF WriterTyped, WriterTypeOK
<1>4. TailTyped
  <2>1. /\ tpc = "off" /\ tfile \in Files /\ tpos = 0 /\ tline = 0
        /\ dying = FALSE /\ truncated = FALSE
    BY Constants DEF Init, TailInit, Files
  <2>2. {tpos, tline} \subseteq Nat
    BY <2>1
  <2>3. dying \in BOOLEAN /\ truncated \in BOOLEAN
    BY <2>1
  <2> QED BY <2>1, <2>2, <2>3 DEF TailTyped, TailTypeOK
<1>5. ReaderTyped
  <2>1. /\ rpc = "down" /\ rfile \in Files /\ rline = 0 /\ rest = <<>>
        /\ count = 0 /\ parsedLines = <<>> /\ ppc = "off"
        /\ working = TRUE /\ failed = FALSE /\ actions = <<>>
        /\ esUp = TRUE /\ esDocs = {} /\ killed = 0
    BY Constants DEF Init, ReaderInit, Files
  <2>2. 0 \in 0..FileLines /\ 0 \in 0..ReaderDies /\ 0 <= Buffer
    BY Constants
  <2> QED BY <2>1, <2>2, Constants DEF ReaderTyped, ReaderTypeOK
<1>6. FileThere /\ dropped \subseteq LineNo
  BY DEF Init, ReaderInit, FileThere
<1> QED BY <1>1, <1>2, <1>3, <1>4, <1>5, <1>6 DEF Typed

(* The files that processes of ulog2file have begun with.                  *)
Begun == recreated \subseteq begun /\ begun \subseteq Files

(* The types the runs check follow.                                        *)
LEMMA TypedIsOK == Typed /\ Begun => TypeOK
<1> SUFFICES ASSUME Typed, Begun PROVE TypeOK
  OBVIOUS
<1>1. SpoolTypeOK
  <2>1. \A k \in DOMAIN gz : gz[k] \in Seq(Nat)
    BY LineSeqs DEF Typed, GzTyped
  <2>2. plain \in [Files -> Seq(Nat)]
    BY LineSeqs DEF Typed, PlainTyped
  <2> QED BY <2>1, <2>2
          DEF Typed, GzTyped, PlainTyped, MetaTyped, SpoolTypeOK
<1> QED BY <1>1 DEF Typed, Begun, WriterTyped, TailTyped, ReaderTyped, TypeOK,
                    LineNo

-----------------------------------------------------------------------------
(* What the operations on the files do to their types.                     *)
LEMMA TouchTyped ==
    ASSUME byTime \in Seq(Files), IsInjective(byTime), NEW k \in Files, Touch(k)
    PROVE  /\ byTime' \in Seq(Files) /\ IsInjective(byTime')
           /\ Range(byTime') = Range(byTime) \cup {k}
<1>1. PICK r \in Seq(Files) :
          /\ r = RemoveFirst(byTime, k) /\ IsInjective(r)
          /\ Range(r) = Range(byTime) \ {k}
  BY RemovedFirst
<1>2. byTime' = Append(r, k) /\ k \notin Range(r)
  BY <1>1 DEF Touch
<1>3. /\ byTime' \in Seq(Files) /\ IsInjective(byTime')
      /\ Range(byTime') = Range(r) \cup {k}
  BY <1>1, <1>2, AppendedApart
<1> QED BY <1>1, <1>3

(* A file is created.                                                      *)
LEMMA CreatedTyped ==
    ASSUME GzTyped, PlainTyped, NEW k \in Files, CreateFile(k),
           tied' \in BOOLEAN
    PROVE  /\ GzTyped' /\ PlainTyped'
           /\ DOMAIN gz' = DOMAIN gz \cup {k}
<1>1. /\ DOMAIN gz' = DOMAIN gz \cup {k}
      /\ \A n \in DOMAIN gz' : gz'[n] \in Seq(LineNo)
  BY LineSeqs DEF CreateFile, GzTyped
<1>2. /\ byTime' \in Seq(Files) /\ IsInjective(byTime')
      /\ Range(byTime') = DOMAIN gz'
  BY <1>1, TouchTyped DEF CreateFile, GzTyped
<1>3. GzTyped'
  BY <1>1, <1>2 DEF GzTyped, CreateFile
<1>4. PlainTyped'
  BY LineSeqs DEF PlainTyped, CreateFile
<1> QED BY <1>1, <1>3, <1>4

(* A first part of a sequence of lines.                                    *)
LEMMA SubSeqTyped ==
    ASSUME NEW s \in Seq(LineNo), NEW n \in 0..Len(s)
    PROVE  SubSeq(s, 1, n) \in Seq(LineNo)
OBVIOUS

(* A part of the bulk is compressed.                                       *)
LEMMA CompressedTyped ==
    ASSUME GzTyped, bulkRequest \in Seq(LineNo), backupcount \in Nat,
           NEW n \in 0..Len(bulkRequest), Compressed(n)
    PROVE  GzTyped' /\ DOMAIN gz' = DOMAIN gz
<1>1. CASE backupcount \in DOMAIN gz
  <2>1. gz' = [gz EXCEPT ![backupcount] =
                  gz[backupcount] \o SubSeq(bulkRequest, 1, n)]
    BY <1>1 DEF Compressed
  <2>2. gz[backupcount] \o SubSeq(bulkRequest, 1, n) \in Seq(LineNo)
    BY <1>1, SubSeqTyped DEF GzTyped
  <2>3. /\ DOMAIN gz' = DOMAIN gz
        /\ \A k \in DOMAIN gz : gz'[k] \in Seq(LineNo)
    BY <2>1, <2>2 DEF GzTyped
  <2>4. /\ byTime' \in Seq(Files) /\ IsInjective(byTime')
        /\ Range(byTime') = DOMAIN gz
    BY <1>1, TouchTyped DEF Compressed, GzTyped
  <2> QED BY <1>1, <2>3, <2>4 DEF Compressed, GzTyped
<1>2. CASE backupcount \notin DOMAIN gz
  BY <1>2 DEF Compressed, GzTyped
<1> QED BY <1>1, <1>2

(* A file is removed.                                                      *)
LEMMA RemovedTyped ==
    ASSUME GzTyped, NEW k, Removed(k)
    PROVE  GzTyped'
<1>1. /\ byTime' \in Seq(Files) /\ IsInjective(byTime')
      /\ Range(byTime') = Range(byTime) \ {k}
  BY RemovedFirst DEF Removed, GzTyped
<1>2. /\ DOMAIN gz' = DOMAIN gz \ {k}
      /\ \A n \in DOMAIN gz' : gz'[n] = gz[n]
      /\ blank' = blank \ {k} /\ tied' \in BOOLEAN
  BY DEF Removed, GzTyped
<1> QED BY <1>1, <1>2 DEF GzTyped

-----------------------------------------------------------------------------
(* Each part of Typed is about some of the variables.                      *)
LEMMA Untouched ==
    ASSUME Typed
    PROVE  /\ UNCHANGED <<gz, blank, byTime, tied>> => GzTyped'
           /\ UNCHANGED <<plain, unc>> => PlainTyped'
           /\ UNCHANGED <<current, status>> => MetaTyped'
           /\ UNCHANGED writerVars => WriterTyped'
           /\ UNCHANGED tailVars => TailTyped'
           /\ UNCHANGED readerVars => ReaderTyped'
           /\ UNCHANGED <<rpc, rfile>> /\ DOMAIN gz \subseteq DOMAIN gz'
                 => FileThere'
           /\ UNCHANGED dropped => (dropped \subseteq LineNo)'
<1>1. UNCHANGED <<gz, blank, byTime, tied>> => GzTyped'
  BY DEF Typed, GzTyped
<1>2. UNCHANGED <<plain, unc>> => PlainTyped'
  BY DEF Typed, PlainTyped
<1>3. UNCHANGED <<current, status>> => MetaTyped'
  BY DEF Typed, MetaTyped
<1>4. UNCHANGED writerVars => WriterTyped'
  BY DEF Typed, WriterTyped, WriterTypeOK, writerVars
<1>5. UNCHANGED tailVars => TailTyped'
  BY DEF Typed, TailTyped, TailTypeOK, tailVars
<1>6. UNCHANGED readerVars => ReaderTyped'
  BY DEF Typed, ReaderTyped, ReaderTypeOK, readerVars, restoreVars,
         primaryVars
<1>7. UNCHANGED <<rpc, rfile>> /\ DOMAIN gz \subseteq DOMAIN gz' => FileThere'
  BY DEF Typed, FileThere
<1>8. UNCHANGED dropped => (dropped \subseteq LineNo)'
  BY DEF Typed
<1> QED BY <1>1, <1>2, <1>3, <1>4, <1>5, <1>6, <1>7, <1>8

(* ulog2file starts.                                                       *)
LEMMA BeginsTyped == Typed /\ WriterBegins => Typed'
<1> SUFFICES ASSUME Typed, WriterBegins PROVE Typed'
  OBVIOUS
<1>1. backupcount' \in Files
  BY Constants DEF WriterBegins, WriterStart, Typed, MetaTyped, Files
<1>2. GzTyped' /\ PlainTyped' /\ DOMAIN gz' = DOMAIN gz \cup {backupcount'}
  <2>1. PICK k \in Files : k = backupcount' /\ CreateFile(k)
    BY <1>1 DEF WriterBegins, WriterStart
  <2>2. tied' \in BOOLEAN
    BY DEF WriterBegins, WriterStart
  <2> QED BY <2>1, <2>2, CreatedTyped DEF Typed
<1>3. MetaTyped' /\ FileThere' /\ (dropped \subseteq LineNo)'
  BY <1>2, Untouched DEF WriterBegins, WriterStart
<1>4. WriterTyped'
  <2>1. /\ wpc = "start" /\ wpc' = "created"
        /\ UNCHANGED <<arrived, backupLines, bulkRequest, written, idle, i,
                       j, closing, deaths>>
    BY DEF WriterBegins, WriterStart
  <2>2. backupcount' \in 0..MaxFile
    BY <1>1 DEF Files
  <2> QED BY <1>1, <2>1, <2>2 DEF Typed, WriterTyped, WriterTypeOK
<1>5. TailTyped'
  BY DEF WriterBegins, Typed, TailTyped, TailTypeOK
<1>6. ReaderTyped'
  <2>1. rest' \in Seq(LineNo)
    BY SubSeqTyped DEF WriterBegins, Typed, ReaderTyped
  <2> QED BY <2>1, LineSeqs DEF WriterBegins, primaryVars, Typed, ReaderTyped,
                                ReaderTypeOK
<1> QED BY <1>2, <1>3, <1>4, <1>5, <1>6 DEF Typed

(* The other steps of ulog2file.                                           *)
LEMMA WritesTyped == Typed /\ Writes => Typed'
<1> SUFFICES ASSUME Typed, Writes PROVE Typed'
  OBVIOUS
<1>0. /\ TailTyped' /\ ReaderTyped' /\ (dropped \subseteq LineNo)'
      /\ UNCHANGED <<rpc, rfile>>
  BY Untouched DEF Writes, readerVars, restoreVars
<1>a. /\ backupcount \in 0..MaxFile /\ MaxFile \in Nat
      /\ i \in 0..Bulk /\ j \in 0..(FileLines - 1)
      /\ Bulk \in Nat /\ FileLines \in Nat /\ FileLines > 0
  BY Constants DEF Typed, WriterTyped, WriterTypeOK
<1>b. (j + 1) % FileLines \in 0..(FileLines - 1)
  BY <1>a
<1>1. CASE WriterNamesFile
  <2>1. GzTyped' /\ PlainTyped' /\ FileThere'
    BY <1>0, <1>1, Untouched DEF WriterNamesFile
  <2>2. MetaTyped'
    BY <1>1, <1>a DEF WriterNamesFile, Typed, MetaTyped
  <2>3. WriterTyped'
    <3>1. bulkRequest = <<>> /\ Len(bulkRequest) <= i
      BY <1>1, <1>a DEF WriterNamesFile, Typed, WriterTyped
    <3> QED BY <1>1, <3>1
            DEF WriterNamesFile, Typed, WriterTyped, WriterTypeOK
  <2> QED BY <1>0, <2>1, <2>2, <2>3 DEF Typed
<1>2. CASE WriterReceive
  <2>1. GzTyped' /\ PlainTyped' /\ MetaTyped' /\ FileThere'
    BY <1>0, <1>2, Untouched DEF WriterReceive, spoolVars
  <2>2. /\ Tail(backupLines) \in Seq(LineNo)
        /\ Len(Tail(backupLines)) <= BackupCap
        /\ Append(bulkRequest, Head(backupLines)) \in Seq(LineNo)
        /\ Len(Append(bulkRequest, Head(backupLines))) = Len(bulkRequest) + 1
        /\ Len(bulkRequest) \in Nat
    BY <1>2, Constants DEF WriterReceive, Typed, WriterTyped, WriterTypeOK
  <2>3. /\ backupLines' = Tail(backupLines)
        /\ bulkRequest' = Append(bulkRequest, Head(backupLines))
        /\ wpc = "select"
        /\ UNCHANGED <<arrived, written, idle, backupcount, closing, deaths>>
    BY <1>2 DEF WriterReceive
  <2>4. /\ i' \in 0..Bulk /\ j' \in 0..(FileLines - 1)
        /\ Len(bulkRequest') <= Bulk + 1
        /\ wpc' \in {"select", "flush"}
        /\ wpc' = "select" => Len(bulkRequest') <= i'
    BY <1>2, <1>a, <1>b, <2>2 DEF WriterReceive, Typed, WriterTyped
  <2>5. written \in 0..Len(bulkRequest')
    BY <2>2, <2>3 DEF Typed, WriterTyped, WriterTypeOK
  <2>6. WriterTyped'
    BY <2>2, <2>3, <2>4, <2>5, LineSeqs DEF Typed, WriterTyped, WriterTypeOK
  <2> QED BY <1>0, <2>1, <2>6 DEF Typed
<1>3. CASE WriterIdle
  <2>1. GzTyped' /\ PlainTyped' /\ MetaTyped' /\ FileThere'
    BY <1>0, <1>3, Untouched DEF WriterIdle, spoolVars
  <2>2. WriterTyped'
    BY <1>3 DEF WriterIdle, Typed, WriterTyped, WriterTypeOK
  <2> QED BY <1>0, <2>1, <2>2 DEF Typed
<1>4. CASE WriterWrites
  <2>1. GzTyped' /\ MetaTyped' /\ FileThere'
    BY <1>0, <1>4, Untouched DEF WriterWrites
  <2>2. /\ written' = written + 1 /\ written' \in 0..Len(bulkRequest)
        /\ written' \in 1..Len(bulkRequest)
    BY <1>4 DEF WriterWrites, Typed, WriterTyped, WriterTypeOK
  <2>3. PlainTyped'
    <3>1. bulkRequest[written'] \in LineNo
      BY <2>2 DEF Typed, WriterTyped
    <3>2. PICK l \in LineNo : l = bulkRequest[written']
      BY <3>1
    <3>3. plain' = [plain EXCEPT ![backupcount] =
                        Append(plain[backupcount], l)]
      BY <1>4, <3>2 DEF WriterWrites
    <3>4. [plain EXCEPT ![backupcount] = Append(plain[backupcount], l)]
              \in [Files -> Seq(LineNo)]
      <4> SUFFICES ASSUME NEW k \in Files
                   PROVE  [plain EXCEPT ![backupcount] =
                              Append(plain[backupcount], l)][k] \in Seq(LineNo)
        BY DEF Typed, PlainTyped
      <4>1. plain[k] \in Seq(LineNo)
        BY DEF Typed, PlainTyped
      <4> QED BY <4>1 DEF Typed, PlainTyped
    <3>5. unc' = unc
      BY <1>4 DEF WriterWrites
    <3> QED BY <3>3, <3>4, <3>5 DEF Typed, PlainTyped
  <2>4. WriterTyped'
    BY <1>4, <2>2 DEF WriterWrites, Typed, WriterTyped, WriterTypeOK
  <2> QED BY <1>0, <2>1, <2>3, <2>4 DEF Typed
<1>5. CASE WriterFlushed
  <2>1. /\ wpc = "flush" /\ written = Len(bulkRequest)
        /\ bulkRequest' = <<>> /\ written' = 0 /\ idle' = FALSE
        /\ UNCHANGED <<arrived, backupLines, backupcount, closing, deaths>>
        /\ UNCHANGED <<plain, unc, current, status>>
    BY <1>5 DEF WriterFlushed
  <2>2. GzTyped' /\ DOMAIN gz' = DOMAIN gz
    <3>1. Compressed(written) /\ written \in 0..Len(bulkRequest)
      BY <1>5 DEF WriterFlushed, Typed, WriterTyped, WriterTypeOK
    <3>2. PICK n \in 0..Len(bulkRequest) : Compressed(n)
      BY <3>1
    <3> QED BY <1>a, <3>2, CompressedTyped DEF Typed, WriterTyped
  <2>3. PlainTyped' /\ MetaTyped' /\ FileThere'
    BY <1>0, <2>1, <2>2, Untouched
  <2>4. /\ i' \in 0..Bulk /\ j' \in 0..(FileLines - 1)
        /\ wpc' \in {"select", "rotate"}
    BY <1>5, <1>a, <1>b, Constants DEF WriterFlushed
  <2>5. /\ Len(bulkRequest') = 0 /\ written' \in 0..Len(bulkRequest')
        /\ Len(bulkRequest') <= Bulk + 1 /\ Len(bulkRequest') <= i'
    BY <1>a, <2>1, <2>4
  <2>6. WriterTyped'
    BY <2>1, <2>4, <2>5, LineSeqs DEF Typed, WriterTyped, WriterTypeOK
  <2> QED BY <1>0, <2>2, <2>3, <2>6 DEF Typed
<1>6. CASE WriterRotates
  <2>1. backupcount' \in Files /\ backupcount' \in 0..MaxFile
    BY <1>6, <1>a DEF WriterRotates, Files
  <2>2. GzTyped' /\ PlainTyped' /\ DOMAIN gz \subseteq DOMAIN gz'
    <3>1. PICK k \in Files : k = backupcount' /\ CreateFile(k)
      BY <1>6, <2>1 DEF WriterRotates
    <3>2. tied' \in BOOLEAN
      BY <1>6 DEF WriterRotates
    <3> QED BY <3>1, <3>2, CreatedTyped DEF Typed
  <2>3. MetaTyped' /\ FileThere'
    BY <1>0, <1>6, <2>2, Untouched DEF WriterRotates
  <2>4. WriterTyped'
    <3>1. closing \cup {backupcount} \subseteq Files
      BY <1>6 DEF WriterRotates, Typed, WriterTyped, WriterTypeOK
    <3> QED BY <1>6, <2>1 DEF WriterRotates, Typed, WriterTyped, WriterTypeOK
  <2> QED BY <1>0, <2>2, <2>3, <2>4 DEF Typed
<1>7. CASE WriterNamesNext
  <2>1. GzTyped' /\ PlainTyped' /\ FileThere'
    BY <1>0, <1>7, Untouched DEF WriterNamesNext
  <2>2. MetaTyped'
    BY <1>7, <1>a DEF WriterNamesNext, Typed, MetaTyped
  <2>3. WriterTyped'
    BY <1>7 DEF WriterNamesNext, Typed, WriterTyped, WriterTypeOK
  <2> QED BY <1>0, <2>1, <2>2, <2>3 DEF Typed
<1>8. CASE WriterNotesNumber
  <2>1. GzTyped' /\ PlainTyped' /\ FileThere'
    BY <1>0, <1>8, Untouched DEF WriterNotesNumber
  <2>2. MetaTyped'
    BY <1>8, <1>a DEF WriterNotesNumber, Typed, MetaTyped
  <2>3. i' \in 0..Bulk /\ j' \in 0..(FileLines - 1) /\ i' = 1
    BY <1>8, <1>b, Constants DEF WriterNotesNumber
  <2>4. bulkRequest = <<>> /\ Len(bulkRequest) <= i'
    BY <1>8, <2>3 DEF WriterNotesNumber, Typed, WriterTyped
  <2>5. WriterTyped'
    BY <1>8, <2>3, <2>4
    DEF WriterNotesNumber, Typed, WriterTyped, WriterTypeOK
  <2> QED BY <1>0, <2>1, <2>2, <2>5 DEF Typed
<1>9. CASE WriterRestarts
  <2>1. GzTyped' /\ PlainTyped' /\ MetaTyped' /\ FileThere'
    BY <1>0, <1>9, Untouched DEF WriterRestarts, spoolVars
  <2>2. i' \in 0..Bulk /\ j' \in 0..(FileLines - 1)
    BY <1>9, <1>a DEF WriterRestarts
  <2>3. WriterTyped'
    BY <1>9, <2>2 DEF WriterRestarts, Typed, WriterTyped, WriterTypeOK
  <2> QED BY <1>0, <2>1, <2>3 DEF Typed
<1>10. CASE \E k \in Files : RemovesPlain(k)
  <2>1. PICK k \in Files : RemovesPlain(k)
    BY <1>10
  <2>2. GzTyped' /\ MetaTyped' /\ FileThere'
    BY <1>0, <2>1, Untouched DEF RemovesPlain, RemovePlain
  <2>3. PlainTyped'
    BY <2>1 DEF RemovesPlain, RemovePlain, Typed, PlainTyped
  <2>4. WriterTyped'
    BY <2>1 DEF RemovesPlain, RemovePlain, Typed, WriterTyped, WriterTypeOK
  <2> QED BY <1>0, <2>2, <2>3, <2>4 DEF Typed
<1> QED BY <1>1, <1>2, <1>3, <1>4, <1>5, <1>6, <1>7, <1>8, <1>9, <1>10
        DEF Writes

(* A line comes, or ulog2file dies.                                        *)
LEMMA EnvironmentTyped == Typed /\ Environment => Typed'
<1> SUFFICES ASSUME Typed, Environment PROVE Typed'
  OBVIOUS
<1>0. /\ TailTyped' /\ ReaderTyped' /\ (dropped \subseteq LineNo)'
      /\ UNCHANGED <<rpc, rfile>>
  BY Untouched DEF Environment, readerVars, restoreVars
<1>1. CASE LineArrives
  <2>1. GzTyped' /\ PlainTyped' /\ MetaTyped' /\ FileThere'
    BY <1>0, <1>1, Untouched DEF LineArrives, spoolVars
  <2>2. arrived' \in 0..MaxLine /\ arrived' \in LineNo
    BY <1>1, Constants
    DEF LineArrives, Typed, WriterTyped, WriterTypeOK, LineNo
  <2>3. PICK l \in LineNo : l = arrived'
    BY <2>2
  <2>4. backupLines' = Append(backupLines, l)
    BY <1>1, <2>3 DEF LineArrives
  <2>5. backupLines' \in Seq(LineNo) /\ Len(backupLines') <= BackupCap
    BY <1>1, <2>4, Constants
    DEF LineArrives, Typed, WriterTyped, WriterTypeOK
  <2>6. WriterTyped'
    BY <1>1, <2>2, <2>5, LineSeqs
    DEF LineArrives, Typed, WriterTyped, WriterTypeOK
  <2> QED BY <1>0, <2>1, <2>6 DEF Typed
<1>2. CASE WriterDiesNow
  <2>1. GzTyped' /\ DOMAIN gz' = DOMAIN gz
    <3>1. CASE UNCHANGED <<gz, blank, byTime, tied>>
      BY <3>1, Untouched
    <3>2. CASE \E n \in 0..written : Compressed(n)
      <4>1. PICK n \in 0..Len(bulkRequest) : Compressed(n)
        BY <3>2 DEF Typed, WriterTyped, WriterTypeOK
      <4> QED BY <4>1, CompressedTyped, Constants
              DEF Typed, WriterTyped, WriterTypeOK
    <3> QED BY <1>2, <3>1, <3>2 DEF WriterDiesNow
  <2>2. PlainTyped' /\ MetaTyped' /\ FileThere'
    BY <1>0, <1>2, <2>1, Untouched DEF WriterDiesNow
  <2>3. /\ deaths' \in 0..WriterDies /\ wpc' = "down"
        /\ backupLines' = <<>> /\ bulkRequest' = <<>> /\ written' = 0
        /\ idle' = FALSE /\ closing' = {}
        /\ UNCHANGED <<arrived, i, j, backupcount>>
    BY <1>2, Constants DEF WriterDiesNow, Typed, WriterTyped, WriterTypeOK
  <2>4. /\ Len(bulkRequest') <= Bulk + 1 /\ written' \in 0..Len(bulkRequest')
        /\ Len(backupLines') <= BackupCap
    BY <2>3, Constants
  <2>5. WriterTyped'
    BY <2>3, <2>4, LineSeqs DEF Typed, WriterTyped, WriterTypeOK
  <2> QED BY <1>0, <2>1, <2>2, <2>5 DEF Typed
<1> QED BY <1>1, <1>2 DEF Environment

-----------------------------------------------------------------------------
(* The end of the process of file2queue.                                   *)
LEMMA EndsTyped ==
    ASSUME Typed, ReaderEnds, killed' \in 0..ReaderDies
    PROVE  /\ GzTyped' /\ PlainTyped' /\ MetaTyped' /\ TailTyped'
           /\ ReaderTyped' /\ FileThere'
<1>1. GzTyped' /\ PlainTyped' /\ MetaTyped'
  BY Untouched DEF ReaderEnds, spoolVars
<1>2. 1 \in Files /\ 0 \in 0..FileLines /\ 0 < FileLines /\ 0 <= Buffer
  BY Constants DEF Files
<1>3. TailTyped'
  <2>1. /\ tpc' = "off" /\ tfile' = 1 /\ tpos' = 0 /\ tline' = 0
        /\ dying' = FALSE /\ truncated' = FALSE
    BY DEF ReaderEnds, TailForgotten
  <2>2. {tpos', tline'} \subseteq Nat
    BY <2>1
  <2>3. dying' \in BOOLEAN /\ truncated' \in BOOLEAN
    BY <2>1
  <2> QED BY <1>2, <2>1, <2>2, <2>3 DEF TailTyped, TailTypeOK
<1>4. ReaderTyped'
  <2>1. /\ rpc' = "down" /\ rfile' = 1 /\ rline' = 0 /\ rest' = <<>>
        /\ count' = 0 /\ parsedLines' = <<>> /\ ppc' = "off"
        /\ actions' = <<>> /\ esDocs' = esDocs
    BY DEF ReaderEnds
  <2>2. working' \in BOOLEAN /\ failed' \in BOOLEAN /\ esUp' \in BOOLEAN
    BY DEF ReaderEnds, Typed, ReaderTyped, ReaderTypeOK
  <2>3. <<>> \in Seq(LineNo) /\ <<>> \in Seq(Nat) /\ Len(<<>>) = 0
    BY LineSeqs
  <2>4. esDocs \subseteq Nat
    BY DEF Typed, ReaderTyped, ReaderTypeOK
  <2> QED BY <1>2, <2>1, <2>2, <2>3, <2>4 DEF ReaderTyped, ReaderTypeOK
<1>5. FileThere'
  BY DEF ReaderEnds, FileThere
<1> QED BY <1>1, <1>3, <1>4, <1>5

(* The steps of doRestoreTask.                                             *)
LEMMA RestoresTyped == Typed /\ Restores => Typed'
<1> SUFFICES ASSUME Typed, Restores PROVE Typed'
  OBVIOUS
<1>0. WriterTyped' /\ (dropped \subseteq LineNo)'
  BY Untouched DEF Restores
<1>a. killed \in 0..ReaderDies
  BY DEF Typed, ReaderTyped, ReaderTypeOK
<1>b. ASSUME UNCHANGED spoolVars
      PROVE  GzTyped' /\ PlainTyped' /\ MetaTyped'
  BY <1>b, Untouched DEF spoolVars
<1>1. CASE ReaderFindsNone \/ ReaderPanics
  <2>1. ReaderEnds /\ killed' \in 0..ReaderDies
    BY <1>a, <1>1 DEF ReaderFindsNone, ReaderPanics
  <2> QED BY <1>0, <2>1, EndsTyped DEF Typed
<1>2. CASE ReaderStarts
  <2>1. UNCHANGED <<spoolVars, tailVars>>
    BY <1>2 DEF ReaderStarts
  <2>2. TailTyped' /\ FileThere'
    BY <1>2, <2>1, Untouched DEF ReaderStarts, FileThere
  <2>3. ReaderTyped'
    BY <1>2 DEF ReaderStarts, Typed, ReaderTyped, ReaderTypeOK
  <2> QED BY <1>0, <1>b, <2>1, <2>2, <2>3 DEF Typed
<1>3. CASE ReaderLists
  <2>1. UNCHANGED <<spoolVars, tailVars>>
    BY <1>3 DEF ReaderLists, RestoreStep
  <2>2. rfile' \in DOMAIN gz /\ rfile' \in Files
    BY <1>3 DEF ReaderLists, Oldest, Typed, GzTyped
  <2>3. TailTyped' /\ FileThere'
    BY <2>1, <2>2, Untouched DEF FileThere, spoolVars
  <2>4. ReaderTyped'
    BY <1>3, <2>2
    DEF ReaderLists, RestoreStep, primaryVars, Typed, ReaderTyped,
        ReaderTypeOK
  <2> QED BY <1>0, <1>b, <2>1, <2>3, <2>4 DEF Typed
<1>4. CASE ReaderFollows
  <2>1. UNCHANGED <<spoolVars, rfile>> /\ rpc # "list" /\ rpc = "decide"
    BY <1>4 DEF ReaderFollows, RestoreStep
  <2>2. FileThere'
    BY <2>1 DEF Typed, FileThere, spoolVars
  <2>3. TailTyped'
    <3>1. /\ tpc' = "open" /\ tfile' \in Files /\ tpos' = 0 /\ tline' = 0
          /\ dying' = FALSE /\ truncated' = FALSE
      BY <1>4 DEF ReaderFollows, TailStarts, Typed, ReaderTyped, ReaderTypeOK
    <3>2. {tpos', tline'} \subseteq Nat
      BY <3>1
    <3>3. dying' \in BOOLEAN /\ truncated' \in BOOLEAN
      BY <3>1
    <3> QED BY <3>1, <3>2, <3>3 DEF TailTyped, TailTypeOK
  <2>4. ReaderTyped'
    BY <1>4 DEF ReaderFollows, RestoreStep, primaryVars, Typed, ReaderTyped,
                ReaderTypeOK
  <2> QED BY <1>0, <1>b, <2>1, <2>2, <2>3, <2>4 DEF Typed
<1>5. CASE ReaderUnpacks
  <2>1. UNCHANGED <<spoolVars, tailVars, rfile>> /\ rpc = "decide"
    BY <1>5 DEF ReaderUnpacks, RestoreStep
  <2>2. TailTyped' /\ FileThere'
    BY <2>1, Untouched DEF Typed, FileThere, spoolVars
  <2>3. rest' \in Seq(LineNo)
    BY <1>5, <2>1 DEF ReaderUnpacks, Typed, GzTyped, FileThere
  <2>4. ReaderTyped'
    BY <1>5, <2>3, LineSeqs
    DEF ReaderUnpacks, RestoreStep, primaryVars, Typed, ReaderTyped,
        ReaderTypeOK
  <2> QED BY <1>0, <1>b, <2>1, <2>2, <2>4 DEF Typed
<1>6. CASE ReaderSends
  <2>1. UNCHANGED <<spoolVars, tailVars, rpc, rfile>>
    BY <1>6 DEF ReaderSends, RestoreStep
  <2>2. TailTyped' /\ FileThere'
    BY <2>1, Untouched DEF spoolVars
  <2>3. /\ rest' \in Seq(LineNo) /\ parsedLines' \in Seq(LineNo)
        /\ Len(parsedLines') <= Buffer
    BY <1>6, Constants
    DEF ReaderSends, Typed, ReaderTyped, ReaderTypeOK
  <2>4. ReaderTyped'
    BY <1>6, <2>3, LineSeqs
    DEF ReaderSends, RestoreStep, primaryVars, Typed, ReaderTyped,
        ReaderTypeOK
  <2> QED BY <1>0, <1>b, <2>1, <2>2, <2>4 DEF Typed
<1>7. CASE ReaderReceives
  <2>1. /\ UNCHANGED <<spoolVars, rfile>> /\ rpc = "tail" /\ rpc' = "push"
        /\ tpc = "send" /\ tpc' = "check" /\ rline' = tline /\ tline' = 0
        /\ UNCHANGED <<tfile, tpos, dying, truncated>>
        /\ UNCHANGED <<rest, count, parsedLines, primaryVars, esUp, esDocs,
                       killed>>
    BY <1>7 DEF ReaderReceives, RestoreStep, TailHandsOver
  <2>2. FileThere'
    BY <2>1 DEF Typed, FileThere, spoolVars
  <2>3. TailTyped'
    BY <2>1 DEF Typed, TailTyped, TailTypeOK
  <2>4. rline' \in LineNo /\ rline' \in Nat
    BY <2>1, LineMembers DEF Typed, TailTyped
  <2>5. ReaderTyped'
    BY <2>1, <2>4 DEF primaryVars, Typed, ReaderTyped, ReaderTypeOK
  <2> QED BY <1>0, <1>b, <2>1, <2>2, <2>3, <2>5 DEF Typed
<1>8. CASE ReaderPushes
  <2>1. /\ UNCHANGED <<spoolVars, tailVars, rfile>>
        /\ rpc = "push" /\ rpc' \in {"stop", "tail"}
    BY <1>8 DEF ReaderPushes, RestoreStep
  <2>2. TailTyped' /\ FileThere'
    BY <2>1, Untouched DEF Typed, FileThere, spoolVars
  <2>3. PICK l \in LineNo : l = rline
    BY <2>1 DEF Typed, ReaderTyped
  <2>4. parsedLines' = Append(parsedLines, l)
    BY <1>8, <2>3 DEF ReaderPushes
  <2>5. parsedLines' \in Seq(LineNo) /\ Len(parsedLines') <= Buffer
    BY <1>8, <2>4, Constants
    DEF ReaderPushes, Typed, ReaderTyped, ReaderTypeOK
  <2>6. count' \in 0..FileLines /\ count' < FileLines
    BY <1>8, Constants DEF ReaderPushes, Typed, ReaderTyped, ReaderTypeOK
  <2>7. ReaderTyped'
    BY <1>8, <2>1, <2>5, <2>6, LineSeqs
    DEF ReaderPushes, RestoreStep, primaryVars, Typed, ReaderTyped,
        ReaderTypeOK
  <2> QED BY <1>0, <1>b, <2>1, <2>2, <2>7 DEF Typed
<1>9. CASE ReaderStops
  <2>1. UNCHANGED <<spoolVars, rfile>> /\ rpc = "stop"
    BY <1>9 DEF ReaderStops, RestoreStep
  <2>2. FileThere'
    BY <2>1 DEF Typed, FileThere, spoolVars
  <2>3. TailTyped'
    BY <1>9 DEF ReaderStops, Typed, TailTyped, TailTypeOK
  <2>4. ReaderTyped'
    BY <1>9 DEF ReaderStops, RestoreStep, primaryVars, Typed, ReaderTyped,
                ReaderTypeOK
  <2> QED BY <1>0, <1>b, <2>1, <2>2, <2>3, <2>4 DEF Typed
<1>10. CASE ReaderJoins
  <2>1. UNCHANGED <<spoolVars, rfile>> /\ rpc = "join"
    BY <1>10 DEF ReaderJoins, RestoreStep
  <2>2. FileThere'
    BY <2>1 DEF Typed, FileThere, spoolVars
  <2>3. TailTyped'
    <3>1. /\ tpc' = "off" /\ tfile' = 1 /\ tpos' = 0 /\ tline' = 0
          /\ dying' = FALSE /\ truncated' = FALSE
      BY <1>10 DEF ReaderJoins, TailForgotten
    <3>2. {tpos', tline'} \subseteq Nat /\ tfile' \in Files
      BY <3>1, Constants DEF Files
    <3>3. dying' \in BOOLEAN /\ truncated' \in BOOLEAN
      BY <3>1
    <3> QED BY <3>1, <3>2, <3>3 DEF TailTyped, TailTypeOK
  <2>4. ReaderTyped'
    BY <1>10 DEF ReaderJoins, RestoreStep, primaryVars, Typed, ReaderTyped,
                 ReaderTypeOK
  <2> QED BY <1>0, <1>b, <2>1, <2>2, <2>3, <2>4 DEF Typed
<1>11. CASE ReaderRemoves \/ ReaderUnlinks
  <2>1. Removed(rfile) /\ rpc' \in {"list", "sleep"} /\ unc' \subseteq unc
    BY <1>11 DEF ReaderRemoves, ReaderUnlinks
  <2>2. GzTyped'
    BY <2>1, RemovedTyped DEF Typed
  <2>3. PlainTyped' /\ MetaTyped' /\ TailTyped' /\ FileThere'
    BY <2>1, Untouched DEF Removed, Typed, PlainTyped, FileThere
  <2>4. ReaderTyped'
    BY <2>1 DEF Removed, primaryVars, Typed, ReaderTyped, ReaderTypeOK
  <2> QED BY <1>0, <2>2, <2>3, <2>4 DEF Typed
<1>12. CASE ReaderAtEOF
  <2>1. UNCHANGED <<spoolVars, tailVars, rfile>> /\ rpc = "gz"
    BY <1>12 DEF ReaderAtEOF, RestoreStep
  <2>2. TailTyped' /\ FileThere'
    BY <2>1, Untouched DEF Typed, FileThere, spoolVars
  <2>3. ReaderTyped'
    BY <1>12 DEF ReaderAtEOF, RestoreStep, primaryVars, Typed, ReaderTyped,
                 ReaderTypeOK
  <2> QED BY <1>0, <1>b, <2>1, <2>2, <2>3 DEF Typed
<1>13. CASE Wakes
  <2>1. UNCHANGED <<spoolVars, tailVars, rfile>> /\ rpc' = "list"
    BY <1>13 DEF Wakes, ReaderWakes, RestoreStep
  <2>2. TailTyped' /\ FileThere'
    BY <2>1, Untouched DEF FileThere
  <2>3. ReaderTyped'
    BY <1>13 DEF Wakes, ReaderWakes, RestoreStep, primaryVars, Typed,
                 ReaderTyped, ReaderTypeOK
  <2> QED BY <1>0, <1>b, <2>1, <2>2, <2>3 DEF Typed
<1> QED BY <1>1, <1>2, <1>3, <1>4, <1>5, <1>6, <1>7, <1>8, <1>9, <1>10,
           <1>11, <1>12, <1>13 DEF Restores, Restoring

-----------------------------------------------------------------------------
(* The steps of the tail.                                                  *)
LEMMA TailsTyped == Typed /\ Tails => Typed'
<1> SUFFICES ASSUME Typed, Tails PROVE Typed'
  OBVIOUS
<1>0. /\ GzTyped' /\ PlainTyped' /\ MetaTyped' /\ WriterTyped' /\ ReaderTyped'
      /\ FileThere' /\ (dropped \subseteq LineNo)'
  BY Untouched DEF Tails, spoolVars, readerVars, restoreVars
<1>1. tpos \in Nat /\ tline \in Nat /\ tfile \in Files
  BY DEF Typed, TailTyped, TailTypeOK
<1>2. TailTyped'
  <2>1. CASE TailReads
    <3>1. CASE tpos < Len(plain[tfile])
      <4>1. /\ tpos' = tpos + 1 /\ tline' = plain[tfile][tpos']
            /\ tpc' = "send"
            /\ UNCHANGED <<tfile, dying, truncated>>
        BY <2>1, <3>1 DEF TailReads
      <4>2. PICK s \in Seq(LineNo) : s = plain[tfile]
        BY <1>1 DEF Typed, PlainTyped
      <4>3. tline' \in LineNo /\ tpos' \in Nat
        BY <1>1, <3>1, <4>1, <4>2
      <4>4. tline' \in Nat
        BY <4>3, LineMembers
      <4> QED BY <4>1, <4>3, <4>4 DEF Typed, TailTyped, TailTypeOK
    <3>2. CASE ~(tpos < Len(plain[tfile]))
      BY <2>1, <3>2 DEF TailReads, Typed, TailTyped, TailTypeOK
    <3> QED BY <3>1, <3>2
  <2>2. CASE TailTruncated
    <3>1. tpos' = 0 /\ tpos' \in Nat
      BY <2>2 DEF TailTruncated
    <3>2. /\ truncated' \in BOOLEAN /\ tpc' = "read"
          /\ UNCHANGED <<tfile, tline, dying>>
      BY <2>2 DEF TailTruncated
    <3> QED BY <3>1, <3>2 DEF Typed, TailTyped, TailTypeOK
  <2>3. CASE TailOpens
    BY <2>3 DEF TailOpens, Typed, TailTyped, TailTypeOK
  <2>4. CASE TailStops \/ TailGoesOn \/ TailModified
    BY <2>4
    DEF TailStops, TailGoesOn, TailModified, Typed, TailTyped, TailTypeOK
  <2> QED BY <2>1, <2>2, <2>3, <2>4 DEF Tails, Tailing
<1> QED BY <1>0, <1>2 DEF Typed

(* The steps of doPrimaryTask.                                             *)
LEMMA IndexesTyped == Typed /\ Indexes => Typed'
<1> SUFFICES ASSUME Typed, Indexes PROVE Typed'
  OBVIOUS
<1>1. WriterTyped'
  BY Untouched DEF Indexes
<1>2. (dropped \subseteq LineNo)'
  <2>1. CASE ppc' = "waiting"
    <3>1. CASE ppc = "waiting"
      BY <2>1, <3>1
      DEF Indexes, Indexing, PrimaryConnects, PrimaryIsFatal, ReaderEnds,
          PrimaryAdds, PrimaryWaits, PrimaryPings, PrimaryIdles,
          PrimaryFlushes, PrimaryFails
    <3>2. CASE ppc # "waiting"
      <4>1. parsedLines # <<>> /\ dropped' = dropped \cup {Head(parsedLines)}
        BY <2>1, <3>2
        DEF Indexes, Indexing, PrimaryConnects, PrimaryIsFatal, ReaderEnds,
            PrimaryAdds, PrimaryWaits, PrimaryPings, PrimaryIdles,
            PrimaryFlushes, PrimaryFails
      <4>2. Head(parsedLines) \in LineNo
        BY <4>1 DEF Typed, ReaderTyped
      <4> QED BY <4>1, <4>2 DEF Typed
    <3> QED BY <3>1, <3>2
  <2>2. CASE ppc' # "waiting"
    BY <2>2 DEF Indexes, Typed
  <2> QED BY <2>1, <2>2
<1>3. CASE PrimaryIsFatal
  <2>1. ReaderEnds /\ killed' \in 0..ReaderDies
    BY <1>3 DEF PrimaryIsFatal, Typed, ReaderTyped, ReaderTypeOK
  <2> QED BY <1>1, <1>2, <2>1, EndsTyped DEF Typed
<1>4. ASSUME PrimaryStep, ReaderTyped' PROVE Typed'
  <2>1. /\ GzTyped' /\ PlainTyped' /\ MetaTyped' /\ TailTyped' /\ FileThere'
    BY <1>4, Untouched DEF PrimaryStep, spoolVars, restoreVars
  <2> QED BY <1>1, <1>2, <1>4, <2>1 DEF Typed
<1>5. CASE PrimaryAdds
  <2>1. /\ Tail(parsedLines) \in Seq(LineNo)
        /\ Len(Tail(parsedLines)) <= Buffer
        /\ Append(actions, Head(parsedLines)) \in Seq(LineNo)
    BY <1>5, Constants DEF PrimaryAdds, Typed, ReaderTyped, ReaderTypeOK
  <2>2. parsedLines' = Tail(parsedLines)
            /\ actions' = Append(actions, Head(parsedLines))
            /\ ppc' \in {"flush", "select"}
    BY <1>5 DEF PrimaryAdds
  <2>3. ReaderTyped'
    BY <1>5, <2>1, <2>2, LineSeqs
    DEF PrimaryAdds, PrimaryStep, restoreVars, Typed, ReaderTyped,
        ReaderTypeOK
  <2> QED BY <1>4, <1>5, <2>3 DEF PrimaryAdds
<1>6. CASE PrimaryWaits
  <2>1. /\ Tail(parsedLines) \in Seq(LineNo)
        /\ Len(Tail(parsedLines)) <= Buffer
    BY <1>6, Constants DEF PrimaryWaits, Typed, ReaderTyped, ReaderTypeOK
  <2>2. ReaderTyped'
    BY <1>6, <2>1, LineSeqs
    DEF PrimaryWaits, PrimaryStep, restoreVars, Typed, ReaderTyped,
        ReaderTypeOK
  <2> QED BY <1>4, <1>6, <2>2 DEF PrimaryWaits
<1>7. CASE PrimaryFlushes \/ PrimaryFails
  <2>1. Range(actions) \subseteq Nat
    BY LineMembers DEF Typed, ReaderTyped
  <2>2. esDocs' \subseteq Nat
    BY <1>7, <2>1 DEF PrimaryFlushes, PrimaryFails, Typed, ReaderTyped,
                      ReaderTypeOK
  <2>3. failed' \in BOOLEAN /\ working' \in BOOLEAN
    BY <1>7 DEF PrimaryFlushes, PrimaryFails, Typed, ReaderTyped, ReaderTypeOK
  <2>4. actions' \in Seq(LineNo) /\ ppc' = "select"
    BY <1>7, LineSeqs DEF PrimaryFlushes, PrimaryFails, Typed, ReaderTyped
  <2>5. ReaderTyped'
    BY <1>7, <2>2, <2>3, <2>4, LineSeqs
    DEF PrimaryFlushes, PrimaryFails, PrimaryStep, restoreVars, Typed,
        ReaderTyped, ReaderTypeOK
  <2> QED BY <1>4, <1>7, <2>5 DEF PrimaryFlushes, PrimaryFails
<1>8. CASE PrimaryConnects \/ PrimaryPings \/ PrimaryIdles
  <2>1. ReaderTyped'
    BY <1>8 DEF PrimaryConnects, PrimaryPings, PrimaryIdles, PrimaryStep,
                restoreVars, Typed, ReaderTyped, ReaderTypeOK
  <2> QED BY <1>4, <1>8, <2>1 DEF PrimaryConnects, PrimaryPings, PrimaryIdles
<1> QED BY <1>3, <1>5, <1>6, <1>7, <1>8 DEF Indexes, Indexing

(* file2queue is killed, or Elasticsearch changes.                         *)
LEMMA DisturbsTyped == Typed /\ Disturbs => Typed'
<1> SUFFICES ASSUME Typed, Disturbs PROVE Typed'
  OBVIOUS
<1>1. WriterTyped' /\ (dropped \subseteq LineNo)'
  BY Untouched DEF Disturbs
<1>2. CASE ReaderKilled
  <2>1. ReaderEnds /\ killed' \in 0..ReaderDies
    BY <1>2, Constants DEF ReaderKilled, Typed, ReaderTyped, ReaderTypeOK
  <2> QED BY <1>1, <2>1, EndsTyped DEF Typed
<1>3. CASE EsToggles
  <2>1. /\ GzTyped' /\ PlainTyped' /\ MetaTyped' /\ TailTyped' /\ FileThere'
    BY <1>3, Untouched DEF EsToggles, spoolVars, restoreVars
  <2>2. esUp' \in BOOLEAN
    BY <1>3 DEF EsToggles
  <2>3. ReaderTyped'
    BY <1>3, <2>2 DEF EsToggles, restoreVars, primaryVars, Typed, ReaderTyped,
                      ReaderTypeOK
  <2> QED BY <1>1, <2>1, <2>3 DEF Typed
<1> QED BY <1>2, <1>3 DEF Disturbs

(* Every step of either program.                                           *)
LEMMA StepTyped == Typed /\ [Next]_vars => Typed'
<1>1. ASSUME Typed, UNCHANGED vars PROVE Typed'
  BY <1>1, Untouched DEF vars, spoolVars, readerVars, restoreVars, Typed
<1> QED BY <1>1, BeginsTyped, WritesTyped, EnvironmentTyped, TailsTyped,
           RestoresTyped, IndexesTyped, DisturbsTyped DEF Next

LEMMA StepBegun == Typed /\ Begun /\ [Next]_vars => Begun'
<1> SUFFICES ASSUME Typed, Begun, [Next]_vars PROVE Begun'
  OBVIOUS
<1>1. CASE WriterBegins
  <2>1. backupcount' \in Files
    BY <1>1, Constants DEF WriterBegins, WriterStart, Typed, MetaTyped, Files
  <2> QED BY <1>1, <2>1 DEF WriterBegins, Begun
<1>2. CASE UNCHANGED startVars
  BY <1>2 DEF startVars, Begun
<1> QED BY <1>1, <1>2 DEF Next, Writes, Environment, Tails, Restores, Indexes,
                          Disturbs, vars

(* The variables of both programs keep to their types.                     *)
THEOREM TypeCorrect == Spec => []TypeOK
<1>1. Init => Begun
  BY DEF Init, Begun
<1> QED BY <1>1, InitTyped, StepTyped, StepBegun, TypedIsOK, PTL DEF Spec

-----------------------------------------------------------------------------
(***************************************************************************)
(* The count of file2queue.  ulog2file closes a file when it has FileLines *)
(* lines, or one more, so that the reader has counted to the end before    *)
(* the tail can find the plain file removed.                               *)
(***************************************************************************)
(* How many lines the current file has or is going to get, and whether one *)
(* of them, the one that asked for the flush, is not yet in j.             *)
Has == Len(plain[backupcount]) + Len(bulkRequest) - written

Lag == IF wpc = "flush" /\ ~idle THEN 1 ELSE 0

(* j counts the lines of the file modulo FileLines: from 0 in the first    *)
(* file of a process (o = 0), from 1 in the others (o = 1).                *)
Counts(o) ==
    /\ \/ Has + o - Lag = j
       \/ Has + o - Lag >= FileLines
    /\ o = 0 => i <= Has - Lag

WriterCounts ==
    /\ wpc \in {"down", "start"} => closing = {}
    /\ wpc \in {"start", "created"} => i = 0 /\ j = 0
    /\ wpc \in {"created", "current", "status"} => Has = 0
    /\ wpc \in {"select", "flush"} => Counts(0) \/ Counts(1)
    /\ wpc = "flush" /\ ~idle => i >= Bulk /\ Has >= 1
    /\ wpc = "rotate" => Has >= FileLines
    /\ wpc \in {"rotate", "current", "status"} => j = 0

ClosedComplete ==
    \A k \in closing : k < backupcount /\ Len(plain[k]) >= FileLines

(* The tail is at most two lines ahead of the count, and it only loses a   *)
(* complete file.                                                          *)
Ahead == (IF tpc = "send" THEN 1 ELSE 0) + (IF rpc = "push" THEN 1 ELSE 0)

TailCounts ==
    rpc \in {"tail", "push"} =>
        /\ ~dying
        /\ tpos <= count + Ahead
        /\ tpc \notin {"open", "off"} /\ tfile \notin unc =>
              Len(plain[tfile]) >= FileLines
        /\ tpc = "wait" /\ tfile \notin unc => tpos >= FileLines
        /\ tpc = "off" => rpc = "push" /\ tpos >= FileLines

CInv == Typed /\ WriterCounts /\ ClosedComplete /\ TailCounts

-----------------------------------------------------------------------------
(* The types of what is counted.                                           *)
LEMMA Lengths ==
    ASSUME Typed
    PROVE  /\ \A k \in Files : Len(plain[k]) \in Nat
           /\ Len(bulkRequest) \in Nat /\ written \in 0..Len(bulkRequest)
           /\ i \in Nat /\ j \in 0..(FileLines - 1)
           /\ backupcount \in Nat /\ count \in Nat /\ count < FileLines
           /\ tpos \in Nat
           /\ wpc \notin {"start", "down"} => backupcount \in Files
           /\ wpc \notin {"start", "down"} => Has \in Nat
<1>1. \A k \in Files : Len(plain[k]) \in Nat
  BY DEF Typed, PlainTyped
<1>2. /\ Len(bulkRequest) \in Nat /\ written \in 0..Len(bulkRequest)
      /\ wpc \notin {"start", "down"} => backupcount \in Files
  BY DEF Typed, WriterTyped, WriterTypeOK
<1>3. i \in Nat /\ j \in 0..(FileLines - 1) /\ backupcount \in Nat
  BY Constants DEF Typed, WriterTyped, WriterTypeOK
<1>4. count \in Nat /\ count < FileLines /\ tpos \in Nat
  BY Constants DEF Typed, ReaderTyped, ReaderTypeOK, TailTyped, TailTypeOK
<1>5. wpc \notin {"start", "down"} => Has \in Nat
  BY <1>1, <1>2 DEF Has
<1> QED BY <1>1, <1>2, <1>3, <1>4, <1>5

(* Nothing has been counted yet.                                           *)
LEMMA InitCounted == Init => CInv
<1> SUFFICES ASSUME Init PROVE CInv
  OBVIOUS
<1>1. WriterCounts /\ ClosedComplete
  BY DEF Init, WriterInit, WriterCounts, ClosedComplete
<1>2. TailCounts
  BY DEF Init, ReaderInit, TailCounts
<1> QED BY <1>1, <1>2, InitTyped DEF CInv

(* The count is the writer's alone.                                        *)
LEMMA CountUntouched ==
    ASSUME CInv, UNCHANGED <<writerVars, plain>>
    PROVE  WriterCounts' /\ ClosedComplete'
BY DEF CInv, WriterCounts, ClosedComplete, Counts, Has, Lag, writerVars

(* The plain files only grow.                                              *)
LEMMA TailUntouched ==
    ASSUME CInv, UNCHANGED <<rpc, tpc, tpos, count, dying, tfile, unc>>,
           \A k \in Files : Len(plain'[k]) >= Len(plain[k]),
           plain' \in [Files -> Seq(LineNo)]
    PROVE  TailCounts'
<1>1. /\ tfile \in Files /\ Len(plain[tfile]) \in Nat
      /\ Len(plain'[tfile]) \in Nat
  BY Lengths DEF CInv, Typed, TailTyped, TailTypeOK
<1>2. FileLines \in Nat
  BY Constants
<1>3. Len(plain[tfile]) >= FileLines => Len(plain'[tfile]) >= FileLines
  BY <1>1, <1>2
<1> QED BY <1>3 DEF CInv, TailCounts, Ahead

(* A step the tail and the reader do not see.                              *)
LEMMA TailKept ==
    ASSUME CInv, UNCHANGED <<rpc, tpc, tpos, count, dying, tfile, unc, plain>>
    PROVE  TailCounts'
BY DEF CInv, TailCounts, Ahead

(* A file that is created is there.                                        *)
LEMMA CreatedCounted ==
    ASSUME CInv, NEW k \in Files, CreateFile(k),
           UNCHANGED <<rpc, tpc, tpos, count, dying, tfile>>
    PROVE  /\ TailCounts'
           /\ Len(plain'[k]) = 0
           /\ \A n \in Files : n # k => plain'[n] = plain[n]
<1>1. /\ plain' = [plain EXCEPT ![k] = <<>>] /\ unc' = unc \cup {k}
      /\ plain \in [Files -> Seq(LineNo)]
  BY DEF CreateFile, CInv, Typed, PlainTyped
<1>2. plain'[k] = <<>> /\ \A n \in Files : n # k => plain'[n] = plain[n]
  BY <1>1
<1>3. tfile \in Files
  BY DEF CInv, Typed, TailTyped, TailTypeOK
<1>4. tfile \notin unc' => tfile \notin unc /\ plain'[tfile] = plain[tfile]
  BY <1>1, <1>2, <1>3
<1>5. TailCounts'
  BY <1>4 DEF CInv, TailCounts, Ahead
<1> QED BY <1>2, <1>5

(* ulog2file starts.                                                       *)
LEMMA BeginsCounted == CInv /\ WriterBegins => CInv'
<1> SUFFICES ASSUME CInv, WriterBegins PROVE CInv'
  OBVIOUS
<1>1. Typed'
  BY BeginsTyped DEF CInv
<1>2. PICK k \in Files : k = backupcount' /\ CreateFile(k)
  BY Constants DEF WriterBegins, WriterStart, CInv, Typed, MetaTyped, Files
<1>3. TailCounts' /\ Len(plain'[k]) = 0
  BY <1>2, CreatedCounted DEF WriterBegins
<1>4. /\ wpc = "start" /\ wpc' = "created"
      /\ UNCHANGED <<bulkRequest, written, i, j, closing>>
  BY DEF WriterBegins, WriterStart
<1>5. closing = {} /\ i = 0 /\ j = 0
  BY <1>4 DEF CInv, WriterCounts
<1>6. bulkRequest = <<>> /\ Len(bulkRequest) = 0 /\ written = 0
  BY <1>4, Lengths DEF CInv, Typed, WriterTyped
<1>7. Has' = 0
  BY <1>2, <1>3, <1>4, <1>6 DEF Has
<1>8. WriterCounts' /\ ClosedComplete'
  BY <1>4, <1>5, <1>7 DEF WriterCounts, ClosedComplete
<1> QED BY <1>1, <1>3, <1>8 DEF CInv

(* One line more, or one counted later.                                    *)
LEMMA Counted ==
    ASSUME NEW n \in Nat, NEW c \in 0..(FileLines - 1),
           n = c \/ n >= FileLines
    PROVE  n + 1 = (c + 1) % FileLines \/ n + 1 >= FileLines
<1>1. FileLines \in Nat /\ FileLines > 0
  BY Constants
<1>2. CASE c + 1 < FileLines
  <2>1. (c + 1) % FileLines = c + 1
    BY <1>1, <1>2
  <2> QED BY <1>1, <2>1
<1>3. CASE c + 1 >= FileLines
  BY <1>1, <1>3
<1> QED BY <1>1, <1>2, <1>3

(* The other steps of ulog2file.                                           *)
LEMMA WritesCounted == CInv /\ Writes => CInv'
<1> SUFFICES ASSUME CInv, Writes PROVE CInv'
  OBVIOUS
<1>1. Typed'
  BY WritesTyped DEF CInv
<1>2. UNCHANGED <<rpc, tpc, tpos, count, dying, tfile>>
  BY DEF Writes, tailVars, readerVars, restoreVars
<1>a. UNCHANGED <<unc, plain>> => TailCounts'
  BY <1>2, TailKept
<1>b. /\ Len(bulkRequest) \in Nat /\ written \in 0..Len(bulkRequest)
      /\ i \in Nat /\ j \in 0..(FileLines - 1)
      /\ backupcount \in Nat /\ \A k \in Files : Len(plain[k]) \in Nat
  BY Lengths DEF CInv
<1>c. wpc \notin {"start", "down"} => backupcount \in Files /\ Has \in Nat
  BY Lengths DEF CInv
<1>d. FileLines \in Nat /\ FileLines > 0 /\ Bulk \in Nat /\ Bulk > 1
  BY Constants
<1>3. CASE WriterNamesFile
  <2>1. /\ wpc = "created" /\ wpc' = "select"
        /\ UNCHANGED <<bulkRequest, written, i, j, backupcount, closing>>
        /\ UNCHANGED <<plain, unc>>
    BY <1>3 DEF WriterNamesFile
  <2>2. Has = 0 /\ i = 0 /\ j = 0 /\ Has' = Has
    BY <2>1 DEF CInv, WriterCounts, Has
  <2>3. Counts(0)'
    BY <2>1, <2>2 DEF Counts, Lag
  <2>4. WriterCounts' /\ ClosedComplete'
    BY <2>1, <2>3 DEF CInv, WriterCounts, ClosedComplete
  <2> QED BY <1>1, <1>a, <2>1, <2>4 DEF CInv
<1>4. CASE WriterReceive
  <2>1. /\ wpc = "select"
        /\ bulkRequest' = Append(bulkRequest, Head(backupLines))
        /\ UNCHANGED <<written, idle, backupcount, closing, plain, unc>>
        /\ \/ i >= Bulk /\ wpc' = "flush" /\ UNCHANGED <<i, j>>
           \/ /\ i < Bulk /\ i' = i + 1 /\ j' = (j + 1) % FileLines
              /\ wpc' = "select"
    BY <1>4 DEF WriterReceive, spoolVars
  <2>2. Len(bulkRequest') = Len(bulkRequest) + 1
    BY <2>1 DEF CInv, Typed, WriterTyped
  <2>3. Has' = Has + 1 /\ ~idle /\ Lag = 0 /\ Has \in Nat
    <3>1. Has' = Has + 1 /\ Has \in Nat
      <4>1. Has' = Len(plain[backupcount]) + Len(bulkRequest') - written
        BY <2>1 DEF Has
      <4>2. Len(plain[backupcount]) \in Nat
        BY <1>b, <1>c, <2>1
      <4>3. /\ Has = Len(plain[backupcount]) + Len(bulkRequest) - written
            /\ Has \in Nat
        BY <1>c, <2>1 DEF Has
      <4>4. Len(bulkRequest) \in Nat /\ written \in Nat
        BY <1>b
      <4>5. \A a, b, c \in Nat : a + (b + 1) - c = (a + b - c) + 1
        OBVIOUS
      <4> HIDE DEF Has
      <4>6. Has' = Len(plain[backupcount]) + (Len(bulkRequest) + 1) - written
        BY <2>2, <4>1
      <4>7. Has' = (Len(plain[backupcount]) + Len(bulkRequest) - written) + 1
        BY <4>2, <4>4, <4>5, <4>6
      <4> QED BY <4>3, <4>7
    <3>2. ~idle
      BY <2>1 DEF CInv, Typed, WriterTyped
    <3>3. Lag = 0
      BY <2>1 DEF Lag
    <3> QED BY <3>1, <3>2, <3>3
  <2>4. PICK o \in {0, 1} : Counts(o)
    BY <2>1 DEF CInv, WriterCounts
  <2>5. /\ Has + o = j \/ Has + o >= FileLines
        /\ o = 0 => i <= Has
    BY <2>3, <2>4 DEF Counts
  <2>6. CASE i >= Bulk /\ wpc' = "flush" /\ UNCHANGED <<i, j>>
    <3>1. Lag' = 1 /\ Has' - Lag' = Has
      BY <2>1, <2>3, <2>6 DEF Lag
    <3>2. Counts(o)'
      BY <1>b, <2>3, <2>5, <2>6, <3>1 DEF Counts
    <3>3. Has' >= 1
      BY <2>3
    <3>4. WriterCounts' /\ ClosedComplete'
      BY <2>1, <2>4, <2>6, <3>2, <3>3 DEF CInv, WriterCounts, ClosedComplete
    <3> QED BY <1>1, <1>a, <2>1, <3>4 DEF CInv
  <2>7. CASE /\ i < Bulk /\ i' = i + 1 /\ j' = (j + 1) % FileLines
             /\ wpc' = "select"
    <3>1. Lag' = 0
      BY <2>7 DEF Lag
    <3>2. Has + o \in Nat /\ Has + 1 + o = Has + o + 1
      BY <2>3
    <3>3. Has + o + 1 = j' \/ Has + o + 1 >= FileLines
      BY <1>b, <2>5, <2>7, <3>2, Counted
    <3>4. Has' + o - Lag' = Has + o + 1 /\ Has' - Lag' = Has + 1
      BY <2>3, <3>1
    <3>5. Counts(o)'
      BY <1>b, <2>3, <2>5, <2>7, <3>3, <3>4 DEF Counts
    <3>6. WriterCounts' /\ ClosedComplete'
      BY <2>1, <2>4, <2>7, <3>5 DEF CInv, WriterCounts, ClosedComplete
    <3> QED BY <1>1, <1>a, <2>1, <3>6 DEF CInv
  <2> QED BY <2>1, <2>6, <2>7
<1>5. CASE WriterIdle
  <2>1. /\ wpc = "select" /\ wpc' = "flush" /\ idle' = TRUE
        /\ UNCHANGED <<bulkRequest, written, i, j, backupcount, closing>>
        /\ UNCHANGED <<plain, unc>>
    BY <1>5 DEF WriterIdle, spoolVars
  <2>2. Has' = Has /\ Lag' = 0 /\ Lag = 0
    BY <2>1 DEF Has, Lag
  <2>3. Counts(0)' \/ Counts(1)'
    BY <2>1, <2>2 DEF CInv, WriterCounts, Counts
  <2>4. WriterCounts' /\ ClosedComplete'
    BY <2>1, <2>3 DEF CInv, WriterCounts, ClosedComplete
  <2> QED BY <1>1, <1>a, <2>1, <2>4 DEF CInv
<1>6. CASE WriterWrites
  <2>1. /\ wpc = "flush" /\ wpc' = "flush" /\ written < Len(bulkRequest)
        /\ written' = written + 1
        /\ UNCHANGED <<bulkRequest, idle, i, j, backupcount, closing, unc>>
    BY <1>6 DEF WriterWrites
  <2>2. backupcount \in Files /\ plain \in [Files -> Seq(LineNo)]
    BY <1>c, <2>1 DEF CInv, Typed, PlainTyped
  <2>3. written' \in 1..Len(bulkRequest)
    BY <1>b, <2>1
  <2>4. PICK l \in LineNo : l = bulkRequest[written']
    BY <2>3 DEF CInv, Typed, WriterTyped
  <2>5. plain' = [plain EXCEPT ![backupcount] = Append(plain[backupcount], l)]
    BY <1>6, <2>4 DEF WriterWrites
  <2>6. /\ plain'[backupcount] = Append(plain[backupcount], l)
        /\ \A k \in Files : k # backupcount => plain'[k] = plain[k]
    BY <2>2, <2>5
  <2>7. Len(plain'[backupcount]) = Len(plain[backupcount]) + 1
    BY <2>2, <2>6
  <2>8. \A k \in Files : Len(plain'[k]) >= Len(plain[k])
    BY <1>b, <2>2, <2>6, <2>7
  <2>9. Has' = Has /\ Lag' = Lag
    BY <1>b, <2>1, <2>2, <2>7 DEF Has, Lag
  <2>10. Counts(0)' \/ Counts(1)'
    BY <2>1, <2>9 DEF CInv, WriterCounts, Counts
  <2>11. WriterCounts'
    BY <2>1, <2>9, <2>10 DEF CInv, WriterCounts
  <2>12. ClosedComplete'
    <3>1. \A k \in closing : k \in Files /\ k < backupcount
      BY DEF CInv, ClosedComplete, Typed, WriterTyped, WriterTypeOK
    <3>2. \A k \in closing : k # backupcount
      BY <1>b, <3>1 DEF Files
    <3>3. \A k \in closing : plain'[k] = plain[k]
      BY <2>6, <3>1, <3>2
    <3> QED BY <2>1, <3>3 DEF CInv, ClosedComplete
  <2>13. TailCounts'
    <3>1. plain' \in [Files -> Seq(LineNo)]
      BY <1>1 DEF Typed, PlainTyped
    <3> QED BY <1>2, <2>1, <2>8, <3>1, TailUntouched
  <2> QED BY <1>1, <2>11, <2>12, <2>13 DEF CInv
<1>7. CASE WriterFlushed
  <2>1. /\ wpc = "flush" /\ written = Len(bulkRequest) /\ bulkRequest' = <<>>
        /\ written' = 0 /\ UNCHANGED <<backupcount, closing, plain, unc>>
        /\ \/ idle /\ wpc' = "select" /\ UNCHANGED <<i, j>>
           \/ ~idle /\ j = 0 /\ wpc' = "rotate" /\ UNCHANGED <<i, j>>
           \/ /\ ~idle /\ j > 0 /\ i' = 1 /\ j' = (j + 1) % FileLines
              /\ wpc' = "select"
    BY <1>7 DEF WriterFlushed
  <2>2. Has' = Has /\ Has \in Nat /\ Lag' = 0
    BY <1>b, <1>c, <2>1 DEF Has, Lag
  <2>3. PICK o \in {0, 1} : Counts(o)
    BY <2>1 DEF CInv, WriterCounts
  <2>4. ClosedComplete'
    BY <2>1 DEF CInv, ClosedComplete
  <2>5. WriterCounts'
    <3>1. CASE idle /\ wpc' = "select" /\ UNCHANGED <<i, j>>
      <4>1. Counts(o)'
        BY <2>2, <2>3, <3>1 DEF Counts, Lag
      <4> QED BY <2>3, <3>1, <4>1 DEF WriterCounts
    <3>2. CASE ~idle /\ j = 0 /\ wpc' = "rotate" /\ UNCHANGED <<i, j>>
      <4>1. Lag = 1 /\ Has >= 1 /\ i >= Bulk
        BY <2>1, <3>2 DEF Lag, CInv, WriterCounts
      <4>2. Has >= FileLines
        BY <1>b, <1>d, <2>2, <2>3, <3>2, <4>1 DEF Counts
      <4> QED BY <2>2, <3>2, <4>2 DEF WriterCounts
    <3>3. CASE /\ ~idle /\ j > 0 /\ i' = 1 /\ j' = (j + 1) % FileLines
               /\ wpc' = "select"
      <4>1. Lag = 1 /\ Has >= 1
        BY <2>1, <3>3 DEF Lag, CInv, WriterCounts
      <4> DEFINE n == Has + o - 1
      <4>2. n \in Nat /\ (n = j \/ n >= FileLines)
        BY <2>2, <2>3, <4>1 DEF Counts
      <4>3. n + 1 = j' \/ n + 1 >= FileLines
        <5> HIDE DEF n
        <5> QED BY <1>b, <3>3, <4>2, Counted
      <4>4. Has' + o - Lag' = n + 1 /\ Has' - Lag' = Has
        BY <2>2
      <4>5. Counts(o)'
        BY <2>2, <3>3, <4>1, <4>3, <4>4 DEF Counts
      <4> QED BY <2>3, <3>3, <4>5 DEF WriterCounts
    <3> QED BY <2>1, <3>1, <3>2, <3>3
  <2> QED BY <1>1, <1>a, <2>1, <2>4, <2>5 DEF CInv
<1>8. CASE WriterRotates
  <2>1. /\ wpc = "rotate" /\ wpc' = "current" /\ backupcount < MaxFile
        /\ backupcount' = backupcount + 1
        /\ closing' = closing \cup {backupcount}
        /\ UNCHANGED <<bulkRequest, written, i, j>>
    BY <1>8 DEF WriterRotates
  <2>2. PICK k \in Files : k = backupcount' /\ CreateFile(k)
    BY <1>8, <1>b, <2>1, Constants DEF WriterRotates, Files
  <2>3. /\ TailCounts' /\ Len(plain'[k]) = 0
        /\ \A n \in Files : n # k => plain'[n] = plain[n]
    BY <1>2, <2>2, CreatedCounted
  <2>4. bulkRequest = <<>> /\ Len(bulkRequest) = 0 /\ written = 0
    BY <1>b, <2>1 DEF CInv, Typed, WriterTyped
  <2>5. Has' = 0
    BY <2>1, <2>2, <2>3, <2>4 DEF Has
  <2>6. WriterCounts'
    BY <2>1, <2>5 DEF CInv, WriterCounts
  <2>7. Len(plain[backupcount]) >= FileLines
    BY <1>b, <1>c, <2>1, <2>4 DEF CInv, WriterCounts, Has
  <2>8. ClosedComplete'
    <3> SUFFICES ASSUME NEW n \in closing'
                 PROVE  n < backupcount' /\ Len(plain'[n]) >= FileLines
      BY DEF ClosedComplete
    <3>1. n < backupcount' /\ Len(plain[n]) >= FileLines /\ n \in Files
      BY <1>b, <1>c, <2>1, <2>7
      DEF CInv, ClosedComplete, Typed, WriterTyped, WriterTypeOK, Files
    <3>2. n # k
      BY <2>2, <3>1 DEF Files
    <3> QED BY <2>3, <3>1, <3>2
  <2> QED BY <1>1, <2>3, <2>6, <2>8 DEF CInv
<1>9. CASE WriterNamesNext
  <2>1. /\ wpc = "current" /\ wpc' = "status"
        /\ UNCHANGED <<bulkRequest, written, i, j, backupcount, closing>>
        /\ UNCHANGED <<plain, unc>>
    BY <1>9 DEF WriterNamesNext
  <2>2. WriterCounts' /\ ClosedComplete'
    BY <2>1 DEF CInv, WriterCounts, ClosedComplete, Has
  <2> QED BY <1>1, <1>a, <2>1, <2>2 DEF CInv
<1>10. CASE WriterNotesNumber
  <2>1. /\ wpc = "status" /\ wpc' = "select"
        /\ i' = 1 /\ j' = (j + 1) % FileLines
        /\ UNCHANGED <<bulkRequest, written, backupcount, closing>>
        /\ UNCHANGED <<plain, unc>>
    BY <1>10 DEF WriterNotesNumber
  <2>2. Has = 0 /\ j = 0 /\ Has' = Has /\ Lag' = 0
    BY <2>1 DEF CInv, WriterCounts, Has, Lag
  <2>3. 0 + 1 = (0 + 1) % FileLines \/ 0 + 1 >= FileLines
    BY <1>d, Counted
  <2>4. Counts(1)'
    BY <2>1, <2>2, <2>3 DEF Counts
  <2>5. WriterCounts' /\ ClosedComplete'
    BY <2>1, <2>4 DEF CInv, WriterCounts, ClosedComplete
  <2> QED BY <1>1, <1>a, <2>1, <2>5 DEF CInv
<1>11. CASE WriterRestarts
  <2>1. /\ wpc = "down" /\ wpc' = "start" /\ i' = 0 /\ j' = 0
        /\ UNCHANGED <<backupcount, closing, plain, unc>>
    BY <1>11 DEF WriterRestarts, spoolVars
  <2>2. WriterCounts' /\ ClosedComplete'
    BY <2>1 DEF CInv, WriterCounts, ClosedComplete
  <2> QED BY <1>1, <1>a, <2>1, <2>2 DEF CInv
<1>12. CASE \E k \in Files : RemovesPlain(k)
  <2>1. PICK k \in Files : RemovesPlain(k)
    BY <1>12
  <2>2. /\ k \in closing /\ closing' = closing \ {k} /\ unc' = unc \ {k}
        /\ tfile = k =>
              tpc # "open" /\ ~(tpc = "wait" /\ tpos < Len(plain[k]))
        /\ UNCHANGED <<wpc, bulkRequest, written, idle, i, j, backupcount>>
        /\ UNCHANGED plain
    BY <2>1 DEF RemovesPlain, RemovePlain
  <2>3. WriterCounts' /\ ClosedComplete'
    BY <2>2 DEF CInv, WriterCounts, ClosedComplete, Counts, Has, Lag
  <2>4. Len(plain[k]) >= FileLines
    BY <2>2 DEF CInv, ClosedComplete
  <2>5. CASE tfile = k
    <3>1. tpc = "wait" => tpos >= FileLines
      <4>1. tpos \in Nat /\ Len(plain[k]) \in Nat
        BY Lengths DEF CInv
      <4> QED BY <1>d, <2>2, <2>4, <2>5, <4>1
    <3> QED BY <1>1, <1>2, <2>2, <2>3, <2>4, <2>5, <3>1
            DEF CInv, TailCounts, Ahead
  <2>6. CASE tfile # k
    BY <1>1, <1>2, <2>2, <2>3, <2>6 DEF CInv, TailCounts, Ahead
  <2> QED BY <2>5, <2>6
<1> QED BY <1>3, <1>4, <1>5, <1>6, <1>7, <1>8, <1>9, <1>10, <1>11, <1>12
        DEF Writes

(* A line comes, or ulog2file dies.                                        *)
LEMMA EnvironmentCounted == CInv /\ Environment => CInv'
<1> SUFFICES ASSUME CInv, Environment PROVE CInv'
  OBVIOUS
<1>1. Typed'
  BY EnvironmentTyped DEF CInv
<1>2. TailCounts'
  BY TailKept DEF Environment, LineArrives, WriterDiesNow, tailVars,
                  readerVars, restoreVars, spoolVars
<1>3. CASE LineArrives
  <2>1. UNCHANGED <<wpc, bulkRequest, written, idle, i, j, backupcount,
                    closing, plain>>
    BY <1>3 DEF LineArrives, spoolVars
  <2>2. WriterCounts' /\ ClosedComplete'
    BY <2>1 DEF CInv, WriterCounts, ClosedComplete, Counts, Has, Lag
  <2> QED BY <1>1, <1>2, <2>2 DEF CInv
<1>4. CASE WriterDiesNow
  <2>1. wpc' = "down" /\ closing' = {}
    BY <1>4 DEF WriterDiesNow
  <2>2. WriterCounts' /\ ClosedComplete'
    BY <2>1 DEF WriterCounts, ClosedComplete
  <2> QED BY <1>1, <1>2, <2>2 DEF CInv
<1> QED BY <1>3, <1>4 DEF Environment

-----------------------------------------------------------------------------
(* The steps of the tail.                                                  *)
LEMMA TailsCounted == CInv /\ Tails => CInv'
<1> SUFFICES ASSUME CInv, Tails PROVE CInv'
  OBVIOUS
<1>1. Typed' /\ WriterCounts' /\ ClosedComplete'
  BY TailsTyped, CountUntouched DEF CInv, Tails, spoolVars
<1>2. UNCHANGED <<rpc, count, unc, plain>>
  BY DEF Tails, spoolVars, readerVars, restoreVars
<1>3. /\ tpos \in Nat /\ count \in Nat /\ count < FileLines
      /\ FileLines \in Nat
      /\ Len(plain[tfile]) \in Nat
  BY Lengths, Constants DEF CInv, Typed, TailTyped, TailTypeOK
<1>4. TailCounts'
  <2> SUFFICES ASSUME rpc \in {"tail", "push"} PROVE TailCounts'
    BY <1>2 DEF TailCounts
  <2>1. /\ ~dying
        /\ tpos <= count + Ahead
        /\ tpc \notin {"open", "off"} /\ tfile \notin unc =>
              Len(plain[tfile]) >= FileLines
        /\ tpc = "wait" /\ tfile \notin unc => tpos >= FileLines
        /\ tpc = "off" => rpc = "push" /\ tpos >= FileLines
    BY DEF CInv, TailCounts
  <2>2. CASE TailOpens
    <3>1. /\ tpc = "open" /\ tpc' = "read" /\ tfile \in unc
          /\ UNCHANGED <<tfile, tpos, dying>>
      BY <2>2 DEF TailOpens
    <3> QED BY <1>2, <2>1, <3>1 DEF TailCounts, Ahead
  <2>3. CASE TailReads
    <3>1. tpc = "read" /\ UNCHANGED <<tfile, dying>>
      BY <2>3 DEF TailReads
    <3>2. CASE tpos < Len(plain[tfile])
      <4>1. tpc' = "send" /\ tpos' = tpos + 1
        BY <2>3, <3>2 DEF TailReads
      <4>2. tpos' <= count + Ahead'
        BY <1>2, <1>3, <2>1, <3>1, <4>1 DEF Ahead
      <4> QED BY <1>2, <2>1, <3>1, <4>1, <4>2 DEF TailCounts
    <3>3. CASE ~(tpos < Len(plain[tfile]))
      <4>1. tpc' = "wait" /\ tpos' = tpos
        BY <2>3, <3>3 DEF TailReads
      <4>2. tfile \notin unc => tpos >= FileLines
        BY <1>3, <2>1, <3>1, <3>3
      <4> QED BY <1>2, <2>1, <3>1, <4>1, <4>2 DEF TailCounts, Ahead
    <3> QED BY <3>2, <3>3
  <2>4. CASE TailStops
    <3>1. /\ tpc = "wait" /\ tfile \notin unc /\ tpc' = "off"
          /\ UNCHANGED <<tfile, tpos, dying>>
      BY <2>1, <2>4 DEF TailStops
    <3>2. tpos >= FileLines /\ rpc = "push"
      BY <1>3, <2>1, <3>1 DEF Ahead
    <3> QED BY <1>2, <2>1, <3>1, <3>2 DEF TailCounts, Ahead
  <2>5. CASE TailGoesOn \/ TailModified
    <3>1. /\ tpc \in {"check", "wait"} /\ tpc' = "read"
          /\ UNCHANGED <<tfile, tpos, dying>>
      BY <2>5 DEF TailGoesOn, TailModified
    <3> QED BY <1>2, <2>1, <3>1 DEF TailCounts, Ahead
  <2>6. CASE TailTruncated
    <3>1. /\ tpc = "wait" /\ tpc' = "read" /\ tpos' = 0
          /\ UNCHANGED <<tfile, dying>>
      BY <2>6 DEF TailTruncated
    <3>2. tpos' <= count + Ahead'
      BY <1>2, <1>3, <3>1 DEF Ahead
    <3> QED BY <1>2, <2>1, <3>1, <3>2 DEF TailCounts
  <2> QED BY <2>2, <2>3, <2>4, <2>5, <2>6 DEF Tails, Tailing
<1> QED BY <1>1, <1>4 DEF CInv

(* The steps of doRestoreTask.                                             *)
LEMMA RestoresCounted == CInv /\ Restores => CInv'
<1> SUFFICES ASSUME CInv, Restores PROVE CInv'
  OBVIOUS
<1>1. Typed'
  BY RestoresTyped DEF CInv
<1>2. UNCHANGED <<writerVars, plain>>
  BY DEF Restores, Restoring, RestoreStep, spoolVars, Wakes, ReaderStarts,
         ReaderLists, ReaderFindsNone, ReaderFollows, ReaderUnpacks,
         ReaderPanics, ReaderEnds, ReaderSends, ReaderAtEOF, ReaderReceives,
         ReaderPushes, ReaderStops, ReaderJoins, ReaderRemoves, ReaderUnlinks,
         Removed, ReaderWakes
<1>3. WriterCounts' /\ ClosedComplete'
  BY <1>2, CountUntouched
<1>4. /\ tpos \in Nat /\ count \in Nat /\ FileLines \in Nat
  BY Lengths, Constants DEF CInv
<1>5. TailCounts'
  <2>1. CASE rpc' \notin {"tail", "push"}
    BY <2>1 DEF TailCounts
  <2>2. CASE ReaderFollows
    <3>1. /\ rpc' = "tail" /\ tpc' = "open" /\ tpos' = 0 /\ ~dying'
          /\ count' = count
      BY <2>2 DEF ReaderFollows, TailStarts
    <3>2. tpos' <= count' + Ahead'
      BY <1>4, <3>1 DEF Ahead
    <3> QED BY <3>1, <3>2 DEF TailCounts
  <2>3. CASE ReaderReceives
    <3>1. /\ rpc = "tail" /\ rpc' = "push" /\ tpc = "send" /\ tpc' = "check"
          /\ UNCHANGED <<tfile, tpos, dying, count, unc, plain>>
      BY <2>3 DEF ReaderReceives, TailHandsOver, RestoreStep, spoolVars
    <3>2. Ahead' = Ahead
      BY <3>1 DEF Ahead
    <3> QED BY <3>1, <3>2 DEF CInv, TailCounts
  <2>4. CASE ReaderPushes /\ rpc' = "tail"
    <3>1. /\ rpc = "push" /\ count' = count + 1 /\ count + 1 < FileLines
          /\ UNCHANGED <<tpc, tfile, tpos, dying, unc, plain>>
      BY <2>4 DEF ReaderPushes, tailVars, RestoreStep, spoolVars
    <3>2. tpos <= count + Ahead /\ (tpc = "off" => tpos >= FileLines)
      BY <3>1 DEF CInv, TailCounts
    <3>3. tpos' <= count' + Ahead'
      BY <1>4, <2>4, <3>1, <3>2 DEF Ahead
    <3>4. tpc # "off"
      BY <1>4, <3>1, <3>2 DEF Ahead
    <3> QED BY <2>4, <3>1, <3>3, <3>4 DEF CInv, TailCounts
  <2>5. rpc' \notin {"tail", "push"} \/ ReaderFollows \/ ReaderReceives
            \/ (ReaderPushes /\ rpc' = "tail")
    BY DEF Restores, Restoring, Wakes, ReaderStarts,
         ReaderLists, ReaderFindsNone, ReaderUnpacks,
         ReaderPanics, ReaderEnds, ReaderSends, ReaderAtEOF,
         ReaderPushes, ReaderStops, ReaderJoins, ReaderRemoves, ReaderUnlinks,
         ReaderWakes
  <2> QED BY <2>1, <2>2, <2>3, <2>4, <2>5
<1> QED BY <1>1, <1>3, <1>5 DEF CInv

(* The other steps of file2queue.                                          *)
LEMMA OthersCounted == CInv /\ (Indexes \/ Disturbs) => CInv'
<1> SUFFICES ASSUME CInv, Indexes \/ Disturbs PROVE CInv'
  OBVIOUS
<1>1. Typed'
  BY IndexesTyped, DisturbsTyped DEF CInv
<1>2. UNCHANGED <<writerVars, spoolVars>>
      /\ (rpc' = "down" \/ UNCHANGED <<restoreVars, tailVars>>)
  BY DEF Indexes, Indexing, PrimaryConnects, PrimaryIsFatal, PrimaryAdds,
         PrimaryWaits, PrimaryPings, PrimaryIdles, PrimaryFlushes,
         PrimaryFails, PrimaryStep, Disturbs, ReaderKilled, ReaderEnds,
         EsToggles
<1>3. WriterCounts' /\ ClosedComplete'
  BY <1>2, CountUntouched DEF spoolVars
<1>4. CASE rpc' = "down"
  BY <1>1, <1>3, <1>4 DEF CInv, TailCounts
<1>5. CASE UNCHANGED <<restoreVars, tailVars>>
  BY <1>1, <1>2, <1>3, <1>5, TailKept
  DEF CInv, restoreVars, tailVars, spoolVars
<1> QED BY <1>2, <1>4, <1>5

(* Every step of either program.                                           *)
LEMMA StepCounted == CInv /\ [Next]_vars => CInv'
<1>1. ASSUME CInv, UNCHANGED vars PROVE CInv'
  <2>1. Typed'
    BY <1>1, StepTyped DEF CInv
  <2> QED BY <1>1, <2>1, CountUntouched, TailKept
          DEF CInv, vars, spoolVars, tailVars, readerVars, restoreVars
<1> QED BY <1>1, BeginsCounted, WritesCounted, EnvironmentCounted,
           TailsCounted, RestoresCounted, OthersCounted DEF Next

(* RestoreTail leaves its loop only through its count, whatever dies: when *)
(* the tail has closed Lines, because its file is removed, the reader has  *)
(* already received all the lines it counts (disk.go RestoreTail).         *)
THEOREM CountsTheFile == Spec => []LeavesByCount
<1>1. CInv => LeavesByCount
  BY DEF CInv, TailCounts, LeavesByCount
<1> QED BY <1>1, InitCounted, StepCounted, PTL DEF Spec
=============================================================================
