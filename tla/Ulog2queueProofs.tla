--------------------------- MODULE Ulog2queueProofs ---------------------------
(***************************************************************************)
(* What holds of ulog2queue for every set of lines, every number of        *)
(* workers and primaries, every size of the channels, bulks and files, and *)
(* whether or not Elasticsearch and the disk fail: the variables keep      *)
(* their types, the flags `failed`, `working` and `restoring` mean what    *)
(* the code takes them to mean, and the lines on the disk are where a      *)
(* restore looks for them.                                                 *)
(***************************************************************************)
EXTENDS Ulog2queue, GoroutineProofs

-----------------------------------------------------------------------------
(* What the types rest on, with HandsFull.  The restoreStart branch goes   *)
(* on to Restore only if none is running, and there is a next file.        *)
RestorePrepared ==
    bpc = "flush" /\ why = "restore" =>
        restoring /\ rpc = "none" /\ backupcount < MaxFile

(* A Restore reads an earlier file than the current one, has lines left    *)
(* only while it reads, and no file beyond the current one exists.         *)
SpoolShape ==
    /\ rpc # "none" => restoring /\ rfile < backupcount
    /\ rest # <<>> => rpc = "read"
    /\ \A f \in Files : f > backupcount => disk[f] = <<>>

IInv == TypeOK /\ HandsFull /\ RestorePrepared /\ SpoolShape

-----------------------------------------------------------------------------
(* The backup keeps what IInv says of it while the others take a step.     *)
LEMMA BackupFrame ==
    ASSUME BackupTypeOK, RestorePrepared, SpoolShape, UNCHANGED backupVars
    PROVE  BackupTypeOK' /\ RestorePrepared' /\ SpoolShape'
BY DEF BackupTypeOK, RestorePrepared, SpoolShape, backupVars

-----------------------------------------------------------------------------
LEMMA InitIInv == Init => IInv
<1> SUFFICES ASSUME Init PROVE IInv
  OBVIOUS
<1>1. SharedTypes /\ LoggerTypeOK
  BY SharedInit DEF Init
<1>2. BackupTypeOK
  BY BackupAssumption DEF Init, BackupInit, BackupTypeOK, Files
<1>3. RestorePrepared /\ SpoolShape
  BY DEF Init, BackupInit, RestorePrepared, SpoolShape, Files
<1> QED BY <1>1, <1>2, <1>3 DEF IInv, TypeOK, SharedTypes

-----------------------------------------------------------------------------
(* The steps of the reading loop, the workers and the primaries, and of    *)
(* Elasticsearch and the clock.                                            *)
LEMMA SharedKeepsIInv ==
    ASSUME IInv,
           \/ \E l \in Line : WorkerOnly(TailRead(l))
           \/ \E w \in Workers : WorkerStep(w)
           \/ \E p \in Primaries : PrimaryStep(p) \/ PrimaryOnly(CoolDown(p))
           \/ PrimaryOnly(EsToggle)
    PROVE  IInv'
<1>1. SharedTypes /\ UNCHANGED <<backupVars, loggerVars>>
  BY DEF IInv, TypeOK, SharedTypes, WorkerOnly, WorkerStep, PrimaryOnly,
         PrimaryStep
<1>2. SharedTypes'
  <2>1. ASSUME NEW l \in Line, WorkerOnly(TailRead(l)) PROVE SharedTypes'
    BY <1>1, <2>1, TailKeepsTypes DEF WorkerOnly
  <2>2. ASSUME NEW w \in Workers, WorkerStep(w) PROVE SharedTypes'
    BY <1>1, <2>2, WorkerKeepsTypes DEF WorkerOnly, WorkerStep
  <2>3. ASSUME NEW p \in Primaries, PrimaryStep(p) PROVE SharedTypes'
    BY <1>1, <2>3, PrimaryKeepsTypes DEF PrimaryOnly, PrimaryStep
  <2>4. ASSUME NEW p \in Primaries, PrimaryOnly(CoolDown(p))
        PROVE  SharedTypes'
    BY <1>1, <2>4, OutsideKeepsTypes DEF PrimaryOnly
  <2>5. CASE PrimaryOnly(EsToggle)
    BY <1>1, <2>5, OutsideKeepsTypes DEF PrimaryOnly
  <2> QED BY <2>1, <2>2, <2>3, <2>4, <2>5
<1> QED BY <1>1, <1>2, SharedFrames, BackupFrame DEF IInv, TypeOK, SharedTypes

-----------------------------------------------------------------------------
(* The exchanges on the unbuffered channels, and the tick of the logger.   *)
LEMMA RestoreStartKeepsTypes ==
    ASSUME BackupTypeOK, RestorePrepared, SpoolShape, BackupRestoreStart
    PROVE  BackupTypeOK' /\ RestorePrepared' /\ SpoolShape'
<1>1. BackupTypeOK'
  BY DEF BackupRestoreStart, restorerVars, BackupTypeOK
<1>2. RestorePrepared' /\ SpoolShape'
  <2>1. UNCHANGED <<rpc, rfile, rest, backupcount, disk>>
    BY DEF BackupRestoreStart, restorerVars
  <2>2. restoring => restoring'
    BY DEF BackupRestoreStart
  <2>3. bpc' = "flush" => ~restoring /\ restoring' /\ backupcount < MaxFile
    BY DEF BackupRestoreStart
  <2> QED BY <2>1, <2>2, <2>3 DEF RestorePrepared, SpoolShape
<1> QED BY <1>1, <1>2

LEMMA ExchangeKeepsIInv ==
    ASSUME IInv,
           \/ BackupRate \/ RestoreStartByLogger \/ TickStep
           \/ \E p \in Primaries : ParsedRate(p) \/ RestoreStartByPrimary(p)
    PROVE  IInv'
<1> USE DEF IInv, TypeOK, SharedTypes
<1>1. ASSUME NEW p \in Primaries, ParsedRate(p) PROVE IInv'
  BY <1>1, NotifiedKeepsTypes, LoggerKeepsTypes, BackupFrame DEF ParsedRate
<1>2. ASSUME NEW p \in Primaries, RestoreStartByPrimary(p) PROVE IInv'
  BY <1>2, NotifiedKeepsTypes, RestoreStartKeepsTypes, SharedFrames
     DEF RestoreStartByPrimary
<1>3. CASE BackupRate
  <2>1. BackupTypeOK'
    BY <1>3 DEF BackupRate, BackupWrite, restorerVars, BackupTypeOK
  <2>2. RestorePrepared' /\ SpoolShape'
    BY <1>3
       DEF BackupRate, BackupWrite, restorerVars, RestorePrepared, SpoolShape
  <2> QED BY <1>3, <2>1, <2>2, LoggerKeepsTypes, SharedFrames DEF BackupRate
<1>4. CASE RestoreStartByLogger
  BY <1>4, RestoreStartKeepsTypes, LoggerKeepsTypes, SharedFrames
     DEF RestoreStartByLogger
<1>5. CASE TickStep
  BY <1>5, LoggerKeepsTypes, SharedFrames, BackupFrame DEF TickStep
<1> QED BY <1>1, <1>2, <1>3, <1>4, <1>5

-----------------------------------------------------------------------------
(* The steps of the backup task and of Restore.                            *)
LEMMA FlushKeepsIInv == ASSUME IInv, FlushStep PROVE IInv'
<1> USE DEF IInv, TypeOK
<1>1. /\ UNCHANGED <<workerVars, primaryVars, loggerVars, contextVars>>
      /\ UNCHANGED <<why, i, restoring, rest>>
      /\ bpc = "flush" /\ bpc' = "select" /\ written' = 0
      /\ \E file, kept \in Seq(Line), err \in BOOLEAN :
            AfterFlush(file, kept, err)
  <2>1. CASE BackupFlushed
    <3>1. disk[backupcount] \o bulkRequest \in Seq(Line) /\ <<>> \in Seq(Line)
      BY DEF BackupTypeOK
    <3> QED BY <2>1, <3>1 DEF FlushStep, BackupOnly, BackupFlushed
  <2>2. CASE BackupFlushFails
    <3>1. PICK n \in 0..(Len(bulkRequest) - 1) :
             AfterFlush(disk[backupcount] \o SubSeq(bulkRequest, 1, n),
                        bulkRequest, TRUE)
      BY <2>2 DEF BackupFlushFails
    <3>2. SubSeq(bulkRequest, 1, n) \in Seq(Line)
      BY <3>1 DEF BackupTypeOK
    <3>3. disk[backupcount] \o SubSeq(bulkRequest, 1, n) \in Seq(Line)
      BY <3>2 DEF BackupTypeOK
    <3> QED BY <2>2, <3>1, <3>3
            DEF FlushStep, BackupOnly, BackupFlushFails, BackupTypeOK
  <2> QED BY <2>1, <2>2 DEF FlushStep, BackupOnly
<1>2. PICK file \in Seq(Line), kept \in Seq(Line), err \in BOOLEAN :
         AfterFlush(file, kept, err)
  BY <1>1
<1>3. <<>> \in Seq(Line) /\ Len(<<>>) = 0
  OBVIOUS
<1>4. CASE why = "restore"
  <2>1. /\ rpc = "none" /\ restoring
        /\ backupcount \in Nat /\ MaxFile \in Nat /\ backupcount < MaxFile
        /\ backupcount + 1 \in Files
    BY <1>1, <1>4, BackupAssumption DEF RestorePrepared, BackupTypeOK, Files
  <2>2. /\ rpc' = "open" /\ rfile' = backupcount
        /\ backupcount' = backupcount + 1
        /\ disk' = [disk EXCEPT ![backupcount] = file,
                                ![backupcount + 1] = <<>>]
        /\ bulkRequest' = <<>> /\ diskErr' = FALSE
        /\ lost' = lost \cup (Range(kept) \ Range(file))
    BY <1>2, <1>4 DEF AfterFlush
  <2>3. lost' \subseteq Line
    <3>1. Range(kept) \subseteq Line
      BY DEF Range
    <3> QED BY <2>2, <3>1 DEF BackupTypeOK
  <2>4. disk' \in [Files -> Seq(Line)]
    BY <1>3, <2>2 DEF BackupTypeOK
  <2>5. BackupTypeOK'
    <3>1. written' \in 0..Len(bulkRequest')
      BY <1>1, <1>3, <2>2
    <3>2. rfile' \in Files /\ backupcount' \in Files
      BY <2>1, <2>2 DEF BackupTypeOK
    <3> QED BY <1>1, <1>3, <2>2, <2>3, <2>4, <3>1, <3>2 DEF BackupTypeOK
  <2>6. RestorePrepared' /\ SpoolShape'
    <3>1. \A f \in Files : f > backupcount + 1 => disk'[f] = <<>>
      BY <2>1, <2>2 DEF SpoolShape, BackupTypeOK, Files
    <3>2. rfile' < backupcount' /\ restoring' /\ rest' = <<>>
      BY <1>1, <2>1, <2>2 DEF SpoolShape
    <3>3. \A f \in Files : f > backupcount' => disk'[f] = <<>>
      BY <2>2, <3>1
    <3> QED BY <1>1, <3>2, <3>3 DEF RestorePrepared, SpoolShape
  <2> QED BY <1>1, <2>5, <2>6, SharedFrames
<1>5. CASE why # "restore"
  <2>1. /\ disk' = [disk EXCEPT ![backupcount] = file]
        /\ bulkRequest' = kept /\ diskErr' = err
        /\ UNCHANGED <<rpc, rfile, backupcount, lost>>
    BY <1>2, <1>5 DEF AfterFlush
  <2>2. BackupTypeOK'
    BY <1>1, <2>1 DEF BackupTypeOK
  <2>3. RestorePrepared' /\ SpoolShape'
    BY <1>1, <2>1 DEF RestorePrepared, SpoolShape, BackupTypeOK, Files
  <2> QED BY <1>1, <2>2, <2>3, SharedFrames
<1> QED BY <1>4, <1>5

LEMMA BackupKeepsIInv ==
    ASSUME IInv,
           \/ BackupOnly(BackupReceive) \/ BackupOnly(BackupIdle)
           \/ BackupOnly(RestoreDone) \/ RestoreStep
    PROVE  IInv'
<1> USE DEF IInv, TypeOK
<1>1. UNCHANGED <<workerVars, primaryVars, loggerVars>>
  BY DEF BackupOnly, RestoreStep
<1>2. ContextTypeOK' /\ BackupTypeOK' /\ RestorePrepared' /\ SpoolShape'
  <2>1. CASE BackupReceive
    <3>1. /\ Head(backupLines) \in Line
          /\ Tail(backupLines) \in Seq(Line)
          /\ Len(Tail(backupLines)) <= BackupCap
      BY <2>1, ContextAssumption DEF BackupReceive, ContextTypeOK
    <3>2. ContextTypeOK'
      BY <2>1, <3>1 DEF BackupReceive, ContextTypeOK
    <3>3. /\ Append(bulkRequest, Head(backupLines)) \in Seq(Line)
          /\ Len(Append(bulkRequest, Head(backupLines))) = Len(bulkRequest) + 1
      BY <3>1 DEF BackupTypeOK
    <3>4. BackupTypeOK'
      BY <2>1, <3>3 DEF BackupReceive, restorerVars, BackupTypeOK
    <3>5. RestorePrepared' /\ SpoolShape'
      BY <2>1 DEF BackupReceive, restorerVars, RestorePrepared, SpoolShape
    <3> QED BY <3>2, <3>4, <3>5
  <2>2. CASE BackupIdle
    BY <2>2, SharedFrames
       DEF BackupIdle, restorerVars, BackupTypeOK, RestorePrepared, SpoolShape
  <2>3. CASE RestoreDone
    <3>1. BackupTypeOK'
      BY <2>3 DEF RestoreDone, BackupTypeOK
    <3>2. RestorePrepared' /\ SpoolShape'
      BY <2>3 DEF RestoreDone, RestorePrepared, SpoolShape
    <3> QED BY <2>3, <3>1, <3>2, SharedFrames DEF RestoreDone
  <2>4. CASE RestoreOpen
    <3>1. BackupTypeOK'
      BY <2>4 DEF RestoreOpen, BackupTypeOK
    <3>2. RestorePrepared' /\ SpoolShape'
      BY <2>4 DEF RestoreOpen, RestorePrepared, SpoolShape
    <3> QED BY <2>4, <3>1, <3>2, SharedFrames DEF RestoreOpen
  <2>5. CASE RestoreSend
    <3>1. Head(rest) \in Line /\ Tail(rest) \in Seq(Line)
      BY <2>5 DEF RestoreSend, BackupTypeOK
    <3>2. ContextTypeOK'
      BY <2>5, <3>1, ContextAssumption DEF RestoreSend, ContextTypeOK
    <3>3. BackupTypeOK'
      BY <2>5, <3>1 DEF RestoreSend, BackupTypeOK
    <3>4. RestorePrepared' /\ SpoolShape'
      BY <2>5 DEF RestoreSend, RestorePrepared, SpoolShape
    <3> QED BY <3>2, <3>3, <3>4
  <2>6. CASE RestoreEOF
    <3>1. BackupTypeOK'
      BY <2>6 DEF RestoreEOF, BackupTypeOK
    <3>2. RestorePrepared' /\ SpoolShape'
      BY <2>6 DEF RestoreEOF, RestorePrepared, SpoolShape, BackupTypeOK
    <3> QED BY <2>6, <3>1, <3>2, SharedFrames DEF RestoreEOF
  <2> QED BY <2>1, <2>2, <2>3, <2>4, <2>5, <2>6 DEF BackupOnly, RestoreStep
<1> QED BY <1>1, <1>2, SharedFrames

-----------------------------------------------------------------------------
(* IInv is inductive.                                                      *)
LEMMA StepIInv == IInv /\ [Next]_vars => IInv'
<1> SUFFICES ASSUME IInv, [Next]_vars PROVE IInv'
  OBVIOUS
<1>1. CASE UNCHANGED vars
  BY <1>1, SharedFrames, BackupFrame DEF vars, IInv, TypeOK
<1>2. CASE Next
  BY <1>2, SharedKeepsIInv, ExchangeKeepsIInv, FlushKeepsIInv,
     BackupKeepsIInv DEF Next
<1> QED BY <1>1, <1>2

LEMMA Inductive == Spec => []IInv
BY InitIInv, StepIInv, PTL DEF Spec

(* Every variable keeps its type, no channel exceeds its capacity and no   *)
(* file number its bound (types.go, ulog2queue.go main).                   *)
THEOREM TypeCorrect == Spec => []TypeOK
BY Inductive, PTL DEF IInv

-----------------------------------------------------------------------------
(* What the program counter of a primary says of its flags and its bulk: a *)
(* line is added only while the backend works, to a full bulk only if an   *)
(* earlier flush failed; a recovery has emptied the bulk.                  *)
Flags(p) ==
    /\ ppc[p] \in {"rate", "flush", "recovered"} => working[p]
    /\ ppc[p] = "divert" => ~working[p]
    /\ ppc[p] = "rate" /\ failed[p] => Len(actions[p]) >= Bulk
    /\ ppc[p] = "flush" => Len(actions[p]) >= Bulk
    /\ ppc[p] = "recovered" => actions[p] = <<>>
    /\ ~working[p] => failed[p]
    /\ ppc[p] \in {"select", "divert", "idle"} =>
          (failed[p] <=> Len(actions[p]) >= Bulk)

FlagInv == \A p \in Primaries : Flags(p)

(* A step that leaves the flags, the bulk and the program counter of a     *)
(* primary alone.                                                          *)
Same(p) ==
    /\ ppc'[p] = ppc[p]
    /\ working'[p] = working[p]
    /\ failed'[p] = failed[p]
    /\ actions'[p] = actions[p]

LEMMA FlagsFrame ==
    ASSUME NEW p \in Primaries, Flags(p), Same(p) PROVE Flags(p)'
BY DEF Flags, Same

(* The steps of one primary do not touch those of another.                 *)
LEMMA OthersSame ==
    ASSUME PrimaryTypeOK, NEW p \in Primaries,
           PrimaryStep(p) \/ ParsedRate(p) \/ RestoreStartByPrimary(p)
    PROVE  \A q \in Primaries : q # p => Same(q)
BY DEF PrimaryTypeOK, PrimaryStep, PrimaryOnly, PrimaryAdd, PrimaryFlush,
       PrimaryTakeDivert, PrimaryDivert, PrimaryIdle, BulkAccepted, BulkFailed,
       ParsedRate, PrimaryRated, RestoreStartByPrimary, PrimaryNotified, Same

(* The bulk after a Do() that was answered, and after one that was not.    *)
LEMMA BulkAfterDo ==
    ASSUME PrimaryTypeOK, NEW p \in Primaries
    PROVE  /\ BulkAccepted(p) => actions'[p] = <<>>
           /\ BulkFailed(p) => actions'[p] = actions[p]
BY DEF PrimaryTypeOK, BulkAccepted, BulkFailed

LEMMA PrimaryKeepsFlags ==
    ASSUME IInv, NEW p \in Primaries, Flags(p), PrimaryStep(p)
    PROVE  Flags(p)'
<1> USE PrimaryAssumption DEF Flags
<1>1. PrimaryTypeOK /\ ContextTypeOK
  BY DEF IInv, TypeOK
<1>2. actions[p] \in Seq(Line) /\ Len(actions[p]) \in Nat
  BY <1>1 DEF PrimaryTypeOK
<1>3. Len(<<>>) = 0
  OBVIOUS
<1>4. CASE PrimaryAdd(p)
  <2>1. Head(parsedLines) \in Line
    BY <1>1, <1>4 DEF PrimaryAdd, ContextTypeOK
  <2>2. Len(actions'[p]) = Len(actions[p]) + 1
    BY <1>1, <1>2, <1>4, <2>1 DEF PrimaryAdd, PrimaryTypeOK
  <2>3. ppc'[p] = "rate" /\ UNCHANGED <<working, failed>>
    BY <1>1, <1>4 DEF PrimaryAdd, PrimaryTypeOK
  <2> QED BY <1>2, <1>4, <2>2, <2>3 DEF PrimaryAdd
<1>5. CASE PrimaryFlush(p)
  <2>1. CASE BulkAccepted(p) /\ UNCHANGED <<working, failed>>
    <3>1. ppc'[p] = IF failed[p] THEN "recovered" ELSE "select"
      BY <1>1, <1>5, <2>1 DEF PrimaryFlush, PrimaryTypeOK, BulkAccepted,
                              BulkFailed
    <3> QED BY <1>1, <1>3, <1>5, <2>1, <3>1, BulkAfterDo DEF PrimaryFlush
  <2>2. CASE BulkFailed(p) /\ ~UNCHANGED <<working, failed>>
    <3>1. ppc'[p] = "select" /\ ~working'[p] /\ failed'[p]
      BY <1>1, <1>5, <2>2 DEF PrimaryFlush, PrimaryTypeOK
    <3> QED BY <1>1, <1>5, <2>2, <3>1, BulkAfterDo DEF PrimaryFlush
  <2>3. ~working'[p] => ~UNCHANGED <<working, failed>>
    BY <1>5 DEF PrimaryFlush
  <2> QED BY <1>1, <1>5, <2>1, <2>2, <2>3, BulkAfterDo
          DEF PrimaryFlush, PrimaryTypeOK
<1>6. CASE PrimaryTakeDivert(p)
  BY <1>1, <1>6 DEF PrimaryTakeDivert, PrimaryTypeOK
<1>7. CASE PrimaryDivert(p)
  BY <1>1, <1>7 DEF PrimaryDivert, PrimaryTypeOK
<1>8. CASE PrimaryIdle(p)
  <2>1. ppc'[p] = "idle" /\ UNCHANGED <<working, failed>>
    BY <1>1, <1>8 DEF PrimaryIdle, PrimaryTypeOK
  <2>2. \/ actions'[p] = actions[p]
        \/ ~failed[p] /\ actions'[p] = <<>>
    BY <1>1, <1>8, BulkAfterDo DEF PrimaryIdle
  <2> QED BY <1>2, <1>3, <1>8, <2>1, <2>2 DEF PrimaryIdle
<1> QED BY <1>4, <1>5, <1>6, <1>7, <1>8 DEF PrimaryStep, PrimaryOnly

LEMMA ExchangeKeepsFlags ==
    ASSUME IInv, NEW p \in Primaries, Flags(p),
           ParsedRate(p) \/ RestoreStartByPrimary(p)
    PROVE  Flags(p)'
<1> USE PrimaryAssumption DEF Flags
<1>1. PrimaryTypeOK /\ Len(actions[p]) \in Nat
  BY DEF IInv, TypeOK, PrimaryTypeOK
<1>2. CASE ParsedRate(p)
  BY <1>1, <1>2 DEF ParsedRate, PrimaryRated, PrimaryTypeOK
<1>3. CASE RestoreStartByPrimary(p)
  <2>1. Len(<<>>) = 0
    OBVIOUS
  <2> QED BY <1>1, <1>3, <2>1
          DEF RestoreStartByPrimary, PrimaryNotified, PrimaryTypeOK
<1> QED BY <1>2, <1>3

(* Every other step leaves the primaries as they are.                      *)
LEMMA ElsewhereSame ==
    ASSUME PrimaryTypeOK, [Next]_vars,
           \A p \in Primaries :
              ~(PrimaryStep(p) \/ ParsedRate(p) \/ RestoreStartByPrimary(p))
    PROVE  \A p \in Primaries : Same(p)
<1>1. UNCHANGED <<ppc, working, failed, actions>>
  BY DEF Next, vars, primaryVars, WorkerOnly, WorkerStep, PrimaryOnly,
         BackupOnly, FlushStep, RestoreStep, TickStep, BackupRate,
         RestoreStartByLogger, EsToggle, CoolDown
<1> QED BY <1>1 DEF Same

LEMMA StepKeepsFlags == IInv /\ FlagInv /\ [Next]_vars => FlagInv'
<1> SUFFICES ASSUME IInv, FlagInv, [Next]_vars, NEW q \in Primaries
             PROVE  Flags(q)'
  BY DEF FlagInv
<1>1. PrimaryTypeOK /\ Flags(q)
  BY DEF IInv, TypeOK, FlagInv
<1>2. CASE PrimaryStep(q) \/ ParsedRate(q) \/ RestoreStartByPrimary(q)
  BY <1>1, <1>2, PrimaryKeepsFlags, ExchangeKeepsFlags
<1>3. CASE \E p \in Primaries : p # q /\
              (PrimaryStep(p) \/ ParsedRate(p) \/ RestoreStartByPrimary(p))
  BY <1>1, <1>3, OthersSame, FlagsFrame
<1>4. CASE \A p \in Primaries :
              ~(PrimaryStep(p) \/ ParsedRate(p) \/ RestoreStartByPrimary(p))
  BY <1>1, <1>4, ElsewhereSame, FlagsFrame
<1> QED BY <1>2, <1>3, <1>4

(* `failed` is set, between two lines, exactly while a full bulk waits to  *)
(* be sent again, and always while a primary does not work (primary.go):   *)
(* so the idle flush, which passes over failed primaries, passes over full *)
(* bulks only, and no primary keeps the flag after its bulk has gone.      *)
THEOREM FlagsTellTheTruth == Spec => []FailedMeansFullBulk
<1>1. Init => FlagInv
  <2>1. Len(<<>>) = 0
    OBVIOUS
  <2> QED BY <2>1, PrimaryAssumption DEF Init, PrimaryInit, FlagInv, Flags
<1>2. FlagInv => FailedMeansFullBulk
  BY DEF FlagInv, Flags, FailedMeansFullBulk
<1> QED BY <1>1, <1>2, StepKeepsFlags, Inductive, PTL DEF Spec

-----------------------------------------------------------------------------
(* The removal of the restored file comes before restoreDone.              *)
DoneIsEmpty == rpc = "done" => disk[rfile] = <<>>

RestoreInv == RestoringIsTrue /\ NoForgottenFile /\ DoneIsEmpty

LEMMA RestoreFrame ==
    ASSUME RestoreInv,
           UNCHANGED <<restoring, rpc, rfile, backupcount, disk, bpc, why>>
    PROVE  RestoreInv'
BY DEF RestoreInv, RestoringIsTrue, NoForgottenFile, DoneIsEmpty

(* The end of a flush: only the current file changes, and a restore starts *)
(* when there is none, which takes all there is in the files with it.      *)
LEMMA FlushKeepsRestore ==
    ASSUME IInv, RestoreInv, FlushStep PROVE RestoreInv'
<1> USE DEF IInv, TypeOK, RestoreInv
<1>1. /\ UNCHANGED <<why, restoring>>
      /\ bpc = "flush" /\ bpc' = "select"
      /\ \E file, kept, err : AfterFlush(file, kept, err)
  BY DEF FlushStep, BackupOnly, BackupFlushed, BackupFlushFails
<1>2. PICK file, kept, err : AfterFlush(file, kept, err)
  BY <1>1
<1>3. backupcount \in Nat /\ \A f \in Files : f \in Nat
  BY BackupAssumption DEF BackupTypeOK, Files
<1>4. CASE why = "restore"
  <2>1. /\ rpc = "none" /\ rpc' = "open" /\ rfile' = backupcount
        /\ backupcount' = backupcount + 1
        /\ disk' = [disk EXCEPT ![backupcount] = file,
                                ![backupcount + 1] = <<>>]
    BY <1>1, <1>2, <1>4 DEF AfterFlush, RestorePrepared
  <2>2. RestoringIsTrue'
    BY <1>1, <1>4, <2>1 DEF RestoringIsTrue
  <2>3. NoForgottenFile'
    <3> SUFFICES ASSUME NEW f \in Files, disk'[f] # <<>>
                 PROVE  f = backupcount
      BY <1>3, <2>1 DEF NoForgottenFile
    <3>1. f # backupcount + 1
      BY <2>1 DEF BackupTypeOK
    <3>2. f # backupcount => disk'[f] = disk[f]
      BY <2>1, <3>1 DEF BackupTypeOK
    <3> QED BY <2>1, <3>2 DEF NoForgottenFile
  <2> QED BY <2>1, <2>2, <2>3 DEF DoneIsEmpty
<1>5. CASE why # "restore"
  <2>1. /\ UNCHANGED <<rpc, rfile, backupcount>>
        /\ \A f \in Files : f # backupcount => disk'[f] = disk[f]
    BY <1>2, <1>5 DEF AfterFlush, BackupTypeOK
  <2>2. rpc # "none" => rfile \in Files /\ rfile # backupcount
    BY <1>3 DEF SpoolShape, BackupTypeOK
  <2>3. RestoringIsTrue'
    BY <1>1, <1>5, <2>1 DEF RestoringIsTrue
  <2>4. NoForgottenFile'
    BY <2>1 DEF NoForgottenFile
  <2>5. DoneIsEmpty'
    BY <2>1, <2>2 DEF DoneIsEmpty
  <2> QED BY <2>3, <2>4, <2>5
<1> QED BY <1>4, <1>5

LEMMA RestoreKeepsRestore ==
    ASSUME ~OpenFaults, IInv, RestoreInv,
           RestoreStep \/ BackupOnly(RestoreDone)
    PROVE  RestoreInv'
<1> USE DEF IInv, TypeOK, RestoreInv
<1>1. CASE RestoreOpen
  BY <1>1 DEF RestoreOpen, RestoringIsTrue, NoForgottenFile, DoneIsEmpty
<1>2. CASE RestoreSend
  BY <1>2, RestoreFrame DEF RestoreSend
<1>3. CASE RestoreEOF
  BY <1>3
  DEF RestoreEOF, RestoringIsTrue, NoForgottenFile, DoneIsEmpty, BackupTypeOK
<1>4. CASE RestoreDone
  BY <1>4 DEF RestoreDone, RestoringIsTrue, NoForgottenFile, DoneIsEmpty
<1> QED BY <1>1, <1>2, <1>3, <1>4 DEF RestoreStep, BackupOnly

(* What asks for a flush, or for a restore, in the backup task.            *)
LEMMA AskingKeepsRestore ==
    ASSUME RestoreInv, BackupReceive \/ BackupIdle \/ BackupRestoreStart
    PROVE  RestoreInv'
BY DEF BackupReceive, BackupIdle, BackupRestoreStart, restorerVars,
       RestoreInv, RestoringIsTrue, NoForgottenFile, DoneIsEmpty

LEMMA StepKeepsRestore ==
    ASSUME ~OpenFaults, IInv, RestoreInv, [Next]_vars
    PROVE  RestoreInv'
<1>1. CASE UNCHANGED backupVars
  BY <1>1, RestoreFrame DEF backupVars
<1>2. CASE BackupRate
  BY <1>2, RestoreFrame DEF BackupRate, BackupWrite, restorerVars
<1>3. CASE \/ BackupOnly(BackupReceive) \/ BackupOnly(BackupIdle)
           \/ RestoreStartByLogger
           \/ \E p \in Primaries : RestoreStartByPrimary(p)
  BY <1>3, AskingKeepsRestore
  DEF BackupOnly, RestoreStartByLogger, RestoreStartByPrimary
<1>4. CASE FlushStep \/ RestoreStep \/ BackupOnly(RestoreDone)
  BY <1>4, FlushKeepsRestore, RestoreKeepsRestore
<1> QED BY <1>1, <1>2, <1>3, <1>4
        DEF Next, vars, WorkerOnly, WorkerStep, PrimaryOnly, PrimaryStep,
            ParsedRate, TickStep

LEMMA RestoreInductive == ASSUME ~OpenFaults PROVE Spec => []RestoreInv
<1>1. Init => RestoreInv
  BY DEF Init, BackupInit, RestoreInv, RestoringIsTrue, NoForgottenFile,
         DoneIsEmpty, Files
<1>2. IInv /\ RestoreInv /\ [Next]_vars => RestoreInv'
  BY StepKeepsRestore
<1> QED BY <1>1, <1>2, Inductive, PTL DEF Spec

(* If Restore can open its files, `restoring` is set exactly while a       *)
(* restore is being prepared or is running (backup.go): a second one never *)
(* starts beside the first, and none is refused for one that has ended.    *)
THEOREM OneRestoreAtATime ==
    ASSUME ~OpenFaults PROVE Spec => []RestoringIsTrue
BY RestoreInductive, PTL DEF RestoreInv

(* If Restore can open its files, only the current file and the one that   *)
(* is being restored hold lines (backup.go, disk.go): none is left behind. *)
THEOREM NoFileIsForgotten ==
    ASSUME ~OpenFaults PROVE Spec => []NoForgottenFile
BY RestoreInductive, PTL DEF RestoreInv

-----------------------------------------------------------------------------
(***************************************************************************)
(* No line vanishes, and the program with the disk backup implements       *)
(* Delivery, whatever the sizes of the channels and bulks, the number of   *)
(* goroutines, and the failures of Elasticsearch and the disk.  First that *)
(* no step lets a line vanish, then that no step but a read makes one      *)
(* appear, and last that no line is in two places.                         *)
(***************************************************************************)
(* A part of the state that a step leaves alone holds what it held.        *)
LEMMA HeldFrames ==
    /\ UNCHANGED contextVars => InChannels' = InChannels
    /\ UNCHANGED workerVars => Range(wline)' = Range(wline) /\ read' = read
    /\ UNCHANGED primaryVars =>
          /\ InBulks' = InBulks /\ Range(pline)' = Range(pline)
          /\ esDocs' = esDocs /\ refused' = refused
    /\ UNCHANGED backupVars =>
          /\ Spooled' = Spooled /\ Range(bulkRequest)' = Range(bulkRequest)
          /\ lost' = lost
<1>1. UNCHANGED contextVars => InChannels' = InChannels
  BY DEF contextVars, InChannels
<1>2. UNCHANGED workerVars => Range(wline)' = Range(wline) /\ read' = read
  BY DEF workerVars
<1>3. UNCHANGED primaryVars =>
          /\ InBulks' = InBulks /\ Range(pline)' = Range(pline)
          /\ esDocs' = esDocs /\ refused' = refused
  BY DEF primaryVars, InBulks
<1>4. UNCHANGED backupVars =>
          /\ Spooled' = Spooled /\ Range(bulkRequest)' = Range(bulkRequest)
          /\ lost' = lost
  BY DEF backupVars, Spooled, InFiles, Restored
<1> QED BY <1>1, <1>2, <1>3, <1>4

(* All that is held, or that went where lines are known to go.             *)
Kept == Held \cup esDocs \cup refused \cup lost

LEMMA TailKeeps ==
    ASSUME IInv, NEW l \in Line, WorkerOnly(TailRead(l))
    PROVE  Kept \subseteq Kept' /\ read' \subseteq read \cup Kept'
<1>1. TailRead(l) /\ UNCHANGED <<primaryVars, backupVars>>
  BY DEF WorkerOnly
<1>2. Range(lines') = Range(lines) \cup {l}
  BY <1>1, RangeAppend DEF TailRead, IInv, TypeOK, ContextTypeOK
<1>3. UNCHANGED <<parsedLines, backupLines, wline>> /\ read' = read \cup {l}
  BY <1>1 DEF TailRead
<1> QED BY <1>1, <1>2, <1>3, HeldFrames DEF Kept, Held, InChannels, InHands

LEMMA WorkerKeeps ==
    ASSUME IInv, NEW w \in Workers, WorkerStep(w)
    PROVE  Kept \subseteq Kept' /\ read' = read
<1> USE DEF IInv, TypeOK
<1>1. /\ UNCHANGED <<primaryVars, backupVars>>
      /\ \/ WorkerTake(w) \/ WorkerSendPrimary(w)
         \/ WorkerSendBackup(w) \/ WorkerIdle(w)
  BY DEF WorkerStep, WorkerOnly
<1>2. read' = read
  BY <1>1 DEF WorkerTake, WorkerSendPrimary, WorkerSendBackup, WorkerIdle,
              workerVars
<1>3. InChannels \cup (Range(wline) \ {NoLine}) \subseteq
          InChannels' \cup (Range(wline') \ {NoLine})
  <2>1. CASE WorkerTake(w)
    <3>1. Range(lines) = {Head(lines)} \cup Range(lines')
      BY <2>1, RangeTail DEF WorkerTake, ContextTypeOK
    <3>2. Head(lines) # NoLine
      BY <2>1, ContextAssumption DEF WorkerTake, ContextTypeOK
    <3>3. /\ Head(lines) \in Range(wline')
          /\ Range(wline) \subseteq Range(wline') \cup {wline[w]}
      BY <2>1, RangeUpdate DEF WorkerTake, WorkerTypeOK
    <3>4. wline[w] = NoLine
      BY <2>1 DEF WorkerTake, HandsFull
    <3>5. UNCHANGED <<parsedLines, backupLines>>
      BY <2>1 DEF WorkerTake
    <3> QED BY <3>1, <3>2, <3>3, <3>4, <3>5 DEF InChannels
  <2>2. CASE WorkerSendPrimary(w)
    <3>1. wline[w] \in Line
      BY <2>2 DEF WorkerSendPrimary, WorkerTypeOK, HandsFull
    <3>2. Range(parsedLines') = Range(parsedLines) \cup {wline[w]}
      BY <2>2, <3>1, RangeAppend DEF WorkerSendPrimary, ContextTypeOK
    <3>3. Range(wline) \subseteq Range(wline') \cup {wline[w]}
      BY <2>2, RangeUpdate DEF WorkerSendPrimary, WorkerTypeOK
    <3>4. UNCHANGED <<lines, backupLines>>
      BY <2>2 DEF WorkerSendPrimary
    <3> QED BY <3>2, <3>3, <3>4 DEF InChannels
  <2>3. CASE WorkerSendBackup(w)
    <3>1. wline[w] \in Line
      BY <2>3 DEF WorkerSendBackup, WorkerTypeOK, HandsFull
    <3>2. Range(backupLines') = Range(backupLines) \cup {wline[w]}
      BY <2>3, <3>1, RangeAppend DEF WorkerSendBackup, ContextTypeOK
    <3>3. Range(wline) \subseteq Range(wline') \cup {wline[w]}
      BY <2>3, RangeUpdate DEF WorkerSendBackup, WorkerTypeOK
    <3>4. UNCHANGED <<lines, parsedLines>>
      BY <2>3 DEF WorkerSendBackup
    <3> QED BY <3>2, <3>3, <3>4 DEF InChannels
  <2>4. CASE WorkerIdle(w)
    BY <2>4 DEF WorkerIdle, workerVars, InChannels
  <2> QED BY <1>1, <2>1, <2>2, <2>3, <2>4
<1> QED BY <1>1, <1>2, <1>3, HeldFrames DEF Kept, Held, InHands

-----------------------------------------------------------------------------
(* The steps of the primaries.  A bulk that Do() got an answer for is with *)
(* Elasticsearch, but for the refused items; otherwise it is still there.  *)
LEMMA BulkKeeps ==
    ASSUME PrimaryTypeOK, NEW p \in Primaries, BulkAccepted(p) \/ BulkFailed(p)
    PROVE  InBulks \cup esDocs \cup refused
               \subseteq InBulks' \cup esDocs' \cup refused'
<1>1. CASE BulkAccepted(p)
  <2>1. /\ esDocs \subseteq esDocs' /\ refused \subseteq refused'
        /\ Range(actions[p]) \subseteq esDocs' \cup refused'
    BY <1>1 DEF BulkAccepted
  <2>2. \A q \in Primaries : q # p => actions'[q] = actions[q]
    BY <1>1 DEF BulkAccepted, PrimaryTypeOK
  <2> QED BY <2>1, <2>2 DEF InBulks
<1>2. CASE BulkFailed(p)
  BY <1>2 DEF BulkFailed, InBulks
<1> QED BY <1>1, <1>2

LEMMA PrimaryKeeps ==
    ASSUME IInv, NEW p \in Primaries, PrimaryStep(p)
    PROVE  Kept \subseteq Kept' /\ read' = read
<1> USE DEF IInv, TypeOK
<1> DEFINE Here == InChannels \cup (Range(pline) \ {NoLine}) \cup InBulks
                   \cup esDocs \cup refused
<1>1. /\ UNCHANGED <<workerVars, backupVars>>
      /\ \/ PrimaryAdd(p) \/ PrimaryFlush(p) \/ PrimaryTakeDivert(p)
         \/ PrimaryDivert(p) \/ PrimaryIdle(p)
  BY DEF PrimaryStep, PrimaryOnly
<1>2. ASSUME parsedLines # <<>>, parsedLines' = Tail(parsedLines),
             UNCHANGED <<lines, backupLines>>
      PROVE  InChannels = {Head(parsedLines)} \cup InChannels'
                 /\ Head(parsedLines) \in Line
  BY <1>2, RangeTail DEF ContextTypeOK, InChannels
<1>3. Here \subseteq Here'
  <2>1. CASE PrimaryAdd(p)
    <3>1. InChannels = {Head(parsedLines)} \cup InChannels'
              /\ Head(parsedLines) \in Line
      BY <1>2, <2>1 DEF PrimaryAdd
    <3>2. actions'[p] = Append(actions[p], Head(parsedLines))
      BY <2>1 DEF PrimaryAdd, PrimaryTypeOK
    <3>3. Range(actions'[p]) = Range(actions[p]) \cup {Head(parsedLines)}
      BY <3>1, <3>2, RangeAppend DEF PrimaryTypeOK
    <3>4. \A q \in Primaries : q # p => actions'[q] = actions[q]
      BY <2>1 DEF PrimaryAdd, PrimaryTypeOK
    <3>5. InBulks \cup {Head(parsedLines)} \subseteq InBulks'
      BY <3>3, <3>4 DEF InBulks
    <3>6. UNCHANGED <<pline, esDocs, refused>>
      BY <2>1 DEF PrimaryAdd
    <3> QED BY <3>1, <3>5, <3>6
  <2>2. CASE PrimaryFlush(p) \/ PrimaryIdle(p)
    <3>1. UNCHANGED pline /\ InChannels' = InChannels
      BY <2>2, HeldFrames DEF PrimaryFlush, PrimaryIdle
    <3>2. \/ BulkAccepted(p) \/ BulkFailed(p)
          \/ UNCHANGED <<actions, esDocs, refused>>
      BY <2>2 DEF PrimaryFlush, PrimaryIdle
    <3>3. InBulks \cup esDocs \cup refused
              \subseteq InBulks' \cup esDocs' \cup refused'
      BY <3>2, BulkKeeps DEF InBulks
    <3> QED BY <3>1, <3>3
  <2>3. CASE PrimaryTakeDivert(p)
    <3>1. InChannels = {Head(parsedLines)} \cup InChannels'
              /\ Head(parsedLines) \in Line
      BY <1>2, <2>3 DEF PrimaryTakeDivert
    <3>2. /\ Head(parsedLines) \in Range(pline')
          /\ Range(pline) \subseteq Range(pline') \cup {pline[p]}
      BY <2>3, RangeUpdate DEF PrimaryTakeDivert, PrimaryTypeOK
    <3>3. pline[p] = NoLine
      BY <2>3 DEF PrimaryTakeDivert, HandsFull
    <3>4. UNCHANGED <<actions, esDocs, refused>>
      BY <2>3 DEF PrimaryTakeDivert
    <3> QED BY <3>1, <3>2, <3>3, <3>4, ContextAssumption DEF InBulks
  <2>4. CASE PrimaryDivert(p)
    <3>1. pline[p] \in Line
      BY <2>4 DEF PrimaryDivert, PrimaryTypeOK, HandsFull
    <3>2. Range(backupLines') = Range(backupLines) \cup {pline[p]}
      BY <2>4, <3>1, RangeAppend DEF PrimaryDivert, ContextTypeOK
    <3>3. Range(pline) \subseteq Range(pline') \cup {pline[p]}
      BY <2>4, RangeUpdate DEF PrimaryDivert, PrimaryTypeOK
    <3>4. UNCHANGED <<lines, parsedLines, actions, esDocs, refused>>
      BY <2>4 DEF PrimaryDivert
    <3> QED BY <3>2, <3>3, <3>4 DEF InChannels, InBulks
  <2> QED BY <1>1, <2>1, <2>2, <2>3, <2>4
<1> QED BY <1>1, <1>3, HeldFrames DEF Kept, Held, InHands

(* Steps that move no line.                                                *)
LEMMA NotificationKeeps ==
    ASSUME \/ PrimaryOnly(EsToggle) \/ BackupRate \/ RestoreStartByLogger
           \/ TickStep \/ BackupOnly(BackupIdle)
           \/ \E p \in Primaries : \/ PrimaryOnly(CoolDown(p)) \/ ParsedRate(p)
                                   \/ RestoreStartByPrimary(p)
    PROVE  Kept \subseteq Kept' /\ read' = read
<1>1. UNCHANGED <<lines, parsedLines, backupLines, read, wline, pline, actions,
                  esDocs, refused, bulkRequest, disk, rpc, rfile, rest, lost>>
  BY DEF PrimaryOnly, EsToggle, CoolDown, ParsedRate, PrimaryRated,
         RestoreStartByPrimary, RestoreStartByLogger, PrimaryNotified,
         BackupRestoreStart, BackupRate, BackupWrite, TickStep, BackupOnly,
         BackupIdle, contextVars, workerVars, primaryVars, backupVars,
         restorerVars
<1> QED BY <1>1 DEF Kept, Held, InChannels, InHands, InBulks, Spooled, InFiles, Restored

-----------------------------------------------------------------------------
(* The steps of the backup task and of Restore.  The end of a Flush leaves *)
(* every line in the file or in bulkRequest, unless a fresh backend takes  *)
(* over from one whose writer failed.                                      *)
LEMMA FileMembers ==
    /\ \A x : x \in InFiles <=>
              \E f \in Files \ Restored : x \in Range(disk[f])
    /\ \A x : x \in InFiles' <=>
              \E f \in Files \ Restored' : x \in Range(disk'[f])
BY DEF InFiles

LEMMA FlushKeeps ==
    ASSUME IInv, FlushStep
    PROVE  Kept \subseteq Kept' /\ Spooled \subseteq Spooled'
<1> USE DEF IInv, TypeOK
<1>1. UNCHANGED <<contextVars, workerVars, primaryVars, rest>> /\ bpc = "flush"
  BY DEF FlushStep, BackupOnly, BackupFlushed, BackupFlushFails
<1>2. PICK file, kept, err :
         /\ AfterFlush(file, kept, err)
         /\ Range(disk[backupcount]) \subseteq Range(file)
         /\ Range(bulkRequest) \subseteq Range(file) \cup Range(kept)
  <2>1. disk[backupcount] \in Seq(Line) /\ bulkRequest \in Seq(Line)
    BY DEF BackupTypeOK
  <2>2. CASE BackupFlushed
    <3>1. Range(disk[backupcount] \o bulkRequest) =
              Range(disk[backupcount]) \cup Range(bulkRequest)
      BY <2>1, RangeConcatenation
    <3> QED BY <2>2, <3>1 DEF BackupFlushed
  <2>3. CASE BackupFlushFails
    <3>1. PICK n \in 0..(Len(bulkRequest) - 1) :
             AfterFlush(disk[backupcount] \o SubSeq(bulkRequest, 1, n),
                        bulkRequest, TRUE)
      BY <2>3 DEF BackupFlushFails
    <3>2. SubSeq(bulkRequest, 1, n) \in Seq(Line)
      BY <2>1, <3>1
    <3>3. Range(disk[backupcount] \o SubSeq(bulkRequest, 1, n)) =
              Range(disk[backupcount]) \cup Range(SubSeq(bulkRequest, 1, n))
      <4> DEFINE front == SubSeq(bulkRequest, 1, n)
      <4>1. front \in Seq(Line) /\ disk[backupcount] \in Seq(Line)
        BY <2>1, <3>2
      <4> HIDE DEF front
      <4>2. Range(disk[backupcount] \o front) =
                Range(disk[backupcount]) \cup Range(front)
        BY <4>1, RangeConcatenation
      <4> QED BY <4>2 DEF front
    <3> QED BY <3>1, <3>3
  <2> QED BY <2>2, <2>3 DEF FlushStep, BackupOnly
<1>3. backupcount \in Files /\ backupcount \notin Restored
  BY DEF BackupTypeOK, SpoolShape, Restored, Files
<1>4. /\ Spooled \cup Range(bulkRequest) \cup lost \subseteq
             Spooled' \cup Range(bulkRequest') \cup lost'
      /\ Spooled \subseteq Spooled'
  <2>1. CASE why = "restore"
    <3>1. /\ rpc = "none" /\ backupcount \in Nat /\ backupcount + 1 \in Files
          /\ disk[backupcount + 1] = <<>>
      BY <1>1, <2>1, BackupAssumption
         DEF RestorePrepared, SpoolShape, BackupTypeOK, Files
    <3>2. /\ disk' = [disk EXCEPT ![backupcount] = file,
                                  ![backupcount + 1] = <<>>]
          /\ lost' = lost \cup (Range(kept) \ Range(file))
          /\ Restored' = {}
      BY <1>2, <2>1 DEF AfterFlush, Restored
    <3>3. /\ disk'[backupcount] = file
          /\ \A f \in Files : f # backupcount => disk'[f] = disk[f]
      BY <1>3, <3>1, <3>2 DEF BackupTypeOK
    <3>4. Range(file) \subseteq Spooled'
      BY <1>3, <3>2, <3>3, FileMembers DEF Spooled
    <3>5. Spooled \subseteq Spooled'
      <4> SUFFICES ASSUME NEW x \in Spooled PROVE x \in Spooled'
        OBVIOUS
      <4>1. CASE x \in Range(rest)
        BY <1>1, <4>1 DEF Spooled
      <4>2. CASE x \notin Range(rest)
        <5>1. PICK f \in Files : x \in Range(disk[f])
          BY <4>2, FileMembers DEF Spooled
        <5>2. CASE f = backupcount
          BY <1>2, <3>4, <5>1, <5>2
        <5>3. CASE f # backupcount
          BY <3>2, <3>3, <5>1, <5>3, FileMembers DEF Spooled
        <5> QED BY <5>2, <5>3
      <4> QED BY <4>1, <4>2
    <3> QED BY <1>2, <3>2, <3>4, <3>5
  <2>2. CASE why # "restore"
    <3>1. /\ disk' = [disk EXCEPT ![backupcount] = file]
          /\ bulkRequest' = kept /\ lost' = lost /\ Restored' = Restored
      BY <1>2, <2>2 DEF AfterFlush, Restored
    <3>2. /\ disk'[backupcount] = file
          /\ \A f \in Files : f # backupcount => disk'[f] = disk[f]
      BY <1>3, <3>1 DEF BackupTypeOK
    <3>3. Range(file) \subseteq Spooled'
      BY <1>3, <3>1, <3>2, FileMembers DEF Spooled
    <3>4. Spooled \subseteq Spooled'
      <4> SUFFICES ASSUME NEW x \in Spooled, x \notin Range(rest)
                   PROVE  x \in Spooled'
        BY <1>1 DEF Spooled
      <4>1. PICK f \in Files \ Restored : x \in Range(disk[f])
        BY FileMembers DEF Spooled
      <4>2. CASE f = backupcount
        BY <1>2, <3>3, <4>1, <4>2
      <4>3. CASE f # backupcount
        BY <3>1, <3>2, <4>1, <4>3, FileMembers DEF Spooled
      <4> QED BY <4>2, <4>3
    <3> QED BY <1>2, <3>1, <3>3, <3>4
  <2> QED BY <2>1, <2>2
<1> QED BY <1>1, <1>4, HeldFrames DEF Kept, Held, InHands

LEMMA BackupKeeps ==
    ASSUME IInv,
           BackupOnly(BackupReceive) \/ BackupOnly(RestoreDone) \/ RestoreStep
    PROVE  Kept \subseteq Kept'
<1> USE DEF IInv, TypeOK
<1> DEFINE Here == InChannels \cup Range(bulkRequest) \cup Spooled \cup lost
<1>1. UNCHANGED <<workerVars, primaryVars>>
  BY DEF BackupOnly, RestoreStep
<1>2. Here \subseteq Here'
  <2>1. CASE BackupReceive
    <3>1. Range(backupLines) = {Head(backupLines)} \cup Range(backupLines')
              /\ Head(backupLines) \in Line
      BY <2>1, RangeTail DEF BackupReceive, ContextTypeOK
    <3>2. Range(bulkRequest') = Range(bulkRequest) \cup {Head(backupLines)}
      BY <2>1, <3>1, RangeAppend DEF BackupReceive, BackupTypeOK
    <3>3. UNCHANGED <<lines, parsedLines, disk, rpc, rfile, rest, lost>>
      BY <2>1 DEF BackupReceive, restorerVars
    <3> QED BY <3>1, <3>2, <3>3 DEF InChannels, Spooled, InFiles, Restored
  <2>2. CASE RestoreDone
    <3>1. UNCHANGED <<contextVars, bulkRequest, disk, rest, lost>>
      BY <2>2 DEF RestoreDone
    <3>2. Restored' = {}
      BY <2>2 DEF RestoreDone, Restored
    <3> QED BY <3>1, <3>2, HeldFrames, FileMembers DEF Spooled
  <2>3. CASE RestoreOpen
    <3>1. UNCHANGED <<contextVars, bulkRequest, disk, rfile, lost>>
      BY <2>3 DEF RestoreOpen
    <3>2. rest = <<>> /\ rpc = "open"
      BY <2>3 DEF RestoreOpen, SpoolShape
    <3>3. \/ rest' = disk[rfile] /\ Restored' = {rfile}
          \/ rest' = rest /\ Restored' = {}
      BY <2>3 DEF RestoreOpen, Restored
    <3>4. Range(rest) = {}
      BY <3>2 DEF Range
    <3>5. Spooled \subseteq Spooled'
      BY <3>1, <3>3, <3>4, FileMembers DEF Spooled
    <3> QED BY <3>1, <3>5, HeldFrames
  <2>4. CASE RestoreSend
    <3>1. Range(rest) = {Head(rest)} \cup Range(rest') /\ Head(rest) \in Line
      BY <2>4, RangeTail DEF RestoreSend, BackupTypeOK
    <3>2. Range(parsedLines') = Range(parsedLines) \cup {Head(rest)}
      BY <2>4, <3>1, RangeAppend DEF RestoreSend, ContextTypeOK
    <3>3. UNCHANGED <<lines, backupLines, bulkRequest, disk, rpc, rfile, lost>>
      BY <2>4 DEF RestoreSend
    <3> QED BY <3>1, <3>2, <3>3 DEF InChannels, Spooled, InFiles, Restored
  <2>5. CASE RestoreEOF
    <3>1. UNCHANGED <<contextVars, bulkRequest, rest, rfile, lost>>
      BY <2>5 DEF RestoreEOF
    <3>2. Restored = {rfile} /\ Restored' = {rfile}
      BY <2>5 DEF RestoreEOF, Restored
    <3>3. \A f \in Files : f # rfile => disk'[f] = disk[f]
      BY <2>5 DEF RestoreEOF, BackupTypeOK
    <3>4. Spooled \subseteq Spooled'
      BY <3>1, <3>2, <3>3, FileMembers DEF Spooled
    <3> QED BY <3>1, <3>4, HeldFrames
  <2> QED BY <2>1, <2>2, <2>3, <2>4, <2>5 DEF BackupOnly, RestoreStep
<1> QED BY <1>1, <1>2, HeldFrames DEF Kept, Held, InHands

-----------------------------------------------------------------------------
(* No line that was read vanishes, for every configuration of the program  *)
(* and whatever fails: it is held, or indexed, or was refused in a bulk    *)
(* that succeeded, or was left to a backend whose flush had failed         *)
(* (ulog2queue.go, primary.go, backup.go, disk.go).                        *)
THEOREM NoLineVanishes == Spec => []NothingVanishes
<1>1. Init => NothingVanishes
  BY DEF Init, WorkerInit, NothingVanishes
<1>2. IInv /\ NothingVanishes /\ [Next]_vars => NothingVanishes'
  <2> SUFFICES ASSUME IInv, NothingVanishes, [Next]_vars
               PROVE  NothingVanishes'
    OBVIOUS
  <2>1. Kept \subseteq Kept' /\ read' \subseteq read \cup Kept'
    <3>1. CASE UNCHANGED vars
      BY <3>1, HeldFrames DEF vars, Kept, Held, InHands
    <3>2. ASSUME NEW l \in Line, WorkerOnly(TailRead(l))
          PROVE  Kept \subseteq Kept' /\ read' \subseteq read \cup Kept'
      BY <3>2, TailKeeps
    <3>3. ASSUME NEW w \in Workers, WorkerStep(w)
          PROVE  Kept \subseteq Kept' /\ read' = read
      BY <3>3, WorkerKeeps
    <3>4. ASSUME NEW p \in Primaries, PrimaryStep(p)
          PROVE  Kept \subseteq Kept' /\ read' = read
      BY <3>4, PrimaryKeeps
    <3>5. ASSUME \/ FlushStep \/ RestoreStep \/ BackupOnly(BackupReceive)
                 \/ BackupOnly(RestoreDone)
          PROVE  Kept \subseteq Kept' /\ read' = read
      <4>1. UNCHANGED workerVars
        BY <3>5 DEF FlushStep, RestoreStep, BackupOnly
      <4> QED BY <3>5, <4>1, FlushKeeps, BackupKeeps, HeldFrames
    <3> QED BY <3>1, <3>2, <3>3, <3>4, <3>5, NotificationKeeps DEF Next
  <2> QED BY <2>1 DEF NothingVanishes, Kept
<1> QED BY <1>1, <1>2, Inductive, PTL DEF Spec

-----------------------------------------------------------------------------
(* What Restore takes from the spool, it puts into ctx.parsedLines.        *)
LEMMA RestoreSpools ==
    ASSUME IInv, RestoreStep \/ BackupOnly(RestoreDone)
    PROVE  Spooled \subseteq Spooled' \cup Range(parsedLines')
<1> USE DEF IInv, TypeOK
<1>1. CASE RestoreDone
  <2>1. UNCHANGED <<disk, rest>> /\ Restored' = {}
    BY <1>1 DEF RestoreDone, Restored
  <2> QED BY <2>1, FileMembers DEF Spooled
<1>2. CASE RestoreOpen
  <2>1. rest = <<>> /\ rpc = "open" /\ UNCHANGED <<disk, rfile>>
    BY <1>2 DEF RestoreOpen, SpoolShape
  <2>2. \/ rest' = disk[rfile] /\ Restored' = {rfile}
        \/ rest' = rest /\ Restored' = {}
    BY <1>2 DEF RestoreOpen, Restored
  <2>3. Range(rest) = {}
    BY <2>1 DEF Range
  <2> QED BY <2>1, <2>2, <2>3, FileMembers DEF Spooled
<1>3. CASE RestoreSend
  <2>1. Range(rest) = {Head(rest)} \cup Range(rest') /\ Head(rest) \in Line
    BY <1>3, RangeTail DEF RestoreSend, BackupTypeOK
  <2>2. Range(parsedLines') = Range(parsedLines) \cup {Head(rest)}
    BY <1>3, <2>1, RangeAppend DEF RestoreSend, ContextTypeOK
  <2>3. UNCHANGED <<disk, rpc, rfile>>
    BY <1>3 DEF RestoreSend
  <2> QED BY <2>1, <2>2, <2>3 DEF Spooled, InFiles, Restored
<1>4. CASE RestoreEOF
  <2>1. Restored = {rfile} /\ Restored' = {rfile} /\ UNCHANGED rest
    BY <1>4 DEF RestoreEOF, Restored
  <2>2. \A f \in Files : f # rfile => disk'[f] = disk[f]
    BY <1>4 DEF RestoreEOF, BackupTypeOK
  <2> QED BY <2>1, <2>2, FileMembers DEF Spooled
<1> QED BY <1>1, <1>2, <1>3, <1>4 DEF RestoreStep, BackupOnly

(* Every other step leaves the files alone.                                *)
LEMMA SpoolFrame ==
    ASSUME [Next]_vars, ~FlushStep, ~RestoreStep, ~BackupOnly(RestoreDone)
    PROVE  Spooled' = Spooled
<1>1. UNCHANGED <<disk, rpc, rfile, rest>>
  BY DEF Next, vars, backupVars, restorerVars, WorkerOnly, WorkerStep,
         PrimaryOnly, PrimaryStep, ParsedRate, RestoreStartByPrimary,
         RestoreStartByLogger, BackupRestoreStart, BackupOnly, BackupReceive,
         BackupIdle, BackupRate, BackupWrite, TickStep
<1> QED BY <1>1 DEF Spooled, InFiles, Restored

(* A line leaves the spool only for the channel of the primaries, whatever *)
(* fails (disk.go Restore, backup.go): a file is not removed before all of *)
(* it has been sent, and none is created over one that still holds lines.  *)
THEOREM SpoolLeavesByChannel == Spec => SpoolDrainsToPrimary
<1>1. IInv /\ [Next]_vars => Spooled \ Spooled' \subseteq Range(parsedLines')
  BY FlushKeeps, RestoreSpools, SpoolFrame
<1>2. IInv /\ [Next]_vars =>
          [Spooled \ Spooled' \subseteq Range(parsedLines')]_vars
  BY <1>1
<1> QED BY <1>2, Inductive, PTL DEF Spec, SpoolDrainsToPrimary

-----------------------------------------------------------------------------
(* The refinement of Delivery.                                             *)
MayDrop == DiskFaults \/ Refusable # {}

Dropped == refused \cup lost

(* Whatever is held or settled has been read, a restored file is empty     *)
(* before it counts again, and lines are given up only if something can    *)
(* fail.                                                                   *)
Accounted ==
    /\ Held \cup esDocs \cup Dropped \subseteq read
    /\ rpc = "done" => disk[rfile] = <<>>
    /\ ~MayDrop => Dropped = {}

(* A step that brings no line and settles only lines that were held.       *)
Moves ==
    /\ Held' \subseteq Held
    /\ esDocs \subseteq esDocs' /\ esDocs' \subseteq esDocs \cup Held
    /\ Dropped \subseteq Dropped' /\ Dropped' \subseteq Dropped \cup Held
    /\ ~MayDrop => Dropped' = Dropped
    /\ read' = read

-----------------------------------------------------------------------------
LEMMA WorkerMoves ==
    ASSUME IInv, NEW w \in Workers, WorkerStep(w)
    PROVE  Moves
<1> USE DEF IInv, TypeOK
<1>1. /\ UNCHANGED <<primaryVars, backupVars>>
      /\ \/ WorkerTake(w) \/ WorkerSendPrimary(w)
         \/ WorkerSendBackup(w) \/ WorkerIdle(w)
  BY DEF WorkerStep, WorkerOnly
<1>2. read' = read
  BY <1>1 DEF WorkerTake, WorkerSendPrimary, WorkerSendBackup, WorkerIdle,
              workerVars
<1>3. InChannels' \cup (Range(wline') \ {NoLine})
          \subseteq InChannels \cup (Range(wline) \ {NoLine})
  <2>1. CASE WorkerTake(w)
    <3>1. Range(lines) = {Head(lines)} \cup Range(lines')
      BY <2>1, RangeTail DEF WorkerTake, ContextTypeOK
    <3>2. Range(wline') \subseteq Range(wline) \cup {Head(lines)}
      <4>1. wline' = [wline EXCEPT ![w] = Head(lines)]
        BY <2>1 DEF WorkerTake
      <4>2. wline \in [Workers -> Line \cup {NoLine}]
        BY DEF WorkerTypeOK
      <4> QED BY <4>1, <4>2, RangeReplaced
    <3>3. UNCHANGED <<parsedLines, backupLines>>
      BY <2>1 DEF WorkerTake
    <3> QED BY <3>1, <3>2, <3>3 DEF InChannels
  <2>2. CASE WorkerSendPrimary(w)
    <3>1. wline[w] \in Line /\ wline[w] \in Range(wline)
      BY <2>2 DEF WorkerSendPrimary, WorkerTypeOK, HandsFull, Range
    <3>2. Range(parsedLines') = Range(parsedLines) \cup {wline[w]}
      BY <2>2, <3>1, RangeAppend DEF WorkerSendPrimary, ContextTypeOK
    <3>3. Range(wline') \subseteq Range(wline) \cup {NoLine}
      <4>1. wline' = [wline EXCEPT ![w] = NoLine]
        BY <2>2 DEF WorkerSendPrimary
      <4>2. wline \in [Workers -> Line \cup {NoLine}]
        BY DEF WorkerTypeOK
      <4> QED BY <4>1, <4>2, RangeReplaced
    <3>4. UNCHANGED <<lines, backupLines>>
      BY <2>2 DEF WorkerSendPrimary
    <3> QED BY <3>1, <3>2, <3>3, <3>4, ContextAssumption DEF InChannels
  <2>3. CASE WorkerSendBackup(w)
    <3>1. wline[w] \in Line /\ wline[w] \in Range(wline)
      BY <2>3 DEF WorkerSendBackup, WorkerTypeOK, HandsFull, Range
    <3>2. Range(backupLines') = Range(backupLines) \cup {wline[w]}
      BY <2>3, <3>1, RangeAppend DEF WorkerSendBackup, ContextTypeOK
    <3>3. Range(wline') \subseteq Range(wline) \cup {NoLine}
      <4>1. wline' = [wline EXCEPT ![w] = NoLine]
        BY <2>3 DEF WorkerSendBackup
      <4>2. wline \in [Workers -> Line \cup {NoLine}]
        BY DEF WorkerTypeOK
      <4> QED BY <4>1, <4>2, RangeReplaced
    <3>4. UNCHANGED <<lines, parsedLines>>
      BY <2>3 DEF WorkerSendBackup
    <3> QED BY <3>1, <3>2, <3>3, <3>4, ContextAssumption DEF InChannels
  <2>4. CASE WorkerIdle(w)
    BY <2>4 DEF WorkerIdle, workerVars, InChannels
  <2> QED BY <1>1, <2>1, <2>2, <2>3, <2>4
<1> QED BY <1>1, <1>2, <1>3, HeldFrames DEF Moves, Dropped, Held, InHands

-----------------------------------------------------------------------------
(* A bulk: what Elasticsearch gets or refuses was in it.                   *)
LEMMA BulkMoves ==
    ASSUME PrimaryTypeOK, NEW p \in Primaries, BulkAccepted(p) \/ BulkFailed(p)
    PROVE  /\ InBulks' \subseteq InBulks
           /\ esDocs \subseteq esDocs' /\ esDocs' \subseteq esDocs \cup InBulks
           /\ refused \subseteq refused'
           /\ refused' \subseteq refused \cup InBulks
           /\ Refusable = {} => refused' = refused
<1>1. Range(actions[p]) \subseteq InBulks
  BY DEF InBulks
<1>2. CASE BulkAccepted(p)
  <2>1. /\ actions'[p] = <<>>
        /\ \A q \in Primaries : q # p => actions'[q] = actions[q]
    BY <1>2 DEF BulkAccepted, PrimaryTypeOK
  <2>2. Range(<<>>) = {}
    BY DEF Range
  <2>3. InBulks' \subseteq InBulks
    BY <2>1, <2>2 DEF InBulks
  <2> QED BY <1>1, <1>2, <2>3 DEF BulkAccepted
<1>3. CASE BulkFailed(p)
  BY <1>1, <1>3 DEF BulkFailed, InBulks
<1> QED BY <1>2, <1>3

LEMMA PrimaryMoves ==
    ASSUME IInv, NEW p \in Primaries, PrimaryStep(p)
    PROVE  Moves
<1> USE DEF IInv, TypeOK
<1> DEFINE Here == InChannels \cup (Range(pline) \ {NoLine}) \cup InBulks
<1>1. /\ UNCHANGED <<workerVars, backupVars>>
      /\ \/ PrimaryAdd(p) \/ PrimaryFlush(p) \/ PrimaryTakeDivert(p)
         \/ PrimaryDivert(p) \/ PrimaryIdle(p)
  BY DEF PrimaryStep, PrimaryOnly
<1>2. ASSUME parsedLines # <<>>, parsedLines' = Tail(parsedLines),
             UNCHANGED <<lines, backupLines>>
      PROVE  InChannels = {Head(parsedLines)} \cup InChannels'
                 /\ Head(parsedLines) \in Line
  BY <1>2, RangeTail DEF ContextTypeOK, InChannels
<1>3. /\ Here' \subseteq Here
      /\ esDocs \subseteq esDocs' /\ esDocs' \subseteq esDocs \cup InBulks
      /\ refused \subseteq refused' /\ refused' \subseteq refused \cup InBulks
      /\ Refusable = {} => refused' = refused
  <2>1. CASE PrimaryAdd(p)
    <3>1. InChannels = {Head(parsedLines)} \cup InChannels'
              /\ Head(parsedLines) \in Line
      BY <1>2, <2>1 DEF PrimaryAdd
    <3>2. actions'[p] = Append(actions[p], Head(parsedLines))
      BY <2>1 DEF PrimaryAdd, PrimaryTypeOK
    <3>3. Range(actions'[p]) = Range(actions[p]) \cup {Head(parsedLines)}
      BY <3>1, <3>2, RangeAppend DEF PrimaryTypeOK
    <3>4. \A q \in Primaries : q # p => actions'[q] = actions[q]
      BY <2>1 DEF PrimaryAdd, PrimaryTypeOK
    <3>5. InBulks' \subseteq InBulks \cup {Head(parsedLines)}
      BY <3>3, <3>4 DEF InBulks
    <3>6. UNCHANGED <<pline, esDocs, refused>>
      BY <2>1 DEF PrimaryAdd
    <3> QED BY <3>1, <3>5, <3>6
  <2>2. CASE PrimaryFlush(p) \/ PrimaryIdle(p)
    <3>1. UNCHANGED pline /\ InChannels' = InChannels
      BY <2>2, HeldFrames DEF PrimaryFlush, PrimaryIdle
    <3>2. \/ BulkAccepted(p) \/ BulkFailed(p)
          \/ UNCHANGED <<actions, esDocs, refused>>
      BY <2>2 DEF PrimaryFlush, PrimaryIdle
    <3>3. CASE BulkAccepted(p) \/ BulkFailed(p)
      BY <3>1, <3>3, BulkMoves
    <3>4. CASE UNCHANGED <<actions, esDocs, refused>>
      BY <3>1, <3>4 DEF InBulks
    <3> QED BY <3>2, <3>3, <3>4
  <2>3. CASE PrimaryTakeDivert(p)
    <3>1. InChannels = {Head(parsedLines)} \cup InChannels'
      BY <1>2, <2>3 DEF PrimaryTakeDivert
    <3>2. Range(pline') \subseteq Range(pline) \cup {Head(parsedLines)}
      <4>1. pline' = [pline EXCEPT ![p] = Head(parsedLines)]
        BY <2>3 DEF PrimaryTakeDivert
      <4>2. pline \in [Primaries -> Line \cup {NoLine}]
        BY DEF PrimaryTypeOK
      <4> QED BY <4>1, <4>2, RangeReplaced
    <3>3. UNCHANGED <<actions, esDocs, refused>>
      BY <2>3 DEF PrimaryTakeDivert
    <3> QED BY <3>1, <3>2, <3>3 DEF InBulks
  <2>4. CASE PrimaryDivert(p)
    <3>1. pline[p] \in Line /\ pline[p] \in Range(pline)
      BY <2>4 DEF PrimaryDivert, PrimaryTypeOK, HandsFull, Range
    <3>2. Range(backupLines') = Range(backupLines) \cup {pline[p]}
      BY <2>4, <3>1, RangeAppend DEF PrimaryDivert, ContextTypeOK
    <3>3. Range(pline') \subseteq Range(pline) \cup {NoLine}
      <4>1. pline' = [pline EXCEPT ![p] = NoLine]
        BY <2>4 DEF PrimaryDivert
      <4>2. pline \in [Primaries -> Line \cup {NoLine}]
        BY DEF PrimaryTypeOK
      <4> QED BY <4>1, <4>2, RangeReplaced
    <3>4. UNCHANGED <<lines, parsedLines, actions, esDocs, refused>>
      BY <2>4 DEF PrimaryDivert
    <3>5. pline[p] # NoLine
      BY <3>1, ContextAssumption
    <3>6. InChannels' = InChannels \cup {pline[p]} /\ InBulks' = InBulks
      BY <3>2, <3>4 DEF InChannels, InBulks
    <3>7. Here' \subseteq Here
      BY <3>1, <3>3, <3>5, <3>6
    <3> QED BY <3>4, <3>7
  <2> QED BY <1>1, <2>1, <2>2, <2>3, <2>4
<1> QED BY <1>1, <1>3, HeldFrames DEF Moves, MayDrop, Dropped, Held, InHands

(* Steps that move no line.                                                *)
LEMMA NotificationMoves ==
    ASSUME \/ PrimaryOnly(EsToggle) \/ BackupRate \/ RestoreStartByLogger
           \/ TickStep \/ BackupOnly(BackupIdle)
           \/ \E p \in Primaries : \/ PrimaryOnly(CoolDown(p)) \/ ParsedRate(p)
                                   \/ RestoreStartByPrimary(p)
    PROVE  Moves /\ UNCHANGED <<disk, rpc, rfile>>
<1>1. UNCHANGED <<lines, parsedLines, backupLines, read, wline, pline, actions,
                  esDocs, refused, bulkRequest, disk, rpc, rfile, rest, lost>>
  BY DEF PrimaryOnly, EsToggle, CoolDown, ParsedRate, PrimaryRated,
         RestoreStartByPrimary, RestoreStartByLogger, PrimaryNotified,
         BackupRestoreStart, BackupRate, BackupWrite, TickStep, BackupOnly,
         BackupIdle, contextVars, workerVars, primaryVars, backupVars,
         restorerVars
<1> QED BY <1>1 DEF Moves, Dropped, Held, InChannels, InHands, InBulks,
                    Spooled, InFiles, Restored

-----------------------------------------------------------------------------
(* The end of a Flush puts lines of bulkRequest into the current file.     *)
LEMMA FlushMoves ==
    ASSUME IInv, Accounted, FlushStep
    PROVE  Moves /\ (rpc' = "done" => disk'[rfile'] = <<>>)
<1> USE DEF IInv, TypeOK
<1>1. /\ UNCHANGED <<contextVars, workerVars, primaryVars, rest>>
      /\ bpc = "flush"
  BY DEF FlushStep, BackupOnly, BackupFlushed, BackupFlushFails
<1>2. PICK file, kept, err :
         /\ AfterFlush(file, kept, err)
         /\ Range(file) \subseteq Range(disk[backupcount]) \cup Range(bulkRequest)
         /\ Range(kept) \subseteq Range(bulkRequest)
         /\ ~DiskFaults => kept = <<>>
  <2>1. disk[backupcount] \in Seq(Line) /\ bulkRequest \in Seq(Line)
    BY DEF BackupTypeOK
  <2>2. Range(<<>>) = {}
    BY DEF Range
  <2>3. CASE BackupFlushed
    <3>1. Range(disk[backupcount] \o bulkRequest) =
              Range(disk[backupcount]) \cup Range(bulkRequest)
      BY <2>1, RangeConcatenation
    <3> QED BY <2>2, <2>3, <3>1 DEF BackupFlushed
  <2>4. CASE BackupFlushFails
    <3>1. PICK n \in 0..(Len(bulkRequest) - 1) :
             AfterFlush(disk[backupcount] \o SubSeq(bulkRequest, 1, n),
                        bulkRequest, TRUE)
      BY <2>4 DEF BackupFlushFails
    <3>2. SubSeq(bulkRequest, 1, n) \in Seq(Line)
      BY <2>1, <3>1
    <3>3. /\ Len(SubSeq(bulkRequest, 1, n)) = n
          /\ \A k \in 1..n : /\ SubSeq(bulkRequest, 1, n)[k] = bulkRequest[k]
                             /\ k \in 1..Len(bulkRequest)
      BY <2>1, <3>1
    <3>4. Range(SubSeq(bulkRequest, 1, n)) \subseteq Range(bulkRequest)
      <4>1. Range(SubSeq(bulkRequest, 1, n)) =
                {SubSeq(bulkRequest, 1, n)[k] : k \in 1..n}
        BY <3>2, <3>3, RangeEquality
      <4>2. Range(bulkRequest) = {bulkRequest[k] : k \in 1..Len(bulkRequest)}
        BY <2>1, RangeEquality
      <4> QED BY <3>3, <4>1, <4>2
    <3>5. Range(disk[backupcount] \o SubSeq(bulkRequest, 1, n)) =
              Range(disk[backupcount]) \cup Range(SubSeq(bulkRequest, 1, n))
      <4> DEFINE front == SubSeq(bulkRequest, 1, n)
      <4>1. front \in Seq(Line) /\ disk[backupcount] \in Seq(Line)
        BY <2>1, <3>2
      <4> HIDE DEF front
      <4>2. Range(disk[backupcount] \o front) =
                Range(disk[backupcount]) \cup Range(front)
        BY <4>1, RangeConcatenation
      <4> QED BY <4>2 DEF front
    <3>6. DiskFaults
      BY <2>4 DEF BackupFlushFails
    <3> QED BY <3>1, <3>4, <3>5, <3>6
  <2> QED BY <2>3, <2>4 DEF FlushStep, BackupOnly
<1>3. backupcount \in Files /\ backupcount \notin Restored
  BY DEF BackupTypeOK, SpoolShape, Restored, Files
<1>4. Range(disk[backupcount]) \subseteq Spooled
  BY <1>3, FileMembers DEF Spooled
<1>5. /\ Spooled' \cup Range(bulkRequest')
             \subseteq Spooled \cup Range(bulkRequest)
      /\ lost \subseteq lost' /\ lost' \subseteq lost \cup Range(bulkRequest)
      /\ ~DiskFaults => lost' = lost
      /\ rpc' = "done" => disk'[rfile'] = <<>>
  <2>1. CASE why = "restore"
    <3>1. /\ rpc = "none" /\ backupcount \in Nat /\ backupcount + 1 \in Files
      BY <1>1, <2>1, BackupAssumption
         DEF RestorePrepared, SpoolShape, BackupTypeOK, Files
    <3>2. /\ disk' = [disk EXCEPT ![backupcount] = file,
                                  ![backupcount + 1] = <<>>]
          /\ lost' = lost \cup (Range(kept) \ Range(file))
          /\ bulkRequest' = <<>> /\ rpc' = "open"
          /\ Restored' = {} /\ Restored = {}
      BY <1>2, <2>1, <3>1 DEF AfterFlush, Restored
    <3>3. /\ disk'[backupcount] = file
          /\ disk'[backupcount + 1] = <<>>
          /\ \A f \in Files : f # backupcount /\ f # backupcount + 1
                                  => disk'[f] = disk[f]
      BY <1>3, <3>1, <3>2 DEF BackupTypeOK
    <3>4. Range(<<>>) = {}
      BY DEF Range
    <3>5. ASSUME NEW x \in Spooled'
          PROVE  x \in Spooled \cup Range(bulkRequest)
      <4>1. CASE x \in Range(rest')
        BY <1>1, <4>1 DEF Spooled
      <4>2. CASE x \notin Range(rest')
        <5>1. PICK f \in Files : x \in Range(disk'[f])
          BY <3>5, <4>2, FileMembers DEF Spooled
        <5>2. CASE f = backupcount
          BY <1>2, <1>4, <3>3, <5>1, <5>2
        <5>3. CASE f # backupcount
          BY <3>2, <3>3, <3>4, <5>1, <5>3, FileMembers DEF Spooled
        <5> QED BY <5>2, <5>3
      <4> QED BY <4>1, <4>2
    <3> QED BY <1>2, <3>2, <3>4, <3>5
  <2>2. CASE why # "restore"
    <3>1. /\ disk' = [disk EXCEPT ![backupcount] = file]
          /\ bulkRequest' = kept /\ lost' = lost /\ Restored' = Restored
          /\ UNCHANGED <<rpc, rfile>>
      BY <1>2, <2>2 DEF AfterFlush, Restored
    <3>2. /\ disk'[backupcount] = file
          /\ \A f \in Files : f # backupcount => disk'[f] = disk[f]
      BY <1>3, <3>1 DEF BackupTypeOK
    <3>3. ASSUME NEW x \in Spooled'
          PROVE  x \in Spooled \cup Range(bulkRequest)
      <4>1. CASE x \in Range(rest')
        BY <1>1, <4>1 DEF Spooled
      <4>2. CASE x \notin Range(rest')
        <5>1. PICK f \in Files \ Restored : x \in Range(disk'[f])
          BY <3>1, <3>3, <4>2, FileMembers DEF Spooled
        <5>2. CASE f = backupcount
          BY <1>2, <1>4, <3>2, <5>1, <5>2
        <5>3. CASE f # backupcount
          BY <3>2, <5>1, <5>3, FileMembers DEF Spooled
        <5> QED BY <5>2, <5>3
      <4> QED BY <4>1, <4>2
    <3>4. rpc = "done" => rfile \in Files /\ rfile # backupcount
      BY DEF SpoolShape, BackupTypeOK, Files
    <3>5. rpc' = "done" => disk'[rfile'] = <<>>
      BY <3>1, <3>2, <3>4 DEF Accounted
    <3> QED BY <1>2, <3>1, <3>3, <3>5
  <2> QED BY <2>1, <2>2
<1> QED BY <1>1, <1>5, HeldFrames DEF Moves, MayDrop, Dropped, Held, InHands,
                                      workerVars

LEMMA BackupMoves ==
    ASSUME IInv, Accounted,
           BackupOnly(BackupReceive) \/ BackupOnly(RestoreDone) \/ RestoreStep
    PROVE  Moves /\ (rpc' = "done" => disk'[rfile'] = <<>>)
<1> USE DEF IInv, TypeOK
<1> DEFINE Here == InChannels \cup Range(bulkRequest) \cup Spooled
<1>1. UNCHANGED <<workerVars, primaryVars>>
  BY DEF BackupOnly, RestoreStep
<1>2. /\ Here' \subseteq Here /\ lost' = lost
      /\ rpc' = "done" => disk'[rfile'] = <<>>
  <2>1. CASE BackupReceive
    <3>1. Range(backupLines) = {Head(backupLines)} \cup Range(backupLines')
              /\ Head(backupLines) \in Line
      BY <2>1, RangeTail DEF BackupReceive, ContextTypeOK
    <3>2. Range(bulkRequest') = Range(bulkRequest) \cup {Head(backupLines)}
      BY <2>1, <3>1, RangeAppend DEF BackupReceive, BackupTypeOK
    <3>3. UNCHANGED <<lines, parsedLines, disk, rpc, rfile, rest, lost>>
      BY <2>1 DEF BackupReceive, restorerVars
    <3> QED BY <3>1, <3>2, <3>3
            DEF Accounted, InChannels, Spooled, InFiles, Restored
  <2>2. CASE RestoreDone
    <3>1. UNCHANGED <<contextVars, bulkRequest, disk, rest, lost>>
      BY <2>2 DEF RestoreDone
    <3>2. /\ Restored' = {} /\ Restored = {rfile} /\ disk[rfile] = <<>>
          /\ rpc' = "none"
      BY <2>2 DEF RestoreDone, Restored, Accounted
    <3>3. Range(<<>>) = {}
      BY DEF Range
    <3>4. Spooled' \subseteq Spooled
      BY <3>1, <3>2, <3>3, FileMembers DEF Spooled
    <3> QED BY <3>1, <3>2, <3>4, HeldFrames
  <2>3. CASE RestoreOpen
    <3>1. UNCHANGED <<contextVars, bulkRequest, disk, rfile, lost>>
      BY <2>3 DEF RestoreOpen
    <3>2. rpc = "open" /\ rpc' # "done" /\ Restored = {} /\ rfile \in Files
      BY <2>3 DEF RestoreOpen, Restored, BackupTypeOK
    <3>3. rest' = disk[rfile] \/ rest' = rest
      BY <2>3 DEF RestoreOpen
    <3>4. Spooled' \subseteq Spooled
      BY <3>1, <3>2, <3>3, FileMembers DEF Spooled
    <3> QED BY <3>1, <3>2, <3>4, HeldFrames
  <2>4. CASE RestoreSend
    <3>1. Range(rest) = {Head(rest)} \cup Range(rest') /\ Head(rest) \in Line
      BY <2>4, RangeTail DEF RestoreSend, BackupTypeOK
    <3>2. Range(parsedLines') = Range(parsedLines) \cup {Head(rest)}
      BY <2>4, <3>1, RangeAppend DEF RestoreSend, ContextTypeOK
    <3>3. UNCHANGED <<lines, backupLines, bulkRequest, disk, rpc, rfile, lost>>
      BY <2>4 DEF RestoreSend
    <3> QED BY <3>1, <3>2, <3>3
            DEF Accounted, InChannels, Spooled, InFiles, Restored
  <2>5. CASE RestoreEOF
    <3>1. UNCHANGED <<contextVars, bulkRequest, rest, rfile, lost>>
      BY <2>5 DEF RestoreEOF
    <3>2. Restored = {rfile} /\ Restored' = {rfile}
      BY <2>5 DEF RestoreEOF, Restored
    <3>3. /\ \A f \in Files : f # rfile => disk'[f] = disk[f]
          /\ disk'[rfile] = <<>>
      BY <2>5 DEF RestoreEOF, BackupTypeOK
    <3>4. Spooled' \subseteq Spooled
      BY <3>1, <3>2, <3>3, FileMembers DEF Spooled
    <3> QED BY <3>1, <3>3, <3>4, HeldFrames
  <2> QED BY <2>1, <2>2, <2>3, <2>4, <2>5 DEF BackupOnly, RestoreStep
<1> QED BY <1>1, <1>2, HeldFrames DEF Moves, Dropped, Held, InHands, workerVars

-----------------------------------------------------------------------------
(* Every step but a read moves lines and keeps the accounts.               *)
LEMMA OtherSteps ==
    ASSUME IInv, Accounted, [Next]_vars,
           \A l \in Line : ~WorkerOnly(TailRead(l))
    PROVE  Moves /\ (rpc' = "done" => disk'[rfile'] = <<>>)
<1>1. CASE UNCHANGED vars
  <2>1. UNCHANGED <<lines, parsedLines, backupLines, read, wline, pline,
                    actions, esDocs, refused, bulkRequest, disk, rpc, rfile,
                    rest, lost>>
    BY <1>1 DEF vars, contextVars, workerVars, primaryVars, backupVars
  <2> QED BY <2>1 DEF Accounted, Moves, Dropped, Held, InChannels, InHands,
                      InBulks, Spooled, InFiles, Restored
<1>2. ASSUME NEW w \in Workers, WorkerStep(w)
      PROVE  Moves /\ (rpc' = "done" => disk'[rfile'] = <<>>)
  <2>1. UNCHANGED <<rpc, disk, rfile>>
    BY <1>2 DEF WorkerStep, WorkerOnly, backupVars
  <2> QED BY <1>2, <2>1, WorkerMoves DEF Accounted
<1>3. ASSUME NEW p \in Primaries, PrimaryStep(p)
      PROVE  Moves /\ (rpc' = "done" => disk'[rfile'] = <<>>)
  <2>1. UNCHANGED <<rpc, disk, rfile>>
    BY <1>3 DEF PrimaryStep, PrimaryOnly, backupVars
  <2> QED BY <1>3, <2>1, PrimaryMoves DEF Accounted
<1>4. ASSUME \/ PrimaryOnly(EsToggle) \/ BackupRate \/ RestoreStartByLogger
             \/ TickStep \/ BackupOnly(BackupIdle)
             \/ \E p \in Primaries : \/ PrimaryOnly(CoolDown(p))
                                     \/ ParsedRate(p)
                                     \/ RestoreStartByPrimary(p)
      PROVE  Moves /\ (rpc' = "done" => disk'[rfile'] = <<>>)
  BY <1>4, NotificationMoves DEF Accounted
<1> QED BY <1>1, <1>2, <1>3, <1>4, FlushMoves, BackupMoves DEF Next

(* A read adds a line that was never seen before.                          *)
LEMMA ReadAccepts ==
    ASSUME IInv, Accounted, NEW l \in Line, WorkerOnly(TailRead(l))
    PROVE  /\ l \notin Held \cup esDocs \cup Dropped
           /\ Held' = Held \cup {l} /\ read' = read \cup {l}
           /\ esDocs' = esDocs /\ Dropped' = Dropped
           /\ UNCHANGED <<disk, rpc, rfile>>
<1>1. TailRead(l) /\ UNCHANGED <<primaryVars, backupVars>>
  BY DEF WorkerOnly
<1>2. Range(lines') = Range(lines) \cup {l}
  BY <1>1, RangeAppend DEF TailRead, IInv, TypeOK, ContextTypeOK
<1>3. /\ UNCHANGED <<parsedLines, backupLines, wline>>
      /\ read' = read \cup {l} /\ l \notin read
  BY <1>1 DEF TailRead
<1>4. UNCHANGED <<disk, rpc, rfile>>
  BY <1>1 DEF backupVars
<1> QED BY <1>1, <1>2, <1>3, <1>4, HeldFrames
        DEF Accounted, Dropped, Held, InChannels, InHands

LEMMA StepAccounted == IInv /\ Accounted /\ [Next]_vars => Accounted'
<1> SUFFICES ASSUME IInv, Accounted, [Next]_vars PROVE Accounted'
  OBVIOUS
<1>1. CASE \E l \in Line : WorkerOnly(TailRead(l))
  BY <1>1, ReadAccepts DEF Accounted, MayDrop
<1>2. CASE \A l \in Line : ~WorkerOnly(TailRead(l))
  BY <1>2, OtherSteps DEF Accounted, Moves, MayDrop
<1> QED BY <1>1, <1>2

LEMMA StepKept == IInv /\ [Next]_vars => Kept \subseteq Kept'
<1> SUFFICES ASSUME IInv, [Next]_vars PROVE Kept \subseteq Kept'
  OBVIOUS
<1>1. CASE UNCHANGED vars
  BY <1>1, HeldFrames DEF vars, Kept, Held, InHands
<1> QED BY <1>1, TailKeeps, WorkerKeeps, PrimaryKeeps, NotificationKeeps,
           FlushKeeps, BackupKeeps DEF Next

(* A step that moves lines delivers, gives up, or is not seen.             *)
LEMMA MovesImplement ==
    ASSUME Accounted, Moves, Kept \subseteq Kept'
    PROVE  Promise!Next
<1> DEFINE Settled == Held \ Held'
           Indexed == esDocs' \ esDocs
           GivenUp == Dropped' \ Dropped
<1>1. /\ Settled \in SUBSET Held /\ Held' = Held \ Settled
      /\ Indexed \in SUBSET Held /\ esDocs' = esDocs \cup Indexed
      /\ GivenUp \in SUBSET Held /\ Dropped' = Dropped \cup GivenUp
      /\ Settled \subseteq esDocs' \cup Dropped'
  BY DEF Moves, Kept, Dropped
<1>2. CASE MayDrop
  <2>1. Promise!DropSome
    BY <1>1, <1>2 DEF Promise!DropSome, MayDrop, Dropped
  <2> QED BY <2>1 DEF Promise!Next
<1>3. CASE ~MayDrop
  <2>1. Dropped' = Dropped /\ Dropped = {}
    BY <1>3 DEF Moves, Accounted
  <2>2. Promise!Deliver
    BY <1>1, <2>1 DEF Promise!Deliver, Dropped
  <2> QED BY <2>2 DEF Promise!Next
<1> QED BY <1>2, <1>3

LEMMA InitAccounted == Init => Promise!Init /\ Accounted
<1> SUFFICES ASSUME Init PROVE Promise!Init /\ Accounted
  OBVIOUS
<1>1. Range(<<>>) = {}
  BY DEF Range
<1>2. Spooled = {}
  BY <1>1, FileMembers DEF Init, BackupInit, Spooled
<1>3. InChannels = {} /\ InBulks = {}
  BY <1>1 DEF Init, ContextInit, PrimaryInit, InChannels, InBulks
<1>4. InHands = {}
  BY DEF Init, WorkerInit, PrimaryInit, InHands, Range
<1>5. Held = {}
  BY <1>1, <1>2, <1>3, <1>4 DEF Held, Init, BackupInit
<1>6. esDocs = {} /\ Dropped = {} /\ rpc # "done"
  BY DEF Init, PrimaryInit, BackupInit, Dropped
<1> QED BY <1>5, <1>6 DEF Promise!Init, Accounted, Dropped

(* The program keeps the promise of Delivery, for every configuration and  *)
(* whatever fails (ulog2queue.go, primary.go, es.go, backup.go, disk.go):  *)
(* a line is accepted once, pending until it has a fate, given up only if  *)
(* the disk or an item can fail, and it never comes back once settled.     *)
THEOREM ImplementsDelivery == Spec => KeepsPromise
<1>1. IInv /\ Accounted /\ [Next]_vars => [Promise!Next]_(Promise!vars)
  <2> SUFFICES ASSUME IInv, Accounted, [Next]_vars PROVE Promise!Next
    OBVIOUS
  <2>1. CASE \E l \in Line : WorkerOnly(TailRead(l))
    <3>1. PICK l \in Line : WorkerOnly(TailRead(l))
      BY <2>1
    <3>2. Promise!Accept(l)
      BY <3>1, ReadAccepts DEF Promise!Accept, Dropped
    <3> QED BY <3>2 DEF Promise!Next
  <2>2. CASE \A l \in Line : ~WorkerOnly(TailRead(l))
    BY <2>2, OtherSteps, StepKept, MovesImplement
  <2> QED BY <2>1, <2>2
<1> QED BY <1>1, InitAccounted, StepAccounted, Inductive, PTL
        DEF Spec, KeepsPromise, Promise!Spec

-----------------------------------------------------------------------------
(***************************************************************************)
(* No line is ever in two places, as long as no flush to the disk fails: a *)
(* Flush that fails leaves a first part of its lines in the file and keeps *)
(* all of them.                                                            *)
(***************************************************************************)
(* The places of this variant, and what they hold.                         *)
LEMMA BackupPlaces ==
    /\ {BulkRequest, Rest} \subseteq Places
    /\ \A f \in Files : <<"file", f>> \in Places
    /\ SharedPlaces \subseteq Places
    /\ {BulkRequest, Rest} \cap SharedPlaces = {}
    /\ \A f \in Files :
          /\ <<"file", f>> \notin SharedPlaces \cup {BulkRequest, Rest}
          /\ <<"file", f>>[1] # "bulk"
    /\ \A f, g \in Files : <<"file", f>> = <<"file", g>> => f = g
    /\ BulkRequest # Rest /\ BulkRequest[1] # "bulk" /\ Rest[1] # "bulk"
    /\ \A x \in SharedPlaces \cup {BulkRequest, Rest} : x[1] # "file"
BY DEF Places, SharedPlaces, BulkRequest, Rest, Lines, ParsedLines, BackupLines

LEMMA BackupKinds ==
    ASSUME NEW x \in Places, x \notin SharedPlaces
    PROVE  x \in {BulkRequest, Rest} \/ \E f \in Files : x = <<"file", f>>
BY DEF Places

(* What of a file counts: nothing while it is being restored.              *)
InFile(f) == IF f \in Restored THEN <<>> ELSE disk[f]

HoldsByPlace ==
    /\ Holds \in [Places -> Seq(Line)]
    /\ \A x \in SharedPlaces : Holds[x] = InPlace(x)
    /\ Holds[BulkRequest] = bulkRequest
    /\ Holds[Rest] = rest
    /\ \A f \in Files : Holds[<<"file", f>>] = InFile(f)

LEMMA HoldsTyped == TypeOK => HoldsByPlace
<1> SUFFICES ASSUME TypeOK PROVE HoldsByPlace
  OBVIOUS
<1>1. \A x \in SharedPlaces : InPlace(x) \in Seq(Line)
  <2> SUFFICES ASSUME NEW x \in SharedPlaces PROVE InPlace(x) \in Seq(Line)
    OBVIOUS
  <2>1. \A l \in Line \cup {NoLine} : Hand(l) \in Seq(Line)
    BY DEF Hand
  <2>2. CASE x \in {Lines, ParsedLines, BackupLines}
    BY <2>2, InPlaceByKind DEF ByKind, TypeOK, ContextTypeOK
  <2>3. CASE \E w \in Workers : x = <<"worker", w>>
    BY <2>1, <2>3, InPlaceByKind DEF ByKind, TypeOK, WorkerTypeOK
  <2>4. CASE \E p \in Primaries : x = <<"divert", p>>
    BY <2>1, <2>4, InPlaceByKind DEF ByKind, TypeOK, PrimaryTypeOK
  <2>5. CASE \E p \in Primaries : x = <<"bulk", p>>
    <3>1. PICK p \in Primaries : x = <<"bulk", p>>
      BY <2>5
    <3>2. InPlace(x) = actions[p]
      BY <3>1, InPlaceByKind DEF ByKind
    <3> QED BY <3>2 DEF TypeOK, PrimaryTypeOK
  <2> QED BY <2>2, <2>3, <2>4, <2>5, SharedKinds
<1>2. /\ \A x \in SharedPlaces : LinesIn(x) = InPlace(x)
      /\ LinesIn(BulkRequest) = bulkRequest
      /\ LinesIn(Rest) = rest
      /\ \A f \in Files : LinesIn(<<"file", f>>) = InFile(f)
  <2>1. \A x \in SharedPlaces : LinesIn(x) = InPlace(x)
    BY BackupPlaces DEF LinesIn
  <2>2. LinesIn(BulkRequest) = bulkRequest /\ LinesIn(Rest) = rest
    BY BackupPlaces DEF LinesIn
  <2>3. ASSUME NEW f \in Files PROVE LinesIn(<<"file", f>>) = InFile(f)
    <3>1. /\ <<"file", f>> \notin SharedPlaces
          /\ <<"file", f>> # BulkRequest /\ <<"file", f>> # Rest
          /\ <<"file", f>>[1] = "file" /\ <<"file", f>>[2] = f
      BY BackupPlaces
    <3> QED BY <3>1 DEF LinesIn, InFile
  <2> QED BY <2>1, <2>2, <2>3
<1>3. /\ bulkRequest \in Seq(Line) /\ rest \in Seq(Line)
      /\ \A f \in Files : InFile(f) \in Seq(Line)
  <2>1. <<>> \in Seq(Line)
    OBVIOUS
  <2> QED BY <2>1 DEF TypeOK, BackupTypeOK, InFile
<1>4. \A x \in Places : LinesIn(x) \in Seq(Line)
  BY <1>1, <1>2, <1>3, BackupKinds
<1> QED BY <1>2, <1>4, BackupPlaces DEF HoldsByPlace, Holds

LEMMA HoldsTypedNext == TypeOK' => HoldsByPlace'
BY HoldsTyped, PTL

-----------------------------------------------------------------------------
(* What a step other than a read does to the places: it passes lines on,   *)
(* or sends a bulk, or leaves them.                                        *)
Stays == UNCHANGED <<Holds, esDocs>>

Passes == Passed(Places, Holds, Holds') /\ esDocs' = esDocs

Sends == Sent(Places, Holds, Holds')

LEMMA AroundBackup ==
    ASSUME HoldsByPlace, HoldsByPlace', UNCHANGED backupVars
    PROVE  Around(Places, Holds, Holds')
<1>1. /\ UNCHANGED <<bulkRequest, rest>>
      /\ \A f \in Files : InFile(f)' = InFile(f)
  BY DEF backupVars, InFile, Restored
<1>2. ASSUME NEW x \in Places \ SharedPlaces PROVE Holds'[x] = Holds[x]
  BY <1>1, BackupKinds DEF HoldsByPlace
<1> QED BY <1>2, BackupPlaces DEF HoldsByPlace, Around

(* A step that leaves the workers and the primaries alone leaves what they *)
(* hold, and one that leaves the channels alone what is in them.           *)
LEMMA SharedStay ==
    ASSUME UNCHANGED <<wline, pline, actions>>,
           NEW x \in SharedPlaces,
           \/ x \notin {Lines, ParsedLines, BackupLines}
           \/ UNCHANGED <<lines, parsedLines, backupLines>>
    PROVE  InPlace(x)' = InPlace(x)
<1>1. CASE x \in {Lines, ParsedLines, BackupLines}
  BY <1>1, InPlaceByKind DEF ByKind
<1>2. CASE \E w \in Workers : x = <<"worker", w>>
  BY <1>2, InPlaceByKind DEF ByKind
<1>3. CASE \E p \in Primaries : x = <<"divert", p>> \/ x = <<"bulk", p>>
  BY <1>3, InPlaceByKind DEF ByKind
<1> QED BY <1>1, <1>2, <1>3, SharedKinds

LEMMA NothingMoves ==
    ASSUME HoldsByPlace, HoldsByPlace',
           UNCHANGED <<wline, pline, actions, lines, parsedLines, backupLines>>,
           UNCHANGED <<bulkRequest, rest>>,
           \A f \in Files : InFile(f)' = InFile(f)
    PROVE  Holds' = Holds
<1>1. ASSUME NEW x \in Places PROVE Holds'[x] = Holds[x]
  <2>1. CASE x \in SharedPlaces
    BY <2>1, SharedStay DEF HoldsByPlace
  <2>2. CASE x \notin SharedPlaces
    BY <2>2, BackupKinds DEF HoldsByPlace
  <2> QED BY <2>1, <2>2
<1> QED BY <1>1 DEF HoldsByPlace

LEMMA WorkerPassesOn ==
    ASSUME IInv, HoldsByPlace, HoldsByPlace', NEW w \in Workers, WorkerStep(w)
    PROVE  Passes \/ Stays
<1>1. /\ UNCHANGED <<primaryVars, backupVars>>
      /\ \/ WorkerTake(w) \/ WorkerSendPrimary(w)
         \/ WorkerSendBackup(w) \/ WorkerIdle(w)
  BY DEF WorkerStep, WorkerOnly
<1>2. Around(Places, Holds, Holds')
  BY <1>1, AroundBackup
<1>3. Passed(Places, Holds, Holds') \/ Holds' = Holds
  BY <1>1, <1>2, WorkerPasses DEF IInv, TypeOK, HoldsByPlace
<1> QED BY <1>1, <1>3 DEF Passes, Stays, primaryVars

LEMMA PrimaryPassesOn ==
    ASSUME IInv, HoldsByPlace, HoldsByPlace',
           NEW p \in Primaries, PrimaryStep(p)
    PROVE  Passes \/ Sends
<1>1. /\ UNCHANGED <<workerVars, backupVars>>
      /\ \/ PrimaryAdd(p) \/ PrimaryFlush(p) \/ PrimaryTakeDivert(p)
         \/ PrimaryDivert(p) \/ PrimaryIdle(p)
  BY DEF PrimaryStep, PrimaryOnly
<1>2. Around(Places, Holds, Holds')
  BY <1>1, AroundBackup
<1>3. \/ Passed(Places, Holds, Holds') /\ UNCHANGED <<esDocs, refused>>
      \/ Sent(Places, Holds, Holds')
  BY <1>1, <1>2, PrimaryPasses DEF IInv, TypeOK, HoldsByPlace
<1> QED BY <1>3 DEF Passes, Sends

(* The exchanges and the clocks, Elasticsearch, and the removal of a file  *)
(* that has been restored: nothing moves.                                  *)
LEMMA OthersStay ==
    ASSUME IInv, Accounted, HoldsByPlace, HoldsByPlace',
           \/ UNCHANGED vars
           \/ PrimaryOnly(EsToggle) \/ BackupRate \/ RestoreStartByLogger
           \/ TickStep \/ BackupOnly(BackupIdle)
           \/ BackupOnly(RestoreEOF) \/ BackupOnly(RestoreDone)
           \/ \E p \in Primaries : \/ PrimaryOnly(CoolDown(p))
                                   \/ ParsedRate(p)
                                   \/ RestoreStartByPrimary(p)
    PROVE  Stays
<1> USE DEF vars, contextVars, workerVars, primaryVars, backupVars, restorerVars
<1>1. /\ UNCHANGED <<lines, parsedLines, backupLines, wline, pline, actions>>
      /\ UNCHANGED <<bulkRequest, rest, esDocs>>
      /\ \/ UNCHANGED <<disk, rpc, rfile>>
         \/ RestoreEOF
         \/ RestoreDone
  <2>1. CASE UNCHANGED vars
    BY <2>1
  <2>2. CASE PrimaryOnly(EsToggle) \/ \E p \in Primaries : PrimaryOnly(CoolDown(p))
    BY <2>2 DEF PrimaryOnly, EsToggle, CoolDown
  <2>3. CASE BackupRate \/ RestoreStartByLogger \/ TickStep
    BY <2>3 DEF BackupRate, BackupWrite, RestoreStartByLogger,
                BackupRestoreStart, TickStep
  <2>4. CASE \/ BackupOnly(BackupIdle) \/ BackupOnly(RestoreEOF)
             \/ BackupOnly(RestoreDone)
    BY <2>4 DEF BackupOnly, BackupIdle, RestoreEOF, RestoreDone
  <2>5. ASSUME NEW p \in Primaries, ParsedRate(p) PROVE <1>1!:
    BY <2>5 DEF ParsedRate, PrimaryRated
  <2>6. ASSUME NEW p \in Primaries, RestoreStartByPrimary(p) PROVE <1>1!:
    BY <2>6 DEF RestoreStartByPrimary, PrimaryNotified, BackupRestoreStart
  <2> QED BY <2>1, <2>2, <2>3, <2>4, <2>5, <2>6
<1>2. ASSUME NEW f \in Files PROVE InFile(f)' = InFile(f)
  <2>1. CASE UNCHANGED <<disk, rpc, rfile>>
    BY <2>1 DEF InFile, Restored
  <2>2. CASE RestoreEOF
    BY <2>2 DEF RestoreEOF, InFile, Restored, IInv, TypeOK, BackupTypeOK
  <2>3. CASE RestoreDone
    BY <2>3 DEF RestoreDone, InFile, Restored, Accounted
  <2> QED BY <1>1, <2>1, <2>2, <2>3
<1> QED BY <1>1, <1>2, NothingMoves DEF Stays

(* All that a place holds goes to the end of another one.                  *)
LEMMA AllPassed ==
    ASSUME HoldsByPlace, HoldsByPlace', NEW a \in Places, NEW b \in Places,
           a # b, a[1] # "bulk", SameBut(Places, Holds, Holds', a, b),
           Holds'[a] = <<>>, Holds'[b] = Holds[b] \o Holds[a]
    PROVE  Passed(Places, Holds, Holds')
<1>1. Holds[a] \in Seq(Line)
  BY DEF HoldsByPlace
<1>2. Holds[a] = Holds[a] \o Holds'[a]
  BY <1>1, ConcatEmptySeq
<1> QED BY <1>1, <1>2 DEF Passed

(* A step of the backup leaves what the other goroutines hold, and what is *)
(* not in the places it is about.                                          *)
LEMMA BackupLeaves ==
    ASSUME HoldsByPlace, HoldsByPlace', UNCHANGED <<wline, pline, actions>>,
           NEW a \in Places, NEW b \in Places,
           lines' = lines,
           ParsedLines \in {a, b} \/ parsedLines' = parsedLines,
           BackupLines \in {a, b} \/ backupLines' = backupLines,
           BulkRequest \in {a, b} \/ bulkRequest' = bulkRequest,
           Rest \in {a, b} \/ rest' = rest,
           \A f \in Files : <<"file", f>> \in {a, b} \/ InFile(f)' = InFile(f)
    PROVE  SameBut(Places, Holds, Holds', a, b)
<1>1. ASSUME NEW x \in Places, x \notin {a, b} PROVE Holds'[x] = Holds[x]
  <2>1. CASE x \in {Lines, ParsedLines, BackupLines}
    BY <1>1, <2>1, Kinds, InPlaceByKind DEF HoldsByPlace, ByKind
  <2>2. CASE x \in SharedPlaces /\ x \notin {Lines, ParsedLines, BackupLines}
    BY <2>2, SharedStay DEF HoldsByPlace
  <2>3. CASE x \notin SharedPlaces
    <3>1. CASE x \in {BulkRequest, Rest}
      BY <1>1, <3>1 DEF HoldsByPlace
    <3>2. CASE \E f \in Files : x = <<"file", f>>
      <4>1. PICK f \in Files : x = <<"file", f>>
        BY <3>2
      <4> QED BY <1>1, <4>1 DEF HoldsByPlace
    <3> QED BY <2>3, <3>1, <3>2, BackupKinds
  <2> QED BY <2>1, <2>2, <2>3
<1> QED BY <1>1 DEF SameBut

(* What a flush writes goes to the end of the current file, which nobody   *)
(* is restoring; and the next one, where there is one, was empty.          *)
LEMMA FlushPassesOn ==
    ASSUME ~DiskFaults, IInv, HoldsByPlace, HoldsByPlace', FlushStep
    PROVE  Passes
<1>c. PICK c \in Files : c = backupcount
  BY DEF IInv, TypeOK, BackupTypeOK
<1> DEFINE F == <<"file", c>>
<1>1. /\ BackupFlushed
      /\ UNCHANGED <<wline, pline, actions, esDocs, rest>>
      /\ UNCHANGED <<lines, parsedLines, backupLines>>
  BY DEF FlushStep, BackupOnly, BackupFlushFails, BackupFlushed, contextVars,
         workerVars, primaryVars
<1>2. /\ AfterFlush(disk[backupcount] \o bulkRequest, <<>>, FALSE)
      /\ bpc = "flush"
  BY <1>1 DEF BackupFlushed
<1>3. /\ backupcount \in Files /\ backupcount \in Nat /\ rfile \in Nat
      /\ disk \in [Files -> Seq(Line)]
  BY DEF IInv, TypeOK, BackupTypeOK, Files
<1>4. /\ bulkRequest' = <<>>
      /\ InFile(c) = disk[c]
      /\ InFile(c)' = disk[c] \o bulkRequest
      /\ \A f \in Files : f # c => InFile(f)' = InFile(f)
  <2>1. CASE why = "restore"
    <3>1. /\ rpc = "none" /\ backupcount + 1 \in Files
      BY <1>2, <1>3, <2>1, BackupAssumption
         DEF IInv, RestorePrepared, SpoolShape, Files
    <3>2. /\ disk' = [disk EXCEPT ![backupcount] =
                                        disk[backupcount] \o bulkRequest,
                                  ![backupcount + 1] = <<>>]
          /\ bulkRequest' = <<>> /\ rpc' = "open"
      BY <1>2, <2>1 DEF AfterFlush
    <3>3. Restored = {} /\ Restored' = {}
      BY <3>1, <3>2 DEF Restored
    <3>4. disk[backupcount + 1] = <<>>
      BY <1>3, <3>1 DEF IInv, SpoolShape
    <3>5. /\ disk'[c] = disk[c] \o bulkRequest
          /\ \A f \in Files : f # c => disk'[f] = disk[f]
      <4>1. c + 1 \in Files /\ c + 1 # c /\ disk[c + 1] = <<>>
        BY <1>c, <1>3, <3>1, <3>4
      <4>2. disk' = [disk EXCEPT ![c] = disk[c] \o bulkRequest,
                                 ![c + 1] = <<>>]
        BY <1>c, <3>2
      <4>3. disk'[c] = disk[c] \o bulkRequest
        BY <1>c, <1>3, <4>1, <4>2
      <4>4. ASSUME NEW f \in Files, f # c PROVE disk'[f] = disk[f]
        BY <1>c, <1>3, <4>1, <4>2, <4>4
      <4> QED BY <4>3, <4>4
    <3> QED BY <1>c, <1>3, <3>2, <3>3, <3>5 DEF InFile
  <2>2. CASE why # "restore"
    <3>1. /\ disk' = [disk EXCEPT ![backupcount] =
                                        disk[backupcount] \o bulkRequest]
          /\ bulkRequest' = <<>> /\ UNCHANGED <<rpc, rfile>>
      BY <1>2, <2>2 DEF AfterFlush
    <3>2. Restored' = Restored /\ backupcount \notin Restored
      BY <1>3, <3>1 DEF Restored, IInv, SpoolShape
    <3>3. /\ disk'[c] = disk[c] \o bulkRequest
          /\ \A f \in Files : f # c => disk'[f] = disk[f]
      BY <1>c, <1>3, <3>1
    <3> QED BY <1>c, <3>1, <3>2, <3>3 DEF InFile
  <2> QED BY <2>1, <2>2
<1>5. F \in Places /\ BulkRequest \in Places /\ F # BulkRequest
  BY <1>3, BackupPlaces
<1>6. SameBut(Places, Holds, Holds', BulkRequest, F)
  BY <1>1, <1>4, <1>5, BackupLeaves
<1>7. Holds'[BulkRequest] = <<>> /\ Holds'[F] = Holds[F] \o Holds[BulkRequest]
  BY <1>3, <1>4 DEF HoldsByPlace
<1> HIDE DEF F
<1>8. Passed(Places, Holds, Holds')
  BY <1>5, <1>6, <1>7, AllPassed, BackupPlaces
<1> QED BY <1>1, <1>8 DEF Passes


LEMMA RestorePassesOn ==
    ASSUME IInv, HoldsByPlace, HoldsByPlace', BackupOnly(RestoreOpen)
    PROVE  Passes \/ Stays
<1>c. PICK c \in Files : c = rfile
  BY DEF IInv, TypeOK, BackupTypeOK
<1> DEFINE F == <<"file", c>>
<1>1. /\ UNCHANGED <<lines, parsedLines, backupLines, wline, pline, actions>>
      /\ UNCHANGED <<bulkRequest, disk, rfile, esDocs>>
      /\ rpc = "open" /\ rest = <<>>
      /\ \/ rpc' = "read" /\ rest' = disk[c]
         \/ rpc' = "none" /\ rest' = rest
  BY <1>c DEF BackupOnly, RestoreOpen, contextVars, workerVars, primaryVars,
              IInv, SpoolShape
<1>2. CASE rpc' = "read" /\ rest' = disk[c]
  <2>1. Restored = {} /\ Restored' = {c}
    BY <1>c, <1>1, <1>2 DEF Restored
  <2>2. /\ InFile(c) = disk[c] /\ InFile(c)' = <<>>
        /\ \A f \in Files : f # c => InFile(f)' = InFile(f)
    BY <1>1, <2>1 DEF InFile
  <2>3. F \in Places /\ Rest \in Places /\ F # Rest /\ F[1] # "bulk"
    BY <1>c, BackupPlaces
  <2>4. SameBut(Places, Holds, Holds', F, Rest)
    BY <1>1, <2>2, <2>3, BackupLeaves
  <2>5. /\ Holds'[F] = <<>> /\ Holds[F] = disk[c]
        /\ Holds[Rest] = <<>> /\ Holds'[Rest] = disk[c]
        /\ disk[c] \in Seq(Line)
    BY <1>c, <1>1, <1>2, <2>2 DEF HoldsByPlace, IInv, TypeOK, BackupTypeOK
  <2>6. Holds'[Rest] = Holds[Rest] \o Holds[F]
    BY <2>5, ConcatEmptySeq
  <2> HIDE DEF F
  <2>7. Passed(Places, Holds, Holds')
    BY <2>3, <2>4, <2>5, <2>6, AllPassed
  <2> QED BY <1>1, <2>7 DEF Passes
<1>3. CASE rpc' = "none" /\ rest' = rest
  <2>1. Restored = {} /\ Restored' = {}
    BY <1>1, <1>3 DEF Restored
  <2>2. \A f \in Files : InFile(f)' = InFile(f)
    BY <1>1, <2>1 DEF InFile
  <2> QED BY <1>1, <1>3, <2>2, NothingMoves DEF Stays
<1> QED BY <1>1, <1>2, <1>3

(* The backup takes a line in; Restore sends one on.                       *)
LEMMA BackupPassesOn ==
    ASSUME IInv, HoldsByPlace, HoldsByPlace',
           BackupOnly(BackupReceive) \/ BackupOnly(RestoreSend)
    PROVE  Passes
<1>1. /\ UNCHANGED <<wline, pline, actions, esDocs, lines, disk, rpc, rfile>>
      /\ \A f \in Files : InFile(f)' = InFile(f)
  BY DEF BackupOnly, BackupReceive, RestoreSend, workerVars, primaryVars,
         restorerVars, InFile, Restored
<1>2. /\ {ParsedLines, BackupLines, BulkRequest, Rest} \subseteq Places
      /\ Holds[ParsedLines] = parsedLines /\ Holds'[ParsedLines] = parsedLines'
      /\ Holds[BackupLines] = backupLines /\ Holds'[BackupLines] = backupLines'
      /\ Holds[BulkRequest] = bulkRequest /\ Holds'[BulkRequest] = bulkRequest'
      /\ Holds[Rest] = rest /\ Holds'[Rest] = rest'
      /\ Holds \in [Places -> Seq(Line)] /\ Holds' \in [Places -> Seq(Line)]
  BY BackupPlaces, Kinds, InPlaceByKind DEF HoldsByPlace, ByKind
<1>3. /\ BackupLines # BulkRequest /\ Rest # ParsedLines
      /\ BackupLines[1] # "bulk" /\ Rest[1] # "bulk"
  BY BackupPlaces, Kinds
<1>4. CASE BackupOnly(BackupReceive)
  <2>1. /\ backupLines # <<>> /\ backupLines' = Tail(backupLines)
        /\ bulkRequest' = Append(bulkRequest, Head(backupLines))
        /\ UNCHANGED <<parsedLines, rest>>
    BY <1>4 DEF BackupOnly, BackupReceive, restorerVars
  <2>2. SameBut(Places, Holds, Holds', BackupLines, BulkRequest)
    BY <1>1, <1>2, <2>1, BackupLeaves
  <2>3. Passed(Places, Holds, Holds')
    BY <1>2, <1>3, <2>1, <2>2, HeadPassed
  <2> QED BY <1>1, <2>3 DEF Passes
<1>5. CASE BackupOnly(RestoreSend)
  <2>1. /\ rest # <<>> /\ rest' = Tail(rest)
        /\ parsedLines' = Append(parsedLines, Head(rest))
        /\ UNCHANGED <<backupLines, bulkRequest>>
    BY <1>5 DEF BackupOnly, RestoreSend
  <2>2. SameBut(Places, Holds, Holds', Rest, ParsedLines)
    BY <1>1, <1>2, <2>1, BackupLeaves
  <2>3. Passed(Places, Holds, Holds')
    BY <1>2, <1>3, <2>1, <2>2, HeadPassed
  <2> QED BY <1>1, <2>3 DEF Passes
<1> QED BY <1>4, <1>5

-----------------------------------------------------------------------------
(* Every step but a read is one of these.                                  *)
LEMMA OtherStepsPass ==
    ASSUME ~DiskFaults, IInv, Accounted, HoldsByPlace, HoldsByPlace',
           [Next]_vars, \A l \in Line : ~WorkerOnly(TailRead(l))
    PROVE  /\ Passes \/ Stays \/ Sends
           /\ read' = read
<1>1. Passes \/ Stays \/ Sends
  <2>1. ASSUME RestoreStep PROVE Passes \/ Stays
    <3>1. \/ BackupOnly(RestoreOpen) \/ BackupOnly(RestoreSend)
          \/ BackupOnly(RestoreEOF)
      BY <2>1 DEF RestoreStep, BackupOnly
    <3> QED BY <3>1, RestorePassesOn, BackupPassesOn, OthersStay
  <2> QED BY <2>1, WorkerPassesOn, PrimaryPassesOn, OthersStay, FlushPassesOn,
             BackupPassesOn DEF Next
<1>2. read' = read
  <2>1. ASSUME NEW w \in Workers, WorkerStep(w) PROVE read' = read
    BY <2>1 DEF WorkerStep, WorkerOnly, WorkerTake, WorkerSendPrimary,
                WorkerSendBackup, WorkerIdle, workerVars
  <2>2. UNCHANGED workerVars => read' = read
    BY DEF workerVars
  <2>3. UNCHANGED vars => read' = read
    BY DEF vars, workerVars
  <2>4. ASSUME NEW p \in Primaries,
               \/ PrimaryStep(p) \/ PrimaryOnly(CoolDown(p)) \/ ParsedRate(p)
               \/ RestoreStartByPrimary(p)
        PROVE  UNCHANGED workerVars
    BY <2>4 DEF PrimaryStep, PrimaryOnly, ParsedRate, RestoreStartByPrimary
  <2>5. ASSUME \/ PrimaryOnly(EsToggle) \/ BackupOnly(BackupReceive)
               \/ BackupOnly(BackupIdle) \/ FlushStep \/ RestoreStep
               \/ BackupOnly(RestoreDone) \/ TickStep
               \/ BackupRate \/ RestoreStartByLogger
        PROVE  UNCHANGED workerVars
    BY <2>5 DEF PrimaryOnly, BackupOnly, FlushStep, RestoreStep, TickStep,
                BackupRate, RestoreStartByLogger
  <2> QED BY <2>1, <2>2, <2>3, <2>4, <2>5 DEF Next
<1> QED BY <1>1, <1>2

(* Every line is in one place, what is indexed is at most in a bulk, and   *)
(* all of them have been read.                                             *)
OnceInv == Once(Holds, esDocs, read)

LEMMA InitOnce == Init => OnceInv
<1> SUFFICES ASSUME Init PROVE OnceInv
  OBVIOUS
<1>1. HoldsByPlace
  BY InitIInv, HoldsTyped DEF IInv
<1>2. ASSUME NEW x \in Places PROVE Holds[x] = <<>>
  <2>1. CASE x \in {Lines, ParsedLines, BackupLines}
    BY <1>1, <2>1, Kinds, InPlaceByKind
       DEF HoldsByPlace, ByKind, Init, ContextInit
  <2>2. CASE \E w \in Workers : x = <<"worker", w>>
    <3>1. PICK w \in Workers : x = <<"worker", w>>
      BY <2>2
    <3>2. Holds[x] = Hand(wline[w]) /\ wline[w] = NoLine
      BY <1>1, <3>1, Kinds, InPlaceByKind
         DEF HoldsByPlace, ByKind, Init, WorkerInit
    <3> QED BY <3>2, HandOf
  <2>3. CASE \E p \in Primaries : x = <<"divert", p>>
    <3>1. PICK p \in Primaries : x = <<"divert", p>>
      BY <2>3
    <3>2. Holds[x] = Hand(pline[p]) /\ pline[p] = NoLine
      BY <1>1, <3>1, Kinds, InPlaceByKind
         DEF HoldsByPlace, ByKind, Init, PrimaryInit
    <3> QED BY <3>2, HandOf
  <2>4. CASE \E p \in Primaries : x = <<"bulk", p>>
    <3>1. PICK p \in Primaries : x = <<"bulk", p>>
      BY <2>4
    <3> QED BY <1>1, <3>1, Kinds, InPlaceByKind
            DEF HoldsByPlace, ByKind, Init, PrimaryInit
  <2>5. CASE x \in {BulkRequest, Rest}
    BY <1>1, <2>5 DEF HoldsByPlace, Init, BackupInit
  <2>6. CASE \E f \in Files : x = <<"file", f>>
    <3>1. PICK f \in Files : x = <<"file", f>>
      BY <2>6
    <3> QED BY <1>1, <3>1 DEF HoldsByPlace, InFile, Init, BackupInit
  <2> QED BY <2>1, <2>2, <2>3, <2>4, <2>5, <2>6, SharedKinds, BackupKinds
<1>3. Range(<<>>) = {} /\ Len(<<>>) = 0
  BY DEF Range
<1>4. ApartAt(Places, Holds)
  <2>1. \A x \in Places : 1..Len(Holds[x]) = {}
    BY <1>2, <1>3
  <2> QED BY <2>1 DEF ApartAt
<1>5. Apart(Holds) /\ DocsOnlyInBulks(Holds, esDocs)
  BY <1>1, <1>2, <1>3, <1>4, ApartPositions, DocsPlaces DEF HoldsByPlace
<1>6. Contents(Holds) = {}
  <2>1. \A l : l \notin Contents(Holds)
    BY <1>1, <1>2, <1>3, ContentsMembers DEF HoldsByPlace
  <2> QED BY <2>1
<1> QED BY <1>5, <1>6 DEF OnceInv, Once, Init, PrimaryInit

LEMMA StepOnce ==
    ASSUME ~DiskFaults
    PROVE  IInv /\ Accounted /\ OnceInv /\ [Next]_vars => OnceInv'
<1> SUFFICES ASSUME IInv, Accounted, OnceInv, [Next]_vars PROVE OnceInv'
  OBVIOUS
<1>1. HoldsByPlace /\ HoldsByPlace'
  BY StepIInv, HoldsTyped, HoldsTypedNext DEF IInv
<1>2. CASE \E l \in Line : WorkerOnly(TailRead(l))
  <2>1. PICK l \in Line : WorkerOnly(TailRead(l))
    BY <1>2
  <2>2. TailRead(l) /\ UNCHANGED <<primaryVars, backupVars>>
    BY <2>1 DEF WorkerOnly
  <2>3. Read(Places, Holds, Holds', l)
    BY <1>1, <2>2, AroundBackup, TailReads DEF HoldsByPlace
  <2>4. l \notin read /\ read' = read \cup {l} /\ esDocs' = esDocs
    BY <2>2 DEF TailRead, primaryVars
  <2>5. Once(Holds', esDocs, read \cup {l})
    BY <1>1, <2>3, <2>4, ReadOnce DEF OnceInv, HoldsByPlace
  <2> QED BY <2>4, <2>5 DEF OnceInv
<1>3. CASE \A l \in Line : ~WorkerOnly(TailRead(l))
  <2>1. /\ Passes \/ Stays \/ Sends
        /\ read' = read
    BY <1>1, <1>3, OtherStepsPass
  <2>2. CASE Passes
    <3>1. Once(Holds', esDocs, read)
      BY <1>1, <2>2, PassedOnce DEF Passes, OnceInv, HoldsByPlace
    <3> QED BY <2>1, <2>2, <3>1 DEF Passes, OnceInv
  <2>3. CASE Stays
    BY <2>1, <2>3 DEF Stays, OnceInv
  <2>4. CASE Sends
    <3>1. Once(Holds', esDocs', read)
      BY <1>1, <2>4, SentOnce DEF Sends, OnceInv, HoldsByPlace
    <3> QED BY <2>1, <3>1 DEF OnceInv
  <2> QED BY <2>1, <2>2, <2>3, <2>4
<1> QED BY <1>2, <1>3

(* No line is ever in two places of the program, nor twice in one, through *)
(* any number of outages, spools and restores, and what is indexed is at   *)
(* most in the bulk that was sent: no line gets a second document, however *)
(* many workers, primaries and files there are, as long as no flush to the *)
(* disk fails (primary.go, backup.go, disk.go).                            *)
THEOREM InOnePlace == ASSUME ~DiskFaults PROVE Spec => []OneCopy
<1>1. OnceInv => OneCopy
  BY DEF OnceInv, Once, OneCopy
<1> QED BY <1>1, InitOnce, StepOnce, InitAccounted, StepAccounted, Inductive,
           PTL DEF Spec
=============================================================================
