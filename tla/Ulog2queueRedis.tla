--------------------------- MODULE Ulog2queueRedis ---------------------------
(***************************************************************************)
(* The program ulog2queue with the backup in redis: the goroutines of      *)
(* ParseWorker, Primary, RedisBackup and RateLogger.  When redis refuses a *)
(* Flush the process ends, with all that its goroutines hold, and systemd  *)
(* starts it again; the tailed file is a named pipe, so that what was read *)
(* is gone from it, but the queue in redis is still there.                 *)
(***************************************************************************)
EXTENDS Places, RedisBackup, RateLogger

VARIABLE lost  \* history: lines that went with a process or with an answer

vars == <<contextVars, workerVars, primaryVars, backupVars, loggerVars, lost>>

Init ==
    /\ ContextInit
    /\ WorkerInit
    /\ PrimaryInit
    /\ BackupInit
    /\ LoggerInit
    /\ lost = {}

(* The variables keep to their types.                                      *)
TypeOK ==
    /\ ContextTypeOK
    /\ WorkerTypeOK
    /\ PrimaryTypeOK
    /\ BackupTypeOK
    /\ LoggerTypeOK
    /\ lost \subseteq Line

-----------------------------------------------------------------------------
(* Where a line can be: with a goroutine, the backup, Restore or redis.    *)
BulkRequest == <<"backup", "bulkRequest">>
Rline == <<"backup", "rline">>
Queue == <<"redis", "queue">>

Places == SharedPlaces \cup {BulkRequest, Rline, Queue}

LinesIn(x) ==
    CASE x \in SharedPlaces -> InPlace(x)
      [] x = BulkRequest -> bulkRequest
      [] x = Rline -> Hand(rline)
      [] x = Queue -> queue

Holds == [x \in Places |-> LinesIn(x)]

Held == Contents(Holds)

(* A step that only one goroutine of the running program takes.            *)
WorkerOnly(A) ==
    bpc # "down" /\ A /\ UNCHANGED <<primaryVars, backupVars, loggerVars, lost>>
PrimaryOnly(A) ==
    bpc # "down" /\ A /\ UNCHANGED <<workerVars, backupVars, loggerVars, lost>>
BackupOnly(A) ==
    A /\ UNCHANGED <<workerVars, primaryVars, loggerVars, lost>>

WorkerStep(w) ==
    WorkerOnly(\/ WorkerTake(w)
               \/ WorkerSendPrimary(w)
               \/ WorkerSendBackup(w)
               \/ WorkerIdle(w))

PrimaryStep(p) ==
    PrimaryOnly(\/ PrimaryAdd(p)
                \/ PrimaryFlush(p)
                \/ PrimaryTakeDivert(p)
                \/ PrimaryDivert(p)
                \/ PrimaryIdle(p))

RestoreStep ==
    BackupOnly(RestorePop \/ RestoreEmpty \/ RestoreHold \/ RestoreSend)

(* The line whose RPOP got no answer is held by nobody.                    *)
PopFails ==
    /\ RestorePopFails
    /\ lost' = lost \cup (Range(queue) \ Range(queue'))
    /\ UNCHANGED <<workerVars, primaryVars, loggerVars>>

TickStep ==
    /\ bpc # "down"
    /\ LoggerTick
    /\ UNCHANGED <<contextVars, workerVars, primaryVars, backupVars, lost>>

(* The exchanges on the unbuffered channels.                               *)
ParsedRate(p) ==
    /\ bpc # "down"
    /\ PrimaryRated(p)
    /\ LoggerParsedRate
    /\ UNCHANGED <<contextVars, workerVars, backupVars, lost>>

BackupRate ==
    /\ BackupWrite
    /\ LoggerBackupRate
    /\ UNCHANGED <<contextVars, workerVars, primaryVars, lost>>

RestoreStartByPrimary(p) ==
    /\ PrimaryNotified(p)
    /\ BackupRestoreStart
    /\ UNCHANGED <<contextVars, workerVars, loggerVars, lost>>

RestoreStartByLogger ==
    /\ LoggerNotified
    /\ BackupRestoreStart
    /\ UNCHANGED <<contextVars, workerVars, primaryVars, lost>>

(* The end of a successful Flush.                                          *)
FlushStep == BackupOnly(BackupFlushed /\ UNCHANGED contextVars)

(* The end of the process: what is neither in redis nor indexed is lost.   *)
Fatal ==
    /\ BackupFatal
    /\ lost' = lost \cup (Held \ (Range(queue') \cup esDocs))
    /\ lines' = <<>>
    /\ parsedLines' = <<>>
    /\ backupLines' = <<>>
    /\ buffering' = FALSE
    /\ wpc' = [w \in Workers |-> "select"]
    /\ wline' = [w \in Workers |-> NoLine]
    /\ ppc' = [p \in Primaries |-> "select"]
    /\ working' = [p \in Primaries |-> TRUE]
    /\ failed' = [p \in Primaries |-> FALSE]
    /\ cooling' = [p \in Primaries |-> FALSE]
    /\ actions' = [p \in Primaries |-> <<>>]
    /\ pline' = [p \in Primaries |-> NoLine]
    /\ lpc' = "select"
    /\ backupRatecount' = 0
    /\ backupRateInt' = 0
    /\ UNCHANGED <<read, esUp, esDocs, refused>>

(* NewESBackend must find a node, or the process ends again.               *)
Restart ==
    /\ esUp
    /\ BackupOnly(BackupRestart /\ UNCHANGED contextVars)

Next ==
    \/ \E l \in Line : WorkerOnly(TailRead(l))
    \/ \E w \in Workers : WorkerStep(w)
    \/ \E p \in Primaries :
          \/ PrimaryStep(p)
          \/ PrimaryOnly(CoolDown(p))
          \/ ParsedRate(p)
          \/ RestoreStartByPrimary(p)
    \/ EsToggle /\ UNCHANGED <<workerVars, backupVars, loggerVars, lost>>
    \/ BackupOnly(RedisToggle)
    \/ BackupOnly(BackupReceive)
    \/ BackupOnly(BackupIdle)
    \/ FlushStep
    \/ RestoreStep
    \/ PopFails
    \/ BackupOnly(RestoreDone)
    \/ TickStep
    \/ BackupRate
    \/ RestoreStartByLogger
    \/ Fatal
    \/ Restart

Spec == Init /\ [][Next]_vars

-----------------------------------------------------------------------------
(* A line is in one place only, also when a transaction was executed whose *)
(* answer was lost, or a Restore and a Flush worked on the queue at the    *)
(* same time; what is indexed is at most in the bulk that was sent         *)
(* (redis.go, backup.go, primary.go).                                      *)
OneCopy == Apart(Holds) /\ DocsOnlyInBulks(Holds, esDocs)

(* `restoring` is set exactly while a restore is being prepared or is      *)
(* running (backup.go): no second Restore takes lines from the queue, and  *)
(* an error of redis does not leave the flag behind, as one of os.Open     *)
(* does with the disk.                                                     *)
RestoringIsTrue ==
    restoring <=> rpc # "none" \/ (bpc = "flush" /\ why = "restore")

(* The program keeps the promise of Delivery: lines are given up only when *)
(* redis fails, and what was given up or indexed never comes back.         *)
Promise == INSTANCE Delivery WITH
    MayDrop <- RedisMayFail \/ Refusable # {},
    pending <- Held,
    delivered <- esDocs,
    dropped <- refused \cup lost

KeepsPromise == Promise!Spec
=============================================================================
