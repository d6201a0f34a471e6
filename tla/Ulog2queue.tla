----------------------------- MODULE Ulog2queue ------------------------------
(***************************************************************************)
(* The program ulog2queue: the goroutines of ParseWorker, Primary,         *)
(* DiskBackup and RateLogger over the channels of Context.  A step of the  *)
(* program is a step of one goroutine, or an exchange on an unbuffered     *)
(* channel, which both parties make at once.                               *)
(***************************************************************************)
EXTENDS Places, DiskBackup, RateLogger

vars == <<contextVars, workerVars, primaryVars, backupVars, loggerVars>>

Init ==
    /\ ContextInit
    /\ WorkerInit
    /\ PrimaryInit
    /\ BackupInit
    /\ LoggerInit

(* The variables keep to their types.                                      *)
TypeOK ==
    /\ ContextTypeOK
    /\ WorkerTypeOK
    /\ PrimaryTypeOK
    /\ BackupTypeOK
    /\ LoggerTypeOK

-----------------------------------------------------------------------------
(* Exchanges on the unbuffered channels.                                   *)
ParsedRate(p) ==
    /\ PrimaryRated(p)
    /\ LoggerParsedRate
    /\ UNCHANGED <<contextVars, workerVars, backupVars>>

BackupRate ==
    /\ BackupWrite
    /\ LoggerBackupRate
    /\ UNCHANGED <<contextVars, workerVars, primaryVars>>

RestoreStartByPrimary(p) ==
    /\ PrimaryNotified(p)
    /\ BackupRestoreStart
    /\ UNCHANGED <<contextVars, workerVars, loggerVars>>

RestoreStartByLogger ==
    /\ LoggerNotified
    /\ BackupRestoreStart
    /\ UNCHANGED <<contextVars, workerVars, primaryVars>>

-----------------------------------------------------------------------------
(* A step that only one goroutine takes leaves the others as they are.     *)
WorkerOnly(A) == A /\ UNCHANGED <<primaryVars, backupVars, loggerVars>>
PrimaryOnly(A) == A /\ UNCHANGED <<workerVars, backupVars, loggerVars>>
BackupOnly(A) == A /\ UNCHANGED <<workerVars, primaryVars, loggerVars>>

WorkerStep(w) ==
    WorkerOnly(\/ WorkerTake(w)
               \/ WorkerSendPrimary(w)
               \/ WorkerSendBackup(w)
               \/ WorkerIdle(w))

PrimaryStep(p) ==
    PrimaryOnly(\/ PrimaryAdd(p)
                \/ PrimaryFlush(p)
                \/ PrimaryTakeDivert(p)
                \/ PrimaryDivert(p)
                \/ PrimaryIdle(p))

FlushStep == BackupOnly(BackupFlushed \/ BackupFlushFails)

RestoreStep == BackupOnly(RestoreOpen \/ RestoreSend \/ RestoreEOF)

TickStep ==
    /\ LoggerTick
    /\ UNCHANGED <<contextVars, workerVars, primaryVars, backupVars>>

Next ==
    \/ \E l \in Line : WorkerOnly(TailRead(l))
    \/ \E w \in Workers : WorkerStep(w)
    \/ \E p \in Primaries :
          \/ PrimaryStep(p)
          \/ PrimaryOnly(CoolDown(p))
          \/ ParsedRate(p)
          \/ RestoreStartByPrimary(p)
    \/ PrimaryOnly(EsToggle)
    \/ BackupOnly(BackupReceive)
    \/ BackupOnly(BackupIdle)
    \/ FlushStep
    \/ RestoreStep
    \/ BackupOnly(RestoreDone)
    \/ TickStep
    \/ BackupRate
    \/ RestoreStartByLogger

Spec == Init /\ [][Next]_vars

(* Every goroutine runs, and a goroutine that waits for a channel, or for  *)
(* one of the ready cases of a select, is served in the end: Go queues     *)
(* blocked senders and receivers in order and picks a ready case at        *)
(* random, hence strong fairness.  The ticker keeps its tick until it is   *)
(* taken.  Nothing is assumed of BackupIdle: its ten second timer starts   *)
(* again at every event, so it may never expire.  The tailed file and      *)
(* Elasticsearch owe nothing either.                                       *)
Fairness ==
    /\ \A w \in Workers : SF_vars(WorkerStep(w))
    /\ \A p \in Primaries :
          /\ SF_vars(PrimaryStep(p))
          /\ WF_vars(PrimaryOnly(CoolDown(p)))
          /\ SF_vars(ParsedRate(p))
          /\ SF_vars(RestoreStartByPrimary(p))
    /\ SF_vars(BackupOnly(BackupReceive))
    /\ WF_vars(FlushStep)
    /\ SF_vars(RestoreStep)
    /\ SF_vars(BackupOnly(RestoreDone))
    /\ SF_vars(TickStep)
    /\ SF_vars(BackupRate)
    /\ SF_vars(RestoreStartByLogger)

FairSpec == Spec /\ Fairness

-----------------------------------------------------------------------------
(* Where the program holds a line it has read.  A file that is being       *)
(* restored counts only as far as Restore has not yet sent it on.          *)
Restored == IF rpc \in {"read", "done"} THEN {rfile} ELSE {}

InFiles == UNION {Range(disk[f]) : f \in Files \ Restored}

Spooled == InFiles \cup Range(rest)

InChannels == Range(lines) \cup Range(parsedLines) \cup Range(backupLines)

InHands == (Range(wline) \cup Range(pline)) \ {NoLine}

InBulks == UNION {Range(actions[p]) : p \in Primaries}

Held == InChannels \cup InHands \cup InBulks \cup Range(bulkRequest)
        \cup Spooled

(* No line vanishes: whatever goroutine had it last, a line that was read  *)
(* from the file is still held somewhere, or Elasticsearch has it, or it   *)
(* was dropped where the code is known to drop lines: an item refused in a *)
(* bulk that succeeded (es.go Flush), or a backend replaced after its      *)
(* flush failed (backup.go).                                               *)
NothingVanishes == read \subseteq Held \cup esDocs \cup refused \cup lost

(* The same by place: those of the goroutines, the memory of the backup    *)
(* and of Restore, and the files.                                          *)
BulkRequest == <<"backup", "bulkRequest">>
Rest == <<"backup", "rest">>

Places == SharedPlaces \cup {BulkRequest, Rest} \cup ({"file"} \X Files)

LinesIn(x) ==
    CASE x \in SharedPlaces -> InPlace(x)
      [] x = BulkRequest -> bulkRequest
      [] x = Rest -> rest
      [] x[1] = "file" -> IF x[2] \in Restored THEN <<>> ELSE disk[x[2]]

Holds == [x \in Places |-> LinesIn(x)]

(* A line is never in two places, through any number of outages, spools    *)
(* and restores; and once Elasticsearch has its document, the line is at   *)
(* most in the bulk that put it there, where it keeps the same id: no line *)
(* gets a second document (primary.go, backup.go, disk.go).                *)
OneCopy == Apart(Holds) /\ DocsOnlyInBulks(Holds, esDocs)

(* `failed` says that a full bulk is waiting to be sent again, between any *)
(* two lines: the idle flush of primary.go leaves failed goroutines alone, *)
(* and a goroutine that works again must not sit on a partial bulk with    *)
(* the flag still set, for nothing would flush it.                         *)
FailedMeansFullBulk ==
    \A p \in Primaries :
        /\ ~working[p] => failed[p]
        /\ ppc[p] \in {"select", "divert", "idle"} =>
              (failed[p] <=> Len(actions[p]) >= Bulk)

(* `restoring` is set exactly while a restore is being prepared or is      *)
(* running, so that there is never a second Restore and never a restore    *)
(* that is refused for one that has ended (backup.go).  It needs files     *)
(* that can be opened: Restore returns without a word when os.Open fails.  *)
RestoringIsTrue ==
    restoring <=> rpc # "none" \/ (bpc = "flush" /\ why = "restore")

(* The file Restore reads and removes is never the one being written, and  *)
(* no other file holds anything: a line is not forgotten in a file that    *)
(* nobody will restore (backup.go, disk.go).                               *)
NoForgottenFile ==
    \A f \in Files : disk[f] # <<>> =>
        f = backupcount \/ (rpc # "none" /\ f = rfile /\ rfile < backupcount)

(* A line leaves the spool only for the channel of the primary: the file   *)
(* is removed when all of it has been sent, not before, and no new file is *)
(* created over one that still holds lines (disk.go).                      *)
SpoolDrainsToPrimary ==
    [][Spooled \ Spooled' \subseteq Range(parsedLines')]_vars

-----------------------------------------------------------------------------
(* The program implements the promise of Delivery: a line is pending while *)
(* any goroutine, channel or file holds it.                                *)
Promise == INSTANCE Delivery WITH
    MayDrop <- DiskFaults \/ Refusable # {},
    pending <- Held,
    delivered <- esDocs,
    dropped <- refused \cup lost

(* Lines are accepted once, given up only where drops are known, and once  *)
(* settled they never return to any goroutine, channel or file.            *)
KeepsPromise == Promise!Spec

-----------------------------------------------------------------------------
(* The logger waits for the backup to take its restoreStart while the      *)
(* backup waits for the logger to take a 1 from backupRate.                *)
CircularWait ==
    /\ lpc = "notify"
    /\ bpc = "flush"
    /\ written < Len(bulkRequest)

(* The runs of the program that the bound on the file number does not cut  *)
(* short, in which the logger and the backup never block each other.       *)
CutShort == backupcount = MaxFile /\ (disk[backupcount] # <<>> \/ diskErr)

Unhindered == []~(CircularWait \/ CutShort)

(* Where a line may rest for good while no new line comes: the memory of   *)
(* the backup, whose idle flush need not happen while the logger's ticks   *)
(* keep arriving, and the full bulk of a primary after a failed flush.     *)
Resting == Range(bulkRequest) \cup
           UNION {Range(actions[p]) : p \in {q \in Primaries : failed[q]}}

(* Every line that is read gets to Elasticsearch if that is up from some   *)
(* time on, be it straight or through any number of spools and restores,   *)
(* or it rests in one of those two places (primary.go, backup.go): nothing *)
(* circles for ever and no goroutine waits for ever with a line in hand.   *)
EveryLineArrives ==
    (Unhindered /\ <>[]esUp) =>
        <>[](read \subseteq esDocs \cup refused \cup Resting)

(* While a backup file holds lines a restore comes and gets to its end,    *)
(* Elasticsearch being up or not: a tick of the logger asks for it, or a   *)
(* primary that recovered or idles (ulog2queue.go, primary.go, backup.go). *)
SpoolIsRestored == Unhindered => (Spooled # {} ~> rpc = "done")

(* "using the disk as backup" (README.md:23): a flush to the disk ends.    *)
FlushEnds == bpc = "flush" ~> bpc = "select"

(* "Sends ulogd / netfilter json logs to elasticsearch" (README.md:3).     *)
EveryLineIndexed == \A l \in Line : l \in read ~> l \in esDocs
=============================================================================
