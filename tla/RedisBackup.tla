----------------------------- MODULE RedisBackup -----------------------------
(***************************************************************************)
(* The doBackupTask goroutine with the redis backend (backup.go, redis.go) *)
(* and the Restore goroutines it starts.  Unlike the files of the disk     *)
(* backend the queue in redis is one and the same for every backend: a     *)
(* Restore takes lines from one end while a Flush may put new ones at the  *)
(* other, and it outlives the process, which ends when a Flush fails.      *)
(***************************************************************************)
EXTENDS Context

CONSTANTS
    BackupBulk,    \* the local `bulk` of doBackupTask (1000)
    RedisMayFail,  \* whether redis can become unavailable
    MaxDeaths      \* bound: how often a failed EXEC ends the process

ASSUME RedisAssumption ==
    /\ {BackupBulk, MaxDeaths} \subseteq Nat
    /\ RedisMayFail \in BOOLEAN

VARIABLES
    bpc,          \* where doBackupTask is: "down", "select", "flush"
    why,          \* what asked for the flush: "line", "restore", "idle"
    bulkRequest,  \* lines added to the backend, not yet flushed
    written,      \* how many of them this Flush has reported
    i,            \* the local variables of doBackupTask
    restoring,
    rpc,          \* the Restore goroutine: "none", "pop", "hold", "send",
                  \* "done"
    rline,        \* the line it has taken from the queue
    queue,        \* the list in redis, the next line to restore first
    redisUp,      \* whether redis answers
    deaths        \* how often the process has died

taskVars == <<bpc, why, bulkRequest, written, i, restoring>>
restorerVars == <<rpc, rline>>
redisVars == <<queue, redisUp, deaths>>
backupVars == <<taskVars, restorerVars, redisVars>>

BackupInit ==
    /\ bpc = "select"
    /\ why = "line"
    /\ bulkRequest = <<>>
    /\ written = 0
    /\ i = 0
    /\ restoring = FALSE
    /\ rpc = "none"
    /\ rline = NoLine
    /\ queue = <<>>
    /\ redisUp = TRUE
    /\ deaths = 0

BackupTypeOK ==
    /\ bpc \in {"down", "select", "flush"}
    /\ why \in {"line", "restore", "idle"}
    /\ bulkRequest \in Seq(Line)
    /\ written \in 0..Len(bulkRequest)
    /\ i \in 0..(BackupBulk + 1)
    /\ restoring \in BOOLEAN
    /\ rpc \in {"none", "pop", "hold", "send", "done"}
    /\ rline \in Line \cup {NoLine}
    /\ queue \in Seq(Line)
    /\ redisUp \in BOOLEAN
    /\ deaths \in 0..MaxDeaths

-----------------------------------------------------------------------------
(* A line for the backup; every BackupBulk-th one starts a flush.          *)
BackupReceive ==
    /\ bpc = "select"
    /\ backupLines # <<>>
    /\ backupLines' = Tail(backupLines)
    /\ bulkRequest' = Append(bulkRequest, Head(backupLines))
    /\ IF i >= BackupBulk
       THEN bpc' = "flush" /\ why' = "line" /\ i' = 1
       ELSE i' = i + 1 /\ UNCHANGED <<bpc, why>>
    /\ UNCHANGED <<lines, parsedLines, buffering, written, restoring>>
    /\ UNCHANGED <<restorerVars, redisVars>>

(* Ten seconds without an event on any of the channels.                    *)
BackupIdle ==
    /\ bpc = "select"
    /\ backupLines = <<>>
    /\ bpc' = "flush"
    /\ why' = "idle"
    /\ UNCHANGED <<contextVars, bulkRequest, written, i, restoring>>
    /\ UNCHANGED <<restorerVars, redisVars>>

(* An id from ctx.restoreStart (the backup's half of the exchange): unless *)
(* a restore is under way or LLEN is 0, which it is when redis does not    *)
(* answer, flush and restore.                                              *)
BackupRestoreStart ==
    /\ bpc = "select"
    /\ IF ~restoring /\ redisUp /\ queue # <<>>
       THEN restoring' = TRUE /\ bpc' = "flush" /\ why' = "restore"
       ELSE UNCHANGED <<restoring, bpc, why>>
    /\ UNCHANGED <<bulkRequest, written, i, restorerVars, redisVars>>

(* Flush sends LPUSH for the next line, whose result nobody looks at, and  *)
(* hands a 1 to the rate logger (the backup's half of the exchange).       *)
BackupWrite ==
    /\ bpc = "flush"
    /\ written < Len(bulkRequest)
    /\ written' = written + 1
    /\ UNCHANGED <<bpc, why, bulkRequest, i, restoring>>
    /\ UNCHANGED <<restorerVars, redisVars>>

(* Mutant: the bulk is not emptied.                                        *)
BackupFlushedKeepsBulk ==
    /\ bpc = "flush"
    /\ written = Len(bulkRequest)
    /\ redisUp
    /\ queue' = queue \o bulkRequest
    /\ written' = 0
    /\ bpc' = "select"
    /\ rpc' = IF why = "restore" THEN "pop" ELSE rpc
    /\ UNCHANGED <<why, bulkRequest, i, restoring, rline, redisUp, deaths>>

(* EXEC succeeds: the lines are in the queue, at the end that is popped    *)
(* last.  In the restoreStart branch a Restore starts.                     *)
BackupFlushed ==
    /\ bpc = "flush"
    /\ written = Len(bulkRequest)
    /\ redisUp
    /\ queue' = queue \o bulkRequest
    /\ bulkRequest' = <<>>
    /\ written' = 0
    /\ bpc' = "select"
    /\ rpc' = IF why = "restore" THEN "pop" ELSE rpc
    /\ UNCHANGED <<why, i, restoring, rline, redisUp, deaths>>

(* EXEC returns an error and log.Fatal ends the process; the transaction   *)
(* may have been executed all the same (the answer was lost).              *)
BackupFatal ==
    /\ bpc = "flush"
    /\ written = Len(bulkRequest)
    /\ ~redisUp
    /\ deaths < MaxDeaths
    /\ deaths' = deaths + 1
    /\ queue' \in {queue, queue \o bulkRequest}
    /\ bpc' = "down"
    /\ why' = "line"
    /\ bulkRequest' = <<>>
    /\ written' = 0
    /\ i' = 0
    /\ restoring' = FALSE
    /\ rpc' = "none"
    /\ rline' = NoLine
    /\ UNCHANGED redisUp

(* systemd starts the program again.                                       *)
BackupRestart ==
    /\ bpc = "down"
    /\ bpc' = "select"
    /\ UNCHANGED <<why, bulkRequest, written, i, restoring>>
    /\ UNCHANGED <<restorerVars, redisVars>>

-----------------------------------------------------------------------------
(* RPOP hands Restore a line, ...                                          *)
RestorePop ==
    /\ rpc = "pop"
    /\ redisUp
    /\ queue # <<>>
    /\ queue' = Tail(queue)
    /\ rline' = Head(queue)
    /\ rpc' = "hold"
    /\ UNCHANGED <<contextVars, taskVars, redisUp, deaths>>

(* ... or an error, because the queue is empty, ...                        *)
RestoreEmpty ==
    /\ rpc = "pop"
    /\ redisUp
    /\ queue = <<>>
    /\ rpc' = "done"
    /\ UNCHANGED <<contextVars, taskVars, rline, redisVars>>

(* Mutant: the error of RPOP ends Restore without a word.                  *)
RestorePopFailsSilent ==
    /\ rpc = "pop"
    /\ ~redisUp
    /\ \/ UNCHANGED queue
       \/ queue # <<>> /\ queue' = Tail(queue)
    /\ rpc' = "none"
    /\ UNCHANGED <<contextVars, taskVars, rline, redisUp, deaths>>

(* ... or because redis does not answer; the line may have been popped.    *)
RestorePopFails ==
    /\ rpc = "pop"
    /\ ~redisUp
    /\ \/ UNCHANGED queue
       \/ queue # <<>> /\ queue' = Tail(queue)
    /\ rpc' = "done"
    /\ UNCHANGED <<contextVars, taskVars, rline, redisUp, deaths>>

(* The line is held back while the parse workers send theirs to the        *)
(* backup; ctx.buffering is read without a lock.                           *)
RestoreHold ==
    /\ rpc = "hold"
    /\ ~buffering
    /\ rpc' = "send"
    /\ UNCHANGED <<contextVars, taskVars, rline, redisVars>>

(* Mutant: the line is not sent but dropped when ctx.parsedLines is full.  *)
RestoreSendOrDrop ==
    /\ rpc = "send"
    /\ parsedLines' = IF Len(parsedLines) < Buffer
                      THEN Append(parsedLines, rline) ELSE parsedLines
    /\ rline' = NoLine
    /\ rpc' = "pop"
    /\ UNCHANGED <<lines, backupLines, buffering, taskVars, redisVars>>

(* Mutant: the line is sent whether or not ctx.parsedLines has room.       *)
RestoreSendUnbounded ==
    /\ rpc = "send"
    /\ parsedLines' = Append(parsedLines, rline)
    /\ rline' = NoLine
    /\ rpc' = "pop"
    /\ UNCHANGED <<lines, backupLines, buffering, taskVars, redisVars>>

(* Then it is sent, when ctx.parsedLines has room.                         *)
RestoreSend ==
    /\ rpc = "send"
    /\ Len(parsedLines) < Buffer
    /\ parsedLines' = Append(parsedLines, rline)
    /\ rline' = NoLine
    /\ rpc' = "pop"
    /\ UNCHANGED <<lines, backupLines, buffering, taskVars, redisVars>>

(* The exchange on ctx.restoreDone, both halves.                           *)
RestoreDone ==
    /\ rpc = "done"
    /\ bpc = "select"
    /\ rpc' = "none"
    /\ restoring' = FALSE
    /\ UNCHANGED <<contextVars, bpc, why, bulkRequest, written, i>>
    /\ UNCHANGED <<rline, redisVars>>

-----------------------------------------------------------------------------
(* Redis becomes unavailable, or available again.                          *)
RedisToggle ==
    /\ RedisMayFail \/ ~redisUp
    /\ redisUp' = ~redisUp
    /\ UNCHANGED <<contextVars, taskVars, restorerVars, queue, deaths>>
=============================================================================
