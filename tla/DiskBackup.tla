----------------------------- MODULE DiskBackup ------------------------------
(***************************************************************************)
(* The doBackupTask goroutine with the disk backend (backup.go, disk.go)   *)
(* and the Restore goroutines it starts.  The backend collects lines in    *)
(* bulkRequest; Flush writes them to the current file, reporting every     *)
(* line to the rate logger, and on restoreStart a file that holds anything *)
(* is handed to a Restore goroutine while the backend moves on to the next *)
(* file.                                                                   *)
(***************************************************************************)
EXTENDS Context

CONSTANTS
    HasBackup,    \* flagBackup # "": doTask starts the backup goroutine
    BackupBulk,   \* the local `bulk` of doBackupTask (1000)
    MaxFile,      \* bound: the last value backupcount takes
    DiskFaults,   \* whether a flush to disk can fail (disk full)
    OpenFaults    \* whether Restore can fail to open the file

ASSUME BackupAssumption ==
    /\ HasBackup \in BOOLEAN
    /\ BackupBulk \in Nat
    /\ MaxFile \in Nat
    /\ DiskFaults \in BOOLEAN
    /\ OpenFaults \in BOOLEAN

VARIABLES
    bpc,          \* where doBackupTask is: "off", "select", "flush"
    why,          \* what asked for the flush: "line", "restore", "idle"
    bulkRequest,  \* lines added to the backend, not yet flushed
    written,      \* how many of them this Flush has reported
    i,            \* the local variables of doBackupTask
    restoring,
    backupcount,  \* number of the current file
    disk,         \* contents of the backup files, by number
    diskErr,      \* the current file's bufio.Writer has failed: it stays so
    rpc,          \* the Restore goroutine: "none", "open", "read", "done"
    rfile,        \* the file it restores
    rest,         \* the lines of that file it has not sent yet
    lost          \* lines the backend forgot without having written them

backupVars == <<bpc, why, bulkRequest, written, i, restoring, backupcount,
                disk, diskErr, rpc, rfile, rest, lost>>

restorerVars == <<rpc, rfile, rest>>

Files == 0..MaxFile

BackupInit ==
    /\ bpc = IF HasBackup THEN "select" ELSE "off"
    /\ why = "line"
    /\ bulkRequest = <<>>
    /\ written = 0
    /\ i = 0
    /\ restoring = FALSE
    /\ backupcount = 0
    /\ disk = [f \in Files |-> <<>>]
    /\ diskErr = FALSE
    /\ rpc = "none"
    /\ rfile = 0
    /\ rest = <<>>
    /\ lost = {}

BackupTypeOK ==
    /\ bpc \in {"off", "select", "flush"}
    /\ why \in {"line", "restore", "idle"}
    /\ bulkRequest \in Seq(Line)
    /\ written \in 0..Len(bulkRequest)
    /\ i \in Nat
    /\ restoring \in BOOLEAN
    /\ backupcount \in Files
    /\ disk \in [Files -> Seq(Line)]
    /\ diskErr \in BOOLEAN
    /\ rpc \in {"none", "open", "read", "done"}
    /\ rfile \in Files
    /\ rest \in Seq(Line)
    /\ lost \subseteq Line

-----------------------------------------------------------------------------
(* A line for the backup; every BackupBulk-th one starts a flush.          *)
BackupReceive ==
    /\ bpc = "select"
    /\ backupLines # <<>>
    /\ backupLines' = Tail(backupLines)
    /\ bulkRequest' = Append(bulkRequest, Head(backupLines))
    /\ IF i >= BackupBulk
       THEN bpc' = "flush" /\ why' = "line" /\ i' = 1
       ELSE i' = i + 1 /\ UNCHANGED <<bpc, why>>
    /\ UNCHANGED <<lines, parsedLines, buffering>>
    /\ UNCHANGED <<written, restoring, backupcount, disk, diskErr, lost>>
    /\ UNCHANGED restorerVars

(* Ten seconds without an event on any of the channels.                    *)
BackupIdle ==
    /\ bpc = "select"
    /\ backupLines = <<>>
    /\ bpc' = "flush"
    /\ why' = "idle"
    /\ UNCHANGED <<contextVars, bulkRequest, written, i, restoring>>
    /\ UNCHANGED <<backupcount, disk, diskErr, lost, restorerVars>>

(* Mutant: a restore starts although another one is running.               *)
BackupRestoreStartAgain ==
    /\ bpc = "select"
    /\ IF disk[backupcount] # <<>>
       THEN /\ backupcount < MaxFile
            /\ restoring' = TRUE
            /\ bpc' = "flush"
            /\ why' = "restore"
       ELSE UNCHANGED <<restoring, bpc, why>>
    /\ UNCHANGED <<bulkRequest, written, i, backupcount, disk, diskErr, lost>>
    /\ UNCHANGED restorerVars

(* Mutant: `restoring` in place of `!restoring`.                           *)
BackupRestoreStartNegated ==
    /\ bpc = "select"
    /\ IF restoring /\ disk[backupcount] # <<>>
       THEN /\ backupcount < MaxFile
            /\ bpc' = "flush"
            /\ why' = "restore"
       ELSE UNCHANGED <<bpc, why>>
    /\ UNCHANGED <<bulkRequest, written, i, restoring, backupcount, disk>>
    /\ UNCHANGED <<diskErr, lost, restorerVars>>

(* An id from ctx.restoreStart (the backup's half of the exchange): unless *)
(* a restore is under way or Size() is 0, flush and restore.  After a      *)
(* failed flush the file may hold the first bytes of a line and no more.   *)
BackupRestoreStart ==
    /\ bpc = "select"
    /\ \/ /\ ~restoring
          /\ disk[backupcount] # <<>> \/ diskErr
          /\ backupcount < MaxFile
          /\ restoring' = TRUE
          /\ bpc' = "flush"
          /\ why' = "restore"
       \/ /\ restoring \/ disk[backupcount] = <<>>
          /\ UNCHANGED <<restoring, bpc, why>>
    /\ UNCHANGED <<bulkRequest, written, i, backupcount, disk, diskErr, lost>>
    /\ UNCHANGED restorerVars

(* Flush writes the next line into the bufio.Writer and hands a 1 to the   *)
(* rate logger (the backup's half of the exchange on ctx.backupRate).      *)
BackupWrite ==
    /\ bpc = "flush"
    /\ written < Len(bulkRequest)
    /\ written' = written + 1
    /\ UNCHANGED <<bpc, why, bulkRequest, i, restoring, backupcount>>
    /\ UNCHANGED <<disk, diskErr, lost, restorerVars>>

-----------------------------------------------------------------------------
(* Mutant: `backupcount++` is forgotten: the new backend truncates the     *)
(* file that Restore is about to read.                                     *)
AfterFlushSameFile(file, kept, err) ==
    IF why = "restore"
    THEN /\ rpc' = "open"
         /\ rfile' = backupcount
         /\ disk' = [disk EXCEPT ![backupcount] = <<>>]
         /\ bulkRequest' = <<>>
         /\ diskErr' = FALSE
         /\ lost' = lost \cup (Range(kept) \ Range(file))
         /\ UNCHANGED backupcount
    ELSE /\ disk' = [disk EXCEPT ![backupcount] = file]
         /\ bulkRequest' = kept
         /\ diskErr' = err
         /\ UNCHANGED <<rpc, rfile, backupcount, lost>>

(* The end of a Flush, `file` being what the current file then holds and   *)
(* `kept` what is left in bulkRequest, `err` whether its writer failed. In *)
(* the restoreStart branch Restore starts on that file, the next file is   *)
(* created and a fresh backend takes over: what the old one had kept is    *)
(* gone.                                                                   *)
AfterFlush(file, kept, err) ==
    IF why = "restore"
    THEN /\ rpc' = "open"
         /\ rfile' = backupcount
         /\ backupcount' = backupcount + 1
         /\ disk' = [disk EXCEPT ![backupcount] = file,
                                 ![backupcount + 1] = <<>>]
         /\ bulkRequest' = <<>>
         /\ diskErr' = FALSE
         /\ lost' = lost \cup (Range(kept) \ Range(file))
    ELSE /\ disk' = [disk EXCEPT ![backupcount] = file]
         /\ bulkRequest' = kept
         /\ diskErr' = err
         /\ UNCHANGED <<rpc, rfile, backupcount, lost>>

(* Mutant: `b.bulkRequest = b.bulkRequest[:0]` is forgotten.               *)
BackupFlushedKeepsBulk ==
    /\ bpc = "flush"
    /\ written = Len(bulkRequest)
    /\ ~diskErr
    /\ AfterFlush(disk[backupcount] \o bulkRequest, bulkRequest, FALSE)
    /\ written' = 0
    /\ bpc' = "select"
    /\ UNCHANGED <<contextVars, why, i, restoring, rest>>

(* b.w.Flush() succeeds.                                                   *)
BackupFlushed ==
    /\ bpc = "flush"
    /\ written = Len(bulkRequest)
    /\ ~diskErr
    /\ AfterFlush(disk[backupcount] \o bulkRequest, <<>>, FALSE)
    /\ written' = 0
    /\ bpc' = "select"
    /\ UNCHANGED <<contextVars, why, i, restoring, rest>>

(* Mutant: the lines are forgotten although the writer failed.             *)
BackupFlushFailsEmptied ==
    /\ bpc = "flush"
    /\ written = Len(bulkRequest)
    /\ bulkRequest # <<>>
    /\ DiskFaults
    /\ AfterFlush(disk[backupcount], <<>>, TRUE)
    /\ written' = 0
    /\ bpc' = "select"
    /\ UNCHANGED <<contextVars, why, i, restoring, rest>>

(* b.w.Flush() returns an error, which nobody looks at: a first part of    *)
(* the lines is in the file, all of them stay in bulkRequest.  The error   *)
(* of a bufio.Writer is sticky.                                            *)
BackupFlushFails ==
    /\ bpc = "flush"
    /\ written = Len(bulkRequest)
    /\ bulkRequest # <<>>
    /\ DiskFaults
    /\ \E n \in 0..(Len(bulkRequest) - 1) :
          /\ diskErr => n = 0
          /\ AfterFlush(disk[backupcount] \o SubSeq(bulkRequest, 1, n),
                        bulkRequest, TRUE)
    /\ written' = 0
    /\ bpc' = "select"
    /\ UNCHANGED <<contextVars, why, i, restoring, rest>>

-----------------------------------------------------------------------------
(* Restore opens the file; if it cannot, it returns at once.               *)
RestoreOpen ==
    /\ rpc = "open"
    /\ \/ /\ rpc' = "read"
          /\ rest' = disk[rfile]
       \/ /\ OpenFaults
          /\ rpc' = "none"
          /\ UNCHANGED rest
    /\ UNCHANGED <<contextVars, bpc, why, bulkRequest, written, i, restoring>>
    /\ UNCHANGED <<backupcount, disk, diskErr, rfile, lost>>

(* Mutant: Restore drops the line when ctx.parsedLines is full.            *)
RestoreSendOrDrop ==
    /\ rpc = "read"
    /\ rest # <<>>
    /\ parsedLines' = IF Len(parsedLines) < Buffer
                      THEN Append(parsedLines, Head(rest)) ELSE parsedLines
    /\ rest' = Tail(rest)
    /\ UNCHANGED <<lines, backupLines, buffering>>
    /\ UNCHANGED <<bpc, why, bulkRequest, written, i, restoring>>
    /\ UNCHANGED <<backupcount, disk, diskErr, rpc, rfile, lost>>

(* Mutant: Restore does not wait for room in ctx.parsedLines.              *)
RestoreSendUnbounded ==
    /\ rpc = "read"
    /\ rest # <<>>
    /\ parsedLines' = Append(parsedLines, Head(rest))
    /\ rest' = Tail(rest)
    /\ UNCHANGED <<lines, backupLines, buffering>>
    /\ UNCHANGED <<bpc, why, bulkRequest, written, i, restoring>>
    /\ UNCHANGED <<backupcount, disk, diskErr, rpc, rfile, lost>>

(* One line read and sent to ctx.parsedLines.                              *)
RestoreSend ==
    /\ rpc = "read"
    /\ rest # <<>>
    /\ Len(parsedLines) < Buffer
    /\ parsedLines' = Append(parsedLines, Head(rest))
    /\ rest' = Tail(rest)
    /\ UNCHANGED <<lines, backupLines, buffering>>
    /\ UNCHANGED <<bpc, why, bulkRequest, written, i, restoring>>
    /\ UNCHANGED <<backupcount, disk, diskErr, rpc, rfile, lost>>

(* Mutants: the file is not removed; restoreDone is not sent.              *)
RestoreEOFKeepsFile ==
    /\ rpc = "read"
    /\ rest = <<>>
    /\ rpc' = "done"
    /\ UNCHANGED <<contextVars, bpc, why, bulkRequest, written, i, restoring>>
    /\ UNCHANGED <<backupcount, disk, diskErr, rfile, rest, lost>>

RestoreEOFSilent ==
    /\ rpc = "read"
    /\ rest = <<>>
    /\ disk' = [disk EXCEPT ![rfile] = <<>>]
    /\ rpc' = "none"
    /\ UNCHANGED <<contextVars, bpc, why, bulkRequest, written, i, restoring>>
    /\ UNCHANGED <<backupcount, diskErr, rfile, rest, lost>>

(* End of file: remove the file, then block on ctx.restoreDone.            *)
RestoreEOF ==
    /\ rpc = "read"
    /\ rest = <<>>
    /\ disk' = [disk EXCEPT ![rfile] = <<>>]
    /\ rpc' = "done"
    /\ UNCHANGED <<contextVars, bpc, why, bulkRequest, written, i, restoring>>
    /\ UNCHANGED <<backupcount, diskErr, rfile, rest, lost>>

(* Mutant: `restoring = false` is forgotten.                               *)
RestoreDoneStillRestoring ==
    /\ rpc = "done"
    /\ bpc = "select"
    /\ rpc' = "none"
    /\ UNCHANGED <<contextVars, bpc, why, bulkRequest, written, i, restoring>>
    /\ UNCHANGED <<backupcount, disk, diskErr, rfile, rest, lost>>

(* The exchange on ctx.restoreDone, both halves.                           *)
RestoreDone ==
    /\ rpc = "done"
    /\ bpc = "select"
    /\ rpc' = "none"
    /\ restoring' = FALSE
    /\ UNCHANGED <<contextVars, bpc, why, bulkRequest, written, i>>
    /\ UNCHANGED <<backupcount, disk, diskErr, rfile, rest, lost>>
=============================================================================
