----------------------------- MODULE Ulog2file ------------------------------
(***************************************************************************)
(* The program ulog2file: its parse workers feed doBackupTask, which adds  *)
(* every line to the current file of the spool, flushes it every Bulk      *)
(* lines and when nothing has come for ten seconds, and goes on to the     *)
(* next file when it has counted to a multiple of FileLines.  The process  *)
(* may die at any moment, and systemd starts it again.                     *)
(***************************************************************************)
EXTENDS Spool

CONSTANTS MaxLine,    \* bound: the number of lines
          BackupCap,  \* capacity of ctx.backupLines
          Bulk,       \* the local `bulk` of doBackupTask (1000)
          WriterDies  \* bound: how often the process dies

ASSUME Ulog2fileAssumption ==
    /\ BackupCap \in Nat \ {0}
    /\ Bulk \in Nat \ {0, 1}
    /\ {MaxLine, WriterDies} \subseteq Nat
    /\ FileLines % Bulk = 0

VARIABLES wpc,          \* where doBackupTask is: "down", "start", "created",
                        \* "select", "flush", "rotate", "current", "status"
          arrived,      \* how many lines have come from the parse workers
          backupLines,  \* the channel
          bulkRequest,  \* lines added to the backend, not yet flushed
          written,      \* how many of them Flush has written
          idle,         \* whether the timer asked for this Flush
          i, j,         \* the local variables; j modulo FileLines
          backupcount,  \* number of the current file
          closing,      \* files whose plain copy is going to be removed
          deaths        \* how often the process has died

writerVars == <<wpc, arrived, backupLines, bulkRequest, written, idle, i, j,
                backupcount, closing, deaths>>

WriterInit ==
    /\ wpc = "start"
    /\ arrived = 0
    /\ backupLines = <<>>
    /\ bulkRequest = <<>>
    /\ written = 0
    /\ idle = FALSE
    /\ i = 0
    /\ j = 0
    /\ backupcount = 0
    /\ closing = {}
    /\ deaths = 0

WriterTypeOK ==
    /\ wpc \in {"down", "start", "created", "select", "flush", "rotate",
                "current", "status"}
    /\ arrived \in 0..MaxLine
    /\ backupLines \in Seq(Nat) /\ Len(backupLines) <= BackupCap
    /\ bulkRequest \in Seq(Nat) /\ Len(bulkRequest) <= Bulk + 1
    /\ written \in 0..Len(bulkRequest)
    /\ idle \in BOOLEAN
    /\ i \in 0..Bulk
    /\ j \in 0..(FileLines - 1)
    /\ backupcount \in 0..MaxFile
    /\ closing \subseteq Files
    /\ deaths \in 0..WriterDies

-----------------------------------------------------------------------------
(* Mutant: the channel takes any number of lines.                          *)
LineArrivesUnbounded ==
    /\ wpc # "down"
    /\ arrived < MaxLine
    /\ arrived' = arrived + 1
    /\ backupLines' = Append(backupLines, arrived')
    /\ UNCHANGED <<wpc, bulkRequest, written, idle, i, j, backupcount>>
    /\ UNCHANGED <<closing, deaths, spoolVars>>

(* A parse worker sends a line to ctx.backupLines.                         *)
LineArrives ==
    /\ wpc # "down"
    /\ arrived < MaxLine
    /\ Len(backupLines) < BackupCap
    /\ arrived' = arrived + 1
    /\ backupLines' = Append(backupLines, arrived')
    /\ UNCHANGED <<wpc, bulkRequest, written, idle, i, j, backupcount>>
    /\ UNCHANGED <<closing, deaths, spoolVars>>

(* doBackupTask up to NewDiskBackend; no meta/status counts as 0.          *)
WriterStart ==
    /\ wpc = "start"
    /\ status < MaxFile
    /\ backupcount' = status + 1
    /\ CreateFile(backupcount')
    /\ tied' = FALSE
    /\ wpc' = "created"
    /\ UNCHANGED <<arrived, backupLines, bulkRequest, written, idle, i, j>>
    /\ UNCHANGED <<closing, deaths, current, status>>

(* meta/current is written after the file has been created.                *)
WriterNamesFile ==
    /\ wpc = "created"
    /\ current' = backupcount
    /\ wpc' = "select"
    /\ UNCHANGED <<arrived, backupLines, bulkRequest, written, idle, i, j>>
    /\ UNCHANGED <<backupcount, closing, deaths>>
    /\ UNCHANGED <<gz, blank, plain, unc, status, byTime, tied>>

(* BulkAdd; the line that finds i at Bulk starts a flush.                  *)
WriterReceive ==
    /\ wpc = "select"
    /\ backupLines # <<>>
    /\ backupLines' = Tail(backupLines)
    /\ bulkRequest' = Append(bulkRequest, Head(backupLines))
    /\ \/ i >= Bulk /\ wpc' = "flush" /\ UNCHANGED <<i, j>>
       \/ /\ i < Bulk
          /\ i' = i + 1
          /\ j' = (j + 1) % FileLines
          /\ UNCHANGED wpc
    /\ UNCHANGED <<arrived, written, idle, backupcount, closing, deaths>>
    /\ UNCHANGED spoolVars

(* Mutant: the timer flushes full bulks only.                              *)
WriterIdleWhenFull ==
    /\ wpc = "select"
    /\ backupLines = <<>>
    /\ i >= Bulk
    /\ bulkRequest # <<>> \/ backupcount \in blank
    /\ wpc' = "flush"
    /\ idle' = TRUE
    /\ UNCHANGED <<arrived, backupLines, bulkRequest, written, i, j>>
    /\ UNCHANGED <<backupcount, closing, deaths, spoolVars>>

(* Ten seconds without a line.  A flush of nothing changes nothing after   *)
(* the one that writes the gzip header.                                    *)
WriterIdle ==
    /\ wpc = "select"
    /\ backupLines = <<>>
    /\ bulkRequest # <<>> \/ backupcount \in blank
    /\ wpc' = "flush"
    /\ idle' = TRUE
    /\ UNCHANGED <<arrived, backupLines, bulkRequest, written, i, j>>
    /\ UNCHANGED <<backupcount, closing, deaths, spoolVars>>

(* Flush writes a line to both files.  The plain one may get it at once,   *)
(* when the buffer of the bufio.Writer has filled up.                      *)
WriterWrites ==
    /\ wpc = "flush"
    /\ written < Len(bulkRequest)
    /\ written' = written + 1
    /\ plain' = [plain EXCEPT ![backupcount] =
                    Append(@, bulkRequest[written'])]
    /\ UNCHANGED <<wpc, arrived, backupLines, bulkRequest, idle, i, j>>
    /\ UNCHANGED <<backupcount, closing, deaths>>
    /\ UNCHANGED <<gz, blank, unc, current, status, byTime, tied>>

(* What the compressed file holds of the lines Flush has written to it.    *)
Compressed(n) ==
    IF backupcount \in DOMAIN gz
    THEN /\ gz' = [gz EXCEPT ![backupcount] =
                      @ \o SubSeq(bulkRequest, 1, n)]
         /\ blank' = blank \ {backupcount}
         /\ Touch(backupcount)
         /\ tied' = FALSE
    ELSE UNCHANGED <<gz, blank, byTime, tied>>

(* The end of Flush and, unless the timer asked for it, the count.         *)
WriterFlushed ==
    /\ wpc = "flush"
    /\ written = Len(bulkRequest)
    /\ Compressed(written)
    /\ bulkRequest' = <<>>
    /\ written' = 0
    /\ \/ idle /\ wpc' = "select" /\ UNCHANGED <<i, j>>
       \/ ~idle /\ j = 0 /\ wpc' = "rotate" /\ UNCHANGED <<i, j>>
       \/ /\ ~idle
          /\ j > 0
          /\ i' = 1
          /\ j' = (j + 1) % FileLines
          /\ wpc' = "select"
    /\ idle' = FALSE
    /\ UNCHANGED <<arrived, backupLines, backupcount, closing, deaths>>
    /\ UNCHANGED <<plain, unc, current, status>>

(* Mutant: the goroutine of Close gets the new backend.                    *)
WriterRotatesRemovingNew ==
    /\ wpc = "rotate"
    /\ backupcount < MaxFile
    /\ backupcount' = backupcount + 1
    /\ closing' = closing \cup {backupcount'}
    /\ CreateFile(backupcount')
    /\ tied' \in BOOLEAN
    /\ wpc' = "current"
    /\ UNCHANGED <<arrived, backupLines, bulkRequest, written, idle, i, j>>
    /\ UNCHANGED <<deaths, current, status>>

(* Close and NewDiskBackend: the closed file and the new one may get the   *)
(* same modification time.                                                 *)
WriterRotates ==
    /\ wpc = "rotate"
    /\ backupcount < MaxFile
    /\ backupcount' = backupcount + 1
    /\ closing' = closing \cup {backupcount}
    /\ CreateFile(backupcount')
    /\ tied' \in BOOLEAN
    /\ wpc' = "current"
    /\ UNCHANGED <<arrived, backupLines, bulkRequest, written, idle, i, j>>
    /\ UNCHANGED <<deaths, current, status>>

(* Mutant: the new file is not named.                                      *)
WriterNamesNextNot ==
    /\ wpc = "current"
    /\ wpc' = "status"
    /\ UNCHANGED <<arrived, backupLines, bulkRequest, written, idle, i, j>>
    /\ UNCHANGED <<backupcount, closing, deaths>>
    /\ UNCHANGED <<gz, blank, plain, unc, current, status, byTime, tied>>

(* meta/current is written after the new file has been created, ...        *)
WriterNamesNext ==
    /\ wpc = "current"
    /\ current' = backupcount
    /\ wpc' = "status"
    /\ UNCHANGED <<arrived, backupLines, bulkRequest, written, idle, i, j>>
    /\ UNCHANGED <<backupcount, closing, deaths>>
    /\ UNCHANGED <<gz, blank, plain, unc, status, byTime, tied>>

(* Mutant: the number of the closed file is noted.                         *)
WriterNotesClosed ==
    /\ wpc = "status"
    /\ status' = backupcount - 1
    /\ i' = 1
    /\ j' = (j + 1) % FileLines
    /\ wpc' = "select"
    /\ UNCHANGED <<arrived, backupLines, bulkRequest, written, idle>>
    /\ UNCHANGED <<backupcount, closing, deaths>>
    /\ UNCHANGED <<gz, blank, plain, unc, current, byTime, tied>>

(* ... and then meta/status; the count goes on.                            *)
WriterNotesNumber ==
    /\ wpc = "status"
    /\ status' = backupcount
    /\ i' = 1
    /\ j' = (j + 1) % FileLines
    /\ wpc' = "select"
    /\ UNCHANGED <<arrived, backupLines, bulkRequest, written, idle>>
    /\ UNCHANGED <<backupcount, closing, deaths>>
    /\ UNCHANGED <<gz, blank, plain, unc, current, byTime, tied>>

(* Thirty seconds after Close.                                             *)
RemovePlain(k) ==
    /\ k \in closing
    /\ closing' = closing \ {k}
    /\ unc' = unc \ {k}
    /\ UNCHANGED <<wpc, arrived, backupLines, bulkRequest, written, idle>>
    /\ UNCHANGED <<i, j, backupcount, deaths>>
    /\ UNCHANGED <<gz, blank, plain, current, status, byTime, tied>>

(* The process dies, with what is in its memory; the compressor may have   *)
(* written some of the lines of an unfinished Flush.                       *)
WriterDiesNow ==
    /\ wpc # "down"
    /\ deaths < WriterDies
    /\ deaths' = deaths + 1
    /\ wpc' = "down"
    /\ \/ written = 0 /\ UNCHANGED <<gz, blank, byTime, tied>>
       \/ written > 0 /\ \E n \in 0..written : Compressed(n)
    /\ backupLines' = <<>>
    /\ bulkRequest' = <<>>
    /\ written' = 0
    /\ idle' = FALSE
    /\ closing' = {}
    /\ UNCHANGED <<arrived, i, j, backupcount>>
    /\ UNCHANGED <<plain, unc, current, status>>

(* systemd starts the program again.                                       *)
WriterRestarts ==
    /\ wpc = "down"
    /\ wpc' = "start"
    /\ i' = 0
    /\ j' = 0
    /\ UNCHANGED <<arrived, backupLines, bulkRequest, written, idle>>
    /\ UNCHANGED <<backupcount, closing, deaths, spoolVars>>
=============================================================================
