----------------------------- MODULE ParseWorker -----------------------------
(***************************************************************************)
(* tailUlog's reading loop and the parseLineWorker goroutines              *)
(* (ulog2queue.go).  A worker takes a line from ctx.lines, parses it,      *)
(* looks at the fill level of ctx.parsedLines and only then sends the line *)
(* to the primary or to the backup: the level it saw may be stale by then. *)
(***************************************************************************)
EXTENDS Context

CONSTANT Workers   \* the parseLineWorker goroutines

VARIABLES read,    \* the lines tailUlog has taken from the file
          wpc,     \* where worker w is blocked: "select", "primary", "backup"
          wline    \* the parsed line worker w holds

workerVars == <<read, wpc, wline>>

WorkerInit ==
    /\ read = {}
    /\ wpc = [w \in Workers |-> "select"]
    /\ wline = [w \in Workers |-> NoLine]

WorkerTypeOK ==
    /\ read \subseteq Line
    /\ wpc \in [Workers -> {"select", "primary", "backup"}]
    /\ wline \in [Workers -> Line \cup {NoLine}]

-----------------------------------------------------------------------------
(* `for line := range t.Lines { ctx.lines <- &line.Text }`: the next line  *)
(* is accepted when ctx.lines has room for it.                             *)
TailRead(l) ==
    /\ l \in Line \ read
    /\ Len(lines) < LinesCap
    /\ read' = read \cup {l}
    /\ lines' = Append(lines, l)
    /\ UNCHANGED <<parsedLines, backupLines, buffering, wpc, wline>>

(* Receive a line, parse it, compare len(ctx.parsedLines) with the high    *)
(* water mark, set ctx.buffering, and block on the chosen channel.         *)
WorkerTake(w) ==
    /\ wpc[w] = "select"
    /\ lines # <<>>
    /\ lines' = Tail(lines)
    /\ wline' = [wline EXCEPT ![w] = Head(lines)]
    /\ \/ /\ Len(parsedLines) > HighWater
          /\ buffering' = TRUE
          /\ wpc' = [wpc EXCEPT ![w] = "backup"]
       \/ /\ Len(parsedLines) <= HighWater
          /\ buffering' = FALSE
          /\ wpc' = [wpc EXCEPT ![w] = "primary"]
    /\ UNCHANGED <<parsedLines, backupLines, read>>

(* `ctx.parsedLines <- &myline` succeeds once the channel has room.        *)
WorkerSendPrimary(w) ==
    /\ wpc[w] = "primary"
    /\ Len(parsedLines) < Buffer
    /\ parsedLines' = Append(parsedLines, wline[w])
    /\ wpc' = [wpc EXCEPT ![w] = "select"]
    /\ wline' = [wline EXCEPT ![w] = NoLine]
    /\ UNCHANGED <<lines, backupLines, buffering, read>>

(* Mutant: a full backup channel drops the line (select with a default).   *)
WorkerSendBackupOrDrop(w) ==
    /\ wpc[w] = "backup"
    /\ backupLines' = IF Len(backupLines) < BackupCap
                      THEN Append(backupLines, wline[w]) ELSE backupLines
    /\ wpc' = [wpc EXCEPT ![w] = "select"]
    /\ wline' = [wline EXCEPT ![w] = NoLine]
    /\ UNCHANGED <<lines, parsedLines, buffering, read>>

(* `ctx.backupLines <- &myline` succeeds once the channel has room.        *)
WorkerSendBackup(w) ==
    /\ wpc[w] = "backup"
    /\ Len(backupLines) < BackupCap
    /\ backupLines' = Append(backupLines, wline[w])
    /\ wpc' = [wpc EXCEPT ![w] = "select"]
    /\ wline' = [wline EXCEPT ![w] = NoLine]
    /\ UNCHANGED <<lines, parsedLines, buffering, read>>

(* Three seconds without a line: the worker clears the shared flag.        *)
WorkerIdle(w) ==
    /\ wpc[w] = "select"
    /\ lines = <<>>
    /\ buffering' = FALSE
    /\ UNCHANGED <<lines, parsedLines, backupLines, workerVars>>
=============================================================================
