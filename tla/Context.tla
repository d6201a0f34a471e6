------------------------------- MODULE Context -------------------------------
(***************************************************************************)
(* The struct Context of types.go: the channels through which the          *)
(* goroutines of ulog2queue hand lines to each other, and the flag         *)
(* `buffering` they share without a lock.                                  *)
(*                                                                         *)
(* A line is an opaque value: parsing, geoip and time stamps change its    *)
(* bytes but not which event of the firewall it stands for.  The buffered  *)
(* channels are bounded FIFO sequences.  The unbuffered ones (parsedRate,  *)
(* backupRate, restoreStart, restoreDone) hold nothing: an exchange on one *)
(* of them is a joint step of its two parties, composed in Ulog2queue.     *)
(***************************************************************************)
EXTENDS Integers, Sequences, Functions

CONSTANTS Line,      \* the lines that ulogd writes to the tailed file
          NoLine,    \* a goroutine that holds no line
          LinesCap,  \* capacity of ctx.lines (10000 in main)
          Buffer,    \* capacity of ctx.parsedLines (cfg.General.Buffer)
          BackupCap  \* capacity of ctx.backupLines (10000 in main)

ASSUME ContextAssumption ==
    /\ NoLine \notin Line
    /\ LinesCap \in Nat \ {0}
    /\ Buffer \in Nat \ {0}
    /\ BackupCap \in Nat \ {0}

VARIABLES lines,        \* ctx.lines: read from the file, not yet parsed
          parsedLines,  \* ctx.parsedLines: on their way to the primary
          backupLines,  \* ctx.backupLines: on their way to the backup
          buffering     \* ctx.buffering

contextVars == <<lines, parsedLines, backupLines, buffering>>

ContextInit ==
    /\ lines = <<>>
    /\ parsedLines = <<>>
    /\ backupLines = <<>>
    /\ buffering = FALSE

ContextTypeOK ==
    /\ lines \in Seq(Line)
    /\ parsedLines \in Seq(Line)
    /\ backupLines \in Seq(Line)
    /\ Len(lines) <= LinesCap
    /\ Len(parsedLines) <= Buffer
    /\ Len(backupLines) <= BackupCap
    /\ buffering \in BOOLEAN

(* The fill level above which a worker sends new lines to the backup:      *)
(* ctx.cfg.General.Buffer*90/100, an integer division.                     *)
HighWater == (Buffer * 90) \div 100
=============================================================================
