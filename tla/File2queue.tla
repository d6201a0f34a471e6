----------------------------- MODULE File2queue -----------------------------
(***************************************************************************)
(* The program file2queue: doRestoreTask takes the oldest file of the      *)
(* spool, follows it with a tail if it is the current one or else unpacks  *)
(* it, and removes it afterwards; doPrimaryTask sends the lines to         *)
(* Elasticsearch.  A panic of either ends the process; systemd starts it   *)
(* again.                                                                  *)
(***************************************************************************)
EXTENDS TailFile

CONSTANTS Buffer,      \* capacity of ctx.parsedLines
          EsBulk,      \* Backend["es"].Bulk
          EsMayFail,   \* whether Elasticsearch is ever down
          ReaderDies   \* bound: how often the process is killed

ASSUME File2queueAssumption ==
    /\ {Buffer, EsBulk} \subseteq Nat \ {0}
    /\ EsMayFail \in BOOLEAN
    /\ ReaderDies \in Nat

VARIABLES rpc,          \* where doRestoreTask is: "down", "list", "decide",
                        \* "gz", "remove", "tail", "push", "stop", "join",
                        \* "unlink", "sleep"
          rfile,        \* b.filename
          rline,        \* the line it is about to send
          rest,         \* the lines of a compressed file still to be sent
          count,        \* the local variable i of RestoreTail
          parsedLines,  \* the channel
          ppc,          \* where doPrimaryTask is: "off", "connect",
                        \* "select", "flush", "idle", "waiting"
          working,
          failed,
          actions,      \* the lines in the bulk request
          esUp,         \* whether Elasticsearch answers
          esDocs,       \* the lines it has indexed
          killed        \* how often the process has been killed

restoreVars == <<rpc, rfile, rline, rest, count>>
primaryVars == <<ppc, working, failed, actions>>
readerVars == <<restoreVars, parsedLines, primaryVars, esUp, esDocs, killed>>

ReaderInit ==
    /\ rpc = "down"
    /\ rfile = 1
    /\ rline = 0
    /\ rest = <<>>
    /\ count = 0
    /\ parsedLines = <<>>
    /\ ppc = "off"
    /\ working = TRUE
    /\ failed = FALSE
    /\ actions = <<>>
    /\ esUp = TRUE
    /\ esDocs = {}
    /\ killed = 0

ReaderTypeOK ==
    /\ rpc \in {"down", "list", "decide", "gz", "remove", "tail", "push",
                "stop", "join", "unlink", "sleep"}
    /\ rfile \in Files
    /\ rline \in Nat
    /\ rest \in Seq(Nat)
    /\ count \in 0..FileLines
    /\ parsedLines \in Seq(Nat) /\ Len(parsedLines) <= Buffer
    /\ ppc \in {"off", "connect", "select", "flush", "idle", "waiting"}
    /\ working \in BOOLEAN /\ failed \in BOOLEAN /\ esUp \in BOOLEAN
    /\ actions \in Seq(Nat)
    /\ esDocs \subseteq Nat
    /\ killed \in 0..ReaderDies

-----------------------------------------------------------------------------
(* The end of the process: all its goroutines and their memory are gone.   *)
ReaderEnds ==
    /\ rpc' = "down"
    /\ rfile' = 1
    /\ rline' = 0
    /\ rest' = <<>>
    /\ count' = 0
    /\ parsedLines' = <<>>
    /\ ppc' = "off"
    /\ working' = TRUE
    /\ failed' = FALSE
    /\ actions' = <<>>
    /\ TailForgotten
    /\ UNCHANGED <<spoolVars, esUp, esDocs>>

(* The process is killed from outside.                                     *)
ReaderKilled ==
    /\ rpc # "down"
    /\ killed < ReaderDies
    /\ killed' = killed + 1
    /\ ReaderEnds

(* doTask starts the primary and the restore task.                         *)
ReaderStarts ==
    /\ rpc = "down"
    /\ rpc' = "list"
    /\ ppc' = "connect"
    /\ UNCHANGED <<rfile, rline, rest, count, parsedLines, working, failed>>
    /\ UNCHANGED <<actions, esUp, esDocs, killed, tailVars, spoolVars>>

RestoreStep ==
    /\ UNCHANGED <<primaryVars, esUp, esDocs, killed>>
    /\ UNCHANGED spoolVars

(* List()[0], ...                                                          *)
ReaderLists ==
    /\ rpc = "list"
    /\ rfile' \in Oldest
    /\ rpc' = "decide"
    /\ UNCHANGED <<rline, rest, count, parsedLines, tailVars>>
    /\ RestoreStep

(* ... which panics when the spool holds no file.                          *)
ReaderFindsNone ==
    /\ rpc = "list"
    /\ DOMAIN gz = {}
    /\ ReaderEnds
    /\ UNCHANGED killed

(* meta/current is read afterwards: the current file is followed.          *)
ReaderFollows ==
    /\ rpc = "decide"
    /\ rfile = current
    /\ rpc' = "tail"
    /\ TailStarts(rfile)
    /\ UNCHANGED <<rfile, rline, rest, count, parsedLines>>
    /\ RestoreStep

(* Any other file is unpacked; reading ends without an error that matters  *)
(* when the file has no gzip trailer.                                      *)
ReaderUnpacks ==
    /\ rpc = "decide"
    /\ rfile # current
    /\ rfile \notin blank
    /\ rest' = gz[rfile]
    /\ rpc' = "gz"
    /\ UNCHANGED <<rfile, rline, count, parsedLines, tailVars>>
    /\ RestoreStep

(* gzip.NewReader returns nil for a file without a header; reading from it *)
(* panics.                                                                 *)
ReaderPanics ==
    /\ rpc = "decide"
    /\ rfile # current
    /\ rfile \in blank
    /\ ReaderEnds
    /\ UNCHANGED killed

(* Restore: a line of the compressed file to ctx.parsedLines, ...          *)
ReaderSends ==
    /\ rpc = "gz"
    /\ rest # <<>>
    /\ Len(parsedLines) < Buffer
    /\ parsedLines' = Append(parsedLines, Head(rest))
    /\ rest' = Tail(rest)
    /\ UNCHANGED <<rpc, rfile, rline, count, tailVars>>
    /\ RestoreStep

(* ... until its end.                                                      *)
ReaderAtEOF ==
    /\ rpc = "gz"
    /\ rest = <<>>
    /\ rpc' = "remove"
    /\ UNCHANGED <<rfile, rline, rest, count, parsedLines, tailVars>>
    /\ RestoreStep

-----------------------------------------------------------------------------
(* RestoreTail: a line from t.Lines (both halves of the exchange), ...     *)
ReaderReceives ==
    /\ rpc = "tail"
    /\ TailHandsOver
    /\ rline' = tline
    /\ rpc' = "push"
    /\ UNCHANGED <<rfile, rest, count, parsedLines>>
    /\ RestoreStep

(* Mutant: `i` starts at 1.                                                *)
ReaderPushesEarly ==
    /\ rpc = "push"
    /\ Len(parsedLines) < Buffer
    /\ parsedLines' = Append(parsedLines, rline)
    /\ rline' = 0
    /\ \/ count + 2 = FileLines /\ rpc' = "stop" /\ count' = 0
       \/ count + 2 < FileLines /\ rpc' = "tail" /\ count' = count + 1
    /\ UNCHANGED <<rfile, rest, tailVars>>
    /\ RestoreStep

(* ... to ctx.parsedLines, until there have been FileLines of them.        *)
ReaderPushes ==
    /\ rpc = "push"
    /\ Len(parsedLines) < Buffer
    /\ parsedLines' = Append(parsedLines, rline)
    /\ rline' = 0
    /\ \/ count + 1 = FileLines /\ rpc' = "stop" /\ count' = 0
       \/ count + 1 < FileLines /\ rpc' = "tail" /\ count' = count + 1
    /\ UNCHANGED <<rfile, rest, tailVars>>
    /\ RestoreStep

(* t.Stop(): Kill, then Wait for tailFileSync to return.                   *)
ReaderStops ==
    /\ rpc = "stop"
    /\ dying' = TRUE
    /\ rpc' = "join"
    /\ UNCHANGED <<tpc, tfile, tpos, tline, truncated>>
    /\ UNCHANGED <<rfile, rline, rest, count, parsedLines>>
    /\ RestoreStep

(* Stop returns when tailFileSync has.                                     *)
ReaderJoins ==
    /\ rpc = "join"
    /\ tpc = "off"
    /\ rpc' = "unlink"
    /\ TailForgotten
    /\ UNCHANGED <<rfile, rline, rest, count, parsedLines>>
    /\ RestoreStep

(* The end of Restore and of RestoreTail: the file is removed.             *)
Removed(k) ==
    /\ gz' = [n \in DOMAIN gz \ {k} |-> gz[n]]
    /\ blank' = blank \ {k}
    /\ byTime' = RemoveFirst(byTime, k)
    /\ tied' = (tied /\ Len(byTime') > 1)
    /\ UNCHANGED <<rfile, rline, rest, count, parsedLines, tailVars>>
    /\ UNCHANGED <<primaryVars, esUp, esDocs, killed>>
    /\ UNCHANGED <<plain, current, status>>

(* The end of Restore: the compressed file goes.                           *)
ReaderRemoves ==
    /\ rpc = "remove"
    /\ Removed(rfile)
    /\ rpc' = "list"
    /\ UNCHANGED unc

(* Mutant: only the plain file is removed.                                 *)
ReaderUnlinksPlain ==
    /\ rpc = "unlink"
    /\ unc' = unc \ {rfile}
    /\ rpc' = "sleep"
    /\ UNCHANGED <<gz, blank, plain, current, status, byTime, tied>>
    /\ UNCHANGED <<rfile, rline, rest, count, parsedLines, tailVars>>
    /\ UNCHANGED <<primaryVars, esUp, esDocs, killed>>

(* The end of RestoreTail: both go.                                        *)
ReaderUnlinks ==
    /\ rpc = "unlink"
    /\ Removed(rfile)
    /\ unc' = unc \ {rfile}
    /\ rpc' = "sleep"

(* The end of the two seconds of sleep.                                    *)
ReaderWakes ==
    /\ rpc = "sleep"
    /\ rpc' = "list"
    /\ UNCHANGED <<rfile, rline, rest, count, parsedLines, tailVars>>
    /\ RestoreStep

-----------------------------------------------------------------------------
PrimaryStep ==
    /\ UNCHANGED <<restoreVars, tailVars, spoolVars, esUp, killed>>

(* NewESBackend: elastic.NewClient needs a node that answers, ...          *)
PrimaryConnects ==
    /\ ppc = "connect"
    /\ esUp
    /\ ppc' = "select"
    /\ UNCHANGED <<parsedLines, working, failed, actions, esDocs>>
    /\ PrimaryStep

(* ... or log.Fatal ends the process.                                      *)
PrimaryIsFatal ==
    /\ ppc = "connect"
    /\ ~esUp
    /\ ReaderEnds
    /\ UNCHANGED killed

(* A line while the backend works: BulkAdd, and a flush when that is full. *)
PrimaryAdds ==
    /\ ppc = "select"
    /\ working
    /\ parsedLines # <<>>
    /\ parsedLines' = Tail(parsedLines)
    /\ actions' = Append(actions, Head(parsedLines))
    /\ ppc' = IF Len(actions') >= EsBulk THEN "flush" ELSE "select"
    /\ UNCHANGED <<working, failed, esDocs>>
    /\ PrimaryStep

(* A line while it does not: the waiting loop forgets it.                  *)
PrimaryWaits ==
    /\ ppc = "select"
    /\ ~working
    /\ parsedLines # <<>>
    /\ parsedLines' = Tail(parsedLines)
    /\ ppc' = "waiting"
    /\ UNCHANGED <<working, failed, actions, esDocs>>
    /\ PrimaryStep

(* Thirty seconds later the ping succeeds; else the loop goes on.          *)
PrimaryPings ==
    /\ ppc = "waiting"
    /\ esUp
    /\ failed' = TRUE
    /\ working' = TRUE
    /\ ppc' = "select"
    /\ UNCHANGED <<parsedLines, actions, esDocs>>
    /\ PrimaryStep

(* Ten seconds without a line.                                             *)
PrimaryIdles ==
    /\ ppc = "select"
    /\ parsedLines = <<>>
    /\ actions # <<>>
    /\ ~failed
    /\ ppc' = "idle"
    /\ UNCHANGED <<parsedLines, working, failed, actions, esDocs>>
    /\ PrimaryStep

(* BulkService.Do succeeds, ...                                            *)
PrimaryFlushes ==
    /\ ppc \in {"flush", "idle"}
    /\ esUp
    /\ esDocs' = esDocs \cup Range(actions)
    /\ actions' = <<>>
    /\ failed' = (failed /\ ppc = "idle")
    /\ ppc' = "select"
    /\ UNCHANGED <<parsedLines, working>>
    /\ PrimaryStep

(* Mutant: a failed bulk is forgotten.                                     *)
PrimaryFailsEmptied ==
    /\ ppc \in {"flush", "idle"}
    /\ ~esUp
    /\ \E some \in SUBSET Range(actions) : esDocs' = esDocs \cup some
    /\ \/ ppc = "flush" /\ working' = FALSE /\ failed' = TRUE
       \/ ppc = "idle" /\ UNCHANGED <<working, failed>>
    /\ ppc' = "select"
    /\ actions' = <<>>
    /\ UNCHANGED parsedLines
    /\ PrimaryStep

(* ... or fails, and keeps the lines, though some may have been indexed;   *)
(* the idle flush only logs that.                                          *)
PrimaryFails ==
    /\ ppc \in {"flush", "idle"}
    /\ ~esUp
    /\ \E some \in SUBSET Range(actions) : esDocs' = esDocs \cup some
    /\ \/ ppc = "flush" /\ working' = FALSE /\ failed' = TRUE
       \/ ppc = "idle" /\ UNCHANGED <<working, failed>>
    /\ ppc' = "select"
    /\ UNCHANGED <<parsedLines, actions>>
    /\ PrimaryStep

(* Elasticsearch becomes unavailable, or available again.                  *)
EsToggles ==
    /\ EsMayFail
    /\ esUp' = ~esUp
    /\ UNCHANGED <<restoreVars, parsedLines, primaryVars, esDocs, killed>>
    /\ UNCHANGED <<tailVars, spoolVars>>

Restoring ==
    \/ ReaderStarts
    \/ ReaderLists
    \/ ReaderFindsNone
    \/ ReaderFollows
    \/ ReaderUnpacks
    \/ ReaderPanics
    \/ ReaderSends
    \/ ReaderAtEOF
    \/ ReaderReceives
    \/ ReaderPushes
    \/ ReaderStops
    \/ ReaderJoins
    \/ ReaderRemoves
    \/ ReaderUnlinks

Indexing ==
    \/ PrimaryConnects
    \/ PrimaryIsFatal
    \/ PrimaryAdds
    \/ PrimaryWaits
    \/ PrimaryPings
    \/ PrimaryIdles
    \/ PrimaryFlushes
    \/ PrimaryFails
=============================================================================
