------------------------------ MODULE Pipeline ------------------------------
(***************************************************************************)
(* ulog2file and file2queue on one spool.  The two programs share nothing  *)
(* but the directory: which file is being written is what meta/current     *)
(* says, and that a file is complete is what file2queue counts.  Two       *)
(* delays in the code are taken to be long enough for what they wait for,  *)
(* and stand as guards in RemovesPlain and Wakes.                          *)
(***************************************************************************)
EXTENDS Ulog2file, File2queue

VARIABLES dropped,   \* history: the lines the waiting loop has taken
          begun,     \* history: the files a process of ulog2file has begun
                     \* with
          recreated  \* history: those of them that were there already

startVars == <<begun, recreated>>
vars == <<spoolVars, writerVars, tailVars, readerVars, dropped, startVars>>

Init ==
    /\ SpoolInit
    /\ WriterInit
    /\ TailInit
    /\ ReaderInit
    /\ dropped = {}
    /\ begun = {}
    /\ recreated = {}

(* The variables keep to their types.                                      *)
TypeOK ==
    /\ SpoolTypeOK
    /\ WriterTypeOK
    /\ TailTypeOK
    /\ ReaderTypeOK
    /\ dropped \subseteq 1..MaxLine
    /\ recreated \subseteq begun /\ begun \subseteq Files

-----------------------------------------------------------------------------
(* A file that is created again while the reader has it open is truncated  *)
(* under the tail, or under the unpacker, which has read ahead a little.   *)
WriterBegins ==
    /\ WriterStart
    /\ truncated' = (truncated \/ (tpc \notin {"off", "open"}
                                     /\ tfile = backupcount'))
    /\ \/ ~(rpc = "gz" /\ rfile = backupcount') /\ UNCHANGED rest
       \/ /\ rpc = "gz" /\ rfile = backupcount'
          /\ \E n \in 0..Len(rest) : rest' = SubSeq(rest, 1, n)
    /\ begun' = begun \cup {backupcount'}
    /\ recreated' = recreated \cup ({backupcount'} \cap DOMAIN gz)
    /\ UNCHANGED <<tpc, tfile, tpos, tline, dying, rpc, rfile, rline, count>>
    /\ UNCHANGED <<parsedLines, primaryVars, esUp, esDocs, killed, dropped>>

(* Thirty seconds are longer than the writer needs to name the next file,  *)
(* and a tail to open its file or to see that it has grown.                *)
RemovesPlain(k) ==
    /\ wpc # "current"
    /\ tfile = k =>
          tpc # "open" /\ ~(tpc = "wait" /\ tpos < Len(plain[k]))
    /\ RemovePlain(k)

Writes ==
    /\ \/ WriterNamesFile
       \/ WriterReceive
       \/ WriterIdle
       \/ WriterWrites
       \/ WriterFlushed
       \/ WriterRotates
       \/ WriterNamesNext
       \/ WriterNotesNumber
       \/ WriterRestarts
       \/ \E k \in Files : RemovesPlain(k)
    /\ UNCHANGED <<tailVars, readerVars, dropped, startVars>>

(* What ulog2file does not do itself.                                      *)
Environment ==
    /\ LineArrives \/ WriterDiesNow
    /\ UNCHANGED <<tailVars, readerVars, dropped, startVars>>

(* Two seconds are longer than a flush and a change of files.              *)
Wakes ==
    /\ wpc \notin {"flush", "rotate", "current", "status"}
    /\ ReaderWakes

Tails ==
    /\ Tailing
    /\ UNCHANGED <<spoolVars, readerVars, writerVars, dropped, startVars>>

Restores ==
    /\ Restoring \/ Wakes
    /\ UNCHANGED <<writerVars, dropped, startVars>>

(* The primary; the line that wakes it from its wait is dropped.           *)
Indexes ==
    /\ Indexing
    /\ dropped' = IF ppc' = "waiting" THEN dropped \cup {Head(parsedLines)}
                                      ELSE dropped
    /\ UNCHANGED <<writerVars, startVars>>

Disturbs ==
    /\ ReaderKilled \/ EsToggles
    /\ UNCHANGED <<writerVars, dropped, startVars>>

Next ==
    \/ WriterBegins
    \/ Writes
    \/ Environment
    \/ Tails
    \/ Restores
    \/ Indexes
    \/ Disturbs

Spec == Init /\ [][Next]_vars

(* Each goroutine goes on; lines need not come, nothing needs to fail, and *)
(* of what can be chosen in a select or a sort, nothing is promised.       *)
FairSpec ==
    /\ Spec
    /\ WF_vars(WriterBegins \/ Writes)
    /\ WF_vars(Tails)
    /\ WF_vars(Restores)
    /\ WF_vars(Indexes)

-----------------------------------------------------------------------------
(* The lines ulog2file still has to put into a file that is there.         *)
InWriter ==
    Range(backupLines)
    \cup {l \in Range(bulkRequest) : backupcount \in DOMAIN gz}

(* The lines in the memory of file2queue.                                  *)
InReader ==
    Range(parsedLines) \cup Range(actions) \cup Range(rest)
    \cup ({rline} \ {0})
    \cup (IF tpc = "send" THEN {tline} ELSE {})

Safe == InWriter \cup Spooled \cup InReader \cup esDocs

(* The line after the ones file2queue counts, in the first file of a       *)
(* process of ulog2file; it may still have to be flushed.                  *)
Overrun(k, l) ==
    LET pending == SubSeq(bulkRequest, written + 1, Len(bulkRequest))
        lines == plain[k] \o IF k = backupcount THEN pending ELSE <<>>
    IN  Len(lines) > FileLines /\ l = lines[FileLines + 1]

(* What is gone when ulog2file begins with a file that is there: its lines *)
(* and, when file2queue is unpacking it, what that has not read ahead.     *)
Overwritten(k) ==
    UNION ({Range(gz[m]) : m \in {k} \cap DOMAIN gz}
           \cup {Range(rest) : m \in {k} \cap {rfile}})

(* A line that was written, read or handed on vanishes only when one of    *)
(* the programs dies with it, when the primary of file2queue wakes from    *)
(* its wait (the line that woke it is dropped), when ulog2file begins with *)
(* a file that is there, because the process before it has not changed     *)
(* files or has not come to note that in meta/status (what was in the file *)
(* is gone, and a reader that had begun with it removes it too early), and *)
(* as the one line too many of the first file of a process.  Otherwise a   *)
(* file that file2queue removes has been read to its last line, and        *)
(* nothing is written to it any more.                                      *)
LostOnlyWhereKnown ==
    [][\A l \in Safe \ Safe' :
          \/ wpc' = "down" /\ l \in InWriter
          \/ rpc' = "down" /\ l \in InReader
          \/ l \in dropped'
          \/ /\ wpc = "start" /\ wpc' = "created" /\ backupcount' \in begun
             /\ l \in Overwritten(backupcount')
          \/ /\ rpc = "remove" /\ rpc' = "list"
             /\ rfile \in recreated
          \/ /\ rpc = "unlink" /\ rpc' = "sleep"
             /\ rfile \in recreated \/ Overrun(rfile, l)
          \/ /\ wpc = "select" /\ backupcount \notin DOMAIN gz
             /\ backupcount \in recreated \/ Overrun(backupcount, l)']_vars

(* The file that is unpacked is never the one that is written to: the      *)
(* reader looks at meta/current after it has listed the files, and the     *)
(* writer puts nothing into a file before it has named it there.  (After a *)
(* crash ulog2file may write to an old file again.)                        *)
NeverUnpacksOpenFile ==
    rpc \in {"gz", "remove"} /\ deaths = 0 => rfile # backupcount

(* RestoreTail leaves its loop only through its count: a tail that finds   *)
(* its file removed closes Lines, which would end the loop and remove the  *)
(* file early, but by then the reader has counted all the lines of it.     *)
LeavesByCount == rpc = "tail" => tpc # "off"

(* As long as no program dies, file2queue takes no line twice from the     *)
(* spool.                                                                  *)
TakenOnce ==
    deaths = 0 /\ killed = 0 =>
        LET taken == actions \o parsedLines \o rest
        IN  /\ IsInjective(taken)
            /\ Range(parsedLines \o rest) \cap esDocs = {}
            /\ rline \notin esDocs \cup Range(taken)

(* The places in which file2queue gets stuck: it waits for a tail that     *)
(* offers one more line, it follows the file of a writer that has died,    *)
(* the oldest file is one that was created and never written, or it has    *)
(* passed over a file because the next one had the same modification time. *)
Hung == rpc = "join" /\ tpc = "send"

AtEnd == tpc = "wait" /\ tpos = Len(plain[tfile])

DeadTail == AtEnd /\ deaths > 0 /\ tfile # backupcount

CrashLoop == \E k \in Oldest : k \in blank /\ k # current

PassedOver(l) == AtEnd /\ \E k \in DOMAIN gz : k < tfile /\ l \in Range(gz[k])

(* The bound MaxFile stops the writer.                                     *)
CutShort ==
    \/ wpc = "start" /\ status = MaxFile
    \/ wpc = "rotate" /\ backupcount = MaxFile

(* When Elasticsearch is up for good, every line that has come is indexed, *)
(* is known to be lost, or is in the bulk a failed flush has left (which   *)
(* only another line sends again) -- or file2queue is stuck in one of the  *)
(* four places.                                                            *)
SpoolDrains ==
    \A l \in 1..MaxLine :
        <>[]esUp => [](l <= arrived =>
            <>(\/ l \in esDocs
               \/ l \notin Safe \/ l \in dropped
               \/ failed /\ l \in Range(actions)
               \/ PassedOver(l)
               \/ Hung \/ DeadTail \/ CrashLoop \/ CutShort))

(* `Stop stops the tailing activity': RestoreTail goes on after t.Stop().  *)
StopStops == rpc = "join" ~> rpc # "join"
=============================================================================
