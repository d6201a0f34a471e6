------------------------------- MODULE Primary -------------------------------
(***************************************************************************)
(* The doPrimaryTask goroutines with the Elasticsearch backend             *)
(* (primary.go, es.go) and the bulk service of the elastic client they     *)
(* call: one buffer of actions per goroutine, sent when it holds Bulk of   *)
(* them or when the goroutine has been idle.  Do() empties the buffer only *)
(* when it returns no error.                                               *)
(***************************************************************************)
EXTENDS Context

CONSTANTS Primaries,  \* the doPrimaryTask goroutines (Backend["es"].Workers)
          Bulk,       \* Backend["es"].Bulk
          Refusable,  \* lines whose document Elasticsearch may refuse
          EsMayFail   \* whether Elasticsearch can become unavailable

ASSUME PrimaryAssumption ==
    /\ Bulk \in Nat \ {0}
    /\ Refusable \subseteq Line
    /\ EsMayFail \in BOOLEAN

VARIABLES
    ppc,      \* where goroutine p is: "select", "rate", "flush", "divert",
              \* "recovered" and "idle" (both blocked on restoreStart)
    working,  \* the local variables of doPrimaryTask
    failed,
    cooling,  \* at most ten seconds have passed since stopworking
    actions,  \* p's bulkRequest: the documents it has not got rid of
    pline,    \* the line p holds while it is blocked on ctx.backupLines
    esUp,     \* whether Elasticsearch answers
    esDocs,   \* the lines Elasticsearch has a document of
    refused   \* lines whose item failed in a bulk that succeeded

primaryVars ==
    <<ppc, working, failed, cooling, actions, pline, esUp, esDocs, refused>>

PrimaryInit ==
    /\ ppc = [p \in Primaries |-> "select"]
    /\ working = [p \in Primaries |-> TRUE]
    /\ failed = [p \in Primaries |-> FALSE]
    /\ cooling = [p \in Primaries |-> FALSE]
    /\ actions = [p \in Primaries |-> <<>>]
    /\ pline = [p \in Primaries |-> NoLine]
    /\ esUp = TRUE
    /\ esDocs = {}
    /\ refused = {}

PrimaryTypeOK ==
    /\ ppc \in [Primaries ->
           {"select", "rate", "flush", "divert", "recovered", "idle"}]
    /\ working \in [Primaries -> BOOLEAN]
    /\ failed \in [Primaries -> BOOLEAN]
    /\ cooling \in [Primaries -> BOOLEAN]
    /\ actions \in [Primaries -> Seq(Line)]
    /\ pline \in [Primaries -> Line \cup {NoLine}]
    /\ esUp \in BOOLEAN
    /\ esDocs \subseteq Line
    /\ refused \subseteq Line

-----------------------------------------------------------------------------
(* BulkService.Do() returns no error: every document is in the index but   *)
(* those whose item failed, which Flush does not look at; the buffer is    *)
(* emptied.                                                                *)
BulkAccepted(p) ==
    /\ esUp
    /\ \E bad \in SUBSET (Range(actions[p]) \cap Refusable) :
          /\ esDocs' = esDocs \cup (Range(actions[p]) \ bad)
          /\ refused' = refused \cup bad
    /\ actions' = [actions EXCEPT ![p] = <<>>]

(* Mutant: the buffer is emptied whether or not there was an answer.       *)
BulkFailedEmptied(p) ==
    /\ ~esUp
    /\ \E part \in SUBSET Range(actions[p]) : esDocs' = esDocs \cup part
    /\ actions' = [actions EXCEPT ![p] = <<>>]
    /\ UNCHANGED refused

(* BulkService.Do() returns an error: some of the documents may be in the  *)
(* index all the same (the answer was lost); the buffer is kept.           *)
BulkFailed(p) ==
    /\ ~esUp
    /\ \E part \in SUBSET Range(actions[p]) : esDocs' = esDocs \cup part
    /\ UNCHANGED <<actions, refused>>

-----------------------------------------------------------------------------
(* A line arrives while the backend works: BulkAdd, up to its send on      *)
(* ctx.parsedRate.                                                         *)
PrimaryAdd(p) ==
    /\ ppc[p] = "select"
    /\ parsedLines # <<>>
    /\ working[p]
    /\ parsedLines' = Tail(parsedLines)
    /\ actions' = [actions EXCEPT ![p] = Append(@, Head(parsedLines))]
    /\ ppc' = [ppc EXCEPT ![p] = "rate"]
    /\ UNCHANGED <<lines, backupLines, buffering>>
    /\ UNCHANGED <<working, failed, cooling, pline, esUp, esDocs, refused>>

(* The rate logger takes the 1 from ctx.parsedRate (the primary's half of  *)
(* the exchange); the goroutine goes on to flush a full buffer.            *)
PrimaryRated(p) ==
    /\ ppc[p] = "rate"
    /\ ppc' = [ppc EXCEPT ![p] =
                  IF Len(actions[p]) >= Bulk THEN "flush" ELSE "select"]
    /\ UNCHANGED <<working, failed, cooling, actions, pline>>
    /\ UNCHANGED <<esUp, esDocs, refused>>

(* The flush of a full buffer and what doPrimaryTask makes of its result.  *)
PrimaryFlush(p) ==
    /\ ppc[p] = "flush"
    /\ \/ /\ BulkAccepted(p)
          /\ ppc' = [ppc EXCEPT ![p] = IF failed[p] THEN "recovered"
                                                    ELSE "select"]
          /\ UNCHANGED <<working, failed, cooling>>
       \/ /\ BulkFailed(p)
          /\ working' = [working EXCEPT ![p] = FALSE]
          /\ failed' = [failed EXCEPT ![p] = TRUE]
          /\ cooling' = [cooling EXCEPT ![p] = TRUE]
          /\ ppc' = [ppc EXCEPT ![p] = "select"]
    /\ UNCHANGED <<contextVars, pline, esUp>>

(* A line arrives while the backend does not work.                         *)
PrimaryTakeDivert(p) ==
    /\ ppc[p] = "select"
    /\ parsedLines # <<>>
    /\ ~working[p]
    /\ parsedLines' = Tail(parsedLines)
    /\ pline' = [pline EXCEPT ![p] = Head(parsedLines)]
    /\ ppc' = [ppc EXCEPT ![p] = "divert"]
    /\ UNCHANGED <<lines, backupLines, buffering>>
    /\ UNCHANGED <<working, failed, cooling, actions, esUp, esDocs, refused>>

(* It goes to the backup; ten seconds after the failure the goroutine      *)
(* pings Elasticsearch and works again, or waits another ten seconds.      *)
PrimaryDivert(p) ==
    /\ ppc[p] = "divert"
    /\ Len(backupLines) < BackupCap
    /\ backupLines' = Append(backupLines, pline[p])
    /\ pline' = [pline EXCEPT ![p] = NoLine]
    /\ failed' = [failed EXCEPT ![p] = TRUE]
    /\ working' = [working EXCEPT ![p] = ~cooling[p] /\ esUp]
    /\ cooling' = [cooling EXCEPT ![p] = cooling[p] \/ ~esUp]
    /\ ppc' = [ppc EXCEPT ![p] = "select"]
    /\ UNCHANGED <<lines, parsedLines, buffering>>
    /\ UNCHANGED <<actions, esUp, esDocs, refused>>

(* Ten seconds without a line: flush what there is unless the backend has  *)
(* failed, ignore the result, then tell the backup to restore.             *)
PrimaryIdle(p) ==
    /\ ppc[p] = "select"
    /\ parsedLines = <<>>
    /\ IF actions[p] # <<>> /\ ~failed[p]
       THEN BulkAccepted(p) \/ BulkFailed(p)
       ELSE UNCHANGED <<actions, esDocs, refused>>
    /\ ppc' = [ppc EXCEPT ![p] = "idle"]
    /\ UNCHANGED <<contextVars, working, failed, cooling, pline, esUp>>

(* Mutant: `failed = false` is forgotten after a recovery.                 *)
PrimaryNotifiedStillFailed(p) ==
    /\ ppc[p] \in {"recovered", "idle"}
    /\ ppc' = [ppc EXCEPT ![p] = "select"]
    /\ UNCHANGED <<working, failed, cooling, actions, pline>>
    /\ UNCHANGED <<esUp, esDocs, refused>>

(* The backup takes the id from ctx.restoreStart (the primary's half).     *)
(* After a recovery this ends the outage.                                  *)
PrimaryNotified(p) ==
    /\ ppc[p] \in {"recovered", "idle"}
    /\ failed' = [failed EXCEPT ![p] = IF ppc[p] = "recovered" THEN FALSE
                                                               ELSE @]
    /\ ppc' = [ppc EXCEPT ![p] = "select"]
    /\ UNCHANGED <<working, cooling, actions, pline, esUp, esDocs, refused>>

-----------------------------------------------------------------------------
(* More than ten seconds have passed since stopworking.                    *)
CoolDown(p) ==
    /\ cooling[p]
    /\ cooling' = [cooling EXCEPT ![p] = FALSE]
    /\ UNCHANGED <<contextVars, ppc, working, failed, actions, pline>>
    /\ UNCHANGED <<esUp, esDocs, refused>>

(* Elasticsearch becomes unavailable, or available again.                  *)
EsToggle ==
    /\ EsMayFail \/ ~esUp
    /\ esUp' = ~esUp
    /\ UNCHANGED <<contextVars, ppc, working, failed, cooling, actions, pline>>
    /\ UNCHANGED <<esDocs, refused>>
=============================================================================
