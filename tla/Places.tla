-------------------------------- MODULE Places --------------------------------
(***************************************************************************)
(* The places in which the goroutines that the disk and the redis variant  *)
(* share keep lines: the channels, the line a worker or a primary holds    *)
(* while it is blocked, and the bulk a primary collects.  A place is a     *)
(* kind and an owner; each variant adds the places of its backup.          *)
(***************************************************************************)
EXTENDS ParseWorker, Primary

Lines == <<"channel", "lines">>
ParsedLines == <<"channel", "parsedLines">>
BackupLines == <<"channel", "backupLines">>

SharedPlaces ==
    {Lines, ParsedLines, BackupLines}
    \cup ({"worker"} \X Workers)
    \cup ({"divert", "bulk"} \X Primaries)

(* What a variable with room for one line holds.                           *)
Hand(l) == IF l = NoLine THEN <<>> ELSE <<l>>

InPlace(x) ==
    CASE x = Lines -> lines
      [] x = ParsedLines -> parsedLines
      [] x = BackupLines -> backupLines
      [] x[1] = "worker" -> Hand(wline[x[2]])
      [] x[1] = "divert" -> Hand(pline[x[2]])
      [] x[1] = "bulk" -> actions[x[2]]

-----------------------------------------------------------------------------
(* What the places hold together.                                          *)
Contents(C) == UNION {Range(C[x]) : x \in DOMAIN C}

(* No line is in two places, nor twice in one.                             *)
Apart(C) ==
    \A x \in DOMAIN C : \A j \in DOMAIN C[x] :
        \A y \in DOMAIN C : \A k \in DOMAIN C[y] :
            C[x][j] = C[y][k] => x = y /\ j = k

(* Of what has a document, nothing is anywhere but in a bulk.              *)
DocsOnlyInBulks(C, docs) ==
    \A x \in DOMAIN C : x[1] # "bulk" => Range(C[x]) \cap docs = {}
=============================================================================
