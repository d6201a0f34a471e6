------------------------------- MODULE Spool --------------------------------
(***************************************************************************)
(* The directory through which ulog2file hands its lines to file2queue:    *)
(* numbered files, each of them compressed in the directory and plain in   *)
(* unc/, and the two files of meta/.  Lines are the numbers 1, 2, ... in   *)
(* the order in which ulog2file got them.                                  *)
(***************************************************************************)
EXTENDS Integers, Sequences, SequencesExt, FiniteSets

CONSTANTS FileLines,  \* 500000 in both programs
          MaxFile     \* bound: the last file number

ASSUME SpoolAssumption == {FileLines, MaxFile} \subseteq Nat \ {0}

VARIABLES gz,       \* the compressed files there are, and the lines in them
          blank,    \* those of them that do not have a gzip header yet
          plain,    \* the lines of the files of unc/, also of removed ones,
                    \* which may still be open
          unc,      \* the files there are in unc/
          current,  \* meta/current, 0 as long as there is none
          status,   \* meta/status
          byTime,   \* the compressed files by the time of their last
                    \* modification
          tied      \* the last two of byTime have the same time

spoolVars == <<gz, blank, plain, unc, current, status, byTime, tied>>

Files == 1..MaxFile

SpoolInit ==
    /\ gz = <<>>
    /\ blank = {}
    /\ plain = [k \in Files |-> <<>>]
    /\ unc = {}
    /\ current = 0
    /\ status = 0
    /\ byTime = <<>>
    /\ tied = FALSE

SpoolTypeOK ==
    /\ DOMAIN gz \subseteq Files
    /\ \A k \in DOMAIN gz : gz[k] \in Seq(Nat)
    /\ blank \subseteq DOMAIN gz
    /\ plain \in [Files -> Seq(Nat)]
    /\ unc \subseteq Files
    /\ {current, status} \subseteq 0..MaxFile
    /\ byTime \in Seq(Files)
    /\ Range(byTime) = DOMAIN gz /\ IsInjective(byTime)
    /\ tied \in BOOLEAN

(* File k is modified now.                                                 *)
Touch(k) == byTime' = Append(RemoveFirst(byTime, k), k)

(* os.Create twice: file k is there and empty, whatever it was before.     *)
CreateFile(k) ==
    /\ gz' = [n \in DOMAIN gz \cup {k} |-> IF n = k THEN <<>> ELSE gz[n]]
    /\ blank' = blank \cup {k}
    /\ plain' = [plain EXCEPT ![k] = <<>>]
    /\ unc' = unc \cup {k}
    /\ Touch(k)

(* The lines that have not been removed from the directory.                *)
Spooled == UNION {Range(gz[k]) : k \in DOMAIN gz}

(* List()[0]: the files that may come first in an unstable sort by time.   *)
Oldest ==
    {k \in DOMAIN gz :
        \/ k = byTime[1]
        \/ tied /\ Len(byTime) = 2 /\ k = byTime[2]}
=============================================================================
