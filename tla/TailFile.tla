------------------------------ MODULE TailFile ------------------------------
(***************************************************************************)
(* The tail library as file2queue uses it: the goroutine tailFileSync that *)
(* follows one plain file of the spool (Follow, Poll, no ReOpen) and hands *)
(* its lines over on the unbuffered channel Lines.                         *)
(***************************************************************************)
EXTENDS Spool

VARIABLES tpc,       \* where it is: "off", "open", "read", "send", "check",
                     \* "wait"
          tfile,     \* the file it follows
          tpos,      \* how many lines of it have been read
          tline,     \* the last of them
          dying,     \* Kill has been called
          truncated  \* the file was created anew while it was open

tailVars == <<tpc, tfile, tpos, tline, dying, truncated>>

TailInit ==
    /\ tpc = "off"
    /\ tfile = 1
    /\ tpos = 0
    /\ tline = 0
    /\ dying = FALSE
    /\ truncated = FALSE

TailTypeOK ==
    /\ tpc \in {"off", "open", "read", "send", "check", "wait"}
    /\ tfile \in Files
    /\ {tpos, tline} \subseteq Nat
    /\ dying \in BOOLEAN /\ truncated \in BOOLEAN

(* TailFile(file).                                                         *)
TailStarts(k) ==
    /\ tpc' = "open"
    /\ tfile' = k
    /\ tpos' = 0
    /\ tline' = 0
    /\ dying' = FALSE
    /\ truncated' = FALSE

(* The state of no tail.                                                   *)
TailForgotten ==
    /\ tpc' = "off"
    /\ tfile' = 1
    /\ tpos' = 0
    /\ tline' = 0
    /\ dying' = FALSE
    /\ truncated' = FALSE

(* OpenFile, as soon as the file exists.                                   *)
TailOpens ==
    /\ tpc = "open"
    /\ tfile \in unc
    /\ tpc' = "read"
    /\ truncated' = FALSE
    /\ UNCHANGED <<tfile, tpos, tline, dying>>

(* readLine: the next line, or the end of the file.                        *)
TailReads ==
    /\ tpc = "read"
    /\ IF tpos < Len(plain[tfile])
       THEN /\ tpc' = "send"
            /\ tpos' = tpos + 1
            /\ tline' = plain[tfile][tpos']
       ELSE tpc' = "wait" /\ UNCHANGED <<tpos, tline>>
    /\ UNCHANGED <<tfile, dying, truncated>>

(* sendLine: the receiver of Lines takes tline.                            *)
TailHandsOver ==
    /\ tpc = "send"
    /\ tpc' = "check"
    /\ tline' = 0
    /\ UNCHANGED <<tfile, tpos, dying, truncated>>

(* `select` on Dying after each line, and, when it waits for changes, on    *)
(* Dying and Deleted.                                                      *)
TailStops ==
    /\ \/ tpc \in {"check", "wait"} /\ dying
       \/ tpc = "wait" /\ tfile \notin unc
    /\ tpc' = "off"
    /\ UNCHANGED <<tfile, tpos, tline, dying, truncated>>

TailGoesOn ==
    /\ tpc = "check"
    /\ ~dying
    /\ tpc' = "read"
    /\ UNCHANGED <<tfile, tpos, tline, dying, truncated>>

(* waitForChanges: the file has grown, ...                                 *)
TailModified ==
    /\ tpc = "wait"
    /\ tpos < Len(plain[tfile])
    /\ tpc' = "read"
    /\ UNCHANGED <<tfile, tpos, tline, dying, truncated>>

(* ... or it was truncated since the last look and has not grown beyond    *)
(* its old size: it is opened again.                                       *)
TailTruncated ==
    /\ tpc = "wait"
    /\ truncated
    /\ tpos' = 0
    /\ truncated' = FALSE
    /\ tpc' = "read"
    /\ UNCHANGED <<tfile, tline, dying>>

Tailing ==
    \/ TailOpens
    \/ TailReads
    \/ TailStops
    \/ TailGoesOn
    \/ TailModified
    \/ TailTruncated
=============================================================================
