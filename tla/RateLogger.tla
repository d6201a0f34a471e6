----------------------------- MODULE RateLogger ------------------------------
(***************************************************************************)
(* The rateLogger goroutine (ulog2queue.go): it is the only receiver of    *)
(* ctx.parsedRate and ctx.backupRate, and every five seconds it asks for a *)
(* restore if the number of lines backed up has not moved since the tick   *)
(* before.  The totals, which are only printed, are left out.              *)
(***************************************************************************)
EXTENDS Integers

CONSTANT MaxRate   \* bound: the largest value of backupRatecount

ASSUME LoggerAssumption == MaxRate \in Nat \ {0}

VARIABLES lpc,              \* "select", or "notify": blocked on restoreStart
          backupRatecount,  \* the local variable of rateLogger
          backupRateInt     \* ctx.backupRateInt

loggerVars == <<lpc, backupRatecount, backupRateInt>>

LoggerInit ==
    /\ lpc = "select"
    /\ backupRatecount = 0
    /\ backupRateInt = 0

LoggerTypeOK ==
    /\ lpc \in {"select", "notify"}
    /\ backupRatecount \in 0..MaxRate
    /\ backupRateInt \in 0..MaxRate

-----------------------------------------------------------------------------
(* The logger's half of an exchange on ctx.parsedRate.                     *)
LoggerParsedRate ==
    /\ lpc = "select"
    /\ UNCHANGED loggerVars

(* The logger's half of an exchange on ctx.backupRate: when more than five *)
(* seconds have passed since the last report the count starts again at 0.  *)
(* The model lets them have passed by the time the count exceeds MaxRate.  *)
LoggerBackupRate ==
    /\ lpc = "select"
    /\ \/ /\ backupRatecount < MaxRate
          /\ backupRatecount' = backupRatecount + 1
       \/ backupRatecount' = 0
    /\ UNCHANGED <<lpc, backupRateInt>>

(* The five second ticker.                                                 *)
LoggerTick ==
    /\ lpc = "select"
    /\ IF backupRatecount = backupRateInt
       THEN lpc' = "notify" /\ UNCHANGED backupRateInt
       ELSE backupRateInt' = backupRatecount /\ UNCHANGED lpc
    /\ UNCHANGED backupRatecount

(* The logger's half of an exchange on ctx.restoreStart.                   *)
LoggerNotified ==
    /\ lpc = "notify"
    /\ lpc' = "select"
    /\ UNCHANGED <<backupRatecount, backupRateInt>>
=============================================================================
