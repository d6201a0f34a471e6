----------------------------- MODULE RedisProofs -----------------------------
(***************************************************************************)
(* What holds of the program with the backup in redis, for every set of    *)
(* lines, every number of goroutines, every size of the channels and bulks *)
(* and every number of deaths, and whether or not redis and Elasticsearch  *)
(* fail.                                                                   *)
(***************************************************************************)
EXTENDS Ulog2queueRedis, GoroutineProofs

-----------------------------------------------------------------------------
(* The flag `restoring`: Restore answers an error of redis with            *)
(* restoreDone, and a new process starts without it.                       *)
LEMMA RestoringFrame ==
    RestoringIsTrue /\ UNCHANGED <<restoring, rpc, bpc, why>>
        => RestoringIsTrue'
BY DEF RestoringIsTrue

(* The steps of the backup task.                                           *)
LEMMA TaskKeeps ==
    ASSUME RestoringIsTrue,
           \/ BackupReceive \/ BackupIdle \/ BackupRestoreStart \/ BackupWrite
           \/ BackupFlushed \/ BackupFatal \/ BackupRestart
    PROVE  RestoringIsTrue'
BY DEF RestoringIsTrue, BackupReceive, BackupIdle, BackupRestoreStart,
       BackupWrite, BackupFlushed, BackupFatal, BackupRestart, restorerVars

(* The steps of Restore, and redis itself.                                 *)
LEMMA RestorerKeeps ==
    ASSUME RestoringIsTrue,
           \/ RestorePop \/ RestoreEmpty \/ RestorePopFails \/ RestoreHold
           \/ RestoreSend \/ RestoreDone \/ RedisToggle
    PROVE  RestoringIsTrue'
BY DEF RestoringIsTrue, RestorePop, RestoreEmpty, RestorePopFails,
       RestoreHold, RestoreSend, RestoreDone, RedisToggle, taskVars,
       restorerVars

LEMMA RestoringStep == RestoringIsTrue /\ [Next]_vars => RestoringIsTrue'
<1> SUFFICES ASSUME RestoringIsTrue, [Next]_vars PROVE RestoringIsTrue'
  OBVIOUS
<1>1. CASE UNCHANGED backupVars
  BY <1>1, RestoringFrame DEF backupVars, taskVars, restorerVars
<1>2. CASE ~UNCHANGED backupVars
  BY <1>2, TaskKeeps, RestorerKeeps
     DEF Next, vars, WorkerOnly, WorkerStep, PrimaryOnly, PrimaryStep,
         ParsedRate, RestoreStartByPrimary, RestoreStartByLogger, BackupOnly,
         FlushStep, RestoreStep, PopFails, TickStep, BackupRate, Fatal, Restart
<1> QED BY <1>1, <1>2

(* `restoring` is set exactly while a restore is being prepared or is      *)
(* running, for every number of goroutines and every size of channels and  *)
(* bulks, and whether or not redis and Elasticsearch fail (backup.go,      *)
(* redis.go).                                                              *)
THEOREM RestoringSurvivesErrors == Spec => []RestoringIsTrue
<1>1. Init => RestoringIsTrue
  BY DEF Init, BackupInit, RestoringIsTrue
<1> QED BY <1>1, RestoringStep, PTL DEF Spec

-----------------------------------------------------------------------------
(* What the types rest on: Restore has a line while it waits to send it,   *)
(* and only then, and the restoreStart branch starts it only if none is    *)
(* running.                                                                *)
RestoreShape ==
    /\ rline # NoLine <=> rpc \in {"hold", "send"}
    /\ bpc = "flush" /\ why = "restore" => rpc = "none"

IInv == TypeOK /\ HandsFull /\ RestoringIsTrue /\ RestoreShape

LEMMA BackupFrame ==
    ASSUME BackupTypeOK, RestoreShape, UNCHANGED backupVars
    PROVE  BackupTypeOK' /\ RestoreShape'
BY DEF BackupTypeOK, RestoreShape, backupVars, taskVars, restorerVars,
       redisVars

(* The backup's half of an exchange, and the steps that concern it alone.  *)
LEMMA TaskKeepsTypes ==
    ASSUME BackupTypeOK, RestoringIsTrue, RestoreShape,
           \/ BackupIdle \/ BackupRestoreStart \/ BackupWrite
           \/ BackupRestart \/ RestoreEmpty \/ RestoreHold \/ RestoreDone
           \/ RedisToggle
    PROVE  BackupTypeOK' /\ RestoreShape'
<1>1. CASE BackupIdle \/ BackupRestoreStart \/ BackupRestart
  BY <1>1 DEF BackupIdle, BackupRestoreStart, BackupRestart, BackupTypeOK,
              RestoringIsTrue, RestoreShape, taskVars, restorerVars, redisVars
<1>2. CASE BackupWrite
  BY <1>2 DEF BackupWrite, BackupTypeOK, RestoreShape, restorerVars,
              redisVars
<1>3. CASE RestoreEmpty \/ RestoreHold \/ RestoreDone \/ RedisToggle
  BY <1>3 DEF RestoreEmpty, RestoreHold, RestoreDone, RedisToggle,
              BackupTypeOK, RestoreShape, taskVars, restorerVars, redisVars
<1> QED BY <1>1, <1>2, <1>3

(* The steps that take a line in or pass one on.                           *)
LEMMA LinesKeepTypes ==
    ASSUME BackupTypeOK, RestoreShape, ContextTypeOK,
           \/ BackupReceive
           \/ BackupFlushed /\ UNCHANGED contextVars
           \/ RestorePop \/ RestorePopFails
           \/ RestoreSend
    PROVE  BackupTypeOK' /\ RestoreShape' /\ ContextTypeOK'
<1>1. CASE BackupReceive
  <2>1. /\ Head(backupLines) \in Line
        /\ Tail(backupLines) \in Seq(Line)
        /\ Len(Tail(backupLines)) <= BackupCap
    BY <1>1, ContextAssumption DEF BackupReceive, ContextTypeOK
  <2>2. ContextTypeOK'
    BY <1>1, <2>1 DEF BackupReceive, ContextTypeOK
  <2>3. /\ Append(bulkRequest, Head(backupLines)) \in Seq(Line)
        /\ Len(Append(bulkRequest, Head(backupLines))) = Len(bulkRequest) + 1
    BY <2>1 DEF BackupTypeOK
  <2>4. i' \in 0..(BackupBulk + 1)
    BY <1>1, RedisAssumption DEF BackupReceive, BackupTypeOK
  <2>5. BackupTypeOK' /\ RestoreShape'
    BY <1>1, <2>3, <2>4 DEF BackupReceive, restorerVars, redisVars,
                            BackupTypeOK, RestoreShape
  <2> QED BY <2>2, <2>5
<1>2. CASE BackupFlushed /\ UNCHANGED contextVars
  <2>1. queue \o bulkRequest \in Seq(Line)
    BY DEF BackupTypeOK
  <2>2. <<>> \in Seq(Line) /\ 0 \in 0..Len(<<>>)
    OBVIOUS
  <2>3. rpc' \in {"none", "pop", "hold", "send", "done"}
    BY <1>2 DEF BackupFlushed, BackupTypeOK
  <2>4. BackupTypeOK'
    BY <1>2, <2>1, <2>2, <2>3 DEF BackupFlushed, BackupTypeOK
  <2>5. RestoreShape'
    BY <1>2 DEF BackupFlushed, RestoreShape
  <2> QED BY <1>2, <2>4, <2>5, SharedFrames
<1>3. CASE RestorePop \/ RestorePopFails
  <2>1. queue # <<>> => Head(queue) \in Line /\ Tail(queue) \in Seq(Line)
    BY DEF BackupTypeOK
  <2>2. BackupTypeOK'
    BY <1>3, <2>1 DEF RestorePop, RestorePopFails, taskVars, BackupTypeOK
  <2>3. RestoreShape'
    BY <1>3, <2>1, ContextAssumption
       DEF RestorePop, RestorePopFails, RestoreShape, taskVars
  <2> QED BY <1>3, <2>2, <2>3, SharedFrames DEF RestorePop, RestorePopFails
<1>4. CASE RestoreSend
  <2>1. rline \in Line
    BY <1>4 DEF RestoreSend, RestoreShape, BackupTypeOK
  <2>2. ContextTypeOK'
    BY <1>4, <2>1, ContextAssumption DEF RestoreSend, ContextTypeOK
  <2>3. BackupTypeOK' /\ RestoreShape'
    BY <1>4 DEF RestoreSend, taskVars, redisVars, BackupTypeOK,
                RestoreShape
  <2> QED BY <2>2, <2>3
<1> QED BY <1>1, <1>2, <1>3, <1>4

-----------------------------------------------------------------------------
(* The places of this variant, and what they hold.                         *)
LEMMA BackupPlaces ==
    /\ {BulkRequest, Rline, Queue} \subseteq Places
    /\ SharedPlaces \subseteq Places
    /\ Places \ SharedPlaces = {BulkRequest, Rline, Queue}
    /\ BulkRequest # Rline /\ BulkRequest # Queue /\ Rline # Queue
    /\ BulkRequest[1] # "bulk" /\ Rline[1] # "bulk" /\ Queue[1] # "bulk"
BY DEF Places, SharedPlaces, BulkRequest, Rline, Queue, Lines, ParsedLines,
       BackupLines

HoldsByPlace ==
    /\ Holds \in [Places -> Seq(Line)]
    /\ \A x \in SharedPlaces : Holds[x] = InPlace(x)
    /\ Holds[BulkRequest] = bulkRequest
    /\ Holds[Rline] = Hand(rline)
    /\ Holds[Queue] = queue

LEMMA HoldsTyped == TypeOK => HoldsByPlace
<1> SUFFICES ASSUME TypeOK PROVE HoldsByPlace
  OBVIOUS
<1>1. \A l \in Line \cup {NoLine} : Hand(l) \in Seq(Line)
  BY DEF Hand
<1>2. \A x \in SharedPlaces : InPlace(x) \in Seq(Line)
  <2> SUFFICES ASSUME NEW x \in SharedPlaces PROVE InPlace(x) \in Seq(Line)
    OBVIOUS
  <2>1. CASE x \in {Lines, ParsedLines, BackupLines}
    BY <2>1, InPlaceByKind DEF ByKind, TypeOK, ContextTypeOK
  <2>2. CASE \E w \in Workers : x = <<"worker", w>>
    BY <1>1, <2>2, InPlaceByKind DEF ByKind, TypeOK, WorkerTypeOK
  <2>3. CASE \E p \in Primaries : x = <<"divert", p>>
    BY <1>1, <2>3, InPlaceByKind DEF ByKind, TypeOK, PrimaryTypeOK
  <2>4. CASE \E p \in Primaries : x = <<"bulk", p>>
    <3>1. PICK p \in Primaries : x = <<"bulk", p>>
      BY <2>4
    <3>2. InPlace(x) = actions[p]
      BY <3>1, InPlaceByKind DEF ByKind
    <3> QED BY <3>2 DEF TypeOK, PrimaryTypeOK
  <2> QED BY <2>1, <2>2, <2>3, <2>4, SharedKinds
<1>3. /\ \A x \in SharedPlaces : LinesIn(x) = InPlace(x)
      /\ LinesIn(BulkRequest) = bulkRequest
      /\ LinesIn(Rline) = Hand(rline)
      /\ LinesIn(Queue) = queue
  BY BackupPlaces DEF LinesIn
<1>4. /\ bulkRequest \in Seq(Line) /\ Hand(rline) \in Seq(Line)
      /\ queue \in Seq(Line)
  BY <1>1 DEF TypeOK, BackupTypeOK
<1>5. \A x \in Places : LinesIn(x) \in Seq(Line)
  BY <1>2, <1>3, <1>4, BackupPlaces
<1> QED BY <1>3, <1>5, BackupPlaces DEF HoldsByPlace, Holds

LEMMA HoldsTypedNext == TypeOK' => HoldsByPlace'
BY HoldsTyped, PTL

LEMMA HeldTyped == TypeOK => Held \subseteq Line
<1> SUFFICES ASSUME TypeOK, NEW l \in Held PROVE l \in Line
  OBVIOUS
<1>1. PICK x \in Places : l \in Range(Holds[x])
  BY HoldsTyped, ContentsMembers DEF Held, HoldsByPlace
<1> QED BY <1>1, HoldsTyped, LineRange DEF HoldsByPlace

-----------------------------------------------------------------------------
LEMMA Bounds ==
    /\ <<>> \in Seq(Line) /\ Len(<<>>) = 0 /\ 0 \in 0..Len(<<>>)
    /\ 0 <= LinesCap /\ 0 <= Buffer /\ 0 <= BackupCap
    /\ 0 \in 0..(BackupBulk + 1) /\ 0 \in 0..MaxDeaths
    /\ MaxDeaths \in Nat
<1>1. <<>> \in Seq(Line) /\ Len(<<>>) = 0 /\ 0 \in 0..Len(<<>>)
  OBVIOUS
<1>2. 0 <= LinesCap /\ 0 <= Buffer /\ 0 <= BackupCap
  BY ContextAssumption
<1>3. BackupBulk \in Nat /\ MaxDeaths \in Nat
  BY RedisAssumption
<1> QED BY <1>1, <1>2, <1>3

LEMMA InitIInv == Init => IInv
<1> SUFFICES ASSUME Init PROVE IInv
  OBVIOUS
<1>1. SharedTypes /\ LoggerTypeOK
  BY SharedInit DEF Init
<1>2. BackupTypeOK
  BY Bounds DEF Init, BackupInit, BackupTypeOK
<1>3. RestoringIsTrue /\ RestoreShape /\ lost \subseteq Line
  BY DEF Init, BackupInit, RestoringIsTrue, RestoreShape
<1> QED BY <1>1, <1>2, <1>3 DEF IInv, TypeOK, SharedTypes

(* What IInv says beyond the flag `restoring`, for which RestoringStep is. *)
Typed == TypeOK /\ HandsFull /\ RestoreShape

LEMMA SharedKeepsTyped ==
    ASSUME IInv,
           \/ \E l \in Line : WorkerOnly(TailRead(l))
           \/ \E w \in Workers : WorkerStep(w)
           \/ \E p \in Primaries : PrimaryStep(p) \/ PrimaryOnly(CoolDown(p))
           \/ EsToggle /\ UNCHANGED <<workerVars, backupVars, loggerVars, lost>>
    PROVE  Typed'
<1>1. SharedTypes /\ UNCHANGED <<backupVars, loggerVars, lost>>
  BY DEF IInv, TypeOK, SharedTypes, WorkerOnly, WorkerStep, PrimaryOnly,
         PrimaryStep
<1>2. SharedTypes'
  <2>1. ASSUME NEW l \in Line, WorkerOnly(TailRead(l)) PROVE SharedTypes'
    BY <1>1, <2>1, TailKeepsTypes DEF WorkerOnly
  <2>2. ASSUME NEW w \in Workers, WorkerStep(w) PROVE SharedTypes'
    BY <1>1, <2>2, WorkerKeepsTypes DEF WorkerOnly, WorkerStep
  <2>3. ASSUME NEW p \in Primaries, PrimaryStep(p) PROVE SharedTypes'
    BY <1>1, <2>3, PrimaryKeepsTypes DEF PrimaryOnly, PrimaryStep
  <2>4. ASSUME NEW p \in Primaries, PrimaryOnly(CoolDown(p))
        PROVE  SharedTypes'
    BY <1>1, <2>4, OutsideKeepsTypes DEF PrimaryOnly
  <2>5. CASE EsToggle /\ UNCHANGED workerVars
    BY <1>1, <2>5, OutsideKeepsTypes
  <2> QED BY <2>1, <2>2, <2>3, <2>4, <2>5
<1> QED BY <1>1, <1>2, SharedFrames, BackupFrame
        DEF IInv, Typed, TypeOK, SharedTypes

LEMMA ExchangeKeepsTyped ==
    ASSUME IInv,
           \/ BackupRate \/ RestoreStartByLogger \/ TickStep
           \/ \E p \in Primaries : ParsedRate(p) \/ RestoreStartByPrimary(p)
    PROVE  Typed'
<1> USE DEF IInv, Typed, TypeOK, SharedTypes
<1>1. ASSUME NEW p \in Primaries, ParsedRate(p) PROVE Typed'
  BY <1>1, NotifiedKeepsTypes, LoggerKeepsTypes, BackupFrame DEF ParsedRate
<1>2. ASSUME NEW p \in Primaries, RestoreStartByPrimary(p) PROVE Typed'
  BY <1>2, NotifiedKeepsTypes, TaskKeepsTypes, SharedFrames
     DEF RestoreStartByPrimary
<1>3. CASE BackupRate \/ RestoreStartByLogger
  BY <1>3, TaskKeepsTypes, LoggerKeepsTypes, SharedFrames
     DEF BackupRate, RestoreStartByLogger
<1>4. CASE TickStep
  BY <1>4, LoggerKeepsTypes, SharedFrames, BackupFrame DEF TickStep
<1> QED BY <1>1, <1>2, <1>3, <1>4

LEMMA BackupKeepsTyped ==
    ASSUME IInv,
           \/ BackupOnly(RedisToggle) \/ BackupOnly(BackupReceive)
           \/ BackupOnly(BackupIdle) \/ FlushStep \/ RestoreStep
           \/ BackupOnly(RestoreDone) \/ Restart
    PROVE  Typed'
<1>1. UNCHANGED <<workerVars, primaryVars, loggerVars, lost>>
  BY DEF BackupOnly, FlushStep, RestoreStep, Restart
<1>2. ASSUME \/ BackupReceive
             \/ BackupFlushed /\ UNCHANGED contextVars
             \/ RestorePop
             \/ RestoreSend
      PROVE  Typed'
  BY <1>1, <1>2, LinesKeepTypes, SharedFrames DEF IInv, Typed, TypeOK
<1>3. CASE \/ BackupOnly(RedisToggle) \/ BackupOnly(BackupIdle)
           \/ BackupOnly(RestoreEmpty \/ RestoreHold)
           \/ BackupOnly(RestoreDone) \/ Restart
  <2>1. /\ UNCHANGED contextVars
        /\ \/ RedisToggle \/ BackupIdle \/ RestoreEmpty \/ RestoreHold
           \/ RestoreDone \/ BackupRestart
    BY <1>3 DEF BackupOnly, Restart, RedisToggle, BackupIdle, RestoreEmpty,
                RestoreHold, RestoreDone
  <2> QED BY <1>1, <2>1, TaskKeepsTypes, SharedFrames DEF IInv, Typed, TypeOK
<1> QED BY <1>2, <1>3 DEF FlushStep, RestoreStep, BackupOnly

(* The answer that was lost, and the end of the process.                   *)
LEMMA LossKeepsTyped == ASSUME IInv, PopFails \/ Fatal PROVE Typed'
<1> USE DEF IInv, Typed, TypeOK
<1>1. CASE PopFails
  <2>1. lost' \subseteq Line
    BY <1>1, LineRange DEF PopFails, BackupTypeOK
  <2> QED BY <1>1, <2>1, LinesKeepTypes, SharedFrames
          DEF PopFails, RestorePopFails
<1>2. CASE Fatal
  <2>1. lost' \subseteq Line
    BY <1>2, HeldTyped DEF Fatal
  <2>2. ContextTypeOK'
    BY <1>2, Bounds DEF Fatal, ContextTypeOK
  <2>3. WorkerTypeOK'
    BY <1>2 DEF Fatal, WorkerTypeOK
  <2>4. PrimaryTypeOK'
    BY <1>2, Bounds DEF Fatal, PrimaryTypeOK
  <2>5. LoggerTypeOK'
    BY <1>2, LoggerAssumption DEF Fatal, LoggerTypeOK
  <2>6. HandsFull'
    BY <1>2 DEF Fatal, HandsFull
  <2>7. BackupTypeOK'
    <3>1. queue' \in Seq(Line)
      <4>1. queue \in Seq(Line) /\ queue \o bulkRequest \in Seq(Line)
        BY DEF BackupTypeOK
      <4>2. queue' = queue \/ queue' = queue \o bulkRequest
        BY <1>2 DEF Fatal, BackupFatal
      <4> QED BY <4>1, <4>2
    <3>2. deaths' \in 0..MaxDeaths
      BY <1>2, Bounds DEF Fatal, BackupFatal, BackupTypeOK
    <3> QED BY <1>2, <3>1, <3>2, Bounds DEF Fatal, BackupFatal, BackupTypeOK
  <2>8. RestoreShape'
    BY <1>2 DEF Fatal, BackupFatal, RestoreShape
  <2> QED BY <2>1, <2>2, <2>3, <2>4, <2>5, <2>6, <2>7, <2>8
<1> QED BY <1>1, <1>2

LEMMA StepIInv == IInv /\ [Next]_vars => IInv'
<1> SUFFICES ASSUME IInv, [Next]_vars PROVE IInv'
  OBVIOUS
<1>1. RestoringIsTrue'
  BY RestoringStep DEF IInv
<1>2. Typed'
  <2>1. CASE UNCHANGED vars
    BY <2>1, SharedFrames, BackupFrame DEF vars, IInv, Typed, TypeOK
  <2>2. CASE Next
    BY <2>2, SharedKeepsTyped, ExchangeKeepsTyped, BackupKeepsTyped,
       LossKeepsTyped DEF Next
  <2> QED BY <2>1, <2>2
<1> QED BY <1>1, <1>2 DEF IInv, Typed

LEMMA Inductive == Spec => []IInv
BY InitIInv, StepIInv, PTL DEF Spec

(* Every variable keeps its type, no channel exceeds its capacity, and the *)
(* process starts again with empty ones (types.go, ulog2queue.go main,     *)
(* redis.go).                                                              *)
THEOREM TypeCorrect == Spec => []TypeOK
BY Inductive, PTL DEF IInv

-----------------------------------------------------------------------------
(* What a step other than a read does to the places.  It passes lines on,  *)
(* or sends a bulk, ...                                                    *)
Stays == UNCHANGED <<Holds, esDocs, refused, lost>>

Passes == Passed(Places, Holds, Holds') /\ UNCHANGED <<esDocs, refused, lost>>

Sends == Sent(Places, Holds, Holds') /\ UNCHANGED lost

(* ... or it loses lines to a failure of redis: those at the head of some  *)
(* places, or all of them, possibly after a bulk was passed on.            *)
Loses ==
    \E E \in [Places -> Seq(Line)] :
        /\ E = Holds \/ Passed(Places, Holds, E)
        /\ \A x \in Places : \E m \in Seq(Line) : E[x] = m \o Holds'[x]
        /\ UNCHANGED <<esDocs, refused>>
        /\ lost \subseteq lost' /\ lost' \subseteq lost \cup Held
        /\ Held \subseteq Held' \cup esDocs \cup lost'
        /\ ~redisUp

LEMMA AroundBackup ==
    ASSUME HoldsByPlace, HoldsByPlace',
           UNCHANGED <<bulkRequest, rline, queue>>
    PROVE  Around(Places, Holds, Holds')
BY BackupPlaces DEF HoldsByPlace, Around

(* A step that leaves the goroutines of the other parts alone.             *)
LEMMA SharedStays ==
    ASSUME UNCHANGED <<lines, parsedLines, backupLines, wline, pline, actions>>,
           NEW x \in SharedPlaces
    PROVE  InPlace(x)' = InPlace(x)
<1>1. CASE x \in {Lines, ParsedLines, BackupLines}
  BY <1>1, InPlaceByKind DEF ByKind
<1>2. CASE \E w \in Workers : x = <<"worker", w>>
  BY <1>2, InPlaceByKind DEF ByKind
<1>3. CASE \E p \in Primaries : x = <<"divert", p>> \/ x = <<"bulk", p>>
  BY <1>3, InPlaceByKind DEF ByKind
<1> QED BY <1>1, <1>2, <1>3, SharedKinds

LEMMA NothingMoves ==
    ASSUME HoldsByPlace, HoldsByPlace',
           UNCHANGED <<lines, parsedLines, backupLines, wline, pline, actions>>,
           UNCHANGED <<bulkRequest, rline, queue>>
    PROVE  Holds' = Holds
<1>1. ASSUME NEW x \in Places PROVE Holds'[x] = Holds[x]
  <2>1. CASE x \in SharedPlaces
    BY <2>1, SharedStays DEF HoldsByPlace
  <2>2. CASE x \notin SharedPlaces
    BY <2>2, BackupPlaces DEF HoldsByPlace
  <2> QED BY <2>1, <2>2
<1> QED BY <1>1 DEF HoldsByPlace

LEMMA WorkerPassesOn ==
    ASSUME IInv, HoldsByPlace, HoldsByPlace', NEW w \in Workers, WorkerStep(w)
    PROVE  Passes \/ Stays
<1>1. /\ UNCHANGED <<primaryVars, backupVars, lost>>
      /\ \/ WorkerTake(w) \/ WorkerSendPrimary(w)
         \/ WorkerSendBackup(w) \/ WorkerIdle(w)
  BY DEF WorkerStep, WorkerOnly
<1>2. Around(Places, Holds, Holds')
  BY <1>1, AroundBackup DEF backupVars, taskVars, restorerVars, redisVars
<1>3. Passed(Places, Holds, Holds') \/ Holds' = Holds
  BY <1>1, <1>2, WorkerPasses DEF IInv, TypeOK, HoldsByPlace
<1> QED BY <1>1, <1>3 DEF Passes, Stays, primaryVars

LEMMA PrimaryPassesOn ==
    ASSUME IInv, HoldsByPlace, HoldsByPlace',
           NEW p \in Primaries, PrimaryStep(p)
    PROVE  Passes \/ Sends
<1>1. /\ UNCHANGED <<workerVars, backupVars, lost>>
      /\ \/ PrimaryAdd(p) \/ PrimaryFlush(p) \/ PrimaryTakeDivert(p)
         \/ PrimaryDivert(p) \/ PrimaryIdle(p)
  BY DEF PrimaryStep, PrimaryOnly
<1>2. Around(Places, Holds, Holds')
  BY <1>1, AroundBackup DEF backupVars, taskVars, restorerVars, redisVars
<1>3. \/ Passed(Places, Holds, Holds') /\ UNCHANGED <<esDocs, refused>>
      \/ Sent(Places, Holds, Holds')
  BY <1>1, <1>2, PrimaryPasses DEF IInv, TypeOK, HoldsByPlace
<1> QED BY <1>1, <1>3 DEF Passes, Sends

(* The exchanges, the clocks, the outages, and what Restore does without a *)
(* line: nothing moves.                                                    *)
LEMMA OthersStay ==
    ASSUME HoldsByPlace, HoldsByPlace',
           \/ UNCHANGED vars
           \/ EsToggle /\ UNCHANGED <<workerVars, backupVars, loggerVars, lost>>
           \/ BackupOnly(RedisToggle) \/ BackupOnly(BackupIdle)
           \/ BackupOnly(RestoreEmpty) \/ BackupOnly(RestoreHold)
           \/ BackupOnly(RestoreDone) \/ Restart
           \/ TickStep \/ BackupRate \/ RestoreStartByLogger
           \/ \E p \in Primaries : \/ PrimaryOnly(CoolDown(p))
                                   \/ ParsedRate(p)
                                   \/ RestoreStartByPrimary(p)
    PROVE  Stays
<1>1. /\ UNCHANGED <<lines, parsedLines, backupLines, wline, pline, actions>>
      /\ UNCHANGED <<bulkRequest, rline, queue, esDocs, refused, lost>>
  <2> USE DEF vars, contextVars, workerVars, primaryVars, backupVars, taskVars,
              restorerVars, redisVars
  <2>1. CASE UNCHANGED vars
    BY <2>1
  <2>2. CASE EsToggle /\ UNCHANGED <<workerVars, backupVars, loggerVars, lost>>
    BY <2>2 DEF EsToggle
  <2>3. CASE \/ BackupOnly(RedisToggle) \/ BackupOnly(BackupIdle)
             \/ BackupOnly(RestoreEmpty) \/ BackupOnly(RestoreHold)
    BY <2>3 DEF BackupOnly, RedisToggle, BackupIdle, RestoreEmpty, RestoreHold
  <2>4. CASE BackupOnly(RestoreDone) \/ Restart
    BY <2>4 DEF BackupOnly, RestoreDone, Restart, BackupRestart
  <2>5. CASE TickStep \/ BackupRate \/ RestoreStartByLogger
    BY <2>5 DEF TickStep, BackupRate, BackupWrite, RestoreStartByLogger,
                BackupRestoreStart
  <2>6. ASSUME NEW p \in Primaries, PrimaryOnly(CoolDown(p)) \/ ParsedRate(p)
        PROVE  <1>1!:
    BY <2>6 DEF PrimaryOnly, CoolDown, ParsedRate, PrimaryRated
  <2>7. ASSUME NEW p \in Primaries, RestoreStartByPrimary(p) PROVE <1>1!:
    BY <2>7 DEF RestoreStartByPrimary, PrimaryNotified, BackupRestoreStart
  <2> QED BY <2>1, <2>2, <2>3, <2>4, <2>5, <2>6, <2>7
<1> QED BY <1>1, NothingMoves DEF Stays

(* The backup takes a line in, hands its bulk to redis, and Restore takes  *)
(* one from there and sends it.                                            *)
LEMMA BackupPassesOn ==
    ASSUME IInv, HoldsByPlace, HoldsByPlace',
           \/ BackupOnly(BackupReceive)
           \/ FlushStep
           \/ BackupOnly(RestorePop) \/ BackupOnly(RestoreSend)
    PROVE  Passes
<1> DEFINE P == Places
           C == Holds
           D == Holds'
<1>1. /\ C \in [P -> Seq(Line)] /\ D \in [P -> Seq(Line)]
      /\ C[BulkRequest] = bulkRequest /\ D[BulkRequest] = bulkRequest'
      /\ C[Rline] = Hand(rline) /\ D[Rline] = Hand(rline')
      /\ C[Queue] = queue /\ D[Queue] = queue'
      /\ C[Lines] = lines /\ D[Lines] = lines'
      /\ C[ParsedLines] = parsedLines /\ D[ParsedLines] = parsedLines'
      /\ C[BackupLines] = backupLines /\ D[BackupLines] = backupLines'
      /\ {Lines, ParsedLines, BackupLines, BulkRequest, Rline, Queue}
             \subseteq P
  BY BackupPlaces, Kinds, InPlaceByKind DEF HoldsByPlace, ByKind
<1>2. UNCHANGED <<wline, pline, actions, esDocs, refused, lost>>
  BY DEF BackupOnly, FlushStep, workerVars, primaryVars
<1>3. \A x \in P \ {Lines, ParsedLines, BackupLines, BulkRequest, Rline, Queue} :
         D[x] = C[x]
  <2> SUFFICES ASSUME NEW x \in SharedPlaces,
                      x \notin {Lines, ParsedLines, BackupLines}
               PROVE  InPlace(x)' = InPlace(x)
    BY BackupPlaces DEF HoldsByPlace
  <2>1. CASE \E w \in Workers : x = <<"worker", w>>
    BY <1>2, <2>1, InPlaceByKind DEF ByKind
  <2>2. CASE \E p \in Primaries : x = <<"divert", p>> \/ x = <<"bulk", p>>
    BY <1>2, <2>2, InPlaceByKind DEF ByKind
  <2> QED BY <2>1, <2>2, SharedKinds
<1> HIDE DEF P, C, D
<1>4. Passed(P, C, D)
  <2>1. CASE BackupOnly(BackupReceive)
    <3>1. /\ backupLines # <<>> /\ backupLines' = Tail(backupLines)
          /\ bulkRequest' = Append(bulkRequest, Head(backupLines))
          /\ UNCHANGED <<lines, parsedLines, rline, queue>>
      BY <2>1 DEF BackupOnly, BackupReceive, restorerVars, redisVars
    <3>2. SameBut(P, C, D, BackupLines, BulkRequest)
      BY <1>1, <1>3, <3>1 DEF SameBut
    <3>3. BackupLines # BulkRequest
      BY BackupPlaces, Kinds
    <3> QED BY <1>1, <3>1, <3>2, <3>3, HeadPassed, Kinds
  <2>2. CASE FlushStep
    <3>1. /\ queue' = queue \o bulkRequest /\ bulkRequest' = <<>>
          /\ UNCHANGED <<lines, parsedLines, backupLines, rline>>
      BY <2>2 DEF FlushStep, BackupOnly, BackupFlushed, contextVars
    <3>2. SameBut(P, C, D, BulkRequest, Queue)
      BY <1>1, <1>3, <3>1 DEF SameBut
    <3>3. C[BulkRequest] \in Seq(Line)
      BY <1>1
    <3>4. C[BulkRequest] = C[BulkRequest] \o D[BulkRequest]
      BY <1>1, <3>1, <3>3, ConcatEmptySeq
    <3>5. D[Queue] = C[Queue] \o C[BulkRequest]
      BY <1>1, <3>1
    <3> QED BY <1>1, <3>2, <3>3, <3>4, <3>5, BackupPlaces DEF Passed
  <2>3. CASE BackupOnly(RestorePop)
    <3>1. /\ queue # <<>> /\ queue' = Tail(queue) /\ rline' = Head(queue)
          /\ rline = NoLine
          /\ UNCHANGED <<lines, parsedLines, backupLines, bulkRequest>>
      BY <2>3 DEF BackupOnly, RestorePop, contextVars, taskVars, IInv,
                  RestoreShape
    <3>2. Head(queue) \in Line
      BY <3>1 DEF IInv, TypeOK, BackupTypeOK
    <3>3. D[Rline] = Append(C[Rline], Head(C[Queue]))
      BY <1>1, <3>1, <3>2, HandOf
    <3>4. SameBut(P, C, D, Queue, Rline)
      BY <1>1, <1>3, <3>1 DEF SameBut
    <3> QED BY <1>1, <3>1, <3>3, <3>4, HeadPassed, BackupPlaces
  <2>4. CASE BackupOnly(RestoreSend)
    <3>1. /\ rline \in Line /\ rline' = NoLine
          /\ parsedLines' = Append(parsedLines, rline)
          /\ UNCHANGED <<lines, backupLines, bulkRequest, queue>>
      BY <2>4 DEF BackupOnly, RestoreSend, taskVars, redisVars, IInv, TypeOK,
                  BackupTypeOK, RestoreShape
    <3>2. /\ C[Rline] # <<>> /\ D[Rline] = Tail(C[Rline])
          /\ D[ParsedLines] = Append(C[ParsedLines], Head(C[Rline]))
      BY <1>1, <3>1, HandOf
    <3>3. SameBut(P, C, D, Rline, ParsedLines)
      BY <1>1, <1>3, <3>1 DEF SameBut
    <3>4. Rline # ParsedLines
      BY BackupPlaces, Kinds
    <3> QED BY <1>1, <3>2, <3>3, <3>4, HeadPassed, BackupPlaces
  <2> QED BY <2>1, <2>2, <2>3, <2>4
<1> QED BY <1>2, <1>4 DEF Passes, P, C, D

(* What is held in a place is held.                                        *)
LEMMA HeldPlaces ==
    ASSUME HoldsByPlace, HoldsByPlace'
    PROVE  /\ \A x \in Places : Range(Holds[x]) \subseteq Held
           /\ \A x \in Places : Range(Holds'[x]) \subseteq Held'
           /\ \A l \in Held : \E x \in Places : l \in Range(Holds[x])
<1>1. ASSUME NEW x \in Places, NEW l \in Range(Holds[x]) PROVE l \in Held
  BY <1>1, ContentsMembers DEF Held, HoldsByPlace
<1>2. ASSUME NEW x \in Places, NEW l \in Range(Holds'[x]) PROVE l \in Held'
  BY <1>2, ContentsMembers DEF Held, HoldsByPlace
<1>3. ASSUME NEW l \in Held PROVE \E x \in Places : l \in Range(Holds[x])
  BY <1>3, ContentsMembers DEF Held, HoldsByPlace
<1> QED BY <1>1, <1>2, <1>3

LEMMA AllOrNothing ==
    ASSUME NEW s \in Seq(Line)
    PROVE  /\ \E m \in Seq(Line) : s = m \o s
           /\ \E m \in Seq(Line) : s = m \o <<>>
           /\ s # <<>> => \E m \in Seq(Line) : s = m \o Tail(s)
<1>1. <<>> \in Seq(Line) /\ s = <<>> \o s /\ s = s \o <<>>
  BY ConcatEmptySeq
<1>2. s # <<>> => <<Head(s)>> \in Seq(Line) /\ s = <<Head(s)>> \o Tail(s)
  OBVIOUS
<1> QED BY <1>1, <1>2

(* A line whose RPOP was executed and not answered.                        *)
LEMMA PopLoses ==
    ASSUME IInv, HoldsByPlace, HoldsByPlace', PopFails
    PROVE  Loses
<1>1. /\ UNCHANGED <<lines, parsedLines, backupLines, wline, pline, actions>>
      /\ UNCHANGED <<bulkRequest, rline, esDocs, refused>>
      /\ queue' = queue \/ (queue # <<>> /\ queue' = Tail(queue))
      /\ lost' = lost \cup (Range(queue) \ Range(queue'))
      /\ ~redisUp
  BY DEF PopFails, RestorePopFails, contextVars, workerVars, primaryVars,
         taskVars
<1>2. ASSUME NEW x \in Places, x # Queue PROVE Holds'[x] = Holds[x]
  <2>1. CASE x \in SharedPlaces
    BY <1>1, <2>1, SharedStays DEF HoldsByPlace
  <2>2. CASE x \notin SharedPlaces
    BY <1>1, <1>2, <2>2, BackupPlaces DEF HoldsByPlace
  <2> QED BY <2>1, <2>2
<1>3. /\ Holds[Queue] = queue /\ Holds'[Queue] = queue'
      /\ queue \in Seq(Line) /\ Queue \in Places
  BY BackupPlaces DEF HoldsByPlace
<1>4. ASSUME NEW x \in Places
      PROVE  \E m \in Seq(Line) : Holds[x] = m \o Holds'[x]
  <2>1. Holds[x] \in Seq(Line)
    BY DEF HoldsByPlace
  <2>2. \/ Holds'[x] = Holds[x]
        \/ Holds[x] # <<>> /\ Holds'[x] = Tail(Holds[x])
    BY <1>1, <1>2, <1>3
  <2>3. CASE Holds'[x] = Holds[x]
    BY <2>1, <2>3, AllOrNothing
  <2>4. CASE Holds[x] # <<>> /\ Holds'[x] = Tail(Holds[x])
    <3>1. \E m \in Seq(Line) : Holds[x] = m \o Tail(Holds[x])
      BY <2>1, <2>4, AllOrNothing, Zenon
    <3> QED BY <2>4, <3>1, Zenon
  <2> QED BY <2>2, <2>3, <2>4
<1>5. lost' \subseteq lost \cup Held
  BY <1>1, <1>3, HeldPlaces
<1>6. ASSUME NEW l \in Held PROVE l \in Held' \cup lost'
  <2>1. PICK x \in Places : l \in Range(Holds[x])
    BY HeldPlaces
  <2> QED BY <1>1, <1>2, <1>3, <2>1, HeldPlaces
<1>7. Holds \in [Places -> Seq(Line)]
  BY DEF HoldsByPlace
<1> QED BY <1>1, <1>4, <1>5, <1>6, <1>7 DEF Loses

(* The end of the process, before or after EXEC was executed.              *)
LEMMA FatalLoses ==
    ASSUME IInv, HoldsByPlace, HoldsByPlace', Fatal
    PROVE  Loses
<1> DEFINE E == IF queue' = queue THEN Holds
                ELSE [Holds EXCEPT ![BulkRequest] = <<>>,
                                   ![Queue] = queue \o bulkRequest]
<1>1. /\ queue' = queue \/ queue' = queue \o bulkRequest
      /\ lost' = lost \cup (Held \ (Range(queue') \cup esDocs))
      /\ UNCHANGED <<esDocs, refused>>
      /\ ~redisUp
  BY DEF Fatal, BackupFatal
<1>2. /\ Holds[Queue] = queue /\ Holds'[Queue] = queue'
      /\ Holds[BulkRequest] = bulkRequest
      /\ queue \in Seq(Line) /\ bulkRequest \in Seq(Line)
      /\ Queue \in Places /\ BulkRequest \in Places /\ Queue # BulkRequest
      /\ BulkRequest[1] # "bulk"
      /\ Holds \in [Places -> Seq(Line)] /\ Holds' \in [Places -> Seq(Line)]
  BY BackupPlaces DEF HoldsByPlace
<1>3. ASSUME NEW x \in Places, x # Queue PROVE Holds'[x] = <<>>
  <2>1. CASE x \in {Lines, ParsedLines, BackupLines}
    BY <2>1, Kinds, InPlaceByKind DEF HoldsByPlace, ByKind, Fatal
  <2>2. CASE \E w \in Workers : x = <<"worker", w>>
    <3>1. PICK w \in Workers : x = <<"worker", w>>
      BY <2>2
    <3>2. Holds'[x] = Hand(wline'[w]) /\ wline'[w] = NoLine
      BY <3>1, Kinds, InPlaceByKind DEF HoldsByPlace, ByKind, Fatal
    <3> QED BY <3>2, HandOf
  <2>3. CASE \E p \in Primaries : x = <<"divert", p>>
    <3>1. PICK p \in Primaries : x = <<"divert", p>>
      BY <2>3
    <3>2. Holds'[x] = Hand(pline'[p]) /\ pline'[p] = NoLine
      BY <3>1, Kinds, InPlaceByKind DEF HoldsByPlace, ByKind, Fatal
    <3> QED BY <3>2, HandOf
  <2>4. CASE \E p \in Primaries : x = <<"bulk", p>>
    <3>1. PICK p \in Primaries : x = <<"bulk", p>>
      BY <2>4
    <3> QED BY <3>1, Kinds, InPlaceByKind DEF HoldsByPlace, ByKind, Fatal
  <2>5. CASE x = BulkRequest \/ x = Rline
    BY <2>5, HandOf DEF HoldsByPlace, Fatal, BackupFatal
  <2> QED BY <1>3, <2>1, <2>2, <2>3, <2>4, <2>5, SharedKinds, BackupPlaces
<1>4. E \in [Places -> Seq(Line)]
  <2>1. <<>> \in Seq(Line) /\ queue \o bulkRequest \in Seq(Line)
    BY <1>2
  <2> QED BY <1>2, <2>1
<1>5. E = Holds \/ Passed(Places, Holds, E)
  <2> SUFFICES ASSUME queue' # queue PROVE Passed(Places, Holds, E)
    OBVIOUS
  <2>1. /\ E[BulkRequest] = <<>>
        /\ E[Queue] = Holds[Queue] \o Holds[BulkRequest]
        /\ SameBut(Places, Holds, E, BulkRequest, Queue)
    BY <1>2 DEF SameBut
  <2>2. Holds[BulkRequest] = Holds[BulkRequest] \o E[BulkRequest]
    BY <1>2, <2>1, ConcatEmptySeq
  <2> QED BY <1>2, <2>1, <2>2 DEF Passed
<1>6. E[Queue] = queue'
  BY <1>1, <1>2
<1> HIDE DEF E
<1>7. ASSUME NEW x \in Places
      PROVE  \E m \in Seq(Line) : E[x] = m \o Holds'[x]
  <2>1. E[x] \in Seq(Line)
    BY <1>4
  <2>2. Holds'[x] = E[x] \/ Holds'[x] = <<>>
    BY <1>2, <1>3, <1>6
  <2>3. CASE Holds'[x] = E[x]
    BY <2>1, <2>3, AllOrNothing
  <2>4. CASE Holds'[x] = <<>>
    BY <2>1, <2>4, AllOrNothing
  <2> QED BY <2>2, <2>3, <2>4
<1>8. Range(queue') \subseteq Held'
  BY <1>2, HeldPlaces
<1> QED BY <1>1, <1>4, <1>5, <1>7, <1>8 DEF Loses

-----------------------------------------------------------------------------
(* Every step but a read is one of these.                                  *)
LEMMA OtherSteps ==
    ASSUME IInv, HoldsByPlace, HoldsByPlace', [Next]_vars,
           \A l \in Line : ~WorkerOnly(TailRead(l))
    PROVE  /\ Passes \/ Stays \/ Sends \/ Loses
           /\ read' = read
<1>1. Passes \/ Stays \/ Sends \/ Loses
  <2>1. ASSUME RestoreStep PROVE Passes \/ Stays
    <3>1. \/ BackupOnly(RestorePop) \/ BackupOnly(RestoreEmpty)
          \/ BackupOnly(RestoreHold) \/ BackupOnly(RestoreSend)
      BY <2>1 DEF RestoreStep, BackupOnly
    <3> QED BY <3>1, BackupPassesOn, OthersStay
  <2> QED BY <2>1, WorkerPassesOn, PrimaryPassesOn, OthersStay, BackupPassesOn,
             PopLoses, FatalLoses DEF Next
<1>2. read' = read
  <2>1. ASSUME NEW w \in Workers, WorkerStep(w) PROVE read' = read
    BY <2>1 DEF WorkerStep, WorkerOnly, WorkerTake, WorkerSendPrimary,
                WorkerSendBackup, WorkerIdle, workerVars
  <2>2. UNCHANGED workerVars => read' = read
    BY DEF workerVars
  <2>3. UNCHANGED vars => read' = read
    BY DEF vars, workerVars
  <2>4. Fatal => read' = read
    BY DEF Fatal
  <2>5. ASSUME NEW p \in Primaries,
               \/ PrimaryStep(p) \/ PrimaryOnly(CoolDown(p)) \/ ParsedRate(p)
               \/ RestoreStartByPrimary(p)
        PROVE  UNCHANGED workerVars
    BY <2>5 DEF PrimaryStep, PrimaryOnly, ParsedRate, RestoreStartByPrimary
  <2>6. ASSUME \/ BackupOnly(RedisToggle) \/ BackupOnly(BackupReceive)
               \/ BackupOnly(BackupIdle) \/ FlushStep \/ RestoreStep
               \/ PopFails \/ BackupOnly(RestoreDone) \/ TickStep
               \/ BackupRate \/ RestoreStartByLogger \/ Restart
        PROVE  UNCHANGED workerVars
    BY <2>6 DEF BackupOnly, FlushStep, RestoreStep, PopFails, TickStep,
                BackupRate, RestoreStartByLogger, Restart
  <2> QED BY <2>1, <2>2, <2>3, <2>4, <2>5, <2>6 DEF Next
<1> QED BY <1>1, <1>2

LEMMA ReadStep ==
    ASSUME HoldsByPlace, HoldsByPlace',
           NEW l \in Line, WorkerOnly(TailRead(l))
    PROVE  /\ Read(Places, Holds, Holds', l)
           /\ l \in Line \ read /\ read' = read \cup {l}
           /\ UNCHANGED <<esDocs, refused, lost>>
<1>1. TailRead(l) /\ UNCHANGED <<primaryVars, backupVars, lost>>
  BY DEF WorkerOnly
<1>2. Around(Places, Holds, Holds')
  BY <1>1, AroundBackup DEF backupVars, taskVars, restorerVars, redisVars
<1>3. Read(Places, Holds, Holds', l)
  BY <1>1, <1>2, TailReads DEF HoldsByPlace
<1> QED BY <1>1, <1>3 DEF TailRead, primaryVars

(* Redis fails only where it may.                                          *)
LEMMA RedisStep ==
    (redisUp \/ RedisMayFail) /\ [Next]_vars => redisUp' \/ RedisMayFail
<1> SUFFICES ASSUME redisUp \/ RedisMayFail, [Next]_vars
             PROVE  redisUp' \/ RedisMayFail
  OBVIOUS
<1>1. CASE UNCHANGED backupVars
  BY <1>1 DEF backupVars, redisVars
<1>2. CASE ~UNCHANGED backupVars
  <2>1. \/ BackupReceive \/ BackupIdle \/ BackupRestoreStart \/ BackupWrite
        \/ BackupFlushed \/ BackupFatal \/ BackupRestart
        \/ RestorePop \/ RestoreEmpty \/ RestorePopFails \/ RestoreHold
        \/ RestoreSend \/ RestoreDone \/ RedisToggle
    BY <1>2 DEF Next, vars, WorkerOnly, WorkerStep, PrimaryOnly, PrimaryStep,
         ParsedRate, RestoreStartByPrimary, RestoreStartByLogger, BackupOnly,
         FlushStep, RestoreStep, PopFails, TickStep, BackupRate, Fatal, Restart
  <2> QED BY <2>1 DEF BackupReceive, BackupIdle, BackupRestoreStart,
             BackupWrite, BackupFlushed, BackupFatal, BackupRestart,
             RestorePop, RestoreEmpty, RestorePopFails, RestoreHold,
             RestoreSend, RestoreDone, RedisToggle, redisVars
<1> QED BY <1>1, <1>2

-----------------------------------------------------------------------------
(* Every line is in one place, all of them have been read, those that were *)
(* given up too, and none was given up where nothing can fail; redis is    *)
(* away only where it can fail.                                            *)
Dropped == refused \cup lost

MayDrop == RedisMayFail \/ Refusable # {}

Accounted ==
    /\ Once(Holds, esDocs, read)
    /\ Dropped \subseteq read
    /\ ~MayDrop => Dropped = {}
    /\ redisUp \/ RedisMayFail

(* A step that brings no line, and settles only lines that were held.      *)
Settles ==
    /\ Once(Holds', esDocs', read)
    /\ Held' \subseteq Held
    /\ Held \subseteq Held' \cup esDocs' \cup Dropped'
    /\ esDocs \subseteq esDocs' /\ esDocs' \subseteq esDocs \cup Held
    /\ Dropped \subseteq Dropped' /\ Dropped' \subseteq Dropped \cup Held
    /\ ~MayDrop => Dropped' = Dropped

LEMMA OtherStepsSettle ==
    ASSUME HoldsByPlace, HoldsByPlace', Accounted,
           Passes \/ Stays \/ Sends \/ Loses
    PROVE  Settles
<1>1. Once(Holds, esDocs, read)
  BY DEF Accounted
<1>2. CASE Passes
  <2>1. Once(Holds', esDocs, read)
    BY <1>1, <1>2, PassedOnce DEF Passes, HoldsByPlace
  <2>2. Contents(Holds') = Contents(Holds)
    BY <1>2, PassedContents DEF Passes, HoldsByPlace
  <2> QED BY <1>2, <2>1, <2>2 DEF Passes, Settles, Held, Dropped
<1>3. CASE Stays
  BY <1>1, <1>3 DEF Stays, Settles, Held, Dropped
<1>4. CASE Sends
  <2>1. Once(Holds', esDocs', read)
    BY <1>1, <1>4, SentOnce DEF Sends, HoldsByPlace
  <2>2. /\ Held' \subseteq Held
        /\ esDocs \subseteq esDocs' /\ esDocs' \subseteq esDocs \cup Held
        /\ refused \subseteq refused' /\ refused' \subseteq refused \cup Held
        /\ Held \subseteq Held' \cup esDocs' \cup refused'
        /\ Refusable = {} => refused' = refused
    BY <1>4, SentContents DEF Sends, HoldsByPlace, Held
  <2> QED BY <1>4, <2>1, <2>2 DEF Sends, Settles, Dropped, MayDrop
<1>5. CASE Loses
  <2>1. PICK E \in [Places -> Seq(Line)] :
           /\ E = Holds \/ Passed(Places, Holds, E)
           /\ \A x \in Places : \E m \in Seq(Line) : E[x] = m \o Holds'[x]
    BY <1>5 DEF Loses
  <2>2. Once(E, esDocs, read) /\ Contents(E) = Held
    <3>1. CASE E = Holds
      BY <1>1, <3>1 DEF Held
    <3>2. CASE Passed(Places, Holds, E)
      BY <1>1, <3>2, PassedOnce, PassedContents DEF Held, HoldsByPlace
    <3> QED BY <2>1, <3>1, <3>2
  <2>3. Once(Holds', esDocs, read) /\ Contents(Holds') \subseteq Contents(E)
    BY <2>1, <2>2, DroppedOnce DEF HoldsByPlace
  <2> QED BY <1>5, <2>2, <2>3
          DEF Loses, Settles, Held, Dropped, MayDrop, Accounted
<1> QED BY <1>2, <1>3, <1>4, <1>5

-----------------------------------------------------------------------------
LEMMA InitAccounted == Init => Accounted
<1> SUFFICES ASSUME Init PROVE Accounted
  OBVIOUS
<1>1. HoldsByPlace
  BY InitIInv, HoldsTyped DEF IInv
<1>2. ASSUME NEW x \in Places PROVE Holds[x] = <<>>
  <2>1. CASE x \in {Lines, ParsedLines, BackupLines}
    BY <1>1, <2>1, Kinds, InPlaceByKind
       DEF HoldsByPlace, ByKind, Init, ContextInit
  <2>2. CASE \E w \in Workers : x = <<"worker", w>>
    <3>1. PICK w \in Workers : x = <<"worker", w>>
      BY <2>2
    <3>2. Holds[x] = Hand(wline[w]) /\ wline[w] = NoLine
      BY <1>1, <3>1, Kinds, InPlaceByKind
         DEF HoldsByPlace, ByKind, Init, WorkerInit
    <3> QED BY <3>2, HandOf
  <2>3. CASE \E p \in Primaries : x = <<"divert", p>>
    <3>1. PICK p \in Primaries : x = <<"divert", p>>
      BY <2>3
    <3>2. Holds[x] = Hand(pline[p]) /\ pline[p] = NoLine
      BY <1>1, <3>1, Kinds, InPlaceByKind
         DEF HoldsByPlace, ByKind, Init, PrimaryInit
    <3> QED BY <3>2, HandOf
  <2>4. CASE \E p \in Primaries : x = <<"bulk", p>>
    <3>1. PICK p \in Primaries : x = <<"bulk", p>>
      BY <2>4
    <3> QED BY <1>1, <3>1, Kinds, InPlaceByKind
            DEF HoldsByPlace, ByKind, Init, PrimaryInit
  <2>5. CASE x \in {BulkRequest, Rline, Queue}
    BY <1>1, <2>5, HandOf DEF HoldsByPlace, Init, BackupInit
  <2> QED BY <2>1, <2>2, <2>3, <2>4, <2>5, SharedKinds, BackupPlaces
<1>3. Range(<<>>) = {} /\ Len(<<>>) = 0
  BY DEF Range
<1>4. ApartAt(Places, Holds)
  <2>1. \A x \in Places : 1..Len(Holds[x]) = {}
    BY <1>2, <1>3
  <2> QED BY <2>1 DEF ApartAt
<1>5. Apart(Holds) /\ DocsOnlyInBulks(Holds, esDocs)
  BY <1>1, <1>2, <1>3, <1>4, ApartPositions, DocsPlaces DEF HoldsByPlace
<1>6. Contents(Holds) = {}
  <2>1. \A l : l \notin Contents(Holds)
    BY <1>1, <1>2, <1>3, ContentsMembers DEF HoldsByPlace
  <2> QED BY <2>1
<1> QED BY <1>5, <1>6
        DEF Accounted, Once, Dropped, Init, PrimaryInit, BackupInit

LEMMA ReadAdds ==
    ASSUME HoldsByPlace, HoldsByPlace', Accounted,
           NEW l \in Line, WorkerOnly(TailRead(l))
    PROVE  /\ Once(Holds', esDocs, read \cup {l})
           /\ Held' = Held \cup {l}
           /\ l \notin Held \cup esDocs \cup Dropped
           /\ read' = read \cup {l} /\ UNCHANGED <<esDocs, refused, lost>>
<1>1. /\ Read(Places, Holds, Holds', l)
      /\ l \in Line \ read /\ read' = read \cup {l}
      /\ UNCHANGED <<esDocs, refused, lost>>
  BY ReadStep
<1>2. /\ Holds \in [Places -> Seq(Line)] /\ Holds' \in [Places -> Seq(Line)]
      /\ Once(Holds, esDocs, read)
  BY DEF Accounted, HoldsByPlace
<1>3. Once(Holds', esDocs, read \cup {l})
  BY <1>1, <1>2, ReadOnce
<1>4. Contents(Holds') = Contents(Holds) \cup {l}
  BY <1>1, <1>2, ReadContents
<1>5. l \notin Held \cup esDocs \cup Dropped
  BY <1>1 DEF Accounted, Once, Held
<1> QED BY <1>1, <1>3, <1>4, <1>5 DEF Held

LEMMA StepAccounted == IInv /\ Accounted /\ [Next]_vars => Accounted'
<1> SUFFICES ASSUME IInv, Accounted, [Next]_vars PROVE Accounted'
  OBVIOUS
<1>1. HoldsByPlace /\ HoldsByPlace'
  BY StepIInv, HoldsTyped, HoldsTypedNext DEF IInv
<1>2. redisUp' \/ RedisMayFail
  BY RedisStep DEF Accounted
<1>3. CASE \E l \in Line : WorkerOnly(TailRead(l))
  <2>1. PICK l \in Line : WorkerOnly(TailRead(l))
    BY <1>3
  <2>2. /\ Once(Holds', esDocs, read \cup {l})
        /\ read' = read \cup {l} /\ UNCHANGED <<esDocs, refused, lost>>
    BY <1>1, <2>1, ReadAdds
  <2> QED BY <1>2, <2>2 DEF Accounted, Dropped, MayDrop
<1>4. CASE \A l \in Line : ~WorkerOnly(TailRead(l))
  <2>1. read' = read /\ Settles
    BY <1>1, <1>4, OtherSteps, OtherStepsSettle
  <2>2. Held \subseteq read
    BY DEF Accounted, Once, Held
  <2> QED BY <1>2, <2>1, <2>2 DEF Settles, Accounted, MayDrop
<1> QED BY <1>3, <1>4

(* No line is ever in two places, nor twice in one, and what is indexed is *)
(* at most in the bulk that was sent, however often the process dies, and  *)
(* although redis may execute a command without answering it (redis.go,    *)
(* backup.go, primary.go).                                                 *)
THEOREM InOnePlace == Spec => []OneCopy
<1>1. Accounted => OneCopy
  BY DEF Accounted, Once, OneCopy
<1> QED BY <1>1, InitAccounted, StepAccounted, Inductive, PTL DEF Spec

(* The program keeps the promise of Delivery with the backup in redis, for *)
(* every configuration: a line is accepted once, it stays pending until it *)
(* has a fate, it is given up only when redis fails or its item is         *)
(* refused, and it does not come back when it is settled (redis.go,        *)
(* backup.go, primary.go, es.go).                                          *)
THEOREM ImplementsDelivery == Spec => KeepsPromise
<1>1. Init => Promise!Init
  <2> SUFFICES ASSUME Init PROVE Promise!Init
    OBVIOUS
  <2>1. Held \subseteq read
    BY InitAccounted DEF Accounted, Once, Held
  <2> QED BY <2>1 DEF Init, WorkerInit, PrimaryInit, Promise!Init
<1>2. IInv /\ Accounted /\ [Next]_vars => [Promise!Next]_(Promise!vars)
  <2> SUFFICES ASSUME IInv, Accounted, [Next]_vars PROVE Promise!Next
    OBVIOUS
  <2>1. HoldsByPlace /\ HoldsByPlace'
    BY StepIInv, HoldsTyped, HoldsTypedNext DEF IInv
  <2>2. CASE \E l \in Line : WorkerOnly(TailRead(l))
    <3>1. PICK l \in Line : WorkerOnly(TailRead(l))
      BY <2>2
    <3>2. Promise!Accept(l)
      BY <2>1, <3>1, ReadAdds DEF Promise!Accept, Dropped
    <3> QED BY <3>2 DEF Promise!Next
  <2>3. CASE \A l \in Line : ~WorkerOnly(TailRead(l))
    <3> DEFINE Settled == Held \ Held'
               Indexed == esDocs' \ esDocs
               GivenUp == Dropped' \ Dropped
    <3>1. Settles
      BY <2>1, <2>3, OtherSteps, OtherStepsSettle
    <3>2. /\ Settled \in SUBSET Held /\ Held' = Held \ Settled
          /\ Indexed \in SUBSET Held /\ esDocs' = esDocs \cup Indexed
          /\ GivenUp \in SUBSET Held /\ Dropped' = Dropped \cup GivenUp
          /\ Settled \subseteq esDocs' \cup Dropped'
      BY <3>1 DEF Settles
    <3>3. CASE MayDrop
      <4>1. Promise!DropSome
        BY <3>2, <3>3 DEF Promise!DropSome, MayDrop, Dropped
      <4> QED BY <4>1 DEF Promise!Next
    <3>4. CASE ~MayDrop
      <4>1. Dropped' = Dropped /\ Dropped = {}
        BY <3>1, <3>4 DEF Settles, Accounted
      <4>2. Promise!Deliver
        BY <3>2, <4>1 DEF Promise!Deliver, Dropped
      <4> QED BY <4>2 DEF Promise!Next
    <3> QED BY <3>3, <3>4
  <2> QED BY <2>2, <2>3
<1> QED BY <1>1, <1>2, InitAccounted, StepAccounted, Inductive, PTL
        DEF Spec, KeepsPromise, Promise!Spec
=============================================================================
