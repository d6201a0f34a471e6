---------------------------- MODULE FlakeIdProofs -----------------------------
(***************************************************************************)
(* The ids of NextId are strictly increasing for every set of callers,     *)
(* every clock and every number of sequence bits.                          *)
(***************************************************************************)
EXTENDS FlakeId, TLAPS

(* The next stamp is a stamp, and it is after the previous one: whether    *)
(* the clock went on, stood still or went back, and whether or not the     *)
(* sequence numbers ran out (flake.go:79-99).                              *)
LEMMA NextStampGrows ==
    ASSUME NEW previousStamp \in Stamp, NEW clock \in Nat
    PROVE  /\ NextStamp(previousStamp, clock) \in Stamp
           /\ Before(previousStamp, NextStamp(previousStamp, clock))
<1> DEFINE now  == IF clock < previousStamp.time THEN previousStamp.time
                                                 ELSE clock
           next == IF now = previousStamp.time THEN previousStamp.sequence + 1
                                               ELSE 0
<1>1. /\ previousStamp.time \in Nat
      /\ previousStamp.sequence \in 0..MaxSequence
      /\ MaxSequence \in Nat
  BY FlakeAssumption DEF Stamp
<1>2. now \in Nat /\ next \in Nat /\ now >= previousStamp.time
  BY <1>1
<1>3. CASE next > MaxSequence
  <2>1. NextStamp(previousStamp, clock) = [time |-> now + 1, sequence |-> 0]
    BY <1>3 DEF NextStamp
  <2> QED BY <1>1, <1>2, <2>1 DEF Stamp, Before
<1>4. CASE next <= MaxSequence
  <2>1. NextStamp(previousStamp, clock) = [time |-> now, sequence |-> next]
    BY <1>2, <1>1, <1>4 DEF NextStamp
  <2>2. \/ now = previousStamp.time /\ next = previousStamp.sequence + 1
        \/ now > previousStamp.time
    BY <1>1, <1>2
  <2> QED BY <1>1, <1>2, <1>4, <2>1, <2>2 DEF Stamp, Before
<1> QED BY <1>1, <1>2, <1>3, <1>4

LEMMA BeforeTransitive ==
    ASSUME NEW a \in Stamp, NEW b \in Stamp, NEW c \in Stamp,
           Before(a, b), Before(b, c)
    PROVE  Before(a, c)
BY FlakeAssumption DEF Stamp, Before

-----------------------------------------------------------------------------
(* Every step keeps the types (flakeid.go, flake.go).                      *)
THEOREM TypeCorrect == Spec => []TypeOK
<1>1. Init => TypeOK
  <2> SUFFICES ASSUME Init PROVE TypeOK
    OBVIOUS
  <2>1. previous \in Stamp
    BY FlakeAssumption, FlakeIdAssumption DEF Init, Stamp
  <2>2. [time |-> 0, sequence |-> 0] \in Stamp
    BY FlakeAssumption DEF Stamp
  <2> QED BY <2>1, <2>2 DEF Init, TypeOK
<1>2. TypeOK /\ [Next]_vars => TypeOK'
  <2> SUFFICES ASSUME TypeOK, [Next]_vars PROVE TypeOK'
    OBVIOUS
  <2> USE DEF TypeOK
  <2>1. ASSUME NEW c \in Callers, NextId(c) PROVE TypeOK'
    <3>1. previous' \in Stamp
      BY <2>1, NextStampGrows, FlakeIdAssumption DEF NextId
    <3> QED BY <2>1, <3>1 DEF NextId
  <2>2. ASSUME NEW c \in Callers, PutTime(c) PROVE TypeOK'
    BY <2>2 DEF PutTime, Stamp
  <2>3. ASSUME NEW c \in Callers, PutSequence(c) PROVE TypeOK'
    BY <2>3 DEF PutSequence, Stamp
  <2>4. ASSUME NEW c \in Callers, EncodeTime(c) PROVE TypeOK'
    BY <2>4 DEF EncodeTime, Stamp
  <2>5. ASSUME NEW c \in Callers, EncodeSequence(c) PROVE TypeOK'
    BY <2>5 DEF EncodeSequence, Stamp
  <2>6. CASE UNCHANGED vars
    BY <2>6 DEF vars
  <2> QED BY <2>1, <2>2, <2>3, <2>4, <2>5, <2>6 DEF Next
<1> QED BY <1>1, <1>2, PTL DEF Spec

-----------------------------------------------------------------------------
(* What IdsGrow rests on: no id issued so far is after the state of the    *)
(* generator, from which the next one is made.                             *)
NoneAhead ==
    \A m \in DOMAIN issued : issued[m] = previous \/ Before(issued[m], previous)

(* The ids of NextId grow, for every number of goroutines, whatever the    *)
(* clock shows and however many sequence bits there are (flake.go:75-105). *)
THEOREM GeneratorIsMonotone == Spec => []IdsGrow
<1> DEFINE IInv == IdsGrow /\ NoneAhead
<1>1. Init => IInv
  BY DEF Init, IdsGrow, NoneAhead
<1>2. TypeOK /\ TypeOK' /\ IInv /\ [Next]_vars => IInv'
  <2> SUFFICES ASSUME TypeOK, TypeOK', IInv, [Next]_vars PROVE IInv'
    OBVIOUS
  <2>1. ASSUME NEW c \in Callers, NextId(c) PROVE IInv'
    <3>1. Before(previous, previous')
      BY <2>1, NextStampGrows, FlakeIdAssumption DEF NextId, TypeOK
    <3>2. \A m \in DOMAIN issued : Before(issued[m], previous')
      BY <3>1, BeforeTransitive DEF NoneAhead, TypeOK
    <3>3. /\ issued \in Seq(Stamp)
          /\ previous' \in Stamp
          /\ issued' = Append(issued, previous')
      BY <2>1 DEF NextId, TypeOK
    <3>4. /\ DOMAIN issued' = 1..(Len(issued) + 1)
          /\ \A m \in DOMAIN issued : issued'[m] = issued[m]
          /\ issued'[Len(issued) + 1] = previous'
          /\ DOMAIN issued = 1..Len(issued)
      BY <3>3
    <3>5. IdsGrow'
      <4> SUFFICES ASSUME NEW m \in DOMAIN issued', NEW n \in DOMAIN issued',
                          m < n
                   PROVE  Before(issued'[m], issued'[n])
        BY DEF IdsGrow, Before
      <4>1. m \in DOMAIN issued
        BY <3>3, <3>4
      <4>2. CASE n \in DOMAIN issued
        BY <3>4, <4>1, <4>2 DEF IdsGrow
      <4>3. CASE n = Len(issued) + 1
        BY <3>2, <3>4, <4>1, <4>3
      <4> QED BY <3>3, <3>4, <4>2, <4>3
    <3>6. NoneAhead'
      BY <3>2, <3>3, <3>4 DEF NoneAhead, Before
    <3> QED BY <3>5, <3>6
  <2>2. CASE UNCHANGED <<previous, issued>>
    BY <2>2 DEF IdsGrow, NoneAhead, Before
  <2> QED BY <2>1, <2>2 DEF Next, vars, PutTime, PutSequence, EncodeTime,
                            EncodeSequence
<1> QED BY <1>1, <1>2, TypeCorrect, PTL DEF Spec

-----------------------------------------------------------------------------
(* One goroutine has stored in the buffer, and encoded of it, what belongs *)
(* to the last id; its document ids are the ids, in order.                 *)
InOrder(c) ==
    /\ Len(issued) = Len(docIds) + (IF pc[c] = "out" THEN 0 ELSE 1)
    /\ \A m \in DOMAIN docIds : docIds[m] = issued[m]
    /\ pc[c] # "out" => id[c] = issued[Len(issued)]
    /\ pc[c] \in {"sequence", "encode", "encoding"} =>
          flakeB64.time = id[c].time
    /\ pc[c] \in {"encode", "encoding"} => flakeB64.sequence = id[c].sequence
    /\ pc[c] = "encoding" => encoded[c] = id[c].time

(* With one Elasticsearch worker no document id is returned twice          *)
(* (flakeid.go): the unguarded buffer needs a second goroutine to do harm. *)
THEOREM OneWorkerIsSafe ==
    ASSUME NEW c, Callers = {c} PROVE Spec => []DocIdsUnique
<1>1. Init => InOrder(c)
  BY DEF Init, InOrder
<1>2. TypeOK /\ TypeOK' /\ InOrder(c) /\ [Next]_vars => InOrder(c)'
  <2> SUFFICES ASSUME TypeOK, TypeOK', InOrder(c), [Next]_vars
               PROVE  InOrder(c)'
    OBVIOUS
  <2>0. /\ Len(issued) \in Nat /\ DOMAIN issued = 1..Len(issued)
        /\ Len(docIds) \in Nat /\ DOMAIN docIds = 1..Len(docIds)
    BY DEF TypeOK
  <2>1. CASE NextId(c)
    <3>1. /\ Len(issued') = Len(issued) + 1
          /\ \A m \in DOMAIN issued : issued'[m] = issued[m]
          /\ issued'[Len(issued')] = previous'
      BY <2>1 DEF NextId, TypeOK
    <3>2. pc[c] = "out" /\ pc'[c] = "time" /\ id'[c] = previous'
              /\ docIds' = docIds
      BY <2>1 DEF NextId, TypeOK
    <3>3. DOMAIN docIds \subseteq DOMAIN issued
      BY <2>0, <3>2 DEF InOrder
    <3> QED BY <3>1, <3>2, <3>3 DEF InOrder
  <2>2. CASE PutTime(c)
    <3>1. flakeB64'.time = id[c].time
      BY <2>2 DEF PutTime, TypeOK, Stamp
    <3> QED BY <2>2, <3>1 DEF PutTime, TypeOK, InOrder
  <2>3. CASE PutSequence(c)
    <3>1. /\ flakeB64'.sequence = id[c].sequence
          /\ flakeB64'.time = flakeB64.time
      BY <2>3 DEF PutSequence, TypeOK, Stamp
    <3> QED BY <2>3, <3>1 DEF PutSequence, TypeOK, InOrder
  <2>4. CASE EncodeTime(c)
    BY <2>4 DEF EncodeTime, TypeOK, InOrder
  <2>5. CASE EncodeSequence(c)
    <3> DEFINE new == [time |-> encoded[c], sequence |-> flakeB64.sequence]
    <3>1. /\ pc[c] = "encoding" /\ pc'[c] = "out" /\ issued' = issued
          /\ docIds' = Append(docIds, new)
      BY <2>5 DEF EncodeSequence, TypeOK
    <3>2. new = id[c]
      BY <3>1 DEF InOrder, TypeOK, Stamp
    <3>3. /\ Len(docIds') = Len(docIds) + 1
          /\ DOMAIN docIds' = 1..(Len(docIds) + 1)
          /\ \A m \in DOMAIN docIds : docIds'[m] = docIds[m]
          /\ docIds'[Len(docIds) + 1] = new
      BY <3>1, <3>2 DEF TypeOK
    <3>4. Len(issued) = Len(docIds) + 1 /\ id[c] = issued[Len(issued)]
      BY <3>1 DEF InOrder
    <3>5. \A m \in DOMAIN docIds' : docIds'[m] = issued'[m]
      <4> SUFFICES ASSUME NEW m \in 1..(Len(docIds) + 1)
                   PROVE  docIds'[m] = issued[m]
        BY <3>1, <3>3
      <4>1. CASE m \in DOMAIN docIds
        BY <3>3, <4>1 DEF InOrder
      <4>2. CASE m = Len(docIds) + 1
        BY <3>2, <3>3, <3>4, <4>2
      <4> QED BY <2>0, <4>1, <4>2
    <3> QED BY <3>1, <3>3, <3>4, <3>5 DEF InOrder
  <2>6. CASE UNCHANGED vars
    BY <2>6 DEF vars, InOrder
  <2> QED BY <2>1, <2>2, <2>3, <2>4, <2>5, <2>6 DEF Next
<1>3. TypeOK /\ IdsGrow /\ InOrder(c) => DocIdsUnique
  <2> SUFFICES ASSUME TypeOK, IdsGrow, InOrder(c),
                      NEW m \in DOMAIN docIds, NEW n \in DOMAIN docIds, m # n
               PROVE  docIds[m] # docIds[n]
    BY DEF DocIdsUnique
  <2>1. m \in DOMAIN issued /\ n \in DOMAIN issued /\ m \in Nat /\ n \in Nat
    BY DEF TypeOK, InOrder
  <2>2. issued[m] \in Stamp /\ issued[n] \in Stamp
    BY <2>1 DEF TypeOK
  <2>3. Before(issued[m], issued[n]) \/ Before(issued[n], issued[m])
    BY <2>1 DEF IdsGrow
  <2>4. issued[m] # issued[n]
    BY <2>2, <2>3, FlakeAssumption DEF Stamp, Before
  <2> QED BY <2>4 DEF InOrder
<1> QED BY <1>1, <1>2, <1>3, TypeCorrect, GeneratorIsMonotone, PTL DEF Spec
=============================================================================
