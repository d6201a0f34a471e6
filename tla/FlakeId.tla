------------------------------- MODULE FlakeId --------------------------------
(***************************************************************************)
(* getFlakeID (flakeid.go), which every doPrimaryTask goroutine calls for  *)
(* every line it adds to a bulk: the generator has a mutex, but the buffer *)
(* flakeB64 the id is encoded in is a global that the goroutines share     *)
(* without one.  Its eight bytes are modelled as two words, one with the   *)
(* time stamp and one with the sequence number: a store or a load of all   *)
(* of them need not be atomic.                                             *)
(***************************************************************************)
EXTENDS Flake, Sequences

CONSTANTS Callers,  \* the goroutines that call getFlakeID
          Clock,    \* what getTimestamp may return
          MaxIds    \* bound: the number of ids generated

ASSUME FlakeIdAssumption == Clock \subseteq Nat /\ MaxIds \in Nat

VARIABLES previous,  \* prevTime and sequence of the generator
          issued,    \* the ids NextId returned, in order
          flakeB64,  \* the shared buffer
          pc,        \* where caller c is: "out", "time", "sequence" (about to
                     \* store that word), "encode", "encoding"
          id,        \* the id caller c got from NextId
          encoded,   \* the first word that caller c has encoded
          docIds     \* the document ids getFlakeID returned

vars == <<previous, issued, flakeB64, pc, id, encoded, docIds>>

Init ==
    /\ \E clock \in Clock : previous = [time |-> clock, sequence |-> 0]
    /\ issued = <<>>
    /\ flakeB64 = [time |-> 0, sequence |-> 0]
    /\ pc = [c \in Callers |-> "out"]
    /\ id = [c \in Callers |-> previous]
    /\ encoded = [c \in Callers |-> 0]
    /\ docIds = <<>>

(* The variables keep to their types.                                      *)
TypeOK ==
    /\ previous \in Stamp
    /\ issued \in Seq(Stamp)
    /\ flakeB64 \in Stamp
    /\ pc \in [Callers -> {"out", "time", "sequence", "encode", "encoding"}]
    /\ id \in [Callers -> Stamp]
    /\ encoded \in [Callers -> Nat]
    /\ docIds \in Seq(Stamp)

-----------------------------------------------------------------------------
(* flaker.NextId(), all of it under the mutex.                             *)
NextId(c) ==
    /\ pc[c] = "out"
    /\ Len(issued) < MaxIds
    /\ \E clock \in Clock : previous' = NextStamp(previous, clock)
    /\ issued' = Append(issued, previous')
    /\ id' = [id EXCEPT ![c] = previous']
    /\ pc' = [pc EXCEPT ![c] = "time"]
    /\ UNCHANGED <<flakeB64, encoded, docIds>>

(* PutUint64 into the shared buffer.                                       *)
PutTime(c) ==
    /\ pc[c] = "time"
    /\ flakeB64' = [flakeB64 EXCEPT !.time = id[c].time]
    /\ pc' = [pc EXCEPT ![c] = "sequence"]
    /\ UNCHANGED <<previous, issued, id, encoded, docIds>>

PutSequence(c) ==
    /\ pc[c] = "sequence"
    /\ flakeB64' = [flakeB64 EXCEPT !.sequence = id[c].sequence]
    /\ pc' = [pc EXCEPT ![c] = "encode"]
    /\ UNCHANGED <<previous, issued, id, encoded, docIds>>

(* EncodeToString reads the shared buffer from the start to the end.       *)
EncodeTime(c) ==
    /\ pc[c] = "encode"
    /\ encoded' = [encoded EXCEPT ![c] = flakeB64.time]
    /\ pc' = [pc EXCEPT ![c] = "encoding"]
    /\ UNCHANGED <<previous, issued, flakeB64, id, docIds>>

EncodeSequence(c) ==
    /\ pc[c] = "encoding"
    /\ docIds' = Append(docIds, [time |-> encoded[c],
                                 sequence |-> flakeB64.sequence])
    /\ pc' = [pc EXCEPT ![c] = "out"]
    /\ UNCHANGED <<previous, issued, flakeB64, id, encoded>>

Next == \E c \in Callers :
    NextId(c) \/ PutTime(c) \/ PutSequence(c) \/ EncodeTime(c)
              \/ EncodeSequence(c)

Spec == Init /\ [][Next]_vars

-----------------------------------------------------------------------------
(* The ids of NextId grow, whoever asks for them and whatever the clock    *)
(* does, even within one millisecond and when that has run out of sequence *)
(* numbers: none is ever issued twice (flake.go).                          *)
IdsGrow ==
    \A m, n \in DOMAIN issued : m < n => Before(issued[m], issued[n])

(* No two calls of getFlakeID return the same document id (flakeid.go):    *)
(* "unique identifiers" (flake.go:1).  With the same id the second         *)
(* document would replace the first in the index.                          *)
DocIdsUnique ==
    \A m, n \in DOMAIN docIds : m # n => docIds[m] # docIds[n]
=============================================================================
