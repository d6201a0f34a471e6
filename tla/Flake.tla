-------------------------------- MODULE Flake --------------------------------
(***************************************************************************)
(* The arithmetic of the go-flake generator (flake.go), from which the ids *)
(* of the Elasticsearch documents are made.  An id packs a time stamp, a   *)
(* host id and a sequence number into disjoint bit fields, so that it is   *)
(* modelled by its fields, and the order of the ids of one host is the     *)
(* lexicographic order of their stamps.                                    *)
(***************************************************************************)
EXTENDS Integers

CONSTANT MaxSequence   \* the largest sequence number (2^13 - 1)

ASSUME FlakeAssumption == MaxSequence \in Nat

MaxHostId == 2^10 - 1

(* What the ids of one host differ in.                                     *)
Stamp == [time : Nat, sequence : 0..MaxSequence]

Before(a, b) ==
    \/ a.time < b.time
    \/ a.time = b.time /\ a.sequence < b.sequence

(* Mutants of NextStamp: the clock may go back; no new millisecond when    *)
(* the sequence numbers have run out; they run out one too late.           *)
NextStampClockBack(previous, clock) ==
    IF clock = previous.time
    THEN IF previous.sequence = MaxSequence
         THEN [time |-> clock + 1, sequence |-> 0]
         ELSE [time |-> clock, sequence |-> previous.sequence + 1]
    ELSE [time |-> clock, sequence |-> 0]

NextStampNoBump(previous, clock) ==
    LET now == IF clock < previous.time THEN previous.time ELSE clock
    IN  IF now = previous.time /\ previous.sequence < MaxSequence
        THEN [time |-> now, sequence |-> previous.sequence + 1]
        ELSE [time |-> now, sequence |-> 0]

NextStampOneTooMany(previous, clock) ==
    LET now  == IF clock < previous.time THEN previous.time ELSE clock
        next == IF now = previous.time THEN previous.sequence + 1 ELSE 0
    IN  IF next > MaxSequence + 1
        THEN [time |-> now + 1, sequence |-> 0]
        ELSE [time |-> now, sequence |-> next]

(* NextId between lock and unlock: from the stamp of the previous id and   *)
(* what the clock shows, which may be less, to the stamp of the next one.  *)
NextStamp(previous, clock) ==
    LET now  == IF clock < previous.time THEN previous.time ELSE clock
        next == IF now = previous.time THEN previous.sequence + 1 ELSE 0
    IN  IF next > MaxSequence
        THEN [time |-> now + 1, sequence |-> 0]
        ELSE [time |-> now, sequence |-> next]

(* A byte shifted to the left stays a byte.                                *)
ShiftByte(b, n) == (b * (2^n % 256)) % 256

(* getHostId: the four bytes of the address, added up as bytes.            *)
HostId(a) ==
    ((ShiftByte(a[1], 24) + ShiftByte(a[2], 16) + ShiftByte(a[3], 8) + a[4])
        % 256) % MaxHostId
=============================================================================
