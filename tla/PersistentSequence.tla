------------------------- MODULE PersistentSequence -------------------------
(***************************************************************************)
(* firmware/esp32/src/persistent_sequence.cpp: uint32 telemetry sequence   *)
(* numbers allocated from blocks whose end is made durable in NVS before   *)
(* any number of the block is returned.                                    *)
(*                                                                         *)
(* begin() and next() run in the task that owns the object; what can       *)
(* happen between their steps is a reset (Crash), and what can happen to   *)
(* each of their NVS calls is a failure.  A call that reaches              *)
(* reserveBlock() is therefore split where it touches flash: the write     *)
(* (ReserveWrite), then the read-back and publication (ReserveVerify).     *)
(***************************************************************************)
EXTENDS Naturals, Sequences

CONSTANTS
  BlockSize,      \* kReservationBlockSize
  SpaceSize       \* kSequenceSpaceSize, 2^32 in the firmware

ASSUME SizesAssumption ==
  /\ BlockSize \in Nat \ {0}
  /\ SpaceSize \in Nat \ {0}
  /\ BlockSize <= SpaceSize
  /\ SpaceSize % BlockSize = 0

VARIABLES
  nvs,            \* kind of the stored record: "absent", "valid" or "corrupt"
  nvsUntil,       \* its reserved_until_exclusive when it is valid
  state,          \* state_
  nextValue,      \* next_value_
  reservedUntil,  \* reserved_until_exclusive_
  pc,             \* where a call into the object is: "idle", "write", "verify"
  caller,         \* the call that is reserving a block: "begin" or "next"
  first,          \* the argument of its reserveBlock()
  log             \* history: every number returned by next(), over all boots

ram == <<state, nextValue, reservedUntil>>
flash == <<nvs, nvsUntil>>
vars == <<nvs, nvsUntil, state, nextValue, reservedUntil, pc, caller, first, log>>

Init ==
  /\ nvs = "absent" /\ nvsUntil = 0
  /\ state = "uninitialized" /\ nextValue = 0 /\ reservedUntil = 0
  /\ pc = "idle" /\ caller = "begin" /\ first = 0
  /\ log = <<>>

\* failStorage(): forget the range, so that next() fails closed.
FailStorage ==
  /\ state' = "storage_failure"
  /\ nextValue' = 0
  /\ reservedUntil' = 0
  /\ pc' = "idle"

\* reserveBlock(v) from its caller up to the NVS write.
EnterReserve(v, who) ==
  IF v >= SpaceSize
    THEN state' = "exhausted" /\ UNCHANGED <<pc, caller, first>>
    ELSE pc' = "write" /\ caller' = who /\ first' = v /\ UNCHANGED state

\* reserved_until of the block that starts at v.
BlockEnd(v) == IF v + BlockSize > SpaceSize THEN SpaceSize ELSE v + BlockSize

\* validRecord(): magic, version, size, block size, bounds and checksum.
ValidRecord ==
  /\ nvs = "valid"
  /\ nvsUntil >= BlockSize
  /\ nvsUntil <= SpaceSize
  /\ nvsUntil % BlockSize = 0

\* Mutant of Begin: resume the reserved block instead of skipping its tail.
BeginResumesBlock ==
  /\ pc = "idle"
  /\ state \in {"uninitialized", "storage_failure"}
  /\ nvs # "absent" => ValidRecord
  /\ pc' = "write" /\ caller' = "begin" /\ state' = "uninitialized"
  /\ first' = IF nvs = "absent" THEN 0 ELSE nvsUntil - BlockSize
  /\ nextValue' = 0 /\ reservedUntil' = 0
  /\ UNCHANGED <<flash, log>>

\* Mutant of Begin: an unreadable record is taken for a missing one.
BeginRepairsRecord ==
  /\ pc = "idle"
  /\ state \in {"uninitialized", "storage_failure"}
  /\ LET start == IF ValidRecord THEN nvsUntil ELSE 0
     IN  start < SpaceSize /\ first' = start
  /\ pc' = "write" /\ caller' = "begin" /\ state' = "uninitialized"
  /\ nextValue' = 0 /\ reservedUntil' = 0
  /\ UNCHANGED <<flash, log>>

\* begin() on an object that is not ready and not exhausted.  NVS may fail to
\* open or to read; a record that is there and invalid is a storage failure.
\* isKey() is taken to answer truly: an error in that one call makes the code begin
\* anew over a good record.
Begin ==
  /\ pc = "idle"
  /\ state \in {"uninitialized", "storage_failure"}
  /\ \/ FailStorage /\ UNCHANGED <<caller, first>>
     \/ /\ nvs # "absent" => ValidRecord
        /\ LET start == IF nvs = "absent" THEN 0 ELSE nvsUntil
           IN  IF start >= SpaceSize
                 THEN state' = "exhausted" /\ UNCHANGED <<pc, caller, first>>
                 ELSE /\ pc' = "write" /\ caller' = "begin" /\ first' = start
                      /\ state' = "uninitialized"
        /\ nextValue' = 0
        /\ reservedUntil' = 0
  /\ UNCHANGED <<flash, log>>

\* next() hands out nextValue, cast to uint32; the last number of the space
\* exhausts the allocator.
IssueFrom(v) ==
  /\ log' = Append(log, v % SpaceSize)
  /\ nextValue' = v + 1
  /\ state' = IF v + 1 >= SpaceSize THEN "exhausted" ELSE "ready"

\* next() inside the reserved range.
NextInBlock ==
  /\ pc = "idle" /\ state = "ready"
  /\ nextValue < reservedUntil
  /\ IssueFrom(nextValue)
  /\ UNCHANGED <<flash, reservedUntil, pc, caller, first>>

\* Mutant of NextReserve: the next range is used before it is durable.
NextReserveInMemory ==
  /\ pc = "idle" /\ state = "ready"
  /\ nextValue >= reservedUntil
  /\ reservedUntil' = BlockEnd(reservedUntil)
  /\ UNCHANGED <<flash, state, nextValue, pc, caller, first, log>>

\* next() at the end of the range: reserve another block first.
NextReserve ==
  /\ pc = "idle" /\ state = "ready"
  /\ nextValue >= reservedUntil
  /\ EnterReserve(reservedUntil, "next")
  /\ UNCHANGED <<flash, nextValue, reservedUntil, log>>

\* putBytes(): the record is written and its size returned, or the call
\* reports a short write and the record may or may not have been replaced.
ReserveWrite ==
  /\ pc = "write"
  /\ \/ /\ nvs' = "valid" /\ nvsUntil' = BlockEnd(first)
        /\ pc' = "verify"
        /\ UNCHANGED ram
     \/ /\ \/ UNCHANGED flash
           \/ nvs' = "valid" /\ nvsUntil' = BlockEnd(first)
        /\ FailStorage
  /\ UNCHANGED <<caller, first, log>>

\* getBytes() and the comparison; only then is the range published in memory,
\* and a waiting next() goes on to issue the block's first number.
ReserveVerify ==
  /\ pc = "verify"
  /\ \/ /\ ValidRecord /\ nvsUntil = BlockEnd(first)
        /\ reservedUntil' = BlockEnd(first)
        /\ pc' = "idle"
        /\ IF caller = "next"
             THEN IssueFrom(first)
             ELSE nextValue' = first /\ state' = "ready" /\ UNCHANGED log
     \/ FailStorage /\ UNCHANGED log
  /\ UNCHANGED <<flash, caller, first>>

\* A reset at any point: memory is gone, flash and the numbers sent remain.
Crash ==
  /\ state' = "uninitialized" /\ nextValue' = 0 /\ reservedUntil' = 0
  /\ pc' = "idle" /\ caller' = "begin" /\ first' = 0
  /\ UNCHANGED <<flash, log>>

\* The stored record stops passing its checksum.
Damage ==
  /\ nvs = "valid"
  /\ nvs' = "corrupt"
  /\ UNCHANGED <<nvsUntil, ram, pc, caller, first, log>>

Next ==
  \/ Begin
  \/ NextInBlock
  \/ NextReserve
  \/ ReserveWrite
  \/ ReserveVerify
  \/ Crash
  \/ Damage

Spec == Init /\ [][Next]_vars

-----------------------------------------------------------------------------
(* Properties *)

TypeOK ==
  /\ nvs \in {"absent", "valid", "corrupt"}
  /\ nvsUntil \in 0 .. SpaceSize
  /\ state \in {"uninitialized", "ready", "storage_failure", "exhausted"}
  /\ nextValue \in 0 .. SpaceSize
  /\ reservedUntil \in 0 .. SpaceSize
  /\ pc \in {"idle", "write", "verify"}
  /\ caller \in {"begin", "next"}
  /\ first \in 0 .. SpaceSize
  /\ log \in Seq(0 .. SpaceSize - 1)

\* Issued numbers only grow, across blocks, failed reservations, resets and
\* damaged records, so none is ever returned twice (persistent_sequence.h:
\* "a sequence number that may already have been uploaded is never issued
\* again").
NeverReissued == \A i, j \in DOMAIN log : i < j => log[i] < log[j]

\* Every number that left the allocator lies below the durable boundary, as
\* long as the record is readable: the block was durable before it was used.
DurableBeforeIssue == nvs # "corrupt" => \A i \in DOMAIN log : log[i] < nvsUntil

\* A ready allocator can lose at most one block to a reset.
ResetSkipsOneBlock == state = "ready" => nvsUntil - nextValue <= BlockSize

\* The allocator declares exhaustion only when no number is left that a reset
\* could still hand out.
ExhaustedMeansNoneLeft == state = "exhausted" => nvsUntil = SpaceSize

\* An allocator that is not ready on a damaged record stays closed: it never
\* restarts the numbering, whatever is called and however often it resets.
ClosedStep ==
  nvs = "corrupt" /\ state # "ready" /\ pc = "idle"
    => nvs' = "corrupt" /\ state' # "ready" /\ pc' = "idle" /\ log' = log
DamageFailsClosed == [][ClosedStep]_vars

\* What makes the properties inductive: where the next number stands between
\* the numbers issued, the range held in memory and the durable boundary, at
\* each point of a call.
Boundary ==
  /\ nvs = "valid" => nvsUntil >= BlockSize
  /\ nvs = "absent" => nvsUntil = 0
  /\ \A i \in DOMAIN log : log[i] < nvsUntil
  /\ state = "exhausted" => pc = "idle" /\ nvsUntil = SpaceSize
  /\ state = "storage_failure" => pc = "idle"
  /\ state = "ready" =>
       /\ nextValue <= reservedUntil
       /\ nextValue < SpaceSize
       /\ \A i \in DOMAIN log : log[i] < nextValue
       /\ nvsUntil - nextValue <= BlockSize
  /\ state = "ready" /\ pc # "verify" => reservedUntil = nvsUntil
  /\ pc = "write" => first = nvsUntil /\ first < SpaceSize
  /\ pc = "verify" =>
       /\ first < SpaceSize
       /\ nvsUntil = BlockEnd(first)
       /\ nvs # "absent"
       /\ \A i \in DOMAIN log : log[i] < first
  /\ pc # "idle" =>
       /\ caller = "next" <=> state = "ready"
       /\ state = "ready" => nextValue = first /\ reservedUntil = first

IInv == TypeOK /\ NeverReissued /\ Boundary

Issuer == INSTANCE SequenceIssuer
RefinesIssuer == Issuer!IssuerSpec
=============================================================================
