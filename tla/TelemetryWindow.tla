--------------------------- MODULE TelemetryWindow ---------------------------
(* The rolling-window rules that training and live inference share: which     *)
(* two sensor rows are contiguous, which rows of a recording have a complete  *)
(* window, and which window the live route scores.  No state: a recording is  *)
(* a sequence of rows, oldest sequence number first.  Times, sequence         *)
(* numbers and uptimes are small integers; a row is ok when its echo is       *)
(* healthy and in range.                                                      *)
EXTENDS Integers, Sequences, FiniteSets, SequencesExt

CONSTANTS
  Window,       \* rows a feature vector needs
  MaxGap,       \* longest time between two contiguous rows
  MaxSeqGap,    \* largest distance of their sequence numbers
  MaxUptimeGap, \* largest distance of their uptimes
  MaxAge,       \* age at which the live route calls a row stale
  Ahead         \* how far a row may lie in the future

ASSUME WindowAssumption ==
  /\ Window \in Nat /\ Window >= 2
  /\ {MaxGap, MaxSeqGap, MaxUptimeGap, MaxAge, Ahead} \subseteq Nat

Contiguous(older, newer) ==
  /\ older.ok /\ newer.ok
  /\ older.session = newer.session
  /\ newer.at - older.at \in 1..MaxGap
  /\ newer.seq - older.seq \in 1..MaxSeqGap
  /\ newer.up - older.up \in 1..MaxUptimeGap

(* Mutant of OpensEpoch: only an invalid echo ends an epoch.                  *)
OpensEpochAfterFault(rows, i) == rows[i].ok /\ (i = 1 \/ ~rows[i-1].ok)

(* A valid row opens a new epoch unless it continues the row before it.       *)
OpensEpoch(rows, i) == rows[i].ok /\ (i = 1 \/ ~Contiguous(rows[i-1], rows[i]))

Epoch(rows, i) == Cardinality({j \in 1..i : OpensEpoch(rows, j)})

(* The valid rows in the order the features are computed: by reception time.  *)
Earlier(rows, j, i) == rows[j].at < rows[i].at \/ (rows[j].at = rows[i].at /\ j < i)
Ordered(rows) ==
  LET valid == {i \in DOMAIN rows : rows[i].ok}
      rank(i) == Cardinality({j \in valid : Earlier(rows, j, i)}) + 1
  IN  [k \in 1..Cardinality(valid) |-> CHOOSE i \in valid : rank(i) = k]

(* The rows whose window is complete.  The window restarts whenever the epoch *)
(* marker changes, so a complete one lies in one epoch.                       *)
Eligible(rows) ==
  LET order == Ordered(rows) IN
  {order[k] : k \in {n \in Window..Len(order) :
     \A m \in (n - Window + 1)..n : Epoch(rows, order[m]) = Epoch(rows, order[n])}}

IsFresh(row, now) == now - row.at \in (-Ahead)..MaxAge

(* The elements of s at the positions in S, in the order of s.                *)
Picked(s, S) ==
  [k \in 1..Cardinality(S) |-> s[CHOOSE i \in S : Cardinality({j \in S : j < i}) = k - 1]]

(* Mutant of LiveChain: rows newer than the anchor are not skipped.           *)
LiveChainOfAll(anchor, history) ==
  <<anchor>> \o Picked(history, {i \in DOMAIN history : history[i].id # anchor.id})

(* What the live route answers for the newest row `anchor` and a history read *)
(* newest first: the rows stored after the anchor and the anchor itself are   *)
(* skipped, and the chain ends at the first pair that is not contiguous.      *)
LiveChain(anchor, history) ==
  <<anchor>> \o Picked(history, {i \in DOMAIN history : history[i].id < anchor.id})

LiveWindowComplete(anchor, history, now) ==
  LET chain == LiveChain(anchor, history) IN
  /\ IsFresh(anchor, now)
  /\ Len(chain) >= Window
  /\ \A k \in 1..Window - 1 : /\ Contiguous(chain[k + 1], chain[k])
                              /\ IsFresh(chain[k + 1], now)

LiveWindow(anchor, history) == SubSeq(LiveChain(anchor, history), 1, Window)
=============================================================================
