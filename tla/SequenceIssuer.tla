--------------------------- MODULE SequenceIssuer ---------------------------
(***************************************************************************)
(* What the telemetry sequence allocator of the ESP32 promises its caller  *)
(* (persistent_sequence.h): every number it hands out is a uint32 it never *)
(* handed out before, in this boot or in an earlier one.  The promise is   *)
(* kept in its strongest usable form: numbers only grow, so the server may *)
(* use (session, sequence) as an identity.                                 *)
(***************************************************************************)
EXTENDS Naturals, Sequences

CONSTANT SpaceSize          \* number of values a sequence number can take

VARIABLE log                \* every number handed out since the factory, in order

IssuerInit == log = <<>>

\* Hand out a number above all earlier ones.
Issue(v) ==
  /\ \A i \in DOMAIN log : log[i] < v
  /\ log' = Append(log, v)

IssuerNext == \E v \in 0 .. SpaceSize - 1 : Issue(v)

IssuerSpec == IssuerInit /\ [][IssuerNext]_log
=============================================================================
