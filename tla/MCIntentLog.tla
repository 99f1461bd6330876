----------------------------- MODULE MCIntentLog -----------------------------
(***************************************************************************)
(* Small rooms for TLC: two tabs, two or three edits, a checkpoint every   *)
(* one or two entries.                                                     *)
(***************************************************************************)
EXTENDS IntentLog, TLC

CONSTANTS c1, c2

MCSymmetry == Permutations(Clients)

(* One fault of any kind.                                                  *)
MCOneFault ==
  spent.failures + spent.deaths + spent.overlaps + rowFailures <= 1

=============================================================================
