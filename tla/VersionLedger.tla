--------------------------- MODULE VersionLedger ---------------------------
(***************************************************************************)
(* What a de-rtc room promises, whatever its requests do: one line of      *)
(* versions, each the one before it with one more proposal merged in, and  *)
(* no author told "applied" before the document holds the proposal.        *)
(***************************************************************************)
EXTENDS Naturals

CONSTANT Tabs     \* the proposals: each tab makes one

VARIABLES
  version,        \* the number of the canonical version
  document,       \* the proposals that version contains
  told            \* the tabs that were told "applied"

Init ==
  /\ version = 1
  /\ document = {}
  /\ told = {}

(* The proposal of t becomes part of the next version.  A proposal sent    *)
(* again is merged again: a new version with the same content.             *)
Commit(t) ==
  /\ version' = version + 1
  /\ document' = document \cup {t}
  /\ UNCHANGED told

Tell(t) ==
  /\ t \in document
  /\ told' = told \cup {t}
  /\ UNCHANGED <<version, document>>

Next == \E t \in Tabs : Commit(t) \/ Tell(t)

Spec == Init /\ [][Next]_<<version, document, told>>

=============================================================================
