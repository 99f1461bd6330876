-------------------------- MODULE IntentLogSession --------------------------
(***************************************************************************)
(* createIntentLogSession(): the editor tab's replica of the room.  Rows   *)
(* and dispositions are functions of the replica; a JavaScript turn        *)
(* applies a whole response at once.                                       *)
(***************************************************************************)
EXTENDS Integers, FiniteSets, Sequences, SequencesExt, Selection

(* live: the room snapshot has arrived; boot: bootstrapSeq; seq and doc:   *)
(* replica.cursor and baseDoc; outbox: unsettled intents; applied:         *)
(* appliedIntentIds; deferred: deferredResetBuffer, empty for null;        *)
(* proposals and resolved: the review list.                                *)
FreshReplica ==
  [live |-> FALSE, boot |-> 0, seq |-> 0, doc |-> <<>>, outbox |-> <<>>,
   applied |-> {}, deferred |-> <<>>, proposals |-> {}, resolved |-> {}]

SettlePending(outbox, ids) == Where(outbox, LAMBDA x : x.id \notin ids)

(* A snapshot bootstraps the first time; later it resets a replica that is *)
(* behind it, unless local work is unsettled: then it waits.               *)
ReceiveSnapshot(rep, row) ==
  IF ~rep.live \/ (row.seq > rep.seq /\ rep.outbox = <<>>)
  THEN [rep EXCEPT !.live = TRUE, !.boot = row.seq, !.seq = row.seq,
                   !.doc = row.doc, !.applied = {}]
  ELSE IF row.seq > rep.seq THEN [rep EXCEPT !.deferred = <<row>>]
  ELSE rep

(* BUG of ReceiveIntent: a redelivered row counts as a new log entry.      *)
ReceiveIntentAgain(rep, row) ==
  IF ~rep.live THEN rep
  ELSE [rep EXCEPT !.outbox = SettlePending(@, {row.id}),
                   !.seq = @ + 1,
                   !.doc = IF row.noop THEN @ ELSE Append(@, row.id),
                   !.applied = @ \cup {row.id}]

ReceiveIntent(rep, row) ==
  IF ~rep.live \/ row.id \in rep.applied THEN rep
  ELSE [rep EXCEPT !.outbox = SettlePending(@, {row.id}),
                   !.seq = @ + 1,
                   !.doc = IF row.noop THEN @ ELSE Append(@, row.id),
                   !.applied = @ \cup {row.id}]

ReceiveParked(rep, row) ==
  IF row.id \in rep.proposals THEN rep
  ELSE [rep EXCEPT !.outbox = SettlePending(@, {row.id}),
                   !.proposals = @ \cup {row.id}]

(* receiveUpdate(): everything behind a deferred reset stays behind it.    *)
ReceiveUpdate(rep, row) ==
  IF rep.deferred # <<>> THEN [rep EXCEPT !.deferred = Append(@, row)]
  ELSE CASE row.kind = "snapshot" -> ReceiveSnapshot(rep, row)
         [] row.kind = "intent"   -> ReceiveIntent(rep, row)
         [] row.kind = "parked"   -> ReceiveParked(rep, row)
         [] row.kind = "resolved" -> [rep EXCEPT !.resolved = @ \cup {row.id}]
         [] row.kind = "voided"   ->
              [rep EXCEPT !.outbox = SettlePending(@, {row.id})]

(* The rows of a response in order.                                        *)
ReceiveRows(rep, rs) ==
  LET after[k \in 0..Len(rs)] ==
        IF k = 0 THEN rep
        ELSE CHOOSE r \in {ReceiveUpdate(before, rs[k]) : before \in {after[k - 1]}} : TRUE
  IN  after[Len(rs)]

(* maybeReleaseDeferredReset().                                            *)
ReleaseDeferred(rep) ==
  IF rep.deferred # <<>> /\ rep.outbox = <<>>
  THEN ReceiveRows([rep EXCEPT !.deferred = <<>>], rep.deferred)
  ELSE rep

(* BUG of ReceiveDispositions: a drained outbox does not release the reset *)
(* that waits for it.                                                      *)
ReceiveDispositionsOnly(rep, ids) ==
  [rep EXCEPT !.outbox = SettlePending(@, ids)]

(* receiveDispositions(), called only with a response to sent updates.     *)
ReceiveDispositions(rep, ids) ==
  ReleaseDeferred([rep EXCEPT !.outbox = SettlePending(@, ids)])

=============================================================================
