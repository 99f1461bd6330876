--------------------------- MODULE IntentLogEngine ---------------------------
(***************************************************************************)
(* WP_Intent_Log_Engine: one room of the intent-log server.  The room is   *)
(* an append-only table of rows; everything the server knows is rebuilt    *)
(* from the retained rows at the start of every ingest (load_room).        *)
(*                                                                         *)
(* An ingest runs under the room lock (module RoomLock).  It plans all its *)
(* writes from the state it loaded, then performs them one SQL statement   *)
(* at a time; readers take no lock and see every intermediate table, and a *)
(* worker may die, or an INSERT fail, between any two statements.          *)
(*                                                                         *)
(* A block document is the sequence of the intents that had an effect on   *)
(* it.  What the planner decides about an intent is a choice among the     *)
(* outcomes its rules allow: concurrency is what makes it refuse.          *)
(***************************************************************************)
EXTENDS Integers, FiniteSets, Sequences, SequencesExt, Selection

CONSTANTS
  Clients,
  MaxEdits,        \* bound: intents in all
  Interval,        \* wp_sync_intent_log_checkpoint_interval
  Outcomes,        \* what the planner may decide, within Verdicts
  Filtered,        \* clients whose user lacks unfiltered_html
  MaxRowFailures   \* bound: failed INSERTs that do not end the request

Ids == Clients \X (1..MaxEdits)
Actor(i) == i[1]

AllOutcomes == {"applied", "noop", "voided", "escalated", "approval"}

ASSUME EngineAssumption ==
  /\ IsFiniteSet(Clients)
  /\ MaxEdits \in Nat /\ Interval \in Nat \ {0} /\ MaxRowFailures \in Nat
  /\ Outcomes \subseteq AllOutcomes /\ "applied" \in Outcomes
  /\ Filtered \subseteq Clients

VARIABLES
  rows,         \* every row ever stored; the row id is the index
  first,        \* the lowest retained row id (rows below it are deleted)
  ckpt,         \* meta intent_log_checkpoint: its row id, 0 if unset
  floor,        \* meta intent_log_floor, 0 if unset
  ingest,       \* the request that holds the room lock, or NoIngest
  rowFailures,  \* INSERT failures so far (bound)
  decided       \* history: the <<intent, status>> pairs acknowledged

engineVars == <<rows, first, ckpt, floor, ingest, rowFailures, decided>>

NoIngest == [client |-> "none"]

-----------------------------------------------------------------------------
(* Rows and what a client may send.                                        *)

Snapshot(seq, doc) == [kind |-> "snapshot", seq |-> seq, doc |-> doc]
Entry(i, noop)     == [kind |-> "intent", id |-> i, noop |-> noop]
Parked(i)          == [kind |-> "parked", id |-> i]
Resolved(i)        == [kind |-> "resolved", id |-> i]
Voided(i, reason)  == [kind |-> "voided", id |-> i, reason |-> reason]

IntentUpdate(i, base, txn) ==
  [type |-> "intent", id |-> i, base |-> base, txn |-> txn]
CancelUpdate(ids)  == [type |-> "cancel", ids |-> ids]
ResolvedUpdate(i)  == [type |-> "resolved", id |-> i]

OfType(updates, t) == Where(updates, LAMBDA u : u.type = t)

IsIntent(r) == r.kind = "intent"

(* The effect of log entries on a document.                                *)
EffectOf(log) ==
  LET had == Where(log, LAMBDA r : ~r.noop)
  IN  [k \in 1..Len(had) |-> had[k].id]

-----------------------------------------------------------------------------
(* load_room(): the state of the room, rebuilt from the retained rows.     *)

(* The last snapshot supersedes everything before it.                      *)
BaseRow ==
  CHOOSE k \in first..Len(rows) :
    /\ rows[k].kind = "snapshot"
    /\ \A m \in (k + 1)..Len(rows) : rows[m].kind # "snapshot"

BaseSeq == rows[BaseRow].seq
Log     == Where(SubSeq(rows, BaseRow + 1, Len(rows)), IsIntent)
HeadSeq == BaseSeq + Len(Log)
HeadDoc == rows[BaseRow].doc \o EffectOf(Log)

LastAbout(i, kinds, from) ==
  LET about == {k \in from..Len(rows) : rows[k].kind \in kinds /\ rows[k].id = i}
  IN  IF about = {} THEN 0 ELSE CHOOSE k \in about : \A m \in about : m <= k

(* $state['settled']: cleared by a checkpoint, last row wins.              *)
Settled(i) ==
  LET k == LastAbout(i, {"intent", "parked", "voided"}, BaseRow + 1)
  IN  IF k = 0 THEN "none"
      ELSE CASE rows[k].kind = "intent" -> "applied"
             [] rows[k].kind = "parked" -> "escalated"
             [] rows[k].kind = "voided" -> rows[k].reason

(* proposals_open minus resolved: both survive a checkpoint.               *)
Open(i) ==
  /\ LastAbout(i, {"parked"}, first) # 0
  /\ LastAbout(i, {"resolved"}, first) = 0

-----------------------------------------------------------------------------
(* handle_updates_locked(): cancellations, the fresh intents and the plan. *)

(* All-or-nothing: one target already settled, other than as canceled,     *)
(* and nothing of the row cancels.                                         *)
TooLate(cancel) ==
  \E i \in ToSet(cancel.ids) : Settled(i) \notin {"none", "canceled"}

CanceledBy(updates) ==
  UNION {ToSet(c.ids) : c \in {u \in ToSet(OfType(updates, "cancel")) : ~TooLate(u)}}

CancelRows(updates) ==
  LET granted == Where(OfType(updates, "cancel"), LAMBDA u : ~TooLate(u))
      targets == FlattenSeq([k \in 1..Len(granted) |-> granted[k].ids])
      newly   == Where(targets, LAMBDA i : Settled(i) = "none")
  IN  [k \in 1..Len(newly) |-> Voided(newly[k], "canceled")]

(* BUG of IsNew: a cancellation marker does not settle its intent.         *)
IsNewUnlessLogged(x, updates) ==
  Settled(x.id) \in {"none", "canceled"} /\ x.id \notin CanceledBy(updates)

(* Redelivered copies are dropped; intents authored below the retention    *)
(* horizon are stale.                                                      *)
IsNew(x, updates) == Settled(x.id) = "none" /\ x.id \notin CanceledBy(updates)

(* BUG of Fresh: the retention horizon is not tested.                      *)
FreshAtAnyBase(updates) ==
  Where(OfType(updates, "intent"), LAMBDA x : IsNew(x, updates))

Fresh(updates) ==
  Where(OfType(updates, "intent"),
            LAMBDA x : IsNew(x, updates) /\ x.base >= BaseSeq)

(* The one-sided transform skips the author's own entries, so only foreign *)
(* ones after the intent's base can change or refuse it.                   *)
Contended(x) ==
  \E k \in DOMAIN Log : BaseSeq + k > x.base /\ Actor(Log[k].id) # Actor(x.id)

(* BUG of Plans: the members of a unit escalate on their own.              *)
PlansPerIntent(client, fresh) ==
  {out \in [1..Len(fresh) -> Outcomes \ {"approval"}] :
     \A k \in DOMAIN out :
       out[k] \in {"noop", "voided", "escalated"} =>
         \E m \in 1..k : Contended(fresh[m])}

(* The plans the planner's rules allow for a batch.  A unit escalates as a *)
(* whole; an intent can be refused only when it, its unit or an earlier    *)
(* intent of the batch is contended; the units of a filtered user may park *)
(* for approval.                                                           *)
Plans(client, fresh) ==
  {out \in [1..Len(fresh) -> Outcomes] :
     \A k \in DOMAIN out :
       /\ out[k] = "approval" => client \in Filtered
       /\ out[k] \in {"noop", "voided", "escalated"} =>
            \E m \in DOMAIN out : /\ m <= k \/ fresh[m].txn = fresh[k].txn
                                  /\ Contended(fresh[m])
       /\ \A m \in DOMAIN out :
            fresh[m].txn = fresh[k].txn /\ out[k] \in {"escalated", "approval"}
              => out[m] = out[k]}

(* The rows an outcome is stored as: an apply-time void is in the log and  *)
(* has a marker, a rebase void has only the marker.                        *)
RowsFor(x, outcome) ==
  CASE outcome = "applied" -> <<Entry(x.id, FALSE)>>
    [] outcome = "noop"    -> <<Entry(x.id, TRUE), Voided(x.id, "voided")>>
    [] outcome = "voided"  -> <<Voided(x.id, "voided")>>
    [] outcome \in {"escalated", "approval"} -> <<Parked(x.id)>>

(* Units that need approval are parked first, then the plan is committed.  *)
PlanRows(fresh, out) ==
  LET these(S) == FlattenSeq([k \in 1..Len(fresh) |->
                    IF out[k] \in S THEN RowsFor(fresh[k], out[k]) ELSE <<>>])
  IN  these({"approval"}) \o these(AllOutcomes \ {"approval"})

Accepted(fresh, out) == Where(PlanRows(fresh, out), IsIntent)

-----------------------------------------------------------------------------
(* The statements of an ingest.  A failed INSERT ends the request, is not  *)
(* noticed (a re-appended proposal), or skips the rest of the checkpoint   *)
(* (its own row).                                                          *)

Insert(row, onFail) == [do |-> "insert", row |-> row, onFail |-> onFail]
Mark                == [do |-> "mark"]
(* BUG of Trim: the checkpoint row itself is deleted too.                  *)
TrimThrough(below)  == [do |-> "trim", below |-> below + 1]
Trim(below)         == [do |-> "trim", below |-> below]
SetFloor(at)        == [do |-> "floor", at |-> at]

Inserts(rs, onFail) == [k \in 1..Len(rs) |-> Insert(rs[k], onFail)]

(* BUG of Reappended: proposals below the new floor are not carried over.  *)
ReappendedNothing == <<>>

(* Unresolved proposals below the previous checkpoint row.                 *)
Reappended ==
  Where(SubSeq(rows, first, ckpt - 1),
            LAMBDA r : /\ r.kind = "parked"
                       /\ LastAbout(r.id, {"resolved"}, first) = 0)

(* BUG of CheckpointOps: the row is labelled with the seq the request      *)
(* found, not with the one it leads to.                                    *)
CheckpointOpsAtOldSeq(n, doc) ==
  IF Len(Log) + n < Interval THEN <<>>
  ELSE Inserts(IF ckpt = 0 THEN <<>> ELSE Reappended, "ignored")
       \o <<Insert(Snapshot(HeadSeq, doc), "skip"), Mark>>
       \o (IF ckpt = 0 THEN <<>> ELSE <<Trim(ckpt), SetFloor(ckpt)>>)

(* maybe_checkpoint(): n accepted entries lead to document doc.            *)
CheckpointOps(n, doc) ==
  IF Len(Log) + n < Interval THEN <<>>
  ELSE Inserts(IF ckpt = 0 THEN <<>> ELSE Reappended, "ignored")
       \o <<Insert(Snapshot(HeadSeq + n, doc), "skip"), Mark>>
       \o (IF ckpt = 0 THEN <<>> ELSE <<Trim(ckpt), SetFloor(ckpt)>>)

(* Only a currently open proposal gets a row; any other id is acknowledged *)
(* without one.                                                            *)
ResolutionRows(updates) ==
  LET open == Where(OfType(updates, "resolved"), LAMBDA u : Open(u.id))
  IN  [k \in 1..Len(open) |-> Resolved(open[k].id)]

IngestOps(updates, fresh, out) ==
  LET accepted == Accepted(fresh, out)
  IN  Inserts(CancelRows(updates) \o PlanRows(fresh, out), "abort")
      \o CheckpointOps(Len(accepted), HeadDoc \o EffectOf(accepted))
      \o Inserts(ResolutionRows(updates), "abort")

(* The dispositions of the response.                                       *)
StatusOf(outcome) ==
  CASE outcome = "applied" -> "applied"
    [] outcome \in {"noop", "voided"} -> "voided"
    [] outcome \in {"escalated", "approval"} -> "escalated"

(* BUG of IntentVerdicts: whatever is not fresh was applied before.        *)
IntentVerdictsAssumed(updates, fresh, out) ==
  {<<fresh[k].id, StatusOf(out[k])>> : k \in 1..Len(fresh)}
  \cup {<<x.id, "applied">> :
          x \in ToSet(OfType(updates, "intent")) \ ToSet(fresh)}

IntentVerdicts(updates, fresh, out) ==
  {<<fresh[k].id, StatusOf(out[k])>> : k \in 1..Len(fresh)}
  \cup {<<x.id, IF Settled(x.id) # "none" THEN Settled(x.id)
                ELSE IF x.id \in CanceledBy(updates) THEN "canceled"
                ELSE "stale">> :
          x \in ToSet(OfType(updates, "intent")) \ ToSet(fresh)}

-----------------------------------------------------------------------------

EngineInit ==
  /\ rows = <<Snapshot(0, <<>>)>>
  /\ first = 1
  /\ ckpt = 0
  /\ floor = 0
  /\ ingest = NoIngest
  /\ rowFailures = 0
  /\ decided = {}

(* handle_updates(): take the lock, load the room, plan.                   *)
IngestStart(req) ==
  /\ ingest = NoIngest
  /\ LET fresh == Fresh(req.updates)
     IN  \E out \in Plans(req.client, fresh) :
           ingest' = [client   |-> req.client,
                      attempt  |-> req.attempt,
                      cursor   |-> req.cursor,
                      todo     |-> IngestOps(req.updates, fresh, out),
                      verdicts |-> IntentVerdicts(req.updates, fresh, out)]
  /\ UNCHANGED <<rows, first, ckpt, floor, rowFailures, decided>>

Doing(what) ==
  /\ ingest # NoIngest
  /\ ingest.todo # <<>>
  /\ Head(ingest.todo).do = what

Done(todo) == ingest' = [ingest EXCEPT !.todo = todo]

IngestInsert ==
  /\ Doing("insert")
  /\ rows' = Append(rows, Head(ingest.todo).row)
  /\ Done(Tail(ingest.todo))
  /\ UNCHANGED <<first, ckpt, floor, rowFailures, decided>>

(* An INSERT fails and the request goes on.                                *)
IngestInsertFails ==
  /\ Doing("insert")
  /\ rowFailures < MaxRowFailures
  /\ LET rest == Tail(ingest.todo)
     IN  \/ Head(ingest.todo).onFail = "ignored" /\ Done(rest)
         \/ /\ Head(ingest.todo).onFail = "skip"
            /\ Done(Where(rest, LAMBDA o : o.do = "insert"))
  /\ rowFailures' = rowFailures + 1
  /\ UNCHANGED <<rows, first, ckpt, floor, decided>>

(* The checkpoint row's id is the insert_id of the statement before.       *)
IngestMark ==
  /\ Doing("mark")
  /\ ckpt' = Len(rows)
  /\ Done(Tail(ingest.todo))
  /\ UNCHANGED <<rows, first, floor, rowFailures, decided>>

IngestTrim ==
  /\ Doing("trim")
  /\ first' = Head(ingest.todo).below
  /\ Done(Tail(ingest.todo))
  /\ UNCHANGED <<rows, ckpt, floor, rowFailures, decided>>

IngestFloor ==
  /\ Doing("floor")
  /\ floor' = Head(ingest.todo).at
  /\ Done(Tail(ingest.todo))
  /\ UNCHANGED <<rows, first, ckpt, rowFailures, decided>>

IngestStep ==
  IngestInsert \/ IngestInsertFails \/ IngestMark \/ IngestTrim \/ IngestFloor

(* The response is built and the lock released.                            *)
IngestEnd ==
  /\ ingest # NoIngest
  /\ ingest.todo = <<>>
  /\ ingest' = NoIngest
  /\ decided' = decided \cup ingest.verdicts
  /\ UNCHANGED <<rows, first, ckpt, floor, rowFailures>>

(* The worker dies, or an INSERT it depends on fails: what was written     *)
(* stays, the rest is never done, the request is answered with an error.   *)
IngestDies ==
  /\ ingest # NoIngest
  /\ ingest' = NoIngest
  /\ UNCHANGED <<rows, first, ckpt, floor, rowFailures, decided>>

(* BUG of ReadFrom: the checkpoint row at the floor is skipped.            *)
ReadFromAfterFloor(cursor) ==
  IF cursor > 0 /\ cursor < floor THEN floor ELSE cursor

(* get_updates_since(): the rows after the cursor, or from the retained    *)
(* checkpoint on when the cursor lies below the floor.                     *)
ReadFrom(cursor) == IF cursor > 0 /\ cursor < floor THEN floor - 1 ELSE cursor

RowsSince(cursor) ==
  LET after == ReadFrom(cursor) + 1
  IN  SubSeq(rows, IF after < first THEN first ELSE after, Len(rows))

=============================================================================
