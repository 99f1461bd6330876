------------------------- MODULE IntentLogInvariant -------------------------
(***************************************************************************)
(* The inductive invariant of a room of the intent log, for                *)
(* IntentLogProofs: first the table, the meta values and the ingest in     *)
(* progress (EngineInv), then what is under way between tabs and server    *)
(* (NetInv, OnceInv), the replicas (TabsInv) and the review list           *)
(* (ReviewInv).                                                            *)
(***************************************************************************)
EXTENDS IntentLog

(* Log entries, and every row an ingest or a genesis stores.               *)
Entries == [kind : {"intent"}, id : Ids, noop : BOOLEAN]
RowSet ==
  [kind : {"snapshot"}, seq : Nat, doc : Seq(Ids)] \cup Entries
  \cup [kind : {"parked", "resolved"}, id : Ids]
  \cup [kind : {"voided"}, id : Ids, reason : {"voided", "canceled"}]

(* The log entries among the rows s.                                       *)
IntentsOf(s) == Where(s, IsIntent)

(* The table: a row of every kind is well formed, the retained part begins *)
(* with a checkpoint, and so does what the metas point to.                 *)
TableOK ==
  /\ rows \in Seq(RowSet)
  /\ first \in 1..Len(rows) /\ rows[first].kind = "snapshot"
  /\ ckpt = 0 \/ (ckpt \in first..Len(rows) /\ rows[ckpt].kind = "snapshot")
  /\ floor \in 0..first
  /\ rowFailures \in 0..MaxRowFailures

(* A checkpoint row holds what the entries before it give.                 *)
SnapshotsReplay ==
  \A k \in 1..Len(rows) : rows[k].kind = "snapshot" =>
    LET before == IntentsOf(SubSeq(rows, 1, k))
    IN  rows[k].seq = Len(before) /\ rows[k].doc = EffectOf(before)

(* What an intent is answered with.                                        *)
Statuses == {"applied", "voided", "escalated", "canceled", "stale"}

(* The statements of an ingest.                                            *)
OpSet ==
  [do : {"insert"}, row : RowSet, onFail : {"abort", "ignored", "skip"}]
  \cup [do : {"mark"}] \cup [do : {"trim"}, below : Nat] \cup [do : {"floor"}, at : Nat]

(* An ingest in progress.                                                  *)
Ingests ==
  [client : Clients, attempt : Nat, cursor : Nat, todo : Seq(OpSet),
   verdicts : SUBSET (Ids \X Statuses)]

(* The rows of a plan: entries, proposals and markers.                     *)
PlanKinds == {"intent", "parked", "voided"}

(* A statement that stores a row of the plan.                              *)
IsPlanned(o) == o.do = "insert" /\ o.onFail = "abort" /\ o.row.kind # "resolved"

(* The rows of the plan among the statements still to do.                  *)
Planned(todo) ==
  LET w == Where(todo, IsPlanned) IN [k \in 1..Len(w) |-> w[k].row]

(* The table once the plan of the ingest is written.                       *)
Future == IF ingest = NoIngest THEN rows ELSE rows \o Planned(ingest.todo)

OfSnapshot(o) == o.do = "insert" /\ o.row.kind = "snapshot"

PlanFirst(todo) ==
  \A i, j \in 1..Len(todo) : i < j /\ IsPlanned(todo[j]) => IsPlanned(todo[i])

RowsPlanned(todo) ==
  \A i \in 1..Len(todo) : todo[i].do = "insert" =>
    /\ IsPlanned(todo[i]) => todo[i].row.kind \in PlanKinds
    /\ ~IsPlanned(todo[i]) => todo[i].row.kind \in {"snapshot", "parked", "resolved"}
    /\ todo[i].onFail = "skip" <=> todo[i].row.kind = "snapshot"

MarksFollow(todo) ==
  \A i \in 1..Len(todo) : todo[i].do = "mark" /\ i > 1 => OfSnapshot(todo[i - 1])

Layout(todo) == PlanFirst(todo) /\ RowsPlanned(todo) /\ MarksFollow(todo)

(* A checkpoint that is still to be written holds what log gives.          *)
WillReplay(todo, log) ==
  \A i \in 1..Len(todo) : OfSnapshot(todo[i]) =>
    todo[i].row.seq = Len(log) /\ todo[i].row.doc = EffectOf(log)

(* The table a mark, a deletion and a floor meet.                          *)
MetaOK(todo, rs, lo, at) ==
  /\ todo # <<>> /\ todo[1].do = "mark" => rs[Len(rs)].kind = "snapshot"
  /\ \A i \in 1..Len(todo) : todo[i].do = "trim" =>
       /\ at # 0 /\ todo[i].below \in lo..at
       /\ rs[todo[i].below].kind = "snapshot"
  /\ \A i, j \in 1..Len(todo) :
       todo[i].do = "trim" /\ todo[j].do = "trim" => todo[i].below = todo[j].below
  /\ \A i \in 1..Len(todo) : todo[i].do = "floor" =>
       \/ todo[i].at <= lo
       \/ \E h \in 1..(i - 1) : todo[h].do = "trim" /\ todo[h].below = todo[i].at

(* A verdict says of an intent no more than the rows s do.                 *)
Backed(verdicts, s) ==
  \A v \in verdicts :
    /\ v[2] = "applied" => \E k \in 1..Len(s) : s[k].kind = "intent" /\ s[k].id = v[1]
    /\ v[2] = "escalated" => \E k \in 1..Len(s) : s[k] = Parked(v[1])

IngestOK ==
  ingest # NoIngest =>
    /\ ingest \in Ingests
    /\ Layout(ingest.todo)
    /\ WillReplay(ingest.todo, IntentsOf(Future))
    /\ MetaOK(ingest.todo, rows, first, ckpt)
    /\ Backed(ingest.verdicts, Future)

EngineInv ==
  /\ TableOK
  /\ SnapshotsReplay
  /\ decided \in SUBSET (Ids \X Statuses) /\ Backed(decided, rows)
  /\ IngestOK

(* What a tab may send.                                                    *)
IntentUpdates == [type : {"intent"}, id : Ids, base : Nat, txn : Nat]
UpdateSet ==
  IntentUpdates \cup [type : {"cancel"}, ids : Seq(Ids)]
  \cup [type : {"resolved"}, id : Ids]

(* The replica of a tab.                                                   *)
Replicas ==
  [live : BOOLEAN, boot : Nat, seq : Nat, doc : Seq(Ids),
   outbox : Seq(IntentUpdates), applied : SUBSET Ids, deferred : Seq(RowSet),
   proposals : SUBSET Ids, resolved : SUBSET Ids]

(* What is on its way between a tab and the server.                        *)
Verdicts == SUBSET (Ids \X Statuses)
Flights == {Idle} \cup [busy : {TRUE}, updates : Seq(UpdateSet)]
Replies == {NoReply} \cup [here : {TRUE}, rows : Seq(RowSet), end : Nat, verdicts : Verdicts]
RequestSet ==
  [client : Clients, attempt : Nat, cursor : Nat, updates : Seq(UpdateSet),
   ingested : BOOLEAN, verdicts : Verdicts]
Budgets ==
  [failures : Nat, deaths : Nat, overlaps : Nat, cancels : Nat, resolutions : Nat]

(* A tab's state; a tab holds its own intents only.                        *)
ClientTypes ==
  /\ replica \in [Clients -> Replicas]
  /\ authored \in [Clients -> Seq(Nat)]
  /\ queue \in [Clients -> Seq(UpdateSet)]
  /\ \A c \in Clients : Len(authored[c]) <= MaxEdits
  /\ \A c \in Clients : \A k \in 1..Len(replica[c].outbox) :
       replica[c].outbox[k].id[1] = c

(* The state of the transport.                                             *)
NetTypes ==
  /\ cursor \in [Clients -> Nat]
  /\ flight \in [Clients -> Flights]
  /\ attempt \in [Clients -> Nat]
  /\ reply \in [Clients -> Replies]
  /\ inbox \in SUBSET RequestSet
  /\ spent \in Budgets

(* The ingest in progress is for the request tab c waits for.              *)
OfIngest(c) == ingest # NoIngest /\ ingest.client = c /\ ingest.attempt = attempt[c]

(* At most one request or answer is live per tab, and it knows the tab's   *)
(* cursor.                                                                 *)
OneRequest ==
  /\ \A r \in inbox :
       /\ r.attempt <= attempt[r.client]
       /\ r.ingested => Live(r)
       /\ Live(r) => /\ flight[r.client].busy /\ ~reply[r.client].here
                     /\ r.cursor = cursor[r.client]
  /\ \A q, r \in inbox : Live(q) /\ Live(r) /\ q.client = r.client => q = r
  /\ ingest # NoIngest => ingest.attempt <= attempt[ingest.client]
  /\ \A c \in Clients : OfIngest(c) =>
       /\ flight[c].busy /\ ~reply[c].here /\ ingest.cursor = cursor[c]
       /\ \A r \in inbox : r.client = c => ~Live(r)
  /\ \A c \in Clients : reply[c].here => flight[c].busy

(* The invariant of the server and the network.                            *)
NetInv == EngineInv /\ ClientTypes /\ NetTypes /\ OneRequest

(* How many entries there are among the first k rows.                      *)
Pos(s, k) == Len(IntentsOf(SubSeq(s, 1, k)))

Distinct(log) == \A i, j \in 1..Len(log) : log[i].id = log[j].id => i = j

(* A replica is the document at its position in the log, and knows which   *)
(* entries it has applied since it started from a checkpoint.              *)
Canonical(rep, s) ==
  /\ rep \in Replicas /\ rep.live
  /\ rep.boot <= rep.seq /\ rep.seq <= Len(IntentsOf(s))
  /\ rep.doc = EffectOf(SubSeq(IntentsOf(s), 1, rep.seq))
  /\ rep.applied = {IntentsOf(s)[i].id : i \in (rep.boot + 1)..rep.seq}

-----------------------------------------------------------------------------
(* The rows a deferred reset holds back: d gives their places in the table *)
(* s, H marks those a window began with.  A window that does not begin     *)
(* with a checkpoint row continues what was held back before; none begins  *)
(* below an earlier beginning.  All rows up to u have been received, the   *)
(* next window begins at a or later.                                       *)
HeldAt(d, es, s) ==
  /\ d \in [1..Len(es) -> 1..Len(s)]
  /\ \A i \in 1..Len(es) : es[i] = s[d[i]]

Begins(d, H, n, s, a) ==
  \A i \in H : /\ i \in 1..n /\ s[d[i]].kind = "snapshot" /\ d[i] <= a
               /\ \A j \in i..n : d[i] <= d[j]

Continues(d, H, n) ==
  \A i \in 1..n : i \in H \/ \E j \in 1..(i - 1) : d[i] - 1 <= d[j]

Reaches(d, n, u) == \E j \in 1..n : u <= d[j]

Waiting(d, H, rep, s, u, a) ==
  /\ rep.deferred # <<>> /\ HeldAt(d, rep.deferred, s)
  /\ 1 \in H /\ Begins(d, H, Len(rep.deferred), s, a)
  /\ s[d[1]].seq > rep.seq
  /\ Continues(d, H, Len(rep.deferred))
  /\ Reaches(d, Len(rep.deferred), u)

(* A replica that has received all rows up to u, or holds some back.       *)
Up(rep, s, u, a) ==
  /\ Canonical(rep, s) /\ rep.boot <= Pos(s, a - 1)
  /\ \/ rep.deferred = <<>> /\ Pos(s, u) <= rep.seq
     \/ \E d, H : Waiting(d, H, rep, s, u, a)

(* The first row that rows after cursor u start from when lo is the lowest *)
(* retained row.                                                           *)
From(u, lo) == IF u < lo THEN lo ELSE u + 1

(* A tab whose cursor is u has received every row up to u, or waits for    *)
(* its first response; the next window may begin at a.                     *)
TabOK(rep, u, a, s) ==
  /\ rep \in Replicas /\ u \in 0..Len(s) /\ a \in (u + 1)..(Len(s) + 1)
  /\ \/ ~rep.live /\ u = 0 /\ rep.deferred = <<>>
     \/ Up(rep, s, u, a)

(* The rows of the response on its way: they continue what the tab has, or *)
(* begin with a checkpoint row.                                            *)
Window(rp, u, a, s, lo) ==
  /\ rp.end \in u..Len(s) /\ a <= rp.end + 1 /\ a <= From(u, lo)
  /\ rp.rows = SubSeq(s, a, rp.end)
  /\ (a = u + 1 /\ u >= 1) \/ (a <= rp.end /\ s[a].kind = "snapshot")

Tab(rep, u, rp, s, lo) ==
  \E a : TabOK(rep, u, a, s) /\ IF rp.here THEN Window(rp, u, a, s, lo) ELSE a = From(u, lo)

TabsInv == \A c \in Clients : Tab(replica[c], cursor[c], reply[c], rows, first)

(* The updates of a tab that the server has not acknowledged, in order.    *)
Outgoing(c) == IF flight[c].busy THEN flight[c].updates \o queue[c] ELSE queue[c]

(* An intent of tab c that is in the log G, if at all, above its base; the *)
(* table holds n entries, the tab has authored m intents.                  *)
AboveBase(x, c, G, n, m) ==
  /\ x.id[1] = c /\ x.id[2] <= m /\ x.base <= n
  /\ \A p \in 1..Len(G) : G[p].id = x.id => p > x.base

Sent(us, c, G, n, m) ==
  /\ \A i \in 1..Len(us) : us[i].type = "intent" => AboveBase(us[i], c, G, n, m)
  /\ \A i, j \in 1..Len(us) :
       us[i].type = "intent" /\ us[j].type = "intent" /\ us[i].id = us[j].id => i = j

LogOnce(G, made) ==
  Distinct(G) /\ \A p \in 1..Len(G) : G[p].id[2] <= Len(made[G[p].id[1]])

(* Nothing is, or is about to be, in the log twice, and whatever may be    *)
(* sent again was authored below its place in the log.                     *)
OnceInv ==
  LET G == IntentsOf(Future)
      n == Len(IntentsOf(rows))
  IN  /\ LogOnce(G, authored)
      /\ \A c \in Clients : Sent(Outgoing(c), c, G, n, Len(authored[c]))
      /\ \A r \in inbox : Sent(r.updates, r.client, G, n, Len(authored[r.client]))

(* Everything the room promises at once: the table and what the ingest in  *)
(* progress will add to it, the requests and their copies, the tabs.       *)
RoomInv == NetInv /\ OnceInv /\ TabsInv

-----------------------------------------------------------------------------
(* A tab gives a request up at most once for every failure or death.       *)
SpentInv ==
  /\ spent.failures <= MaxFailures /\ spent.deaths <= MaxDeaths
  /\ \A c \in Clients : attempt[c] <= spent.failures + spent.deaths

(* No copy of intent i among these updates has a base above p.             *)
NotAbove(us, i, p) ==
  \A j \in 1..Len(us) : us[j].type = "intent" /\ us[j].id = i => us[j].base <= p

(* No copy of i that is under way has one.                                 *)
CopiesBelow(i, p) ==
  /\ \A c \in Clients : NotAbove(Outgoing(c), i, p)
  /\ \A r \in inbox : NotAbove(r.updates, i, p)

(* Intent i has been authored.                                             *)
Known(i) == i[2] <= Len(authored[i[1]])

(* A row of this kind about intent i.                                      *)
Has(s, kind, i) == \E k \in 1..Len(s) : s[k].kind = kind /\ s[k].id = i

OfResolved(o) == o.do = "insert" /\ o.row.kind = "resolved"
Reappends(o)  == o.do = "insert" /\ o.row.kind = "parked" /\ ~IsPlanned(o)

(* A log of n entries is too short for another checkpoint.                 *)
Short(s, n) == \E j \in 1..Len(s) : s[j].kind = "snapshot" /\ n < s[j].seq + Interval

(* Where the review list stands in the table: a resolution comes before a  *)
(* checkpoint is due, so the next checkpoint is above it; what was         *)
(* resolved is not parked again below a later checkpoint; what is not      *)
(* resolved is among the retained rows.                                    *)
ResolvedEarly(s) ==
  \A k \in 1..Len(s) : s[k].kind = "resolved" =>
    \E j \in 1..k : s[j].kind = "snapshot" /\ Pos(s, k) < s[j].seq + Interval

ResolvedBelow(s) ==
  \A k, m \in 1..Len(s) :
    k < m /\ s[k].kind = "resolved" /\ s[m].kind = "snapshot" => Pos(s, k) < s[m].seq

NotReparked(s) ==
  \A k, m \in 1..Len(s) :
    k < m /\ s[k].kind = "resolved" /\ s[m].kind = "parked" /\ s[m].id = s[k].id =>
      \A h \in k..m : s[h].kind # "snapshot"

StaysListed(s, lo) ==
  \A k \in 1..Len(s) : s[k].kind = "parked" =>
    Has(s, "resolved", s[k].id) \/ \E m \in lo..Len(s) : s[m] = s[k]

(* The same of what an ingest has still to do, with n entries in the log   *)
(* when it is through.                                                     *)
WillBeBelow(todo, s, n) ==
  \A i \in 1..Len(todo) : OfSnapshot(todo[i]) =>
    \A k \in 1..Len(s) : s[k].kind = "resolved" => Pos(s, k) < n

WillBeEarly(todo, s, n) ==
  \A i \in 1..Len(todo) : OfResolved(todo[i]) =>
    /\ Has(s, "parked", todo[i].row.id)
    /\ Short(s, n) \/ \E h \in 1..(i - 1) : OfSnapshot(todo[h])
    /\ \A j \in i..Len(todo) : OfResolved(todo[j])

WillBeOpen(todo, s) ==
  \A i \in 1..Len(todo) : Reappends(todo[i]) =>
    Has(s, "parked", todo[i].row.id) /\ ~Has(s, "resolved", todo[i].row.id)

WillBeKept(todo, s) ==
  \A i \in 1..Len(todo) : todo[i].do = "trim" =>
    \A k \in 1..Len(s) : s[k].kind = "parked" =>
      \/ Has(s, "resolved", s[k].id)
      \/ \E m \in todo[i].below..Len(s) : s[m] = s[k]
      \/ \E h \in 1..(i - 1) : todo[h].do = "insert" /\ todo[h].row = s[k]

Reviewing(todo, s, n) ==
  WillBeBelow(todo, s, n) /\ WillBeEarly(todo, s, n) /\ WillBeOpen(todo, s) /\ WillBeKept(todo, s)

(* No copy of a proposal is fresh above the row that parked or resolved it.*)
ProposalsKnown(s) ==
  \A k \in 1..Len(s) : s[k].kind \in {"parked", "resolved"} =>
    Known(s[k].id) /\ CopiesBelow(s[k].id, Pos(s, k))

ReviewInv ==
  /\ ResolvedEarly(rows) /\ ResolvedBelow(rows) /\ StaysListed(rows, first)
  /\ NotReparked(Future) /\ ProposalsKnown(Future)
  /\ ingest # NoIngest => Reviewing(ingest.todo, rows, Len(IntentsOf(Future)))

=============================================================================
