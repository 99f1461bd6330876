------------------------------- MODULE YjsRoom -------------------------------
(***************************************************************************)
(* The yjs-server engine: concurrent PHP requests merge the updates of the *)
(* tabs into one canonical Yjs document, log one row per update, compact   *)
(* the log behind checkpoints, and answer every tab with the rows past its *)
(* cursor.  No lock orders the requests: each storage access of            *)
(* handle_updates and get_updates_since is a step of its own.              *)
(*                                                                         *)
(* A Yjs document is the set of the items it has received.  An item needs  *)
(* the previous item of its author and the item it was inserted next to;   *)
(* an item whose needs are missing is parked as pending, kept in the       *)
(* encoding and integrated when they arrive.  Merging is union.            *)
(***************************************************************************)
EXTENDS Integers, Sequences, FiniteSets, Functions, Selection

CONSTANTS Tabs,         \* browser tabs, one Yjs client id each
          Workers,      \* PHP requests that may run at once
          Server,       \* GENESIS_CLIENT_ID
          MaxEdits,     \* edits of one tab
          Interval,     \* wp_sync_yjs_server_checkpoint_interval
          MaxFaults,    \* failed requests
          LateRows,     \* whether a row may become visible after its id is taken
          Fresh         \* whether the room starts empty or with its genesis stored

ASSUME ServerIsNoTab == Server \notin Tabs
ASSUME BoundsAreNat == MaxEdits \in Nat /\ MaxFaults \in Nat /\ Interval \in Nat \ {0}
ASSUME FlagsAreBool == LateRows \in BOOLEAN /\ Fresh \in BOOLEAN

VARIABLES log, hidden, gone, astray, canon, checkpoint, floor,
          req, doc, queue, cursor, needs, acked, faults

room == <<log, hidden, gone, astray>>
meta == <<canon, checkpoint, floor>>
tabs == <<doc, queue, cursor, needs, acked>>
vars == <<room, meta, req, tabs, faults>>

Genesis == <<Server, 0>>
Items   == {Genesis} \cup (Tabs \X (1..MaxEdits))

(***************************************************************************)
(* Documents.                                                              *)
(***************************************************************************)
Whole(d)      == \A i \in d : needs[i] \subseteq d
Integrated(d) == UNION {s \in SUBSET d : Whole(s)}

(***************************************************************************)
(* The update log: ids are the positions of log; hidden rows have an id    *)
(* but are not committed, gone rows are trimmed.  No code reads astray: it *)
(* notes the rows a race may take from a document: those committed below a *)
(* committed row, which a load past them has missed, and those trimmed by  *)
(* a request whose load came before them, behind a snapshot without them.  *)
(***************************************************************************)
Visible       == (DOMAIN log \ hidden) \ gone
RowsAfter(k)  == {i \in Visible : i > k}
Late(id)      == {i \in hidden \cap {id} : \E j \in DOMAIN log \ hidden : i < j}
Unread(r, k)  == {i \in Visible : r.stamp < i /\ i < k /\ ~(k \in Visible /\ log[i].items \subseteq log[k].items)}
Held(ids)     == UNION {log[i].items : i \in ids}
Watermark     == IF Visible = {} THEN 0 ELSE CHOOSE i \in Visible : \A j \in Visible : j <= i

Idle == [pc |-> "idle", tab |-> Server, heard |-> FALSE, batch |-> <<>>, doc |-> {},
         stamp |-> 0, diffs |-> <<>>, verdicts |-> <<>>, seen |-> 0, prev |-> 0, own |-> 0, then |-> "idle"]

Init ==
  /\ log = IF Fresh THEN <<>> ELSE <<[type |-> "snapshot", from |-> Server, items |-> {Genesis}]>>
  /\ canon = [items |-> IF Fresh THEN {} ELSE {Genesis}, cursor |-> 0]
  /\ checkpoint = Len(log) /\ floor = 0 /\ hidden = {} /\ gone = {} /\ astray = {}
  /\ req = [w \in Workers |-> Idle]
  /\ doc = [t \in Tabs |-> {}] /\ queue = [t \in Tabs |-> <<>>] /\ cursor = [t \in Tabs |-> 0]
  /\ needs = [i \in Items |-> {}] /\ acked = {} /\ faults = 0

(***************************************************************************)
(* The tab.                                                                *)
(***************************************************************************)
Waiting(t) == \E w \in Workers : req[w].tab = t /\ req[w].heard

(* An edit of a bootstrapped document: the Yjs update event queues it.     *)
Edit(t) ==
  LET n == Cardinality({i \in doc[t] : i[1] = t}) + 1 IN
  /\ n <= MaxEdits
  /\ Genesis \in doc[t]
  /\ \E origin \in Integrated(doc[t]) :
       needs' = [needs EXCEPT ![<<t, n>>] = {origin} \cup {<<t, k>> : k \in 1..(n - 1)}]
  /\ doc' = [doc EXCEPT ![t] = @ \cup {<<t, n>>}]
  /\ queue' = [queue EXCEPT ![t] = Append(@, {<<t, n>>})]
  /\ UNCHANGED <<room, meta, req, cursor, acked, faults>>

(* One request at a time; it takes the whole queue.                        *)
Send(t, w) ==
  /\ ~Waiting(t)
  /\ req[w].pc = "idle"
  /\ req' = [req EXCEPT ![w] = [Idle EXCEPT !.pc = IF queue[t] = <<>> THEN "read" ELSE "meta",
                                            !.tab = t, !.heard = TRUE, !.batch = queue[t]]]
  /\ queue' = [queue EXCEPT ![t] = <<>>]
  /\ UNCHANGED <<room, meta, doc, cursor, needs, acked, faults>>

(* BUG of Fail: nothing is queued for the updates that were in flight.     *)
FailForgets(w) ==
  /\ req[w].heard /\ faults < MaxFaults
  /\ \E dies \in BOOLEAN :
       req' = [req EXCEPT ![w] = IF dies THEN Idle ELSE [@ EXCEPT !.heard = FALSE]]
  /\ hidden' = hidden \ {req[w].own} /\ astray' = astray \cup Late(req[w].own)
  /\ faults' = faults + 1
  /\ UNCHANGED <<log, gone, meta, tabs>>

(* The request fails for the tab: PHP died, a row could not be stored, or  *)
(* only the answer was lost and PHP goes on.  A tab that sent updates      *)
(* queues its full state instead (createRecoveryUpdate).                   *)
Fail(w) ==
  LET t == req[w].tab IN
  /\ req[w].heard /\ faults < MaxFaults
  /\ \E dies \in BOOLEAN :
       req' = [req EXCEPT ![w] = IF dies THEN Idle ELSE [@ EXCEPT !.heard = FALSE]]
  /\ hidden' = hidden \ {req[w].own} /\ astray' = astray \cup Late(req[w].own)
  /\ queue' = [queue EXCEPT ![t] =
                 IF req[w].batch = <<>> THEN @
                 ELSE IF cursor[t] > 0 THEN <<doc[t]>> ELSE req[w].batch \o @]
  /\ faults' = faults + 1
  /\ UNCHANGED <<log, gone, meta, doc, cursor, needs, acked>>

(***************************************************************************)
(* handle_updates: load, merge, store, save, checkpoint.                   *)
(***************************************************************************)
LoadMeta(w) ==
  /\ req[w].pc = "meta"
  /\ req' = [req EXCEPT ![w] = [@ EXCEPT !.pc = "rows", !.doc = canon.items, !.stamp = canon.cursor]]
  /\ UNCHANGED <<room, meta, tabs, faults>>

(* The batch merged onto a document: an update that cannot integrate       *)
(* leaves it as it was.                                                    *)
Merge(start, updates) ==
  LET upTo[k \in 0..Len(updates)] ==
        IF k = 0 THEN start
        ELSE LET next == upTo[k - 1] \cup updates[k] IN IF Whole(next) THEN next ELSE upTo[k - 1]
  IN [doc   |-> upTo[Len(updates)],
      diffs |-> [k \in DOMAIN updates |-> updates[k] \ Integrated(upTo[k - 1])],
      taken |-> {k \in DOMAIN updates : Whole(upTo[k - 1] \cup updates[k])}]

(* BUG of Settle: the status of a void is answered instead of its reason.  *)
SettleVoided(r, before, m, replayed) ==
  [r EXCEPT !.pc = IF m.doc # before THEN "append" ELSE IF replayed THEN "resave" ELSE "read",
            !.doc = m.doc, !.diffs = Kept(m.diffs, m.taken),
            !.verdicts = [k \in DOMAIN m.diffs |-> IF m.doc = before THEN "voided"
                                                   ELSE IF k \in m.taken THEN "applied" ELSE "resync-required"]]

(* Rows are stored when the document changed; a batch that brought nothing *)
(* is answered already-merged, and saved only if the log was replayed.     *)
Settle(r, before, m, replayed) ==
  [r EXCEPT !.pc = IF m.doc # before THEN "append" ELSE IF replayed THEN "resave" ELSE "read",
            !.doc = m.doc, !.diffs = Kept(m.diffs, m.taken),
            !.verdicts = [k \in DOMAIN m.diffs |-> IF k \notin m.taken THEN "resync-required"
                                                   ELSE IF m.doc = before THEN "already-merged" ELSE "applied"]]

LoadRows(w) ==
  LET loaded  == req[w].doc \cup Held(RowsAfter(req[w].stamp))
      r       == [req[w] EXCEPT !.stamp = Watermark, !.seen = Cardinality(Visible)]
      m       == Merge(loaded, r.batch)
      refused == DOMAIN r.batch \ m.taken
  IN
  /\ req[w].pc = "rows"
  /\ req' = [req EXCEPT ![w] =
       IF refused = {} THEN Settle(r, loaded, m, FALSE)
       ELSE LET first == CHOOSE k \in refused : \A j \in refused : k <= j IN
            [r EXCEPT !.pc = "replay", !.diffs = SubSeq(m.diffs, 1, first - 1)]]
  /\ UNCHANGED <<room, meta, tabs, faults>>

(* The rest of a batch merged onto what its first updates brought.         *)
MergeRest(replayed, r) ==
  LET n == Len(r.diffs)
      m == Merge(replayed \cup UNION Range(r.diffs), SubSeq(r.batch, n + 1, Len(r.batch)))
  IN [doc |-> m.doc, diffs |-> r.diffs \o m.diffs, taken |-> (1..n) \cup {n + k : k \in m.taken}]

(* BUG of Replay: only the rows past the canonical are read again.         *)
ReplayPastStamp(w) ==
  LET replayed == req[w].doc \cup Held(RowsAfter(req[w].stamp)) IN
  /\ req[w].pc = "replay"
  /\ req' = [req EXCEPT ![w] = Settle([req[w] EXCEPT !.stamp = Watermark], replayed,
                                      MergeRest(replayed, req[w]), TRUE)]
  /\ UNCHANGED <<room, meta, tabs, faults>>

(* An update references items the document lacks: rebuild from the log     *)
(* alone, keep what was accepted, and judge the rest of the batch again.   *)
Replay(w) ==
  LET replayed == Held(RowsAfter(0))
      r == [req[w] EXCEPT !.stamp = Watermark, !.seen = Cardinality(Visible)]
  IN
  /\ req[w].pc = "replay"
  /\ req' = [req EXCEPT ![w] = Settle(r, replayed, MergeRest(replayed, r), TRUE)]
  /\ UNCHANGED <<room, meta, tabs, faults>>

(* Inserts a row.  With LateRows the insert takes its id now and commits   *)
(* in a step of its own, so that rows can become visible out of id order.  *)
AddRow(w, type, from, items, then, r) ==
  /\ log' = Append(log, [type |-> type, from |-> from, items |-> items])
  /\ hidden' = IF LateRows THEN hidden \cup {Len(log) + 1} ELSE hidden
  /\ req' = [req EXCEPT ![w] = [r EXCEPT !.pc = IF LateRows THEN "commit" ELSE then,
                                         !.then = IF LateRows THEN then ELSE "idle", !.own = Len(log) + 1]]
  /\ UNCHANGED <<gone, astray, meta, tabs, faults>>

Commit(w) ==
  /\ req[w].pc = "commit"
  /\ hidden' = hidden \ {req[w].own} /\ astray' = astray \cup Late(req[w].own)
  /\ req' = [req EXCEPT ![w].pc = req[w].then, ![w].then = "idle"]
  /\ UNCHANGED <<log, gone, meta, tabs, faults>>

(* BUG of SaveCanonical: stamped with the id of this request's own row.    *)
SaveCanonicalAtInsertId(w) ==
  /\ req[w].pc \in {"save", "resave"}
  /\ canon' = [items |-> req[w].doc, cursor |-> req[w].own]
  /\ req' = [req EXCEPT ![w].pc = IF @ = "save" THEN "due" ELSE "read"]
  /\ UNCHANGED <<room, checkpoint, floor, tabs, faults>>

(* One row per accepted update, then save_canonical: the stamp is the      *)
(* watermark of the load, never the id of a row this request added.        *)
StoreRow(w) ==
  LET r == req[w] IN
  /\ r.pc = "append"
  /\ AddRow(w, "update", r.tab, Head(r.diffs), IF Len(r.diffs) = 1 THEN "save" ELSE "append",
            [r EXCEPT !.diffs = Tail(@)])

SaveCanonical(w) ==
  /\ req[w].pc \in {"save", "resave"}
  /\ canon' = [items |-> req[w].doc, cursor |-> req[w].stamp]
  /\ req' = [req EXCEPT ![w].pc = IF @ = "save" THEN "due" ELSE "read"]
  /\ UNCHANGED <<room, checkpoint, floor, tabs, faults>>

(* maybe_checkpoint: the rows past the last checkpoint are folded into the *)
(* document, a snapshot row is stored and stamped, and history before the  *)
(* previous checkpoint is trimmed.                                         *)
CheckpointDue(w) ==
  LET window == RowsAfter(checkpoint) IN
  /\ req[w].pc = "due"
  /\ req' = [req EXCEPT ![w] =
       IF req[w].seen >= Interval /\ Cardinality(window) >= Interval
       THEN [@ EXCEPT !.pc = "snapshot", !.doc = req[w].doc \cup Held(window), !.prev = checkpoint]
       ELSE [@ EXCEPT !.pc = "read"]]
  /\ UNCHANGED <<room, meta, tabs, faults>>

StoreSnapshot(w) ==
  /\ req[w].pc = "snapshot"
  /\ AddRow(w, "snapshot", req[w].tab, req[w].doc, "stamp", req[w])

StampCheckpoint(w) ==
  /\ req[w].pc = "stamp"
  /\ checkpoint' = req[w].own
  /\ req' = [req EXCEPT ![w].pc = IF req[w].prev > 0 THEN "trim" ELSE "read"]
  /\ UNCHANGED <<room, canon, floor, tabs, faults>>

(* BUG of Trim: history goes up to the new checkpoint.                     *)
TrimToHead(w) ==
  /\ req[w].pc = "trim"
  /\ gone' = gone \cup {i \in Visible : i < req[w].own} /\ astray' = astray \cup Unread(req[w], req[w].own)
  /\ floor' = req[w].own
  /\ req' = [req EXCEPT ![w].pc = "read"]
  /\ UNCHANGED <<log, hidden, canon, checkpoint, tabs, faults>>

Trim(w) ==
  /\ req[w].pc = "trim"
  /\ gone' = gone \cup {i \in Visible : i < req[w].prev} /\ astray' = astray \cup Unread(req[w], req[w].prev)
  /\ floor' = req[w].prev
  /\ req' = [req EXCEPT ![w].pc = "read"]
  /\ UNCHANGED <<log, hidden, canon, checkpoint, tabs, faults>>

(***************************************************************************)
(* get_updates_since: a room without rows is initialized, then the tab     *)
(* gets the rows past its cursor, its own updates left out, and moves its  *)
(* cursor to the highest id seen.  An answer nobody waits for is dropped.  *)
(***************************************************************************)
Initialize(w) ==
  /\ req[w].pc = "read" /\ Visible = {}
  /\ req' = [req EXCEPT ![w].pc = "birth"]
  /\ UNCHANGED <<room, meta, tabs, faults>>

StoreGenesis(w) ==
  /\ req[w].pc = "birth"
  /\ AddRow(w, "snapshot", Server, {Genesis}, "born", req[w])

SaveGenesis(w) ==
  /\ req[w].pc = "born"
  /\ canon' = [items |-> {Genesis}, cursor |-> 0]
  /\ req' = [req EXCEPT ![w].pc = "pace"]
  /\ UNCHANGED <<room, checkpoint, floor, tabs, faults>>

PaceGenesis(w) ==
  /\ req[w].pc = "pace"
  /\ checkpoint' = req[w].own
  /\ req' = [req EXCEPT ![w].pc = "read"]
  /\ UNCHANGED <<room, canon, floor, tabs, faults>>

(* BUG of Answer: the tab's own checkpoints are left out as well.          *)
AnswerWithoutOwnRows(w) ==
  LET t == req[w].tab IN
  /\ req[w].pc = "read" /\ Visible # {}
  /\ IF req[w].heard
     THEN /\ doc' = [doc EXCEPT ![t] = @ \cup Held({i \in RowsAfter(cursor[t]) : log[i].from # t})]
          /\ cursor' = [cursor EXCEPT ![t] = Watermark]
          /\ acked' = acked \cup UNION Range(req[w].batch)
     ELSE UNCHANGED <<doc, cursor, acked>>
  /\ req' = [req EXCEPT ![w] = Idle]
  /\ UNCHANGED <<room, meta, queue, needs, faults>>

Answer(w) ==
  LET t == req[w].tab
      from == IF 0 < cursor[t] /\ cursor[t] < floor THEN floor - 1 ELSE cursor[t]
      sent == {i \in RowsAfter(from) : ~(log[i].type = "update" /\ log[i].from = t)}
      merged == {k \in DOMAIN req[w].verdicts : req[w].verdicts[k] # "resync-required"}
  IN
  /\ req[w].pc = "read" /\ Visible # {}
  /\ IF req[w].heard
     THEN /\ doc' = [doc EXCEPT ![t] = @ \cup Held(sent)]
          /\ cursor' = [cursor EXCEPT ![t] = Watermark]
          /\ acked' = acked \cup UNION {req[w].batch[k] : k \in merged}
     ELSE UNCHANGED <<doc, cursor, acked>>
  /\ req' = [req EXCEPT ![w] = Idle]
  /\ UNCHANGED <<room, meta, queue, needs, faults>>

Handle(w) ==
  \/ LoadMeta(w) \/ LoadRows(w) \/ Replay(w) \/ StoreRow(w) \/ Commit(w) \/ SaveCanonical(w)
  \/ CheckpointDue(w) \/ StoreSnapshot(w) \/ StampCheckpoint(w) \/ Trim(w)
  \/ Initialize(w) \/ StoreGenesis(w) \/ SaveGenesis(w) \/ PaceGenesis(w) \/ Answer(w)

Next ==
  \/ \E t \in Tabs : Edit(t)
  \/ \E t \in Tabs, w \in Workers : Send(t, w)
  \/ \E w \in Workers : Handle(w) \/ Fail(w)

Spec == Init /\ [][Next]_vars

(* PHP runs a request to its end; a tab polls for ever, and the web server *)
(* starves no tab.                                                         *)
Fairness ==
  /\ \A w \in Workers : WF_vars(Handle(w))
  /\ \A t \in Tabs : SF_vars(\E w \in Workers : Send(t, w))

LiveSpec == Spec /\ Fairness

(***************************************************************************)
(* Properties.                                                             *)
(***************************************************************************)
Pcs == {"idle", "meta", "rows", "replay", "append", "commit", "save", "resave", "due",
        "snapshot", "stamp", "trim", "read", "birth", "born", "pace"}

Verdicts == {"applied", "already-merged", "resync-required"}

Requests == [pc : Pcs, then : Pcs, tab : Tabs \cup {Server}, heard : BOOLEAN,
             batch : Seq(SUBSET Items), doc : SUBSET Items, stamp : Nat,
             diffs : Seq(SUBSET Items), verdicts : Seq(Verdicts), seen : Nat, prev : Nat, own : Nat]

(* Every variable keeps its shape.                                         *)
TypeOK ==
  /\ log \in Seq([type : {"snapshot", "update"}, from : Tabs \cup {Server}, items : SUBSET Items])
  /\ hidden \subseteq DOMAIN log /\ gone \subseteq DOMAIN log /\ astray \subseteq DOMAIN log
  /\ canon \in [items : SUBSET Items, cursor : Nat] /\ checkpoint \in Nat /\ floor \in Nat
  /\ req \in [Workers -> Requests]
  /\ doc \in [Tabs -> SUBSET Items] /\ queue \in [Tabs -> Seq(SUBSET Items)]
  /\ cursor \in [Tabs -> Nat]
  /\ needs \in [Items -> SUBSET Items] /\ acked \subseteq Items /\ faults \in Nat

(* The document the next request loads, and the one a replay rebuilds.     *)
Loaded   == canon.items \cup Held(RowsAfter(canon.cursor))
Replayed == Held(RowsAfter(0))

(* What a tab was told is merged is in the document the next request       *)
(* loads: no save of a racing request and no trim takes it away.           *)
AckedIsLoaded == acked \subseteq Loaded

(* "The log retains at least one full compaction interval plus its         *)
(* checkpoint snapshot, so everything a client update can reference is     *)
(* here": the retained rows alone rebuild all that was acknowledged.       *)
AckedIsReplayed == acked \subseteq Replayed

(* A tab whose cursor is k has every row up to k, the trimmed ones         *)
(* included, so that polling past k never leaves a gap behind.             *)
CursorIsHonest == \A t \in Tabs : Held((1..cursor[t])) \subseteq doc[t]

(* "The log (the source of truth, bypassing the canonical)" repairs what a *)
(* racing save or a late row took out of the canonical: as long as nothing *)
(* was trimmed, no tab is told that the room lacks what its update needs.  *)
RepairFromLog ==
  gone = {} => \A w \in Workers : "resync-required" \notin Range(req[w].verdicts)

(* Every edit is merged by the room and reaches every tab, whatever        *)
(* request failed under it: in the end all documents are the same.         *)
Edited == {i \in Items : \E t \in Tabs : i \in doc[t]}
TabsConverge == <>[](/\ Edited \subseteq acked \cup {Genesis}
                     /\ \A t \in Tabs : Integrated(doc[t]) = Edited)
=============================================================================
