----------------------------- MODULE DeRtcSession -----------------------------
(***************************************************************************)
(* The de-rtc tab (session.ts over doc-bridge.ts) and the two lanes that   *)
(* reach it: commits of its whole document through the autosave endpoint,  *)
(* and polls that bring announcements of versions and, on request, one     *)
(* snapshot of the newest.  The server's commit path, module DeRtcChain,   *)
(* is one step here: a version more, or a refusal.                         *)
(*                                                                         *)
(* A document gives every block the set of the edits its text holds.       *)
(* Versions are numbered from 1 and never change, so that a snapshot, a    *)
(* base and a deferred document are numbers.                               *)
(***************************************************************************)
EXTENDS Integers, FiniteSets, Sequences

CONSTANTS
  Tabs, Blocks,
  Scenes \* what may happen: see SceneOK

(* A scene bounds the edits of each tab, and says of which blocks, and the *)
(* commits and polls that fail; its window is the number of versions that  *)
(* are kept whole (wp_de_rtc_get_automerge_version_snapshot_limit).        *)
SceneOK(scene) ==
  scene \in [edits : [Tabs -> Nat], on : [Tabs -> SUBSET Blocks],
             failures : Nat, losses : Nat, window : Nat \ {0}]

ASSUME ScenesAssumption == \A scene \in Scenes : SceneOK(scene)

VARIABLES
  versions, \* the canonical chain: document, author, proposal of each
  parked,   \* the edits in proposals parked for review
  voided,   \* history: the edits in proposals refused for their base
  tab,      \* the session's state, per tab
  calls,    \* commits that have not been answered
  poll,     \* per tab: the poll under way
  left      \* the scene, less what has happened

vars == <<versions, parked, voided, tab, calls, poll, left>>

Empty     == [b \in Blocks |-> {}]
NoBases   == [b \in Blocks |-> 0]
Newest    == Len(versions)
Held(doc) == UNION {doc[b] : b \in Blocks}
NoPoll    == [have |-> 0, upto |-> 0, newest |-> 0]

Init ==
  /\ versions = <<[doc |-> Empty, author |-> "genesis", id |-> 0]>>
  /\ parked = {} /\ voided = {}
  /\ tab = [t \in Tabs |->
       [doc      |-> Empty,   \* the editor's document
        version  |-> 1,       \* bridge.lastVersion()
        bases    |-> NoBases, \* blockBases, 0 where there is none
        dirty    |-> FALSE,
        slot     |-> 0,       \* inFlightProposalId, 0 if not inFlight
        made     |-> 0,       \* proposalCounter
        proposed |-> Empty,   \* lastProposedContent
        pending  |-> 0,       \* pendingCanonical
        behind   |-> 0,       \* behindSeq
        fetching |-> 0,       \* fetchInFlightSeq
        merging  |-> 0,       \* pendingOwnMergeSeq
        stash    |-> 0,       \* deferredSnapshotRow
        typing   |-> FALSE,   \* not typingQuiet()
        retry    |-> FALSE,   \* commitRetryTimer is set
        ask      |-> 0,       \* the fetch row in the poll queue
        cursor   |-> 1,
        typed    |-> 0]]
  /\ calls = {}
  /\ poll = [t \in Tabs |-> NoPoll]
  /\ left \in Scenes

-----------------------------------------------------------------------------
(* The session, as operators from state to state.                          *)

MaybeFetch(s) ==
  IF s.behind <= s.version \/ s.fetching >= s.behind THEN s
  ELSE [s EXCEPT !.fetching = s.behind, !.ask = s.version]

(* The commit itself is sent by the action, see Commit.                    *)
MaybePropose(s) ==
  IF ~s.dirty \/ s.slot # 0 \/ s.merging > 0 THEN s
  ELSE [s EXCEPT !.dirty = FALSE, !.made = @ + 1, !.slot = s.made + 1,
                 !.proposed = s.doc]

(* bridge.advanceVersion(): the document is that version already.          *)
Advance(s, v) ==
  IF v <= s.version THEN s ELSE [s EXCEPT !.version = v, !.bases = NoBases]

(* bridge.applyCanonical(): the document is replaced.                      *)
Apply(s, v) ==
  IF v <= s.version THEN s
  ELSE [s EXCEPT !.doc = versions[v].doc, !.version = v, !.bases = NoBases]

(* BUG of Incorporate: a block that is kept goes with the tab's version.   *)
IncorporateUnbased(s, v) ==
  LET theirs    == versions[v].doc
      edited(b) == s.doc[b] # s.proposed[b]
  IN  IF v <= s.version THEN s
      ELSE [s EXCEPT
        !.version = v,
        !.doc = [b \in Blocks |-> IF edited(b) THEN s.doc[b] ELSE theirs[b]],
        !.bases = NoBases]

(* incorporateByIdentity(): a three-way merge of the tab's own, block by   *)
(* block.  A block kept although the canonical changed it too declares     *)
(* the version its text was written against.                               *)
Incorporate(s, v) ==
  LET theirs    == versions[v].doc
      edited(b) == s.doc[b] # s.proposed[b]
  IN  IF v <= s.version THEN s
      ELSE [s EXCEPT
        !.version = v,
        !.doc = [b \in Blocks |-> IF edited(b) THEN s.doc[b] ELSE theirs[b]],
        !.bases = [b \in Blocks |->
          IF ~edited(b) THEN 0
          ELSE IF theirs[b] # s.proposed[b] /\ @[b] = 0 THEN s.version
          ELSE @[b]]]

SettleQueued(s) ==
  IF s.dirty THEN MaybePropose(s)
  ELSE IF s.slot # 0 THEN s
  ELSE MaybeFetch(IF s.pending = 0 THEN s
                  ELSE Apply([s EXCEPT !.pending = 0], s.pending))

NoteAnnounced(s, v) ==
  MaybeFetch([s EXCEPT !.behind = IF v > s.version /\ v > @ THEN v ELSE @])

(* processRow() of an announcement.  The one of the proposal in flight     *)
(* frees the slot; if the content is what was proposed, no download.       *)
Announced(t, s, v) ==
  LET own    == /\ versions[v].author = t
                /\ s.slot # 0 /\ versions[v].id = s.slot
      free   == [s EXCEPT !.slot = 0]
      passed == Advance([free EXCEPT !.pending = 0], v)
  IN  IF ~own THEN NoteAnnounced(s, v)
      ELSE IF versions[v].doc = s.proposed
      THEN SettleQueued([passed EXCEPT !.behind = IF v >= @ THEN 0 ELSE @])
      ELSE NoteAnnounced([free EXCEPT !.merging = v], v)

(* BUG of Snapshot: work in flight does not defer it.                      *)
SnapshotAtOnce(s, v) ==
  LET now == Apply([s EXCEPT !.fetching = 0, !.merging = 0,
                             !.behind = IF v >= @ THEN 0 ELSE @], v)
  IN  IF s.typing THEN [s EXCEPT !.stash = v] ELSE SettleQueued(now)

(* processRow() of a snapshot.                                             *)
Snapshot(s, v) ==
  LET got == [s EXCEPT !.fetching = 0, !.behind = IF v >= @ THEN 0 ELSE @]
      now == IF got.dirty \/ got.slot # 0 THEN [got EXCEPT !.pending = v]
             ELSE Apply(got, v)
  IN  IF s.typing THEN [s EXCEPT !.stash = v]
      ELSE IF got.merging > 0 /\ v >= got.merging
      THEN SettleQueued(
             Incorporate([got EXCEPT !.merging = 0, !.pending = 0], v))
      ELSE IF now.slot = 0 THEN SettleQueued(now) ELSE now

(* The announcements after one version up to another, oldest first.        *)
Rows(t, s, from, upto) ==
  LET after[n \in from..upto] ==
        IF n = from THEN s ELSE Announced(t, after[n - 1], n)
  IN  IF upto <= from THEN s ELSE after[upto]

(* BUG of Disposed: only an applied proposal frees the slot.               *)
DisposedIfApplied(s, id, status) ==
  IF status = "applied" /\ id = s.slot THEN SettleQueued([s EXCEPT !.slot = 0])
  ELSE s

(* handleDispositions(), of the one proposal of a commit.                  *)
Disposed(s, id, status) ==
  LET told == IF status # "voided" THEN s
              ELSE [s EXCEPT !.fetching = 0,
                             !.behind = IF @ > s.version THEN @
                                        ELSE s.version + 1]
  IN  IF id = s.slot THEN SettleQueued([told EXCEPT !.slot = 0])
      ELSE IF status = "voided" THEN MaybeFetch(told) ELSE told

-----------------------------------------------------------------------------
(* The tab.                                                                *)

(* The tab moves on, and a proposal made on the way is sent.  The commit   *)
(* it is the answer of, if any, is over.                                   *)
Moves(t, s, answered) ==
  /\ tab' = [tab EXCEPT ![t] = s]
  /\ calls' = (calls \ answered) \cup
       IF s.made = tab[t].made THEN {}
       ELSE {[tab |-> t, id |-> s.made, base |-> s.version, bases |-> s.bases,
              doc |-> s.proposed, at |-> Newest, status |-> "sent", upto |-> 0,
              awaited |-> TRUE]}

(* onDocUpdate() of a keystroke.                                           *)
Edit(t, b) ==
  LET s == tab[t]
  IN  /\ left.edits[t] > 0 /\ b \in left.on[t]
      /\ Moves(t, MaybePropose([s EXCEPT !.doc[b] = @ \cup {<<t, s.typed + 1>>},
                                         !.typed = @ + 1, !.typing = TRUE,
                                         !.dirty = TRUE]), {})
      /\ left' = [left EXCEPT !.edits[t] = @ - 1]
      /\ UNCHANGED <<versions, parked, voided, poll>>

(* Nothing was typed for burstQuietMs.                                     *)
Quiet(t) ==
  /\ tab[t].typing
  /\ tab' = [tab EXCEPT ![t].typing = FALSE]
  /\ UNCHANGED <<versions, parked, voided, calls, poll, left>>

(* scheduleQuietRetry(): the stashed snapshot is looked at again.          *)
QuietRetry(t) ==
  LET s == tab[t]
  IN  /\ ~s.typing /\ s.stash # 0
      /\ Moves(t, Snapshot([s EXCEPT !.stash = 0], s.stash), {})
      /\ UNCHANGED <<versions, parked, voided, poll, left>>

(* The timer a failed commit has set.                                      *)
CommitRetry(t) ==
  /\ tab[t].retry
  /\ Moves(t, MaybePropose([tab[t] EXCEPT !.retry = FALSE, !.dirty = TRUE]), {})
  /\ UNCHANGED <<versions, parked, voided, poll, left>>

-----------------------------------------------------------------------------
(* The commit lane.                                                        *)

(* resolve_base_content(): the versions in the window can be resolved.  Of *)
(* the others, those a revision of the post holds.                         *)
Kept       == {n \in 1..Newest : n > Newest - left.window}
Resolvable == {Kept \cup aged : aged \in SUBSET ((1..Newest) \ Kept)}

Canonical == versions[Newest].doc

(* resolve_effective_base(): a block with a base of its own that can be    *)
(* resolved is compared with that.                                         *)
EffectiveBase(c, resolved) ==
  [b \in Blocks |->
     versions[IF c.bases[b] \in resolved THEN c.bases[b] ELSE c.base].doc[b]]

Contended(c, base) ==
  {b \in Blocks : /\ c.doc[b] # base[b] /\ Canonical[b] # base[b]
                  /\ Canonical[b] # c.doc[b]}

(* BUG of Merged: a block that does not conflict is the proposal's.        *)
MergedUnread(c, base, conflicts) ==
  [b \in Blocks |-> IF b \in conflicts THEN Canonical[b] ELSE c.doc[b]]

(* merge_by_identity(): a conflict keeps the canonical block; where both   *)
(* sides changed a block and do not conflict, the proposal's insertions    *)
(* and deletions are carried over.                                         *)
Merged(c, base, conflicts) ==
  [b \in Blocks |->
     IF b \in conflicts THEN Canonical[b]
     ELSE (Canonical[b] \ (base[b] \ c.doc[b])) \cup (c.doc[b] \ base[b])]

Answered(c, status, upto) ==
  calls' = (calls \ {c}) \cup
    IF c.awaited THEN {[c EXCEPT !.status = status, !.upto = upto]} ELSE {}

(* handle_updates(): ingest_proposal() of one commit.                      *)
Accept(c) ==
  /\ c \in calls /\ c.status = "sent"
  /\ \E resolved \in Resolvable :
       LET base == EffectiveBase(c, resolved)
       IN  /\ c.base \in resolved
           /\ \E conflicts \in SUBSET Contended(c, base) :
                /\ versions' = Append(versions,
                     [doc |-> Merged(c, base, conflicts),
                      author |-> c.tab, id |-> c.id])
                /\ parked' = parked \cup UNION {c.doc[b] : b \in conflicts}
  /\ Answered(c, "applied", Newest + 1)
  /\ UNCHANGED <<voided, tab, poll, left>>

(* Blocks cannot be told apart: the whole proposal waits for review.       *)
ParkWhole(c) ==
  /\ c \in calls /\ c.status = "sent"
  /\ \E resolved \in Resolvable :
       /\ c.base \in resolved
       /\ Contended(c, EffectiveBase(c, resolved)) # {}
  /\ parked' = parked \cup Held(c.doc)
  /\ Answered(c, "escalated", Newest)
  /\ UNCHANGED <<versions, voided, tab, poll, left>>

Void(c) ==
  /\ c \in calls /\ c.status = "sent" /\ c.base \notin Kept
  /\ voided' = voided \cup Held(c.doc)
  /\ Answered(c, "voided", Newest)
  /\ UNCHANGED <<versions, parked, tab, poll, left>>

(* commitThroughSave(): the rows appended while the request was at work,   *)
(* then the disposition.                                                   *)
CommitAnswered(c) ==
  /\ c \in calls /\ c.status # "sent"
  /\ \E from \in c.at..(IF c.status = "applied" THEN c.upto - 1 ELSE c.upto),
        upto \in c.upto..Newest :
       Moves(c.tab,
             Disposed(Rows(c.tab, tab[c.tab], from, upto), c.id, c.status),
             {c})
  /\ UNCHANGED <<versions, parked, voided, poll, left>>

(* Its catch clause: the slot is freed and the timer set.                  *)
CommitLost(c) ==
  /\ c \in calls /\ c.awaited
  /\ left.failures > 0
  /\ left' = [left EXCEPT !.failures = @ - 1]
  /\ tab' = [tab EXCEPT ![c.tab].slot = 0, ![c.tab].retry = TRUE]
  /\ \/ calls' = calls \ {c}
     \/ /\ c.status = "sent"
        /\ calls' = (calls \ {c}) \cup {[c EXCEPT !.awaited = FALSE]}
  /\ UNCHANGED <<versions, parked, voided, poll>>

-----------------------------------------------------------------------------
(* The poll lane.                                                          *)

(* A poll takes the queued fetch along.  get_updates_since() answers it    *)
(* with the rows and, for a tab that is behind, the newest version; it     *)
(* leaves the room as it is, so that only its answer can be late.  A poll  *)
(* that would neither ask nor find anything changes nothing.               *)
Poll(t) ==
  LET s == tab[t]
  IN  /\ poll[t] = NoPoll
      /\ s.ask # 0 \/ s.cursor < Newest
      /\ poll' = [poll EXCEPT ![t] =
           [have |-> s.ask, upto |-> Newest,
            newest |-> IF s.ask # 0 /\ Newest > s.ask THEN Newest ELSE 0]]
      /\ tab' = [tab EXCEPT ![t].ask = 0]
      /\ UNCHANGED <<versions, parked, voided, calls, left>>

(* BUG of PollAnswered: the cursor passes the last row.                    *)
PollAnsweredPast(t) ==
  /\ poll[t] # NoPoll
  /\ Moves(t, [Rows(t, tab[t], tab[t].cursor, poll[t].upto)
                 EXCEPT !.cursor = poll[t].upto + 1], {})
  /\ poll' = [poll EXCEPT ![t] = NoPoll]
  /\ UNCHANGED <<versions, parked, voided, left>>

PollAnswered(t) ==
  LET p    == poll[t]
      seen == Rows(t, tab[t], tab[t].cursor, p.upto)
      all  == IF p.newest = 0 THEN seen ELSE Snapshot(seen, p.newest)
  IN  /\ p # NoPoll
      /\ Moves(t, [all EXCEPT !.cursor = p.upto], {})
      /\ poll' = [poll EXCEPT ![t] = NoPoll]
      /\ UNCHANGED <<versions, parked, voided, left>>

(* handleRequestFailure(): the lost rows are queued again.                 *)
PollLost(t) ==
  /\ poll[t] # NoPoll
  /\ left.losses > 0
  /\ left' = [left EXCEPT !.losses = @ - 1]
  /\ poll' = [poll EXCEPT ![t] = NoPoll]
  /\ tab' = [tab EXCEPT ![t].ask = IF @ = 0 THEN poll[t].have ELSE @]
  /\ UNCHANGED <<versions, parked, voided, calls>>

-----------------------------------------------------------------------------

Next ==
  \/ \E t \in Tabs :
       \/ \E b \in Blocks : Edit(t, b)
       \/ Quiet(t) \/ QuietRetry(t) \/ CommitRetry(t)
       \/ Poll(t) \/ PollAnswered(t) \/ PollLost(t)
  \/ \E c \in calls :
       \/ Accept(c) \/ ParkWhole(c) \/ Void(c)
       \/ CommitAnswered(c) \/ CommitLost(c)

Spec == Init /\ [][Next]_vars

-----------------------------------------------------------------------------

TypedBy(t) == {<<t, n>> : n \in 1..tab[t].typed}
Underway == UNION {Held(c.doc) : c \in calls}

(* Every variable has its type; a version a tab refers to exists.          *)
TypeOK ==
  /\ Newest >= 1
  /\ \A t \in Tabs :
       /\ {tab[t].version, tab[t].cursor} \subseteq 1..Newest
       /\ {tab[t].pending, tab[t].behind, tab[t].fetching, tab[t].merging,
           tab[t].stash, tab[t].ask} \subseteq 0..(Newest + 1)
       /\ \A b \in Blocks : tab[t].bases[b] \in 0..Newest
  /\ \A c \in calls : c.status = "sent" \/ c.upto \in 1..Newest
  /\ SceneOK(left)

(* session.ts: "Canonical snapshots are DEFERRED while local edits are     *)
(* dirty or in flight".  Whatever a person typed is in the tab, in a       *)
(* commit, in the document of the room or among what it has set aside,     *)
(* through every merge, stash and catch-up.                                *)
NothingTypedVanishes ==
  \A t \in Tabs : TypedBy(t) \subseteq
    Held(tab[t].doc) \cup Held(Canonical) \cup Underway \cup parked \cup voided

(* "Per-block base honesty": whatever version a proposal is merged from,    *)
(* block by block, its text was written on top of that version.  A tab     *)
(* that catches up, keeps a block and proposes again must not declare a    *)
(* version it has not seen, nor one whose text it has rolled back.         *)
HonestBases ==
  \A c \in calls, resolved \in Resolvable :
    c.status = "sent" /\ c.base \in resolved =>
      \A b \in Blocks : EffectiveBase(c, resolved)[b] \subseteq c.doc[b]

(* No later proposal takes accepted text out of the room: what a tab       *)
(* declares as the base of a block is what its text was written on.        *)
AcceptedWorkStays ==
  [][\A b \in Blocks : Canonical[b] \subseteq Canonical'[b]]_vars

(* Nothing is under way, queued or waiting for a timer.                    *)
AtRest ==
  /\ calls = {}
  /\ \A t \in Tabs : /\ poll[t] = NoPoll
                     /\ tab[t].ask = 0 /\ tab[t].stash = 0
                     /\ ~tab[t].typing /\ ~tab[t].retry
                     /\ tab[t].cursor = Newest

(* Nobody types again while others type as well: no snapshot that was      *)
(* stashed for a burst meets a newer one that was deferred for a proposal. *)
OneBurst ==
  \/ \A t \in Tabs : tab[t].typed <= 1
  \/ \E t \in Tabs : \A u \in Tabs \ {t} : tab[u].typed = 0

(* No tab freezes: whenever the room comes to rest, every tab has its slot *)
(* free and nothing left to propose or to apply, after commits that were   *)
(* voided or failed, fetches that were lost and snapshots that were        *)
(* stashed, deferred and passed over; and with one burst, it is at the     *)
(* newest version.                                                         *)
NoTabFreezes ==
  AtRest =>
    \A t \in Tabs : /\ tab[t].slot = 0 /\ ~tab[t].dirty
                    /\ tab[t].pending = 0 /\ tab[t].merging = 0
                    /\ OneBurst => tab[t].version = Newest

=============================================================================
