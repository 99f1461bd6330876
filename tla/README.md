# Verification of gutenberg-sync-engines

TLA+ models of the collaborative editing engines in this repository, the TLC
runs that check them on small instances and the TLAPS proofs about them. The
repository's code under `src/` is the reference; `PROJECT.json` maps every
definition to the lines it stands for.

## The system

Several editor tabs edit one WordPress post. Each tab keeps a replica of a
*room*; PHP requests (and a WebSocket daemon) keep the room in database tables.
A *transport* moves batches of updates, an *engine* decides what they mean.

| Part | State | Operations | What makes it hard, and correct | Modelled in |
|---|---|---|---|---|
| Room lock (`class-wp-sync-room-lock.php`) | one option row holding a time-stamped token | `acquire`, `release` | PHP workers race, crash, outlive their lease. Two requests inside their leases never both hold it; nobody deletes another's row. | `RoomLock` |
| Intent-log engine (`engines/intent-log/class-wp-intent-log-engine.php`) | update rows, checkpoint and floor meta | `handle_updates`, `get_updates_since`, `maybe_checkpoint`, `load_room` | Everything is rebuilt from the rows retained by compaction, while crashes cut ingests short and batches arrive twice. No intent is applied twice, none is lost, the rebuilt room is the whole history. | `IntentLogEngine` |
| Planner, document, reducer | none (pure) | `plan_batch`, `transform_one`, `apply_intent` | One-sided transforms; frames of a batch; a unit escalates as a whole. What is applied lands where its author meant it. | `IntentPlanner` |
| Intent-log session and client core (`src/engines/intent-log-session.ts`, `intent-log/*.js`) | replica, outbox, deferred reset, proposals | `receiveUpdate`, `receiveDispositions`, `authorBatch`, `cancelPendingIntents`, `resolveProposal`, `replan` | Overlapping deliveries, resets while work is pending. The replica is the canonical document at its position; all work settles. | `IntentLogSession`, `IntentEditing` |
| Polling manager (`src/providers/http-polling/polling-manager.ts`) | per room: queue, cursor, generation, held tails; one poll loop, one send lane | `poll`, `sendNow`, `applyRoomResponse`, `handleRequestFailure`, `restartRoom` | A failed request may have been stored; a late one may still be; two lanes deliver out of order. | `IntentLog`, `YjsRoom`, `RoomLifetime` |
| HTTP polling server | none of its own | `process_room_request` | Write half and read half are not one transaction. | `IntentLog`, `RoomLifetime` |
| Table storage, awareness store | rows, room meta, awareness | append, cursor reads, trim, reset | Commit order differs from id order; a reset in two statements. | `IntentLogEngine`, `YjsRoom`, `RoomLifetime` |
| Atomic option | option rows | swap, swap by prefix, reset | Compare-and-swap built from conditional UPDATEs. | `DeRtcChain` |
| Advisory presence (`class-gutenberg-sync-engines-advisory-presence.php`) | tokens (transient), mailboxes | probe, join, leave, reset of an abandoned room | Read-modify-write without a lock: a lost token write makes a tab look new, and the room is reset under it. | `RoomLifetime` |
| De-RTC engine and merge core | version claim, canonical row, update rows | `ingest_proposal`, `claim_version`, `save_canonical`, `initialize_room` | An optimistic chain of versions: one writer per version, persisted in order, healed after crashes. | `DeRtcChain`, `VersionLedger`, merge in `DeRtcSession` |
| De-RTC client (`src/engines/de-rtc/session.ts`, `doc-bridge.ts`) | version, in-flight slot, deferred and stashed snapshots, bases per block | proposals, announcements, fetches, incorporation | Two lanes and three timers; a catch-up must not lose text, nor declare bases it was not written on. | `DeRtcSession` |
| Yjs-server engine and client | canonical document meta, rows, checkpoints | `handle_updates`, `load_room`, `maybe_checkpoint` | No lock: the last writer of the canonical document may be an older one. | `YjsRoom` |
| SSE transport | version counters | streams | Cursors of two lanes. | lanes in `RoomLifetime` |
| WebSocket transport, advisory channel, intent-log manager and undo, awareness UI, admin, diagnostics, vendored code | | | | not modelled, see below |

## Modules

| Module | Models | Correspondence |
|---|---|---|
| `RoomLock` | `WP_Sync_Room_Lock` | one action per SQL statement (`InsertClaims`/`InsertIgnored`, `Select`, `Takeover`, `Release`), per local decision (`Judge`, `CheckDeadline`), the clock (`Tick`) and a worker's death (`Crash`). `pc` is the position in `acquire()`, `row` the option row. |
| `IntentLogEngine` | the server engine | `rows` is the table with its row ids, `first` the lowest row not deleted, `ckpt` and `floor` the two meta values. `IngestStart` loads and plans under the lock; the statements planned (`todo`) are performed by one action each, so that a reader, or a death, may come between any two. |
| `Selection` | what the engine and the tab both do to a list: keep the elements that pass a test, find a place | `Kept` and `Where` are recursive functions of the number of elements looked at, a form a proof can unfold. |
| `IntentLogSession` | the tab's replica | operators from replica to replica, one per branch of `receiveUpdate`, plus dispositions and the release of a deferred reset. A JavaScript turn is not interrupted, so a response is applied in one step. |
| `IntentLog` | a room: tabs, transport, server | `Author`, `CancelPending`, `ResolveProposal` (the editor); `Send`, `Receive`, `RequestFails` (the polling manager); `ServerIngest`, `ServerStep`, `ServerEnd`, `ServerAnswer`, `ServerDies` (the HTTP server around the engine). |
| `IntentPlanner` | `plan_batch` and the reducer, the twin of `planner.js` | pure operators: the effect of an intent on a document, `transform_one` per pair of kinds, frames and units of a batch, the verdict of every intent |
| `IntentEditing` | tabs that author, send, receive and replan over that planner | `authorIntent`, `clientReceive`, `receiveDispositions` and the server's ingest over one log; `saw` remembers what the author had on screen |
| `DeRtcChain` | the de-rtc commit path over `WP_Sync_Atomic_Option` | `canon` and `claim` are the two option rows; `snapshot`, `announced`, `parked` the rows of the update table that matter. A request (`pc`) goes through `load_room` (`Load`, `LoadRows`), `initialize_room` (`GenesisRow` ... `CanonInsert`), the merge loop (`MergeSucceeds`, `MergeVoids`, `MergeParks`, `MergeSalvages`), `claim_version` (`ReadClaim`, `SwapClaim`, `ProbeClaim`, `SeedClaim`), `save_canonical` (`PersistChained`, `ProbeChain`, `SeedChain`, `CheckChain`), `Announce`, `Answer`. The tab is `Send` and `TimesOut`, the reset of an abandoned room `ResetRows`, `ForgetCanon`, `ForgetClaim`, the claim's TTL `Age`. |
| `VersionLedger` | what that path promises | one line of versions, each the one before with one more proposal; an author is told only what the document holds |
| `DeRtcSession` | the de-rtc tab over that path | the session as operators from state to state (`Announced`, `Snapshot`, `Incorporate`, `SettleQueued`, ...); the tab's events `Edit`, `Quiet`, `QuietRetry`, `CommitRetry`; the commit lane `Accept`, `ParkWhole`, `Void`, `CommitAnswered`, `CommitLost`; the poll lane `Poll`, `PollAnswered`, `PollLost` |
| `YjsRoom` | the Yjs-server engine, its storage and its tab | a request is a sequence of storage accesses (load, replay, append, save, stamp, checkpoint, trim, floor) of a worker; rows may become visible after their id is taken (`LateRows`), the room may start empty (`Fresh`) |
| `RoomLifetime` | presence, room generations and the two lanes of the polling manager | `Open`, `BeatRead`, `BeatWrite`, `Expire`, `Leave`; the requests `Receive`, `SendNow` and the beacon, served access by access (`Serve`), the reset in its two statements (`WipeRows`, `WipeMeta`), the generation token read and stored; the tab restarts on a new token |
| `*Proofs` | | theorems about `RoomLock`, `DeRtcChain`, `RoomLifetime`, `IntentPlanner` with `IntentEditing`, `DeRtcSession`, `Selection`, `YjsRoom`, and the intent log (`IntentLogProofs`: the server's half first, then the whole room; its inductive invariant is stated in `IntentLogInvariant`) |
| `MC*` | | instances for TLC: values of the constants, scenes, symmetry, the bound on faults |

The abstractions, module by module:

*Intent log.* A document is the sequence of the intents that had an effect on it;
the planner's verdict is any one its rules allow (an intent is refused only if it,
its unit or an earlier intent of the batch meets a foreign entry after its base; a
unit escalates as a whole; units of a user without `unfiltered_html` may be parked
for approval). A server process runs its ingest under the room lock; that the
lock excludes is the business of `RoomLock`, and an ingest that overruns its lease
is not modelled. The genesis row exists in the initial state; when two requests
race to write it, the loader and the tab both keep the first. A failed request
either never reaches the server or is still processed later, possibly after its
own retry. The client's poll mode is modelled; a poll that would neither send nor
find anything is a stutter.

*Planner.* Blocks are flat, an insertion types one character, there is one
attribute, the reasons of a refusal are dropped. Formats, moves,
`transform_block`, `set_property` and `remove_attr` are left out. In
`IntentEditing` a tab authors at its cursor, a request is ingested as it is sent,
nothing is compacted, and an answer's rows and dispositions are applied in one
step.

*De-rtc chain.* A document is the set of the proposals merged into it, so
"overwritten" and "merged" are told apart and the block merge itself is not. The
merge of a proposal may conflict only with somebody else's work; after a salvage
it fits the version it was cut down for. Whether the base of a proposal can still
be resolved, and whether the merge core accepts it, is a free choice
(`MergeVoids`). A microtime stamp is the first number nobody remembers. Each tab
makes one proposal and sends it again after a failure. Left out are healing from
an external save, checkpoints (which write the same version again), properties and
the review lanes.

*De-rtc session.* A document gives every block the set of the edits in its text.
The server's commit is one step (the chain is `DeRtcChain`'s business): a new
version, merged block by block from what the proposal declares as its bases, or a
refusal. A poll changes nothing in the room, so its request and serving are one
step and only the answer can be late or lost. A base outside the window may or may
not be found in a revision (`Resolvable`). Nobody deletes text. Left out: restart
after a room reset, commits held by a save, the cadence dial, a person's decision
on a contest, properties, incorporation by position, and lost announce rows.

*Yjs.* A document is the set of the items received; an item needs its author's
previous item and the one it was typed after; merging is union. The counters a
request reads together with its rows are read in one step. No code reads the history
variable `astray`: it notes the rows a race may take from a document, which are those
committed below a row that was committed before them (`Late`), and those trimmed
by a request that had loaded the room before them, behind a snapshot without them
(`Unread`). Left out: the lane for unfiltered HTML, size ceilings, invalid payloads,
deletions, undo.

*Room lifetime.* The engine is reduced to what a lifetime needs: a first row in an
empty room and one row for every new update. `Raced = FALSE` lets no second
presence access fall between those of a request; the theorems hold with either value.
Two history variables, which no code reads, name what such a race takes away.
`attending` has the tabs that are sure of the room: their join is stored; a heartbeat
that writes a list without it removes them, and a join does not enter while another
tab's reset is decided and not carried out (`Condemned`). `struck` has the edits whose
rows a reset deleted under the request that stored them (`UnderWork`). No
request outlives the TTL of the token list (five minutes); the queues a tab holds
while alone are abstracted.

The operators commented `BUG of ...` are not part of the models: each is a
changed version of the definition that follows it, used to see that the
properties notice the change.

## Runs

| Run | Question | Instance |
|---|---|---|
| `lock` | Do two holders ever both keep their lease, is a row only released by its writer, is a refusal honest, is every call answered? | 2 requests, two calls each, TTL 1, clock up to 4, waits 0 and 1, crashes, fair |
| `units` | Do units stay whole, do undone intents stay out, is nothing logged twice, does every acknowledgement have its row? | 2 tabs, 3 intents in units of 1 and 2, a checkpoint every 2 entries, one failed request, one undo |
| `compaction` | Is every replica the document at its position and the rebuilt room the whole history; do open proposals survive? | 2 tabs, 3 intents, a checkpoint at every entry, one tab parks for approval, stale bases, one resolution, and one death or one repeated delivery |
| `live` | Does every intent settle and every tab catch up? | 2 tabs, 2 intents, one failed request, one death, one failed INSERT, fair |
| `planner` | Does what is applied land where it was meant, does what was dropped stay dropped, is work that met nobody applied, is the screen the replan of the outbox? | 2 tabs: one intent each of every kind on two blocks; two and one on a block of two characters |
| `chain` | Does the commit path implement the ledger of versions, does acknowledged work survive, is every proposal answered? | 2 tabs, 2 requests, a kept room, one death or one lost answer, claims that age at any time, fair |
| `chain_birth` | Is a proposal to a room that does not exist answered? | 2 tabs, 1 request, one fault: a death, a lost answer, a failed INSERT or a reset; fair |
| `session` | Does typed text vanish, does a proposal declare bases it was not written on, does accepted text leave the room, does a tab freeze? | 2 tabs, 5 scenes: see the bounds |
| `session_rollback` | Does accepted text stay when two people type in blocks of their own? (It does not.) | 2 tabs, two edits and one, no fault |
| `yjs` | Is acknowledged work in the canonical document and in what is replayed, is a cursor honest, do the tabs converge? | 2 tabs, 2 workers, one edit each, a checkpoint at every row, one failed request, fair |
| `yjs_late` | While nothing is trimmed, can an update whose past is missing be repaired from the log? | 2 tabs, 2 workers, two edits each, rows out of id order, a room that two requests initialize |
| `lifetime` | Does only a join reset a room, does nobody present lose it, do rows come before verdicts, do the tabs converge across resets? | 2 tabs (one writes and streams), two openings, one edit, one trouble (an expired token list, a beat, a lost answer), 2 requests at a time, fair |

**Bounds.** *Lock.* Two slots that may each call twice give a holder that crashes
or oversleeps, a waiter, a takeover, and the late release of the one that was
taken over; `MaxClock` leaves room for a wait, an expiry and a takeover. The
theorems cover any number of requests.

*Intent log.* Two tabs are enough to contend and to lag. A checkpoint at every
entry passes two checkpoints with two entries, which is when the first trim
happens, so compaction, the floor, resets and re-appended proposals all occur
in `compaction` and `live`. It also makes every base behind the head stale at
once, so nothing is refused by the planner there; `units` uses a checkpoint
every two entries, where contention happens. `compaction` takes one fault of
any kind (`MCOneFault`), `live` up to one of each. The bounds are
constants and may be raised.

*Planner.* Two characters give an insertion, a deletion and a replacement every
relative position (before, at either edge, inside, around); two fields and two
blocks give split and merge something to carry over; two intents of one tab before
one of the other reach the frame rules and units. The transform of two text edits
is proved for every length.

*Chain.* One request commits while the other sleeps with a version or a claim it
has read. Two attempts and one spin reach both the retry and the refusal (the
code's 10 and 40 only repeat them), and `MaxStamp` gives each claim remembered by
a request, and one more, a stamp of its own. `MaxFaults` is one fault of any
kind. A reset together with a death is outside the instance: like racing creations, it
can leave the claim out of reach of the document, and then liveness fails.
`ChainExtendsByOne` is checked in a kept room and proved for all rooms.

*Session.* The scenes are: both tabs type in blocks of their own; both in one block
with a window of one version, so that every base ages out; both in one block
and one types on, which is the least that makes a tab keep a block over the merge
of its own proposal and declare an older base for it; a lone author whose commit
and whose poll fail; a lone author who types on while a commit fails. The code's
window is 20 versions, which no scene exhausts.

*Yjs.* A checkpoint at every row puts a checkpoint, a trim and the floor under two
requests at once; `Interval = 3` in `yjs_late` keeps every row, which is what its
property is about. *Lifetime.* Two openings are a tab that joins, leaves and comes
back, or two tabs; two requests at a time are the two lanes of a tab, or two tabs
in presence.

`CHECK_DEADLOCK FALSE` is stated where editing, calls and faults are bounded: the
system legitimately comes to rest.

**Fairness.** `RoomLock!FairSpec`: a request inside `acquire()` executes its next
statement or crashes (PHP runs until it answers) and the clock ticks; nobody must
call or release. `IntentLog!FairSpec`: each tab's poll loop reschedules itself
after success and failure alike (`poll`), a response not lost arrives, and the
server works while it has requests. `DeRtcChain!FairSpec`: a request executes its
next statement or dies, a tab without an answer sends again (the retry timer of
`commitThroughSave`), time passes, and a reset that began goes on.
`YjsRoom!LiveSpec`: a worker executes its next access, and a tab that may send
again and again does (its loop is rescheduled, but a recovery may disable it in
between, hence strong fairness). `RoomLifetime!LiveSpec`: the receive lane and the
beacon go on, a beat that was read is written, and the send lane, which waits for
the other lane now and then, goes on if it may again and again. Faults and edits
are never obliged to happen. `IntentEditing` and `DeRtcSession` are checked for
safety only; in the latter every behaviour is finite, and what must have happened
when it ends is the invariant `NoTabFreezes`.

## What the checks show

`lock`: two holders are never both inside their leases (`LeaseExclusion`); a row
inside its lease disappears only by its writer's release (`NoTheft`); nobody is
refused for a lock that was abandoned and untouched when the call began
(`BusyIsHonest`); every call is answered (`EveryCallIsAnswered`).

`units`, `compaction`, `live`: under lost and late requests, deaths between
statements, failed INSERTs and compaction, the log never holds an intent twice
(`LoggedOnce`), every replica is the canonical document at its position
(`ReplicaIsAPrefix`), the room rebuilt from retained rows equals the full history
(`LoadIsReplay`), open proposals survive compaction (`ProposalsSurvive`), whatever
is acknowledged as applied or escalated has its row (`AckIsBacked`), a unit sent
whole settles whole (`UnitsSettleTogether`), and an undone intent never comes back
(`CanceledStaysOut`). Every intent settles (`EveryIntentSettles`) and every tab
reaches the head (`TabsConverge`).

`planner`: what the log applies does what its author meant with the text and blocks
on screen (`AppliedAsMeant`), what a tab dropped is never applied later
(`SetAsideStays`), an intent that met nobody's work is applied
(`DisjointWorkApplies`), and the screen is always what replanning the outbox over
the replica gives (`ScreenIsReplan`).

`chain`, `chain_birth`: in a room that exists, what an author was told is applied
stays in every later version (`AppliedSurvives`), a stored version is only
followed by the next (`ChainExtendsByOne`), the path implements the ledger
(`LedgerSpec`), and a death between claim and write delays, but does not stop, the
others (`EveryProposalSettles`). Only the chained write carries the safety: the
claim may be taken over from a writer that is merely slow. While a room is created
or reset by several requests only `ChainExtendsByOne` is left.

`session`: as long as no commit fails while others write, and outside the case
of `session_rollback`, what a person typed is
always in the tab, under way, in the room or among what it set aside
(`NothingTypedVanishes`); a proposal declares, block by block, a version its text
was written on (`HonestBases`), hence no proposal removes accepted text
(`AcceptedWorkStays`); and at rest no tab holds a proposal, a deferred snapshot or
a merge it waits for (`NoTabFreezes`).

`yjs`, `yjs_late`: with rows in id order, what a tab was told is merged is in the
document the next request loads (`AckedIsLoaded`) and in what the retained rows
rebuild (`AckedIsReplayed`), whoever saved and trimmed meanwhile; no cursor passes
a row its tab lacks (`CursorIsHonest`), and the documents end up equal
(`TabsConverge`). Out of id order and with racing initializers, as long as nothing
was trimmed, no tab is told that the room lacks what its update needs
(`RepairFromLog`). In the instance of `yjs` `astray` stays empty (TLC, once): with two
requests and rows in id order, nothing is at risk.

`lifetime`: only the request that joins resets a room (`LaterRequestsNeverReset`),
nobody who is sure of it loses it (`ParticipantKeepsRoom`), rows reach a tab before
the verdicts on its updates (`RowsBeforeVerdicts`), and every open tab ends with the
rows of the room (`TabsConverge`), also one that slept through a reset. The run keeps
presence accesses apart (`Raced = FALSE`), so there whoever joined is sure of the room
until its token expires or it leaves, and `struck` changes nothing; the first three
are proved with interleaved accesses, the last one fails with them (*Presence*, below).

**Where the code does not keep what the repository says.** Kept as a run:

* `session_rollback` - a poll fetches a peer's version while the tab's own
  proposal is merged with it. The announcement of the merge overtakes the poll's
  answer, which is then applied wholesale, being newer than the tab's document,
  and takes the tab's accepted text off it. The catch-up to the merge mistakes the
  missing text for a local edit, and the tab's next proposal deletes it from the
  room (`session.ts:675`, against the comments at `:210`, `:600` and `:677`). So the
  scenes of `session` have a third edit only where everybody types in one block,
  where it holds.

Seen in the same models with other constants or in earlier versions of them, and
not kept as runs:

* *De-rtc session.* (1) A snapshot stashed by the quiet gate is looked at again after a
  newer one was deferred for the proposal in flight, and takes its place
  (`session.ts:454`, against "adopt the newest deferred canonical state", `:740`);
  the tab stays behind until the next announcement. This needs a second burst,
  which is why `NoTabFreezes` speaks of the version only under `OneBurst`. (2) A commit
  fails. For two seconds the tab neither has a proposal in flight nor is dirty, so
  a snapshot of a second author replaces its document, and the retry then proposes
  a document without the text (`session.ts:396`, against the comments at `:147` and
  `:391`). (3) With a window of two versions and no revision, a block base that
  aged out falls back to the plain base and erases a peer's edit.
* *De-rtc chain.* Two requests create a room: the slower resets a canonical row that
  has been advanced and acknowledged, or leaves a claim two versions ahead, which
  no TTL heals. A request at work while the room is reset seeds the canonical row
  again, in a room without rows.
* *Intent log.* A redelivered intent, applied before a checkpoint, is acknowledged a
  second time as stale; a cancellation after the checkpoint of its intent is
  confirmed though the intent stays; the body limit can cut a unit.
* *Planner.* With `Pipelined = TRUE` (a tab types on while its request is
  unanswered) the next batch carries an old base and is planned without the frame
  state of the first: its text is misplaced (`SPEC.md:227`; the tests only have the
  two in one batch). A phantom recorded on a key hides an applied write on it from
  a third intent (`class-wp-intent-log-planner.php:466`). Frame keys do not follow
  a tab's own split or a remote merge; the scenes have neither with two intents of
  a tab. A merge that arrives after an accepted edit of the absorbed block's other
  field drops that edit silently.
* *Yjs.* With three requests at once, an acknowledged row can be trimmed without being
  in any snapshot (`class-wp-yjs-server-engine.php:1067`, against the comment at
  `:1073`, which folds the window so that the trim does not make such a loss durable).
  The first request reads the window of its checkpoint; the second stores its row,
  saves, and is answered; the first stores its snapshot and stamps it. The third
  loaded the room before the second's row: it saves its own document over the
  canonical one, folds only the rows past the first's snapshot, stores its own
  snapshot and trims behind the first's. With `Tabs` and `Workers` of three elements,
  `MaxEdits = 1` and `MaxFaults = 0`, TLC finds `AckedIsReplayed` violated so after 34
  states. With rows out of id order a cursor can pass a row
  (`class-wp-sync-table-storage.php:516`).
* *Presence.* With `Raced = TRUE` a heartbeat writes back the token list it read
  before a join (`class-gutenberg-sync-engines-advisory-presence.php:1093`); the tab,
  alone, resets its own room at its next poll, under an update it has sent. A tab that
  joins between the check and the deletion of another's reset (`:673`) loses its room
  too. TLC found both as violations of the three properties when
  `attending` still counted such tabs and `struck` was not excepted. Accesses between the
  two DELETEs of a reset can store a token derived from a deleted row, and then a tab
  does not converge.

Limits of the code that the models reproduce. The result of storing a parked row
is ignored, both where the intent log re-appends an open proposal before trimming
(`class-wp-intent-log-engine.php:1129`) and where the de-rtc engine parks one
(`class-wp-de-rtc-engine.php:1201`): with a failed INSERT, an open proposal is lost
and a lost one is answered as escalated. `compaction` therefore has
`MaxRowFailures = 0`. A worker that dies within a batch, together with a late copy
of it, can bring back an undone intent; `units`, which checks `CanceledStaysOut`,
has no death. The lock's token is stamped when `acquire()` is called, so the lease
of a request that waited is shorter than `TTL_SECONDS` by its wait; the lease
properties count from the stamp.

## What is proved

TLAPS checks these for every value of the constants, under the named assumptions
of the modules (constants are naturals or sets of the right kind, a `None` is none
of the values).

`RoomLockProofs`, for every set of requests, every TTL, every set of waits and all
bounds: `TypeCorrect` (`TypeOK`), `Exclusion` (`LeaseOwnsRow` and
`LeaseExclusion`), `RowIsSafe` (`NoTheft`), `Refusals` (`BusyIsHonest`). The
argument: a holder inside its lease owns the row (`LeaseOwnsRow`), but that alone
is not inductive. A takeover must not replace such a row, so the token a request
is about to swap out must have been overdue when judged, which stays so because
time only moves forward (`JudgedOverdue`); a swap that still matches proves the
row is that token, because every token belongs to one request and one call
(`OwnToken`) and no stamp lies in the future (`StampsPast`). `ReadTheRow` and
`RefusedInLease` carry a refusal back to the row that caused it. `LockInv` is
their conjunction; `InitLockInv` and `StepLockInv` show it inductive, one step per
action.

`DeRtcChainProofs`, for all tabs, requests and bounds:

* `TypeCorrect` (`TypeOK`) and `ChainOnlyExtends` (`ChainExtendsByOne`), without a
  further assumption: creations, resets and lost rows included;
* `ChainSafety` (`AppliedSurvives`, `LineageIsOne`, `ClaimWithinReach`) and
  `ChainIsALedger` (`LedgerSpec`), for a room that exists and is not reset
  (`RoomKept`). Races of creation and reset, above, show why that is needed.

The argument: in a kept room every step is one *move* (`StepMoves`): it loads the
canonical version, or extends it by one proposal (`Extends`), or announces or
tells what a request holds, or changes nothing of these. The inductive invariant
`ChainInv` is about the moves alone: what a request holds is the canonical version
or a past of it, no later and no larger (`LoadedIsPast`); a request past its write
holds a version that is in the document (`AppliedIsIn`), and versions written
but not yet announced, or announced, are one per number (`PendingIsOne`);
`Calm` keeps the room in existence and `WaitsForItsOwn` ties an answer to its
proposal. `AppliedSurvives` is not inductive without them, because an answer may
arrive after later commits. Nothing in the argument speaks of the age of a claim.

`RoomLifetimeProofs`, for all tabs, lanes, edits and bounds. `Typed` (`TypeOK`) holds
whatever races; it rests on `TypeInv`, which follows every token: a random one is
new (`RandomIsFree`, a count of the tokens that tabs and requests hold) and the least
of them grows with the number of tabs only. The other three hold whatever races, too,
and have no assumption on `Raced`: they are about tabs that are sure of the room and
edits that are not `struck`, which is all the unlocked token list leaves.

* `OnlyJoinsReset` (`LaterRequestsNeverReset`) and `ParticipantsAreSafe`
  (`ParticipantKeepsRoom`). The invariant is `PresenceInv == AttendingJoined /\
  WipesAlone`: whoever is sure of the room is marked as joined in the stored list, so a
  reader who finds nobody else is right about them; and when a request is about to
  delete rows, nobody is sure of the room but its own tab. A join keeps the second part
  because of `Condemned`; a beat keeps the first part because what it writes over is no longer
  counted; a tab that is sure of the room reads its own mark, and resets nothing.
* `RowsComeFirst` (`RowsBeforeVerdicts`). `RowInv` says of a tab that knows the room by
  its first row that it has the rows up to its cursor, and that every tail it
  holds back ends at or behind the rows it is about, which are in the room
  (`TabRows`); of a request that its updates have rows once ingested, that what it
  reads ends behind them, and that a receive goes on where the cursor of its tab
  stands (`LaneRows`); and that no update has two rows (`RowsOnce`); all of it for the
  edits that are not `struck`. The reset is what could break it: the rows of
  an update are gone between its ingest and its verdict. That strikes the edits of the
  requests at work; the tails of every other tab are of the room before, and it
  finds that out by the token.

`IntentPlannerProofs`: `TransformKeepsText` - of two concurrent text edits of one
field, of any length and at any positions, the one that `transform_one` passes
over the other keeps its range inside the new text, on the same side of every
surviving character, and covers only characters its author selected. The lemmas
are the arithmetic of the positions (`TextOverText`), where a splice moves each
character (`SpliceByPosition`) and what an intent does to a text (`EffectOnText`).
TLC checks the composition of this with frames, units and the other kinds
(`AppliedAsMeant`).

The same module proves of `IntentEditing`, for any tabs, genesis documents and menus,
`FastPathIsReplan` (`ScreenIsReplan`) and `EditingTyped` (`TypeOK`). The claim is the one
`client.js` makes for its fast path: applying a new intent to the document on screen is
"equivalent to a full replan". The invariant `EditingInv` says of a tab that its screen is
the plan of what is pending over its copy of the log (`Shows`), and of what is pending
(`BoxOK`) that it is numbered as it was made, is based within the tab's copy, and that the
intents of one unit have one base. The last part is what the claim hinges on: an intent that
joins the unit before it makes the planner judge that unit again as a whole, and the
verdicts of its other members stand only because the whole unit is based at the head of
the copy, where nothing landed in between can set any of it aside (`UnitAtHead`). It needs
the numbering, since a unit is named after its first intent: a later
intent could otherwise be taken into a unit that happens to have its id. The lemmas
below it describe the planner: its folds are runs over the batch (`ReplayRuns`,
`JoinRuns`, `PlanRuns`, `SettleRuns`), one intent more joins the last unit or begins one
(`GroupAppend`), every conflict lies between the base and the head (`ConflictsWithin`),
a plan has one row per intent (`PlanLength`), and one more intent at the head adds its
row and its effect and changes no other (`AloneFollows`, `JoinedFollows`). Assumed of the
constants: the value for "no unit" is no intent's id (`NoneNamesNothing`), and a menu is
a list of sets of kinds for each tab (`MenusAreLists`).

`DeRtcSessionProofs`: `HonestBasesKeepWork` - for any tabs, blocks, windows and
faults, accepted text leaves the room only through a proposal that declares a base
its text was not written on (`HonestBases`, which TLC checks in the scenes, is the
premise of the theorem). The merge of a block keeps the canonical text if the base
is part of the proposal (`MergeKeepsCanonical`), and only `Accept` changes the chain
(`OnlyAcceptExtends`). It puts the whole question into the tab: the server's merge adds no
loss of its own, and the loss of `session_rollback` is a proposal of that kind.
`Typed` (`TypeOK`) needs `SessionInv`, the shape of every tab, commit and poll; each
operator of the session has a lemma that it turns a tab into a tab, and the rows of
one answer are an induction over their number (`RowsTyped`).

`IntentLogProofs`, for any tabs, batch sizes, thresholds and bounds, with every
fault of the model (lost and late requests, retries that overlap the first copy,
failed row writes, deaths between two statements), and with no assumption but the
modules' own about the constants: `Typed` (`TypeOK`), `IntentsAreLoggedOnce`
(`LoggedOnce`), `ReplicasArePrefixes` (`ReplicaIsAPrefix`), `LoadIsTheHistory`
(`LoadIsReplay`) and `AcksAreBacked` (`AckIsBacked`). `RoomInvariant` states the
inductive invariant `RoomInv == NetInv /\ OnceInv /\ TabsInv`:

* The server's half is `EngineInv`. Its subject is not
  the table but `Future`, the rows there are followed by those the ingest in
  progress has still to write: a plan is checked once, when it is made, and every
  statement performed later leaves `Future` alone. `IngestOK` says which statements may
  remain and in which order (`Layout`), that a pending snapshot will state the replay of
  the log at its place (`WillReplay`) and that the meta values never name a row the
  table does not keep. `SnapshotsReplay` is `LoadIsReplay` for every snapshot ever
  written, deleted ones included, since a later one was computed from it.
* `NetInv` adds the network: of a tab's requests at most one can still be answered,
  and an ingest on its behalf and its answer exclude each other (`OneRequest`).
* `OnceInv`: `Future` holds no intent twice, and every copy of an intent under
  way (in an outbox, a queue, a flight, a late request) that is logged was
  authored at a base below its place in the log. That is what makes the server's
  test sound: it looks only at the rows it retains, and refuses bases below them,
  so an intent that is not found there and is fresh is not in the log at all
  (`FreshIsUnlogged`). `LoggedOnce` alone is not inductive, because the duplicate
  is decided by a copy that may have travelled for any length of time.
* `TabsInv`: a tab is the replay of the log up to its own place (`Canonical`) and is
  caught up with its cursor, or waits with a deferred reset that will bring it
  there (`Waiting`: the rows held back begin with a snapshot ahead of it, each is
  in the table, and they leave no gap that a snapshot does not close). The three
  parts need each other: a log without repetitions keeps replicas canonical, and
  canonical replicas author at bases within the log.

`ProposalsAreKept` (`Spec => [](rowFailures = 0 => ProposalsSurvive)`) rests on
`ReviewInv`. The hypothesis is needed: when the re-append of a parked proposal fails
and the trim goes on, the proposal is lost, which is what the code does. The argument:
what is parked stays listed, because the plan of an ingest re-appends before it trims
(`StaysListed`, and `WillBeKept` of the plan that is under way); the hard part is that
nothing resolved comes back. A resolution is deleted with the rows below a checkpoint,
and the server then no longer knows of it, so a late copy of the intent could be parked
again. It is not: a resolution is written before the next checkpoint is due
(`ResolvedEarly`), hence at a log position below the seq of every later checkpoint
(`ResolvedBelow`); a copy of a parked intent was authored at a base no higher than the
position of the parked row (`ProposalsKnown`), since its author had to author it first;
so behind the checkpoint the copy is stale and refused (`NotReparked`). As with
`OnceInv` it is about the bases of copies that may have been under way for any time.

`SpentInv`, for `Typed`, bounds the counters of faults by their budgets.

`YjsRoomProofs`, for any tabs, edits, intervals and failures, any number of requests at
once, and whether or not rows become visible in the order of their ids:

* `Typed` (`TypeOK`), and `Repairs` (`RepairFromLog`), with racing initializers;
* `Replays`, `Loads` and `NoGaps`: everything acknowledged is in what the retained rows
  rebuild (`AckedIsReplayed`) and in the document the next request loads
  (`AckedIsLoaded`), and a tab has what every committed row up to its cursor held, the trimmed
  ones included (`CursorIsHonest`), each but for the items of the rows in `astray`. The
  exception is as small as the code allows to say in general: three requests lose such a row to a
  trim, and a late row is passed by a cursor (*Yjs*, above). Where `astray` is empty,
  they are the properties that `yjs` checks;
* `UntilTrimmed`: until the first trim the rows rebuild everything acknowledged, without
  exception, and with rows in id order the other two hold without it as well.

The invariant has four parts.

* `BaseInv`: shapes, and whose items may be in whose document.
* `TrimInv` and `LoadInv` (with `BaseInv` they are `LogInv`) speak of *claims*: a committed row,
  trimmed or not, claims the items it holds that no row in `astray` holds (`Claims`). The
  visible rows hold all claims (`TrimInv`), and no stamp and no cursor is ahead of
  a document that lacks the claim of a row up to it (`LoadInv`, `Knows`). A row committed behind a
  committed one enters with its items as its claim, one committed below it
  with none (`Widens`), so that what was known stays known: this is why a stamp must be the
  watermark of the load and not the id of an own row. A trim takes a row that the trimming
  request had loaded, and then its new snapshot holds the claim; or one that
  the snapshot it trims behind holds; or one that goes astray and claims nothing any more.
* `StoreInv` (with `LogInv` it is `RoomInv`): what the canonical document, an answer or a
  request stands for is in the committed rows or among the rows that request has still to
  store; so a request that dies has promised nothing, and a save that overwrites a newer
  one costs nothing that the next load does not bring back.
* `CloseInv`, for `Repairs`: until something is trimmed, what an item needs is in the
  rows or goes before it, in the same request, or in a queue behind the request its
  tab waits for. A queue is refilled with the whole document when a request fails, so a lost
  update is never followed by one that needs it (`QueueClosed`, `WorkIsKept`). A replay
  then accepts the whole batch, whatever the canonical document had lost.

The lemmas are about merging a batch (`MergeIsRecursive` and those on `Merged`: nothing
of the document is lost, what is new is in the differences of the accepted updates;
`InTurn`: as long as every update is accepted, each is in what was there and the
differences so far).

`SelectionProofs` has the facts about `Kept`, `Where` and the sums of lists that
these proofs rest on (length, order, membership, what a selection keeps of a
concatenation). The inductions over the length of a list are made from the
least-number principle in the form of a set (`LeastNumber`), which the provers can use
where an induction theorem with a predicate parameter cannot be instantiated.

Only model-checked: liveness (`EveryCallIsAnswered`, `EveryIntentSettles`,
`TabsConverge`, `EveryProposalSettles`), which this prover does not reach; of
`IntentLog` the properties `UnitsSettleTogether` and `CanceledStaysOut`; of `YjsRoom` that
two requests with rows in id order lose nothing to a trim at all; the action
properties of `IntentEditing` (`AppliedAsMeant`, `SetAsideStays`, `DisjointWorkApplies`),
which depend on every pair of kinds in `transform_one`; of `DeRtcSession`
what the tab makes of its text (`NothingTypedVanishes`, `HonestBases`, `NoTabFreezes`),
which hold in the scenes that `session` checks and not in every scene.

## Not modelled

Most lines under `src/` are a vendored Gutenberg tree and the vendored libraries
y-php and automerge-php, which are third-party code. Of the plugin itself:

* the WebSocket daemon: an event loop with sockets, timers and fan-out cursors of
  its own over the same engines; a model of the size of `RoomLifetime`;
* the advisory channel between tabs: its hints make a tab poll earlier, and every
  model lets a tab poll at any time;
* the intent-log manager, bridge and undo stacks, and the details of the de-rtc
  merge core (order and nesting of blocks, the Automerge encoding): sequential
  computations on the editor's block objects;
* saves: the base-seq preflight and the preflight of de-rtc saves only compare;
  healing of a de-rtc room from an external save, its checkpoints and the review
  lanes change a room and are left for an extension of `DeRtcChain`;
* mailboxes and signals of presence, change notifications of streams, engine
  switches of a room;
* the awareness UI, admin pages, bootstrap, diagnostics: no protocol state.

## What could follow

1. Healing and checkpoints in `DeRtcChain`.
2. Restart after a reset, holds by a save and lost announce rows in `DeRtcSession`.
   Were the disagreement of `session_rollback` repaired, `HonestBases` could
   become a theorem, from what a tab's document holds of every version it names.
3. The WebSocket daemon over `YjsRoom`'s storage.
4. An abstract ledger that `IntentLog` implements step by step.
