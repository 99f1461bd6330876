----------------------------- MODULE DeRtcChain -----------------------------
(***************************************************************************)
(* The de-rtc engine's commit path.  No lock is taken: a request loads the *)
(* canonical document, merges its proposal into it, claims the next        *)
(* version number by compare-and-swap of one option row, writes the merged *)
(* document over its predecessor by compare-and-swap of another, and       *)
(* announces it.  A room without rows is created by whoever finds it so,   *)
(* and an abandoned room is reset.  Every SQL statement is one action.     *)
(*                                                                         *)
(* A document is the set of the proposals merged into it; each tab makes   *)
(* one proposal and sends it again while it has no answer.                 *)
(***************************************************************************)
EXTENDS Naturals

CONSTANTS
  Tabs,         \* the authors, one proposal each
  Reqs,         \* the request slots of the PHP workers
  MaxStamp,     \* stamps 1..MaxStamp stand for microtime() of the claims
  MaxAttempts,  \* rounds of the merge loop of ingest_proposal (10)
  MaxSpins,     \* rounds of the loop of save_canonical (40)
  RoomExists,   \* is the room created already?
  MaxDeaths,    \* bound: requests that die
  MaxTimeouts,  \* bound: answers that do not arrive
  MaxLostRows,  \* bound: INSERTs of rows that fail
  MaxResets,    \* bound: resets of the room
  MaxFaults,    \* bound: deaths, timeouts, lost rows and resets in all
  None          \* no such option row, no such request, no such tab

ASSUME BoundsAssumption ==
  /\ {MaxStamp, MaxAttempts, MaxSpins} \subseteq Nat
  /\ {MaxDeaths, MaxTimeouts, MaxLostRows, MaxResets, MaxFaults} \subseteq Nat
  /\ RoomExists \in BOOLEAN

Versions == [seq : Nat, content : SUBSET Tabs]
Claims   == [seq : Nat, stamp : 0..MaxStamp]

ASSUME NoneAssumption ==
  None \notin Versions \cup Claims \cup Reqs \cup Tabs

VARIABLES
  canon,      \* the option row `sync_de_rtc_canonical_<room>`
  claim,      \* the option row `sync_de_rtc_claim_<room>`
  old,        \* is the claim older than CLAIM_TTL_SECONDS?
  snapshot,   \* is there a genesis snapshot among the room's rows?
  announced,  \* the announce rows: a version, and the content it hashes
  parked,     \* the proposals with a row in the review ledger
  pc,         \* where each request is
  edit,       \* the tab whose proposal it carries
  loaded,     \* $state: the version it merges into
  expected,   \* the claim value it expects to swap
  again,      \* is it in the second round of a swap?
  attempts,   \* $attempt of ingest_proposal
  spins,      \* $attempt of save_canonical
  salvaged,   \* the version its proposal was last cut down to fit
  waits,      \* the request each tab waits for
  outcome,    \* what each tab was told of its proposal
  resetter,   \* where the reset of the abandoned room is
  faults      \* faults so far (bounds)

options == <<canon, claim, old>>
table   == <<snapshot, announced, parked>>
work    == <<edit, loaded, expected, again, attempts, spins, salvaged>>
tabs    == <<waits, outcome>>
vars    == <<options, table, pc, work, tabs, resetter, faults>>

Genesis    == [seq |-> 1, content |-> {}]
Unresolved == [seq |-> 0, content |-> {}]   \* 'v0': rows but no snapshot

RoomIsEmpty == ~snapshot /\ announced = {} /\ parked = {}

(* BUG of Merged: the proposal replaces the document.                      *)
MergedAlone(r) == [seq |-> loaded[r].seq + 1, content |-> {edit[r]}]

(* The version r writes: its proposal merged into what it loaded.          *)
Merged(r) == [seq     |-> loaded[r].seq + 1,
              content |-> loaded[r].content \cup {edit[r]}]

FaultLeft == faults.deaths + faults.timeouts + faults.lostRows + faults.resets
               < MaxFaults

GoTo(r, s) == pc' = [pc EXCEPT ![r] = s]

-----------------------------------------------------------------------------
(* The claim row holds `<seq>:<microtime>`.  Microseconds do not repeat:   *)
(* the stamp of a new claim is the first that nobody remembers.            *)

Remembered == {expected[q] : q \in Reqs} \cup {claim}

InUse(s) == \E c \in Remembered : c # None /\ c.stamp = s

FreshStamps == {s \in 1..MaxStamp : /\ ~InUse(s)
                                     /\ \A u \in 1..(s - 1) : InUse(u)}

Seed(n) == [seq |-> n, stamp |-> 0]         \* `<seq>:0`, long expired

WriteClaim(c) == claim' = c /\ old' = (c.stamp = 0)

(* `<n>:<now>`.                                                            *)
WriteFreshClaim(n) ==
  \E s \in FreshStamps : WriteClaim([seq |-> n, stamp |-> s])

Init ==
  /\ canon = IF RoomExists THEN Genesis ELSE None
  /\ claim = IF RoomExists THEN Seed(1) ELSE None
  /\ old = TRUE
  /\ snapshot = RoomExists /\ announced = {} /\ parked = {}
  /\ pc = [r \in Reqs |-> "idle"]
  /\ edit = [r \in Reqs |-> None]
  /\ loaded = [r \in Reqs |-> Unresolved]
  /\ expected = [r \in Reqs |-> None]
  /\ again = [r \in Reqs |-> FALSE]
  /\ attempts = [r \in Reqs |-> 0]
  /\ spins = [r \in Reqs |-> 0]
  /\ salvaged = [r \in Reqs |-> 0]
  /\ waits = [t \in Tabs |-> None]
  /\ outcome = [t \in Tabs |-> "open"]
  /\ resetter = "idle"
  /\ faults = [deaths |-> 0, timeouts |-> 0, lostRows |-> 0, resets |-> 0]

(* CLAIM_TTL_SECONDS pass.                                                 *)
Age ==
  /\ claim # None /\ ~old
  /\ old' = TRUE
  /\ UNCHANGED <<canon, claim, table, pc, work, tabs, resetter, faults>>

-----------------------------------------------------------------------------
(* The tab, and the request's two ends.                                    *)

(* commitThroughSave(), and its retry two seconds after a failure.         *)
Send(r, t) ==
  /\ pc[r] = "idle"
  /\ outcome[t] = "open" /\ waits[t] = None
  /\ GoTo(r, "load")
  /\ edit' = [edit EXCEPT ![r] = t]
  /\ waits' = [waits EXCEPT ![t] = r]
  /\ UNCHANGED <<options, table, loaded, expected, again, attempts, spins,
                 salvaged, outcome, resetter, faults>>

(* The tab gives up on the answer; the request goes on.                    *)
TimesOut(t) ==
  /\ waits[t] # None
  /\ FaultLeft /\ faults.timeouts < MaxTimeouts
  /\ faults' = [faults EXCEPT !.timeouts = @ + 1]
  /\ waits' = [waits EXCEPT ![t] = None]
  /\ UNCHANGED <<options, table, pc, work, outcome, resetter>>

(* The slot is free for the next request.                                  *)
Frees(r) ==
  /\ GoTo(r, "idle")
  /\ edit' = [edit EXCEPT ![r] = None]
  /\ loaded' = [loaded EXCEPT ![r] = Unresolved]
  /\ expected' = [expected EXCEPT ![r] = None]
  /\ again' = [again EXCEPT ![r] = FALSE]
  /\ attempts' = [attempts EXCEPT ![r] = 0]
  /\ spins' = [spins EXCEPT ![r] = 0]
  /\ salvaged' = [salvaged EXCEPT ![r] = 0]
  /\ waits' = [t \in Tabs |-> IF waits[t] = r THEN None ELSE waits[t]]

(* A disposition settles the proposal, an error (503, 500) leaves it open. *)
Answer(r) ==
  /\ pc[r] \in {"applied", "escalated", "voided", "busy"}
  /\ outcome' = [t \in Tabs |-> IF waits[t] = r /\ pc[r] # "busy"
                                THEN pc[r] ELSE outcome[t]]
  /\ Frees(r)
  /\ UNCHANGED <<options, table, resetter, faults>>

(* The process is killed; its tab sees the connection fail.                *)
Dies(r) ==
  /\ pc[r] # "idle"
  /\ FaultLeft /\ faults.deaths < MaxDeaths
  /\ faults' = [faults EXCEPT !.deaths = @ + 1]
  /\ Frees(r)
  /\ UNCHANGED <<options, table, outcome, resetter>>

-----------------------------------------------------------------------------
(* load_room().                                                            *)

Load(r) ==
  /\ pc[r] = "load"
  /\ IF canon = None
     THEN GoTo(r, "rows") /\ UNCHANGED loaded
     ELSE GoTo(r, "merge") /\ loaded' = [loaded EXCEPT ![r] = canon]
  /\ UNCHANGED <<options, table, edit, expected, again, attempts, spins,
                 salvaged, tabs, resetter, faults>>

(* The option row was missing: is the room empty, or is there a snapshot?  *)
LoadRows(r) ==
  /\ pc[r] = "rows"
  /\ IF RoomIsEmpty
     THEN GoTo(r, "genesis") /\ UNCHANGED loaded
     ELSE /\ GoTo(r, "merge")
          /\ loaded' = [loaded EXCEPT ![r] = IF snapshot THEN Genesis
                                             ELSE Unresolved]
  /\ UNCHANGED <<options, table, edit, expected, again, attempts, spins,
                 salvaged, tabs, resetter, faults>>

(* add_row() of the genesis snapshot.                                      *)
GenesisRow(r) ==
  /\ pc[r] = "genesis"
  /\ snapshot' = TRUE
  /\ GoTo(r, "claimDelete")
  /\ UNCHANGED <<options, announced, parked, work, tabs, resetter, faults>>

(* A failure is an error on the first load and a void on a later one.      *)
GenesisRowLost(r) ==
  /\ pc[r] = "genesis"
  /\ FaultLeft /\ faults.lostRows < MaxLostRows
  /\ faults' = [faults EXCEPT !.lostRows = @ + 1]
  /\ GoTo(r, IF attempts[r] = 0 THEN "busy" ELSE "voided")
  /\ UNCHANGED <<options, table, work, tabs, resetter>>

(* WP_Sync_Atomic_Option::reset() of the claim: DELETE, INSERT IGNORE.     *)
ClaimDelete(r) ==
  /\ pc[r] = "claimDelete"
  /\ claim' = None /\ old' = TRUE
  /\ GoTo(r, "claimInsert")
  /\ UNCHANGED <<canon, table, work, tabs, resetter, faults>>

ClaimInsert(r) ==
  /\ pc[r] = "claimInsert"
  /\ IF claim = None
     THEN WriteFreshClaim(1)
     ELSE UNCHANGED <<claim, old>>
  /\ GoTo(r, "canonDelete")
  /\ UNCHANGED <<canon, table, work, tabs, resetter, faults>>

(* canonical_reset(): DELETE, INSERT IGNORE.                               *)
CanonDelete(r) ==
  /\ pc[r] = "canonDelete"
  /\ canon' = None
  /\ GoTo(r, "canonInsert")
  /\ UNCHANGED <<claim, old, table, work, tabs, resetter, faults>>

CanonInsert(r) ==
  /\ pc[r] = "canonInsert"
  /\ canon' = IF canon = None THEN Genesis ELSE canon
  /\ loaded' = [loaded EXCEPT ![r] = Genesis]
  /\ GoTo(r, "merge")
  /\ UNCHANGED <<claim, old, table, edit, expected, again, attempts, spins,
                 salvaged, tabs, resetter, faults>>

-----------------------------------------------------------------------------
(* The merge loop of ingest_proposal().                                    *)

MergeSucceeds(r) ==
  /\ pc[r] = "merge"
  /\ GoTo(r, "claim")
  /\ UNCHANGED <<options, table, work, tabs, resetter, faults>>

(* Its base cannot be resolved in what was loaded, or the merge rejects it. *)
MergeVoids(r) ==
  /\ pc[r] = "merge"
  /\ GoTo(r, "voided")
  /\ UNCHANGED <<options, table, work, tabs, resetter, faults>>

(* Only work of somebody else can conflict with a proposal, and what is    *)
(* left after a salvage fits the version it was cut down for.              *)
MayConflict(r) == /\ pc[r] = "merge"
                  /\ loaded[r].content \ {edit[r]} # {}
                  /\ loaded[r].seq # salvaged[r]

(* park_changed_blocks() ignores a failed add_row().                       *)
ParkRow(r) ==
  \/ parked' = parked \cup {edit[r]} /\ UNCHANGED faults
  \/ /\ FaultLeft /\ faults.lostRows < MaxLostRows
     /\ faults' = [faults EXCEPT !.lostRows = @ + 1]
     /\ UNCHANGED parked

MergeParks(r) ==
  /\ MayConflict(r)
  /\ ParkRow(r)
  /\ GoTo(r, "escalated")
  /\ UNCHANGED <<options, snapshot, announced, work, tabs, resetter>>

(* The next round of the loop reloads the room; after the last, a 503.     *)
NextAttempt(r) ==
  /\ attempts' = [attempts EXCEPT ![r] = @ + 1]
  /\ GoTo(r, IF attempts[r] + 1 < MaxAttempts THEN "load" ELSE "busy")
  /\ expected' = [expected EXCEPT ![r] = None]
  /\ again' = [again EXCEPT ![r] = FALSE]

(* The conflicting blocks are parked and the rest is merged again.         *)
MergeSalvages(r) ==
  /\ MayConflict(r)
  /\ ParkRow(r)
  /\ NextAttempt(r)
  /\ salvaged' = [salvaged EXCEPT ![r] = loaded[r].seq]
  /\ UNCHANGED <<options, snapshot, announced, edit, loaded, spins, tabs,
                 resetter>>

-----------------------------------------------------------------------------
(* claim_version(), over WP_Sync_Atomic_Option::swap().                    *)

(* BUG of Claimable: an orphaned claim is never taken over.                *)
ClaimableNeverOrphaned(r) == claim.seq <= loaded[r].seq

(* Behind or level with what was loaded, or orphaned one ahead of it.      *)
Claimable(r) == \/ claim.seq <= loaded[r].seq
                \/ claim.seq = loaded[r].seq + 1 /\ old

ReadClaim(r) ==
  /\ pc[r] = "claim"
  /\ IF claim = None \/ Claimable(r)
     THEN /\ expected' = [expected EXCEPT ![r] = IF claim = None
                                                   THEN Seed(loaded[r].seq)
                                                   ELSE claim]
          /\ GoTo(r, "swap")
          /\ UNCHANGED <<again, attempts>>
     ELSE NextAttempt(r)
  /\ UNCHANGED <<options, table, edit, loaded, spins, salvaged, tabs,
                 resetter, faults>>

SwapClaim(r) ==
  /\ pc[r] = "swap"
  /\ IF claim # None /\ claim = expected[r]
     THEN /\ WriteFreshClaim(loaded[r].seq + 1)
          /\ expected' = [expected EXCEPT ![r] = None]
          /\ again' = [again EXCEPT ![r] = FALSE]
          /\ GoTo(r, "persist")
     ELSE GoTo(r, "probe") /\ UNCHANGED <<claim, old, expected, again>>
  /\ UNCHANGED <<canon, table, edit, loaded, attempts, spins, salvaged, tabs,
                 resetter, faults>>

(* BUG of ProbeClaim: a missing row is a lost race.                        *)
ProbeClaimGivesUp(r) ==
  /\ pc[r] = "probe"
  /\ NextAttempt(r)
  /\ UNCHANGED <<options, table, edit, loaded, spins, salvaged, tabs,
                 resetter, faults>>

(* No row was updated: is there none, or was the race lost?                *)
ProbeClaim(r) ==
  /\ pc[r] = "probe"
  /\ IF claim = None
     THEN GoTo(r, "seed") /\ UNCHANGED <<expected, again, attempts>>
     ELSE NextAttempt(r)
  /\ UNCHANGED <<options, table, edit, loaded, spins, salvaged, tabs,
                 resetter, faults>>

SeedClaim(r) ==
  /\ pc[r] = "seed"
  /\ IF claim = None THEN WriteClaim(expected[r]) ELSE UNCHANGED <<claim, old>>
  /\ IF again[r]
     THEN NextAttempt(r)
     ELSE /\ again' = [again EXCEPT ![r] = TRUE]
          /\ GoTo(r, "swap")
          /\ UNCHANGED <<expected, attempts>>
  /\ UNCHANGED <<canon, table, edit, loaded, spins, salvaged, tabs, resetter,
                 faults>>

-----------------------------------------------------------------------------
(* save_canonical( ..., true ), over WP_Sync_Atomic_Option::swap_prefixed() *)

Writes(r) ==
  /\ canon' = Merged(r)
  /\ again' = [again EXCEPT ![r] = FALSE]
  /\ GoTo(r, "announce")

(* BUG of PersistChained: any document is overwritten.                     *)
PersistUnchained(r) ==
  /\ pc[r] = "persist"
  /\ Writes(r)
  /\ UNCHANGED <<claim, old, table, edit, loaded, expected, attempts, spins,
                 salvaged, tabs, resetter, faults>>

PersistChained(r) ==
  /\ pc[r] = "persist"
  /\ IF canon # None /\ canon.seq = loaded[r].seq
     THEN Writes(r)
     ELSE GoTo(r, "probeChain") /\ UNCHANGED <<canon, again>>
  /\ UNCHANGED <<claim, old, table, edit, loaded, expected, attempts, spins,
                 salvaged, tabs, resetter, faults>>

ProbeChain(r) ==
  /\ pc[r] = "probeChain"
  /\ GoTo(r, IF canon = None THEN "seedChain" ELSE "check")
  /\ UNCHANGED <<options, table, work, tabs, resetter, faults>>

(* INSERT IGNORE of the next value where there is no row.                  *)
SeedChain(r) ==
  /\ pc[r] = "seedChain"
  /\ IF canon = None
     THEN Writes(r)
     ELSE /\ again' = [again EXCEPT ![r] = TRUE]
          /\ GoTo(r, IF again[r] THEN "check" ELSE "persist")
          /\ UNCHANGED canon
  /\ UNCHANGED <<claim, old, table, edit, loaded, expected, attempts, spins,
                 salvaged, tabs, resetter, faults>>

(* Never overwrite forward; wait for a predecessor; give up with a 503.    *)
CheckChain(r) ==
  /\ pc[r] = "check"
  /\ spins' = [spins EXCEPT ![r] = @ + 1]
  /\ again' = [again EXCEPT ![r] = FALSE]
  /\ GoTo(r, IF \/ canon # None /\ canon.seq >= loaded[r].seq + 1
                \/ spins[r] + 1 >= MaxSpins
             THEN "busy" ELSE "persist")
  /\ UNCHANGED <<options, table, edit, loaded, expected, attempts, salvaged,
                 tabs, resetter, faults>>

(* The announce row, last; its failure changes nothing for the proposer.   *)
Announce(r) ==
  /\ pc[r] = "announce"
  /\ \/ announced' = announced \cup {Merged(r)} /\ UNCHANGED faults
     \/ /\ FaultLeft /\ faults.lostRows < MaxLostRows
        /\ faults' = [faults EXCEPT !.lostRows = @ + 1]
        /\ UNCHANGED announced
  /\ GoTo(r, "applied")
  /\ UNCHANGED <<options, snapshot, parked, work, tabs, resetter>>

-----------------------------------------------------------------------------
(* reset_abandoned_room(): the rows, then forget_room_state().             *)

ResetRows ==
  /\ resetter = "idle" /\ ~RoomIsEmpty
  /\ FaultLeft /\ faults.resets < MaxResets
  /\ faults' = [faults EXCEPT !.resets = @ + 1]
  /\ snapshot' = FALSE /\ announced' = {} /\ parked' = {}
  /\ resetter' = "canon"
  /\ UNCHANGED <<options, pc, work, tabs>>

ForgetCanon ==
  /\ resetter = "canon"
  /\ canon' = None
  /\ resetter' = "claim"
  /\ UNCHANGED <<claim, old, table, pc, work, tabs, faults>>

ForgetClaim ==
  /\ resetter = "claim"
  /\ claim' = None /\ old' = TRUE
  /\ resetter' = "idle"
  /\ UNCHANGED <<canon, table, pc, work, tabs, faults>>

-----------------------------------------------------------------------------

(* What the process of request r does on its own.                          *)
Step(r) ==
  \/ Load(r) \/ LoadRows(r)
  \/ GenesisRow(r) \/ ClaimDelete(r) \/ ClaimInsert(r)
  \/ CanonDelete(r) \/ CanonInsert(r)
  \/ MergeSucceeds(r) \/ MergeVoids(r) \/ MergeParks(r) \/ MergeSalvages(r)
  \/ ReadClaim(r) \/ SwapClaim(r) \/ ProbeClaim(r) \/ SeedClaim(r)
  \/ PersistChained(r) \/ ProbeChain(r) \/ SeedChain(r) \/ CheckChain(r)
  \/ Announce(r) \/ Answer(r)

Reset == ResetRows \/ ForgetCanon \/ ForgetClaim

Next ==
  \/ \E r \in Reqs : Step(r)
  \/ \E r \in Reqs : GenesisRowLost(r)
  \/ \E r \in Reqs : Dies(r)
  \/ \E r \in Reqs, t \in Tabs : Send(r, t)
  \/ \E t \in Tabs : TimesOut(t)
  \/ Age
  \/ Reset

Spec == Init /\ [][Next]_vars

(* PHP runs until it answers, time passes, and a tab without an answer     *)
(* sends again.  No fault is obliged to happen.                            *)
FairSpec ==
  /\ Spec
  /\ \A r \in Reqs : WF_vars(Step(r))
  /\ \A t \in Tabs : WF_vars(\E r \in Reqs : Send(r, t))
  /\ WF_vars(Age)
  /\ WF_vars(ForgetCanon \/ ForgetClaim)

-----------------------------------------------------------------------------

Steps == {"idle", "load", "rows", "genesis", "claimDelete", "claimInsert",
          "canonDelete", "canonInsert", "merge", "claim", "swap", "probe",
          "seed", "persist", "probeChain", "seedChain", "check", "announce",
          "applied", "escalated", "voided", "busy"}

(* Types; a request at work carries a proposal.                            *)
TypeOK ==
  /\ canon \in Versions \cup {None}
  /\ claim \in Claims \cup {None}
  /\ old \in BOOLEAN /\ snapshot \in BOOLEAN
  /\ announced \subseteq Versions
  /\ parked \subseteq Tabs
  /\ pc \in [Reqs -> Steps]
  /\ edit \in [Reqs -> Tabs \cup {None}]
  /\ loaded \in [Reqs -> Versions]
  /\ expected \in [Reqs -> Claims \cup {None}]
  /\ again \in [Reqs -> BOOLEAN]
  /\ attempts \in [Reqs -> Nat]
  /\ spins \in [Reqs -> Nat]
  /\ salvaged \in [Reqs -> Nat]
  /\ waits \in [Tabs -> Reqs \cup {None}]
  /\ outcome \in [Tabs -> {"open", "applied", "escalated", "voided"}]
  /\ resetter \in {"idle", "canon", "claim"}
  /\ faults \in [deaths : Nat, timeouts : Nat, lostRows : Nat, resets : Nat]
  /\ \A r \in Reqs : pc[r] # "idle" => edit[r] \in Tabs

(* What an author was told is applied is in the canonical document, now    *)
(* and after every later commit: no writer that loaded an older version,   *)
(* slept, lost its claim or was healed away ever writes over it.           *)
AppliedSurvives ==
  \A t \in Tabs :
    outcome[t] = "applied" /\ canon # None => t \in canon.content

(* One lineage: no version number is announced with two contents, none     *)
(* ahead of the canonical document, and none that it does not contain.     *)
LineageIsOne ==
  /\ \A a, b \in announced : a.seq = b.seq => a = b
  /\ \A a \in announced : /\ canon # None
                          /\ a.seq <= canon.seq
                          /\ a.content \subseteq canon.content

(* The claim is at most one version ahead of the document; otherwise       *)
(* claim_version() refuses everybody for good, whatever its age.           *)
ClaimWithinReach ==
  canon # None /\ claim # None => claim.seq <= canon.seq + 1

(* A stored version is only ever followed by the next one: save_canonical  *)
(* "can only ever extend the chain", also while the room is created,       *)
(* rebuilt or reset by others.                                             *)
ChainExtendsByOne ==
  [][canon # None /\ canon' # None /\ canon' # canon
       => canon'.seq = canon.seq + 1]_vars

(* Every proposal is answered, although a request that claimed a version   *)
(* died before it wrote it.                                                *)
EveryProposalSettles == \A t \in Tabs : <>(outcome[t] # "open")

(* The versions the requests write are those of the abstract ledger.       *)
Ledger == INSTANCE VersionLedger WITH
            version  <- canon.seq,
            document <- canon.content,
            told     <- {t \in Tabs : outcome[t] = "applied"}

LedgerSpec == Ledger!Spec

=============================================================================
