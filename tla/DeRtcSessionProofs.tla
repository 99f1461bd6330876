------------------------- MODULE DeRtcSessionProofs -------------------------
(***************************************************************************)
(* What the server's merge makes of what the tabs declare: accepted text   *)
(* can leave the room only through a base that a tab did not write on.     *)
(* And the shape of the session's state, through every order of commits,   *)
(* polls and failures.                                                     *)
(***************************************************************************)
EXTENDS DeRtcSession, TLAPS

(* Recursion over numbers.                                                 *)
L == INSTANCE SelectionProofs

(* The chain is a sequence, whatever its versions hold.                    *)
ChainIsASequence == \E S : versions \in Seq(S)

(* A block of the room loses no text to a proposal that was written on top *)
(* of the base it is compared with, however the conflicts are decided.     *)
LEMMA MergeKeepsCanonical ==
  ASSUME NEW c, NEW base, NEW conflicts, NEW b \in Blocks,
         base[b] \subseteq c.doc[b]
  PROVE  Canonical[b] \subseteq Merged(c, base, conflicts)[b]
<1>1. CASE b \in conflicts
  BY <1>1 DEF Merged
<1>2. CASE b \notin conflicts
  <2>1. base[b] \ c.doc[b] = {}
    OBVIOUS
  <2>2. Merged(c, base, conflicts)[b] =
          (Canonical[b] \ (base[b] \ c.doc[b])) \cup (c.doc[b] \ base[b])
    BY <1>2 DEF Merged
  <2> QED
    BY <2>1, <2>2
<1> QED
  BY <1>1, <1>2

(* Only the acceptance of a commit changes the chain.                      *)
LEMMA OnlyAcceptExtends ==
  ASSUME [Next]_vars
  PROVE  UNCHANGED versions \/ \E c \in calls : Accept(c)
<1>1. CASE UNCHANGED vars
  BY <1>1 DEF vars
<1>2. ASSUME NEW t \in Tabs,
             \/ \E b \in Blocks : Edit(t, b)
             \/ Quiet(t) \/ QuietRetry(t) \/ CommitRetry(t)
             \/ Poll(t) \/ PollAnswered(t) \/ PollLost(t)
      PROVE  UNCHANGED versions
  BY <1>2 DEF Edit, Quiet, QuietRetry, CommitRetry, Poll, PollAnswered, PollLost
<1>3. ASSUME NEW c \in calls,
             ParkWhole(c) \/ Void(c) \/ CommitAnswered(c) \/ CommitLost(c)
      PROVE  UNCHANGED versions
  BY <1>3 DEF ParkWhole, Void, CommitAnswered, CommitLost
<1> QED
  BY <1>1, <1>2, <1>3 DEF Next

(* Every step leaves the chain a sequence of versions.                     *)
LEMMA StepKeepsSequence ==
  ASSUME ChainIsASequence, [Next]_vars
  PROVE  ChainIsASequence'
<1>1. CASE UNCHANGED versions
  BY <1>1 DEF ChainIsASequence
<1>2. ASSUME NEW c \in calls, Accept(c)
      PROVE  ChainIsASequence'
  <2>1. PICK v : versions' = Append(versions, v)
    BY <1>2 DEF Accept
  <2>2. PICK S : versions \in Seq(S)
    BY DEF ChainIsASequence
  <2>3. versions \in Seq(S \cup {v})
    BY <2>2
  <2>4. versions' \in Seq(S \cup {v})
    BY <2>1, <2>3
  <2> QED
    BY <2>4 DEF ChainIsASequence
<1> QED
  BY <1>1, <1>2, OnlyAcceptExtends

(* As long as bases are honest, no step takes text out of the newest       *)
(* version: only Accept makes one, and its merge keeps the canonical       *)
(* text.                                                                   *)
LEMMA StepKeepsWork ==
  ASSUME ChainIsASequence, HonestBases, [Next]_vars
  PROVE  [\A b \in Blocks : Canonical[b] \subseteq Canonical'[b]]_vars
<1>1. CASE UNCHANGED versions
  BY <1>1 DEF Canonical, Newest
<1>2. ASSUME NEW c \in calls, Accept(c), NEW b \in Blocks
      PROVE  Canonical[b] \subseteq Canonical'[b]
  <2>1. PICK resolved \in Resolvable :
          /\ c.base \in resolved
          /\ \E conflicts \in SUBSET Contended(c, EffectiveBase(c, resolved)) :
               versions' = Append(versions,
                 [doc |-> Merged(c, EffectiveBase(c, resolved), conflicts),
                  author |-> c.tab, id |-> c.id])
    BY <1>2 DEF Accept
  <2> DEFINE base == EffectiveBase(c, resolved)
  <2>2. PICK conflicts \in SUBSET Contended(c, base) :
          versions' = Append(versions,
            [doc |-> Merged(c, base, conflicts), author |-> c.tab, id |-> c.id])
    BY <2>1
  <2>3. base[b] \subseteq c.doc[b]
    BY <1>2, <2>1 DEF HonestBases, Accept
  <2>4. Canonical[b] \subseteq Merged(c, base, conflicts)[b]
    BY <2>3, MergeKeepsCanonical
  <2>5. Canonical' = Merged(c, base, conflicts)
    <3>1. PICK S : versions \in Seq(S)
      BY DEF ChainIsASequence
    <3> DEFINE v == [doc |-> Merged(c, base, conflicts),
                     author |-> c.tab, id |-> c.id]
    <3>2. versions' = Append(versions, v)
      BY <2>2
    <3>3. v.doc = Merged(c, base, conflicts)
      OBVIOUS
    <3> HIDE DEF v
    <3>4. Len(versions') = Len(versions) + 1 /\ versions'[Len(versions) + 1] = v
      BY <3>1, <3>2
    <3> QED
      BY <3>3, <3>4 DEF Canonical, Newest
  <2> QED
    BY <2>4, <2>5
<1> QED
  BY <1>1, <1>2, OnlyAcceptExtends

(* "Per-block base honesty" is all that the work accepted in the room      *)
(* rests on: with any number of tabs and blocks, any window and any faults *)
(* of commits and polls, accepted text only ever leaves the room through a *)
(* proposal that declares a base its text was not written on.              *)
THEOREM HonestBasesKeepWork == Spec /\ []HonestBases => AcceptedWorkStays
<1>1. Init => ChainIsASequence
  <2> SUFFICES ASSUME Init PROVE ChainIsASequence
    OBVIOUS
  <2> DEFINE v == [doc |-> Empty, author |-> "genesis", id |-> 0]
  <2>1. versions = <<v>>
    BY DEF Init
  <2>2. <<v>> \in Seq({v})
    OBVIOUS
  <2> QED
    BY <2>1, <2>2 DEF ChainIsASequence
<1>2. ChainIsASequence /\ [Next]_vars => ChainIsASequence'
  BY StepKeepsSequence
<1>3. /\ ChainIsASequence /\ HonestBases /\ [Next]_vars
      => [\A b \in Blocks : Canonical[b] \subseteq Canonical'[b]]_vars
  BY StepKeepsWork
<1> QED
  BY <1>1, <1>2, <1>3, PTL DEF Spec, AcceptedWorkStays

-----------------------------------------------------------------------------
(***************************************************************************)
(* What has which shape, and that every version a tab, a commit or a poll  *)
(* refers to exists.                                                       *)
(***************************************************************************)
Docs       == [Blocks -> SUBSET (Tabs \X Nat)]
VersionSet == [doc : Docs, author : Tabs \cup {"genesis"}, id : Nat]

(* The state of a tab when there are n versions.                           *)
TabSet(n) ==
  [doc : Docs, version : 1..n, bases : [Blocks -> 0..n], dirty : BOOLEAN,
   slot : Nat, made : Nat, proposed : Docs, pending : 0..n, behind : 0..(n + 1),
   fetching : 0..(n + 1), merging : 0..n, stash : 0..n, typing : BOOLEAN,
   retry : BOOLEAN, ask : 0..n, cursor : 1..n, typed : Nat]

Statuses == {"sent", "applied", "escalated", "voided"}

(* A commit, and a poll.                                                   *)
CallSet(n) ==
  [tab : Tabs, id : Nat, base : 1..n, bases : [Blocks -> 0..n], doc : Docs,
   at : 1..n, status : Statuses, upto : 0..n, awaited : BOOLEAN]
CallOK(c, n) == c \in CallSet(n) /\ (c.status # "sent" => c.upto \in 1..n)

PollSet(n)   == [have : 0..n, upto : 0..n, newest : 0..n]
PollOK(p, n) == p \in PollSet(n) /\ (p # NoPoll => p.upto \in 1..n)

SessionInv ==
  /\ versions \in Seq(VersionSet) /\ Newest >= 1
  /\ tab \in [Tabs -> TabSet(Newest)]
  /\ \A c \in calls : CallOK(c, Newest)
  /\ poll \in [Tabs -> PollSet(Newest)] /\ \A t \in Tabs : PollOK(poll[t], Newest)
  /\ SceneOK(left)

(* TypeOK is part of it.                                                   *)
LEMMA SessionIsTyped == SessionInv => TypeOK
<1> SUFFICES ASSUME SessionInv PROVE TypeOK OBVIOUS
<1> DEFINE n == Newest
<1>1. n \in Nat /\ n >= 1 BY DEF SessionInv, Newest
<1> HIDE DEF n
<1>2. \A s \in TabSet(n) :
        /\ {s.version, s.cursor} \subseteq 1..n
        /\ {s.pending, s.behind, s.fetching, s.merging, s.stash, s.ask} \subseteq 0..(n + 1)
        /\ \A b \in Blocks : s.bases[b] \in 0..n
  BY <1>1 DEF TabSet
<1>3. \A t \in Tabs : tab[t] \in TabSet(n) BY DEF SessionInv, n
<1>4. \A c \in calls : c.status = "sent" \/ c.upto \in 1..n BY DEF SessionInv, CallOK, n
<1> QED BY <1>1, <1>2, <1>3, <1>4 DEF TypeOK, SessionInv, n

(* More versions leave it so.                                              *)
LEMMA TabSetGrows ==
  ASSUME NEW n \in Nat, NEW s \in TabSet(n) PROVE s \in TabSet(n + 1)
  BY DEF TabSet

(* More versions leave a commit what it is.                                *)
LEMMA CallGrows ==
  ASSUME NEW n \in Nat, NEW c, CallOK(c, n) PROVE CallOK(c, n + 1)
  BY DEF CallOK, CallSet

(* More versions leave a poll what it is.                                  *)
LEMMA PollGrows ==
  ASSUME NEW n \in Nat, NEW p, PollOK(p, n) PROVE PollOK(p, n + 1)
  BY DEF PollOK, PollSet, NoPoll

(* The fields of a tab.                                                    *)
LEMMA Fields ==
  ASSUME NEW n \in Nat, NEW s \in TabSet(n)
  PROVE  /\ s.doc \in Docs /\ s.proposed \in Docs /\ s.bases \in [Blocks -> 0..n]
         /\ s.version \in 1..n /\ s.cursor \in 1..n
         /\ s.slot \in Nat /\ s.made \in Nat /\ s.typed \in Nat
         /\ s.pending \in 0..n /\ s.merging \in 0..n /\ s.stash \in 0..n
         /\ s.ask \in 0..n /\ s.behind \in 0..(n + 1) /\ s.fetching \in 0..(n + 1)
  BY DEF TabSet

(* A tab one of whose references is set to a version, or behindSeq to the  *)
(* one after the newest, is still one.                                     *)
LEMMA BehindTyped ==
  ASSUME NEW n \in Nat, NEW s \in TabSet(n), NEW x \in 0..(n + 1)
  PROVE  [s EXCEPT !.behind = x] \in TabSet(n)
  BY DEF TabSet

(* The fetch that was under way is over.                                   *)
LEMMA FetchedTyped ==
  ASSUME NEW n \in Nat, NEW s \in TabSet(n), NEW x \in 0..(n + 1)
  PROVE  [s EXCEPT !.fetching = 0, !.behind = x] \in TabSet(n)
<1> DEFINE y == 0
<1>1. y \in 0..(n + 1) OBVIOUS
<1> HIDE DEF y
<1>2. [s EXCEPT !.fetching = y, !.behind = x] \in TabSet(n) BY <1>1 DEF TabSet
<1> QED BY <1>2 DEF y

(* The slot is freed.                                                      *)
LEMMA FreeTyped ==
  ASSUME NEW n \in Nat, NEW s \in TabSet(n)
  PROVE  [s EXCEPT !.slot = 0] \in TabSet(n)
  BY DEF TabSet

(* The tab's own merge is waited for.                                      *)
LEMMA MergingTyped ==
  ASSUME NEW n \in Nat, NEW s \in TabSet(n), NEW v \in 0..n
  PROVE  [s EXCEPT !.merging = v] \in TabSet(n)
  BY DEF TabSet

(* A snapshot is deferred.                                                 *)
LEMMA PendingTyped ==
  ASSUME NEW n \in Nat, NEW s \in TabSet(n), NEW v \in 0..n
  PROVE  [s EXCEPT !.pending = v] \in TabSet(n)
  BY DEF TabSet

(* A snapshot is stashed.                                                  *)
LEMMA StashTyped ==
  ASSUME NEW n \in Nat, NEW s \in TabSet(n), NEW v \in 0..n
  PROVE  [s EXCEPT !.stash = v] \in TabSet(n)
  BY DEF TabSet

(* The snapshot of the tab's own merge has come.                           *)
LEMMA ClearTyped ==
  ASSUME NEW n \in Nat, NEW s \in TabSet(n)
  PROVE  [s EXCEPT !.merging = 0, !.pending = 0] \in TabSet(n)
<1> DEFINE y == 0
<1>1. y \in 0..n OBVIOUS
<1> HIDE DEF y
<1>2. [s EXCEPT !.merging = y, !.pending = y] \in TabSet(n) BY <1>1 DEF TabSet
<1> QED BY <1>2 DEF y

(* The steps of a session, one by one, leave the tab one.  A fetch asks    *)
(* after the tab's version.                                                *)
LEMMA FetchTyped ==
  ASSUME NEW n \in Nat, NEW s \in TabSet(n) PROVE MaybeFetch(s) \in TabSet(n)
<1>1. \A x \in 0..(n + 1), y \in 0..n : [s EXCEPT !.fetching = x, !.ask = y] \in TabSet(n)
  BY DEF TabSet
<1>2. s.behind \in 0..(n + 1) /\ s.version \in 0..n BY Fields
<1>3. [s EXCEPT !.fetching = s.behind, !.ask = s.version] \in TabSet(n) BY <1>1, <1>2
<1> QED BY <1>3 DEF MaybeFetch

(* A proposal takes the next number and the document.                      *)
LEMMA ProposeTyped ==
  ASSUME NEW n \in Nat, NEW s \in TabSet(n) PROVE MaybePropose(s) \in TabSet(n)
<1>1. \A m \in Nat, d \in Docs :
        [s EXCEPT !.dirty = FALSE, !.made = m, !.slot = m, !.proposed = d] \in TabSet(n)
  BY DEF TabSet
<1>2. s.made + 1 \in Nat /\ s.doc \in Docs BY Fields
<1>3. [s EXCEPT !.dirty = FALSE, !.made = @ + 1, !.slot = s.made + 1, !.proposed = s.doc]
        \in TabSet(n)
  BY <1>1, <1>2
<1> QED BY <1>3 DEF MaybePropose

(* bridge.advanceVersion() to a version that exists.                       *)
LEMMA AdvanceTyped ==
  ASSUME NEW n \in Nat, NEW s \in TabSet(n), NEW v \in 1..n PROVE Advance(s, v) \in TabSet(n)
<1>1. NoBases \in [Blocks -> 0..n] BY DEF NoBases
<1> QED BY <1>1 DEF TabSet, Advance

(* The document of a version is one.                                       *)
LEMMA VersionTyped ==
  ASSUME versions \in Seq(VersionSet), NEW v \in 1..Newest
  PROVE  Newest \in Nat /\ versions[v].doc \in Docs
<1>1. Len(versions) \in Nat /\ versions[v] \in VersionSet
  <2> HIDE DEF VersionSet
  <2> QED BY DEF Newest
<1>2. \A x \in VersionSet : x.doc \in Docs
  <2> HIDE DEF Docs
  <2> QED BY DEF VersionSet
<1> QED BY <1>1, <1>2 DEF Newest

(* bridge.applyCanonical() of a version that exists.                       *)
LEMMA ApplyTyped ==
  ASSUME versions \in Seq(VersionSet), NEW s \in TabSet(Newest), NEW v \in 1..Newest
  PROVE  Apply(s, v) \in TabSet(Newest)
<1>1. Newest \in Nat /\ versions[v].doc \in Docs BY VersionTyped
<1>2. NoBases \in [Blocks -> 0..Newest] BY <1>1 DEF NoBases
<1>3. \A d \in Docs, bs \in [Blocks -> 0..Newest] :
        [s EXCEPT !.doc = d, !.version = v, !.bases = bs] \in TabSet(Newest)
  BY <1>1 DEF TabSet
<1>4. [s EXCEPT !.doc = versions[v].doc, !.version = v, !.bases = NoBases] \in TabSet(Newest)
  BY <1>1, <1>2, <1>3
<1> QED BY <1>4 DEF Apply

(* A block that is kept declares a version the tab was at.                 *)
LEMMA IncorporateTyped ==
  ASSUME versions \in Seq(VersionSet), NEW s \in TabSet(Newest), NEW v \in 1..Newest
  PROVE  Incorporate(s, v) \in TabSet(Newest)
<1> DEFINE theirs    == versions[v].doc
           edited(b) == s.doc[b] # s.proposed[b]
           d  == [b \in Blocks |-> IF edited(b) THEN s.doc[b] ELSE theirs[b]]
           bs == [b \in Blocks |->
                   IF ~edited(b) THEN 0
                   ELSE IF theirs[b] # s.proposed[b] /\ s.bases[b] = 0 THEN s.version
                   ELSE s.bases[b]]
<1>1. Newest \in Nat /\ theirs \in Docs BY VersionTyped
<1>2. s.doc \in Docs /\ s.bases \in [Blocks -> 0..Newest] /\ s.version \in 1..Newest BY DEF TabSet
<1>3. d \in Docs BY <1>1, <1>2 DEF Docs
<1>4. bs \in [Blocks -> 0..Newest] BY <1>1, <1>2
<1>5. Incorporate(s, v) = IF v <= s.version THEN s ELSE [s EXCEPT !.version = v, !.doc = d, !.bases = bs]
  BY DEF Incorporate
<1> HIDE DEF d, bs
<1> QED BY <1>1, <1>3, <1>4, <1>5 DEF TabSet

(* The proposal, the deferred snapshot or the fetch that was waiting.      *)
LEMMA SettleTyped ==
  ASSUME versions \in Seq(VersionSet), NEW s \in TabSet(Newest)
  PROVE  SettleQueued(s) \in TabSet(Newest)
<1> DEFINE c == [s EXCEPT !.pending = 0]
<1>1. Newest \in Nat BY DEF Newest
<1>s. s.pending \in 0..Newest BY <1>1, Fields
<1>c. c \in TabSet(Newest) BY <1>1, PendingTyped
<1>2. c \in TabSet(Newest) /\ s.pending \in 0..Newest BY <1>s, <1>c
<1>3. s.pending # 0 => Apply(c, s.pending) \in TabSet(Newest) BY <1>1, <1>2, ApplyTyped
<1> HIDE DEF c
<1>4. SettleQueued(s) = IF s.dirty THEN MaybePropose(s) ELSE IF s.slot # 0 THEN s
                        ELSE MaybeFetch(IF s.pending = 0 THEN s ELSE Apply(c, s.pending))
  BY DEF SettleQueued, c
<1> QED BY <1>1, <1>3, <1>4, FetchTyped, ProposeTyped

(* An announcement of somebody else.                                       *)
LEMMA NoteTyped ==
  ASSUME NEW n \in Nat, NEW s \in TabSet(n), NEW v \in 1..n PROVE NoteAnnounced(s, v) \in TabSet(n)
<1> DEFINE c == [s EXCEPT !.behind = IF v > s.version /\ v > @ THEN v ELSE @]
<1>1. c \in TabSet(n)
  <2>1. \A x \in 0..(n + 1) : [s EXCEPT !.behind = x] \in TabSet(n) BY BehindTyped
  <2>2. (IF v > s.version /\ v > s.behind THEN v ELSE s.behind) \in 0..(n + 1) BY Fields
  <2> QED BY <2>1, <2>2
<1> HIDE DEF c
<1> QED BY <1>1, FetchTyped DEF NoteAnnounced, c

(* Any announcement.                                                       *)
LEMMA AnnouncedTyped ==
  ASSUME versions \in Seq(VersionSet), NEW t, NEW s \in TabSet(Newest), NEW v \in 1..Newest
  PROVE  Announced(t, s, v) \in TabSet(Newest)
<1> DEFINE free   == [s EXCEPT !.slot = 0]
           merges == [free EXCEPT !.merging = v]
           clear  == [free EXCEPT !.pending = 0]
           passed == Advance(clear, v)
           after  == [passed EXCEPT !.behind = IF v >= @ THEN 0 ELSE @]
<1>1. Newest \in Nat BY DEF Newest
<1>2. free \in TabSet(Newest) BY <1>1, FreeTyped
<1> HIDE DEF free
<1>3. merges \in TabSet(Newest) /\ clear \in TabSet(Newest)
  <2>1. merges \in TabSet(Newest) BY <1>1, <1>2, MergingTyped
  <2>2. clear \in TabSet(Newest) BY <1>1, <1>2, PendingTyped
  <2> QED BY <2>1, <2>2
<1>4. passed \in TabSet(Newest) BY <1>1, <1>3, AdvanceTyped
<1> HIDE DEF passed
<1>5. after \in TabSet(Newest)
  <2>1. \A x \in 0..(Newest + 1) : [passed EXCEPT !.behind = x] \in TabSet(Newest)
    BY <1>1, <1>4, BehindTyped
  <2>2. (IF v >= passed.behind THEN 0 ELSE passed.behind) \in 0..(Newest + 1)
    BY <1>1, <1>4, Fields
  <2> QED BY <2>1, <2>2
<1>6. Announced(t, s, v) \in {NoteAnnounced(s, v), SettleQueued(after), NoteAnnounced(merges, v)}
  BY Zenon DEF Announced, passed, free
<1> HIDE DEF merges, clear, after
<1> QED BY <1>1, <1>3, <1>5, <1>6, NoteTyped, SettleTyped

(* A snapshot that is stashed, deferred, applied or incorporated.          *)
LEMMA SnapshotTyped ==
  ASSUME versions \in Seq(VersionSet), NEW s \in TabSet(Newest), NEW v \in 1..Newest
  PROVE  Snapshot(s, v) \in TabSet(Newest)
<1> DEFINE got   == [s EXCEPT !.fetching = 0, !.behind = IF v >= @ THEN 0 ELSE @]
           later == [got EXCEPT !.pending = v]
           clear == [got EXCEPT !.merging = 0, !.pending = 0]
           now   == IF got.dirty \/ got.slot # 0 THEN later ELSE Apply(got, v)
           stash == [s EXCEPT !.stash = v]
<1>1. Newest \in Nat BY DEF Newest
<1>2. got \in TabSet(Newest) /\ stash \in TabSet(Newest)
  <2>1. \A x \in 0..(Newest + 1) : [s EXCEPT !.fetching = 0, !.behind = x] \in TabSet(Newest)
    BY <1>1, FetchedTyped
  <2>2. (IF v >= s.behind THEN 0 ELSE s.behind) \in 0..(Newest + 1) BY <1>1, Fields
  <2>3. got \in TabSet(Newest) BY <2>1, <2>2
  <2>4. stash \in TabSet(Newest) BY <1>1, StashTyped
  <2> QED BY <2>3, <2>4
<1> HIDE DEF got
<1>3. later \in TabSet(Newest) /\ clear \in TabSet(Newest)
  <2>1. later \in TabSet(Newest) BY <1>1, <1>2, PendingTyped
  <2>2. clear \in TabSet(Newest) BY <1>1, <1>2, ClearTyped
  <2> QED BY <2>1, <2>2
<1> HIDE DEF later, clear, stash
<1>4. now \in TabSet(Newest) BY <1>2, <1>3, ApplyTyped
<1>5. Snapshot(s, v) \in {stash, SettleQueued(Incorporate(clear, v)), SettleQueued(now), now}
  BY Zenon DEF Snapshot, got, later, clear, stash
<1> HIDE DEF now
<1> QED BY <1>2, <1>3, <1>4, <1>5, IncorporateTyped, SettleTyped

(* The announcements of a response.                                        *)
LEMMA RowsTyped ==
  ASSUME versions \in Seq(VersionSet), NEW t, NEW s \in TabSet(Newest),
         NEW from \in 1..Newest, NEW upto \in 0..Newest
  PROVE  Rows(t, s, from, upto) \in TabSet(Newest)
<1> DEFINE R == TabSet(Newest)
           m == upto - from
           step == [p \in R \X Nat |-> IF p[2] \in 1..m THEN Announced(t, p[1], from + p[2]) ELSE p[1]]
           Is(g) == g = [n \in from..upto |-> IF n = from THEN s ELSE Announced(t, g[n - 1], n)]
           h == CHOOSE g : Is(g)
<1>1. CASE upto <= from BY <1>1 DEF Rows
<1>2. CASE ~(upto <= from)
  <2>0. m \in Nat /\ Newest \in Nat BY <1>2 DEF Newest
  <2>a. \A r \in R, k \in 1..m : Announced(t, r, from + k) \in R
    <3> SUFFICES ASSUME NEW r \in R, NEW k \in 1..m PROVE Announced(t, r, from + k) \in R OBVIOUS
    <3>1. from + k \in 1..Newest BY <2>0
    <3> QED BY <3>1, AnnouncedTyped
  <2> HIDE DEF R
  <2>1. step \in [R \X Nat -> R] BY <2>a
  <2>2. \A r \in R, k \in 1..m : step[<<r, k>>] = Announced(t, r, from + k) BY <2>0
  <2>3. s \in R BY DEF R
  <2> HIDE DEF step, m
  <2>4. PICK f : L!Iterates(f, R, s, step, m) BY <2>0, <2>1, <2>3, L!Recursion
  <2>5. f \in [0..m -> R] /\ f[0] = s /\ \A k \in 1..m : f[k] = step[<<f[k - 1], k>>] BY <2>4 DEF L!Iterates
  <2>6. \A k \in 1..m : f[k] = Announced(t, f[k - 1], from + k)
    <3> SUFFICES ASSUME NEW k \in 1..m PROVE f[k] = Announced(t, f[k - 1], from + k) OBVIOUS
    <3>1. k - 1 \in 0..m BY <2>0
    <3>2. f[k - 1] \in R BY <3>1, <2>5
    <3> QED BY <3>2, <2>5, <2>2
  <2> DEFINE g == [n \in from..upto |-> f[n - from]]
  <2>7. Is(g)
    <3>1. ASSUME NEW n \in from..upto
          PROVE  g[n] = IF n = from THEN s ELSE Announced(t, g[n - 1], n)
      <4>1. CASE n = from
        <5>1. n - from = 0 BY <4>1
        <5> QED BY <5>1, <4>1, <2>5
      <4>2. CASE n # from
        <5>1. n - from \in 1..m /\ n - 1 \in from..upto /\ (n - from) - 1 = (n - 1) - from
              /\ from + (n - from) = n
          BY <4>2, <2>0 DEF m
        <5>2. g[n] = f[n - from] /\ g[n - 1] = f[(n - from) - 1] BY <5>1
        <5>3. f[n - from] = Announced(t, f[(n - from) - 1], from + (n - from)) BY <5>1, <2>6
        <5> HIDE DEF g
        <5> QED BY <5>1, <5>2, <5>3, <4>2
      <4> QED BY <4>1, <4>2
    <3> QED BY <3>1
  <2> HIDE DEF g
  <2>8. Is(h) BY <2>7, Zenon
  <2>9. Rows(t, s, from, upto) = h[upto] BY <1>2, Zenon DEF Rows
  <2> HIDE DEF h
  <2>10. \A n \in from..upto : h[n] = IF n = from THEN s ELSE Announced(t, h[n - 1], n)
    BY <2>8, Zenon
  <2> DEFINE H == [k \in 0..m |-> h[from + k]]
  <2>11. H[0] = f[0]
    <3>1. from + 0 = from /\ from \in from..upto /\ 0 \in 0..m BY <2>0, <1>2 DEF m
    <3> QED BY <3>1, <2>10, <2>5
  <2>12. ASSUME NEW k \in 1..m, H[k - 1] = f[k - 1] PROVE H[k] = f[k]
    <3>1. k \in 0..m /\ k - 1 \in 0..m /\ from + k \in from..upto /\ from + k # from
          /\ from + (k - 1) = (from + k) - 1
      BY <2>0 DEF m
    <3>2. H[k] = h[from + k] /\ H[k - 1] = h[(from + k) - 1] BY <3>1
    <3>3. h[from + k] = Announced(t, h[(from + k) - 1], from + k) BY <3>1, <2>10
    <3> HIDE DEF H
    <3> QED BY <3>2, <3>3, <2>12, <2>6
  <2> HIDE DEF H
  <2>13. \A k \in 0..m : H[k] = f[k]
    <3>1. \A k \in 1..m : f[k - 1] = H[k - 1] => f[k] = H[k] BY <2>12
    <3>2. m \in Nat BY <2>0
    <3>3. H[0] = f[0] BY <2>11
    <3> HIDE DEF R, Is
    <3>4. \A k \in 0..m : f[k] = H[k]
      <4> DEFINE S == {k \in 0..m : f[k] = H[k]}
      <4>1. 0 \in S BY <3>2, <3>3
      <4>2. ASSUME NEW k \in S, k < m PROVE k + 1 \in S
        <5>1. k + 1 \in 1..m /\ k + 1 \in 0..m /\ (k + 1) - 1 = k BY <3>2, <4>2
        <5>2. f[k] = H[k] OBVIOUS
        <5>3. f[k + 1] = H[k + 1] BY <3>1, <5>1, <5>2
        <5> QED BY <5>1, <5>3
      <4>3. S = 0..m
        <5> S \in SUBSET (0..m) OBVIOUS
        <5> HIDE DEF S
        <5> QED BY <3>2, <4>1, <4>2, L!UpTo
      <4> QED BY <4>3
    <3> QED BY <3>4
  <2>14. m \in 0..m /\ from + m = upto BY <2>0 DEF m
  <2>15. h[upto] = f[m] BY <2>13, <2>14 DEF H
  <2>16. f[m] \in R BY <2>5, <2>14
  <2> QED BY <2>9, <2>15, <2>16 DEF R
<1> QED BY <1>1, <1>2

(* A disposition; a voided one asks for one version more.                  *)
LEMMA DisposedTyped ==
  ASSUME versions \in Seq(VersionSet), NEW s \in TabSet(Newest), NEW id, NEW status
  PROVE  Disposed(s, id, status) \in TabSet(Newest)
<1> DEFINE back == [s EXCEPT !.fetching = 0,
                             !.behind = IF @ > s.version THEN @ ELSE s.version + 1]
           told == IF status # "voided" THEN s ELSE back
           free == [told EXCEPT !.slot = 0]
<1>1. Newest \in Nat BY DEF Newest
<1>2. back \in TabSet(Newest)
  <2>1. \A x \in 0..(Newest + 1) : [s EXCEPT !.fetching = 0, !.behind = x] \in TabSet(Newest)
    BY <1>1, FetchedTyped
  <2>2. (IF s.behind > s.version THEN s.behind ELSE s.version + 1) \in 0..(Newest + 1)
    BY <1>1, Fields
  <2> QED BY <2>1, <2>2
<1> HIDE DEF back
<1>3. told \in TabSet(Newest) BY <1>2
<1> HIDE DEF told
<1>4. free \in TabSet(Newest) BY <1>1, <1>3, FreeTyped
<1>5. Disposed(s, id, status) \in {SettleQueued(free), MaybeFetch(told), told}
  BY Zenon DEF Disposed, told, back
<1> HIDE DEF free
<1> QED BY <1>1, <1>3, <1>4, <1>5, FetchTyped, SettleTyped

(* The initial state.                                                      *)
LEMMA InitSession == Init => SessionInv
<1> SUFFICES ASSUME Init PROVE SessionInv OBVIOUS
<1> DEFINE v == [doc |-> Empty, author |-> "genesis", id |-> 0]
<1>1. Empty \in Docs BY DEF Empty, Docs
<1>2. v \in VersionSet BY <1>1 DEF VersionSet
<1>3. versions = <<v>> BY DEF Init
<1> HIDE DEF v
<1>4. versions \in Seq(VersionSet) /\ Newest = 1 BY <1>2, <1>3 DEF Newest
<1>5. NoBases \in [Blocks -> 0..1] BY DEF NoBases
<1> DEFINE s == [doc |-> Empty, version |-> 1, bases |-> NoBases, dirty |-> FALSE,
                 slot |-> 0, made |-> 0, proposed |-> Empty, pending |-> 0, behind |-> 0,
                 fetching |-> 0, merging |-> 0, stash |-> 0, typing |-> FALSE,
                 retry |-> FALSE, ask |-> 0, cursor |-> 1, typed |-> 0]
<1>6. s \in TabSet(1) BY <1>1, <1>5 DEF TabSet
<1>7. tab = [t \in Tabs |-> s] BY DEF Init
<1> HIDE DEF s
<1>8. tab \in [Tabs -> TabSet(Newest)] BY <1>4, <1>6, <1>7
<1>9. NoPoll \in PollSet(1) BY DEF NoPoll, PollSet
<1>10. poll = [t \in Tabs |-> NoPoll] BY DEF Init
<1>11. poll \in [Tabs -> PollSet(Newest)] /\ \A t \in Tabs : PollOK(poll[t], Newest)
  BY <1>4, <1>9, <1>10 DEF PollOK
<1>12. calls = {} /\ left \in Scenes BY DEF Init
<1>13. SceneOK(left) BY <1>12, ScenesAssumption
<1> QED BY <1>4, <1>8, <1>11, <1>12, <1>13 DEF SessionInv

(* The chain stays as it is, and with it what the versions are.            *)
LEMMA SameChain ==
  ASSUME SessionInv, versions' = versions
  PROVE  /\ Newest' = Newest /\ Newest \in Nat /\ Newest >= 1
         /\ versions' \in Seq(VersionSet) /\ Newest' >= 1
  BY DEF SessionInv, Newest

(* A tab that moves on, and the proposal it makes on the way.              *)
LEMMA MovesTyped ==
  ASSUME SessionInv, versions' = versions, NEW t \in Tabs, NEW s \in TabSet(Newest),
         NEW answered, Moves(t, s, answered)
  PROVE  /\ tab' \in [Tabs -> TabSet(Newest')]
         /\ \A c \in calls' : CallOK(c, Newest')
<1> DEFINE n == Newest
           made == [tab |-> t, id |-> s.made, base |-> s.version, bases |-> s.bases,
                    doc |-> s.proposed, at |-> n, status |-> "sent", upto |-> 0,
                    awaited |-> TRUE]
<1>1. n \in Nat /\ n >= 1 /\ Newest' = n BY SameChain
<1>2. tab \in [Tabs -> TabSet(n)] /\ \A c \in calls : CallOK(c, n) BY DEF SessionInv
<1>3. tab' = [tab EXCEPT ![t] = s] BY DEF Moves
<1>4. calls' \subseteq calls \cup {made} BY DEF Moves
<1>5. s \in TabSet(n) OBVIOUS
<1> HIDE DEF n
<1>6. s.made \in Nat /\ s.version \in 1..n /\ s.bases \in [Blocks -> 0..n] /\ s.proposed \in Docs
  BY <1>1, <1>5, Fields
<1>7. made \in CallSet(n) /\ made.status = "sent" BY <1>1, <1>6 DEF CallSet, Statuses
<1> HIDE DEF made
<1>8. CallOK(made, n) BY <1>7 DEF CallOK
<1>9. tab' \in [Tabs -> TabSet(n)] BY <1>2, <1>3, <1>5
<1> QED BY <1>1, <1>2, <1>4, <1>8, <1>9

(* The bounds of the scene go down only where they are positive.           *)
LEMMA SceneSpends ==
  ASSUME SceneOK(left)
  PROVE  /\ \A t \in Tabs : left.edits[t] > 0 => SceneOK([left EXCEPT !.edits[t] = @ - 1])
         /\ left.failures > 0 => SceneOK([left EXCEPT !.failures = @ - 1])
         /\ left.losses > 0 => SceneOK([left EXCEPT !.losses = @ - 1])
<1>1. left.edits \in [Tabs -> Nat] /\ left.failures \in Nat /\ left.losses \in Nat BY DEF SceneOK
<1>2. ASSUME NEW t \in Tabs, left.edits[t] > 0 PROVE SceneOK([left EXCEPT !.edits[t] = @ - 1])
  <2>1. left.edits[t] - 1 \in Nat BY <1>1, <1>2
  <2>2. [left.edits EXCEPT ![t] = @ - 1] \in [Tabs -> Nat] BY <1>1, <2>1
  <2> QED BY <2>2 DEF SceneOK
<1>3. ASSUME left.failures > 0 PROVE SceneOK([left EXCEPT !.failures = @ - 1])
  BY <1>1, <1>3 DEF SceneOK
<1>4. ASSUME left.losses > 0 PROVE SceneOK([left EXCEPT !.losses = @ - 1])
  BY <1>1, <1>4 DEF SceneOK
<1> QED BY <1>2, <1>3, <1>4

(* A keystroke.                                                            *)
LEMMA EditTyped ==
  ASSUME SessionInv, NEW t \in Tabs, NEW b \in Blocks, Edit(t, b) PROVE SessionInv'
<1> DEFINE s == tab[t]
           n == Newest
           d == [s.doc EXCEPT ![b] = @ \cup {<<t, s.typed + 1>>}]
           e == [s EXCEPT !.doc[b] = @ \cup {<<t, s.typed + 1>>},
                          !.typed = @ + 1, !.typing = TRUE, !.dirty = TRUE]
<1>1. versions' = versions /\ poll' = poll /\ left.edits[t] > 0
      /\ left' = [left EXCEPT !.edits[t] = @ - 1] /\ Moves(t, MaybePropose(e), {})
  BY DEF Edit
<1>2. n \in Nat /\ n >= 1 /\ Newest' = n /\ versions' \in Seq(VersionSet) BY <1>1, SameChain
<1>3. s \in TabSet(n) BY DEF SessionInv
<1> HIDE DEF s, n
<1>4. s.doc \in Docs /\ s.typed \in Nat BY <1>2, <1>3, Fields
<1>5. <<t, s.typed + 1>> \in Tabs \X Nat BY <1>4
<1>6. d \in Docs
  <2> DEFINE k == <<t, s.typed + 1>>
  <2>1. k \in Tabs \X Nat BY <1>5
  <2> HIDE DEF k
  <2>2. [s.doc EXCEPT ![b] = @ \cup {k}] \in Docs BY <1>4, <2>1 DEF Docs
  <2> QED BY <2>2 DEF k
<1>7. e = [s EXCEPT !.doc = d, !.typed = s.typed + 1, !.typing = TRUE, !.dirty = TRUE]
  BY <1>3 DEF TabSet
<1> HIDE DEF d, e
<1>8. e \in TabSet(n)
  <2> DEFINE k == s.typed + 1
             x == TRUE
  <2>1. k \in Nat /\ x \in BOOLEAN BY <1>4
  <2>2. e = [s EXCEPT !.doc = d, !.typed = k, !.typing = x, !.dirty = x] BY <1>7
  <2> HIDE DEF k, x
  <2>3. [s EXCEPT !.doc = d, !.typed = k, !.typing = x, !.dirty = x] \in TabSet(n)
    BY <1>2, <1>3, <1>6, <2>1 DEF TabSet
  <2> QED BY <2>2, <2>3
<1>9. MaybePropose(e) \in TabSet(Newest) BY <1>2, <1>8, ProposeTyped DEF n
<1>10. tab' \in [Tabs -> TabSet(Newest')] /\ \A c \in calls' : CallOK(c, Newest')
  BY <1>1, <1>9, MovesTyped
<1>11. SceneOK(left') BY <1>1, SceneSpends DEF SessionInv
<1> QED BY <1>1, <1>2, <1>10, <1>11 DEF SessionInv, n

(* The end of a burst of keystrokes, and the timer of a failed commit.     *)
LEMMA QuietTyped ==
  ASSUME SessionInv, NEW t \in Tabs, Quiet(t) PROVE SessionInv'
<1> DEFINE n == Newest
<1>1. versions' = versions /\ poll' = poll /\ calls' = calls /\ left' = left
      /\ tab' = [tab EXCEPT ![t].typing = FALSE]
  BY DEF Quiet
<1>2. n \in Nat /\ n >= 1 /\ Newest' = n /\ versions' \in Seq(VersionSet) BY <1>1, SameChain
<1>3. tab \in [Tabs -> TabSet(n)] BY DEF SessionInv
<1> HIDE DEF n
<1>4. \A s \in TabSet(n), x \in BOOLEAN : [s EXCEPT !.typing = x] \in TabSet(n) BY DEF TabSet
<1>5. [tab[t] EXCEPT !.typing = FALSE] \in TabSet(n) BY <1>3, <1>4
<1>6. tab' \in [Tabs -> TabSet(n)] BY <1>1, <1>3, <1>5
<1> QED BY <1>1, <1>2, <1>6 DEF SessionInv, n

(* The stashed snapshot is looked at again.                                *)
LEMMA QuietRetryTyped ==
  ASSUME SessionInv, NEW t \in Tabs, QuietRetry(t) PROVE SessionInv'
<1> DEFINE s == tab[t]
           n == Newest
           e == [s EXCEPT !.stash = 0]
<1>1. versions' = versions /\ poll' = poll /\ left' = left /\ s.stash # 0
      /\ Moves(t, Snapshot(e, s.stash), {})
  BY DEF QuietRetry
<1>2. n \in Nat /\ n >= 1 /\ Newest' = n /\ versions' \in Seq(VersionSet) BY <1>1, SameChain
<1>3. s \in TabSet(n) BY DEF SessionInv
<1> HIDE DEF s, n
<1>4. e \in TabSet(n) /\ s.stash \in 1..n BY <1>1, <1>2, <1>3, StashTyped, Fields, SMTT(30)
<1> HIDE DEF e
<1>5. Snapshot(e, s.stash) \in TabSet(Newest) BY <1>4, SnapshotTyped DEF n, SessionInv
<1>6. tab' \in [Tabs -> TabSet(Newest')] /\ \A c \in calls' : CallOK(c, Newest')
  BY <1>1, <1>5, MovesTyped
<1> QED BY <1>1, <1>2, <1>6 DEF SessionInv, n

(* The timer of a failed commit.                                           *)
LEMMA CommitRetryTyped ==
  ASSUME SessionInv, NEW t \in Tabs, CommitRetry(t) PROVE SessionInv'
<1> DEFINE s == tab[t]
           n == Newest
           e == [s EXCEPT !.retry = FALSE, !.dirty = TRUE]
<1>1. versions' = versions /\ poll' = poll /\ left' = left /\ Moves(t, MaybePropose(e), {})
  BY DEF CommitRetry
<1>2. n \in Nat /\ n >= 1 /\ Newest' = n /\ versions' \in Seq(VersionSet) BY <1>1, SameChain
<1>3. s \in TabSet(n) BY DEF SessionInv
<1> HIDE DEF s, n
<1>4. e \in TabSet(n)
  <2>1. \A x, y \in BOOLEAN : [s EXCEPT !.retry = x, !.dirty = y] \in TabSet(n) BY <1>3 DEF TabSet
  <2> QED BY <2>1
<1> HIDE DEF e
<1>5. MaybePropose(e) \in TabSet(Newest) BY <1>2, <1>4, ProposeTyped DEF n
<1>6. tab' \in [Tabs -> TabSet(Newest')] /\ \A c \in calls' : CallOK(c, Newest')
  BY <1>1, <1>5, MovesTyped
<1> QED BY <1>1, <1>2, <1>6 DEF SessionInv, n

-----------------------------------------------------------------------------
(* The commit lane.                                                        *)

(* More versions leave the tabs, the commits and the polls as they are.    *)
LEMMA ChainGrows ==
  ASSUME SessionInv, NEW v \in VersionSet, versions' = Append(versions, v)
  PROVE  /\ Newest \in Nat /\ Newest >= 1 /\ Newest' = Newest + 1
         /\ versions' \in Seq(VersionSet)
         /\ tab \in [Tabs -> TabSet(Newest')]
         /\ \A c \in calls : CallOK(c, Newest')
         /\ poll \in [Tabs -> PollSet(Newest')] /\ \A t \in Tabs : PollOK(poll[t], Newest')
<1> DEFINE n == Newest
<1>1. versions \in Seq(VersionSet) /\ n >= 1 BY DEF SessionInv
<1>2. n \in Nat /\ Newest' = n + 1 /\ versions' \in Seq(VersionSet)
  <2> HIDE DEF VersionSet
  <2> QED BY <1>1 DEF Newest
<1>3. /\ tab \in [Tabs -> TabSet(n)] /\ \A c \in calls : CallOK(c, n)
      /\ poll \in [Tabs -> PollSet(n)] /\ \A t \in Tabs : PollOK(poll[t], n)
  BY DEF SessionInv
<1> HIDE DEF n
<1>4. \A s \in TabSet(n) : s \in TabSet(n + 1) BY <1>2, TabSetGrows
<1>5. tab \in [Tabs -> TabSet(n + 1)] BY <1>3, <1>4
<1>6. \A c \in calls : CallOK(c, n + 1) BY <1>2, <1>3, CallGrows
<1>7. \A t \in Tabs : PollOK(poll[t], n + 1) BY <1>2, <1>3, PollGrows
<1>8. \A t \in Tabs : poll[t] \in PollSet(n + 1) BY <1>7 DEF PollOK
<1>9. poll \in [Tabs -> PollSet(n + 1)] BY <1>3, <1>8
<1> QED BY <1>1, <1>2, <1>5, <1>6, <1>7, <1>9 DEF n

(* A commit that is answered, about versions that exist.                   *)
LEMMA AnsweredTyped ==
  ASSUME NEW n \in Nat, NEW c \in calls, \A d \in calls : CallOK(d, n),
         NEW status \in Statuses, NEW upto \in 1..n, Answered(c, status, upto)
  PROVE  \A d \in calls' : CallOK(d, n)
<1> DEFINE e == [c EXCEPT !.status = status, !.upto = upto]
<1>1. c \in CallSet(n) BY DEF CallOK
<1>2. upto \in 0..n OBVIOUS
<1>3. e \in CallSet(n) BY <1>1, <1>2 DEF CallSet
<1>4. e.upto = upto BY <1>1 DEF CallSet
<1>5. CallOK(e, n) BY <1>3, <1>4 DEF CallOK
<1>6. calls' \subseteq calls \cup {e} BY DEF Answered
<1> QED BY <1>5, <1>6

(* The document that is merged holds edits of the room's and the           *)
(* proposal's.                                                             *)
LEMMA MergedTyped ==
  ASSUME SessionInv, NEW c, c.doc \in Docs, NEW base, NEW conflicts
  PROVE  Merged(c, base, conflicts) \in Docs
<1>1. versions \in Seq(VersionSet) /\ Newest >= 1 BY DEF SessionInv
<1>2. Newest \in 1..Newest
  <2>1. Newest \in Nat BY <1>1 DEF Newest
  <2> QED BY <1>1, <2>1
<1>3. Canonical \in Docs BY <1>1, <1>2, VersionTyped DEF Canonical
<1>4. ASSUME NEW b \in Blocks
      PROVE  (IF b \in conflicts THEN Canonical[b]
              ELSE (Canonical[b] \ (base[b] \ c.doc[b])) \cup (c.doc[b] \ base[b]))
             \in SUBSET (Tabs \X Nat)
  BY <1>3 DEF Docs
<1> QED BY <1>4 DEF Merged, Docs

(* A commit makes a version, and its answer refers to it.                  *)
LEMMA AcceptTyped ==
  ASSUME SessionInv, NEW c \in calls, Accept(c) PROVE SessionInv'
<1> DEFINE n == Newest
<1>1. PICK base, conflicts :
        versions' = Append(versions, [doc |-> Merged(c, base, conflicts),
                                      author |-> c.tab, id |-> c.id])
  BY Zenon DEF Accept
<1> DEFINE v == [doc |-> Merged(c, base, conflicts), author |-> c.tab, id |-> c.id]
<1>2. Answered(c, "applied", n + 1) /\ tab' = tab /\ poll' = poll /\ left' = left
  BY DEF Accept
<1>3. c.doc \in Docs /\ c.tab \in Tabs /\ c.id \in Nat BY DEF SessionInv, CallOK, CallSet
<1>4. Merged(c, base, conflicts) \in Docs BY <1>3, MergedTyped
<1>5. v \in VersionSet /\ versions' = Append(versions, v) BY <1>1, <1>3, <1>4 DEF VersionSet
<1> HIDE DEF v, n
<1>6. /\ n \in Nat /\ n >= 1 /\ Newest' = n + 1 /\ versions' \in Seq(VersionSet)
      /\ tab \in [Tabs -> TabSet(n + 1)] /\ \A d \in calls : CallOK(d, n + 1)
      /\ poll \in [Tabs -> PollSet(n + 1)] /\ \A t \in Tabs : PollOK(poll[t], n + 1)
  BY <1>5, ChainGrows DEF n
<1>7. \A d \in calls' : CallOK(d, n + 1)
  <2>1. n + 1 \in Nat /\ n + 1 \in 1..(n + 1) /\ "applied" \in Statuses BY <1>6 DEF Statuses
  <2> QED BY <1>2, <1>6, <2>1, AnsweredTyped
<1>8. SceneOK(left) BY DEF SessionInv
<1> QED BY <1>2, <1>6, <1>7, <1>8 DEF SessionInv

(* A proposal that is parked or voided leaves the chain as it is.          *)
LEMMA RefusedTyped ==
  ASSUME SessionInv, NEW c \in calls, ParkWhole(c) \/ Void(c) PROVE SessionInv'
<1> DEFINE n == Newest
<1>1. /\ versions' = versions /\ tab' = tab /\ poll' = poll /\ left' = left
      /\ Answered(c, "escalated", n) \/ Answered(c, "voided", n)
  BY DEF ParkWhole, Void
<1>2. n \in Nat /\ n >= 1 /\ Newest' = n /\ versions' \in Seq(VersionSet) BY <1>1, SameChain
<1>3. \A d \in calls : CallOK(d, n) BY DEF SessionInv
<1> HIDE DEF n
<1>4. n \in 1..n /\ "escalated" \in Statuses /\ "voided" \in Statuses BY <1>2 DEF Statuses
<1>5. \A d \in calls' : CallOK(d, n) BY <1>1, <1>2, <1>3, <1>4, AnsweredTyped
<1> QED BY <1>1, <1>2, <1>5 DEF SessionInv, n

(* The answer of a commit brings rows up to some version, and frees it.    *)
LEMMA CommitAnsweredTyped ==
  ASSUME SessionInv, NEW c \in calls, CommitAnswered(c) PROVE SessionInv'
<1> DEFINE n == Newest
           t == c.tab
<1>1. /\ versions' = versions /\ poll' = poll /\ left' = left /\ c.status # "sent"
  BY DEF CommitAnswered
<1>2. n \in Nat /\ n >= 1 /\ Newest' = n /\ versions' \in Seq(VersionSet) BY <1>1, SameChain
<1>3. /\ c \in CallSet(n) /\ c.upto \in 1..n /\ versions \in Seq(VersionSet)
      /\ tab \in [Tabs -> TabSet(n)]
  BY <1>1 DEF SessionInv, CallOK
<1>4. t \in Tabs /\ c.at \in 1..n BY <1>3 DEF CallSet
<1>5. PICK from \in c.at..(IF c.status = "applied" THEN c.upto - 1 ELSE c.upto),
           upto \in c.upto..Newest :
        Moves(t, Disposed(Rows(t, tab[t], from, upto), c.id, c.status), {c})
  BY DEF CommitAnswered
<1> DEFINE s == Rows(t, tab[t], from, upto)
<1>6. from \in 1..Newest /\ upto \in 0..Newest
  <2>1. from \in 1..n /\ upto \in 0..n
    <3> upto \in c.upto..n OBVIOUS
    <3> HIDE DEF n
    <3> QED BY <1>2, <1>3, <1>4
  <2> QED BY <2>1
<1> HIDE DEF t
<1>7. s \in TabSet(Newest) BY <1>3, <1>4, <1>6, RowsTyped
<1> HIDE DEF s
<1>8. Disposed(s, c.id, c.status) \in TabSet(Newest) BY <1>3, <1>7, DisposedTyped
<1>9. Moves(t, Disposed(s, c.id, c.status), {c}) BY <1>5 DEF s
<1>10. tab' \in [Tabs -> TabSet(Newest')] /\ \A d \in calls' : CallOK(d, Newest')
  BY <1>1, <1>4, <1>8, <1>9, MovesTyped
<1> QED BY <1>1, <1>2, <1>10 DEF SessionInv

(* A commit fails.                                                         *)
LEMMA CommitLostTyped ==
  ASSUME SessionInv, NEW c \in calls, CommitLost(c) PROVE SessionInv'
<1> DEFINE n == Newest
           t == c.tab
           e == [tab[t] EXCEPT !.slot = 0, !.retry = TRUE]
           d == [c EXCEPT !.awaited = FALSE]
<1>1. /\ versions' = versions /\ poll' = poll /\ left.failures > 0
      /\ left' = [left EXCEPT !.failures = @ - 1]
      /\ tab' = [tab EXCEPT ![t].slot = 0, ![t].retry = TRUE]
      /\ calls' \subseteq calls \cup {d}
  BY DEF CommitLost
<1>2. n \in Nat /\ n >= 1 /\ Newest' = n /\ versions' \in Seq(VersionSet) BY <1>1, SameChain
<1>3. /\ c \in CallSet(n) /\ (c.status # "sent" => c.upto \in 1..n)
      /\ tab \in [Tabs -> TabSet(n)] /\ \A x \in calls : CallOK(x, n)
  BY DEF SessionInv, CallOK
<1> HIDE DEF n
<1>4. t \in Tabs BY <1>3 DEF CallSet
<1> HIDE DEF t
<1>5. tab[t] \in TabSet(n) BY <1>3, <1>4
<1>6. e \in TabSet(n)
  <2> DEFINE x == TRUE
             y == 0
  <2>1. x \in BOOLEAN /\ y \in Nat OBVIOUS
  <2> HIDE DEF x, y
  <2>2. [tab[t] EXCEPT !.slot = y, !.retry = x] \in TabSet(n) BY <1>5, <2>1 DEF TabSet
  <2> QED BY <2>2 DEF x, y
<1>7. tab' = [tab EXCEPT ![t] = e] BY <1>1, <1>3, <1>4
<1> HIDE DEF e
<1>8. tab' \in [Tabs -> TabSet(n)] BY <1>3, <1>6, <1>7
<1>9. d \in CallSet(n) /\ d.status = c.status /\ d.upto = c.upto BY <1>3 DEF CallSet
<1> HIDE DEF d
<1>10. CallOK(d, n) BY <1>3, <1>9 DEF CallOK
<1>11. \A x \in calls' : CallOK(x, n) BY <1>1, <1>3, <1>10
<1>12. SceneOK(left') BY <1>1, SceneSpends DEF SessionInv
<1> QED BY <1>1, <1>2, <1>8, <1>11, <1>12 DEF SessionInv, n

-----------------------------------------------------------------------------
(* The poll lane.                                                          *)

(* A poll takes the fetch along and the newest version with it.            *)
LEMMA PollTyped ==
  ASSUME SessionInv, NEW t \in Tabs, Poll(t) PROVE SessionInv'
<1> DEFINE n == Newest
           s == tab[t]
           p == [have |-> s.ask, upto |-> n,
                 newest |-> IF s.ask # 0 /\ n > s.ask THEN n ELSE 0]
           e == [s EXCEPT !.ask = 0]
<1>1. /\ versions' = versions /\ calls' = calls /\ left' = left
      /\ poll' = [poll EXCEPT ![t] = p] /\ tab' = [tab EXCEPT ![t].ask = 0]
  BY DEF Poll
<1>2. n \in Nat /\ n >= 1 /\ Newest' = n /\ versions' \in Seq(VersionSet) BY <1>1, SameChain
<1>3. /\ tab \in [Tabs -> TabSet(n)] /\ poll \in [Tabs -> PollSet(n)]
      /\ \A u \in Tabs : PollOK(poll[u], n)
  BY DEF SessionInv
<1> HIDE DEF n
<1>4. s \in TabSet(n) BY <1>3
<1>5. s.ask \in 0..n BY <1>2, <1>4, Fields
<1>6. p \in PollSet(n) /\ p.upto \in 1..n BY <1>2, <1>5 DEF PollSet
<1>7. e \in TabSet(n)
  <2>1. \A x \in 0..n : [s EXCEPT !.ask = x] \in TabSet(n) BY <1>2, <1>4 DEF TabSet
  <2>2. 0 \in 0..n BY <1>2
  <2> QED BY <2>1, <2>2
<1>8. tab' = [tab EXCEPT ![t] = e] BY <1>1, <1>3
<1> HIDE DEF p, e
<1>9. tab' \in [Tabs -> TabSet(n)] BY <1>3, <1>7, <1>8
<1>10. poll' \in [Tabs -> PollSet(n)] /\ \A u \in Tabs : PollOK(poll'[u], n)
  BY <1>1, <1>3, <1>6 DEF PollOK
<1> QED BY <1>1, <1>2, <1>9, <1>10 DEF SessionInv, n

(* A poll that is over.                                                    *)
LEMMA PollOver ==
  ASSUME SessionInv, versions' = versions, NEW t \in Tabs, poll' = [poll EXCEPT ![t] = NoPoll]
  PROVE  poll' \in [Tabs -> PollSet(Newest')] /\ \A u \in Tabs : PollOK(poll'[u], Newest')
<1> DEFINE n == Newest
<1>1. n \in Nat /\ Newest' = n BY SameChain
<1>2. poll \in [Tabs -> PollSet(n)] /\ \A u \in Tabs : PollOK(poll[u], n) BY DEF SessionInv
<1> HIDE DEF n
<1>3. NoPoll \in PollSet(n) BY <1>1 DEF NoPoll, PollSet
<1>4. poll' \in [Tabs -> PollSet(n)] BY <1>2, <1>3
<1>5. \A u \in Tabs : PollOK(poll'[u], n) BY <1>2, <1>3 DEF PollOK
<1> QED BY <1>1, <1>4, <1>5

(* The answer of a poll: rows, and a snapshot if one was asked for.        *)
LEMMA PollAnsweredTyped ==
  ASSUME SessionInv, NEW t \in Tabs, PollAnswered(t) PROVE SessionInv'
<1> DEFINE n    == Newest
           p    == poll[t]
           seen == Rows(t, tab[t], tab[t].cursor, p.upto)
           all  == IF p.newest = 0 THEN seen ELSE Snapshot(seen, p.newest)
           e    == [all EXCEPT !.cursor = p.upto]
<1>1. /\ versions' = versions /\ left' = left /\ p # NoPoll
      /\ Moves(t, e, {}) /\ poll' = [poll EXCEPT ![t] = NoPoll]
  BY DEF PollAnswered
<1>2. n \in Nat /\ n >= 1 /\ Newest' = n /\ versions' \in Seq(VersionSet) BY <1>1, SameChain
<1>3. /\ tab[t] \in TabSet(n) /\ p \in PollSet(n) /\ p.upto \in 1..n
      /\ versions \in Seq(VersionSet)
  BY <1>1 DEF SessionInv, PollOK
<1>4. tab[t].cursor \in 1..n
  <2> HIDE DEF n
  <2> QED BY <1>2, <1>3, Fields
<1>5. p.newest \in 0..n BY <1>3 DEF PollSet
<1>6. p.newest # 0 => p.newest \in 1..n
  <2> HIDE DEF n, p
  <2> QED BY <1>2, <1>5
<1>7. p.upto \in 0..n
  <2> HIDE DEF n, p
  <2> QED BY <1>2, <1>3
<1>8. seen \in TabSet(Newest) BY <1>3, <1>4, <1>7, RowsTyped
<1> HIDE DEF seen
<1>9. all \in TabSet(Newest) BY <1>3, <1>6, <1>8, SnapshotTyped
<1> HIDE DEF all
<1>10. e \in TabSet(Newest)
  <2> DEFINE x == p.upto
  <2>1. x \in 1..n BY <1>3
  <2> HIDE DEF x
  <2>2. [all EXCEPT !.cursor = x] \in TabSet(n) BY <1>2, <1>9, <2>1 DEF TabSet
  <2> QED BY <2>2 DEF x
<1> HIDE DEF e
<1>11. tab' \in [Tabs -> TabSet(Newest')] /\ \A c \in calls' : CallOK(c, Newest')
  BY <1>1, <1>10, MovesTyped
<1>12. poll' \in [Tabs -> PollSet(Newest')] /\ \A u \in Tabs : PollOK(poll'[u], Newest')
  BY <1>1, PollOver
<1>13. SceneOK(left) BY DEF SessionInv
<1> QED BY <1>1, <1>2, <1>11, <1>12, <1>13 DEF SessionInv

(* A poll fails, and its fetch is queued again.                            *)
LEMMA PollLostTyped ==
  ASSUME SessionInv, NEW t \in Tabs, PollLost(t) PROVE SessionInv'
<1> DEFINE n == Newest
           s == tab[t]
           x == IF s.ask = 0 THEN poll[t].have ELSE s.ask
           e == [s EXCEPT !.ask = x]
<1>1. /\ versions' = versions /\ calls' = calls /\ left.losses > 0
      /\ left' = [left EXCEPT !.losses = @ - 1]
      /\ poll' = [poll EXCEPT ![t] = NoPoll]
      /\ tab' = [tab EXCEPT ![t].ask = IF @ = 0 THEN poll[t].have ELSE @]
  BY DEF PollLost
<1>2. n \in Nat /\ n >= 1 /\ Newest' = n /\ versions' \in Seq(VersionSet) BY <1>1, SameChain
<1>3. tab \in [Tabs -> TabSet(n)] /\ poll[t] \in PollSet(n) BY DEF SessionInv
<1>4. poll' \in [Tabs -> PollSet(Newest')] /\ \A u \in Tabs : PollOK(poll'[u], Newest')
  BY <1>1, PollOver
<1> HIDE DEF n
<1>5. s \in TabSet(n) BY <1>3
<1>6. s.ask \in 0..n /\ poll[t].have \in 0..n BY <1>2, <1>3, <1>5, Fields DEF PollSet
<1>7. x \in 0..n BY <1>6
<1>8. tab' = [tab EXCEPT ![t] = e] BY <1>1, <1>3
<1> HIDE DEF x
<1>9. e \in TabSet(n) BY <1>2, <1>5, <1>7 DEF TabSet
<1> HIDE DEF e
<1>10. tab' \in [Tabs -> TabSet(n)] BY <1>3, <1>8, <1>9
<1>11. SceneOK(left') BY <1>1, SceneSpends DEF SessionInv
<1>12. \A c \in calls' : CallOK(c, n) BY <1>1 DEF SessionInv, n
<1> QED BY <1>1, <1>2, <1>4, <1>10, <1>11, <1>12 DEF SessionInv

-----------------------------------------------------------------------------

(* Every step keeps the invariant.                                         *)
LEMMA StepSession == SessionInv /\ [Next]_vars => SessionInv'
<1> SUFFICES ASSUME SessionInv, [Next]_vars PROVE SessionInv' OBVIOUS
<1>1. CASE UNCHANGED vars
  <2>1. /\ versions' = versions /\ tab' = tab /\ calls' = calls /\ poll' = poll /\ left' = left
    BY <1>1 DEF vars
  <2> QED BY <2>1, SameChain DEF SessionInv
<1>2. CASE Next
  <2>1. ASSUME NEW t \in Tabs, NEW b \in Blocks, Edit(t, b) PROVE SessionInv'
    BY <2>1, EditTyped
  <2>2. ASSUME NEW t \in Tabs, Quiet(t) \/ QuietRetry(t) \/ CommitRetry(t) PROVE SessionInv'
    BY <2>2, QuietTyped, QuietRetryTyped, CommitRetryTyped
  <2>3. ASSUME NEW t \in Tabs, Poll(t) \/ PollAnswered(t) \/ PollLost(t) PROVE SessionInv'
    BY <2>3, PollTyped, PollAnsweredTyped, PollLostTyped
  <2>4. ASSUME NEW c \in calls, Accept(c) \/ ParkWhole(c) \/ Void(c) PROVE SessionInv'
    BY <2>4, AcceptTyped, RefusedTyped
  <2>5. ASSUME NEW c \in calls, CommitAnswered(c) \/ CommitLost(c) PROVE SessionInv'
    BY <2>5, CommitAnsweredTyped, CommitLostTyped
  <2> QED BY <1>2, <2>1, <2>2, <2>3, <2>4, <2>5 DEF Next
<1> QED BY <1>1, <1>2

(* Whatever the tabs type, stash, defer and ask for, in every order of     *)
(* commits and polls and of their failures, every version a tab refers to  *)
(* exists, and its behindSeq and its fetch are at most one past the newest.*)
THEOREM Typed == Spec => []TypeOK
<1>1. Init => SessionInv BY InitSession
<1>2. SessionInv /\ [Next]_vars => SessionInv' BY StepSession
<1>3. SessionInv => TypeOK BY SessionIsTyped
<1> QED BY <1>1, <1>2, <1>3, PTL DEF Spec

=============================================================================
