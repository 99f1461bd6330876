-------------------------- MODULE DeRtcChainProofs --------------------------
(***************************************************************************)
(* The safety of the de-rtc commit chain for every number of tabs,         *)
(* requests, rounds, stamps and faults.  In a room that exists and is not  *)
(* reset, the chained swap of the canonical row alone carries it: the      *)
(* claim, its age and its takeovers may do what they like.                 *)
(***************************************************************************)
EXTENDS DeRtcChain, TLAPS

(* A stamp that is written is one of the stamps.                           *)
LEMMA FreshClaimType ==
  ASSUME NEW n \in Nat, WriteFreshClaim(n)
  PROVE  claim' \in Claims /\ claim'.seq = n /\ old' \in BOOLEAN
<1>1. PICK s \in FreshStamps : WriteClaim([seq |-> n, stamp |-> s])
  BY DEF WriteFreshClaim
<1>2. s \in 0..MaxStamp
  BY BoundsAssumption DEF FreshStamps
<1> QED
  BY <1>1, <1>2 DEF WriteClaim, Claims

(* What a request writes is a version.                                     *)
LEMMA MergedType ==
  ASSUME TypeOK, NEW r \in Reqs, pc[r] # "idle"
  PROVE  /\ Merged(r) \in Versions
         /\ Merged(r).seq = loaded[r].seq + 1
         /\ Merged(r).content = loaded[r].content \cup {edit[r]}
BY DEF TypeOK, Merged, Versions

(* The versions a room starts from.                                        *)
LEMMA GenesisType == /\ Genesis \in Versions /\ Unresolved \in Versions
                     /\ \A n \in Nat : Seed(n) \in Claims
BY BoundsAssumption DEF Genesis, Unresolved, Seed, Versions, Claims

(* Every room, existing or not, starts well typed.                         *)
LEMMA InitTypeOK == Init => TypeOK
BY GenesisType, BoundsAssumption DEF Init, TypeOK, Steps

(* A lost attempt keeps the request in its types.                          *)
LEMMA NextAttemptType ==
  ASSUME TypeOK, NEW r \in Reqs, pc[r] # "idle", NextAttempt(r)
  PROVE  /\ pc' \in [Reqs -> Steps]
         /\ attempts' \in [Reqs -> Nat]
         /\ expected' \in [Reqs -> Claims \cup {None}]
         /\ again' \in [Reqs -> BOOLEAN]
         /\ \A q \in Reqs : pc'[q] # "idle" => edit[q] \in Tabs
BY DEF NextAttempt, GoTo, TypeOK, Steps

(* So does the release of its slot.                                        *)
LEMMA FreesType ==
  ASSUME TypeOK, NEW r \in Reqs, Frees(r)
  PROVE  /\ pc' \in [Reqs -> Steps]
         /\ edit' \in [Reqs -> Tabs \cup {None}]
         /\ loaded' \in [Reqs -> Versions]
         /\ expected' \in [Reqs -> Claims \cup {None}]
         /\ again' \in [Reqs -> BOOLEAN]
         /\ attempts' \in [Reqs -> Nat]
         /\ spins' \in [Reqs -> Nat]
         /\ salvaged' \in [Reqs -> Nat]
         /\ waits' \in [Tabs -> Reqs \cup {None}]
         /\ \A q \in Reqs : pc'[q] # "idle" => edit'[q] \in Tabs
BY GenesisType DEF Frees, GoTo, TypeOK, Steps

(* Every step keeps the variables in their types.                          *)
LEMMA TypeStep == TypeOK /\ [Next]_vars => TypeOK'
<1> SUFFICES ASSUME TypeOK, [Next]_vars PROVE TypeOK'
  OBVIOUS
<1> USE DEF options, table, work, tabs
<1>1. ASSUME NEW r \in Reqs, NEW t \in Tabs, Send(r, t) PROVE TypeOK'
  BY <1>1 DEF Send, GoTo, TypeOK, Steps
<1>2. ASSUME NEW t \in Tabs, TimesOut(t) PROVE TypeOK'
  BY <1>2 DEF TimesOut, TypeOK
<1>3. ASSUME NEW r \in Reqs, Answer(r) PROVE TypeOK'
  <2>1. outcome' \in [Tabs -> {"open", "applied", "escalated", "voided"}]
    BY <1>3 DEF Answer, TypeOK
  <2> QED
    BY <1>3, <2>1, FreesType DEF Answer, TypeOK
<1>4. ASSUME NEW r \in Reqs, Dies(r) PROVE TypeOK'
  <2>1. faults' \in [deaths : Nat, timeouts : Nat, lostRows : Nat,
                     resets : Nat]
    BY <1>4 DEF Dies, TypeOK
  <2> QED
    BY <1>4, <2>1, FreesType DEF Dies, TypeOK
<1>5. ASSUME NEW r \in Reqs, Load(r) PROVE TypeOK'
  BY <1>5 DEF Load, GoTo, TypeOK, Steps
<1>6. ASSUME NEW r \in Reqs, LoadRows(r) PROVE TypeOK'
  BY <1>6, GenesisType DEF LoadRows, GoTo, TypeOK, Steps
<1>7. ASSUME NEW r \in Reqs, GenesisRow(r) PROVE TypeOK'
  BY <1>7 DEF GenesisRow, GoTo, TypeOK, Steps
<1>8. ASSUME NEW r \in Reqs, GenesisRowLost(r) PROVE TypeOK'
  BY <1>8 DEF GenesisRowLost, GoTo, TypeOK, Steps
<1>9. ASSUME NEW r \in Reqs, ClaimDelete(r) PROVE TypeOK'
  BY <1>9 DEF ClaimDelete, GoTo, TypeOK, Steps
<1>10. ASSUME NEW r \in Reqs, ClaimInsert(r) PROVE TypeOK'
  <2>1. claim' \in Claims \cup {None} /\ old' \in BOOLEAN
    BY <1>10, FreshClaimType DEF ClaimInsert, TypeOK
  <2> QED
    BY <1>10, <2>1 DEF ClaimInsert, GoTo, TypeOK, Steps
<1>11. ASSUME NEW r \in Reqs, CanonDelete(r) PROVE TypeOK'
  BY <1>11 DEF CanonDelete, GoTo, TypeOK, Steps
<1>12. ASSUME NEW r \in Reqs, CanonInsert(r) PROVE TypeOK'
  BY <1>12, GenesisType DEF CanonInsert, GoTo, TypeOK, Steps
<1>13. ASSUME NEW r \in Reqs, MergeSucceeds(r) \/ MergeVoids(r)
       PROVE  TypeOK'
  BY <1>13 DEF MergeSucceeds, MergeVoids, GoTo, TypeOK, Steps
<1>14. ASSUME NEW r \in Reqs, MergeParks(r) PROVE TypeOK'
  <2>1. parked' \subseteq Tabs
    BY <1>14 DEF MergeParks, MayConflict, ParkRow, TypeOK
  <2>2. faults' \in [deaths : Nat, timeouts : Nat, lostRows : Nat,
                     resets : Nat]
    BY <1>14 DEF MergeParks, ParkRow, TypeOK
  <2> QED
    BY <1>14, <2>1, <2>2 DEF MergeParks, MayConflict, GoTo, TypeOK, Steps
<1>15. ASSUME NEW r \in Reqs, MergeSalvages(r) PROVE TypeOK'
  <2>1. parked' \subseteq Tabs
    BY <1>15 DEF MergeSalvages, MayConflict, ParkRow, TypeOK
  <2>2. faults' \in [deaths : Nat, timeouts : Nat, lostRows : Nat,
                     resets : Nat]
    BY <1>15 DEF MergeSalvages, ParkRow, TypeOK
  <2>3. salvaged' \in [Reqs -> Nat]
    BY <1>15 DEF MergeSalvages, TypeOK, Versions
  <2>4. pc[r] # "idle"
    BY <1>15 DEF MergeSalvages, MayConflict
  <2> QED
    BY <1>15, <2>1, <2>2, <2>3, <2>4, NextAttemptType
       DEF MergeSalvages, TypeOK
<1>16. ASSUME NEW r \in Reqs, ReadClaim(r) PROVE TypeOK'
  <2>1. CASE claim = None \/ Claimable(r)
    <3>1. loaded[r].seq \in Nat
      BY DEF TypeOK, Versions
    <3>2. expected' \in [Reqs -> Claims \cup {None}]
      BY <1>16, <2>1, <3>1, GenesisType DEF ReadClaim, TypeOK
    <3> QED
      BY <1>16, <2>1, <3>2 DEF ReadClaim, GoTo, TypeOK, Steps
  <2>2. CASE ~(claim = None \/ Claimable(r))
    BY <1>16, <2>2, NextAttemptType DEF ReadClaim, TypeOK
  <2> QED
    BY <2>1, <2>2
<1>17. ASSUME NEW r \in Reqs, SwapClaim(r) PROVE TypeOK'
  <2>1. CASE claim # None /\ claim = expected[r]
    <3>1. loaded[r].seq + 1 \in Nat
      BY DEF TypeOK, Versions
    <3>2. claim' \in Claims /\ old' \in BOOLEAN
      BY <1>17, <2>1, <3>1, FreshClaimType DEF SwapClaim
    <3> QED
      BY <1>17, <2>1, <3>2 DEF SwapClaim, GoTo, TypeOK, Steps
  <2>2. CASE ~(claim # None /\ claim = expected[r])
    BY <1>17, <2>2 DEF SwapClaim, GoTo, TypeOK, Steps
  <2> QED
    BY <2>1, <2>2
<1>18. ASSUME NEW r \in Reqs, ProbeClaim(r) PROVE TypeOK'
  <2>1. CASE claim = None
    BY <1>18, <2>1 DEF ProbeClaim, GoTo, TypeOK, Steps
  <2>2. CASE claim # None
    BY <1>18, <2>2, NextAttemptType DEF ProbeClaim, TypeOK
  <2> QED
    BY <2>1, <2>2
<1>19. ASSUME NEW r \in Reqs, SeedClaim(r) PROVE TypeOK'
  <2>1. claim' \in Claims \cup {None} /\ old' \in BOOLEAN
    BY <1>19, ZenonT(60) DEF SeedClaim, WriteClaim, TypeOK
  <2>2. CASE again[r]
    BY <1>19, <2>1, <2>2, NextAttemptType DEF SeedClaim, TypeOK
  <2>3. CASE ~again[r]
    BY <1>19, <2>1, <2>3 DEF SeedClaim, GoTo, TypeOK, Steps
  <2> QED
    BY <2>2, <2>3
<1>20. ASSUME NEW r \in Reqs, PersistChained(r) PROVE TypeOK'
  <2>1. Merged(r) \in Versions
    BY <1>20, MergedType DEF PersistChained
  <2> QED
    BY <1>20, <2>1 DEF PersistChained, Writes, GoTo, TypeOK, Steps
<1>21. ASSUME NEW r \in Reqs, ProbeChain(r) PROVE TypeOK'
  BY <1>21 DEF ProbeChain, GoTo, TypeOK, Steps
<1>22. ASSUME NEW r \in Reqs, SeedChain(r) PROVE TypeOK'
  <2>1. Merged(r) \in Versions
    BY <1>22, MergedType DEF SeedChain
  <2> QED
    BY <1>22, <2>1, ZenonT(60) DEF SeedChain, Writes, GoTo, TypeOK, Steps
<1>23. ASSUME NEW r \in Reqs, CheckChain(r) PROVE TypeOK'
  BY <1>23 DEF CheckChain, GoTo, TypeOK, Steps
<1>24. ASSUME NEW r \in Reqs, Announce(r) PROVE TypeOK'
  <2>1. Merged(r) \in Versions
    BY <1>24, MergedType DEF Announce
  <2>2. announced' \subseteq Versions
    BY <1>24, <2>1 DEF Announce, TypeOK
  <2> QED
    BY <1>24, <2>2 DEF Announce, GoTo, TypeOK, Steps
<1>25. CASE Age
  BY <1>25 DEF Age, TypeOK
<1>26. CASE Reset
  <2>1. CASE ResetRows
    <3>1. faults' \in [deaths : Nat, timeouts : Nat, lostRows : Nat,
                       resets : Nat]
      BY <2>1 DEF ResetRows, TypeOK
    <3> QED
      BY <2>1, <3>1 DEF ResetRows, TypeOK
  <2>2. CASE ForgetCanon
    BY <2>2 DEF ForgetCanon, TypeOK
  <2>3. CASE ForgetClaim
    BY <2>3 DEF ForgetClaim, TypeOK
  <2> QED
    BY <1>26, <2>1, <2>2, <2>3 DEF Reset
<1>27. CASE UNCHANGED vars
  BY <1>27 DEF vars, TypeOK
<1> QED
  BY <1>1, <1>2, <1>3, <1>4, <1>5, <1>6, <1>7, <1>8, <1>9, <1>10, <1>11,
     <1>12, <1>13, <1>14, <1>15, <1>16, <1>17, <1>18, <1>19, <1>20, <1>21,
     <1>22, <1>23, <1>24, <1>25, <1>26, <1>27
     DEF Next, Step

(* The variables keep their types, and a request at work carries a         *)
(* proposal, whatever races, dies, is lost or is reset.                    *)
THEOREM TypeCorrect == Spec => []TypeOK
BY InitTypeOK, TypeStep, PTL DEF Spec

-----------------------------------------------------------------------------
(* A room that exists and is not reset keeps its option rows, and no       *)
(* request takes the paths for missing ones.                               *)

RoomKept == RoomExists /\ MaxResets = 0

Creating == {"rows", "genesis", "claimDelete", "claimInsert", "canonDelete",
             "canonInsert", "seed", "seedChain"}

Calm == /\ canon \in Versions /\ claim \in Claims
        /\ resetter = "idle" /\ faults.resets = 0
        /\ \A r \in Reqs : pc[r] \notin Creating

(* A tab waits only while it is without an answer, and for the request     *)
(* that carries its own proposal.                                          *)
WaitsForItsOwn ==
  \A t \in Tabs : \A r \in Reqs :
    waits[t] = r => edit[r] = t /\ pc[r] # "idle" /\ outcome[t] = "open"

Holding == {"merge", "claim", "swap", "probe", "persist", "probeChain",
            "check"}

Told == {t \in Tabs : outcome[t] = "applied"}

(* The versions announced, and those about to be.                          *)
Pending == announced \cup
             {Merged(r) : r \in {q \in Reqs : pc[q] = "announce"}}

(* r overwrites the very version it loaded.                                *)
Extends(r) == /\ pc[r] = "persist" /\ loaded[r].seq = canon.seq
              /\ canon' = Merged(r)

(* All that a step can do to the document, to what was told and to what    *)
(* the requests hold.                                                      *)
Move ==
  /\ \/ canon' = canon /\ Told' = Told
     \/ \E r \in Reqs : Extends(r) /\ Told' = Told
     \/ \E r \in Reqs : /\ pc[r] = "applied" /\ canon' = canon
                        /\ Told' = Told \cup {edit[r]}
  /\ \A q \in Reqs : pc'[q] \in Holding =>
       \/ pc[q] \in Holding /\ loaded'[q] = loaded[q]
       \/ loaded'[q] = canon /\ canon' = canon
  /\ \A q \in Reqs : pc'[q] = "announce" =>
       /\ loaded'[q] = loaded[q] /\ edit'[q] = edit[q]
       /\ pc[q] = "announce" \/ Extends(q)
  /\ \A q \in Reqs : pc'[q] = "applied" =>
       pc[q] \in {"announce", "applied"} /\ edit'[q] = edit[q]
  /\ announced' \subseteq Pending
  /\ \/ claim' = claim
     \/ \E q \in Reqs : /\ pc[q] = "swap" /\ canon' = canon
                        /\ claim'.seq = loaded[q].seq + 1

(* A lost attempt touches nothing but the request's own progress.          *)
LEMMA NextAttemptMoves ==
  ASSUME TypeOK, NEW r \in Reqs, NextAttempt(r)
  PROVE  /\ pc'[r] \in {"load", "busy"}
         /\ \A q \in Reqs : q # r => pc'[q] = pc[q]
BY DEF NextAttempt, GoTo, TypeOK

(* The release of a slot ends the wait for it, and touches no other.       *)
LEMMA FreesMoves ==
  ASSUME TypeOK, NEW r \in Reqs, Frees(r)
  PROVE  /\ pc'[r] = "idle"
         /\ \A q \in Reqs : q # r => /\ pc'[q] = pc[q] /\ edit'[q] = edit[q]
                                     /\ loaded'[q] = loaded[q]
         /\ \A t \in Tabs : \A q \in Reqs :
              waits'[t] = q => waits[t] = q /\ q # r
BY NoneAssumption DEF Frees, GoTo, TypeOK

(* A step of one request that reaches neither "announce" nor "applied" and *)
(* leaves the shared rows alone.                                           *)
Quiet(r) ==
  /\ UNCHANGED <<canon, claim, announced, outcome, waits, edit, resetter>>
  /\ faults'.resets = faults.resets
  /\ \A q \in Reqs : q # r => pc'[q] = pc[q] /\ loaded'[q] = loaded[q]
  /\ pc[r] # "idle"
  /\ pc'[r] \notin Creating \cup {"idle", "announce", "applied"}
  /\ pc'[r] \in Holding => \/ pc[r] \in Holding /\ loaded'[r] = loaded[r]
                           \/ loaded'[r] = canon

(* A step that writes nothing the others read is a move.                   *)
LEMMA QuietMoves ==
  ASSUME TypeOK, Calm, WaitsForItsOwn, NEW r \in Reqs, Quiet(r)
  PROVE  Calm' /\ WaitsForItsOwn' /\ Move
<1>1. Calm'
  BY DEF Quiet, Calm
<1>2. WaitsForItsOwn'
  BY DEF Quiet, WaitsForItsOwn
<1>3. canon' = canon /\ Told' = Told
  BY DEF Quiet, Told
<1>4. ASSUME NEW q \in Reqs, pc'[q] \in Holding
      PROVE  \/ pc[q] \in Holding /\ loaded'[q] = loaded[q]
             \/ loaded'[q] = canon /\ canon' = canon
  BY <1>4 DEF Quiet
<1>5. ASSUME NEW q \in Reqs, pc'[q] \in {"announce", "applied"}
      PROVE  pc'[q] = pc[q] /\ loaded'[q] = loaded[q] /\ edit'[q] = edit[q]
  BY <1>5 DEF Quiet
<1>6. announced' \subseteq Pending
  BY DEF Quiet, Pending
<1> QED
  BY <1>1, <1>2, <1>3, <1>4, <1>5, <1>6 DEF Move, Quiet

(* Every step is such a move, and keeps the room as it is.                 *)
LEMMA StepMoves ==
  ASSUME RoomKept, TypeOK, Calm, WaitsForItsOwn, [Next]_vars
  PROVE  Calm' /\ WaitsForItsOwn' /\ Move
<1> USE DEF options, table, work, tabs
<1> DEFINE Goal == Calm' /\ WaitsForItsOwn' /\ Move
<1>1. ASSUME NEW r \in Reqs, NEW t \in Tabs, Send(r, t) PROVE Goal
  <2>1. Calm'
    BY <1>1 DEF Send, GoTo, Calm, TypeOK, Creating
  <2>2. WaitsForItsOwn'
    BY <1>1, NoneAssumption DEF Send, GoTo, TypeOK, WaitsForItsOwn
  <2>3. \A q \in Reqs : q # r => pc'[q] = pc[q] /\ edit'[q] = edit[q]
    BY <1>1 DEF Send, GoTo, TypeOK
  <2>4. pc'[r] = "load"
    BY <1>1 DEF Send, GoTo, TypeOK
  <2> QED
    BY <1>1, <2>1, <2>2, <2>3, <2>4 DEF Send, Move, Holding, Told, Pending
<1>2. ASSUME NEW t \in Tabs, TimesOut(t) PROVE Goal
  <2>1. Calm'
    BY <1>2 DEF TimesOut, Calm, TypeOK
  <2>2. WaitsForItsOwn'
    BY <1>2, NoneAssumption DEF TimesOut, TypeOK, WaitsForItsOwn
  <2> QED
    BY <1>2, <2>1, <2>2 DEF TimesOut, Move, Told, Pending
<1>3. ASSUME NEW r \in Reqs, Answer(r) PROVE Goal
  <2>1. /\ pc'[r] = "idle"
        /\ \A q \in Reqs : q # r => /\ pc'[q] = pc[q] /\ edit'[q] = edit[q]
                                    /\ loaded'[q] = loaded[q]
        /\ \A t \in Tabs : \A q \in Reqs :
             waits'[t] = q => waits[t] = q /\ q # r
    BY <1>3, FreesMoves DEF Answer
  <2>2. Calm'
    BY <1>3, <2>1 DEF Answer, Calm, TypeOK, Creating
  <2>3. \/ Told' = Told
        \/ pc[r] = "applied" /\ Told' = Told \cup {edit[r]}
    <3>1. ASSUME NEW t \in Tabs
          PROVE  outcome'[t] = IF waits[t] = r /\ pc[r] # "busy"
                               THEN pc[r] ELSE outcome[t]
      BY <1>3 DEF Answer
    <3>2. CASE pc[r] = "applied" /\ \E t \in Tabs : waits[t] = r
      <4>1. PICK t \in Tabs : waits[t] = r
        BY <3>2
      <4>2. edit[r] = t /\ \A u \in Tabs : waits[u] = r => u = t
        BY <4>1 DEF WaitsForItsOwn
      <4> QED
        BY <3>1, <3>2, <4>1, <4>2 DEF Told
    <3>3. CASE pc[r] = "applied" /\ ~\E t \in Tabs : waits[t] = r
      BY <3>1, <3>3 DEF Told
    <3>4. CASE pc[r] # "applied"
      <4>1. ASSUME NEW t \in Tabs, waits[t] = r
            PROVE  outcome[t] # "applied"
        BY <4>1 DEF WaitsForItsOwn
      <4> QED
        BY <3>1, <3>4, <4>1 DEF Told
    <3> QED
      BY <3>2, <3>3, <3>4
  <2>4. canon' = canon /\ claim' = claim /\ announced' \subseteq Pending
    BY <1>3 DEF Answer, Pending
  <2>5. WaitsForItsOwn'
    BY <1>3, <2>1 DEF Answer, WaitsForItsOwn
  <2> QED
    BY <2>1, <2>2, <2>3, <2>4, <2>5 DEF Move, Holding
<1>4. ASSUME NEW r \in Reqs, Dies(r) PROVE Goal
  <2>1. /\ pc'[r] = "idle"
        /\ \A q \in Reqs : q # r => /\ pc'[q] = pc[q] /\ edit'[q] = edit[q]
                                    /\ loaded'[q] = loaded[q]
        /\ \A t \in Tabs : \A q \in Reqs :
             waits'[t] = q => waits[t] = q /\ q # r
    BY <1>4, FreesMoves DEF Dies
  <2>2. Calm'
    BY <1>4, <2>1 DEF Dies, Calm, TypeOK, Creating
  <2>3. Told' = Told
    BY <1>4 DEF Dies, Told
  <2>4. canon' = canon /\ claim' = claim /\ announced' \subseteq Pending
    BY <1>4 DEF Dies, Pending
  <2>5. WaitsForItsOwn'
    BY <1>4, <2>1 DEF Dies, WaitsForItsOwn
  <2> QED
    BY <2>1, <2>2, <2>3, <2>4, <2>5 DEF Move, Holding
<1>5. ASSUME NEW r \in Reqs, Load(r) PROVE Goal
  <2>1. Quiet(r)
    BY <1>5, NoneAssumption
       DEF Load, Calm, Quiet, GoTo,
           TypeOK, Holding, Creating
  <2> QED
    BY <2>1, QuietMoves
<1>6. ASSUME NEW r \in Reqs, MergeSucceeds(r) PROVE Goal
  <2>1. Quiet(r)
    BY <1>6, NoneAssumption
       DEF MergeSucceeds, Quiet, GoTo,
           TypeOK, Holding, Creating
  <2> QED
    BY <2>1, QuietMoves
<1>7. ASSUME NEW r \in Reqs, MergeVoids(r) PROVE Goal
  <2>1. Quiet(r)
    BY <1>7, NoneAssumption
       DEF MergeVoids, Quiet, GoTo,
           TypeOK, Holding, Creating
  <2> QED
    BY <2>1, QuietMoves
<1>8. ASSUME NEW r \in Reqs, MergeParks(r) PROVE Goal
  <2>1. Quiet(r)
    BY <1>8, NoneAssumption
       DEF MergeParks, MayConflict, ParkRow, Quiet, GoTo,
           TypeOK, Holding, Creating
  <2> QED
    BY <2>1, QuietMoves
<1>9. ASSUME NEW r \in Reqs, ProbeChain(r) PROVE Goal
  <2>1. Quiet(r)
    BY <1>9, NoneAssumption
       DEF ProbeChain, Calm, Quiet, GoTo,
           TypeOK, Holding, Creating
  <2> QED
    BY <2>1, QuietMoves
<1>10. ASSUME NEW r \in Reqs, CheckChain(r) PROVE Goal
  <2>1. Quiet(r)
    BY <1>10, NoneAssumption
       DEF CheckChain, Quiet, GoTo,
           TypeOK, Holding, Creating
  <2> QED
    BY <2>1, QuietMoves
<1>11. ASSUME NEW r \in Reqs, MergeSalvages(r) PROVE Goal
  <2>1. Quiet(r)
    BY <1>11, NextAttemptMoves
       DEF MergeSalvages, MayConflict, ParkRow, Quiet, TypeOK, Holding,
           Creating
  <2> QED
    BY <2>1, QuietMoves
<1>12. ASSUME NEW r \in Reqs, ReadClaim(r) PROVE Goal
  <2>1. Quiet(r)
    BY <1>12, NextAttemptMoves
       DEF ReadClaim, Quiet, GoTo, TypeOK, Holding, Creating
  <2> QED
    BY <2>1, QuietMoves
<1>13. ASSUME NEW r \in Reqs, ProbeClaim(r) PROVE Goal
  <2>1. claim # None
    BY NoneAssumption DEF Calm
  <2>2. Quiet(r)
    BY <1>13, <2>1, NextAttemptMoves
       DEF ProbeClaim, Quiet, TypeOK, Holding, Creating
  <2> QED
    BY <2>2, QuietMoves
<1>14. ASSUME NEW r \in Reqs, SwapClaim(r) PROVE Goal
  <2>1. CASE claim # None /\ claim = expected[r]
    <3>1. loaded[r].seq + 1 \in Nat
      BY DEF TypeOK, Versions
    <3>2. claim' \in Claims /\ claim'.seq = loaded[r].seq + 1
      BY <1>14, <2>1, <3>1, FreshClaimType DEF SwapClaim
    <3>3. pc'[r] = "persist" /\ \A q \in Reqs : q # r => pc'[q] = pc[q]
      BY <1>14, <2>1 DEF SwapClaim, GoTo, TypeOK
    <3>4. Calm' /\ WaitsForItsOwn'
      BY <1>14, <3>2, <3>3 DEF SwapClaim, Calm, Creating, WaitsForItsOwn
    <3> QED
      BY <1>14, <3>2, <3>3, <3>4
         DEF SwapClaim, Move, Holding, Told, Pending
  <2>2. CASE ~(claim # None /\ claim = expected[r])
    <3>1. Quiet(r)
      BY <1>14, <2>2 DEF SwapClaim, Quiet, GoTo, TypeOK, Holding, Creating
    <3> QED
      BY <3>1, QuietMoves
  <2> QED
    BY <2>1, <2>2
<1>15. ASSUME NEW r \in Reqs, PersistChained(r) PROVE Goal
  <2>1. CASE canon # None /\ canon.seq = loaded[r].seq
    <3>1. Extends(r) /\ Merged(r) \in Versions
      BY <1>15, <2>1, MergedType DEF PersistChained, Writes, Extends
    <3>2. pc'[r] = "announce" /\ \A q \in Reqs : q # r => pc'[q] = pc[q]
      BY <1>15, <2>1 DEF PersistChained, Writes, GoTo, TypeOK
    <3>3. Calm' /\ WaitsForItsOwn'
      BY <1>15, <3>1, <3>2
         DEF PersistChained, Extends, Calm, Creating, WaitsForItsOwn
    <3> QED
      BY <1>15, <3>1, <3>2, <3>3
         DEF PersistChained, Move, Holding, Told, Pending
  <2>2. CASE ~(canon # None /\ canon.seq = loaded[r].seq)
    <3>1. Quiet(r)
      BY <1>15, <2>2
         DEF PersistChained, Quiet, GoTo, TypeOK, Holding, Creating
    <3> QED
      BY <3>1, QuietMoves
  <2> QED
    BY <2>1, <2>2
<1>16. ASSUME NEW r \in Reqs, Announce(r) PROVE Goal
  <2>1. announced' \subseteq Pending
    BY <1>16 DEF Announce, Pending
  <2>2. pc'[r] = "applied" /\ \A q \in Reqs : q # r => pc'[q] = pc[q]
    BY <1>16 DEF Announce, GoTo, TypeOK
  <2>3. Calm' /\ WaitsForItsOwn'
    BY <1>16, <2>2 DEF Announce, Calm, Creating, TypeOK, WaitsForItsOwn
  <2> QED
    BY <1>16, <2>1, <2>2, <2>3 DEF Announce, Move, Holding, Told
<1>17. CASE Age
  BY <1>17 DEF Age, Calm, WaitsForItsOwn, Move, Told, Pending
<1>18. CASE UNCHANGED vars
  BY <1>18 DEF vars, Calm, WaitsForItsOwn, Move, Told, Pending
<1>19. ASSUME NEW r \in Reqs
      PROVE  ~(\/ LoadRows(r) \/ GenesisRow(r) \/ GenesisRowLost(r)
               \/ ClaimDelete(r) \/ ClaimInsert(r) \/ CanonDelete(r)
               \/ CanonInsert(r) \/ SeedClaim(r) \/ SeedChain(r))
  BY DEF Calm, Creating, LoadRows, GenesisRow, GenesisRowLost, ClaimDelete,
         ClaimInsert, CanonDelete, CanonInsert, SeedClaim, SeedChain
<1>20. ~Reset
  BY DEF Reset, ResetRows, ForgetCanon, ForgetClaim, Calm, RoomKept
<1> QED
  BY <1>1, <1>2, <1>3, <1>4, <1>5, <1>6, <1>7, <1>8, <1>9, <1>10, <1>11,
     <1>12, <1>13, <1>14, <1>15, <1>16, <1>17, <1>18, <1>19, <1>20
     DEF Next, Step

-----------------------------------------------------------------------------

(* What a request holds is the canonical document or a past of it.         *)
LoadedIsPast ==
  \A r \in Reqs : pc[r] \in Holding =>
    /\ loaded[r].seq <= canon.seq
    /\ loaded[r].content \subseteq canon.content
    /\ loaded[r].seq = canon.seq => loaded[r] = canon

PendingIsOne ==
  /\ \A a, b \in Pending : a.seq = b.seq => a = b
  /\ \A a \in Pending : a.seq <= canon.seq /\ a.content \subseteq canon.content

AppliedIsIn == \A r \in Reqs : pc[r] \in {"announce", "applied"} =>
                 edit[r] \in canon.content

ToldIsIn == Told \subseteq canon.content

Past == LoadedIsPast /\ PendingIsOne /\ AppliedIsIn /\ ToldIsIn
          /\ ClaimWithinReach

ChainInv == TypeOK /\ Calm /\ WaitsForItsOwn /\ Past

(* Whoever overwrites the version it loaded adds its proposal to it.       *)
LEMMA ExtendsCanon ==
  ASSUME TypeOK, Calm, LoadedIsPast, NEW r \in Reqs, Extends(r)
  PROVE  /\ canon'.seq = canon.seq + 1
         /\ canon'.content = canon.content \cup {edit[r]}
<1>1. loaded[r] = canon
  BY DEF Extends, LoadedIsPast, Holding
<1>2. pc[r] # "idle"
  BY DEF Extends
<1> QED
  BY <1>1, <1>2, MergedType DEF Extends

(* The document only grows.                                                *)
LEMMA CanonGrows ==
  ASSUME TypeOK, Calm, LoadedIsPast, Move
  PROVE  \/ canon' = canon
         \/ /\ canon'.seq = canon.seq + 1
            /\ canon.content \subseteq canon'.content
BY ExtendsCanon DEF Move

(* A move keeps what requests hold a past of the document, and what was    *)
(* written one version per number.                                         *)
LEMMA PastStep ==
  ASSUME TypeOK, TypeOK', Calm, Calm', Past, Move
  PROVE  Past'
<1> USE DEF Past
<1>1. canon.seq \in Nat /\ canon'.seq \in Nat
  BY DEF Calm, Versions
<1>2. canon.seq <= canon'.seq /\ canon.content \subseteq canon'.content
  BY <1>1, CanonGrows
<1>3. \A r \in Reqs : loaded[r].seq \in Nat /\ loaded'[r].seq \in Nat
  BY DEF TypeOK, Versions
<1>4. LoadedIsPast'
  <2> SUFFICES ASSUME NEW q \in Reqs, pc'[q] \in Holding
               PROVE  /\ loaded'[q].seq <= canon'.seq
                      /\ loaded'[q].content \subseteq canon'.content
                      /\ loaded'[q].seq = canon'.seq => loaded'[q] = canon'
    BY DEF LoadedIsPast
  <2>1. CASE pc[q] \in Holding /\ loaded'[q] = loaded[q]
    BY <2>1, <1>1, <1>2, <1>3, CanonGrows DEF LoadedIsPast
  <2>2. CASE loaded'[q] = canon /\ canon' = canon
    BY <2>2, <1>1
  <2> QED
    BY <2>1, <2>2 DEF Move
<1>5. PendingIsOne'
  <2>1. \A a \in Pending' : a \in Pending \/ a = canon'
    <3>1. ASSUME NEW q \in Reqs, pc'[q] = "announce"
          PROVE  /\ Merged(q)' = Merged(q)
                 /\ Merged(q) \in Pending \/ Merged(q) = canon'
      <4>1. loaded'[q] = loaded[q] /\ edit'[q] = edit[q]
        BY <3>1 DEF Move
      <4>2. pc[q] = "announce" \/ Extends(q)
        BY <3>1 DEF Move
      <4> QED
        BY <4>1, <4>2 DEF Merged, Pending, Extends
    <3>2. \A a \in announced' : a \in Pending
      BY DEF Move
    <3> QED
      BY <3>1, <3>2 DEF Pending
  <2>2. \A a \in Pending : a.seq \in Nat
    <3>1. \A q \in Reqs : pc[q] = "announce" => Merged(q).seq \in Nat
      BY <1>3, MergedType
    <3> QED
      BY <3>1 DEF Pending, TypeOK, Versions
  <2>3. CASE canon' = canon
    <3>1. \A q \in Reqs : ~Extends(q)
      BY <2>3, <1>1, ExtendsCanon
    <3>2. Pending' \subseteq Pending
      <4>1. ASSUME NEW q \in Reqs, pc'[q] = "announce"
            PROVE  Merged(q)' = Merged(q) /\ pc[q] = "announce"
        BY <4>1, <3>1 DEF Move, Merged
      <4> QED
        BY <4>1 DEF Move, Pending
    <3> QED
      BY <2>3, <3>2 DEF PendingIsOne
  <2>4. CASE canon' # canon
    <3>1. canon'.seq = canon.seq + 1
      BY <2>4, CanonGrows
    <3>2. \A a \in Pending : a.seq < canon'.seq
      BY <3>1, <2>2, <1>1 DEF PendingIsOne
    <3>3. \A a, b \in Pending' : a.seq = b.seq => a = b
      BY <2>1, <3>2, <2>2, <1>1 DEF PendingIsOne
    <3>4. \A a \in Pending' : /\ a.seq <= canon'.seq
                              /\ a.content \subseteq canon'.content
      BY <2>1, <2>2, <3>2, <1>1, <1>2 DEF PendingIsOne
    <3> QED
      BY <3>3, <3>4 DEF PendingIsOne
  <2> QED
    BY <2>3, <2>4
<1>6. AppliedIsIn'
  <2> SUFFICES ASSUME NEW q \in Reqs, pc'[q] \in {"announce", "applied"}
               PROVE  edit'[q] \in canon'.content
    BY DEF AppliedIsIn
  <2>1. CASE pc[q] \in {"announce", "applied"} /\ edit'[q] = edit[q]
    BY <2>1, <1>2 DEF AppliedIsIn
  <2>2. CASE Extends(q) /\ edit'[q] = edit[q]
    BY <2>2, ExtendsCanon
  <2> QED
    BY <2>1, <2>2 DEF Move
<1>7. ToldIsIn'
  <2>1. Told' = Told \/ \E r \in Reqs : /\ pc[r] = "applied"
                                         /\ Told' = Told \cup {edit[r]}
    BY DEF Move
  <2> QED
    BY <2>1, <1>2 DEF ToldIsIn, AppliedIsIn
<1>8. ClaimWithinReach'
  <2>1. claim.seq <= canon.seq + 1 /\ claim.seq \in Nat
    BY NoneAssumption DEF Calm, ClaimWithinReach, Claims
  <2>2. CASE claim' = claim
    BY <2>1, <2>2, <1>1, <1>2 DEF ClaimWithinReach
  <2>3. ASSUME NEW q \in Reqs, pc[q] = "swap", canon' = canon,
               claim'.seq = loaded[q].seq + 1
        PROVE  ClaimWithinReach'
    <3>1. loaded[q].seq <= canon.seq
      BY <2>3 DEF LoadedIsPast, Holding
    <3> QED
      BY <2>3, <3>1, <1>1, <1>3 DEF ClaimWithinReach
  <2> QED
    BY <2>2, <2>3 DEF Move
<1> QED
  BY <1>4, <1>5, <1>6, <1>7, <1>8

(* A kept room starts with nothing loaded, written or told.                *)
LEMMA InitChainInv == RoomKept /\ Init => ChainInv
<1> SUFFICES ASSUME RoomKept, Init PROVE ChainInv
  OBVIOUS
<1>1. TypeOK
  BY InitTypeOK
<1>2. canon = Genesis /\ claim = Seed(1)
  BY DEF Init, RoomKept
<1>3. Calm
  BY <1>2, GenesisType DEF Init, Calm, Creating
<1>4. WaitsForItsOwn
  BY NoneAssumption DEF Init, WaitsForItsOwn
<1>5. LoadedIsPast /\ AppliedIsIn
  BY DEF Init, LoadedIsPast, AppliedIsIn, Holding
<1>6. Pending = {} /\ Told = {}
  BY DEF Init, Pending, Told
<1>7. ClaimWithinReach
  BY <1>2 DEF ClaimWithinReach, Genesis, Seed
<1> QED
  BY <1>1, <1>3, <1>4, <1>5, <1>6, <1>7
     DEF ChainInv, Past, PendingIsOne, ToldIsIn

(* Every step of a kept room keeps the inductive invariant,                *)
LEMMA StepChainInv == RoomKept /\ ChainInv /\ [Next]_vars => ChainInv'
BY TypeStep, StepMoves, PastStep DEF ChainInv

(* which therefore always holds.                                           *)
LEMMA AlwaysChainInv == ASSUME RoomKept PROVE Spec => []ChainInv
BY RoomKept, InitChainInv, StepChainInv, PTL DEF Spec

(* In a room that is kept, what was told applied stays in the document,    *)
(* the announced versions are one lineage the document contains, and no    *)
(* claim runs out of reach, for all numbers of tabs, requests and faults.  *)
THEOREM ChainSafety ==
  ASSUME RoomKept
  PROVE  Spec => [](AppliedSurvives /\ LineageIsOne /\ ClaimWithinReach)
<1>1. ChainInv => AppliedSurvives /\ LineageIsOne /\ ClaimWithinReach
  <2> SUFFICES ASSUME ChainInv
               PROVE  AppliedSurvives /\ LineageIsOne /\ ClaimWithinReach
    OBVIOUS
  <2>1. AppliedSurvives
    BY DEF ChainInv, Past, ToldIsIn, Told, AppliedSurvives
  <2>2. LineageIsOne
    BY NoneAssumption
       DEF ChainInv, Past, Calm, PendingIsOne, Pending, LineageIsOne
  <2> QED
    BY <2>1, <2>2 DEF ChainInv, Past
<1> QED
  BY <1>1, AlwaysChainInv, PTL

(* A stored version is only followed by the next one, also in rooms that   *)
(* are created by several requests at once, reset or rebuilt.              *)
THEOREM ChainOnlyExtends == Spec => ChainExtendsByOne
<1> DEFINE Ext == canon # None /\ canon' # None /\ canon' # canon
                    => canon'.seq = canon.seq + 1
<1>1. TypeOK /\ [Next]_vars => Ext
  <2> SUFFICES ASSUME TypeOK, [Next]_vars PROVE Ext
    OBVIOUS
  <2> USE DEF options, table, work, tabs
  <2>1. ASSUME NEW r \in Reqs, PersistChained(r) PROVE Ext
    BY <2>1, MergedType DEF PersistChained, Writes
  <2>2. ASSUME NEW r \in Reqs, SeedChain(r) PROVE Ext
    BY <2>2 DEF SeedChain
  <2>3. ASSUME NEW r \in Reqs, CanonDelete(r) \/ CanonInsert(r) PROVE Ext
    BY <2>3 DEF CanonDelete, CanonInsert
  <2>4. CASE Reset
    BY <2>4 DEF Reset, ResetRows, ForgetCanon, ForgetClaim
  <2>5. ASSUME NEW r \in Reqs,
               \/ Load(r) \/ LoadRows(r) \/ GenesisRow(r) \/ GenesisRowLost(r)
               \/ ClaimDelete(r) \/ ClaimInsert(r)
               \/ MergeSucceeds(r) \/ MergeVoids(r)
               \/ MergeParks(r) \/ MergeSalvages(r) \/ ReadClaim(r)
               \/ SwapClaim(r) \/ ProbeClaim(r) \/ SeedClaim(r)
               \/ ProbeChain(r) \/ CheckChain(r) \/ Announce(r)
               \/ Answer(r) \/ Dies(r)
        PROVE  canon' = canon
    BY <2>5 DEF Load, LoadRows, GenesisRow, GenesisRowLost, ClaimDelete,
                ClaimInsert, MergeSucceeds, MergeVoids, MergeParks,
                MergeSalvages, ReadClaim, SwapClaim, ProbeClaim, SeedClaim, ProbeChain,
                CheckChain, Announce, Answer, Dies
  <2>6. ASSUME NEW r \in Reqs, NEW t \in Tabs, Send(r, t)
        PROVE  canon' = canon
    BY <2>6 DEF Send
  <2>7. ASSUME NEW t \in Tabs, TimesOut(t) PROVE canon' = canon
    BY <2>7 DEF TimesOut
  <2>8. Age \/ UNCHANGED vars => canon' = canon
    BY DEF Age, vars
  <2> QED
    BY <2>1, <2>2, <2>3, <2>4, <2>5, <2>6, <2>7, <2>8 DEF Next, Step
<1>2. TypeOK /\ [Next]_vars => [Ext]_vars
  BY <1>1
<1> QED
  BY <1>2, TypeCorrect, PTL DEF Spec, ChainExtendsByOne

(* The commit path of a kept room implements the abstract ledger: every    *)
(* step adds one proposal to the next version, or tells one author about a *)
(* proposal the document has, or changes neither.                          *)
THEOREM ChainIsALedger == ASSUME RoomKept PROVE Spec => LedgerSpec
<1>1. Init => Ledger!Init
  <2> SUFFICES ASSUME Init PROVE Ledger!Init
    OBVIOUS
  <2>1. canon = Genesis
    BY DEF Init, RoomKept
  <2>2. {t \in Tabs : outcome[t] = "applied"} = {}
    BY DEF Init
  <2> QED
    BY <2>1, <2>2 DEF Ledger!Init, Genesis
<1>2. ChainInv /\ [Next]_vars
        => [Ledger!Next]_<<canon.seq, canon.content,
                           {t \in Tabs : outcome[t] = "applied"}>>
  <2> SUFFICES ASSUME ChainInv, [Next]_vars
               PROVE  [Ledger!Next]_<<canon.seq, canon.content,
                                      {t \in Tabs : outcome[t] = "applied"}>>
    OBVIOUS
  <2>1. Move
    BY StepMoves, RoomKept DEF ChainInv
  <2>2. CASE canon' = canon /\ Told' = Told
    BY <2>2 DEF Told
  <2>3. ASSUME NEW r \in Reqs, Extends(r), Told' = Told
        PROVE  Ledger!Next
    <3>1. /\ canon'.seq = canon.seq + 1
          /\ canon'.content = canon.content \cup {edit[r]}
      BY <2>3, ExtendsCanon DEF ChainInv, Past
    <3>2. edit[r] \in Tabs
      BY <2>3 DEF ChainInv, TypeOK, Extends
    <3>3. PICK t \in Tabs : t = edit[r]
      BY <3>2
    <3>4. Ledger!Commit(t)
      BY <2>3, <3>1, <3>3 DEF Ledger!Commit, Told
    <3> QED
      BY <3>4 DEF Ledger!Next
  <2>4. ASSUME NEW r \in Reqs, pc[r] = "applied", canon' = canon,
               Told' = Told \cup {edit[r]}
        PROVE  Ledger!Next
    <3>1. edit[r] \in canon.content
      BY <2>4 DEF ChainInv, Past, AppliedIsIn
    <3>2. edit[r] \in Tabs
      BY <2>4 DEF ChainInv, TypeOK
    <3>3. PICK t \in Tabs : t = edit[r]
      BY <3>2
    <3>4. Ledger!Tell(t)
      BY <2>4, <3>1, <3>3 DEF Ledger!Tell, Told
    <3> QED
      BY <3>4 DEF Ledger!Next
  <2>5. \/ canon' = canon /\ Told' = Told
        \/ \E r \in Reqs : Extends(r) /\ Told' = Told
        \/ \E r \in Reqs : /\ pc[r] = "applied" /\ canon' = canon
                           /\ Told' = Told \cup {edit[r]}
    BY <2>1 DEF Move
  <2> QED
    BY <2>2, <2>3, <2>4, <2>5
<1>3. Spec => []ChainInv
  BY AlwaysChainInv
<1> QED
  BY <1>1, <1>2, <1>3, PTL DEF Spec, LedgerSpec, Ledger!Spec

=============================================================================
