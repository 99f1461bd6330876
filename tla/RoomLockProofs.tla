--------------------------- MODULE RoomLockProofs ---------------------------
(***************************************************************************)
(* The room lock's safety for every number of slots, calls and ticks.      *)
(* LockInv strengthens the three invariants: a token names its slot, a     *)
(* stamp is never in the future, a slot about to take over has read an     *)
(* overdue token, and a slot that saw an untouched row has read that row.  *)
(***************************************************************************)
EXTENDS RoomLock, TLAPS

(* Slots with a call under way or granted: their token is their own.       *)
Engaged == Acquiring \cup {"held"}

OwnToken == \A p \in Procs : pc[p] \in Engaged =>
              token[p] \in Tokens /\ token[p].proc = p

(* Also for a slot that has stopped: the stamp of its last call.           *)
StampsPast == \A p \in Procs : pc[p] \in Engaged \cup {"busy"} =>
                token[p] \in Tokens /\ token[p].stamp <= now

JudgedOverdue == \A p \in Procs : pc[p] = "takeover" =>
                   existing[p] \in Tokens /\ Overdue(existing[p])

(* The row p finds is the one that was there when p's call began.          *)
Untouched(p) == row # NoToken /\ since < token[p].stamp

ReadTheRow == \A p \in Procs :
                pc[p] \in {"judge", "takeover"} /\ Untouched(p)
                  => existing[p] = row

RefusedInLease == \A p \in Procs :
                    pc[p] \in {"expired", "busy"} /\ Untouched(p)
                      => token[p].stamp - row.stamp <= TTL

LockInv == /\ TypeOK
           /\ OwnToken
           /\ StampsPast
           /\ JudgedOverdue
           /\ LeaseOwnsRow
           /\ ReadTheRow
           /\ RefusedInLease

-----------------------------------------------------------------------------

(* The slots and the bounds are as assumed, and nothing has happened yet.  *)
LEMMA InitLockInv == Init => LockInv
BY BoundsAssumption, NoTokenAssumption
   DEF Init, LockInv, TypeOK, OwnToken, StampsPast, JudgedOverdue,
       LeaseOwnsRow, ReadTheRow, RefusedInLease, Engaged, Acquiring, Stopped,
       Holds

(* Every step keeps the variables in their types.                          *)
LEMMA TypeStep == TypeOK /\ [Next]_vars => TypeOK'
<1> SUFFICES ASSUME TypeOK, [Next]_vars PROVE TypeOK'
  OBVIOUS
<1> USE BoundsAssumption, NoTokenAssumption DEF TypeOK, Acquiring, Stopped
<1>1. CASE Tick
  BY <1>1 DEF Tick
<1>2. ASSUME NEW p \in Procs, NEW w \in Waits, Begin(p, w) PROVE TypeOK'
  <2>1. w \in Nat /\ calls[p] + 1 \in 1..MaxCalls /\ now + w \in 0..MaxClock
    BY <1>2 DEF Begin
  <2>2. [stamp |-> now, proc |-> p, call |-> calls[p] + 1] \in Tokens
    BY <2>1 DEF Tokens
  <2> QED
    BY <1>2, <2>1, <2>2 DEF Begin
<1>3. ASSUME NEW p \in Procs, InsertClaims(p) PROVE TypeOK'
  <2>1. row' \in Tokens \cup {NoToken} /\ since' \in 0..MaxClock
    BY <1>3 DEF InsertClaims
  <2> QED
    BY <1>3, <2>1 DEF InsertClaims
<1>4. ASSUME NEW p \in Procs, InsertIgnored(p) PROVE TypeOK'
  BY <1>4 DEF InsertIgnored
<1>5. ASSUME NEW p \in Procs, Select(p) PROVE TypeOK'
  BY <1>5 DEF Select
<1>6. ASSUME NEW p \in Procs, Judge(p) PROVE TypeOK'
  BY <1>6 DEF Judge
<1>7. ASSUME NEW p \in Procs, Takeover(p) PROVE TypeOK'
  <2>1. row' \in Tokens \cup {NoToken} /\ since' \in 0..MaxClock
    BY <1>7 DEF Takeover
  <2> QED
    BY <1>7, <2>1 DEF Takeover
<1>8. ASSUME NEW p \in Procs, CheckDeadline(p) PROVE TypeOK'
  BY <1>8 DEF CheckDeadline
<1>9. ASSUME NEW p \in Procs, Release(p) PROVE TypeOK'
  BY <1>9 DEF Release
<1>10. ASSUME NEW p \in Procs, Crash(p) PROVE TypeOK'
  BY <1>10 DEF Crash
<1>11. CASE UNCHANGED vars
  BY <1>11 DEF vars
<1> QED
  BY <1>1, <1>2, <1>3, <1>4, <1>5, <1>6, <1>7, <1>8, <1>9, <1>10, <1>11
     DEF Next, AcquireStep

(* One step of any slot keeps the strengthened invariant.                  *)
LEMMA StepLockInv == LockInv /\ [Next]_vars => LockInv'
<1> SUFFICES ASSUME LockInv, [Next]_vars PROVE LockInv'
  OBVIOUS
<1>0. TypeOK'
  BY TypeStep DEF LockInv
<1> DEFINE Rest == OwnToken /\ StampsPast /\ JudgedOverdue /\ LeaseOwnsRow
                   /\ ReadTheRow /\ RefusedInLease
<1> SUFFICES Rest'
  BY <1>0 DEF LockInv
<1>t. /\ \A t \in Tokens : t.stamp \in 0..MaxClock
      /\ now \in Int /\ TTL \in Int /\ since \in Int
  BY BoundsAssumption DEF LockInv, TypeOK, Tokens
<1> USE BoundsAssumption, NoTokenAssumption, <1>t
    DEF LockInv, TypeOK, OwnToken, StampsPast, JudgedOverdue, LeaseOwnsRow,
        ReadTheRow, RefusedInLease, Engaged, Acquiring, Stopped, Holds,
        Untouched, Overdue
<1>1. CASE Tick
  BY <1>1 DEF Tick
<1>2. ASSUME NEW p \in Procs, NEW w \in Waits, Begin(p, w) PROVE Rest'
  <2>1. /\ token'[p] \in Tokens /\ token'[p].proc = p /\ token'[p].stamp = now
        /\ pc'[p] = "insert"
        /\ \A q \in Procs \ {p} : token'[q] = token[q] /\ pc'[q] = pc[q]
    <3>1. token' \in [Procs -> Tokens \cup {NoToken}]
      BY <1>0
    <3>2. token'[p] = [stamp |-> now, proc |-> p, call |-> calls[p] + 1]
      BY <1>2 DEF Begin
    <3>3. w \in Nat /\ calls[p] + 1 \in 1..MaxCalls
      BY <1>2 DEF Begin
    <3>4. token'[p] \in Tokens
      BY <3>2, <3>3 DEF Tokens
    <3> QED
      BY <1>2, <3>2, <3>4 DEF Begin
  <2>2. UNCHANGED <<now, row, existing, since>>
    BY <1>2 DEF Begin
  <2> QED
    BY <2>1, <2>2
<1>3. ASSUME NEW p \in Procs, InsertClaims(p) PROVE Rest'
  BY <1>3 DEF InsertClaims
<1>4. ASSUME NEW p \in Procs, InsertIgnored(p) PROVE Rest'
  BY <1>4 DEF InsertIgnored
<1>5. ASSUME NEW p \in Procs, Select(p) PROVE Rest'
  BY <1>5 DEF Select
<1>6. ASSUME NEW p \in Procs, Judge(p) PROVE Rest'
  BY <1>6 DEF Judge
<1>7. ASSUME NEW p \in Procs, Takeover(p) PROVE Rest'
  BY <1>7 DEF Takeover
<1>8. ASSUME NEW p \in Procs, CheckDeadline(p) PROVE Rest'
  BY <1>8 DEF CheckDeadline
<1>9. ASSUME NEW p \in Procs, Release(p) PROVE Rest'
  BY <1>9 DEF Release
<1>10. ASSUME NEW p \in Procs, Crash(p) PROVE Rest'
  BY <1>10 DEF Crash
<1>11. CASE UNCHANGED vars
  BY <1>11 DEF vars
<1> QED
  BY <1>1, <1>2, <1>3, <1>4, <1>5, <1>6, <1>7, <1>8, <1>9, <1>10, <1>11
     DEF Next, AcquireStep

(* The strengthened invariant holds in every behaviour.                    *)
LEMMA InvariantHolds == Spec => []LockInv
  BY InitLockInv, StepLockInv, PTL DEF Spec

-----------------------------------------------------------------------------

(* The lock's state is well typed in every behaviour.                      *)
THEOREM TypeCorrect == Spec => []TypeOK
<1>1. LockInv => TypeOK
  BY DEF LockInv
<1> QED
  BY <1>1, InvariantHolds, PTL

(* Of any two requests that both hold the lock, one has overrun its lease: *)
(* acquire() and release() give mutual exclusion inside leases.            *)
THEOREM Exclusion == Spec => [](LeaseOwnsRow /\ LeaseExclusion)
<1>1. LockInv => LeaseOwnsRow /\ LeaseExclusion
  <2> SUFFICES ASSUME LockInv, NEW p \in Procs, NEW q \in Procs,
                      Holds(p), Holds(q), p # q,
                      ~Overdue(token[p]), ~Overdue(token[q])
               PROVE  FALSE
    BY DEF LockInv, LeaseExclusion
  <2>1. row = token[p] /\ row = token[q]
    BY DEF LockInv, LeaseOwnsRow
  <2>2. token[p].proc = p /\ token[q].proc = q
    BY DEF LockInv, OwnToken, Holds, Engaged
  <2> QED
    BY <2>1, <2>2
<1> QED
  BY <1>1, InvariantHolds, PTL

(* A row inside its lease is changed by nobody but the request that wrote  *)
(* it, when it releases.                                                   *)
THEOREM RowIsSafe == Spec => NoTheft
<1>1. LockInv /\ [Next]_vars => [NoTheftStep]_vars
  <2> SUFFICES ASSUME LockInv, Next, row # NoToken, ~Overdue(row), row' # row
               PROVE  /\ row' = NoToken
                      /\ \E p \in Procs : /\ Holds(p) /\ token[p] = row
                                          /\ pc'[p] = "idle"
    BY DEF NoTheftStep
  <2>1. PICK p \in Procs : Takeover(p) \/ Release(p)
    BY DEF Next, AcquireStep, Tick, Begin, InsertClaims, InsertIgnored, Select,
           Judge, CheckDeadline, Crash
  <2>2. ~Takeover(p)
    BY DEF Takeover, LockInv, JudgedOverdue
  <2>3. Release(p)
    BY <2>1, <2>2
  <2>4. row = token[p] /\ row' = NoToken /\ Holds(p)
    BY <2>3 DEF Release, Holds
  <2>5. pc'[p] = "idle"
    BY <2>3 DEF Release, LockInv, TypeOK
  <2> QED
    BY <2>4, <2>5
<1> QED
  BY <1>1, InvariantHolds, PTL DEF Spec, NoTheft

(* No call is refused because of a lock that was abandoned before the call *)
(* began.                                                                  *)
THEOREM Refusals == Spec => []BusyIsHonest
<1>1. LockInv => BusyIsHonest
  BY DEF LockInv, RefusedInLease, Untouched, BusyIsHonest
<1> QED
  BY <1>1, InvariantHolds, PTL

=============================================================================
