------------------------------ MODULE RoomLock ------------------------------
(***************************************************************************)
(* WP_Sync_Room_Lock: mutual exclusion between PHP requests of one room,   *)
(* built on the unique key of the options table.  A request claims the     *)
(* lock by INSERT IGNORE of its token; the token starts with a timestamp,  *)
(* and a row older than TTL is taken over by compare-and-swap.  Every      *)
(* SQL statement is one atomic action; the clock may move between any two. *)
(***************************************************************************)
EXTENDS Integers

CONSTANTS
  Procs,      \* the request slots of the PHP workers
  TTL,        \* TTL_SECONDS
  Waits,      \* the wait budgets callers pass to acquire()
  MaxClock,   \* bound: the clock stops here
  MaxCalls,   \* bound: calls of acquire() per slot
  NoToken     \* no option row; also "nothing was read"

ASSUME BoundsAssumption ==
  TTL \in Nat /\ Waits \subseteq Nat /\ MaxClock \in Nat /\ MaxCalls \in Nat

(* The random suffix of a token makes it unique: here the slot and its     *)
(* call number.                                                            *)
Tokens == [stamp : 0..MaxClock, proc : Procs, call : 1..MaxCalls]

ASSUME NoTokenAssumption == NoToken \notin Tokens

VARIABLES
  now,        \* microtime()
  row,        \* the option row: NoToken, or the token it stores
  pc,         \* where each slot is in acquire() / release()
  token,      \* $token of the slot's latest call
  deadline,   \* $deadline
  existing,   \* $existing, the token read from the row
  calls,      \* calls made so far (bound)
  since       \* history: when the row was last written by a claim

vars == <<now, row, pc, token, deadline, existing, calls, since>>

Acquiring == {"insert", "select", "judge", "takeover", "expired"}
Stopped   == {"idle", "busy", "crashed"}

Overdue(t) == now - t.stamp > TTL

-----------------------------------------------------------------------------

Init ==
  /\ now = 0
  /\ row = NoToken
  /\ pc = [p \in Procs |-> "idle"]
  /\ token = [p \in Procs |-> NoToken]
  /\ deadline = [p \in Procs |-> 0]
  /\ existing = [p \in Procs |-> NoToken]
  /\ calls = [p \in Procs |-> 0]
  /\ since = 0

Tick ==
  /\ now < MaxClock
  /\ now' = now + 1
  /\ UNCHANGED <<row, pc, token, deadline, existing, calls, since>>

(* acquire() is called: the stamp is taken here, before any waiting.  The  *)
(* bound leaves room for the whole wait before the clock stops.            *)
Begin(p, wait) ==
  /\ pc[p] \in Stopped
  /\ calls[p] < MaxCalls
  /\ now + wait <= MaxClock
  /\ calls' = [calls EXCEPT ![p] = @ + 1]
  /\ token' = [token EXCEPT ![p] = [stamp |-> now, proc |-> p,
                                    call |-> calls[p] + 1]]
  /\ deadline' = [deadline EXCEPT ![p] = now + wait]
  /\ pc' = [pc EXCEPT ![p] = "insert"]
  /\ UNCHANGED <<now, row, existing, since>>

(* INSERT IGNORE found no row: the lock is ours.                           *)
InsertClaims(p) ==
  /\ pc[p] = "insert"
  /\ row = NoToken
  /\ row' = token[p]
  /\ since' = now
  /\ pc' = [pc EXCEPT ![p] = "held"]
  /\ UNCHANGED <<now, token, deadline, existing, calls>>

InsertIgnored(p) ==
  /\ pc[p] = "insert"
  /\ row # NoToken
  /\ pc' = [pc EXCEPT ![p] = "select"]
  /\ UNCHANGED <<now, row, token, deadline, existing, calls, since>>

Select(p) ==
  /\ pc[p] = "select"
  /\ existing' = [existing EXCEPT ![p] = row]
  /\ pc' = [pc EXCEPT ![p] = "judge"]
  /\ UNCHANGED <<now, row, token, deadline, calls, since>>

(* BUG of Judge: an abandoned row is never expired.                        *)
JudgeNeverExpires(p) ==
  /\ pc[p] = "judge"
  /\ pc' = [pc EXCEPT ![p] = "expired"]
  /\ UNCHANGED <<now, row, token, deadline, existing, calls, since>>

(* microtime() - (float) $existing > TTL_SECONDS.                          *)
Judge(p) ==
  /\ pc[p] = "judge"
  /\ pc' = [pc EXCEPT ![p] =
              IF existing[p] # NoToken /\ Overdue(existing[p])
              THEN "takeover" ELSE "expired"]
  /\ UNCHANGED <<now, row, token, deadline, existing, calls, since>>

(* BUG of Takeover: the UPDATE has no WHERE option_value = $existing.      *)
TakeoverWithoutCompare(p) ==
  /\ pc[p] = "takeover"
  /\ row' = token[p]
  /\ since' = now
  /\ pc' = [pc EXCEPT ![p] = "held"]
  /\ UNCHANGED <<now, token, deadline, existing, calls>>

(* UPDATE ... WHERE option_value = $existing.                              *)
Takeover(p) ==
  /\ pc[p] = "takeover"
  /\ \/ /\ row = existing[p]
        /\ row' = token[p]
        /\ since' = now
        /\ pc' = [pc EXCEPT ![p] = "held"]
     \/ /\ row # existing[p]
        /\ pc' = [pc EXCEPT ![p] = "expired"]
        /\ UNCHANGED <<row, since>>
  /\ UNCHANGED <<now, token, deadline, existing, calls>>

(* BUG of CheckDeadline: the budget is never tested.                       *)
CheckDeadlineNever(p) ==
  /\ pc[p] = "expired"
  /\ pc' = [pc EXCEPT ![p] = "insert"]
  /\ UNCHANGED <<now, row, token, deadline, existing, calls, since>>

(* The budget test: give up with rest_sync_room_busy, or sleep and retry.  *)
CheckDeadline(p) ==
  /\ pc[p] = "expired"
  /\ pc' = [pc EXCEPT ![p] = IF now >= deadline[p] THEN "busy" ELSE "insert"]
  /\ UNCHANGED <<now, row, token, deadline, existing, calls, since>>

(* BUG of Release: the DELETE is not token-checked.                        *)
ReleaseWithoutToken(p) ==
  /\ pc[p] = "held"
  /\ row' = NoToken
  /\ pc' = [pc EXCEPT ![p] = "idle"]
  /\ UNCHANGED <<now, token, deadline, existing, calls, since>>

(* release(): DELETE ... WHERE option_value = $token, which matches        *)
(* nothing when the lock was taken over.                                   *)
Release(p) ==
  /\ pc[p] = "held"
  /\ row' = IF row = token[p] THEN NoToken ELSE row
  /\ pc' = [pc EXCEPT ![p] = "idle"]
  /\ UNCHANGED <<now, token, deadline, existing, calls, since>>

(* The worker dies; a row it had written stays.                            *)
Crash(p) ==
  /\ pc[p] \in Acquiring \cup {"held"}
  /\ pc' = [pc EXCEPT ![p] = "crashed"]
  /\ UNCHANGED <<now, row, token, deadline, existing, calls, since>>

-----------------------------------------------------------------------------

AcquireStep(p) ==
  \/ InsertClaims(p) \/ InsertIgnored(p) \/ Select(p)
  \/ Judge(p) \/ Takeover(p) \/ CheckDeadline(p)

Next ==
  \/ Tick
  \/ \E p \in Procs : \/ \E w \in Waits : Begin(p, w)
                      \/ AcquireStep(p)
                      \/ Release(p)
                      \/ Crash(p)

Spec == Init /\ [][Next]_vars

(* A request inside acquire() is running PHP: it takes its next statement  *)
(* or crashes.  The clock runs.  Nobody is obliged to call or to release.  *)
FairSpec ==
  Spec /\ WF_vars(Tick) /\ \A p \in Procs : WF_vars(AcquireStep(p))

-----------------------------------------------------------------------------

TypeOK ==
  /\ now \in 0..MaxClock
  /\ row \in Tokens \cup {NoToken}
  /\ pc \in [Procs -> Acquiring \cup Stopped \cup {"held"}]
  /\ token \in [Procs -> Tokens \cup {NoToken}]
  /\ deadline \in [Procs -> 0..MaxClock]
  /\ existing \in [Procs -> Tokens \cup {NoToken}]
  /\ calls \in [Procs -> 0..MaxCalls]
  /\ since \in 0..MaxClock

Holds(p) == pc[p] = "held"

(* What the lock promises without fencing: of two requests that both       *)
(* believe they hold it, one has overrun its lease, so it is not the owner *)
(* of the row and its token is older than TTL.                             *)
LeaseExclusion ==
  \A p, q \in Procs :
    Holds(p) /\ Holds(q) /\ p # q => Overdue(token[p]) \/ Overdue(token[q])

(* A request that is still inside its lease owns the row, whatever the     *)
(* other requests inserted, swapped or deleted meanwhile.                  *)
LeaseOwnsRow ==
  \A p \in Procs : Holds(p) /\ ~Overdue(token[p]) => row = token[p]

(* A row inside its lease changes only because its own writer releases it: *)
(* neither a late compare-and-swap nor a deposed holder's release() frees  *)
(* or replaces it.                                                         *)
NoTheftStep ==
  row # NoToken /\ ~Overdue(row) /\ row' # row =>
    /\ row' = NoToken
    /\ \E p \in Procs : Holds(p) /\ token[p] = row /\ pc'[p] = "idle"

NoTheft == [][NoTheftStep]_vars

(* A call is not refused because of an abandoned lock: when it answers     *)
(* "busy", the row was not already overdue, and untouched, when the call   *)
(* began.                                                                  *)
BusyIsHonest ==
  \A p \in Procs :
    pc[p] = "busy" /\ row # NoToken /\ since < token[p].stamp
      => token[p].stamp - row.stamp <= TTL

(* Every call of acquire() is answered, also while other requests keep     *)
(* claiming and crashing.                                                  *)
EveryCallIsAnswered ==
  \A p \in Procs : pc[p] \in Acquiring ~> pc[p] \notin Acquiring

=============================================================================
