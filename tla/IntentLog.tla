------------------------------ MODULE IntentLog ------------------------------
(***************************************************************************)
(* A room of the intent-log engine over the HTTP polling transport: editor *)
(* tabs (IntentLogSession), the server (IntentLogEngine) and the requests  *)
(* between them (polling-manager.ts).  A tab has at most one request in    *)
(* flight.  When it fails, the tab cannot know whether the server stored   *)
(* the updates: it puts them back at the front of its queue and sends them *)
(* again, while the old request may still be on its way to the server.     *)
(***************************************************************************)
EXTENDS IntentLogEngine, IntentLogSession

CONSTANTS
  UnitSizes,     \* sizes of the batches a tab authors as one unit
  MaxLag,        \* bound: how far below its head a tab authors
  Splits,        \* TRUE: the body limit may cut a queue anywhere
  MaxFailures,   \* bound: failed requests
  MaxDeaths,     \* bound: ingests that die half-way
  MaxOverlaps,   \* bound: responses whose rows are delivered again
  MaxCancels,    \* bound: pre-settle undos
  MaxResolutions \* bound: proposals resolved

ASSUME NetworkAssumption ==
  /\ UnitSizes \subseteq Nat \ {0} /\ Splits \in BOOLEAN
  /\ {MaxLag, MaxFailures, MaxDeaths, MaxOverlaps, MaxCancels,
      MaxResolutions} \subseteq Nat

VARIABLES
  replica,   \* the session's state, per tab
  authored,  \* per tab: the unit (first member) of its n-th intent
  queue,     \* updateQueue: updates not in a request
  cursor,    \* state.endCursor
  flight,    \* the updates of the request in flight, or Idle
  attempt,   \* requests of this tab that have failed
  reply,     \* the response that is on its way to the tab, or NoReply
  inbox,     \* requests that have not finished at the server
  spent      \* the bounds used up

clientVars == <<replica, authored, queue>>
netVars    == <<cursor, flight, attempt, reply, inbox>>
vars       == <<engineVars, clientVars, netVars, spent>>

Idle    == [busy |-> FALSE]
NoReply == [here |-> FALSE]

Flight(updates) == [busy |-> TRUE, updates |-> updates]

(* A request whose answer the tab still waits for.                         *)
Live(r) == r.attempt = attempt[r.client]

Init ==
  /\ EngineInit
  /\ replica = [c \in Clients |-> FreshReplica]
  /\ authored = [c \in Clients |-> <<>>]
  /\ queue = [c \in Clients |-> <<>>]
  /\ cursor = [c \in Clients |-> 0]
  /\ flight = [c \in Clients |-> Idle]
  /\ attempt = [c \in Clients |-> 0]
  /\ reply = [c \in Clients |-> NoReply]
  /\ inbox = {}
  /\ spent = [failures |-> 0, deaths |-> 0, overlaps |-> 0, cancels |-> 0,
              resolutions |-> 0]

-----------------------------------------------------------------------------
(* The editor.                                                             *)

Authored == {i \in Ids : i[2] <= Len(authored[i[1]])}

(* authorBatch(): one unit, at a frame the tab still retains.              *)
Author(c, size, lag) ==
  LET rep  == replica[c]
      made == Len(authored[c])
      unit == [k \in 1..size |->
                 IntentUpdate(<<c, made + k>>, rep.seq - lag, made + 1)]
  IN  /\ rep.live
      /\ rep.boot <= rep.seq - lag
      /\ Cardinality(Authored) + size <= MaxEdits
      /\ authored' = [authored EXCEPT ![c] = @ \o [k \in 1..size |-> made + 1]]
      /\ replica' = [replica EXCEPT ![c].outbox = @ \o unit]
      /\ queue' = [queue EXCEPT ![c] = @ \o unit]
      /\ UNCHANGED <<engineVars, netVars, spent>>

UnitOf(i) == authored[i[1]][i[2]]

(* cancelPendingIntents(): undo of a unit that is wholly unsettled.        *)
CancelPending(c, txn) ==
  LET mine == Where(replica[c].outbox, LAMBDA x : x.txn = txn)
      ids  == [k \in 1..Len(mine) |-> mine[k].id]
  IN  /\ mine # <<>>
      /\ Len(mine) = Len(Where(authored[c], LAMBDA t : t = txn))
      /\ spent.cancels < MaxCancels
      /\ replica' = [replica EXCEPT ![c].outbox =
                       SettlePending(@, ToSet(ids))]
      /\ queue' = [queue EXCEPT ![c] = Append(@, CancelUpdate(ids))]
      /\ spent' = [spent EXCEPT !.cancels = @ + 1]
      /\ UNCHANGED <<engineVars, authored, netVars>>

(* resolveProposal(): restore or dismiss a proposal under review.          *)
ResolveProposal(c, i) ==
  /\ i \in replica[c].proposals \ replica[c].resolved
  /\ spent.resolutions < MaxResolutions
  /\ replica' = [replica EXCEPT ![c].resolved = @ \cup {i}]
  /\ queue' = [queue EXCEPT ![c] = Append(@, ResolvedUpdate(i))]
  /\ spent' = [spent EXCEPT !.resolutions = @ + 1]
  /\ UNCHANGED <<engineVars, authored, netVars>>

-----------------------------------------------------------------------------
(* The transport.                                                          *)

(* buildPayloadForRequest() and the POST.  A poll that would neither send  *)
(* nor find anything changes nothing, so it is not taken.                  *)
Send(c) ==
  /\ ~flight[c].busy
  /\ queue[c] # <<>> \/ cursor[c] < Len(rows)
  /\ \E n \in IF Splits /\ queue[c] # <<>> THEN 1..Len(queue[c])
              ELSE {Len(queue[c])} :
       LET updates == SubSeq(queue[c], 1, n)
       IN  /\ flight' = [flight EXCEPT ![c] = Flight(updates)]
           /\ queue' = [queue EXCEPT ![c] = SubSeq(@, n + 1, Len(@))]
           /\ inbox' = inbox \cup
                {[client |-> c, attempt |-> attempt[c], cursor |-> cursor[c],
                  updates |-> updates, ingested |-> n = 0,
                  verdicts |-> {}]}
  /\ UNCHANGED <<engineVars, replica, authored, cursor, attempt, reply, spent>>

(* The write half of a request.                                            *)
ServerIngest(r) ==
  /\ r \in inbox /\ ~r.ingested
  /\ IngestStart(r)
  /\ inbox' = inbox \ {r}
  /\ UNCHANGED <<clientVars, cursor, flight, attempt, reply, spent>>

ServerStep ==
  /\ IngestStep
  /\ UNCHANGED <<clientVars, netVars, spent>>

ServerEnd ==
  /\ IngestEnd
  /\ inbox' = inbox \cup
       (IF ingest.attempt = attempt[ingest.client]
        THEN {[client |-> ingest.client, attempt |-> ingest.attempt,
               cursor |-> ingest.cursor, updates |-> <<>>, ingested |-> TRUE,
               verdicts |-> ingest.verdicts]}
        ELSE {})    \* nobody waits for this answer
  /\ UNCHANGED <<clientVars, cursor, flight, attempt, reply, spent>>

(* The read half, outside the lock.                                        *)
ServerAnswer(r) ==
  /\ r \in inbox /\ r.ingested
  /\ inbox' = inbox \ {r}
  /\ reply' = [reply EXCEPT ![r.client] =
                 [here |-> TRUE, rows |-> RowsSince(r.cursor),
                  end |-> Len(rows), verdicts |-> r.verdicts]]
  /\ UNCHANGED <<engineVars, clientVars, cursor, flight, attempt, spent>>

(* applyRoomRows(): rows, then dispositions if updates were sent.          *)
Applied(rep, response, sent) ==
  LET caughtUp == ReceiveRows(rep, response.rows)
  IN  IF sent = <<>> THEN caughtUp
      ELSE ReceiveDispositions(caughtUp, {v[1] : v \in response.verdicts})

(* The response arrives.  Delivery windows may overlap: then the next      *)
(* response carries the same rows again.                                   *)
Receive(c) ==
  /\ reply[c].here
  /\ replica' = [replica EXCEPT ![c] = Applied(@, reply[c], flight[c].updates)]
  /\ \/ /\ cursor' = [cursor EXCEPT ![c] = reply[c].end]
        /\ UNCHANGED spent
     \/ /\ spent.overlaps < MaxOverlaps
        /\ spent' = [spent EXCEPT !.overlaps = @ + 1]
        /\ UNCHANGED cursor
  /\ flight' = [flight EXCEPT ![c] = Idle]
  /\ reply' = [reply EXCEPT ![c] = NoReply]
  /\ UNCHANGED <<engineVars, authored, queue, attempt, inbox>>

(* BUG of GiveUp: the updates of a failed request are not put back.        *)
GiveUpWithoutRestore(c) ==
  /\ attempt' = [attempt EXCEPT ![c] = @ + 1]
  /\ flight' = [flight EXCEPT ![c] = Idle]
  /\ reply' = [reply EXCEPT ![c] = NoReply]
  /\ queue' = queue

(* handleRequestFailure(): the request is over for the tab.                *)
GiveUp(c) ==
  /\ attempt' = [attempt EXCEPT ![c] = @ + 1]
  /\ flight' = [flight EXCEPT ![c] = Idle]
  /\ reply' = [reply EXCEPT ![c] = NoReply]
  /\ queue' = [queue EXCEPT ![c] = flight[c].updates \o @]

(* A timeout, a lost response or an error answer: what the server had not  *)
(* begun may be lost with it, or may still be processed.                   *)
RequestFails(c) ==
  /\ flight[c].busy
  /\ spent.failures < MaxFailures
  /\ spent' = [spent EXCEPT !.failures = @ + 1]
  /\ GiveUp(c)
  /\ inbox' \in {inbox, {r \in inbox : r.client # c \/ ~Live(r)}}
  /\ \A r \in inbox' : r.client = c => ~r.ingested
  /\ UNCHANGED <<engineVars, replica, authored, cursor>>

(* The worker dies while it holds the lock.                                *)
ServerDies ==
  /\ spent.deaths < MaxDeaths
  /\ IngestDies
  /\ spent' = [spent EXCEPT !.deaths = @ + 1]
  /\ IF ingest.attempt = attempt[ingest.client]
     THEN GiveUp(ingest.client)
     ELSE UNCHANGED <<attempt, flight, reply, queue>>
  /\ UNCHANGED <<replica, authored, cursor, inbox>>

-----------------------------------------------------------------------------

Next ==
  \/ \E c \in Clients :
       \/ \E size \in UnitSizes, lag \in 0..MaxLag : Author(c, size, lag)
       \/ \E txn \in 1..MaxEdits : CancelPending(c, txn)
       \/ \E i \in Ids : ResolveProposal(c, i)
       \/ Send(c) \/ Receive(c) \/ RequestFails(c)
  \/ \E r \in inbox : ServerIngest(r) \/ ServerAnswer(r)
  \/ ServerStep \/ ServerEnd \/ ServerDies

Spec == Init /\ [][Next]_vars

(* The poll loop reschedules itself after success and failure alike, and a *)
(* response that is not lost arrives; the server keeps working while it    *)
(* has requests.  Nobody is obliged to edit, and nothing has to fail.      *)
ClientWork(c) == Send(c) \/ Receive(c)

ServerWork ==
  \/ \E r \in inbox : ServerIngest(r) \/ ServerAnswer(r)
  \/ ServerStep \/ ServerEnd

Fairness == (\A c \in Clients : WF_vars(ClientWork(c))) /\ WF_vars(ServerWork)

FairSpec == Spec /\ Fairness

-----------------------------------------------------------------------------
(* What the room is, independently of checkpoints: all entries ever        *)
(* accepted, in order, and the document after the first n of them.         *)

WholeLog  == Where(rows, IsIntent)
Logged    == {WholeLog[k].id : k \in DOMAIN WholeLog}
DocAt(n)  == EffectOf(SubSeq(WholeLog, 1, n))
WasParked(i)   == \E k \in DOMAIN rows : rows[k] = Parked(i)
WasResolved(i) == \E k \in DOMAIN rows : rows[k] = Resolved(i)
WasCanceled(i) == \E k \in DOMAIN rows : rows[k] = Voided(i, "canceled")

TypeOK ==
  /\ first \in 1..Len(rows) /\ rows[first].kind = "snapshot"
  /\ ckpt = 0 \/ (ckpt \in first..Len(rows) /\ rows[ckpt].kind = "snapshot")
  /\ floor \in 0..first
  /\ rowFailures \in 0..MaxRowFailures
  /\ \A c \in Clients :
       /\ Len(authored[c]) <= MaxEdits
       /\ cursor[c] \in 0..Len(rows)
       /\ attempt[c] \in 0..(MaxFailures + MaxDeaths)
       /\ reply[c].here => flight[c].busy
       /\ \A x \in ToSet(replica[c].outbox) : x.id[1] = c
       /\ replica[c].deferred # <<>> => replica[c].live

(* No intent is in the log twice, however often it was sent, whatever was  *)
(* trimmed and wherever an ingest died.                                    *)
LoggedOnce ==
  \A j, k \in DOMAIN WholeLog : WholeLog[j].id = WholeLog[k].id => j = k

(* Every replica is the canonical document at its own position: no         *)
(* delivery, overlap, trim, deferral or reset makes it skip or repeat a    *)
(* row.                                                                    *)
ReplicaIsAPrefix ==
  \A c \in Clients : replica[c].live =>
    /\ replica[c].seq <= Len(WholeLog)
    /\ replica[c].doc = DocAt(replica[c].seq)

(* The state the server rebuilds from the retained rows is the one the     *)
(* whole history gives.                                                    *)
LoadIsReplay ==
  HeadSeq = Len(WholeLog) /\ HeadDoc = DocAt(Len(WholeLog))

(* The review list survives compaction: the proposals open in the retained *)
(* rows are those ever parked and never resolved.                          *)
ProposalsSurvive ==
  \A i \in Ids : Open(i) <=> WasParked(i) /\ ~WasResolved(i)

(* An acknowledgement is backed by rows: applied means logged, escalated   *)
(* means parked for review.                                                *)
AckIsBacked ==
  \A v \in decided : /\ v[2] = "applied" => v[1] \in Logged
                     /\ v[2] = "escalated" => WasParked(v[1])

(* A unit applies or escalates as a unit: no member is in the log while    *)
(* another was parked for review.                                          *)
UnitsSettleTogether ==
  \A i \in Logged, c \in Clients : \A n \in DOMAIN authored[c] :
    c = Actor(i) /\ UnitOf(i) = UnitOf(<<c, n>>) => ~WasParked(<<c, n>>)

(* A canceled intent is dead against a late-arriving copy of itself.       *)
CanceledStaysOut ==
  [][\A i \in Ids : WasCanceled(i) /\ i \notin Logged => i \notin Logged']_vars

(* Every authored intent settles: when editing ends nothing stays          *)
(* optimistic, whatever responses were lost and whatever waits behind a    *)
(* deferred reset.                                                         *)
EveryIntentSettles == <>[](\A c \in Clients : replica[c].outbox = <<>>)

(* When editing ends, every tab reaches the head of the room.              *)
TabsConverge ==
  <>[](\A c \in Clients : /\ replica[c].seq = Len(WholeLog)
                          /\ replica[c].deferred = <<>>)

=============================================================================
