----------------------------- MODULE RoomLifetime -----------------------------
(***************************************************************************)
(* The lifetime of a per-post room.  Presence decides when a room belongs  *)
(* to nobody; reset_room() then deletes its rows and its meta; the         *)
(* generation token, derived from the id of the first row, tells the tabs  *)
(* that still hold the old room; and the polling manager of a tab compares *)
(* it on two lanes: receives (a poll, or a frame of the SSE stream), which *)
(* bring rows and move the cursor, and sends beside a stream, whose        *)
(* verdicts are held until the cursor has reached the head they saw.       *)
(*                                                                         *)
(* Requests of different tabs interleave between storage accesses.  The    *)
(* engine is reduced to what every engine promises the transport: genesis  *)
(* in an empty room, one row per update, no second row for the same one.   *)
(***************************************************************************)
EXTENDS Integers, FiniteSets, SequencesExt

CONSTANTS Tabs, Writers, Streaming,      \* the tabs, those that edit or receive by SSE
          MaxEdits, MaxOpens,            \* edits of a tab, openings
          MaxTroubles,                   \* expired tokens, beats and lost answers
          MaxRequests,                   \* requests at the server at one time
          Raced                          \* whether presence accesses of requests interleave

ASSUME Kinds == IsFiniteSet(Tabs) /\ Writers \subseteq Tabs /\ Streaming \subseteq Tabs
ASSUME Bounds == {MaxEdits, MaxOpens, MaxTroubles, MaxRequests} \subseteq Nat /\ Raced \in BOOLEAN

VARIABLES log, cut, generation,          \* rows ever stored, those deleted, room meta
          tokens, awareness, beat,       \* presence
          tab, req,                      \* browser tabs, PHP requests by tab and lane
          attending, struck, spent       \* history: who is sure of the room, edits a reset took
                                         \* from a request at work; bounds used

room     == <<log, cut, generation>>
presence == <<tokens, awareness, beat>>
history  == <<attending, struck>>
vars     == <<room, presence, tab, req, history, spent>>

Lanes == {"receive", "send", "beacon"}

(* A row is its id in log, and the edit it stores; a reset deletes all.    *)
Present   == (cut + 1)..Len(log)
Genesis   == <<>>
WithGenesis == IF Present = {} THEN Append(log, Genesis) ELSE log

Idle   == [pc |-> "idle", batch |-> {}, after |-> 0, rows |-> {}, end |-> 0, gen |-> 0, first |-> FALSE]
Closed == [open |-> FALSE, view |-> {}, cursor |-> 0, gen |-> 0, written |-> {}, queue |-> {},
           settled |-> {}, tails |-> <<>>]

(* A room somebody abandoned, and no tab open.                             *)
Init ==
  /\ log = <<Genesis>> /\ cut = 0 /\ generation = 1
  /\ tokens = [t \in Tabs |-> "none"] /\ awareness = {} /\ beat = [t \in Tabs |-> <<>>]
  /\ tab = [t \in Tabs |-> Closed]
  /\ req = [t \in Tabs |-> [l \in Lanes |-> Idle]]
  /\ attending = {} /\ struck = {} /\ spent = [edits |-> [t \in Tabs |-> 0], opens |-> 0, troubles |-> 0]

InFlight == {r \in Tabs \X Lanes : req[r[1]][r[2]] # Idle}
Admitted == Cardinality(InFlight) < MaxRequests

(***************************************************************************)
(* Presence: the transient of tokens and the sync awareness.               *)
(***************************************************************************)
(* BUG of OthersPresent: only the sync awareness is asked.                 *)
OthersPresentByAwareness(t) == awareness \ {t} # {}

OthersPresent(t) == \E u \in Tabs \ {t} : tokens[u] # "none" \/ u \in awareness
RoomExists == Present # {} \/ generation # 0

(* A beat reads and then writes the list of tokens, and its write undoes   *)
(* the joins it has not seen; a join decides to reset and then deletes.    *)
(* Unless Raced, no presence access of another request falls in between.   *)
Quiet == Raced \/ /\ \A u \in Tabs : beat[u] = <<>>
                  /\ \A u \in Tabs, l \in Lanes : req[u][l].pc \notin {"wipe-rows", "wipe-meta"}

(* The page render stamps the token.  A name stands for another page once  *)
(* nothing of the last one is left.                                        *)
Open(t) ==
  /\ Quiet /\ spent.opens < MaxOpens
  /\ ~tab[t].open /\ tokens[t] = "none" /\ t \notin awareness
  /\ req[t] = [l \in Lanes |-> Idle] /\ beat[t] = <<>>
  /\ tab' = [tab EXCEPT ![t] = [Closed EXCEPT !.open = TRUE]]
  /\ tokens' = [tokens EXCEPT ![t] = "seen"]
  /\ spent' = [spent EXCEPT !.opens = @ + 1]
  /\ UNCHANGED <<room, awareness, beat, req, history>>

(* BUG of Beaten: the beat forgets that the tab has joined.                *)
BeatenAnew(known, t) == [known EXCEPT ![t] = "seen"]

(* A heartbeat probe: record_token reads the whole list, and writes it.    *)
Beaten(known, t) == [known EXCEPT ![t] = IF @ = "joined" THEN @ ELSE "seen"]

BeatRead(t) ==
  /\ Quiet /\ tab[t].open /\ beat[t] = <<>> /\ spent.troubles < MaxTroubles
  /\ beat' = [beat EXCEPT ![t] = <<tokens>>]
  /\ spent' = [spent EXCEPT !.troubles = @ + 1]
  /\ UNCHANGED <<room, tokens, awareness, tab, req, history>>

BeatWrite(t) ==
  /\ beat[t] # <<>>
  /\ tokens' = Beaten(beat[t][1], t)
  /\ beat' = [beat EXCEPT ![t] = <<>>]
  /\ attending' = {u \in attending : beat[t][1][u] = "joined"}
  /\ UNCHANGED <<room, awareness, tab, req, struck, spent>>

(* Five minutes without a beat or a request: the tab slept, or it is gone. *)
(* No request takes that long.                                             *)
Expire(t) ==
  /\ Quiet /\ (tokens[t] # "none" \/ t \in awareness)
  /\ InFlight = {} /\ \A u \in Tabs : beat[u] = <<>>
  /\ tab[t].open => spent.troubles < MaxTroubles
  /\ tokens' = [tokens EXCEPT ![t] = "none"] /\ awareness' = awareness \ {t}
  /\ attending' = attending \ {t}
  /\ spent' = IF tab[t].open THEN [spent EXCEPT !.troubles = @ + 1] ELSE spent
  /\ UNCHANGED <<room, beat, tab, req, struck>>

(* The reset: rows, then meta; other requests run in between, and what one *)
(* of them has stored and not answered yet is deleted under it.            *)
UnderWork == UNION {req[r[1]][r[2]].batch : r \in {r \in Tabs \X Lanes :
  tab[r[1]].open /\ req[r[1]][r[2]].pc \in {"read", "generation", "mint", "answer"}}}

WipeRows(t, l) ==
  /\ req[t][l].pc = "wipe-rows"
  /\ cut' = Len(log)
  /\ req' = [req EXCEPT ![t][l].pc = "wipe-meta"]
  /\ struck' = struck \cup UnderWork
  /\ UNCHANGED <<log, generation, presence, tab, attending, spent>>

WipeMeta(t, l) ==
  /\ req[t][l].pc = "wipe-meta"
  /\ generation' = 0 /\ awareness' = {}
  /\ req' = [req EXCEPT ![t][l] = IF l = "beacon" THEN Idle ELSE [@ EXCEPT !.pc = "ingest", !.first = FALSE]]
  /\ UNCHANGED <<log, cut, tokens, beat, tab, history, spent>>

(* pagehide: the leave beacon.                                             *)
Leave(t) ==
  /\ Quiet /\ Admitted /\ tab[t].open /\ req[t]["beacon"] = Idle
  /\ tokens' = [tokens EXCEPT ![t] = "none"] /\ awareness' = awareness \ {t}
  /\ req' = IF OthersPresent(t) \/ ~RoomExists THEN req
            ELSE [req EXCEPT ![t]["beacon"].pc = "wipe-rows"]
  /\ tab' = [tab EXCEPT ![t] = Closed] /\ attending' = attending \ {t}
  /\ UNCHANGED <<room, beat, struck, spent>>

(***************************************************************************)
(* The tab's requests.                                                     *)
(***************************************************************************)
Edit(t) ==
  /\ t \in Writers /\ tab[t].open /\ tab[t].cursor > 0 /\ spent.edits[t] < MaxEdits
  /\ LET e == <<t, spent.edits[t] + 1>> IN
     tab' = [tab EXCEPT ![t].written = @ \cup {e}, ![t].queue = @ \cup {e}]
  /\ spent' = [spent EXCEPT !.edits[t] = @ + 1]
  /\ UNCHANGED <<room, presence, req, history>>

(* The receive lane polls or reads a stream, as the settling window, the   *)
(* tab's visibility and failures decide.  A poll takes the queue unless a  *)
(* send is in flight; an open stream goes on with another frame.           *)
Receive(t) ==
  \E streams \in {FALSE, (t \in Streaming)} : \E pc \in {"note", "read"} :
    LET takes == IF streams \/ req[t]["send"] # Idle THEN {} ELSE tab[t].queue IN
    /\ Admitted /\ tab[t].open /\ req[t]["receive"] = Idle
    /\ pc = "read" => streams /\ tab[t].cursor > 0
    /\ req' = [req EXCEPT ![t]["receive"] = [Idle EXCEPT !.pc = pc, !.batch = takes, !.after = tab[t].cursor]]
    /\ tab' = [tab EXCEPT ![t].queue = @ \ takes]
    /\ UNCHANGED <<room, presence, history, spent>>

SendNow(t) ==
  /\ Admitted /\ tab[t].open /\ t \in Streaming /\ tab[t].queue # {} /\ req[t]["send"] = Idle
  /\ req' = [req EXCEPT ![t]["send"] = [Idle EXCEPT !.pc = "note", !.batch = tab[t].queue]]
  /\ tab' = [tab EXCEPT ![t].queue = {}]
  /\ UNCHANGED <<room, presence, history, spent>>

(* note_sync_request: the first request of a token is the tab's join; with *)
(* nobody else there the room is reset before the tab is served.  A tab    *)
(* that comes while another's reset is decided is sure of nothing yet.     *)
Condemned(t) == \E u \in Tabs \ {t}, l \in Lanes : req[u][l].pc = "wipe-rows"

Note(t, l) ==
  /\ Quiet /\ req[t][l].pc = "note"
  /\ tokens' = [tokens EXCEPT ![t] = "joined"]
  /\ req' = IF tokens[t] = "joined" \/ OthersPresent(t) \/ ~RoomExists
            THEN [req EXCEPT ![t][l].pc = "ingest"]
            ELSE [req EXCEPT ![t][l].pc = "wipe-rows", ![t][l].first = t \notin attending]
  /\ attending' = IF tab[t].open /\ ~Condemned(t) THEN attending \cup {t} ELSE attending
  /\ UNCHANGED <<room, awareness, beat, tab, struck, spent>>

(* The engine: genesis in an empty room, one row per new update.           *)
Fresh(batch) == {e \in batch : \A i \in Present : log[i] # e}

(* The rows of a batch, in the order in which its tab made the edits.      *)
InOrder(batch) == {rows \in [1..Cardinality(batch) -> batch] :
  Range(rows) = batch /\ \A i, j \in DOMAIN rows : i < j => rows[i][2] < rows[j][2]}

Ingest(t, l) ==
  /\ req[t][l].pc = "ingest"
  /\ awareness' = awareness \cup {t}
  /\ \E rows \in InOrder(Fresh(req[t][l].batch)) :
       log' = IF req[t][l].batch = {} THEN log ELSE WithGenesis \o rows
  /\ req' = [req EXCEPT ![t][l].pc = "read"]
  /\ UNCHANGED <<cut, generation, tokens, beat, tab, history, spent>>

(* get_updates_since: a send reads from past the head.                     *)
Read(t, l) ==
  LET after == IF l = "send" THEN Len(log) + 1 ELSE req[t][l].after
      ids   == (cut + 1)..Len(log')
  IN
  /\ req[t][l].pc = "read"
  /\ log' = WithGenesis
  /\ req' = [req EXCEPT ![t][l].pc = "generation", ![t][l].end = Len(log'),
                        ![t][l].rows = {i \in ids : i > after}]
  /\ UNCHANGED <<cut, generation, presence, tab, history, spent>>

(* room_generation: the stored token, else one derived from the first row, *)
(* else a random one; the second is stored in a statement of its own.      *)
Held    == {generation} \cup {tab[t].gen : t \in Tabs} \cup {req[r[1]][r[2]].gen : r \in Tabs \X Lanes}
Random  == Max({-n : n \in 1..(Cardinality(Held) + 1)} \ Held)

(* BUG of Derived: the id of the first row, whether or not there is one.   *)
DerivedUnchecked == cut + 1

Derived == IF Present # {} THEN cut + 1 ELSE Random

Generation(t, l) ==
  /\ req[t][l].pc = "generation"
  /\ req' = [req EXCEPT ![t][l].gen = IF generation # 0 THEN generation ELSE Derived,
                        ![t][l].pc = IF generation # 0 THEN "answer" ELSE "mint"]
  /\ UNCHANGED <<room, presence, tab, history, spent>>

StoreGeneration(t, l) ==
  /\ req[t][l].pc = "mint"
  /\ generation' = req[t][l].gen
  /\ req' = [req EXCEPT ![t][l].pc = "answer"]
  /\ UNCHANGED <<log, cut, presence, tab, history, spent>>

(***************************************************************************)
(* The answer, applied by the polling manager.                             *)
(***************************************************************************)
(* BUG of Drained: verdicts are applied as they come.                      *)
DrainedAtOnce(tb) ==
  [tb EXCEPT !.settled = @ \cup UNION {tb.tails[i].batch : i \in DOMAIN tb.tails}, !.tails = <<>>]

(* Tails drain oldest first, as far as the cursor has come.                *)
Drained(tb) ==
  LET n == Max({0} \cup {i \in DOMAIN tb.tails : \A j \in 1..i : tb.tails[j].end <= tb.cursor}) IN
  [tb EXCEPT !.settled = @ \cup UNION {tb.tails[i].batch : i \in 1..n},
             !.tails = SubSeq(@, n + 1, Len(@))]

(* A tab's own row settles the edit, whatever becomes of its verdict.      *)
Received(tb, r) ==
  Drained([tb EXCEPT !.gen = r.gen, !.tails = IF r.end < tb.cursor THEN <<>> ELSE @,
                     !.cursor = r.end, !.view = @ \cup r.rows,
                     !.settled = @ \cup r.batch \cup (tb.written \cap {log[i] : i \in r.rows})])

Sent(tb, r) ==
  IF tb.gen \notin {0, r.gen} THEN tb
  ELSE Drained([tb EXCEPT !.tails = Append(@, [end |-> r.end, batch |-> r.batch])])

(* BUG of Restarts: the room is left as it is.                             *)
RestartsNothing(tb, gen) == {[tb EXCEPT !.gen = gen]}

(* restartRoom: the session bootstraps again with what it derives anew, or *)
(* leaves the room.                                                        *)
Restarts(tb, gen) ==
  {Closed, [tb EXCEPT !.gen = gen, !.cursor = 0, !.view = {}, !.tails = <<>>,
                      !.queue = tb.written \ tb.settled]}

Answer(t, l) ==
  LET r == req[t][l] IN
  /\ r.pc = "answer"
  /\ \E tb \in IF ~tab[t].open THEN {tab[t]}
               ELSE IF l = "send" THEN {Sent(tab[t], r)}
               ELSE IF tab[t].gen \in {0, r.gen} THEN {Received(tab[t], r)}
               ELSE Restarts(tab[t], r.gen) :
       /\ tab' = [tab EXCEPT ![t] = tb]
       /\ attending' = IF tb.open THEN attending ELSE attending \ {t}
  /\ req' = [req EXCEPT ![t][l] = Idle]
  /\ UNCHANGED <<room, presence, struck, spent>>

(* The answer is lost: the same updates go out again.                      *)
LoseAnswer(t, l) ==
  /\ req[t][l].pc = "answer" /\ tab[t].open /\ spent.troubles < MaxTroubles
  /\ tab' = [tab EXCEPT ![t].queue = @ \cup req[t][l].batch]
  /\ req' = [req EXCEPT ![t][l] = Idle]
  /\ spent' = [spent EXCEPT !.troubles = @ + 1]
  /\ UNCHANGED <<room, presence, history>>

Serve(t, l) == \/ Note(t, l) \/ WipeRows(t, l) \/ WipeMeta(t, l) \/ Ingest(t, l) \/ Read(t, l)
               \/ Generation(t, l) \/ StoreGeneration(t, l) \/ Answer(t, l)

Next == \E t \in Tabs :
  \/ Open(t) \/ BeatRead(t) \/ BeatWrite(t) \/ Expire(t) \/ Leave(t)
  \/ Edit(t) \/ Receive(t) \/ SendNow(t)
  \/ \E l \in Lanes : Serve(t, l) \/ LoseAnswer(t, l)

Spec == Init /\ [][Next]_vars

(* PHP requests run to their end, and each lane of a tab goes on: the one  *)
(* receives again, the other sends what is queued and gets a connection    *)
(* (MaxRequests) in the end.  Nobody has to open, close, edit, beat, sleep.*)
Lane(t, l) == Serve(t, l) \/ (l = "receive" /\ Receive(t)) \/ (l = "send" /\ SendNow(t))

Fairness == \A t \in Tabs : /\ WF_vars(BeatWrite(t)) /\ WF_vars(Lane(t, "receive"))
                           /\ WF_vars(Lane(t, "beacon")) /\ SF_vars(Lane(t, "send"))

LiveSpec == Spec /\ Fairness

(***************************************************************************)
(* Properties.                                                             *)
(***************************************************************************)
Edits == Tabs \X (1..MaxEdits)
Ids   == 1..Len(log)

(* Types: rows, presence, the tabs' transport state, the requests' steps.  *)
TypeOK ==
  /\ log \in Seq(Edits \cup {Genesis}) /\ cut \in 0..Len(log)
  /\ generation \in -(4 * Cardinality(Tabs) + 2)..Len(log)
  /\ tokens \in [Tabs -> {"none", "seen", "joined"}] /\ awareness \subseteq Tabs
  /\ \A t \in Tabs :
       /\ tab[t].open \in BOOLEAN /\ tab[t].view \subseteq Ids /\ tab[t].cursor \in 0..Len(log)
       /\ tab[t].queue \cup tab[t].settled \subseteq tab[t].written /\ tab[t].written \subseteq Edits
       /\ \A l \in Lanes : req[t][l].pc \in {"idle", "note", "wipe-rows", "wipe-meta", "ingest",
                                              "read", "generation", "mint", "answer"}
  /\ attending \subseteq Tabs /\ struck \subseteq Edits

(* Rows first, verdicts after (the send lane's comment): when an edit      *)
(* settles in a tab that knows the room by its present first row, the      *)
(* present row of the edit has been delivered to the tab.  Left aside are  *)
(* the edits whose rows a reset deleted under the request that stored them *)
(* (none, unless presence accesses interleave).                            *)
RowsBeforeVerdicts ==
  [][\A t \in Tabs, i \in Present :
       log[i] \in (tab'[t].settled \ tab[t].settled) \ struck /\ tab'[t].gen > cut => i \in tab'[t].view]_vars

(* "Later requests from the same tab never reset anything"                 *)
(* (docs/plan/room-lifetime.md): a reset is started only by the request    *)
(* with which a tab joins, never by one of a tab that is sure of the room: *)
(* its token stands as joined, no beat wrote an older list over it, and it *)
(* did not come while another's join had decided to reset.                 *)
LaterRequestsNeverReset == \A t \in Tabs, l \in {"receive", "send"} :
  req[t][l].pc \in {"wipe-rows", "wipe-meta"} => req[t][l].first

(* The rows of a room are deleted only by a tab that is alone in it: no    *)
(* tab that is sure of the room, as above, loses it to another tab's join  *)
(* or leave, whatever presence accesses of other requests come between.    *)
ParticipantKeepsRoom ==
  [][cut' # cut => \E t \in Tabs, l \in Lanes :
       req[t][l].pc = "wipe-rows" /\ req'[t][l].pc # "wipe-rows" /\ attending \subseteq {t}]_vars

(* Whatever was reset, lost or slept through, in the end every open tab    *)
(* shows exactly the rows of the room, under its generation, with nothing  *)
(* queued, held or unsettled.                                              *)
Converged(tb) == tb.open =>
  /\ tb.view = Present /\ tb.gen = generation
  /\ tb.queue = {} /\ tb.tails = <<>> /\ tb.written \subseteq tb.settled

TabsConverge == <>[](\A t \in Tabs : Converged(tab[t]))
=============================================================================
