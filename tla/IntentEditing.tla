---------------------------- MODULE IntentEditing ----------------------------
(***************************************************************************)
(* Tabs that edit one document through the intent log.  A tab keeps a copy *)
(* of the log up to its cursor and its unsettled intents as authored; its  *)
(* document is what the planner makes of the two.  The server plans a      *)
(* tab's batch over the whole log and appends what it accepts.             *)
(*                                                                         *)
(* Every intent carries, in saw, what its author had on screen: the        *)
(* characters left of, inside and right of its range.  No operation reads  *)
(* saw; the properties compare it with what the log does to the document.  *)
(***************************************************************************)
EXTENDS IntentPlanner

CONSTANTS Tabs,
          Scenes,       \* genesis documents, each with the kinds that the first,
                        \* second, ... intent of each tab may have
          Pipelined     \* whether a tab edits while a request of its is unanswered

Kinds == TextEdits \cup {"replace_attr_content", "split_block", "merge_blocks",
                         "insert_block", "remove_block", "set_attr"}

ASSUME PipelinedIsBool == Pipelined \in BOOLEAN
ASSUME NoneNamesNothing == None \notin Tabs \X Nat
ASSUME MenusAreLists == \A s \in Scenes : s.menu \in [Tabs -> Seq(SUBSET Kinds)]

VARIABLES log, settled, tab, scene

vars == <<log, settled, tab, scene>>

Statuses == {"applied", "escalated", "voided"}

Init ==
  /\ scene \in Scenes
  /\ log = <<>>
  /\ settled = <<>>
  /\ tab = [t \in Tabs |-> [cursor |-> 0, outbox |-> <<>>, sent |-> {}, made |-> 0,
                            doc |-> scene.genesis, predicted |-> <<>>]]

Ids(s) == {s[k].id : k \in DOMAIN s}

(***************************************************************************)
(* What a tab may author: an intent of each kind at every place of the     *)
(* document on its screen.                                                 *)
(***************************************************************************)
Seen(doc, b, f, from, upto) ==
  LET s == Text(doc, b, f)
  IN [left  |-> ToSet(SubSeq(s, 1, from)),
      mid   |-> ToSet(SubSeq(s, from + 1, upto)),
      right |-> ToSet(SubSeq(s, upto + 1, Len(s))),
      attr  |-> IF Has(doc, b) THEN doc[Place(doc, b)].attr ELSE None]

Intent(t, type, b, f, from, upto, to) ==
  [id |-> <<t, tab[t].made + 1>>, actor |-> t, base |-> tab[t].cursor, txn |-> None,
   type |-> type, block |-> b, field |-> f, start |-> from, end |-> upto, to |-> to,
   saw |-> Seen(tab[t].doc, b, f, from, upto)]

AnyField == CHOOSE f \in Fields : TRUE

(* The kinds of the next intent of t's, and the ranges of a document.       *)
Menu(t) == scene.menu[t][tab[t].made + 1]

Spans(doc) == UNION {{<<doc[k].id, f, m, n>> : m, n \in 0 .. Len(doc[k].text[f])} :
                       k \in DOMAIN doc, f \in Fields}

AtSpan(t, y, x) ==
  Intent(t, y, x[1], x[2], x[3], x[4], IF y = "split_block" THEN <<t, tab[t].made + 1>> ELSE None)

SpanIntents(t) ==
  {AtSpan(t, y, x) : x \in {x \in Spans(tab[t].doc) : x[3] = x[4]}, y \in Points \cap Menu(t)} \cup
  {AtSpan(t, y, x) : x \in {x \in Spans(tab[t].doc) : x[3] < x[4]}, y \in Ranges \cap Menu(t)}

Replacements(t) ==
  LET doc == tab[t].doc
  IN {Intent(t, y, doc[k].id, f, 0, Len(doc[k].text[f]), None) :
        y \in {"replace_attr_content"} \cap Menu(t), k \in DOMAIN doc, f \in Fields}

Merges(t) ==
  LET doc == tab[t].doc
  IN {Intent(t, y, doc[k].id, f, 0, 0, doc[k + 1].id) :
        y \in {"merge_blocks"} \cap Menu(t), k \in 1 .. (Len(doc) - 1), f \in Fields}

Insertions(t) ==
  {Intent(t, y, <<t, tab[t].made + 1>>, AnyField, 0, 0, a) :
     y \in {"insert_block"} \cap Menu(t), a \in {None} \cup Ids(tab[t].doc)}

BlockIntents(t) ==
  LET doc == tab[t].doc
  IN {Intent(t, y, doc[k].id, AnyField, 0, 0, None) :
        y \in {"remove_block", "set_attr"} \cap Menu(t), k \in DOMAIN doc}

Authorable(t) ==
  SpanIntents(t) \cup Replacements(t) \cup Merges(t) \cup Insertions(t) \cup BlockIntents(t)

(***************************************************************************)
(* The tab: authorBatch, clientReceive, and the answer to a batch.         *)
(***************************************************************************)
Prediction(rows) == [k \in DOMAIN rows |-> <<rows[k].intent.id, rows[k].status>>]

(* replan: the document and the predictions, from scratch.                 *)
Screen(w, plan) == [w EXCEPT !.doc = plan.head, !.predicted = Prediction(plan.rows)]

Replan(w) == Screen(w, PlanBatch(w.outbox, SubSeq(log, 1, w.cursor), scene.genesis))

(* authorIntent applies the intent to the document on screen; an intent    *)
(* may join the unit of the one authored just before it.                   *)
Author(t) ==
  /\ tab[t].made < Len(scene.menu[t])
  /\ tab[t].sent = {} \/ Pipelined
  /\ \E i \in Authorable(t), joins \in BOOLEAN :
       LET w    == tab[t]
           last == Last(w.outbox)
           unit == IF joins THEN (IF last.txn = None THEN last.id ELSE last.txn) ELSE None
           box  == IF joins
                   THEN [w.outbox EXCEPT ![Len(w.outbox)].txn = unit] ELSE w.outbox
       IN /\ joins => /\ w.outbox # <<>>
                      /\ last.base = w.cursor
                      /\ last.id \notin w.sent
          /\ tab' = [tab EXCEPT ![t] =
                 [w EXCEPT !.outbox = Append(box, [i EXCEPT !.txn = unit]),
                           !.made = @ + 1,
                           !.doc = ApplyIntent(@, i),
                           !.predicted = Append(@, <<i.id,
                              IF Takes(w.doc, i) THEN "applied" ELSE "voided">>)]]
  /\ UNCHANGED <<log, settled, scene>>

(* BUG of Absorb: the rows are taken without a replan.                     *)
AbsorbWithoutReplan(t) ==
  /\ tab[t].sent = {}
  /\ \E n \in (tab[t].cursor + 1) .. Len(log) : tab' = [tab EXCEPT ![t].cursor = n]
  /\ UNCHANGED <<log, settled, scene>>

(* A poll hands the tab some of the rows it lacks, one clientReceive each; *)
(* a row of its own settles the pending original.                          *)
Absorb(t) ==
  /\ tab[t].sent = {}
  /\ \E n \in (tab[t].cursor + 1) .. Len(log) :
       tab' = [tab EXCEPT ![t] = Replan([@ EXCEPT !.cursor = n])]
  /\ UNCHANGED <<log, settled, scene>>

(* The tab sends its outbox; the server plans what is new to it under the  *)
(* room lock, stores the accepted intents and settles the batch.           *)
Commit(rows) ==
  /\ log' = log \o Accepted(rows)
  /\ settled' = settled \o Prediction(rows)

Ingest(t) ==
  /\ tab[t].outbox # <<>> /\ tab[t].sent = {}
  /\ Commit(PlanBatch(tab[t].outbox, log, scene.genesis).rows)
  /\ tab' = [tab EXCEPT ![t].sent = Ids(tab[t].outbox)]
  /\ UNCHANGED scene

(* The intents that a tab has not sent.                                    *)
Unsent(w) == Where(w.outbox, LAMBDA i : i.id \notin w.sent)

(* BUG of Receive: the intents leave the outbox without a replan.          *)
ReceiveWithoutReplan(t) ==
  /\ tab[t].sent # {}
  /\ tab' = [tab EXCEPT ![t].cursor = Len(log), ![t].sent = {},
               ![t].outbox = Unsent(tab[t])]
  /\ UNCHANGED <<log, settled, scene>>

(* The answer: the rows up to the head, then the dispositions.             *)
Receive(t) ==
  /\ tab[t].sent # {}
  /\ tab' = [tab EXCEPT ![t] =
       Replan([@ EXCEPT !.cursor = Len(log), !.sent = {}, !.outbox = Unsent(tab[t])])]
  /\ UNCHANGED <<log, settled, scene>>

Next == \E t \in Tabs : Author(t) \/ Absorb(t) \/ Ingest(t) \/ Receive(t)

Spec == Init /\ [][Next]_vars

(***************************************************************************)
(* Properties.                                                             *)
(***************************************************************************)
(* Types; no intent is based on an entry its tab or the log does not have, *)
(* and every pending intent has its prediction.                            *)
TypeOK ==
  /\ \A k \in DOMAIN log : log[k].actor \in Tabs /\ log[k].base \in 0 .. (k - 1)
  /\ \A k \in DOMAIN settled : settled[k][2] \in Statuses
  /\ \A t \in Tabs : /\ tab[t].cursor \in 0 .. Len(log)
                     /\ tab[t].made \in 0 .. Len(scene.menu[t])
                     /\ \A i \in ToSet(tab[t].outbox) : i.base <= tab[t].cursor
                     /\ Len(tab[t].predicted) = Len(tab[t].outbox)

Order(doc, f) == FlattenSeq([k \in DOMAIN doc |-> doc[k].text[f]])
Chars(doc)    == UNION {ToSet(Order(doc, f)) : f \in Fields}

Precedes(doc, f, x, y) ==
  LET s == Order(doc, f) IN \E m, n \in DOMAIN s : m < n /\ s[m] = x /\ s[n] = y

(* An entry does to the document it meets what its author did on screen:   *)
(* it removes the characters selected and no others, types between the     *)
(* characters it was typed between, cuts the block where it was cut, and   *)
(* overwrites no attribute its author had not seen.                        *)
AsMeant(doc, e) ==
  LET after == Effect(doc, e)
      kept  == Chars(after)
  IN CASE e.type \in TextEdits ->
            /\ Chars(doc) \ kept = e.saw.mid \cap Chars(doc)
            /\ e.type # "delete_text" =>
                 /\ \A x \in e.saw.left \cap kept  : Precedes(after, e.field, x, e.id)
                 /\ \A x \in e.saw.right \cap kept : Precedes(after, e.field, e.id, x)
       [] e.type = "split_block" ->
            /\ e.saw.right \cap ToSet(Text(after, e.block, e.field)) = {}
            /\ e.saw.left \cap ToSet(Text(after, e.to, e.field)) = {}
       [] e.type = "set_attr" ->
            LET old == doc[Place(doc, e.block)].attr
            IN old = e.saw.attr \/ old \in {e.actor} \X Nat
       [] OTHER -> TRUE

(* Every intent the server applies does what its author meant, whatever    *)
(* landed in between and whatever else is in its batch or its unit: the    *)
(* transforms and the frame rules put text up for review rather than       *)
(* misplace it.                                                            *)
AppliedAsMeant ==
  [][\A k \in (Len(log) + 1) .. Len(log') :
       LET doc == Replay(scene.genesis, SubSeq(log', 1, k - 1))
       IN Takes(doc, log'[k]) => AsMeant(doc, log'[k])]_vars

(* What a tab has dropped from its screen stays dropped: an intent that it *)
(* saw escalate or turn void is never applied after all, by a later replan *)
(* or by the server, however the rows were divided among its polls.  The   *)
(* author re-authors what was dropped, and would have it twice.            *)
SetAsideStays ==
  [][\A t \in Tabs : \A k \in DOMAIN tab[t].predicted :
       tab[t].predicted[k][2] # "applied" =>
         <<tab[t].predicted[k][1], "applied">> \notin ToSet(tab'[t].predicted) \cup ToSet(settled')]_vars

(* authorIntent only applies the new intent to the document on screen.     *)
(* That is "equivalent to a full replan": for the document and for the     *)
(* predictions, whatever is pending before it and however it was judged.   *)
ScreenIsReplan == \A t \in Tabs : Replan(tab[t]) = tab[t]

(* What of the document an intent touches.                                 *)
Footprint(i) ==
  CASE i.type \in TextEdits \cup {"replace_attr_content"} -> {<<i.block, i.field>>}
    [] i.type = "set_attr"                                -> {<<i.block, "attr">>}
    [] OTHER -> ({i.block, i.to} \ {None}) \X (Fields \cup {"attr"})

(* Nobody is asked to review work that met nobody: a batch whose intents   *)
(* touch no field that others have touched since is applied whole; "a      *)
(* remote write to a different field of the same block does not conflict". *)
DisjointWorkApplies ==
  [][\A t \in Tabs :
       LET box   == tab[t].outbox
           since  == Least({box[k].base : k \in DOMAIN box})
           others == {log[n] : n \in {m \in (since + 1) .. Len(log) : log[m].actor # t}}
       IN /\ tab[t].sent = {} /\ tab'[t].sent # {}
          /\ \A i \in ToSet(box), p \in others : Footprint(i) \cap Footprint(p) = {}
          => \A k \in (Len(settled) + 1) .. Len(settled') : settled'[k][2] = "applied"]_vars

=============================================================================
