---------------------------- MODULE IntentPlanner ----------------------------
(***************************************************************************)
(* The planner of the intent log: the pure function that decides, for one  *)
(* batch of intents and a log, which intents are applied and with what     *)
(* payload, which are void and which go to review.  The server runs it at  *)
(* ingest and every tab runs it over its copy of the log.                  *)
(*                                                                         *)
(* A document is a sequence of blocks; a field of a block is a sequence of *)
(* characters, and every character has an identity: the intent that typed  *)
(* it.  An intent types one character, which carries the intent's id.      *)
(*                                                                         *)
(* Log positions count from 0 as in the code: entry n is log[n + 1].       *)
(***************************************************************************)
EXTENDS Integers, Sequences, FiniteSets, SequencesExt, Selection

CONSTANTS Fields,       \* rich-text fields of a block
          None          \* no block, no value

Smaller(m, n) == IF m < n THEN m ELSE n
Least(S)      == CHOOSE m \in S : \A n \in S : m <= n
Greatest(S)   == CHOOSE m \in S : \A n \in S : n <= m

(* A position that may be missing is a set of at most one number.          *)
First(one, other) == IF one # {} THEN one ELSE other
Lowest(S)         == IF S = {} THEN {} ELSE {Least(S)}
Highest(S)        == IF S = {} THEN {} ELSE {Greatest(S)}

(***************************************************************************)
(* Documents and the reducer, apply_intent.                                *)
(***************************************************************************)
Has(doc, b)     == \E k \in DOMAIN doc : doc[k].id = b
Place(doc, b)   == CHOOSE k \in DOMAIN doc : doc[k].id = b
Text(doc, b, f) == IF Has(doc, b) THEN doc[Place(doc, b)].text[f] ELSE <<>>

NewBlock(b, f, s, attr) ==
  [id |-> b, text |-> [g \in Fields |-> IF g = f THEN s ELSE <<>>], attr |-> attr]

Write(doc, b, f, s) == [doc EXCEPT ![Place(doc, b)].text[f] = s]

(* The text with the characters from+1 .. upto replaced by new.            *)
Splice(s, from, upto, new) == SubSeq(s, 1, from) \o new \o SubSeq(s, upto + 1, Len(s))

InsertAfter(doc, block, anchor) ==
  IF anchor = None THEN <<block>> \o doc
  ELSE IF Has(doc, anchor) THEN InsertAt(doc, Place(doc, anchor) + 1, block)
  ELSE Append(doc, block)

(* Whether apply_intent reports the intent applied rather than voided.     *)
Takes(doc, i) ==
  CASE i.type = "insert_block" -> ~Has(doc, i.block)
    [] i.type = "merge_blocks" -> Has(doc, i.block) /\ Has(doc, i.to) /\ i.block # i.to
    [] i.type = "split_block"  -> Has(doc, i.block) /\ ~Has(doc, i.to)
    [] i.type = "delete_text"  -> /\ Has(doc, i.block)
                                  /\ i.start < Smaller(i.end, Len(Text(doc, i.block, i.field)))
    [] OTHER                   -> Has(doc, i.block)

Effect(doc, i) ==
  LET s    == Text(doc, i.block, i.field)
      from == Smaller(i.start, Len(s))
      upto == Smaller(i.end, Len(s))
      at   == Place(doc, i.block)
  IN CASE i.type = "insert_text"  -> Write(doc, i.block, i.field, Splice(s, from, from, <<i.id>>))
       [] i.type = "delete_text"  -> Write(doc, i.block, i.field, Splice(s, from, upto, <<>>))
       [] i.type = "replace_text" -> Write(doc, i.block, i.field, Splice(s, from, upto, <<i.id>>))
       [] i.type = "replace_attr_content" -> Write(doc, i.block, i.field, <<i.id>>)
       [] i.type = "split_block"  ->
            InsertAfter(Write(doc, i.block, i.field, SubSeq(s, 1, from)),
                        NewBlock(i.to, i.field, SubSeq(s, from + 1, Len(s)), doc[at].attr),
                        i.block)
       [] i.type = "merge_blocks" ->
            RemoveAt(Write(doc, i.block, i.field, s \o Text(doc, i.to, i.field)),
                     Place(doc, i.to))
       [] i.type = "insert_block" ->
            InsertAfter(doc, NewBlock(i.block, i.field, <<>>, None), i.to)
       [] i.type = "remove_block" -> RemoveAt(doc, at)
       [] i.type = "set_attr"     -> [doc EXCEPT ![at].attr = i.id]

ApplyIntent(doc, i) == IF Takes(doc, i) THEN Effect(doc, i) ELSE doc

Replay(doc, log) == Folded(ApplyIntent, doc, log)

(***************************************************************************)
(* Frames: the text state a payload's offsets are expressed in.  A key is  *)
(* a field of a block, or the whole block.                                 *)
(***************************************************************************)
Whole == "whole block"

(* BUG of FrameKeysOverlap: frames are whole blocks.                       *)
FrameKeysByBlock(j, k) == j[1] = k[1]

FrameKeysOverlap(j, k) == j[1] = k[1] /\ (j[2] = k[2] \/ Whole \in {j[2], k[2]})

TextEdits == {"insert_text", "delete_text", "replace_text"}
Points    == {"insert_text", "split_block"}
Ranges    == {"delete_text", "replace_text"}

FrameReads(i) ==
  CASE i.type \in TextEdits \cup {"split_block"} -> <<<<i.block, i.field>>>>
    [] i.type = "merge_blocks"                   -> <<<<i.block, i.field>>, <<i.to, Whole>>>>
    [] OTHER                                     -> <<>>

FrameWrites(i) ==
  CASE i.type \in TextEdits \cup {"replace_attr_content"} -> {<<i.block, i.field>>}
    [] i.type = "split_block"  -> {<<i.block, i.field>>, <<i.to, i.field>>}
    [] i.type = "merge_blocks" -> {<<i.block, i.field>>, <<i.to, Whole>>}
    [] OTHER                   -> {}

CreatedIds(i) ==
  CASE i.type = "insert_block" -> {i.block}
    [] i.type = "split_block"  -> {i.to}
    [] OTHER                   -> {}

RequiredTargets(i) ==
  CASE i.type = "insert_block" -> <<>>
    [] i.type = "merge_blocks" -> <<i.block, i.to>>
    [] OTHER                   -> <<i.block>>

(***************************************************************************)
(* transform_one: an intent over one accepted intent of somebody else, by  *)
(* the kind of the latter.  doc is the document it was applied to.         *)
(***************************************************************************)
Clean(i)    == [outcome |-> "clean", intent |-> i]
Escalate(i) == [outcome |-> "escalate", intent |-> i]
VoidOut(i)  == [outcome |-> "void", intent |-> i]

MoveTo(i, b, by) == Clean([i EXCEPT !.block = b, !.start = @ + by, !.end = @ + by])

TargetsTextOf(i, b, f) ==
  i.type \in TextEdits \cup {"split_block"} /\ i.block = b /\ i.field = f
TargetsAnyTextOf(i, b) ==
  i.type \in TextEdits \cup {"split_block", "replace_attr_content"} /\ i.block = b

OverRemove(i, p, doc) ==
  IF ~Has(doc, p.block) \/ p.block \notin ToSet(RequiredTargets(i)) THEN Clean(i)
  ELSE IF i.type = "remove_block" THEN VoidOut(i) ELSE Escalate(i)

OverSplit(i, p) ==
  IF \/ ~TargetsTextOf(i, p.block, p.field)
     \/ i.type \in Points /\ i.start < p.start
     \/ i.type \in Ranges /\ i.end <= p.start
  THEN Clean(i)
  ELSE IF i.start >= p.start THEN MoveTo(i, p.to, -p.start) ELSE Escalate(i)

AbsorbedText(i, p, doc) ==
  IF i.type = "replace_attr_content" \/ i.field # p.field THEN Escalate(i)
  ELSE IF ~Has(doc, p.block) \/ ~Has(doc, p.to) THEN Clean(i)
  ELSE MoveTo(i, p.block, Len(Text(doc, p.block, p.field)))

OverMerge(i, p, doc) ==
  IF TargetsAnyTextOf(i, p.to) THEN AbsorbedText(i, p, doc)
  ELSE IF i.type = "merge_blocks" /\ i.to = p.to /\ i.block = p.block THEN VoidOut(i)
  ELSE IF Has(doc, p.to) /\ p.to \in ToSet(RequiredTargets(i)) THEN Escalate(i)
  ELSE Clean(i)

OverInsert(i, p) ==
  IF ~TargetsTextOf(i, p.block, p.field) THEN Clean(i)
  ELSE IF p.start <= i.start THEN MoveTo(i, i.block, 1)
  ELSE IF i.type \in Points \/ p.start >= i.end THEN Clean(i)
  ELSE Escalate(i)

(* Characters a destructive edit adds to the text, and map_position for a  *)
(* position that is not inside the destroyed range.                        *)
Gain(p) == (IF p.type = "replace_text" THEN 1 ELSE 0) - (p.end - p.start)

MapPosition(p, n) == IF n <= p.start THEN n ELSE n + Gain(p)

Inside(p, n) == p.start < n /\ n < p.end

PointOverDestroy(i, p) ==
  IF Inside(p, i.start) THEN Escalate(i)
  ELSE Clean([i EXCEPT !.start = MapPosition(p, @), !.end = MapPosition(p, @)])

RangeOverDestroy(i, p) ==
  LET shift(n) == IF n >= p.end THEN n + Gain(p) ELSE n
      cut(n)   == IF Inside(p, n) THEN p.start ELSE MapPosition(p, n)
  IN IF i.end <= p.start \/ i.start >= p.end
     THEN Clean([i EXCEPT !.start = shift(@), !.end = shift(@)])
     ELSE IF "replace_text" \in {i.type, p.type} THEN Escalate(i)
     ELSE IF cut(i.end) <= cut(i.start) THEN VoidOut(i)
     ELSE Clean([i EXCEPT !.start = cut(@), !.end = cut(@)])

OverDestroy(i, p) ==
  IF ~TargetsTextOf(i, p.block, p.field) THEN Clean(i)
  ELSE IF i.type \in Points THEN PointOverDestroy(i, p) ELSE RangeOverDestroy(i, p)

OverRewrite(i, p) ==
  IF /\ i.block = p.block /\ i.field = p.field
     /\ i.type \in TextEdits \cup {"split_block", "replace_attr_content"}
  THEN Escalate(i) ELSE Clean(i)

OverRegister(i, p) ==
  IF i.type = "set_attr" /\ i.block = p.block THEN Escalate(i) ELSE Clean(i)

TransformOne(i, p, doc) ==
  CASE p.type = "remove_block"         -> OverRemove(i, p, doc)
    [] p.type = "split_block"          -> OverSplit(i, p)
    [] p.type = "merge_blocks"         -> OverMerge(i, p, doc)
    [] p.type = "insert_text"          -> OverInsert(i, p)
    [] p.type \in Ranges               -> OverDestroy(i, p)
    [] p.type = "replace_attr_content" -> OverRewrite(i, p)
    [] p.type = "set_attr"             -> OverRegister(i, p)
    [] OTHER                           -> Clean(i)

(***************************************************************************)
(* rebase_intent: transform_one over every entry after the intent's base,  *)
(* until one settles it; at is the position of the last entry looked at    *)
(* and doc the document after it.                                          *)
(***************************************************************************)
Past(result, at, doc) == [outcome |-> result.outcome, intent |-> result.intent, at |-> at, doc |-> doc]

TransformOver(i, p, doc) == IF p.actor = i.actor THEN Clean(i) ELSE TransformOne(i, p, doc)

(* BUG of RebaseOver: a later entry overrules the one that settled.        *)
RebaseGoesOn(r, p) ==
  Past(TransformOver(r.intent, p, r.doc), r.at + 1, ApplyIntent(r.doc, p))

RebaseOver(r, p) ==
  IF r.outcome # "clean" THEN r
  ELSE Past(TransformOver(r.intent, p, r.doc), r.at + 1, ApplyIntent(r.doc, p))

Rebase(i, slice, doc) == Folded(RebaseOver, Past(Clean(i), i.base - 1, doc), slice)

(***************************************************************************)
(* Frame rules.  frame.applied are the keys this batch has written so far, *)
(* frame.phantom the keys written by its intents that did not apply and    *)
(* frame.broken the blocks those would have created, each with the         *)
(* position that settled them.                                             *)
(***************************************************************************)
NoFrame == [applied |-> {}, phantom |-> {}, broken |-> {}]

(* Where somebody else wrote the frame since the intent's base.            *)
RemoteWrites(i, key, log) ==
  {n \in i.base .. (Len(log) - 1) :
     /\ log[n + 1].actor # i.actor
     /\ \E w \in FrameWrites(log[n + 1]) : FrameKeysOverlap(w, key)}

BrokenAt(frame, i, b) ==
  Highest({x[2] : x \in {y \in frame.broken : y[1] = b /\ i.base <= y[2]}})

Phantoms(frame, i, key) ==
  {x[2] : x \in {y \in frame.phantom : FrameKeysOverlap(y[1], key) /\ i.base <= y[2]}}

(* A key with a phantom on record does not count as applied.               *)
OwnWrite(frame, key) ==
  \E k \in frame.applied : FrameKeysOverlap(k, key) /\ \A x \in frame.phantom : x[1] # k

FrameAt(frame, i, key, log) ==
  First(Highest(Phantoms(frame, i, key)),
        IF OwnWrite(frame, key) THEN Lowest(RemoteWrites(i, key, log)) ELSE {})

(* frame_escalation: the position that settles the intent, if any does.    *)
FrameEscalation(frame, i, log) ==
  LET found == [k \in DOMAIN RequiredTargets(i) |-> BrokenAt(frame, i, RequiredTargets(i)[k])]
               \o [k \in DOMAIN FrameReads(i) |-> FrameAt(frame, i, FrameReads(i)[k], log)]
      some  == {k \in DOMAIN found : found[k] # {}}
  IN IF some = {} THEN {} ELSE found[Least(some)]

(* BUG of OwnReads: the member just before j is not looked at.             *)
OwnReadsSkipOne(unit, j) ==
  {key \in ToSet(FrameReads(unit[j])) :
     \E k \in 1 .. (j - 2) : \E w \in FrameWrites(unit[k]) : FrameKeysOverlap(w, key)}

(* The keys that member j of a unit reads and an earlier member wrote.     *)
OwnReads(unit, j) ==
  {key \in ToSet(FrameReads(unit[j])) :
     \E k \in 1 .. (j - 1) : \E w \in FrameWrites(unit[k]) : FrameKeysOverlap(w, key)}

IntraUnitConflict(unit, j, log) ==
  Lowest(UNION {RemoteWrites(unit[j], key, log) : key \in OwnReads(unit, j)})

RecordFrameOutcome(frame, i, applied, at) ==
  IF applied
  THEN [frame EXCEPT !.applied = @ \cup FrameWrites(i)]
  ELSE [frame EXCEPT !.phantom = @ \cup (FrameWrites(i) \X {at}),
                     !.broken  = @ \cup (CreatedIds(i) \X {at})]

(***************************************************************************)
(* plan_batch.                                                             *)
(***************************************************************************)
Join(units, i) ==
  IF units # <<>> /\ i.txn # None /\ Last(units)[1].txn = i.txn
  THEN [units EXCEPT ![Len(units)] = Append(@, i)]
  ELSE Append(units, <<i>>)

GroupUnits(batch) == Folded(Join, <<>>, batch)

(* One member of a unit: the frame rules, then the rebase.                 *)
Judge(i, conflict, log, docAt) ==
  IF conflict # {}
  THEN Past(Escalate(i), Least(conflict), docAt[i.base])
  ELSE Rebase(i, SubSeq(log, i.base + 1, Len(log)), docAt[i.base])

JudgeAll(frame, unit, log, docAt) ==
  [j \in DOMAIN unit |->
     Judge(unit[j], First(FrameEscalation(frame, unit[j], log), IntraUnitConflict(unit, j, log)),
           log, docAt)]

(* Rule 4: a unit with an escalated member escalates whole, at the lowest  *)
(* of its triggers; otherwise its clean members are applied to the head.   *)
Triggers(judged) == {r.at : r \in {s \in ToSet(judged) : s.outcome = "escalate"}}

Row(i, status, accepted) == [intent |-> i, status |-> status, accepted |-> accepted]

SettleOne(plan, i, r, triggers) ==
  IF triggers = {} /\ r.outcome = "clean"
  THEN [rows  |-> Append(plan.rows, Row(i, IF Takes(plan.head, r.intent) THEN "applied" ELSE "voided",
                                        <<r.intent>>)),
        head  |-> ApplyIntent(plan.head, r.intent),
        frame |-> RecordFrameOutcome(plan.frame, i, TRUE, r.at)]
  ELSE [plan EXCEPT
          !.rows  = Append(@, Row(i, IF triggers = {} THEN "voided" ELSE "escalated", <<>>)),
          !.frame = RecordFrameOutcome(@, i, FALSE, IF triggers = {} THEN r.at ELSE Least(triggers))]

SettleUnit(plan, unit, judged, triggers) ==
  Folded(LAMBDA p, j : SettleOne(p, unit[j], judged[j], triggers), plan, [j \in DOMAIN unit |-> j])

PlanUnit(plan, unit, judged) == SettleUnit(plan, unit, judged, Triggers(judged))

PlanOver(batch, log, docAt) ==
  Folded(LAMBDA plan, unit : PlanUnit(plan, unit, JudgeAll(plan.frame, unit, log, docAt)),
         [rows |-> <<>>, head |-> docAt[Len(log)], frame |-> NoFrame],
         GroupUnits(batch))

PlanBatch(batch, log, genesis) ==
  PlanOver(batch, log, [n \in 0 .. Len(log) |-> Replay(genesis, SubSeq(log, 1, n))])

Accepted(rows) == FlattenSeq([k \in DOMAIN rows |-> rows[k].accepted])

=============================================================================
