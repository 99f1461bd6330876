--------------------------- MODULE IntentLogProofs ---------------------------
(***************************************************************************)
(* First the server on its own: the inductive invariant of the table, the  *)
(* meta values and the ingest in progress.  It speaks of Future, the table *)
(* once the plan of that ingest is written: the rows a checkpoint adds up  *)
(* and the rows an acknowledgement is backed by are in Future from the     *)
(* start of the ingest, and in the table when they are needed.             *)
(*                                                                         *)
(* Then the room as a whole: what the server rebuilds is the room's        *)
(* history, an acknowledgement is backed, no intent is in the log twice,   *)
(* every replica is a prefix of the canonical document.                    *)
(***************************************************************************)
EXTENDS IntentLogInvariant, SelectionProofs, FiniteSetTheorems

(* In terms of Kept.                                                       *)
LEMMA IntentsOfIsKept ==
  \A s : IntentsOf(s) = Kept(s, {k \in DOMAIN s : s[k].kind = "intent"})
  BY DEF IntentsOf, Where, IsIntent

(* Later rows bring later entries.                                         *)
LEMMA IntentsOfConcat ==
  ASSUME NEW s \in Seq(RowSet), NEW t \in Seq(RowSet)
  PROVE  IntentsOf(s \o t) = IntentsOf(s) \o IntentsOf(t)
<1> DEFINE K == {k \in DOMAIN (s \o t) : (s \o t)[k].kind = "intent"}
           A == After(Len(s), K)
<1>1. /\ \A k \in 1..Len(s) : k \in K <=> k \in {j \in DOMAIN s : s[j].kind = "intent"}
      /\ \A k \in 1..Len(t) : k \in A <=> k \in {j \in DOMAIN t : t[j].kind = "intent"}
  <2> Len(s) \in Nat /\ Len(t) \in Nat /\ DOMAIN (s \o t) = 1..(Len(s) + Len(t))
      /\ DOMAIN s = 1..Len(s) /\ DOMAIN t = 1..Len(t)
      /\ (\A k \in 1..Len(s) : (s \o t)[k] = s[k])
      /\ (\A k \in 1..Len(t) : (s \o t)[Len(s) + k] = t[k])
    OBVIOUS
  <2> QED BY DEF After
<1> HIDE DEF A
<1>2. Kept(s, K) = IntentsOf(s)
  <2> HIDE DEF K
  <2> QED BY <1>1, KeptSame, IntentsOfIsKept
<1>3. Kept(t, A) = IntentsOf(t)
  <2> HIDE DEF K
  <2> QED BY <1>1, KeptSame, IntentsOfIsKept
<1>4. Kept(s \o t, K) = Kept(s, K) \o Kept(t, A)
  <2> HIDE DEF K
  <2> QED BY KeptConcat DEF A
<1>5. IntentsOf(s \o t) = Kept(s \o t, K) BY IntentsOfIsKept
<1> QED BY <1>2, <1>3, <1>4, <1>5

(* One row is one entry or none.                                           *)
LEMMA IntentsOfOne ==
  ASSUME NEW r PROVE IntentsOf(<<r>>) = IF r.kind = "intent" THEN <<r>> ELSE <<>>
<1> DEFINE K == {k \in DOMAIN <<r>> : (<<r>>)[k].kind = "intent"}
<1>1. 1 \in K <=> r.kind = "intent" OBVIOUS
<1>2. IntentsOf(<<r>>) = Kept(<<r>>, K) BY IntentsOfIsKept
<1> HIDE DEF K
<1> QED BY <1>1, <1>2, KeptOne

(* The entries of s, in terms of the places they come from.                *)
LEMMA IntentsOfPlaces ==
  ASSUME NEW s \in Seq(RowSet)
  PROVE  /\ IntentsOf(s) \in Seq(Entries)
         /\ \E p : /\ p \in [1..Len(IntentsOf(s)) -> {k \in 1..Len(s) : s[k].kind = "intent"}]
                   /\ \A i \in 1..Len(IntentsOf(s)) : IntentsOf(s)[i] = s[p[i]]
                   /\ \A i, j \in 1..Len(IntentsOf(s)) : i < j => p[i] < p[j]
                   /\ \A k \in 1..Len(s) : s[k].kind = "intent" =>
                        \E i \in 1..Len(IntentsOf(s)) : p[i] = k
<1> DEFINE K == {k \in DOMAIN s : s[k].kind = "intent"}
           W == IntentsOf(s)
<1>1. W = Kept(s, K) BY IntentsOfIsKept
<1>2. {k \in 1..Len(s) : k \in K} = {k \in 1..Len(s) : s[k].kind = "intent"} OBVIOUS
<1>3. \A k \in 1..Len(s) : k \in K <=> s[k].kind = "intent" OBVIOUS
<1> HIDE DEF K
<1>4. PICK p : Places(p, s, K) BY KeptPlaces
<1>5. W \in Seq(RowSet) BY <1>1, KeptType
<1> HIDE DEF W
<1>6. /\ p \in [1..Len(W) -> {k \in 1..Len(s) : s[k].kind = "intent"}]
      /\ \A i \in 1..Len(W) : W[i] = s[p[i]]
      /\ \A i, j \in 1..Len(W) : i < j => p[i] < p[j]
      /\ \A k \in 1..Len(s) : s[k].kind = "intent" => \E i \in 1..Len(W) : p[i] = k
  BY <1>1, <1>2, <1>3, <1>4, Zenon DEF Places
<1>7. \A i \in 1..Len(W) : W[i] \in Entries
  <2> TAKE i \in 1..Len(W)
  <2>1. p[i] \in 1..Len(s) /\ s[p[i]].kind = "intent" BY <1>6
  <2>2. s[p[i]] \in RowSet BY <2>1
  <2>3. s[p[i]] \in Entries BY <2>1, <2>2 DEF RowSet
  <2> QED BY <1>6, <2>3
<1>8. W \in Seq(Entries) BY <1>5, <1>7
<1> QED BY <1>6, <1>8 DEF W

(* The entries are log entries.                                            *)
LEMMA IntentsOfType ==
  ASSUME NEW s \in Seq(RowSet) PROVE IntentsOf(s) \in Seq(Entries)
  BY IntentsOfPlaces, Zenon

(* Rows without an intent row have no entries.                             *)
LEMMA NoIntents ==
  ASSUME NEW s \in Seq(RowSet), \A k \in 1..Len(s) : s[k].kind # "intent"
  PROVE  IntentsOf(s) = <<>>
<1> DEFINE K == {k \in DOMAIN s : s[k].kind = "intent"}
<1>1. \A k \in 1..Len(s) : k \notin K OBVIOUS
<1>2. IntentsOf(s) = Kept(s, K) BY IntentsOfIsKept
<1> HIDE DEF K
<1> QED BY <1>1, <1>2, KeptNothing

(* What entries do to a document is what the first ones do and then what   *)
(* the rest does.                                                          *)
Effective(s) == {k \in DOMAIN s : ~s[k].noop}

(* In terms of Kept.                                                       *)
LEMMA EffectOfIsKept ==
  \A s : EffectOf(s) = [k \in 1..Len(Kept(s, Effective(s))) |-> Kept(s, Effective(s))[k].id]
  BY DEF EffectOf, Where, Effective

(* A document is a sequence of intents.                                    *)
LEMMA EffectOfType ==
  ASSUME NEW s \in Seq(Entries)
  PROVE  EffectOf(s) \in Seq(Ids)
<1> DEFINE W == Kept(s, Effective(s))
<1>1. W \in Seq(Entries) BY KeptType
<1>2. EffectOf(s) = [k \in 1..Len(W) |-> W[k].id] BY EffectOfIsKept
<1> HIDE DEF W
<1>3. \A k \in 1..Len(W) : W[k].id \in Ids
  <2> TAKE k \in 1..Len(W)
  <2> W[k] \in Entries BY <1>1
  <2> QED BY DEF Entries
<1>4. Len(W) \in Nat BY <1>1
<1> QED BY <1>2, <1>3, <1>4

(* The document of a longer log continues the document of the log.         *)
LEMMA EffectOfConcat ==
  ASSUME NEW s \in Seq(Entries), NEW t \in Seq(Entries)
  PROVE  EffectOf(s \o t) = EffectOf(s) \o EffectOf(t)
<1> DEFINE K == Effective(s \o t)
           A == After(Len(s), K)
           V == Kept(s, Effective(s))
           W == Kept(t, Effective(t))
<1>1. /\ \A k \in 1..Len(s) : k \in K <=> k \in Effective(s)
      /\ \A k \in 1..Len(t) : k \in A <=> k \in Effective(t)
  <2> Len(s) \in Nat /\ Len(t) \in Nat /\ DOMAIN (s \o t) = 1..(Len(s) + Len(t))
      /\ DOMAIN s = 1..Len(s) /\ DOMAIN t = 1..Len(t)
      /\ (\A k \in 1..Len(s) : (s \o t)[k] = s[k])
      /\ (\A k \in 1..Len(t) : (s \o t)[Len(s) + k] = t[k])
    OBVIOUS
  <2> QED BY DEF After, Effective
<1> HIDE DEF A, K
<1>2. Kept(s, K) = V BY <1>1, KeptSame
<1>3. Kept(t, A) = W BY <1>1, KeptSame
<1>4. Kept(s \o t, K) = V \o W
  <2> Kept(s \o t, K) = Kept(s, K) \o Kept(t, A) BY KeptConcat DEF A
  <2> QED BY <1>2, <1>3
<1>5. V \in Seq(Entries) /\ W \in Seq(Entries) BY KeptType
<1>6. /\ EffectOf(s \o t) = [k \in 1..Len(V \o W) |-> (V \o W)[k].id]
      /\ EffectOf(s) = [k \in 1..Len(V) |-> V[k].id]
      /\ EffectOf(t) = [k \in 1..Len(W) |-> W[k].id]
  BY <1>4, EffectOfIsKept DEF K
<1> HIDE DEF V, W
<1> DEFINE a == [k \in 1..Len(V) |-> V[k].id]
           b == [k \in 1..Len(W) |-> W[k].id]
           c == [k \in 1..Len(V \o W) |-> (V \o W)[k].id]
<1>7. a \in Seq(Ids) /\ b \in Seq(Ids) /\ c \in Seq(Ids)
  BY <1>6, <1>5, EffectOfType, ConcatProperties
<1>8. Len(a) = Len(V) /\ Len(b) = Len(W) /\ Len(c) = Len(V) + Len(W)
  BY <1>5
<1>9. ASSUME NEW k \in 1..Len(c) PROVE c[k] = (a \o b)[k]
  <2>1. CASE k <= Len(V)
    <3> k \in 1..Len(V) /\ (V \o W)[k] = V[k] BY <1>5, <1>8, <2>1
    <3> QED BY <1>5, <1>7, <1>8
  <2>2. CASE ~(k <= Len(V))
    <3> k - Len(V) \in 1..Len(W) /\ (V \o W)[k] = W[k - Len(V)] BY <1>5, <1>8, <2>2
    <3> QED BY <1>5, <1>7, <1>8, <2>2
  <2> QED BY <2>1, <2>2
<1> HIDE DEF a, b, c
<1>10. a \o b \in Seq(Ids) /\ Len(a \o b) = Len(c)
  <2> a \o b \in Seq(Ids) /\ Len(a \o b) = Len(a) + Len(b) BY <1>7, ConcatProperties, Zenon
  <2> QED BY <1>8
<1>11. c = a \o b BY <1>7, <1>9, <1>10, SeqEqual
<1> QED BY <1>6, <1>11 DEF a, b, c

-----------------------------------------------------------------------------
(* load_room().                                                            *)

(* load_room() finds a snapshot among the retained rows.                   *)
LEMMA BaseRowIsLast ==
  ASSUME TableOK
  PROVE  /\ BaseRow \in first..Len(rows) /\ rows[BaseRow].kind = "snapshot"
         /\ \A m \in (BaseRow + 1)..Len(rows) : rows[m].kind # "snapshot"
<1> DEFINE T == {k \in first..Len(rows) : rows[k].kind = "snapshot"}
<1>1. Len(rows) \in Nat /\ first \in 1..Len(rows) /\ first \in T BY DEF TableOK
<1>2. PICK x \in T : \A y \in T : y <= x
  <2> T \in SUBSET (0..Len(rows)) /\ T # {} BY <1>1
  <2> HIDE DEF T
  <2> QED BY <1>1, GreatestNumber
<1>3. /\ x \in first..Len(rows) /\ rows[x].kind = "snapshot"
      /\ \A m \in (x + 1)..Len(rows) : rows[m].kind # "snapshot"
  BY <1>1, <1>2
<1> QED BY <1>3, Zenon DEF BaseRow

(* load_room(): what is rebuilt from the last snapshot is the history.     *)
LEMMA LoadReplays ==
  ASSUME TableOK, SnapshotsReplay
  PROVE  /\ HeadSeq = Len(IntentsOf(rows)) /\ HeadDoc = EffectOf(IntentsOf(rows))
         /\ HeadSeq \in Nat /\ HeadDoc \in Seq(Ids)
         /\ BaseSeq = Len(IntentsOf(SubSeq(rows, 1, BaseRow)))
         /\ IntentsOf(rows) = IntentsOf(SubSeq(rows, 1, BaseRow)) \o Log
         /\ Log \in Seq(Entries) /\ IntentsOf(SubSeq(rows, 1, BaseRow)) \in Seq(Entries)
<1> DEFINE B == BaseRow
           old == SubSeq(rows, 1, B)
           new == SubSeq(rows, B + 1, Len(rows))
           V == IntentsOf(old)
<1>1. B \in 1..Len(rows) /\ rows[B].kind = "snapshot"
  BY BaseRowIsLast DEF TableOK
<1> HIDE DEF B
<1> HIDE DEF old, new
<1>2. old \in Seq(RowSet) /\ new \in Seq(RowSet) /\ rows = old \o new
  <2>1. rows \in Seq(RowSet) BY DEF TableOK
  <2> QED BY <1>1, <2>1, SplitAt DEF old, new
<1>3. Log = IntentsOf(new) BY DEF Log, IntentsOf, new, B
<1>4. IntentsOf(rows) = V \o Log BY <1>2, <1>3, IntentsOfConcat
<1>5. V \in Seq(Entries) /\ Log \in Seq(Entries) BY <1>2, <1>3, IntentsOfType
<1>6. rows[B].seq = Len(V) /\ rows[B].doc = EffectOf(V)
  BY <1>1 DEF SnapshotsReplay, old
<1>7. HeadSeq = Len(V) + Len(Log) /\ HeadDoc = EffectOf(V) \o EffectOf(Log) /\ BaseSeq = Len(V)
  BY <1>6 DEF HeadSeq, HeadDoc, BaseSeq, B
<1> HIDE DEF V
<1>8. Len(V \o Log) = Len(V) + Len(Log) /\ V \o Log \in Seq(Entries) BY <1>5
<1>9. EffectOf(V \o Log) = EffectOf(V) \o EffectOf(Log) BY <1>5, EffectOfConcat
<1>10. EffectOf(V \o Log) \in Seq(Ids) BY <1>8, EffectOfType
<1>11. /\ HeadSeq = Len(IntentsOf(rows)) /\ HeadDoc = EffectOf(IntentsOf(rows))
       /\ HeadSeq \in Nat /\ HeadDoc \in Seq(Ids)
  BY <1>4, <1>5, <1>7, <1>8, <1>9, <1>10
<1> QED BY <1>4, <1>5, <1>7, <1>11, Zenon DEF V, old, B

-----------------------------------------------------------------------------
(* The ingest.  Its statements start with the rows of the plan; the rest   *)
(* is the checkpoint and the rows of resolutions.                          *)

PlaceOfPlanned(todo) == {k \in DOMAIN todo : IsPlanned(todo[k])}

(* In terms of Kept.                                                       *)
LEMMA PlannedIsKept ==
  \A todo : LET w == Kept(todo, PlaceOfPlanned(todo))
            IN  Planned(todo) = [k \in 1..Len(w) |-> w[k].row]
  BY DEF Planned, Where, PlaceOfPlanned

(* Planned rows are rows, and each is the row of a statement.              *)
LEMMA PlannedType ==
  ASSUME NEW todo \in Seq(OpSet)
  PROVE  /\ Planned(todo) \in Seq(RowSet)
         /\ \A k \in 1..Len(Planned(todo)) :
              \E j \in 1..Len(todo) : IsPlanned(todo[j]) /\ Planned(todo)[k] = todo[j].row
<1> DEFINE K == PlaceOfPlanned(todo)
           w == Kept(todo, K)
<1>1. PICK p : Places(p, todo, K) BY KeptPlaces
<1>2. w \in Seq(OpSet) BY KeptType
<1>3. Planned(todo) = [k \in 1..Len(w) |-> w[k].row] BY PlannedIsKept
<1>4. ASSUME NEW k \in 1..Len(w)
      PROVE  w[k].row \in RowSet /\ \E j \in 1..Len(todo) : IsPlanned(todo[j]) /\ w[k] = todo[j]
  <2>1. p[k] \in 1..Len(todo) /\ p[k] \in K /\ w[k] = todo[p[k]] BY <1>1 DEF Places
  <2>2. IsPlanned(todo[p[k]]) /\ todo[p[k]] \in OpSet BY <2>1 DEF PlaceOfPlanned
  <2>3. todo[p[k]].row \in RowSet BY <2>2 DEF OpSet, IsPlanned
  <2> QED BY <2>1, <2>2, <2>3
<1> HIDE DEF w
<1>5. Len(w) \in Nat BY <1>2
<1>6. Planned(todo) \in Seq(RowSet) BY <1>3, <1>4, <1>5
<1>7. Len(Planned(todo)) = Len(w) BY <1>3, <1>5
<1> QED BY <1>3, <1>4, <1>6, <1>7

(* More statements plan more rows.                                         *)
LEMMA PlannedConcat ==
  ASSUME NEW s \in Seq(OpSet), NEW t \in Seq(OpSet)
  PROVE  Planned(s \o t) = Planned(s) \o Planned(t)
<1> DEFINE K == PlaceOfPlanned(s \o t)
           A == After(Len(s), K)
           V == Kept(s, PlaceOfPlanned(s))
           W == Kept(t, PlaceOfPlanned(t))
<1>1. /\ \A k \in 1..Len(s) : k \in K <=> k \in PlaceOfPlanned(s)
      /\ \A k \in 1..Len(t) : k \in A <=> k \in PlaceOfPlanned(t)
  <2> Len(s) \in Nat /\ Len(t) \in Nat /\ DOMAIN (s \o t) = 1..(Len(s) + Len(t))
      /\ DOMAIN s = 1..Len(s) /\ DOMAIN t = 1..Len(t)
      /\ (\A k \in 1..Len(s) : (s \o t)[k] = s[k])
      /\ (\A k \in 1..Len(t) : (s \o t)[Len(s) + k] = t[k])
    OBVIOUS
  <2> QED BY DEF After, PlaceOfPlanned
<1> HIDE DEF A, K
<1>2. Kept(s, K) = V BY <1>1, KeptSame
<1>3. Kept(t, A) = W BY <1>1, KeptSame
<1>4. Kept(s \o t, K) = V \o W
  <2> Kept(s \o t, K) = Kept(s, K) \o Kept(t, A) BY KeptConcat DEF A
  <2> QED BY <1>2, <1>3
<1>5. V \in Seq(OpSet) /\ W \in Seq(OpSet) BY KeptType
<1>6. /\ Planned(s \o t) = [k \in 1..Len(V \o W) |-> (V \o W)[k].row]
      /\ Planned(s) = [k \in 1..Len(V) |-> V[k].row]
      /\ Planned(t) = [k \in 1..Len(W) |-> W[k].row]
  BY <1>4, PlannedIsKept DEF K
<1> HIDE DEF V, W
<1> DEFINE a == [k \in 1..Len(V) |-> V[k].row]
           b == [k \in 1..Len(W) |-> W[k].row]
           c == [k \in 1..Len(V \o W) |-> (V \o W)[k].row]
<1>7. a \in Seq(RowSet) /\ b \in Seq(RowSet) /\ c \in Seq(RowSet)
  BY <1>6, PlannedType, ConcatProperties
<1>8. Len(a) = Len(V) /\ Len(b) = Len(W) /\ Len(c) = Len(V) + Len(W)
  BY <1>5
<1>9. ASSUME NEW k \in 1..Len(c) PROVE c[k] = (a \o b)[k]
  <2>1. CASE k <= Len(V)
    <3> k \in 1..Len(V) /\ (V \o W)[k] = V[k] BY <1>5, <1>8, <2>1
    <3> QED BY <1>5, <1>7, <1>8
  <2>2. CASE ~(k <= Len(V))
    <3> k - Len(V) \in 1..Len(W) /\ (V \o W)[k] = W[k - Len(V)] BY <1>5, <1>8, <2>2
    <3> QED BY <1>5, <1>7, <1>8, <2>2
  <2> QED BY <2>1, <2>2
<1> HIDE DEF a, b, c
<1>10. a \o b \in Seq(RowSet) /\ Len(a \o b) = Len(c)
  <2> a \o b \in Seq(RowSet) /\ Len(a \o b) = Len(a) + Len(b)
    BY <1>7, ConcatProperties, Zenon
  <2> QED BY <1>8
<1>11. c = a \o b BY <1>7, <1>9, <1>10, SeqEqual
<1> QED BY <1>6, <1>11 DEF a, b, c

(* Statements that store no row of the plan plan none.                     *)
LEMMA NothingPlanned ==
  ASSUME NEW s \in Seq(OpSet), \A k \in 1..Len(s) : ~IsPlanned(s[k])
  PROVE  Planned(s) = <<>>
<1>1. \A k \in 1..Len(s) : k \notin PlaceOfPlanned(s) BY DEF PlaceOfPlanned
<1>2. Kept(s, PlaceOfPlanned(s)) = <<>> BY <1>1, KeptNothing
<1> QED BY <1>2, PlannedIsKept

(* The inserts of the plan plan exactly their rows.                        *)
LEMMA AllPlanned ==
  ASSUME NEW A \in Seq(RowSet), \A k \in 1..Len(A) : A[k].kind # "resolved"
  PROVE  Planned(Inserts(A, "abort")) = A /\ Inserts(A, "abort") \in Seq(OpSet)
<1> DEFINE s == Inserts(A, "abort")
<1>1. Len(A) \in Nat /\ s = [k \in 1..Len(A) |-> Insert(A[k], "abort")]
      /\ \A k \in 1..Len(A) : Insert(A[k], "abort") \in OpSet
  BY DEF Inserts, Insert, OpSet
<1>2. s \in Seq(OpSet) /\ Len(s) = Len(A) /\ \A k \in 1..Len(A) : s[k] = Insert(A[k], "abort")
  BY <1>1
<1> HIDE DEF s
<1>3. \A k \in 1..Len(s) : k \in PlaceOfPlanned(s)
  <2> TAKE k \in 1..Len(s)
  <2>1. k \in DOMAIN s /\ s[k] = Insert(A[k], "abort") /\ A[k].kind # "resolved" BY <1>2
  <2>2. Insert(A[k], "abort").do = "insert" /\ Insert(A[k], "abort").onFail = "abort"
        /\ Insert(A[k], "abort").row = A[k]
    BY DEF Insert
  <2>3. IsPlanned(s[k]) BY <2>1, <2>2 DEF IsPlanned
  <2> QED BY <2>1, <2>3 DEF PlaceOfPlanned
<1>4. Kept(s, PlaceOfPlanned(s)) = s BY <1>2, <1>3, KeptEverything
<1>5. Planned(s) = [k \in 1..Len(A) |-> s[k].row] BY <1>2, <1>4, PlannedIsKept
<1>6. \A k \in 1..Len(A) : s[k].row = A[k]
  <2> TAKE k \in 1..Len(A)
  <2> s[k] = Insert(A[k], "abort") BY <1>2
  <2> QED BY DEF Insert
<1>7. Planned(s) = A BY <1>5, <1>6
<1> QED BY <1>2, <1>7 DEF s

-----------------------------------------------------------------------------
(* What is left to do, whatever the table looks like.                      *)

(* A statement is done: the layout of the rest is sound.                   *)
LEMMA TailOK ==
  ASSUME NEW todo \in Seq(OpSet), todo # <<>>, Layout(todo)
  PROVE  /\ Tail(todo) \in Seq(OpSet) /\ Layout(Tail(todo))
         /\ todo = <<Head(todo)>> \o Tail(todo)
         /\ Head(todo) = todo[1] /\ Head(todo) \in OpSet
         /\ Len(Tail(todo)) = Len(todo) - 1
         /\ \A i \in 1..(Len(todo) - 1) : Tail(todo)[i] = todo[i + 1]
<1>1. /\ Tail(todo) \in Seq(OpSet) /\ todo = <<Head(todo)>> \o Tail(todo)
      /\ Head(todo) = todo[1] /\ Head(todo) \in OpSet
      /\ Len(Tail(todo)) = Len(todo) - 1 /\ Len(todo) \in Nat
      /\ \A i \in 1..(Len(todo) - 1) : Tail(todo)[i] = todo[i + 1]
  OBVIOUS
<1>2. PlanFirst(Tail(todo)) BY <1>1 DEF Layout, PlanFirst
<1>3. RowsPlanned(Tail(todo)) BY <1>1 DEF Layout, RowsPlanned
<1>4. MarksFollow(Tail(todo))
  <2> SUFFICES ASSUME NEW i \in 1..(Len(todo) - 1), todo[i + 1].do = "mark", i > 1
               PROVE  OfSnapshot(todo[i])
    <3>1. \A i \in 1..(Len(todo) - 1) : i > 1 => Tail(todo)[i - 1] = todo[i] BY <1>1
    <3> QED BY <1>1, <3>1 DEF MarksFollow
  <2> i + 1 \in 1..Len(todo) /\ i + 1 > 1 /\ (i + 1) - 1 = i BY <1>1
  <2> QED BY DEF Layout, MarksFollow
<1> QED BY <1>1, <1>2, <1>3, <1>4 DEF Layout

(* What is backed stays backed when rows are added.                        *)
LEMMA BackedGrows ==
  ASSUME NEW V, NEW s \in Seq(RowSet), NEW t \in Seq(RowSet), Backed(V, s)
  PROVE  Backed(V, s \o t)
<1>1. /\ Len(s) \in Nat /\ Len(s \o t) \in Nat /\ Len(s) <= Len(s \o t)
      /\ \A k \in 1..Len(s) : (s \o t)[k] = s[k]
  OBVIOUS
<1>2. \A k \in 1..Len(s) : k \in 1..Len(s \o t) BY <1>1
<1> QED BY <1>1, <1>2 DEF Backed

(* One statement plans one row or none.                                    *)
LEMMA PlannedOne ==
  ASSUME NEW o \in OpSet
  PROVE  Planned(<<o>>) = IF IsPlanned(o) THEN <<o.row>> ELSE <<>>
<1> DEFINE K == PlaceOfPlanned(<<o>>)
<1>1. 1 \in K <=> IsPlanned(o) BY DEF PlaceOfPlanned
<1>2. Kept(<<o>>, K) = IF IsPlanned(o) THEN <<o>> ELSE <<>>
  <2> HIDE DEF K
  <2> QED BY <1>1, KeptOne
<1>3. CASE IsPlanned(o)
  <2>1. Planned(<<o>>) = [k \in 1..Len(<<o>>) |-> (<<o>>)[k].row]
    BY <1>2, <1>3, PlannedIsKept
  <2> QED BY <1>3, <2>1
<1>4. CASE ~IsPlanned(o) BY <1>2, <1>4, PlannedIsKept
<1> QED BY <1>3, <1>4

(* Doing a statement takes its row off the plan.                           *)
LEMMA PlannedTail ==
  ASSUME NEW todo \in Seq(OpSet), todo # <<>>, Layout(todo)
  PROVE  /\ IsPlanned(Head(todo)) => Planned(todo) = <<Head(todo).row>> \o Planned(Tail(todo))
         /\ ~IsPlanned(Head(todo)) => Planned(todo) = <<>> /\ Planned(Tail(todo)) = <<>>
<1>1. /\ Tail(todo) \in Seq(OpSet) /\ todo = <<Head(todo)>> \o Tail(todo)
      /\ Head(todo) \in OpSet /\ Head(todo) = todo[1]
      /\ Len(Tail(todo)) = Len(todo) - 1
      /\ \A i \in 1..(Len(todo) - 1) : Tail(todo)[i] = todo[i + 1]
  BY TailOK
<1>2. Planned(todo) = Planned(<<Head(todo)>>) \o Planned(Tail(todo))
  <2>1. <<Head(todo)>> \in Seq(OpSet) BY <1>1
  <2>2. Planned(<<Head(todo)>> \o Tail(todo)) = Planned(<<Head(todo)>>) \o Planned(Tail(todo))
    BY <1>1, <2>1, PlannedConcat
  <2> QED BY <1>1, <2>2
<1>3. ASSUME IsPlanned(Head(todo))
      PROVE  Planned(todo) = <<Head(todo).row>> \o Planned(Tail(todo))
  BY <1>1, <1>2, <1>3, PlannedOne
<1>4. ASSUME ~IsPlanned(Head(todo))
      PROVE  Planned(todo) = <<>> /\ Planned(Tail(todo)) = <<>>
  <2>1. \A i \in 1..Len(todo) : ~IsPlanned(todo[i])
    <3> TAKE i \in 1..Len(todo)
    <3>1. 1 \in 1..Len(todo) /\ (i = 1 \/ 1 < i) OBVIOUS
    <3> QED BY <1>1, <1>4, <3>1 DEF Layout, PlanFirst
  <2>2. \A i \in 1..Len(Tail(todo)) : ~IsPlanned(Tail(todo)[i])
    <3> TAKE i \in 1..Len(Tail(todo))
    <3> i + 1 \in 1..Len(todo) /\ Tail(todo)[i] = todo[i + 1] BY <1>1
    <3> QED BY <2>1
  <2> QED BY <1>1, <2>1, <2>2, NothingPlanned
<1> QED BY <1>3, <1>4

(* What a statement of an ingest does to the rows: it writes the next row  *)
(* of the plan, or a row that is no entry once the plan is written.        *)
LEMMA FutureOfInsert ==
  ASSUME TableOK, IngestOK, IngestInsert
  PROVE  LET r == Head(ingest.todo).row
         IN  /\ r \in RowSet /\ rows' = Append(rows, r) /\ ingest' # NoIngest
             /\ \/ /\ Future' = Future
                   /\ IsPlanned(Head(ingest.todo)) /\ r.kind # "snapshot"
                \/ /\ Future = rows /\ Future' = Append(rows, r)
                   /\ ~IsPlanned(Head(ingest.todo)) /\ r.kind \in {"snapshot", "parked", "resolved"}
<1> DEFINE todo == ingest.todo
           r == Head(todo).row
<1>1. /\ ingest # NoIngest /\ todo # <<>> /\ Head(todo).do = "insert"
      /\ rows' = Append(rows, r) /\ ingest' = [ingest EXCEPT !.todo = Tail(todo)]
  BY DEF IngestInsert, Doing, Done
<1>2. ingest \in Ingests /\ Layout(todo) BY <1>1 DEF IngestOK
<1>3. todo \in Seq(OpSet) BY <1>2 DEF Ingests
<1>4. ingest' \in [client : Clients, attempt : Nat, cursor : Nat, todo : {Tail(todo)},
                   verdicts : SUBSET (Ids \X Statuses)] /\ ingest'.todo = Tail(todo)
  BY <1>1, <1>2 DEF Ingests
<1>5. ingest' # NoIngest
  <2>1. "todo" \in DOMAIN ingest' /\ "todo" \notin DOMAIN NoIngest BY <1>4 DEF NoIngest
  <2> QED BY <2>1
<1> HIDE DEF todo
<1>6. Head(todo) \in OpSet /\ Head(todo) = todo[1] /\ Tail(todo) \in Seq(OpSet) /\ 1 \in 1..Len(todo)
  BY <1>1, <1>2, <1>3, TailOK
<1>7. r \in RowSet BY <1>1, <1>6 DEF OpSet
<1>8. /\ IsPlanned(Head(todo)) => r.kind \in PlanKinds
      /\ ~IsPlanned(Head(todo)) => r.kind \in {"snapshot", "parked", "resolved"}
  BY <1>1, <1>2, <1>6 DEF Layout, RowsPlanned
<1>9. Future = rows \o Planned(todo) /\ Future' = rows' \o Planned(Tail(todo))
  BY <1>1, <1>4, <1>5 DEF Future, todo
<1>10. rows \in Seq(RowSet) /\ Planned(Tail(todo)) \in Seq(RowSet)
  BY <1>6, PlannedType DEF TableOK
<1>11. CASE IsPlanned(Head(todo))
  <2>1. Planned(todo) = <<r>> \o Planned(Tail(todo)) BY <1>1, <1>2, <1>3, <1>11, PlannedTail
  <2>2. Append(rows, r) = rows \o <<r>> BY <1>7, <1>10, AppendIsConcat
  <2>3. (rows \o <<r>>) \o Planned(Tail(todo)) = rows \o (<<r>> \o Planned(Tail(todo)))
    <3> <<r>> \in Seq(RowSet) BY <1>7
    <3> QED BY <1>10, ConcatAssociative
  <2>4. Future' = Future BY <1>1, <1>9, <2>1, <2>2, <2>3
  <2> QED BY <1>1, <1>5, <1>7, <1>8, <1>11, <2>4 DEF PlanKinds, todo
<1>12. CASE ~IsPlanned(Head(todo))
  <2>1. Planned(todo) = <<>> /\ Planned(Tail(todo)) = <<>> BY <1>1, <1>2, <1>3, <1>12, PlannedTail
  <2>2. Future = rows /\ Future' = Append(rows, r) BY <1>1, <1>7, <1>9, <1>10, <2>1
  <2> QED BY <1>1, <1>5, <1>7, <1>8, <1>12, <2>2 DEF todo
<1> QED BY <1>11, <1>12

(* A row more is an entry more or none.                                    *)
LEMMA IntentsOfAppend ==
  ASSUME NEW s \in Seq(RowSet), NEW r \in RowSet
  PROVE  IntentsOf(Append(s, r)) =
           IF r.kind = "intent" THEN Append(IntentsOf(s), r) ELSE IntentsOf(s)
<1>1. <<r>> \in Seq(RowSet) /\ Append(s, r) = s \o <<r>> BY AppendIsConcat
<1>2. IntentsOf(Append(s, r)) = IntentsOf(s) \o IntentsOf(<<r>>) BY <1>1, IntentsOfConcat
<1>3. IntentsOf(<<r>>) = IF r.kind = "intent" THEN <<r>> ELSE <<>> BY IntentsOfOne
<1>4. IntentsOf(s) \in Seq(Entries) BY IntentsOfType
<1>5. CASE r.kind = "intent"
  <2> r \in Entries BY <1>5 DEF RowSet
  <2> IntentsOf(s) \o <<r>> = Append(IntentsOf(s), r) BY <1>4, AppendIsConcat
  <2> QED BY <1>2, <1>3, <1>5
<1>6. CASE r.kind # "intent" BY <1>2, <1>3, <1>4, <1>6
<1> QED BY <1>5, <1>6

(* A row that is stored leaves the earlier checkpoints what they were; one *)
(* that is a checkpoint itself holds what the rows before it give.         *)
LEMMA SnapshotsAppend ==
  ASSUME TableOK, SnapshotsReplay, NEW r \in RowSet, rows' = Append(rows, r),
         r.kind = "snapshot" =>
           r.seq = Len(IntentsOf(rows)) /\ r.doc = EffectOf(IntentsOf(rows))
  PROVE  SnapshotsReplay'
<1>1. rows \in Seq(RowSet) BY DEF TableOK
<1>2. Len(rows) \in Nat /\ Len(rows') = Len(rows) + 1 /\ rows' \in Seq(RowSet)
      /\ rows'[Len(rows) + 1] = r /\ \A k \in 1..Len(rows) : rows'[k] = rows[k]
  BY <1>1
<1> SUFFICES ASSUME NEW k \in 1..Len(rows'), rows'[k].kind = "snapshot"
             PROVE  LET before == IntentsOf(SubSeq(rows', 1, k))
                    IN  rows'[k].seq = Len(before) /\ rows'[k].doc = EffectOf(before)
  BY DEF SnapshotsReplay
<1>3. CASE k <= Len(rows)
  <2>1. SubSeq(rows', 1, k) = SubSeq(rows, 1, k)
    <3> DEFINE a == SubSeq(rows', 1, k)
               b == SubSeq(rows, 1, k)
    <3>1. a \in Seq(RowSet) /\ b \in Seq(RowSet) /\ Len(a) = k /\ Len(b) = k
          /\ \A j \in 1..k : a[j] = rows'[j] /\ b[j] = rows[j]
      BY <1>1, <1>2, <1>3
    <3>2. \A j \in 1..k : a[j] = b[j] BY <1>2, <1>3, <3>1
    <3> HIDE DEF a, b
    <3>3. a = b BY <3>1, <3>2, SeqEqual
    <3> QED BY <3>3 DEF a, b
  <2>2. k \in 1..Len(rows) /\ rows[k] = rows'[k] BY <1>2, <1>3
  <2> QED BY <2>1, <2>2 DEF SnapshotsReplay
<1>4. CASE k = Len(rows) + 1
  <2>1. SubSeq(rows', 1, k) = rows' BY <1>2, <1>4, SubSeqFull
  <2>2. IntentsOf(rows') = IntentsOf(rows) BY <1>1, <1>2, <1>4, IntentsOfAppend
  <2> QED BY <1>2, <1>4, <2>1, <2>2
<1> QED BY <1>2, <1>3, <1>4

(* An ingest with other statements to do is an ingest.                     *)
LEMMA IngestsTail ==
  ASSUME ingest \in Ingests, ingest # NoIngest, NEW t \in Seq(OpSet),
         ingest' = [ingest EXCEPT !.todo = t]
  PROVE  /\ ingest' \in Ingests /\ ingest' # NoIngest
         /\ ingest'.todo = t /\ ingest'.verdicts = ingest.verdicts
         /\ ingest'.client = ingest.client /\ ingest'.attempt = ingest.attempt
         /\ ingest'.cursor = ingest.cursor
<1>1. /\ ingest' \in Ingests
      /\ ingest'.todo = t /\ ingest'.verdicts = ingest.verdicts
      /\ ingest'.client = ingest.client /\ ingest'.attempt = ingest.attempt
      /\ ingest'.cursor = ingest.cursor
  BY DEF Ingests
<1>2. ingest' # NoIngest
  <2>1. "todo" \in DOMAIN ingest' /\ "todo" \notin DOMAIN NoIngest BY <1>1 DEF NoIngest, Ingests
  <2> QED BY <2>1
<1> QED BY <1>1, <1>2

(* What statement o does to the table that the others rely on.             *)
Carries(o, rs, lo, at, rs2, lo2, at2) ==
  /\ lo <= lo2
  /\ OfSnapshot(o) => rs2[Len(rs2)].kind = "snapshot"
  /\ o.do = "trim" => o.below = lo2
  /\ \A b \in lo..at :
       /\ at # 0 /\ rs[b].kind = "snapshot"
       /\ o.do = "trim" => b = o.below
       => b \in lo2..at2 /\ at2 # 0 /\ rs2[b].kind = "snapshot"

(* Doing a statement leaves the marks, trims and floors of the rest sound. *)
LEMMA TailMeta ==
  ASSUME NEW todo \in Seq(OpSet), todo # <<>>, Layout(todo),
         NEW rs, NEW lo \in Int, NEW at, MetaOK(todo, rs, lo, at),
         NEW rs2, NEW lo2 \in Int, NEW at2,
         Carries(Head(todo), rs, lo, at, rs2, lo2, at2)
  PROVE  MetaOK(Tail(todo), rs2, lo2, at2)
<1>1. /\ Tail(todo) \in Seq(OpSet) /\ Head(todo) = todo[1] /\ 1 \in 1..Len(todo)
      /\ Len(Tail(todo)) = Len(todo) - 1 /\ Len(todo) \in Nat \ {0}
      /\ \A i \in 1..(Len(todo) - 1) : Tail(todo)[i] = todo[i + 1] /\ i + 1 \in 1..Len(todo)
  BY TailOK, EmptySeq
<1>2. Tail(todo) # <<>> /\ Tail(todo)[1].do = "mark" => OfSnapshot(Head(todo))
  <2> SUFFICES ASSUME Tail(todo) # <<>>, Tail(todo)[1].do = "mark" PROVE OfSnapshot(Head(todo))
    OBVIOUS
  <2>1. Len(Tail(todo)) \in Nat \ {0} BY <1>1, EmptySeq
  <2>2. 2 \in 1..Len(todo) /\ 1 \in 1..(Len(todo) - 1) /\ 1 + 1 = 2 /\ 2 - 1 = 1 BY <1>1, <2>1
  <2>3. todo[2].do = "mark" BY <1>1, <2>2
  <2> QED BY <1>1, <2>2, <2>3 DEF Layout, MarksFollow
<1>3. ASSUME NEW i \in 1..Len(Tail(todo)), Tail(todo)[i].do = "trim"
      PROVE  /\ at2 # 0 /\ Tail(todo)[i].below \in lo2..at2
             /\ rs2[Tail(todo)[i].below].kind = "snapshot"
  <2>1. i + 1 \in 1..Len(todo) /\ todo[i + 1] = Tail(todo)[i] BY <1>1
  <2>2. /\ at # 0 /\ Tail(todo)[i].below \in lo..at
        /\ rs[Tail(todo)[i].below].kind = "snapshot"
    BY <1>3, <2>1 DEF MetaOK
  <2>3. Head(todo).do = "trim" => Tail(todo)[i].below = Head(todo).below
    BY <1>1, <1>3, <2>1 DEF MetaOK
  <2> QED BY <2>2, <2>3 DEF Carries
<1>4. ASSUME NEW i \in 1..Len(Tail(todo)), NEW j \in 1..Len(Tail(todo)),
             Tail(todo)[i].do = "trim", Tail(todo)[j].do = "trim"
      PROVE  Tail(todo)[i].below = Tail(todo)[j].below
  <2>1. i + 1 \in 1..Len(todo) /\ todo[i + 1] = Tail(todo)[i] BY <1>1
  <2>2. j + 1 \in 1..Len(todo) /\ todo[j + 1] = Tail(todo)[j] BY <1>1
  <2> QED BY <1>4, <2>1, <2>2 DEF MetaOK
<1>5. ASSUME NEW i \in 1..Len(Tail(todo)), Tail(todo)[i].do = "floor"
      PROVE  \/ Tail(todo)[i].at <= lo2
             \/ \E h \in 1..(i - 1) : Tail(todo)[h].do = "trim" /\ Tail(todo)[h].below = Tail(todo)[i].at
  <2>1. i + 1 \in 1..Len(todo) /\ todo[i + 1] = Tail(todo)[i] /\ (i + 1) - 1 = i BY <1>1
  <2>2. CASE \E h \in 1..i : todo[h].do = "trim" /\ todo[h].below = todo[i + 1].at
    <3>1. PICK h \in 1..i : todo[h].do = "trim" /\ todo[h].below = todo[i + 1].at BY <2>2
    <3>2. CASE h = 1 BY <1>1, <2>1, <3>1, <3>2 DEF Carries
    <3>3. CASE h # 1
      <4>1. h - 1 \in 1..(i - 1) /\ h - 1 \in 1..(Len(todo) - 1) /\ (h - 1) + 1 = h BY <1>1, <3>1, <3>3
      <4>2. Tail(todo)[h - 1] = todo[h] BY <1>1, <4>1
      <4> QED BY <2>1, <3>1, <4>1, <4>2
    <3> QED BY <3>2, <3>3
  <2>3. CASE todo[i + 1].at <= lo
    <3> todo[i + 1].at \in Nat BY <1>5, <2>1 DEF OpSet
    <3> QED BY <2>1, <2>3 DEF Carries
  <2> QED BY <1>5, <2>1, <2>2, <2>3 DEF MetaOK
<1> QED BY <1>2, <1>3, <1>4, <1>5 DEF MetaOK, Carries

(* insert_update(): storing a row.                                         *)
LEMMA InsertKeepsInv == EngineInv /\ IngestInsert => EngineInv'
<1> SUFFICES ASSUME EngineInv, IngestInsert PROVE EngineInv' OBVIOUS
<1> DEFINE todo == ingest.todo
           r == Head(todo).row
<1>1. /\ ingest # NoIngest /\ todo # <<>> /\ Head(todo).do = "insert"
      /\ ingest' = [ingest EXCEPT !.todo = Tail(todo)]
      /\ UNCHANGED <<first, ckpt, floor, rowFailures, decided>>
  BY DEF IngestInsert, Doing, Done
<1>2. /\ ingest \in Ingests /\ Layout(todo) /\ WillReplay(todo, IntentsOf(Future))
      /\ MetaOK(todo, rows, first, ckpt) /\ Backed(ingest.verdicts, Future) /\ TableOK /\ SnapshotsReplay
  BY <1>1 DEF EngineInv, IngestOK
<1>3. todo \in Seq(OpSet) BY <1>2 DEF Ingests
<1>4. /\ r \in RowSet /\ rows' = Append(rows, r) /\ ingest' # NoIngest
      /\ \/ Future' = Future /\ r.kind # "snapshot"
         \/ /\ Future = rows /\ Future' = Append(rows, r)
            /\ r.kind \in {"snapshot", "parked", "resolved"}
  BY FutureOfInsert DEF EngineInv
<1> HIDE DEF todo, r
<1>5. /\ Tail(todo) \in Seq(OpSet) /\ Layout(Tail(todo)) /\ Head(todo) = todo[1]
      /\ Len(Tail(todo)) = Len(todo) - 1 /\ Len(todo) \in Nat \ {0}
      /\ \A i \in 1..(Len(todo) - 1) : Tail(todo)[i] = todo[i + 1]
  BY <1>1, <1>2, <1>3, TailOK, EmptySeq
<1>6. ingest' \in Ingests /\ ingest'.todo = Tail(todo) /\ ingest'.verdicts = ingest.verdicts
  BY <1>1, <1>2, <1>5, IngestsTail
<1>7. rows \in Seq(RowSet) /\ Len(rows) \in Nat /\ first \in 1..Len(rows) BY <1>2 DEF TableOK
<1>8. /\ rows' \in Seq(RowSet) /\ Len(rows') = Len(rows) + 1 /\ rows'[Len(rows')] = r
      /\ \A k \in 1..Len(rows) : rows'[k] = rows[k]
  BY <1>4, <1>7
<1>9. TableOK' BY <1>1, <1>2, <1>7, <1>8 DEF TableOK
<1>10. SnapshotsReplay'
  <2>1. r.kind = "snapshot" => r.seq = Len(IntentsOf(rows)) /\ r.doc = EffectOf(IntentsOf(rows))
    <3> SUFFICES ASSUME r.kind = "snapshot"
                 PROVE  r.seq = Len(IntentsOf(rows)) /\ r.doc = EffectOf(IntentsOf(rows))
      OBVIOUS
    <3>1. 1 \in 1..Len(todo) /\ OfSnapshot(todo[1]) BY <1>1, <1>5 DEF OfSnapshot, r
    <3> QED BY <1>2, <1>4, <1>5, <3>1 DEF WillReplay, r
  <2> QED BY <1>2, <1>4, <2>1, SnapshotsAppend
<1>11. decided' \in SUBSET (Ids \X Statuses) /\ Backed(decided', rows')
  <2>1. <<r>> \in Seq(RowSet) /\ rows' = rows \o <<r>> BY <1>4, <1>7, AppendIsConcat
  <2> QED BY <1>1, <1>7, <2>1, BackedGrows DEF EngineInv
<1>12. IntentsOf(Future') = IntentsOf(Future)
  <2>1. CASE Future = rows /\ Future' = Append(rows, r) /\ r.kind \in {"snapshot", "parked", "resolved"}
    BY <1>4, <1>7, <2>1, IntentsOfAppend
  <2> QED BY <1>4, <2>1
<1>13. WillReplay(Tail(todo), IntentsOf(Future'))
  BY <1>2, <1>5, <1>12 DEF WillReplay
<1>14. MetaOK(Tail(todo), rows', first', ckpt')
  <2>1. OfSnapshot(Head(todo)) => rows'[Len(rows')].kind = "snapshot"
    BY <1>8 DEF OfSnapshot, r
  <2>2. ASSUME NEW b \in first..ckpt, ckpt # 0, rows[b].kind = "snapshot"
        PROVE  b \in first'..ckpt' /\ ckpt' # 0 /\ rows'[b].kind = "snapshot"
    <3> b \in 1..Len(rows) BY <1>2, <1>7, <2>2 DEF TableOK
    <3> QED BY <1>1, <1>8, <2>2
  <2>3. first \in Int /\ first' \in Int /\ first <= first' BY <1>1, <1>7
  <2>4. Carries(Head(todo), rows, first, ckpt, rows', first', ckpt')
    BY <1>1, <2>1, <2>2, <2>3 DEF Carries
  <2> QED BY <1>1, <1>2, <1>3, <2>3, <2>4, TailMeta
<1>15. Backed(ingest'.verdicts, Future')
  <2>1. CASE Future = rows /\ Future' = Append(rows, r)
    <3>1. <<r>> \in Seq(RowSet) /\ Future' = Future \o <<r>> BY <1>4, <1>7, <2>1, AppendIsConcat
    <3>2. Future \in Seq(RowSet) BY <1>7, <2>1
    <3> QED BY <1>2, <1>6, <3>1, <3>2, BackedGrows
  <2> QED BY <1>2, <1>4, <1>6, <2>1
<1>16. IngestOK' BY <1>5, <1>6, <1>13, <1>14, <1>15 DEF IngestOK
<1> QED BY <1>9, <1>10, <1>11, <1>16 DEF EngineInv

(* A statement that stores no row of the plan and none at all.             *)
LEMMA QuietKeepsInv ==
  ASSUME EngineInv, ingest # NoIngest, ingest.todo # <<>>,
         ~IsPlanned(Head(ingest.todo)),
         NEW t \in Seq(OpSet), Layout(t),
         \A i \in 1..Len(t) : \E j \in 1..Len(ingest.todo) : t[i] = ingest.todo[j],
         ingest' = [ingest EXCEPT !.todo = t],
         rows' = rows, decided' = decided, TableOK', MetaOK(t, rows, first', ckpt')
  PROVE  EngineInv' /\ ingest' # NoIngest /\ Future' = Future
<1> DEFINE todo == ingest.todo
<1>2. /\ ingest \in Ingests /\ Layout(todo) /\ WillReplay(todo, IntentsOf(Future))
      /\ Backed(ingest.verdicts, Future) /\ TableOK /\ SnapshotsReplay
  BY DEF EngineInv, IngestOK
<1>3. todo \in Seq(OpSet) BY <1>2 DEF Ingests
<1>4. /\ ingest' \in Ingests /\ ingest' # NoIngest
      /\ ingest'.todo = t /\ ingest'.verdicts = ingest.verdicts
  BY <1>2, IngestsTail
<1> HIDE DEF todo
<1>5. \A i \in 1..Len(todo) : ~IsPlanned(todo[i])
  <2> TAKE i \in 1..Len(todo)
  <2>1. Len(todo) \in Nat \ {0} BY <1>3, EmptySeq DEF todo
  <2>2. 1 \in 1..Len(todo) /\ (i = 1 \/ 1 < i) /\ Head(todo) = todo[1] BY <2>1, <1>3
  <2> QED BY <1>2, <2>2 DEF Layout, PlanFirst, todo
<1>6. \A i \in 1..Len(t) : ~IsPlanned(t[i]) BY <1>5 DEF todo
<1>7. Planned(todo) = <<>> /\ Planned(t) = <<>> BY <1>3, <1>5, <1>6, NothingPlanned
<1>8. rows \in Seq(RowSet) BY <1>2 DEF TableOK
<1>9. Future = rows /\ Future' = rows BY <1>4, <1>7, <1>8 DEF Future, todo
<1>10. SnapshotsReplay' BY <1>2 DEF SnapshotsReplay
<1>11. WillReplay(t, IntentsOf(Future')) BY <1>2, <1>9 DEF WillReplay, todo
<1>12. Backed(ingest'.verdicts, Future') BY <1>2, <1>4, <1>9
<1>13. IngestOK' BY <1>4, <1>11, <1>12 DEF IngestOK
<1>14. decided' \in SUBSET (Ids \X Statuses) /\ Backed(decided', rows') BY DEF EngineInv
<1> QED BY <1>4, <1>9, <1>10, <1>13, <1>14 DEF EngineInv

(* maybe_checkpoint(): recording the row id of the checkpoint.             *)
LEMMA MarkKeepsInv == EngineInv /\ IngestMark => EngineInv' /\ ingest' # NoIngest /\ Future' = Future
<1> SUFFICES ASSUME EngineInv, IngestMark
             PROVE  EngineInv' /\ ingest' # NoIngest /\ Future' = Future
  OBVIOUS
<1> DEFINE todo == ingest.todo
<1>1. /\ ingest # NoIngest /\ todo # <<>> /\ Head(todo).do = "mark"
      /\ ingest' = [ingest EXCEPT !.todo = Tail(todo)]
      /\ ckpt' = Len(rows) /\ UNCHANGED <<rows, first, floor, rowFailures, decided>>
  BY DEF IngestMark, Doing, Done
<1>2. /\ ingest \in Ingests /\ Layout(todo) /\ MetaOK(todo, rows, first, ckpt) /\ TableOK
  BY <1>1 DEF EngineInv, IngestOK
<1>3. todo \in Seq(OpSet) BY <1>2 DEF Ingests
<1>4. /\ Tail(todo) \in Seq(OpSet) /\ Layout(Tail(todo)) /\ Head(todo) = todo[1]
      /\ \A i \in 1..Len(Tail(todo)) : \E j \in 1..Len(todo) : Tail(todo)[i] = todo[j]
  <2> HIDE DEF todo
  <2>1. /\ Tail(todo) \in Seq(OpSet) /\ Layout(Tail(todo)) /\ Head(todo) = todo[1]
        /\ Len(Tail(todo)) = Len(todo) - 1 /\ Len(todo) \in Nat
        /\ \A i \in 1..(Len(todo) - 1) : Tail(todo)[i] = todo[i + 1]
    BY <1>1, <1>2, <1>3, TailOK, EmptySeq
  <2> QED BY <2>1
<1>5. rows[Len(rows)].kind = "snapshot" BY <1>1, <1>2, <1>4 DEF MetaOK
<1>6. TableOK' BY <1>1, <1>2, <1>5 DEF TableOK
<1>7. ~IsPlanned(Head(todo)) BY <1>1 DEF IsPlanned
<1>8. Carries(Head(todo), rows, first, ckpt, rows, first', ckpt')
  BY <1>1, <1>2 DEF Carries, OfSnapshot, TableOK
<1>9. MetaOK(Tail(todo), rows, first', ckpt')
  <2> first \in Int BY <1>2 DEF TableOK
  <2> HIDE DEF todo
  <2> QED BY <1>1, <1>2, <1>3, <1>8, TailMeta
<1> QED BY <1>1, <1>4, <1>6, <1>7, <1>9, QuietKeepsInv

(* maybe_checkpoint(): deleting the rows below the previous checkpoint.    *)
LEMMA TrimKeepsInv == EngineInv /\ IngestTrim => EngineInv' /\ ingest' # NoIngest /\ Future' = Future
<1> SUFFICES ASSUME EngineInv, IngestTrim
             PROVE  EngineInv' /\ ingest' # NoIngest /\ Future' = Future
  OBVIOUS
<1> DEFINE todo == ingest.todo
<1>1. /\ ingest # NoIngest /\ todo # <<>> /\ Head(todo).do = "trim"
      /\ ingest' = [ingest EXCEPT !.todo = Tail(todo)]
      /\ first' = Head(todo).below /\ UNCHANGED <<rows, ckpt, floor, rowFailures, decided>>
  BY DEF IngestTrim, Doing, Done
<1>2. /\ ingest \in Ingests /\ Layout(todo) /\ MetaOK(todo, rows, first, ckpt) /\ TableOK
  BY <1>1 DEF EngineInv, IngestOK
<1>3. todo \in Seq(OpSet) BY <1>2 DEF Ingests
<1>4. /\ Tail(todo) \in Seq(OpSet) /\ Layout(Tail(todo)) /\ Head(todo) = todo[1]
      /\ 1 \in 1..Len(todo)
      /\ \A i \in 1..Len(Tail(todo)) : \E j \in 1..Len(todo) : Tail(todo)[i] = todo[j]
  <2> HIDE DEF todo
  <2>1. /\ Tail(todo) \in Seq(OpSet) /\ Layout(Tail(todo)) /\ Head(todo) = todo[1]
        /\ Len(Tail(todo)) = Len(todo) - 1 /\ Len(todo) \in Nat \ {0}
        /\ \A i \in 1..(Len(todo) - 1) : Tail(todo)[i] = todo[i + 1]
    BY <1>1, <1>2, <1>3, TailOK, EmptySeq
  <2> QED BY <2>1
<1>5. /\ ckpt # 0 /\ Head(todo).below \in first..ckpt
      /\ rows[Head(todo).below].kind = "snapshot"
  BY <1>1, <1>2, <1>4 DEF MetaOK
<1>6. TableOK' BY <1>1, <1>2, <1>5 DEF TableOK
<1>7. ~IsPlanned(Head(todo)) BY <1>1 DEF IsPlanned
<1>8. Carries(Head(todo), rows, first, ckpt, rows, first', ckpt')
  BY <1>1, <1>2, <1>5 DEF Carries, OfSnapshot, TableOK
<1>9. MetaOK(Tail(todo), rows, first', ckpt')
  <2> first \in Int /\ first' \in Int BY <1>2, <1>6 DEF TableOK
  <2> HIDE DEF todo
  <2> QED BY <1>1, <1>2, <1>3, <1>8, TailMeta
<1> QED BY <1>1, <1>4, <1>6, <1>7, <1>9, QuietKeepsInv

(* maybe_checkpoint(): recording the floor.                                *)
LEMMA FloorKeepsInv == EngineInv /\ IngestFloor => EngineInv' /\ ingest' # NoIngest /\ Future' = Future
<1> SUFFICES ASSUME EngineInv, IngestFloor
             PROVE  EngineInv' /\ ingest' # NoIngest /\ Future' = Future
  OBVIOUS
<1> DEFINE todo == ingest.todo
<1>1. /\ ingest # NoIngest /\ todo # <<>> /\ Head(todo).do = "floor"
      /\ ingest' = [ingest EXCEPT !.todo = Tail(todo)]
      /\ floor' = Head(todo).at /\ UNCHANGED <<rows, first, ckpt, rowFailures, decided>>
  BY DEF IngestFloor, Doing, Done
<1>2. /\ ingest \in Ingests /\ Layout(todo) /\ MetaOK(todo, rows, first, ckpt) /\ TableOK
  BY <1>1 DEF EngineInv, IngestOK
<1>3. todo \in Seq(OpSet) BY <1>2 DEF Ingests
<1>4. /\ Tail(todo) \in Seq(OpSet) /\ Layout(Tail(todo)) /\ Head(todo) = todo[1]
      /\ 1 \in 1..Len(todo) /\ Head(todo) \in OpSet
      /\ \A i \in 1..Len(Tail(todo)) : \E j \in 1..Len(todo) : Tail(todo)[i] = todo[j]
  <2> HIDE DEF todo
  <2>1. /\ Tail(todo) \in Seq(OpSet) /\ Layout(Tail(todo)) /\ Head(todo) = todo[1]
        /\ Head(todo) \in OpSet
        /\ Len(Tail(todo)) = Len(todo) - 1 /\ Len(todo) \in Nat \ {0}
        /\ \A i \in 1..(Len(todo) - 1) : Tail(todo)[i] = todo[i + 1]
    BY <1>1, <1>2, <1>3, TailOK, EmptySeq
  <2> QED BY <2>1
<1>5. Head(todo).at <= first /\ Head(todo).at \in Nat
  BY <1>1, <1>2, <1>4 DEF MetaOK, OpSet
<1>6. TableOK' BY <1>1, <1>2, <1>5 DEF TableOK
<1>7. ~IsPlanned(Head(todo)) BY <1>1 DEF IsPlanned
<1>8. Carries(Head(todo), rows, first, ckpt, rows, first', ckpt')
  BY <1>1, <1>2 DEF Carries, OfSnapshot, TableOK
<1>9. MetaOK(Tail(todo), rows, first', ckpt')
  <2> first \in Int /\ first' \in Int BY <1>2, <1>6 DEF TableOK
  <2> HIDE DEF todo
  <2> QED BY <1>1, <1>2, <1>3, <1>8, TailMeta
<1> QED BY <1>1, <1>4, <1>6, <1>7, <1>9, QuietKeepsInv

(* An INSERT fails and the request goes on.                                *)
LEMMA FailureKeepsInv ==
  EngineInv /\ IngestInsertFails => EngineInv' /\ ingest' # NoIngest /\ Future' = Future
<1> SUFFICES ASSUME EngineInv, IngestInsertFails
             PROVE  EngineInv' /\ ingest' # NoIngest /\ Future' = Future
  OBVIOUS
<1> DEFINE todo == ingest.todo
           rest == Tail(todo)
           t == Where(rest, LAMBDA o : o.do = "insert")
<1>1. /\ ingest # NoIngest /\ todo # <<>> /\ Head(todo).do = "insert"
      /\ rowFailures < MaxRowFailures /\ rowFailures' = rowFailures + 1
      /\ UNCHANGED <<rows, first, ckpt, floor, decided>>
      /\ \/ Head(todo).onFail = "ignored" /\ ingest' = [ingest EXCEPT !.todo = rest]
         \/ Head(todo).onFail = "skip" /\ ingest' = [ingest EXCEPT !.todo = t]
  BY DEF IngestInsertFails, Doing, Done
<1>2. /\ ingest \in Ingests /\ Layout(todo) /\ MetaOK(todo, rows, first, ckpt) /\ TableOK
  BY <1>1 DEF EngineInv, IngestOK
<1>3. todo \in Seq(OpSet) BY <1>2 DEF Ingests
<1>4. /\ rest \in Seq(OpSet) /\ Layout(rest) /\ Head(todo) = todo[1] /\ 1 \in 1..Len(todo)
      /\ \A i \in 1..Len(rest) : i + 1 \in 1..Len(todo) /\ rest[i] = todo[i + 1]
  <2> HIDE DEF todo
  <2>1. /\ Tail(todo) \in Seq(OpSet) /\ Layout(Tail(todo)) /\ Head(todo) = todo[1]
        /\ Len(Tail(todo)) = Len(todo) - 1 /\ Len(todo) \in Nat \ {0}
        /\ \A i \in 1..(Len(todo) - 1) : Tail(todo)[i] = todo[i + 1]
    BY <1>1, <1>2, <1>3, TailOK, EmptySeq
  <2> QED BY <2>1
<1>5. TableOK'
  <2> MaxRowFailures \in Nat BY EngineAssumption
  <2> QED BY <1>1, <1>2 DEF TableOK
<1>6. CASE Head(todo).onFail = "ignored" /\ ingest' = [ingest EXCEPT !.todo = rest]
  <2>1. ~IsPlanned(Head(todo)) BY <1>6 DEF IsPlanned
  <2>2. ~OfSnapshot(Head(todo)) BY <1>1, <1>2, <1>4, <1>6 DEF OfSnapshot, Layout, RowsPlanned
  <2>3. Carries(Head(todo), rows, first, ckpt, rows, first', ckpt')
    BY <1>1, <1>2, <2>2 DEF Carries, TableOK
  <2>4. MetaOK(rest, rows, first', ckpt')
    <3> first \in Int /\ first' \in Int BY <1>2, <1>5 DEF TableOK
    <3> HIDE DEF todo
    <3> QED BY <1>1, <1>2, <1>3, <2>3, TailMeta
  <2>5. \A i \in 1..Len(rest) : \E j \in 1..Len(todo) : rest[i] = todo[j] BY <1>4
  <2> QED BY <1>1, <1>4, <1>5, <1>6, <2>1, <2>4, <2>5, QuietKeepsInv
<1>7. CASE Head(todo).onFail = "skip" /\ ingest' = [ingest EXCEPT !.todo = t]
  <2>1. ~IsPlanned(Head(todo)) BY <1>7 DEF IsPlanned
  <2>2. \A i \in 1..Len(rest) : ~IsPlanned(rest[i])
    <3> TAKE i \in 1..Len(rest)
    <3>1. 1 < i + 1 /\ i + 1 \in 1..Len(todo) BY <1>4
    <3> QED BY <1>2, <1>4, <2>1, <3>1 DEF Layout, PlanFirst
  <2> DEFINE K == {k \in DOMAIN rest : rest[k].do = "insert"}
  <2>3. t = Kept(rest, K) BY DEF Where
  <2>4. t \in Seq(OpSet) /\ \A i \in 1..Len(t) : \E j \in 1..Len(rest) : j \in K /\ t[i] = rest[j]
    <3> HIDE DEF K, rest, t
    <3> QED BY <1>4, <2>3, KeptType, KeptFrom
  <2> HIDE DEF t
  <2>5. \A i \in 1..Len(t) : /\ \E j \in 1..Len(rest) : t[i] = rest[j]
                             /\ t[i].do = "insert" /\ ~IsPlanned(t[i])
    BY <2>2, <2>4
  <2>6. PlanFirst(t) /\ MarksFollow(t) BY <2>5 DEF PlanFirst, MarksFollow
  <2>7. RowsPlanned(t)
    <3> HIDE DEF rest
    <3> QED BY <1>4, <2>5 DEF RowsPlanned, Layout
  <2>8. MetaOK(t, rows, first', ckpt')
    <3>1. t # <<>> => 1 \in 1..Len(t)
      <4> t # <<>> => Len(t) \in Nat \ {0} BY <2>4, EmptySeq
      <4> QED OBVIOUS
    <3> QED BY <2>5, <3>1 DEF MetaOK
  <2>9. \A i \in 1..Len(t) : \E j \in 1..Len(todo) : t[i] = todo[j]
    <3> HIDE DEF rest, todo
    <3> QED BY <1>4, <2>5
  <2> QED BY <1>1, <1>5, <1>7, <2>1, <2>4, <2>6, <2>7, <2>8, <2>9, QuietKeepsInv DEF Layout
<1> QED BY <1>1, <1>6, <1>7

(* An ingest that ends or dies leaves a table that stands on its own.      *)
LEMMA EndKeepsInv == EngineInv /\ IngestEnd => EngineInv' /\ Future' = Future
<1> SUFFICES ASSUME EngineInv, IngestEnd PROVE EngineInv' /\ Future' = Future OBVIOUS
<1>1. /\ ingest # NoIngest /\ ingest.todo = <<>> /\ ingest' = NoIngest
      /\ decided' = decided \cup ingest.verdicts
      /\ UNCHANGED <<rows, first, ckpt, floor, rowFailures>>
  BY DEF IngestEnd
<1>2. ingest \in Ingests /\ Backed(ingest.verdicts, Future) /\ TableOK
  BY <1>1 DEF EngineInv, IngestOK
<1>3. Planned(<<>>) = <<>>
  <2>1. ASSUME NEW e \in Seq(OpSet), Len(e) = 0 PROVE Planned(e) = <<>>
    <3> \A k \in 1..Len(e) : ~IsPlanned(e[k]) BY <2>1
    <3> QED BY NothingPlanned
  <2> QED BY <2>1, EmptySeq
<1>4. Future = rows /\ Future' = rows
  <2> rows \in Seq(RowSet) BY <1>2 DEF TableOK
  <2> QED BY <1>1, <1>3 DEF Future
<1>5. TableOK' /\ SnapshotsReplay' BY <1>1, <1>2 DEF EngineInv, TableOK, SnapshotsReplay
<1>6. decided' \in SUBSET (Ids \X Statuses) /\ Backed(decided', rows')
  BY <1>1, <1>2, <1>4 DEF EngineInv, Backed, Ingests
<1> QED BY <1>1, <1>4, <1>5, <1>6 DEF EngineInv, IngestOK

(* The worker dies: what is stored stays, the rest of the plan is gone.    *)
LEMMA DeathKeepsInv == EngineInv /\ IngestDies => EngineInv' /\ Future' = rows
<1> SUFFICES ASSUME EngineInv, IngestDies PROVE EngineInv' /\ Future' = rows OBVIOUS
<1>1. ingest' = NoIngest /\ UNCHANGED <<rows, first, ckpt, floor, rowFailures, decided>>
  BY DEF IngestDies
<1>2. TableOK' /\ SnapshotsReplay' BY <1>1 DEF EngineInv, TableOK, SnapshotsReplay
<1>3. decided' \in SUBSET (Ids \X Statuses) /\ Backed(decided', rows')
  BY <1>1 DEF EngineInv
<1> QED BY <1>1, <1>2, <1>3 DEF EngineInv, IngestOK, Future

(* A new room has its genesis row.                                         *)
LEMMA InitIsOK == EngineInit => EngineInv /\ Future = rows
<1> SUFFICES ASSUME EngineInit PROVE EngineInv /\ Future = rows OBVIOUS
<1>1. /\ rows = <<Snapshot(0, <<>>)>> /\ first = 1 /\ ckpt = 0 /\ floor = 0
      /\ ingest = NoIngest /\ rowFailures = 0 /\ decided = {}
  BY DEF EngineInit
<1> DEFINE r == Snapshot(0, <<>>)
<1>2. r.kind = "snapshot" /\ r.seq = 0 /\ r.doc = <<>> /\ r \in RowSet
  BY DEF Snapshot, RowSet
<1> HIDE DEF r
<1>3. rows \in Seq(RowSet) /\ Len(rows) = 1 /\ rows[1] = r BY <1>1, <1>2 DEF r
<1>4. TableOK
  <2> MaxRowFailures \in Nat BY EngineAssumption
  <2> QED BY <1>1, <1>2, <1>3 DEF TableOK
<1>5. IntentsOf(rows) = <<>>
  <2> \A k \in 1..Len(rows) : rows[k].kind # "intent" BY <1>2, <1>3
  <2> QED BY <1>3, NoIntents
<1>6. EffectOf(<<>>) = <<>>
  <2>1. <<>> \in Seq(Entries) /\ Len(<<>>) = 0 BY EmptySeq
  <2>2. Kept(<<>>, Effective(<<>>)) = <<>> BY KeptEmpty
  <2> QED BY <2>2, EffectOfIsKept
<1>7. SnapshotsReplay
  <2> SUFFICES ASSUME NEW k \in 1..Len(rows)
               PROVE  LET before == IntentsOf(SubSeq(rows, 1, k))
                      IN  rows[k].seq = Len(before) /\ rows[k].doc = EffectOf(before)
    BY DEF SnapshotsReplay
  <2>1. SubSeq(rows, 1, Len(rows)) = rows BY <1>3, SubSeqFull
  <2>2. k = 1 /\ SubSeq(rows, 1, k) = rows /\ rows[k] = r BY <1>3, <2>1
  <2>3. Len(IntentsOf(rows)) = 0 /\ EffectOf(IntentsOf(rows)) = <<>> BY <1>5, <1>6
  <2> QED BY <1>2, <2>2, <2>3, Zenon
<1> QED BY <1>1, <1>4, <1>7 DEF EngineInv, IngestOK, Backed, Future

-----------------------------------------------------------------------------
(* What a request may carry, and what the server makes of it.              *)

(* The updates of a type are updates of that type.                         *)
LEMMA OfTypeIs ==
  ASSUME NEW updates \in Seq(UpdateSet), NEW t
  PROVE  /\ OfType(updates, t) \in Seq({u \in UpdateSet : u.type = t})
         /\ \A u \in ToSet(OfType(updates, t)) : u \in ToSet(updates)
<1> DEFINE K == {k \in DOMAIN updates : updates[k].type = t}
           w == Kept(updates, K)
<1>1. OfType(updates, t) = w BY DEF OfType, Where
<1>2. w \in Seq(UpdateSet) BY KeptType
<1>3. \A i \in 1..Len(w) : \E j \in 1..Len(updates) : j \in K /\ w[i] = updates[j]
  <2> HIDE DEF K
  <2> QED BY KeptFrom
<1> HIDE DEF w
<1>4. \A i \in 1..Len(w) : w[i] \in {u \in UpdateSet : u.type = t}
  <2> TAKE i \in 1..Len(w)
  <2>1. PICK j \in 1..Len(updates) : j \in K /\ w[i] = updates[j] BY <1>3
  <2> QED BY <2>1
<1>5. ToSet(w) = {w[i] : i \in 1..Len(w)} /\ ToSet(updates) = {updates[i] : i \in 1..Len(updates)}
  BY <1>2 DEF ToSet
<1>6. w \in Seq({u \in UpdateSet : u.type = t}) BY <1>2, <1>4
<1> QED BY <1>1, <1>3, <1>5, <1>6

(* LastAbout finds the last row about an intent, or there is none.         *)
LEMMA LastAboutIs ==
  ASSUME TableOK, NEW i, NEW kinds, NEW from \in Nat \ {0}
  PROVE  LET k == LastAbout(i, kinds, from)
         IN  \/ k = 0 /\ \A m \in from..Len(rows) : ~(rows[m].kind \in kinds /\ rows[m].id = i)
             \/ /\ k \in from..Len(rows) /\ rows[k].kind \in kinds /\ rows[k].id = i
                /\ \A m \in from..Len(rows) :
                     rows[m].kind \in kinds /\ rows[m].id = i => m <= k
<1> DEFINE about == {k \in from..Len(rows) : rows[k].kind \in kinds /\ rows[k].id = i}
           k == LastAbout(i, kinds, from)
<1>1. Len(rows) \in Nat BY DEF TableOK
<1>2. CASE about = {} BY <1>2 DEF LastAbout
<1>3. CASE about # {}
  <2>1. PICK x \in about : \A y \in about : y <= x
    <3> about \in SUBSET (0..Len(rows)) BY <1>1
    <3> HIDE DEF about
    <3> QED BY <1>1, <1>3, GreatestNumber
  <2>2. k \in about /\ \A y \in about : y <= k
    <3>1. k = CHOOSE x0 \in about : \A m \in about : m <= x0 BY <1>3 DEF LastAbout
    <3> HIDE DEF about, k
    <3> QED BY <2>1, <3>1, Zenon
  <2> QED BY <2>2
<1> QED BY <1>2, <1>3

(* What the server remembers of an intent, it has a retained row about.    *)
LEMMA SettledIs ==
  ASSUME TableOK, NEW i \in Ids
  PROVE  /\ Settled(i) \in Statuses \cup {"none"} /\ Settled(i) # "stale"
         /\ Settled(i) = "applied" =>
              \E k \in 1..Len(rows) : rows[k].kind = "intent" /\ rows[k].id = i
         /\ Settled(i) = "escalated" =>
              \E k \in 1..Len(rows) : rows[k] = Parked(i)
         /\ Settled(i) = "none" <=>
              \A m \in (BaseRow + 1)..Len(rows) :
                ~(rows[m].kind \in {"intent", "parked", "voided"} /\ rows[m].id = i)
<1> DEFINE k == LastAbout(i, {"intent", "parked", "voided"}, BaseRow + 1)
<1>1. BaseRow \in 1..Len(rows) /\ rows \in Seq(RowSet) /\ Len(rows) \in Nat
  BY BaseRowIsLast DEF TableOK
<1>2. \/ k = 0 /\ \A m \in (BaseRow + 1)..Len(rows) :
                    ~(rows[m].kind \in {"intent", "parked", "voided"} /\ rows[m].id = i)
      \/ /\ k \in (BaseRow + 1)..Len(rows)
         /\ rows[k].kind \in {"intent", "parked", "voided"} /\ rows[k].id = i
  <2> BaseRow + 1 \in Nat \ {0} BY <1>1
  <2> QED BY LastAboutIs
<1>3. Settled(i) = IF k = 0 THEN "none"
                   ELSE CASE rows[k].kind = "intent" -> "applied"
                          [] rows[k].kind = "parked" -> "escalated"
                          [] rows[k].kind = "voided" -> rows[k].reason
  BY DEF Settled
<1> HIDE DEF k
<1>4. CASE k = 0
  <2>1. Settled(i) = "none" BY <1>3, <1>4
  <2>2. k \notin (BaseRow + 1)..Len(rows) BY <1>1, <1>4
  <2> QED BY <1>2, <2>1, <2>2
<1>5. CASE k # 0
  <2>1. /\ k \in (BaseRow + 1)..Len(rows) /\ k \in 1..Len(rows) /\ rows[k] \in RowSet
        /\ rows[k].kind \in {"intent", "parked", "voided"} /\ rows[k].id = i
    BY <1>1, <1>2, <1>5
  <2>2. CASE rows[k].kind = "intent" BY <1>3, <1>5, <2>1, <2>2 DEF Statuses
  <2>3. CASE rows[k].kind = "parked"
    <3>1. rows[k] = Parked(i) BY <2>1, <2>3 DEF RowSet, Entries, Parked
    <3> QED BY <1>3, <1>5, <2>1, <2>3, <3>1 DEF Statuses
  <2>4. CASE rows[k].kind = "voided"
    <3>1. rows[k].reason \in {"voided", "canceled"} BY <2>1, <2>4 DEF RowSet, Entries
    <3> QED BY <1>3, <1>5, <2>1, <2>4, <3>1 DEF Statuses
  <2> QED BY <2>1, <2>2, <2>3, <2>4
<1> QED BY <1>4, <1>5

(* The rows a plan is made of: for which intent of the batch, and on which *)
(* outcome, each of them is written.                                       *)
RowOf(r, x, outcome) ==
  /\ r \in RowSet /\ r.kind \in PlanKinds /\ r.id = x.id
  /\ r.kind = "intent" => outcome \in {"applied", "noop"}
  /\ r.kind = "parked" => outcome \in {"escalated", "approval"}

OriginsOf(a, F, fresh, out, S) ==
  /\ F \in Seq(RowSet) /\ a \in [1..Len(F) -> 1..Len(fresh)]
  /\ \A j \in 1..Len(F) : out[a[j]] \in S /\ RowOf(F[j], fresh[a[j]], out[a[j]])
  /\ \A i, j \in 1..Len(F) :
       F[i].kind = "intent" /\ F[j].kind = "intent" /\ a[i] = a[j] => i = j
  /\ \A k \in 1..Len(fresh) : out[k] = "applied" /\ out[k] \in S =>
       \E j \in 1..Len(F) : a[j] = k /\ F[j].kind = "intent"
  /\ \A k \in 1..Len(fresh) : out[k] \in {"escalated", "approval"} /\ out[k] \in S =>
       \E j \in 1..Len(F) : F[j] = Parked(fresh[k].id)

(* The rows of an outcome: an entry first, if there is one.                *)
LEMMA RowsForIs ==
  ASSUME NEW x \in IntentUpdates, NEW outcome \in AllOutcomes
  PROVE  /\ RowsFor(x, outcome) \in Seq(RowSet)
         /\ \A l \in 1..Len(RowsFor(x, outcome)) :
              /\ RowOf(RowsFor(x, outcome)[l], x, outcome)
              /\ RowsFor(x, outcome)[l].kind = "intent" <=> l = 1 /\ outcome \in {"applied", "noop"}
         /\ Len(RowsFor(x, outcome)) > 0
         /\ outcome \in {"escalated", "approval"} => RowsFor(x, outcome)[1] = Parked(x.id)
<1>1. x.id \in Ids BY DEF IntentUpdates
<1>2. /\ Entry(x.id, FALSE) \in RowSet /\ Entry(x.id, TRUE) \in RowSet
      /\ Voided(x.id, "voided") \in RowSet /\ Parked(x.id) \in RowSet
  BY <1>1 DEF RowSet, Entries, Entry, Voided, Parked
<1> DEFINE w == RowsFor(x, outcome)
           Good(l) == /\ RowOf(w[l], x, outcome)
                      /\ w[l].kind = "intent" <=> l = 1 /\ outcome \in {"applied", "noop"}
<1>7. Len(w) = 1 /\ Good(1) => \A l \in 1..Len(w) : Good(l)
  <2> SUFFICES ASSUME Len(w) = 1, Good(1), NEW l \in 1..Len(w) PROVE Good(l) OBVIOUS
  <2> l = 1 OBVIOUS
  <2> QED OBVIOUS
<1>8. Len(w) = 2 /\ Good(1) /\ Good(2) => \A l \in 1..Len(w) : Good(l)
  <2> SUFFICES ASSUME Len(w) = 2, Good(1), Good(2), NEW l \in 1..Len(w) PROVE Good(l) OBVIOUS
  <2> l = 1 \/ l = 2 OBVIOUS
  <2> QED OBVIOUS
<1>3. CASE outcome = "applied"
  <2> DEFINE r == Entry(x.id, FALSE)
  <2>1. RowsFor(x, outcome) = <<r>> BY <1>3 DEF RowsFor
  <2>2. r \in RowSet /\ r.kind = "intent" /\ RowOf(r, x, outcome)
    BY <1>2, <1>3 DEF RowOf, PlanKinds, Entry, Voided, Parked
  <2> HIDE DEF r
  <2>3. <<r>> \in Seq(RowSet) /\ Len(<<r>>) = 1 /\ (<<r>>)[1] = r BY <2>2
  <2> QED BY <1>3, <1>7, <2>1, <2>2, <2>3
<1>4. CASE outcome = "noop"
  <2> DEFINE r == Entry(x.id, TRUE)
             q == Voided(x.id, "voided")
  <2>1. RowsFor(x, outcome) = <<r, q>> BY <1>4 DEF RowsFor
  <2>2. /\ r \in RowSet /\ r.kind = "intent" /\ RowOf(r, x, outcome)
        /\ q \in RowSet /\ q.kind = "voided" /\ RowOf(q, x, outcome)
    BY <1>2, <1>4 DEF RowOf, PlanKinds, Entry, Voided
  <2> HIDE DEF r, q
  <2>3. <<r, q>> \in Seq(RowSet) /\ Len(<<r, q>>) = 2
        /\ (<<r, q>>)[1] = r /\ (<<r, q>>)[2] = q
    BY <2>2
  <2> QED BY <1>4, <1>8, <2>1, <2>2, <2>3
<1>5. CASE outcome = "voided"
  <2> DEFINE r == Voided(x.id, "voided")
  <2>1. RowsFor(x, outcome) = <<r>> BY <1>5 DEF RowsFor
  <2>2. r \in RowSet /\ r.kind = "voided" /\ RowOf(r, x, outcome)
    BY <1>2, <1>5 DEF RowOf, PlanKinds, Entry, Voided, Parked
  <2> HIDE DEF r
  <2>3. <<r>> \in Seq(RowSet) /\ Len(<<r>>) = 1 /\ (<<r>>)[1] = r BY <2>2
  <2> QED BY <1>5, <1>7, <2>1, <2>2, <2>3
<1>6. CASE outcome \in {"escalated", "approval"}
  <2>1. RowsFor(x, outcome) = <<Parked(x.id)>> BY <1>6 DEF RowsFor
  <2> QED BY <1>2, <1>6, <2>1 DEF RowOf, PlanKinds, Parked
<1> QED BY <1>3, <1>4, <1>5, <1>6 DEF AllOutcomes

PartRows(fresh, out, S) ==
  FlattenSeq([k \in 1..Len(fresh) |->
    IF out[k] \in S THEN RowsFor(fresh[k], out[k]) ELSE <<>>])

(* A part of the plan has origins.                                         *)
LEMMA PartOrigins ==
  ASSUME NEW fresh \in Seq(IntentUpdates), NEW out \in [1..Len(fresh) -> AllOutcomes], NEW S
  PROVE  \E a : OriginsOf(a, PartRows(fresh, out, S), fresh, out, S)
<1> DEFINE g == [k \in 1..Len(fresh) |->
                  IF out[k] \in S THEN RowsFor(fresh[k], out[k]) ELSE <<>>]
           F == PartRows(fresh, out, S)
<1>1. Len(fresh) \in Nat /\ \A k \in 1..Len(fresh) : fresh[k] \in IntentUpdates OBVIOUS
<1>2. ASSUME NEW k \in 1..Len(fresh)
      PROVE  /\ g[k] \in Seq(RowSet) /\ (out[k] \in S => g[k] = RowsFor(fresh[k], out[k]))
             /\ (out[k] \notin S => g[k] = <<>>)
  BY <1>1, RowsForIs, EmptySeq
<1>3. g \in Seq(Seq(RowSet)) /\ Len(g) = Len(fresh) BY <1>1, <1>2
<1>4. F = FlattenSeq(g) BY DEF PartRows
<1> HIDE DEF g, F
<1>5. F \in Seq(RowSet) BY <1>3, <1>4, FlattenType
<1>6. PICK a, b : Sources(a, b, g) BY <1>3, FlattenSources
<1>7. /\ a \in [1..Len(F) -> 1..Len(fresh)]
      /\ \A j \in 1..Len(F) : b[j] \in 1..Len(g[a[j]]) /\ F[j] = g[a[j]][b[j]]
      /\ \A i, j \in 1..Len(F) : a[i] = a[j] /\ b[i] = b[j] => i = j
      /\ \A k \in 1..Len(fresh) : \A l \in 1..Len(g[k]) :
           \E j \in 1..Len(F) : a[j] = k /\ b[j] = l
  BY <1>3, <1>4, <1>6 DEF Sources
<1>8. ASSUME NEW j \in 1..Len(F)
      PROVE  /\ out[a[j]] \in S /\ RowOf(F[j], fresh[a[j]], out[a[j]])
             /\ F[j].kind = "intent" => b[j] = 1
  <2> DEFINE k == a[j]
  <2>1. k \in 1..Len(fresh) /\ b[j] \in 1..Len(g[k]) /\ F[j] = g[k][b[j]] BY <1>7
  <2>2. out[k] \in S
    <3> SUFFICES ASSUME out[k] \notin S PROVE FALSE OBVIOUS
    <3> g[k] = <<>> BY <1>2, <2>1
    <3> QED BY <2>1
  <2>3. g[k] = RowsFor(fresh[k], out[k]) /\ fresh[k] \in IntentUpdates /\ out[k] \in AllOutcomes
    BY <1>1, <1>2, <2>1, <2>2
  <2> QED BY <2>1, <2>2, <2>3, RowsForIs
<1>9. ASSUME NEW k \in 1..Len(fresh), out[k] \in S
      PROVE  \E j \in 1..Len(F) : a[j] = k /\ F[j] = RowsFor(fresh[k], out[k])[1]
  <2>1. g[k] = RowsFor(fresh[k], out[k]) /\ fresh[k] \in IntentUpdates /\ out[k] \in AllOutcomes
    BY <1>1, <1>2, <1>9
  <2>2. Len(g[k]) \in Nat /\ Len(g[k]) > 0 BY <1>2, <2>1, RowsForIs
  <2>3. 1 \in 1..Len(g[k]) BY <2>2
  <2>4. PICK j \in 1..Len(F) : a[j] = k /\ b[j] = 1 BY <1>7, <2>3
  <2>5. F[j] = g[k][1] BY <1>7, <2>4
  <2> QED BY <2>1, <2>4, <2>5
<1>10. ASSUME NEW k \in 1..Len(fresh), out[k] = "applied", out[k] \in S
       PROVE  \E j \in 1..Len(F) : a[j] = k /\ F[j].kind = "intent"
  <2>1. PICK j \in 1..Len(F) : a[j] = k /\ F[j] = RowsFor(fresh[k], out[k])[1] BY <1>9, <1>10
  <2>2. RowsFor(fresh[k], out[k])[1].kind = "intent" BY <1>10 DEF RowsFor, Entry
  <2> QED BY <2>1, <2>2
<1>11. ASSUME NEW k \in 1..Len(fresh), out[k] \in {"escalated", "approval"}, out[k] \in S
       PROVE  \E j \in 1..Len(F) : F[j] = Parked(fresh[k].id)
  <2>1. PICK j \in 1..Len(F) : a[j] = k /\ F[j] = RowsFor(fresh[k], out[k])[1] BY <1>9, <1>11
  <2>2. RowsFor(fresh[k], out[k])[1] = Parked(fresh[k].id) BY <1>11 DEF RowsFor
  <2> QED BY <2>1, <2>2
<1>12. \A i, j \in 1..Len(F) :
         F[i].kind = "intent" /\ F[j].kind = "intent" /\ a[i] = a[j] => i = j
  BY <1>7, <1>8
<1>13. OriginsOf(a, F, fresh, out, S)
  BY <1>5, <1>7, <1>8, <1>10, <1>11, <1>12 DEF OriginsOf
<1> QED BY <1>13 DEF F

(* Two parts for different outcomes have origins together.                 *)
LEMMA OriginsConcat ==
  ASSUME NEW fresh \in Seq(IntentUpdates), NEW out \in [1..Len(fresh) -> AllOutcomes],
         NEW S, NEW T, S \cap T = {},
         NEW a, NEW F, OriginsOf(a, F, fresh, out, S),
         NEW b, NEW G, OriginsOf(b, G, fresh, out, T)
  PROVE  \E c : OriginsOf(c, F \o G, fresh, out, S \cup T)
<1> DEFINE H == F \o G
           c == [j \in 1..Len(H) |-> IF j <= Len(F) THEN a[j] ELSE b[j - Len(F)]]
<1>1. /\ F \in Seq(RowSet) /\ a \in [1..Len(F) -> 1..Len(fresh)]
      /\ \A j \in 1..Len(F) : out[a[j]] \in S /\ RowOf(F[j], fresh[a[j]], out[a[j]])
      /\ \A i, j \in 1..Len(F) :
           F[i].kind = "intent" /\ F[j].kind = "intent" /\ a[i] = a[j] => i = j
      /\ \A k \in 1..Len(fresh) : out[k] = "applied" /\ out[k] \in S =>
           \E j \in 1..Len(F) : a[j] = k /\ F[j].kind = "intent"
      /\ \A k \in 1..Len(fresh) : out[k] \in {"escalated", "approval"} /\ out[k] \in S =>
           \E j \in 1..Len(F) : F[j] = Parked(fresh[k].id)
  BY DEF OriginsOf
<1>2. /\ G \in Seq(RowSet) /\ b \in [1..Len(G) -> 1..Len(fresh)]
      /\ \A j \in 1..Len(G) : out[b[j]] \in T /\ RowOf(G[j], fresh[b[j]], out[b[j]])
      /\ \A i, j \in 1..Len(G) :
           G[i].kind = "intent" /\ G[j].kind = "intent" /\ b[i] = b[j] => i = j
      /\ \A k \in 1..Len(fresh) : out[k] = "applied" /\ out[k] \in T =>
           \E j \in 1..Len(G) : b[j] = k /\ G[j].kind = "intent"
      /\ \A k \in 1..Len(fresh) : out[k] \in {"escalated", "approval"} /\ out[k] \in T =>
           \E j \in 1..Len(G) : G[j] = Parked(fresh[k].id)
  BY DEF OriginsOf
<1>3. /\ H \in Seq(RowSet) /\ Len(H) = Len(F) + Len(G) /\ Len(F) \in Nat /\ Len(G) \in Nat
      /\ \A j \in 1..Len(F) : H[j] = F[j]
      /\ \A j \in 1..Len(G) : H[Len(F) + j] = G[j]
  BY <1>1, <1>2
<1> HIDE DEF H
<1>4. ASSUME NEW j \in 1..Len(H)
      PROVE  \/ /\ j \in 1..Len(F) /\ H[j] = F[j] /\ c[j] = a[j]
             \/ /\ j - Len(F) \in 1..Len(G) /\ ~(j <= Len(F))
                /\ H[j] = G[j - Len(F)] /\ c[j] = b[j - Len(F)]
  <2>1. CASE j <= Len(F) BY <1>3, <2>1
  <2>2. CASE ~(j <= Len(F))
    <3>1. j - Len(F) \in 1..Len(G) /\ Len(F) + (j - Len(F)) = j BY <1>3, <2>2
    <3> QED BY <1>3, <2>2, <3>1
  <2> QED BY <2>1, <2>2
<1>5. /\ \A j \in 1..Len(F) : j \in 1..Len(H) /\ c[j] = a[j]
      /\ \A j \in 1..Len(G) : Len(F) + j \in 1..Len(H) /\ c[Len(F) + j] = b[j]
  <2>1. \A j \in 1..Len(F) : j \in 1..Len(H) /\ j <= Len(F) BY <1>3
  <2>2. \A j \in 1..Len(G) :
          Len(F) + j \in 1..Len(H) /\ ~(Len(F) + j <= Len(F)) /\ (Len(F) + j) - Len(F) = j
    BY <1>3
  <2> QED BY <2>1, <2>2
<1>6. DOMAIN c = 1..Len(H) /\ c = [j \in 1..Len(H) |-> c[j]] OBVIOUS
<1> HIDE DEF c
<1>7. c \in [1..Len(H) -> 1..Len(fresh)] BY <1>1, <1>2, <1>4, <1>6, SMTT(30)
<1>8. \A j \in 1..Len(H) :
        out[c[j]] \in S \cup T /\ RowOf(H[j], fresh[c[j]], out[c[j]])
  BY <1>1, <1>2, <1>4
<1>9. ASSUME NEW i \in 1..Len(H), NEW j \in 1..Len(H),
             H[i].kind = "intent", H[j].kind = "intent", c[i] = c[j]
      PROVE  i = j
  <2>1. CASE i \in 1..Len(F) /\ j \in 1..Len(F) /\ c[i] = a[i] /\ c[j] = a[j]
             /\ H[i] = F[i] /\ H[j] = F[j]
    BY <1>1, <1>9, <2>1, ZenonT(60)
  <2>2. CASE i - Len(F) \in 1..Len(G) /\ j - Len(F) \in 1..Len(G)
             /\ c[i] = b[i - Len(F)] /\ c[j] = b[j - Len(F)]
             /\ H[i] = G[i - Len(F)] /\ H[j] = G[j - Len(F)]
    <3> i - Len(F) = j - Len(F) BY <1>2, <1>9, <2>2, ZenonT(60)
    <3> QED BY <1>3
  <2>3. CASE i \in 1..Len(F) /\ c[i] = a[i] /\ j - Len(F) \in 1..Len(G) /\ c[j] = b[j - Len(F)]
    <3> out[c[i]] \in S /\ out[c[j]] \in T BY <1>1, <1>2, <2>3
    <3> QED BY <1>9
  <2>4. CASE j \in 1..Len(F) /\ c[j] = a[j] /\ i - Len(F) \in 1..Len(G) /\ c[i] = b[i - Len(F)]
    <3> out[c[j]] \in S /\ out[c[i]] \in T BY <1>1, <1>2, <2>4
    <3> QED BY <1>9
  <2> QED BY <1>4, <2>1, <2>2, <2>3, <2>4
<1>10. ASSUME NEW k \in 1..Len(fresh), out[k] = "applied", out[k] \in S \cup T
       PROVE  \E j \in 1..Len(H) : c[j] = k /\ H[j].kind = "intent"
  <2>1. CASE out[k] \in S
    <3>1. PICK j \in 1..Len(F) : a[j] = k /\ F[j].kind = "intent" BY <1>1, <1>10, <2>1
    <3>2. j \in 1..Len(H) /\ c[j] = k /\ H[j].kind = "intent" BY <1>3, <1>5, <3>1
    <3> QED BY <3>2
  <2>2. CASE out[k] \in T
    <3>1. PICK j \in 1..Len(G) : b[j] = k /\ G[j].kind = "intent" BY <1>2, <1>10, <2>2
    <3>2. Len(F) + j \in 1..Len(H) /\ c[Len(F) + j] = k /\ H[Len(F) + j].kind = "intent"
      BY <1>3, <1>5, <3>1
    <3> QED BY <3>2
  <2> QED BY <1>10, <2>1, <2>2
<1>11. ASSUME NEW k \in 1..Len(fresh), out[k] \in {"escalated", "approval"}, out[k] \in S \cup T
       PROVE  \E j \in 1..Len(H) : H[j] = Parked(fresh[k].id)
  <2>1. CASE out[k] \in S
    <3>1. PICK j \in 1..Len(F) : F[j] = Parked(fresh[k].id) BY <1>1, <1>11, <2>1
    <3>2. j \in 1..Len(H) /\ H[j] = F[j] BY <1>3, <1>5
    <3> QED BY <3>1, <3>2
  <2>2. CASE out[k] \in T
    <3>1. PICK j \in 1..Len(G) : G[j] = Parked(fresh[k].id) BY <1>2, <1>11, <2>2
    <3>2. Len(F) + j \in 1..Len(H) /\ H[Len(F) + j] = G[j] BY <1>3, <1>5
    <3> QED BY <3>1, <3>2
  <2> QED BY <1>11, <2>1, <2>2
<1>12. OriginsOf(c, H, fresh, out, S \cup T)
  BY <1>3, <1>7, <1>8, <1>9, <1>10, <1>11 DEF OriginsOf
<1> QED BY <1>12 DEF H

(* The whole plan has origins.                                             *)
LEMMA PlanOrigins ==
  ASSUME NEW fresh \in Seq(IntentUpdates), NEW out \in [1..Len(fresh) -> AllOutcomes]
  PROVE  \E a : OriginsOf(a, PlanRows(fresh, out), fresh, out, AllOutcomes)
<1> DEFINE S == {"approval"}
           T == AllOutcomes \ {"approval"}
<1>1. PlanRows(fresh, out) = PartRows(fresh, out, S) \o PartRows(fresh, out, T)
  BY DEF PlanRows, PartRows
<1>2. S \cap T = {} /\ S \cup T = AllOutcomes BY DEF AllOutcomes
<1> HIDE DEF S, T
<1>3. PICK a : OriginsOf(a, PartRows(fresh, out, S), fresh, out, S) BY PartOrigins
<1>4. PICK b : OriginsOf(b, PartRows(fresh, out, T), fresh, out, T) BY PartOrigins
<1> DEFINE F == PartRows(fresh, out, S)
           G == PartRows(fresh, out, T)
<1> HIDE DEF F, G
<1>5. OriginsOf(a, F, fresh, out, S) /\ OriginsOf(b, G, fresh, out, T) BY <1>3, <1>4 DEF F, G
<1>6. \E c : OriginsOf(c, F \o G, fresh, out, S \cup T) BY <1>2, <1>5, OriginsConcat
<1> QED BY <1>1, <1>2, <1>6 DEF F, G

(* The other rows of an ingest.                                            *)
LEMMA CancelRowsAre ==
  ASSUME NEW updates \in Seq(UpdateSet)
  PROVE  CancelRows(updates) \in Seq([kind : {"voided"}, id : Ids, reason : {"canceled"}])
<1> DEFINE cancels == OfType(updates, "cancel")
           G == {k \in DOMAIN cancels : ~TooLate(cancels[k])}
           granted == Kept(cancels, G)
           g == [k \in 1..Len(granted) |-> granted[k].ids]
           targets == FlattenSeq(g)
           N == {k \in DOMAIN targets : Settled(targets[k]) = "none"}
           newly == Kept(targets, N)
<1>1. CancelRows(updates) = [k \in 1..Len(newly) |-> Voided(newly[k], "canceled")]
  BY DEF CancelRows, Where
<1>2. granted \in Seq({u \in UpdateSet : u.type = "cancel"}) BY OfTypeIs, KeptType
<1> HIDE DEF granted
<1>3. g \in Seq(Seq(Ids))
  <2>1. \A k \in 1..Len(granted) : granted[k].ids \in Seq(Ids)
    <3> TAKE k \in 1..Len(granted)
    <3> granted[k] \in UpdateSet /\ granted[k].type = "cancel" BY <1>2
    <3> QED BY DEF UpdateSet, IntentUpdates
  <2>2. Len(granted) \in Nat BY <1>2
  <2> QED BY <2>1, <2>2
<1> HIDE DEF g
<1>4. targets \in Seq(Ids) BY <1>3, FlattenType
<1> HIDE DEF targets
<1>5. newly \in Seq(Ids) BY <1>4, KeptType
<1> HIDE DEF newly
<1>6. \A k \in 1..Len(newly) :
        Voided(newly[k], "canceled") \in [kind : {"voided"}, id : Ids, reason : {"canceled"}]
  BY <1>5 DEF Voided
<1>7. Len(newly) \in Nat BY <1>5
<1> QED BY <1>1, <1>6, <1>7

(* Resolutions are stored as resolution rows.                              *)
LEMMA ResolutionRowsAre ==
  ASSUME NEW updates \in Seq(UpdateSet)
  PROVE  ResolutionRows(updates) \in Seq([kind : {"resolved"}, id : Ids])
<1> DEFINE asked == OfType(updates, "resolved")
           open == Kept(asked, {k \in DOMAIN asked : Open(asked[k].id)})
<1>1. ResolutionRows(updates) = [k \in 1..Len(open) |-> Resolved(open[k].id)]
  BY DEF ResolutionRows, Where
<1>2. open \in Seq({u \in UpdateSet : u.type = "resolved"}) BY OfTypeIs, KeptType
<1> HIDE DEF open
<1>3. \A k \in 1..Len(open) : Resolved(open[k].id) \in [kind : {"resolved"}, id : Ids]
  <2> TAKE k \in 1..Len(open)
  <2> open[k] \in UpdateSet /\ open[k].type = "resolved" BY <1>2
  <2> QED BY DEF UpdateSet, IntentUpdates, Resolved
<1>4. Len(open) \in Nat BY <1>2
<1> QED BY <1>1, <1>3, <1>4

(* The rows that are appended again are proposals.                         *)
LEMMA ReappendedAre ==
  ASSUME TableOK, ckpt # 0
  PROVE  Reappended \in Seq([kind : {"parked"}, id : Ids])
<1> DEFINE old == SubSeq(rows, first, ckpt - 1)
           K == {k \in DOMAIN old : /\ old[k].kind = "parked"
                                    /\ LastAbout(old[k].id, {"resolved"}, first) = 0}
           w == Kept(old, K)
<1>1. Reappended = w BY DEF Reappended, Where
<1>2. old \in Seq(RowSet)
  <2> rows \in Seq(RowSet) /\ first \in 1..Len(rows) /\ ckpt \in first..Len(rows) BY DEF TableOK
  <2> QED OBVIOUS
<1> HIDE DEF old
<1>3. w \in Seq(RowSet) BY <1>2, KeptType
<1>4. \A i \in 1..Len(w) : \E j \in 1..Len(old) : j \in K /\ w[i] = old[j]
  <2> HIDE DEF K
  <2> QED BY <1>2, KeptFrom
<1> HIDE DEF w
<1>5. \A i \in 1..Len(w) : w[i] \in [kind : {"parked"}, id : Ids]
  <2> TAKE i \in 1..Len(w)
  <2>1. w[i] \in RowSet /\ w[i].kind = "parked" BY <1>3, <1>4
  <2> QED BY <2>1 DEF RowSet, Entries
<1> DEFINE R == [kind : {"parked"}, id : Ids]
<1> HIDE DEF R
<1>6. \A i \in 1..Len(w) : w[i] \in R BY <1>5 DEF R
<1>7. w \in Seq(R) BY <1>3, <1>6
<1> QED BY <1>1, <1>7 DEF R

(* Inserts are statements, one per row.                                    *)
LEMMA InsertsAre ==
  ASSUME NEW A \in Seq(RowSet), NEW how \in {"abort", "ignored", "skip"}
  PROVE  /\ Inserts(A, how) \in Seq([do : {"insert"}, row : RowSet, onFail : {how}])
         /\ Inserts(A, how) \in Seq(OpSet)
         /\ Len(Inserts(A, how)) = Len(A)
         /\ \A k \in 1..Len(A) : Inserts(A, how)[k] = Insert(A[k], how)
<1>1. Len(A) \in Nat /\ Inserts(A, how) = [k \in 1..Len(A) |-> Insert(A[k], how)]
  BY DEF Inserts
<1>2. \A k \in 1..Len(A) :
        Insert(A[k], how) \in [do : {"insert"}, row : RowSet, onFail : {how}]
  BY DEF Insert
<1>3. [do : {"insert"}, row : RowSet, onFail : {how}] \subseteq OpSet BY DEF OpSet
<1>4. /\ Inserts(A, how) \in Seq([do : {"insert"}, row : RowSet, onFail : {how}])
      /\ Len(Inserts(A, how)) = Len(A)
      /\ \A k \in 1..Len(A) : Inserts(A, how)[k] = Insert(A[k], how)
  BY <1>1, <1>2
<1>5. Inserts(A, how) \in Seq(OpSet) BY <1>3, <1>4, SeqMonotonic, Zenon
<1> QED BY <1>4, <1>5

(* What an ingest sets out to do.                                          *)
StartOK(s, log) ==
  /\ s \in Seq(OpSet) /\ Layout(s) /\ WillReplay(s, log)
  /\ s # <<>> => s[1].do # "mark"
  /\ \A i \in 1..Len(s) : s[i].do = "trim" => ckpt # 0 /\ s[i].below = ckpt
  /\ \A i \in 1..Len(s) : s[i].do = "floor" =>
       s[i].at = ckpt /\ \E h \in 1..(i - 1) : s[h].do = "trim"

(* None of the statements stores a row of the plan.                        *)
NonePlanned(s) == \A i \in 1..Len(s) : ~IsPlanned(s[i])

(* Two such lists one after the other, the planned rows first.             *)
LEMMA StartConcat ==
  ASSUME NEW s, NEW t, NEW log, StartOK(s, log), StartOK(t, log),
         (\A i \in 1..Len(s) : IsPlanned(s[i])) \/ NonePlanned(t)
  PROVE  StartOK(s \o t, log)
<1> DEFINE u == s \o t
<1>1. s \in Seq(OpSet) /\ t \in Seq(OpSet) BY DEF StartOK
<1>2. /\ u \in Seq(OpSet) /\ Len(u) = Len(s) + Len(t) /\ Len(s) \in Nat /\ Len(t) \in Nat
      /\ \A i \in 1..Len(s) : u[i] = s[i]
      /\ \A i \in 1..Len(t) : u[Len(s) + i] = t[i]
      /\ (s = <<>> => u = t)
  BY <1>1
<1> HIDE DEF u
<1>3. ASSUME NEW i \in 1..Len(u)
      PROVE  \/ i \in 1..Len(s) /\ u[i] = s[i]
             \/ /\ i - Len(s) \in 1..Len(t) /\ ~(i <= Len(s))
                /\ u[i] = t[i - Len(s)]
  <2>1. CASE i <= Len(s) BY <1>2, <2>1
  <2>2. CASE ~(i <= Len(s))
    <3>1. i - Len(s) \in 1..Len(t) /\ Len(s) + (i - Len(s)) = i BY <1>2, <2>2
    <3> QED BY <1>2, <2>2, <3>1
  <2> QED BY <2>1, <2>2
<1>4. PlanFirst(u)
  <2> SUFFICES ASSUME NEW i \in 1..Len(u), NEW j \in 1..Len(u), i < j, IsPlanned(u[j])
               PROVE  IsPlanned(u[i])
    BY DEF PlanFirst
  <2>1. CASE j \in 1..Len(s) /\ u[j] = s[j]
    <3>1. i \in 1..Len(s) /\ u[i] = s[i] BY <1>2, <2>1
    <3> QED BY <2>1, <3>1 DEF StartOK, Layout, PlanFirst
  <2>2. CASE j - Len(s) \in 1..Len(t) /\ u[j] = t[j - Len(s)] /\ ~(j <= Len(s))
    <3>1. ~NonePlanned(t) BY <2>2 DEF NonePlanned
    <3>2. CASE i \in 1..Len(s) /\ u[i] = s[i] BY <3>1, <3>2
    <3>3. CASE i - Len(s) \in 1..Len(t) /\ u[i] = t[i - Len(s)]
      <4> i - Len(s) < j - Len(s) BY <1>2
      <4> QED BY <2>2, <3>3 DEF StartOK, Layout, PlanFirst
    <3> QED BY <1>3, <3>2, <3>3
  <2> QED BY <1>3, <2>1, <2>2
<1>5. RowsPlanned(u)
  <2> SUFFICES ASSUME NEW i \in 1..Len(u), u[i].do = "insert"
               PROVE  /\ IsPlanned(u[i]) => u[i].row.kind \in PlanKinds
                      /\ ~IsPlanned(u[i]) => u[i].row.kind \in {"snapshot", "parked", "resolved"}
                      /\ u[i].onFail = "skip" <=> u[i].row.kind = "snapshot"
    BY DEF RowsPlanned
  <2>1. CASE i \in 1..Len(s) /\ u[i] = s[i] BY <2>1 DEF StartOK, Layout, RowsPlanned
  <2>2. CASE i - Len(s) \in 1..Len(t) /\ u[i] = t[i - Len(s)]
    BY <2>2 DEF StartOK, Layout, RowsPlanned
  <2> QED BY <1>3, <2>1, <2>2
<1>6. MarksFollow(u)
  <2> SUFFICES ASSUME NEW i \in 1..Len(u), u[i].do = "mark", i > 1
               PROVE  OfSnapshot(u[i - 1])
    BY DEF MarksFollow
  <2>1. CASE i \in 1..Len(s) /\ u[i] = s[i]
    <3> i - 1 \in 1..Len(s) /\ u[i - 1] = s[i - 1] BY <1>2, <2>1
    <3> QED BY <2>1 DEF StartOK, Layout, MarksFollow
  <2>2. CASE i - Len(s) \in 1..Len(t) /\ u[i] = t[i - Len(s)]
    <3>1. i - Len(s) # 1
      <4> SUFFICES ASSUME i - Len(s) = 1 PROVE FALSE OBVIOUS
      <4>1. t[1].do = "mark" /\ t # <<>> BY <1>1, <2>2
      <4> QED BY <4>1 DEF StartOK
    <3>2. /\ (i - Len(s)) - 1 \in 1..Len(t) /\ i - Len(s) > 1
          /\ Len(s) + ((i - Len(s)) - 1) = i - 1
      <4>1. ASSUME NEW l \in Nat, NEW m \in Nat, NEW x \in Nat, x - l \in 1..m, x - l # 1
            PROVE  (x - l) - 1 \in 1..m /\ x - l > 1 /\ l + ((x - l) - 1) = x - 1
        BY <4>1
      <4>2. Len(s) \in Nat /\ Len(t) \in Nat /\ i \in Nat BY <1>2
      <4> QED BY <2>2, <3>1, <4>1, <4>2
    <3>3. u[i - 1] = t[(i - Len(s)) - 1] BY <1>2, <3>2
    <3>4. OfSnapshot(t[(i - Len(s)) - 1]) BY <2>2, <3>2 DEF StartOK, Layout, MarksFollow
    <3> QED BY <3>3, <3>4
  <2> QED BY <1>3, <2>1, <2>2
<1>7. WillReplay(u, log)
  <2> SUFFICES ASSUME NEW i \in 1..Len(u), OfSnapshot(u[i])
               PROVE  u[i].row.seq = Len(log) /\ u[i].row.doc = EffectOf(log)
    BY DEF WillReplay
  <2>1. CASE i \in 1..Len(s) /\ u[i] = s[i] BY <2>1 DEF StartOK, WillReplay
  <2>2. CASE i - Len(s) \in 1..Len(t) /\ u[i] = t[i - Len(s)] BY <2>2 DEF StartOK, WillReplay
  <2> QED BY <1>3, <2>1, <2>2
<1>8. u # <<>> => u[1].do # "mark"
  <2>1. CASE s = <<>> BY <1>2, <2>1 DEF StartOK
  <2>2. CASE s # <<>>
    <3>1. 1 \in 1..Len(s) BY <1>1, <2>2, EmptySeq
    <3> QED BY <1>2, <2>2, <3>1 DEF StartOK
  <2> QED BY <2>1, <2>2
<1>9. ASSUME NEW i \in 1..Len(u), u[i].do = "trim" PROVE ckpt # 0 /\ u[i].below = ckpt
  <2>1. CASE i \in 1..Len(s) /\ u[i] = s[i] BY <1>9, <2>1 DEF StartOK
  <2>2. CASE i - Len(s) \in 1..Len(t) /\ u[i] = t[i - Len(s)] BY <1>9, <2>2 DEF StartOK
  <2> QED BY <1>3, <2>1, <2>2
<1>10. ASSUME NEW i \in 1..Len(u), u[i].do = "floor"
       PROVE  u[i].at = ckpt /\ \E h \in 1..(i - 1) : u[h].do = "trim"
  <2>1. CASE i \in 1..Len(s) /\ u[i] = s[i]
    <3>1. s[i].at = ckpt /\ \E h \in 1..(i - 1) : s[h].do = "trim" BY <1>10, <2>1 DEF StartOK
    <3>2. \A h \in 1..(i - 1) : u[h] = s[h] BY <1>2, <2>1
    <3> QED BY <2>1, <3>1, <3>2
  <2>2. CASE i - Len(s) \in 1..Len(t) /\ u[i] = t[i - Len(s)]
    <3>1. t[i - Len(s)].at = ckpt BY <1>10, <2>2 DEF StartOK
    <3>2. PICK h \in 1..((i - Len(s)) - 1) : t[h].do = "trim" BY <1>10, <2>2 DEF StartOK
    <3>3. h \in 1..Len(t) /\ Len(s) + h \in 1..(i - 1) BY <1>2, <2>2, <3>2
    <3>4. u[Len(s) + h] = t[h] BY <1>2, <3>3
    <3> QED BY <2>2, <3>1, <3>2, <3>3, <3>4
  <2> QED BY <1>3, <2>1, <2>2
<1> QED BY <1>2, <1>4, <1>5, <1>6, <1>7, <1>8, <1>9, <1>10 DEF StartOK, Layout, u

(* Two lists that store no row of the plan.                                *)
LEMMA NonePlannedConcat ==
  ASSUME NEW s \in Seq(OpSet), NEW t \in Seq(OpSet), NonePlanned(s), NonePlanned(t)
  PROVE  NonePlanned(s \o t)
<1> SUFFICES ASSUME NEW i \in 1..Len(s \o t) PROVE ~IsPlanned((s \o t)[i]) BY DEF NonePlanned
<1>1. Len(s) \in Nat /\ Len(t) \in Nat /\ Len(s \o t) = Len(s) + Len(t) OBVIOUS
<1>2. CASE i <= Len(s)
  <2> i \in 1..Len(s) /\ (s \o t)[i] = s[i] BY <1>1, <1>2
  <2> QED BY DEF NonePlanned
<1>3. CASE ~(i <= Len(s))
  <2> i - Len(s) \in 1..Len(t) /\ (s \o t)[i] = t[i - Len(s)] BY <1>1, <1>3
  <2> QED BY DEF NonePlanned
<1> QED BY <1>2, <1>3

(* The inserts of a fresh ingest.                                          *)
LEMMA StartOfInserts ==
  ASSUME NEW A \in Seq(RowSet), NEW how \in {"abort", "ignored"}, NEW log,
         \A k \in 1..Len(A) : A[k].kind \in
            (IF how = "abort" THEN PlanKinds \cup {"resolved"} ELSE {"parked"})
  PROVE  /\ (\A k \in 1..Len(A) : A[k].kind # "resolved")
              \/ (\A k \in 1..Len(A) : A[k].kind = "resolved")
              => StartOK(Inserts(A, how), log)
         /\ how = "ignored" \/ (\A k \in 1..Len(A) : A[k].kind = "resolved")
              => NonePlanned(Inserts(A, how))
         /\ how = "abort" /\ (\A k \in 1..Len(A) : A[k].kind # "resolved")
              => \A k \in 1..Len(Inserts(A, how)) : IsPlanned(Inserts(A, how)[k])
<1> DEFINE s == Inserts(A, how)
<1>1. /\ s \in Seq(OpSet) /\ Len(s) = Len(A) /\ Len(s) \in Nat
      /\ \A k \in 1..Len(A) : s[k] = Insert(A[k], how)
  BY InsertsAre
<1> HIDE DEF s
<1>2. \A k \in 1..Len(s) : s[k].do = "insert" /\ s[k].row = A[k] /\ s[k].onFail = how
  <2> TAKE k \in 1..Len(s)
  <2> s[k] = Insert(A[k], how) BY <1>1
  <2> QED BY DEF Insert
<1>3. \A k \in 1..Len(s) : IsPlanned(s[k]) <=> how = "abort" /\ A[k].kind # "resolved"
  BY <1>2 DEF IsPlanned
<1>4. RowsPlanned(s) BY <1>1, <1>2, <1>3 DEF RowsPlanned, PlanKinds
<1>5. MarksFollow(s) /\ WillReplay(s, log)
  BY <1>1, <1>2 DEF MarksFollow, WillReplay, OfSnapshot, PlanKinds
<1>6. s # <<>> => s[1].do # "mark"
  <2> s # <<>> => 1 \in 1..Len(s) BY <1>1, EmptySeq
  <2> QED BY <1>2
<1>7. ASSUME \/ \A k \in 1..Len(A) : A[k].kind # "resolved"
             \/ \A k \in 1..Len(A) : A[k].kind = "resolved"
      PROVE  StartOK(s, log)
  <2>1. PlanFirst(s)
    <3>1. CASE \A k \in 1..Len(A) : A[k].kind # "resolved"
      BY <1>1, <1>3, <3>1 DEF PlanFirst
    <3>2. CASE \A k \in 1..Len(A) : A[k].kind = "resolved"
      BY <1>1, <1>3, <3>2 DEF PlanFirst
    <3> QED BY <1>7, <3>1, <3>2
  <2> QED BY <1>1, <1>2, <1>4, <1>5, <1>6, <2>1 DEF StartOK, Layout
<1>8. how = "ignored" \/ (\A k \in 1..Len(A) : A[k].kind = "resolved") => NonePlanned(s)
  BY <1>1, <1>3 DEF NonePlanned
<1>9. how = "abort" /\ (\A k \in 1..Len(A) : A[k].kind # "resolved")
        => \A k \in 1..Len(s) : IsPlanned(s[k])
  BY <1>1, <1>3
<1> QED BY <1>7, <1>8, <1>9 DEF s

(* The statements of maybe_checkpoint().                                   *)
LEMMA StartOfCheckpoint ==
  ASSUME TableOK, NEW n \in Nat, NEW log, NEW doc \in Seq(Ids), HeadSeq + n \in Nat,
         HeadSeq + n = Len(log), doc = EffectOf(log)
  PROVE  StartOK(CheckpointOps(n, doc), log) /\ NonePlanned(CheckpointOps(n, doc))
<1> DEFINE re == IF ckpt = 0 THEN <<>> ELSE Reappended
           r == Snapshot(HeadSeq + n, doc)
           i == Insert(r, "skip")
           m == <<i, Mark>>
           d == IF ckpt = 0 THEN <<>> ELSE <<Trim(ckpt), SetFloor(ckpt)>>
<1>1. CheckpointOps(n, doc) = IF Len(Log) + n < Interval THEN <<>>
                              ELSE (Inserts(re, "ignored") \o m) \o d
  BY DEF CheckpointOps
<1>2. r \in RowSet /\ r.kind = "snapshot" /\ r.seq = Len(log) /\ r.doc = EffectOf(log)
  BY DEF Snapshot, RowSet
<1> HIDE DEF r
<1>3. ckpt \in Nat BY DEF TableOK
<1>4. i \in OpSet /\ i.do = "insert" /\ i.row = r /\ i.onFail = "skip"
  BY <1>2 DEF Insert, OpSet
<1> HIDE DEF i
<1>5. StartOK(m, log) /\ NonePlanned(m)
  <2>1. m \in Seq(OpSet) /\ Len(m) = 2 /\ m[1] = i /\ m[2] = Mark
    BY <1>4 DEF Mark, OpSet
  <2> HIDE DEF m
  <2>2. Mark.do = "mark" BY DEF Mark
  <2>3. \A k \in 1..Len(m) : (k = 1 /\ m[k] = i) \/ (k = 2 /\ m[k] = Mark) BY <2>1
  <2>4. ~IsPlanned(i) /\ ~IsPlanned(Mark) /\ OfSnapshot(i) /\ ~OfSnapshot(Mark)
    BY <1>2, <1>4, <2>2 DEF IsPlanned, OfSnapshot
  <2>5. PlanFirst(m) /\ RowsPlanned(m) /\ MarksFollow(m) /\ WillReplay(m, log)
    BY <1>2, <1>4, <2>1, <2>2, <2>3, <2>4 DEF PlanFirst, RowsPlanned, MarksFollow, WillReplay
  <2>6. NonePlanned(m) BY <2>3, <2>4 DEF NonePlanned
  <2> QED BY <1>4, <2>1, <2>2, <2>3, <2>5, <2>6 DEF StartOK, Layout
<1>6. StartOK(Inserts(re, "ignored"), log) /\ NonePlanned(Inserts(re, "ignored"))
  <2>1. re \in Seq(RowSet) /\ \A k \in 1..Len(re) : re[k].kind = "parked"
    <3>1. CASE ckpt = 0
      <4> re = <<>> BY <3>1
      <4> HIDE DEF re
      <4> QED BY EmptySeq
    <3>2. CASE ckpt # 0
      <4>1. re \in Seq([kind : {"parked"}, id : Ids]) BY <3>2, ReappendedAre
      <4> HIDE DEF re
      <4>2. [kind : {"parked"}, id : Ids] \subseteq RowSet BY DEF RowSet
      <4>3. re \in Seq(RowSet) BY <4>1, <4>2, SeqMonotonic, Zenon
      <4>4. \A k \in 1..Len(re) : re[k] \in [kind : {"parked"}, id : Ids] BY <4>1, ElementOfSeq, Zenon
      <4> QED BY <4>3, <4>4
    <3> QED BY <3>1, <3>2
  <2> HIDE DEF re
  <2> QED BY <2>1, StartOfInserts
<1>7. StartOK(Inserts(re, "ignored") \o m, log) /\ NonePlanned(Inserts(re, "ignored") \o m)
  <2> DEFINE s == Inserts(re, "ignored")
  <2>1. StartOK(s \o m, log)
    <3> HIDE DEF s, m
    <3> QED BY <1>5, <1>6, StartConcat DEF s
  <2>2. NonePlanned(s \o m)
    <3> s \in Seq(OpSet) /\ m \in Seq(OpSet) BY <1>5, <1>6 DEF StartOK
    <3> HIDE DEF s, m
    <3> QED BY <1>5, <1>6, NonePlannedConcat DEF s
  <2> QED BY <2>1, <2>2
<1>8. StartOK(d, log) /\ NonePlanned(d)
  <2>1. CASE ckpt = 0
    <3>1. d = <<>> BY <2>1
    <3> HIDE DEF d
    <3>2. d \in Seq(OpSet) /\ Len(d) = 0 BY <3>1, EmptySeq
    <3>3. PlanFirst(d) /\ RowsPlanned(d) /\ MarksFollow(d) /\ WillReplay(d, log) /\ NonePlanned(d)
      BY <3>2 DEF PlanFirst, RowsPlanned, MarksFollow, WillReplay, NonePlanned
    <3> QED BY <3>1, <3>2, <3>3 DEF StartOK, Layout
  <2>2. CASE ckpt # 0
    <3>1. d = <<Trim(ckpt), SetFloor(ckpt)>> BY <2>2
    <3>2. /\ Trim(ckpt) \in OpSet /\ Trim(ckpt).do = "trim" /\ Trim(ckpt).below = ckpt
          /\ SetFloor(ckpt) \in OpSet /\ SetFloor(ckpt).do = "floor" /\ SetFloor(ckpt).at = ckpt
      BY <1>3 DEF Trim, SetFloor, OpSet
    <3> HIDE DEF d
    <3>3. d \in Seq(OpSet) /\ Len(d) = 2 /\ d[1] = Trim(ckpt) /\ d[2] = SetFloor(ckpt)
      BY <3>1, <3>2
    <3>4. \A k \in 1..Len(d) : \/ k = 1 /\ d[k].do = "trim" /\ d[k].below = ckpt
                               \/ k = 2 /\ d[k].do = "floor" /\ d[k].at = ckpt
      BY <3>2, <3>3
    <3>5. PlanFirst(d) /\ RowsPlanned(d) /\ MarksFollow(d) /\ WillReplay(d, log) /\ NonePlanned(d)
      BY <3>4 DEF PlanFirst, RowsPlanned, MarksFollow, WillReplay, NonePlanned, IsPlanned, OfSnapshot
    <3>6. \A k \in 1..Len(d) : d[k].do = "trim" => ckpt # 0 /\ d[k].below = ckpt
      BY <2>2, <3>4
    <3>7. \A k \in 1..Len(d) : d[k].do = "floor" =>
            d[k].at = ckpt /\ \E h \in 1..(k - 1) : d[h].do = "trim"
      <4> SUFFICES ASSUME NEW k \in 1..Len(d), d[k].do = "floor"
                   PROVE  d[k].at = ckpt /\ \E h \in 1..(k - 1) : d[h].do = "trim"
        OBVIOUS
      <4>1. k = 2 /\ 1 \in 1..(k - 1) /\ d[k].at = ckpt BY <3>4
      <4> QED BY <3>2, <3>3, <4>1
    <3>8. d[1].do # "mark" BY <3>2, <3>3
    <3> QED BY <3>3, <3>5, <3>6, <3>7, <3>8 DEF StartOK, Layout
  <2> QED BY <2>1, <2>2
<1> DEFINE q == Inserts(re, "ignored") \o m
<1>9. StartOK(q \o d, log) /\ NonePlanned(q \o d)
  <2> HIDE DEF q, d
  <2>1. StartOK(q \o d, log) BY <1>7, <1>8, StartConcat DEF q
  <2>2. NonePlanned(q \o d)
    <3> q \in Seq(OpSet) /\ d \in Seq(OpSet) BY <1>7, <1>8 DEF StartOK, q
    <3> QED BY <1>7, <1>8, NonePlannedConcat DEF q
  <2> QED BY <2>1, <2>2
<1>10. StartOK(<<>>, log) /\ NonePlanned(<<>>)
  <2>1. ASSUME NEW e \in Seq(OpSet), Len(e) = 0, e = <<>> PROVE StartOK(e, log) /\ NonePlanned(e)
    <3>1. PlanFirst(e) /\ RowsPlanned(e) /\ MarksFollow(e) /\ WillReplay(e, log) /\ NonePlanned(e)
      BY <2>1 DEF PlanFirst, RowsPlanned, MarksFollow, WillReplay, NonePlanned
    <3> QED BY <2>1, <3>1 DEF StartOK, Layout
  <2> QED BY <2>1, EmptySeq
<1> HIDE DEF q, d, m, re
<1>11. CheckpointOps(n, doc) = <<>> \/ CheckpointOps(n, doc) = q \o d BY <1>1 DEF q
<1> QED BY <1>9, <1>10, <1>11

(* handle_updates_locked(): all statements of a fresh ingest.              *)
LEMMA StartOfIngest ==
  ASSUME TableOK, SnapshotsReplay, NEW updates \in Seq(UpdateSet),
         NEW fresh \in Seq(IntentUpdates), NEW out \in [1..Len(fresh) -> AllOutcomes]
  PROVE  LET A == CancelRows(updates) \o PlanRows(fresh, out)
             todo == IngestOps(updates, fresh, out)
         IN  /\ A \in Seq(RowSet) /\ Planned(todo) = A
             /\ IntentsOf(rows \o A) = IntentsOf(rows) \o Accepted(fresh, out)
             /\ Accepted(fresh, out) = IntentsOf(PlanRows(fresh, out))
             /\ todo \in Seq(OpSet) /\ Layout(todo)
             /\ WillReplay(todo, IntentsOf(rows \o A))
             /\ MetaOK(todo, rows, first, ckpt)
<1> DEFINE B == CancelRows(updates)
           P == PlanRows(fresh, out)
           A == B \o P
           Y == ResolutionRows(updates)
           accepted == Accepted(fresh, out)
           log == IntentsOf(rows \o A)
           C == CheckpointOps(Len(accepted), HeadDoc \o EffectOf(accepted))
           X == Inserts(A, "abort")
           Z == Inserts(Y, "abort")
<1>1. IngestOps(updates, fresh, out) = (X \o C) \o Z BY DEF IngestOps
<1>2. P \in Seq(RowSet) /\ \A j \in 1..Len(P) : P[j].kind \in PlanKinds
  <2>1. PICK a : OriginsOf(a, P, fresh, out, AllOutcomes) BY PlanOrigins
  <2> HIDE DEF P
  <2> QED BY <2>1 DEF OriginsOf, RowOf
<1>3. B \in Seq(RowSet) /\ \A j \in 1..Len(B) : B[j].kind = "voided"
  <2> DEFINE R == [kind : {"voided"}, id : Ids, reason : {"canceled"}]
  <2>1. B \in Seq(R) BY CancelRowsAre
  <2>2. R \subseteq RowSet /\ \A r \in R : r.kind = "voided" BY DEF RowSet
  <2> HIDE DEF B, R
  <2>3. B \in Seq(RowSet) BY <2>1, <2>2, SeqMonotonic, Zenon
  <2>4. \A j \in 1..Len(B) : B[j] \in R BY <2>1, ElementOfSeq, Zenon
  <2> QED BY <2>2, <2>3, <2>4
<1>4. Y \in Seq(RowSet) /\ \A j \in 1..Len(Y) : Y[j].kind = "resolved"
  <2> DEFINE R == [kind : {"resolved"}, id : Ids]
  <2>1. Y \in Seq(R) BY ResolutionRowsAre
  <2>2. R \subseteq RowSet /\ \A r \in R : r.kind = "resolved" BY DEF RowSet
  <2> HIDE DEF Y, R
  <2>3. Y \in Seq(RowSet) BY <2>1, <2>2, SeqMonotonic, Zenon
  <2>4. \A j \in 1..Len(Y) : Y[j] \in R BY <2>1, ElementOfSeq, Zenon
  <2> QED BY <2>2, <2>3, <2>4
<1>5. rows \in Seq(RowSet) BY DEF TableOK
<1>6. accepted = IntentsOf(P) BY DEF Accepted, IntentsOf
<1> HIDE DEF P, B, Y, accepted
<1>7. A \in Seq(RowSet) /\ \A j \in 1..Len(A) : A[j].kind \in PlanKinds
  <2>1. A \in Seq(RowSet) /\ Len(A) = Len(B) + Len(P) /\ Len(B) \in Nat /\ Len(P) \in Nat
        /\ \A j \in 1..(Len(B) + Len(P)) : A[j] = IF j <= Len(B) THEN B[j] ELSE P[j - Len(B)]
    BY <1>2, <1>3, ConcatProperties, LenProperties
  <2>2. ASSUME NEW j \in 1..Len(A) PROVE A[j].kind \in PlanKinds
    <3>1. CASE j <= Len(B)
      <4> j \in 1..Len(B) /\ A[j] = B[j] BY <2>1, <3>1
      <4> QED BY <1>3 DEF PlanKinds
    <3>2. CASE ~(j <= Len(B))
      <4> j - Len(B) \in 1..Len(P) /\ A[j] = P[j - Len(B)] BY <2>1, <3>2
      <4> QED BY <1>2
    <3> QED BY <3>1, <3>2
  <2> QED BY <2>1, <2>2
<1>8. IntentsOf(B) = <<>>
  <2> \A j \in 1..Len(B) : B[j].kind # "intent" BY <1>3
  <2> QED BY <1>3, NoIntents
<1>9. accepted \in Seq(Entries) /\ IntentsOf(rows) \in Seq(Entries)
  BY <1>2, <1>5, <1>6, IntentsOfType
<1>10. log = IntentsOf(rows) \o accepted
  <2>1. log = IntentsOf(rows) \o IntentsOf(A)
    <3> HIDE DEF A
    <3> QED BY <1>5, <1>7, IntentsOfConcat
  <2>2. IntentsOf(A) = IntentsOf(B) \o IntentsOf(P) BY <1>2, <1>3, IntentsOfConcat
  <2>3. <<>> \o accepted = accepted BY <1>9, ConcatEmptySeq
  <2> QED BY <1>6, <1>8, <2>1, <2>2, <2>3
<1> HIDE DEF log
<1>11. /\ HeadSeq = Len(IntentsOf(rows)) /\ HeadDoc = EffectOf(IntentsOf(rows)) /\ HeadSeq \in Nat
  BY LoadReplays
<1>12. /\ Len(log) = HeadSeq + Len(accepted) /\ Len(accepted) \in Nat
       /\ EffectOf(log) = HeadDoc \o EffectOf(accepted)
       /\ EffectOf(log) \in Seq(Ids) /\ HeadSeq + Len(accepted) \in Nat
  <2>1. Len(log) = HeadSeq + Len(accepted) /\ Len(accepted) \in Nat
        /\ HeadSeq + Len(accepted) \in Nat
    BY <1>9, <1>10, <1>11, ConcatProperties, LenProperties
  <2>2. EffectOf(log) = HeadDoc \o EffectOf(accepted) BY <1>9, <1>10, <1>11, EffectOfConcat
  <2>3. EffectOf(log) \in Seq(Ids)
    <3> log \in Seq(Entries) BY <1>9, <1>10
    <3> QED BY EffectOfType
  <2> QED BY <2>1, <2>2, <2>3
<1>13. StartOK(C, log) /\ NonePlanned(C) BY <1>12, StartOfCheckpoint
<1>14. StartOK(X, log) /\ (\A k \in 1..Len(X) : IsPlanned(X[k])) /\ Planned(X) = A
  <2> HIDE DEF A
  <2>1. \A k \in 1..Len(A) : A[k].kind \in PlanKinds \cup {"resolved"} /\ A[k].kind # "resolved"
    BY <1>7 DEF PlanKinds
  <2>2. StartOK(X, log) /\ (\A k \in 1..Len(X) : IsPlanned(X[k])) BY <1>7, <2>1, StartOfInserts
  <2> QED BY <1>7, <2>1, <2>2, AllPlanned
<1>15. StartOK(Z, log) /\ NonePlanned(Z) BY <1>4, StartOfInserts
<1> HIDE DEF X, C, Z, A
<1>16. StartOK(X \o C, log) BY <1>13, <1>14, StartConcat
<1>17. StartOK((X \o C) \o Z, log) BY <1>15, <1>16, StartConcat
<1>18. Planned((X \o C) \o Z) = A
  <2>1. X \in Seq(OpSet) /\ C \in Seq(OpSet) /\ Z \in Seq(OpSet) /\ X \o C \in Seq(OpSet)
    BY <1>13, <1>14, <1>15, <1>16 DEF StartOK
  <2>2. Planned(C) = <<>> /\ Planned(Z) = <<>>
    BY <1>13, <1>15, <2>1, NothingPlanned DEF NonePlanned
  <2>3. Planned(X \o C) = A \o <<>> BY <1>14, <2>1, <2>2, PlannedConcat
  <2>4. Planned((X \o C) \o Z) = Planned(X \o C) \o <<>> BY <2>1, <2>2, PlannedConcat
  <2>5. A \o <<>> = A BY <1>7, ConcatEmptySeq
  <2> QED BY <2>3, <2>4, <2>5
<1> DEFINE todo == IngestOps(updates, fresh, out)
<1>19. StartOK(todo, log) BY <1>1, <1>17
<1> HIDE DEF todo
<1>20. MetaOK(todo, rows, first, ckpt)
  <2>1. todo # <<>> => todo[1].do # "mark" BY <1>19 DEF StartOK
  <2>2. ASSUME NEW i \in 1..Len(todo), todo[i].do = "trim"
        PROVE  /\ ckpt # 0 /\ todo[i].below \in first..ckpt
               /\ rows[todo[i].below].kind = "snapshot" /\ todo[i].below = ckpt
    BY <1>19, <2>2 DEF StartOK, TableOK
  <2>3. ASSUME NEW i \in 1..Len(todo), todo[i].do = "floor"
        PROVE  \E h \in 1..(i - 1) : todo[h].do = "trim" /\ todo[h].below = todo[i].at
    <3>1. PICK h \in 1..(i - 1) : todo[h].do = "trim" BY <1>19, <2>3 DEF StartOK
    <3>2. todo \in Seq(OpSet) BY <1>19 DEF StartOK
    <3>3. h \in 1..Len(todo) BY <3>2
    <3>4. todo[h].below = ckpt /\ todo[i].at = ckpt BY <1>19, <2>3, <3>1, <3>3 DEF StartOK
    <3> QED BY <3>1, <3>4
  <2> QED BY <2>1, <2>2, <2>3 DEF MetaOK
<1>21. todo \in Seq(OpSet) /\ Layout(todo) /\ WillReplay(todo, log) BY <1>19 DEF StartOK
<1> QED BY <1>1, <1>6, <1>7, <1>10, <1>18, <1>20, <1>21 DEF todo, A, B, P, accepted, log

(* The fresh intents of a request: in the order of the request, none of    *)
(* them settled, none below the retention horizon.                         *)
Picked(p, s, t) ==
  /\ p \in [1..Len(s) -> 1..Len(t)]
  /\ \A i \in 1..Len(s) : s[i] = t[p[i]]
  /\ \A i, j \in 1..Len(s) : i < j => p[i] < p[j]

(* The fresh intents are unsettled, at or above the retained base, and in  *)
(* the order of the request.                                               *)
LEMMA FreshIs ==
  ASSUME NEW updates \in Seq(UpdateSet)
  PROVE  /\ Fresh(updates) \in Seq(IntentUpdates)
         /\ \A i \in 1..Len(Fresh(updates)) :
              Settled(Fresh(updates)[i].id) = "none" /\ Fresh(updates)[i].base >= BaseSeq
         /\ \E p : Picked(p, Fresh(updates), updates)
<1> DEFINE K == {k \in DOMAIN updates : updates[k].type = "intent"}
           v == Kept(updates, K)
           L == {k \in DOMAIN v : IsNew(v[k], updates) /\ v[k].base >= BaseSeq}
           w == Kept(v, L)
<1>1. Fresh(updates) = w BY DEF Fresh, OfType, Where
<1>2. v \in Seq(UpdateSet) /\ Len(v) \in Nat BY KeptType
<1>3. PICK q : Places(q, updates, K) BY KeptPlaces
<1>4. Picked(q, v, updates) /\ \A i \in 1..Len(v) : v[i].type = "intent"
  <2> HIDE DEF v
  <2>1. /\ q \in [1..Len(v) -> {k \in 1..Len(updates) : k \in K}]
        /\ \A i \in 1..Len(v) : v[i] = updates[q[i]]
        /\ \A i, j \in 1..Len(v) : i < j => q[i] < q[j]
    BY <1>3 DEF Places, v
  <2>2. {k \in 1..Len(updates) : k \in K} \subseteq 1..Len(updates) OBVIOUS
  <2>3. \A i \in 1..Len(v) : q[i] \in K /\ q[i] \in 1..Len(updates) BY <2>1
  <2> HIDE DEF K
  <2>4. Picked(q, v, updates) BY <2>1, <2>3 DEF Picked
  <2>5. \A i \in 1..Len(v) : v[i].type = "intent" BY <2>1, <2>3 DEF K
  <2> QED BY <2>4, <2>5
<1> HIDE DEF v
<1>5. PICK r : Places(r, v, L) BY <1>2, KeptPlaces
<1>6. Picked(r, w, v) /\ (\A i \in 1..Len(w) : r[i] \in L) /\ w \in Seq(UpdateSet)
  <2> HIDE DEF w
  <2>1. /\ r \in [1..Len(w) -> {k \in 1..Len(v) : k \in L}]
        /\ \A i \in 1..Len(w) : w[i] = v[r[i]]
        /\ \A i, j \in 1..Len(w) : i < j => r[i] < r[j]
    BY <1>5 DEF Places, w
  <2>2. \A i \in 1..Len(w) : r[i] \in L /\ r[i] \in 1..Len(v) BY <2>1
  <2>3. w \in Seq(UpdateSet)
    <3> HIDE DEF L
    <3> QED BY <1>2, KeptType DEF w
  <2> HIDE DEF L
  <2> QED BY <2>1, <2>2, <2>3 DEF Picked
<1> HIDE DEF w
<1>7. \A i \in 1..Len(w) :
        /\ w[i] = v[r[i]] /\ r[i] \in 1..Len(v)
        /\ IsNew(v[r[i]], updates) /\ v[r[i]].base >= BaseSeq
  BY <1>6 DEF Picked
<1>8. \A i \in 1..Len(w) : Settled(w[i].id) = "none" /\ w[i].base >= BaseSeq
  BY <1>7 DEF IsNew
<1>9. \A i \in 1..Len(w) : w[i] \in IntentUpdates
  <2> TAKE i \in 1..Len(w)
  <2>1. w[i] \in UpdateSet /\ w[i].type = "intent" BY <1>4, <1>6, <1>7
  <2> QED BY <2>1 DEF UpdateSet
<1>10. w \in Seq(IntentUpdates) BY <1>6, <1>9
<1>11. Picked([i \in 1..Len(w) |-> q[r[i]]], w, updates)
  <2> DEFINE p == [i \in 1..Len(w) |-> q[r[i]]]
  <2>1. \A i \in 1..Len(w) : /\ r[i] \in 1..Len(v) /\ q[r[i]] \in 1..Len(updates)
                             /\ w[i] = v[r[i]] /\ v[r[i]] = updates[q[r[i]]]
    BY <1>4, <1>6 DEF Picked
  <2>2. ASSUME NEW i \in 1..Len(w), NEW j \in 1..Len(w), i < j PROVE q[r[i]] < q[r[j]]
    <3>1. r[i] < r[j] BY <1>6, <2>2 DEF Picked
    <3> QED BY <1>4, <2>1, <3>1 DEF Picked
  <2>3. p \in [1..Len(w) -> 1..Len(updates)] BY <2>1
  <2>4. \A i \in 1..Len(w) : p[i] = q[r[i]] OBVIOUS
  <2> HIDE DEF p
  <2>5. \A i \in 1..Len(w) : w[i] = updates[p[i]] BY <2>1, <2>4
  <2>6. \A i, j \in 1..Len(w) : i < j => p[i] < p[j] BY <2>2, <2>4
  <2> QED BY <2>3, <2>5, <2>6 DEF Picked, p
<1> QED BY <1>1, <1>8, <1>10, <1>11

(* A plan has an outcome for every fresh intent.                           *)
LEMMA PlansAre ==
  ASSUME NEW client, NEW fresh \in Seq(IntentUpdates), NEW out \in Plans(client, fresh)
  PROVE  out \in [1..Len(fresh) -> AllOutcomes]
  BY EngineAssumption DEF Plans

(* The dispositions of an ingest are backed by what its plan will store.   *)
LEMMA VerdictsAre ==
  ASSUME TableOK, NEW updates \in Seq(UpdateSet),
         NEW fresh \in Seq(IntentUpdates), NEW out \in [1..Len(fresh) -> AllOutcomes],
         NEW A \in Seq(RowSet), A = CancelRows(updates) \o PlanRows(fresh, out)
  PROVE  /\ IntentVerdicts(updates, fresh, out) \in SUBSET (Ids \X Statuses)
         /\ Backed(IntentVerdicts(updates, fresh, out), rows \o A)
<1> DEFINE V == IntentVerdicts(updates, fresh, out)
           B == CancelRows(updates)
           P == PlanRows(fresh, out)
<1>1. ASSUME NEW v \in V
      PROVE  \/ \E k \in 1..Len(fresh) : v = <<fresh[k].id, StatusOf(out[k])>>
             \/ \E x \in IntentUpdates : \E st \in Statuses :
                  /\ v = <<x.id, st>>
                  /\ st \in {"applied", "escalated"} => st = Settled(x.id)
  <2>1. CASE v \in {<<fresh[k].id, StatusOf(out[k])>> : k \in 1..Len(fresh)} BY <2>1
  <2>2. CASE v \notin {<<fresh[k].id, StatusOf(out[k])>> : k \in 1..Len(fresh)}
    <3>1. PICK x \in ToSet(OfType(updates, "intent")) :
            v = <<x.id, IF Settled(x.id) # "none" THEN Settled(x.id)
                        ELSE IF x.id \in CanceledBy(updates) THEN "canceled" ELSE "stale">>
      BY <2>2 DEF IntentVerdicts
    <3>2. x \in IntentUpdates
      <4>1. OfType(updates, "intent") \in Seq({u \in UpdateSet : u.type = "intent"})
        BY OfTypeIs
      <4>2. x \in {u \in UpdateSet : u.type = "intent"} BY <3>1, <4>1 DEF ToSet
      <4> QED BY <4>2 DEF UpdateSet, IntentUpdates
    <3>3. x.id \in Ids BY <3>2 DEF IntentUpdates
    <3>4. Settled(x.id) \in Statuses \cup {"none"} BY <3>3, SettledIs
    <3> DEFINE st == IF Settled(x.id) # "none" THEN Settled(x.id)
                     ELSE IF x.id \in CanceledBy(updates) THEN "canceled" ELSE "stale"
    <3>5. st \in Statuses /\ (st \in {"applied", "escalated"} => st = Settled(x.id))
      BY <3>4 DEF Statuses
    <3> HIDE DEF st
    <3>6. v = <<x.id, st>> BY <3>1 DEF st
    <3> QED BY <3>2, <3>5, <3>6
  <2> QED BY <2>1, <2>2
<1>2. \A k \in 1..Len(fresh) : fresh[k].id \in Ids /\ StatusOf(out[k]) \in Statuses
  <2> TAKE k \in 1..Len(fresh)
  <2> fresh[k] \in IntentUpdates /\ out[k] \in AllOutcomes OBVIOUS
  <2> QED BY DEF IntentUpdates, AllOutcomes, StatusOf, Statuses
<1>3. V \in SUBSET (Ids \X Statuses)
  <2> HIDE DEF V
  <2> SUFFICES ASSUME NEW v \in V PROVE v \in Ids \X Statuses OBVIOUS
  <2>1. CASE \E k \in 1..Len(fresh) : v = <<fresh[k].id, StatusOf(out[k])>> BY <1>2, <2>1
  <2>2. CASE \E x \in IntentUpdates : \E st \in Statuses : v = <<x.id, st>>
    <3>1. \A x \in IntentUpdates : x.id \in Ids BY DEF IntentUpdates
    <3> QED BY <2>2, <3>1
  <2> QED BY <1>1, <2>1, <2>2
<1>4. rows \in Seq(RowSet) BY DEF TableOK
<1>5. PICK a : OriginsOf(a, P, fresh, out, AllOutcomes) BY PlanOrigins
<1>6. P \in Seq(RowSet) BY <1>5 DEF OriginsOf
<1>7. B \in Seq(RowSet)
  <2> DEFINE R == [kind : {"voided"}, id : Ids, reason : {"canceled"}]
  <2>1. B \in Seq(R) BY CancelRowsAre
  <2>2. R \subseteq RowSet BY DEF RowSet
  <2> HIDE DEF B, R
  <2> QED BY <2>1, <2>2, SeqMonotonic, Zenon
<1> HIDE DEF V, P, B
<1>8. A = B \o P BY DEF B, P
<1>9. /\ Len(rows) \in Nat /\ Len(B) \in Nat /\ Len(P) \in Nat
      /\ Len(rows \o A) = Len(rows) + Len(B) + Len(P)
      /\ \A j \in 1..Len(rows) : (rows \o A)[j] = rows[j]
      /\ \A j \in 1..Len(P) : (rows \o A)[Len(rows) + Len(B) + j] = P[j]
  <2>1. /\ Len(A) = Len(B) + Len(P) /\ Len(B) \in Nat /\ Len(P) \in Nat
        /\ \A j \in 1..Len(P) : A[Len(B) + j] = P[j]
    BY <1>6, <1>7, <1>8
  <2>2. /\ Len(rows \o A) = Len(rows) + Len(A) /\ Len(rows) \in Nat
        /\ \A j \in 1..Len(rows) : (rows \o A)[j] = rows[j]
        /\ \A j \in 1..Len(A) : (rows \o A)[Len(rows) + j] = A[j]
    BY <1>4
  <2>3. ASSUME NEW j \in 1..Len(P) PROVE (rows \o A)[Len(rows) + Len(B) + j] = P[j]
    <3> Len(B) + j \in 1..Len(A) /\ Len(rows) + (Len(B) + j) = Len(rows) + Len(B) + j
      BY <2>1, <2>2
    <3> QED BY <2>1, <2>2
  <2> QED BY <2>1, <2>2, <2>3, SMTT(30)
<1> DEFINE F == rows \o A
<1> HIDE DEF F
<1>10. /\ \A j \in 1..Len(rows) : \E k \in 1..Len(F) : F[k] = rows[j]
       /\ \A j \in 1..Len(P) : \E k \in 1..Len(F) : F[k] = P[j]
  <2>1. \A j \in 1..Len(rows) : j \in 1..Len(F) /\ F[j] = rows[j] BY <1>9 DEF F
  <2>2. \A j \in 1..Len(P) : Len(rows) + Len(B) + j \in 1..Len(F)
                             /\ F[Len(rows) + Len(B) + j] = P[j]
    BY <1>9 DEF F
  <2> QED BY <2>1, <2>2
<1>11. ASSUME NEW v \in V, v[2] = "applied"
       PROVE  \E k \in 1..Len(F) : F[k].kind = "intent" /\ F[k].id = v[1]
  <2>1. CASE \E k \in 1..Len(fresh) : v = <<fresh[k].id, StatusOf(out[k])>>
    <3>1. PICK k \in 1..Len(fresh) : v = <<fresh[k].id, StatusOf(out[k])>> BY <2>1
    <3>2. StatusOf(out[k]) = "applied" /\ v[1] = fresh[k].id BY <1>11, <3>1
    <3>3. out[k] = "applied" /\ out[k] \in AllOutcomes BY <3>2 DEF StatusOf, AllOutcomes
    <3>4. PICK j \in 1..Len(P) : a[j] = k /\ P[j].kind = "intent" BY <1>5, <3>3 DEF OriginsOf
    <3>5. P[j].id = fresh[k].id BY <1>5, <3>4 DEF OriginsOf, RowOf
    <3> QED BY <1>10, <3>2, <3>4, <3>5
  <2>2. CASE \E x \in IntentUpdates : \E st \in Statuses :
               /\ v = <<x.id, st>>
               /\ st \in {"applied", "escalated"} => st = Settled(x.id)
    <3>1. PICK x \in IntentUpdates, st \in Statuses :
               /\ v = <<x.id, st>>
               /\ st \in {"applied", "escalated"} => st = Settled(x.id)
      BY <2>2
    <3>2. x.id \in Ids /\ Settled(x.id) = "applied" /\ v[1] = x.id
      BY <1>11, <3>1 DEF IntentUpdates
    <3>3. \E j \in 1..Len(rows) : rows[j].kind = "intent" /\ rows[j].id = x.id
      BY <3>2, SettledIs
    <3> QED BY <1>10, <3>2, <3>3, SMTT(30)
  <2> QED BY <1>1, <2>1, <2>2
<1>12. ASSUME NEW v \in V, v[2] = "escalated"
       PROVE  \E k \in 1..Len(F) : F[k] = Parked(v[1])
  <2>1. CASE \E k \in 1..Len(fresh) : v = <<fresh[k].id, StatusOf(out[k])>>
    <3>1. PICK k \in 1..Len(fresh) : v = <<fresh[k].id, StatusOf(out[k])>> BY <2>1
    <3>2. StatusOf(out[k]) = "escalated" /\ v[1] = fresh[k].id BY <1>12, <3>1
    <3>3. out[k] \in {"escalated", "approval"} /\ out[k] \in AllOutcomes
      BY <3>2 DEF StatusOf, AllOutcomes
    <3>4. \E j \in 1..Len(P) : P[j] = Parked(fresh[k].id) BY <1>5, <3>3 DEF OriginsOf
    <3> QED BY <1>10, <3>2, <3>4
  <2>2. CASE \E x \in IntentUpdates : \E st \in Statuses :
               /\ v = <<x.id, st>>
               /\ st \in {"applied", "escalated"} => st = Settled(x.id)
    <3>1. PICK x \in IntentUpdates, st \in Statuses :
               /\ v = <<x.id, st>>
               /\ st \in {"applied", "escalated"} => st = Settled(x.id)
      BY <2>2
    <3>2. x.id \in Ids /\ Settled(x.id) = "escalated" /\ v[1] = x.id
      BY <1>12, <3>1 DEF IntentUpdates
    <3>3. \E j \in 1..Len(rows) : rows[j] = Parked(x.id) BY <3>2, SettledIs
    <3> QED BY <1>10, <3>2, <3>3
  <2> QED BY <1>1, <2>1, <2>2
<1>13. Backed(V, F) BY <1>11, <1>12 DEF Backed
<1> QED BY <1>3, <1>13 DEF V, F

(* handle_updates(): the plan of an ingest is sound for the table it was   *)
(* made from.                                                              *)
LEMMA StartKeepsInv ==
  ASSUME EngineInv, NEW req, IngestStart(req), req.updates \in Seq(UpdateSet),
         req.client \in Clients, req.attempt \in Nat, req.cursor \in Nat
  PROVE  /\ EngineInv' /\ ingest' # NoIngest /\ Future = rows
         /\ \E out \in Plans(req.client, Fresh(req.updates)) :
              /\ ingest'.verdicts = IntentVerdicts(req.updates, Fresh(req.updates), out)
              /\ Future' = rows \o (CancelRows(req.updates) \o PlanRows(Fresh(req.updates), out))
              /\ IntentsOf(Future') = IntentsOf(rows) \o Accepted(Fresh(req.updates), out)
<1> DEFINE updates == req.updates
           fresh == Fresh(updates)
<1>1. PICK out \in Plans(req.client, fresh) :
        ingest' = [client   |-> req.client,
                   attempt  |-> req.attempt,
                   cursor   |-> req.cursor,
                   todo     |-> IngestOps(updates, fresh, out),
                   verdicts |-> IntentVerdicts(updates, fresh, out)]
  BY DEF IngestStart
<1>2. ingest = NoIngest /\ UNCHANGED <<rows, first, ckpt, floor, rowFailures, decided>>
  BY DEF IngestStart
<1>3. TableOK /\ SnapshotsReplay BY DEF EngineInv
<1>4. fresh \in Seq(IntentUpdates) BY FreshIs
<1> HIDE DEF fresh, updates
<1>5. out \in [1..Len(fresh) -> AllOutcomes] BY <1>4, PlansAre
<1> DEFINE A == CancelRows(updates) \o PlanRows(fresh, out)
           todo == IngestOps(updates, fresh, out)
           V == IntentVerdicts(updates, fresh, out)
<1>6. /\ A \in Seq(RowSet) /\ Planned(todo) = A
      /\ IntentsOf(rows \o A) = IntentsOf(rows) \o Accepted(fresh, out)
      /\ todo \in Seq(OpSet) /\ Layout(todo)
      /\ WillReplay(todo, IntentsOf(rows \o A))
      /\ MetaOK(todo, rows, first, ckpt)
  <2> updates \in Seq(UpdateSet) BY DEF updates
  <2> QED BY <1>3, <1>4, <1>5, StartOfIngest
<1>7. V \in SUBSET (Ids \X Statuses) /\ Backed(V, rows \o A)
  <2> updates \in Seq(UpdateSet) BY DEF updates
  <2> QED BY <1>3, <1>4, <1>5, <1>6, VerdictsAre
<1> HIDE DEF A, todo, V
<1>8. /\ ingest' \in Ingests /\ ingest'.todo = todo /\ ingest'.verdicts = V
  BY <1>1, <1>6, <1>7 DEF Ingests, todo, V
<1>9. ingest' # NoIngest
  <2> "todo" \in DOMAIN ingest' /\ "todo" \notin DOMAIN NoIngest BY <1>8 DEF NoIngest, Ingests
  <2> QED OBVIOUS
<1>10. Future' = rows \o A /\ Future = rows BY <1>2, <1>6, <1>8, <1>9 DEF Future
<1>11. IngestOK' BY <1>2, <1>6, <1>7, <1>8, <1>10 DEF IngestOK
<1>12. TableOK' /\ SnapshotsReplay' BY <1>2, <1>3 DEF TableOK, SnapshotsReplay
<1>13. decided' \in SUBSET (Ids \X Statuses) /\ Backed(decided', rows')
  BY <1>2 DEF EngineInv
<1>14. EngineInv' BY <1>11, <1>12, <1>13 DEF EngineInv
<1> QED BY <1>6, <1>8, <1>9, <1>10, <1>14 DEF A, V, fresh, updates

-----------------------------------------------------------------------------
(***************************************************************************)
(* The room as a whole.                                                    *)
(***************************************************************************)

(* What is settled leaves the outbox; nothing enters it.                   *)
LEMMA SettleIs ==
  ASSUME NEW R, NEW outbox \in Seq(R), NEW ids
  PROVE  /\ SettlePending(outbox, ids) \in Seq(R)
         /\ \A i \in 1..Len(SettlePending(outbox, ids)) :
              \E j \in 1..Len(outbox) : SettlePending(outbox, ids)[i] = outbox[j]
         /\ outbox = <<>> => SettlePending(outbox, ids) = <<>>
<1> DEFINE K == {k \in DOMAIN outbox : outbox[k].id \notin ids}
<1>1. SettlePending(outbox, ids) = Kept(outbox, K) BY DEF SettlePending, Where
<1> HIDE DEF K
<1>2. Kept(outbox, K) \in Seq(R) BY KeptType
<1>3. \A i \in 1..Len(Kept(outbox, K)) :
        \E j \in 1..Len(outbox) : j \in K /\ Kept(outbox, K)[i] = outbox[j]
  BY KeptFrom
<1>4. outbox = <<>> => Kept(outbox, K) = <<>> BY KeptEmpty
<1> QED BY <1>1, <1>2, <1>3, <1>4

(* ingestRow(): a row leaves a replica a replica.                          *)
LEMMA ReceiveUpdateType ==
  ASSUME NEW rep \in Replicas, NEW row \in RowSet
  PROVE  ReceiveUpdate(rep, row) \in Replicas
<1>1. rep.outbox \in Seq(IntentUpdates) /\ rep.deferred \in Seq(RowSet) /\ rep.doc \in Seq(Ids)
      /\ rep.seq \in Nat /\ rep.applied \in SUBSET Ids /\ rep.proposals \in SUBSET Ids
      /\ rep.resolved \in SUBSET Ids
  BY DEF Replicas
<1>2. CASE rep.deferred # <<>>
  <2>1. Append(rep.deferred, row) \in Seq(RowSet) BY <1>1
  <2>2. ReceiveUpdate(rep, row) = [rep EXCEPT !.deferred = Append(rep.deferred, row)]
    BY <1>2 DEF ReceiveUpdate
  <2> QED BY <2>1, <2>2 DEF Replicas
<1>3. CASE rep.deferred = <<>> /\ row.kind = "snapshot"
  <2>1. row.seq \in Nat /\ row.doc \in Seq(Ids) BY <1>3 DEF RowSet, Entries
  <2>2. ReceiveUpdate(rep, row) = ReceiveSnapshot(rep, row) BY <1>3 DEF ReceiveUpdate
  <2>3. <<row>> \in Seq(RowSet) OBVIOUS
  <2>4. CASE ~rep.live \/ (row.seq > rep.seq /\ rep.outbox = <<>>)
    <3>1. ReceiveSnapshot(rep, row) =
            [rep EXCEPT !.live = TRUE, !.boot = row.seq, !.seq = row.seq,
                        !.doc = row.doc, !.applied = {}]
      BY <2>4 DEF ReceiveSnapshot
    <3> QED BY <2>1, <2>2, <3>1, ZenonT(60) DEF Replicas
  <2>5. CASE ~(~rep.live \/ (row.seq > rep.seq /\ rep.outbox = <<>>))
    <3>1. ReceiveSnapshot(rep, row) = IF row.seq > rep.seq THEN [rep EXCEPT !.deferred = <<row>>] ELSE rep
      BY <2>5 DEF ReceiveSnapshot
    <3> QED BY <2>2, <2>3, <3>1 DEF Replicas
  <2> QED BY <2>4, <2>5
<1>4. CASE rep.deferred = <<>> /\ row.kind = "intent"
  <2>1. row \in Entries BY <1>4 DEF RowSet
  <2>2. row.id \in Ids BY <2>1 DEF Entries
  <2>3. SettlePending(rep.outbox, {row.id}) \in Seq(IntentUpdates) BY <1>1, SettleIs
  <2>4. ReceiveUpdate(rep, row) = ReceiveIntent(rep, row) BY <1>4 DEF ReceiveUpdate
  <2>5. (IF row.noop THEN rep.doc ELSE Append(rep.doc, row.id)) \in Seq(Ids) BY <1>1, <2>2
  <2> DEFINE doc == IF row.noop THEN rep.doc ELSE Append(rep.doc, row.id)
  <2>6. ReceiveIntent(rep, row) =
          IF ~rep.live \/ row.id \in rep.applied THEN rep
          ELSE [rep EXCEPT !.outbox = SettlePending(rep.outbox, {row.id}),
                           !.seq = rep.seq + 1, !.doc = doc,
                           !.applied = rep.applied \cup {row.id}]
    BY DEF ReceiveIntent
  <2> HIDE DEF doc
  <2>7. doc \in Seq(Ids) /\ rep.seq + 1 \in Nat /\ rep.applied \cup {row.id} \in SUBSET Ids
    BY <1>1, <2>2, <2>5 DEF doc
  <2> QED BY <2>3, <2>4, <2>6, <2>7, ZenonT(60) DEF Replicas
<1>5. CASE rep.deferred = <<>> /\ row.kind = "parked"
  <2>1. row.id \in Ids BY <1>5 DEF RowSet, Entries
  <2>2. SettlePending(rep.outbox, {row.id}) \in Seq(IntentUpdates) BY <1>1, SettleIs
  <2>3. ReceiveUpdate(rep, row) =
          IF row.id \in rep.proposals THEN rep
          ELSE [rep EXCEPT !.outbox = SettlePending(rep.outbox, {row.id}),
                           !.proposals = rep.proposals \cup {row.id}]
    BY <1>5 DEF ReceiveUpdate, ReceiveParked
  <2>4. rep.proposals \cup {row.id} \in SUBSET Ids BY <1>1, <2>1
  <2> QED BY <2>2, <2>3, <2>4 DEF Replicas
<1>6. CASE rep.deferred = <<>> /\ row.kind = "resolved"
  <2>1. row.id \in Ids BY <1>6 DEF RowSet, Entries
  <2>2. ReceiveUpdate(rep, row) = [rep EXCEPT !.resolved = rep.resolved \cup {row.id}]
    BY <1>6 DEF ReceiveUpdate
  <2>3. rep.resolved \cup {row.id} \in SUBSET Ids BY <1>1, <2>1
  <2> QED BY <2>2, <2>3 DEF Replicas
<1>7. CASE rep.deferred = <<>> /\ row.kind = "voided"
  <2>1. SettlePending(rep.outbox, {row.id}) \in Seq(IntentUpdates) BY <1>1, SettleIs
  <2>2. ReceiveUpdate(rep, row) = [rep EXCEPT !.outbox = SettlePending(rep.outbox, {row.id})]
    BY <1>7 DEF ReceiveUpdate
  <2> QED BY <2>1, <2>2 DEF Replicas
<1>8. row.kind \in {"snapshot", "intent", "parked", "resolved", "voided"}
  BY DEF RowSet, Entries
<1> QED BY <1>2, <1>3, <1>4, <1>5, <1>6, <1>7, <1>8

(* Receiving rows is receiving one after the other.                        *)
Received(f, rep, rs) ==
  /\ f \in [0..Len(rs) -> Replicas]
  /\ f[0] = rep
  /\ \A k \in 1..Len(rs) : f[k] = ReceiveUpdate(f[k - 1], rs[k])
  /\ ReceiveRows(rep, rs) = f[Len(rs)]

(* The rows of a response are received one after the other.                *)
LEMMA ReceiveSteps ==
  ASSUME NEW rep \in Replicas, NEW rs \in Seq(RowSet)
  PROVE  \E f : Received(f, rep, rs)
<1> DEFINE step == [p \in Replicas \X Nat |->
                      IF p[2] \in 1..Len(rs) THEN ReceiveUpdate(p[1], rs[p[2]]) ELSE p[1]]
           Is(g) == g = [k \in 0..Len(rs) |->
                          IF k = 0 THEN rep
                          ELSE CHOOSE r \in {ReceiveUpdate(before, rs[k]) : before \in {g[k - 1]}} : TRUE]
           h == CHOOSE g : Is(g)
<1>0. Len(rs) \in Nat OBVIOUS
<1>1. step \in [Replicas \X Nat -> Replicas]
  <2> \A v \in Replicas, k \in Nat :
        (IF k \in 1..Len(rs) THEN ReceiveUpdate(v, rs[k]) ELSE v) \in Replicas
    BY ReceiveUpdateType
  <2> QED OBVIOUS
<1>2. \A v \in Replicas, k \in 1..Len(rs) : step[<<v, k>>] = ReceiveUpdate(v, rs[k])
  OBVIOUS
<1> HIDE DEF step
<1>4. PICK f : Iterates(f, Replicas, rep, step, Len(rs))
  BY <1>0, <1>1, Recursion
<1>c. \A x, y : (CHOOSE r \in {ReceiveUpdate(before, y) : before \in {x}} : TRUE) = ReceiveUpdate(x, y)
  <2> TAKE x, y
  <2>1. {ReceiveUpdate(before, y) : before \in {x}} = {ReceiveUpdate(x, y)} OBVIOUS
  <2>2. (CHOOSE r \in {ReceiveUpdate(x, y)} : TRUE) = ReceiveUpdate(x, y) OBVIOUS
  <2> QED BY <2>1, <2>2
<1>5. ASSUME NEW k \in 0..Len(rs)
      PROVE  f[k] = IF k = 0 THEN rep
                    ELSE CHOOSE r \in {ReceiveUpdate(before, rs[k]) : before \in {f[k - 1]}} : TRUE
  <2>1. CASE k = 0 BY <1>4, <2>1 DEF Iterates
  <2>2. CASE k # 0
    <3>1. k - 1 \in 0..Len(rs) /\ k \in 1..Len(rs) BY <2>2
    <3>2. f[k] = step[<<f[k-1], k>>] /\ f[k - 1] \in Replicas BY <1>4, <3>1 DEF Iterates
    <3>3. f[k] = ReceiveUpdate(f[k - 1], rs[k]) BY <3>1, <3>2, <1>2
    <3> QED BY <3>3, <1>c, <2>2
  <2> QED BY <2>1, <2>2
<1>6. Is(f)
  <2> f \in [0..Len(rs) -> Replicas] BY <1>4 DEF Iterates
  <2> QED BY <1>5
<1>7. Is(h) BY <1>6, Zenon
<1>8. ReceiveRows(rep, rs) = h[Len(rs)] BY Zenon DEF ReceiveRows
<1> HIDE DEF h
<1>9. ASSUME NEW k \in 0..Len(rs)
      PROVE  h[k] = IF k = 0 THEN rep
                    ELSE CHOOSE r \in {ReceiveUpdate(before, rs[k]) : before \in {h[k - 1]}} : TRUE
  BY <1>7, Zenon
<1>10. h[0] = rep /\ f[0] = rep BY <1>5, <1>9
<1>11. \A k \in 1..Len(rs) : f[k - 1] = h[k - 1] => f[k] = h[k]
  <2> TAKE k \in 1..Len(rs)
  <2>1. k \in 0..Len(rs) /\ k # 0 OBVIOUS
  <2>2. f[k] = CHOOSE r \in {ReceiveUpdate(before, rs[k]) : before \in {f[k - 1]}} : TRUE BY <1>5, <2>1
  <2>3. h[k] = CHOOSE r \in {ReceiveUpdate(before, rs[k]) : before \in {h[k - 1]}} : TRUE BY <1>9, <2>1
  <2> QED BY <2>2, <2>3
<1>12. f[Len(rs)] = h[Len(rs)]
  <2>1. Len(rs) \in Nat /\ Len(rs) \in 0..Len(rs) OBVIOUS
  <2>2. f[0] = h[0] BY <1>10
  <2>3. \A k \in 0..Len(rs) : f[k] = h[k] BY <1>11, <2>1, <2>2, SameRecursion, ZenonT(60)
  <2> QED BY <2>1, <2>3
<1>13. \A k \in 1..Len(rs) : f[k] = ReceiveUpdate(f[k - 1], rs[k])
  <2> TAKE k \in 1..Len(rs)
  <2>1. k \in 0..Len(rs) /\ k # 0 OBVIOUS
  <2>2. f[k] = CHOOSE r \in {ReceiveUpdate(before, rs[k]) : before \in {f[k - 1]}} : TRUE BY <1>5, <2>1
  <2> QED BY <2>2, <1>c
<1>14. Received(f, rep, rs)
  <2> f \in [0..Len(rs) -> Replicas] /\ f[0] = rep BY <1>4 DEF Iterates
  <2> QED BY <1>8, <1>12, <1>13 DEF Received
<1> QED BY <1>14

-----------------------------------------------------------------------------
(* What is where, and that a tab waits for one answer at a time.           *)

(* A tab numbers its intents; the bound counts those of all tabs.          *)
LEMMA AuthoredFits ==
  ASSUME ClientTypes, NEW c \in Clients, NEW size \in Nat,
         Cardinality(Authored) + size <= MaxEdits
  PROVE  Len(authored[c]) + size <= MaxEdits
<1> DEFINE made == Len(authored[c])
           mine == {<<c, n>> : n \in 1..made}
<1>1. made \in Nat /\ made <= MaxEdits BY DEF ClientTypes
<1>2. MaxEdits \in Nat /\ IsFiniteSet(Clients) BY EngineAssumption
<1>3. mine \subseteq Authored
  <2> SUFFICES ASSUME NEW n \in 1..made PROVE <<c, n>> \in Authored OBVIOUS
  <2>1. <<c, n>> \in Ids BY <1>1, <1>2 DEF Ids
  <2>2. (<<c, n>>)[1] = c /\ (<<c, n>>)[2] = n OBVIOUS
  <2> HIDE DEF made
  <2> QED BY <2>1, <2>2 DEF Authored, made
<1>4. IsFiniteSet(Authored)
  <2>1. IsFiniteSet(1..MaxEdits) BY <1>2, FS_Interval
  <2>2. IsFiniteSet(Ids) BY <1>2, <2>1, FS_Product DEF Ids
  <2>3. Authored \subseteq Ids BY DEF Authored
  <2> QED BY <2>2, <2>3, FS_Subset
<1>5. Cardinality(mine) = made
  <2>1. IsFiniteSet(1..made) /\ Cardinality(1..made) = made
    <3>1. ASSUME NEW m \in Nat PROVE IsFiniteSet(1..m) /\ Cardinality(1..m) = m
      BY FS_Interval
    <3> QED BY <1>1, <3>1
  <2> DEFINE f == [n \in 1..made |-> <<c, n>>]
  <2>2. f \in Bijection(1..made, mine)
    BY DEF Bijection, Injection, Surjection, IsInjective
  <2>3. ExistsBijection(1..made, mine) BY <2>2 DEF ExistsBijection
  <2> HIDE DEF mine, made
  <2> QED BY <2>1, <2>3, FS_Bijection
<1>6. Cardinality(mine) <= Cardinality(Authored) BY <1>3, <1>4, FS_Subset
<1>7. Cardinality(Authored) \in Nat BY <1>4, FS_CardinalityType
<1> QED BY <1>1, <1>2, <1>5, <1>6, <1>7

(* What leaves the server alone.                                           *)
LEMMA EngineSame ==
  ASSUME EngineInv, UNCHANGED engineVars PROVE EngineInv' /\ Future' = Future
<1>1. /\ rows' = rows /\ first' = first /\ ckpt' = ckpt /\ floor' = floor
      /\ ingest' = ingest /\ rowFailures' = rowFailures /\ decided' = decided
  BY DEF engineVars
<1>2. Future' = Future BY <1>1 DEF Future
<1>3. TableOK' /\ SnapshotsReplay' BY <1>1 DEF EngineInv, TableOK, SnapshotsReplay
<1>4. IngestOK' BY <1>1, <1>2 DEF EngineInv, IngestOK
<1> QED BY <1>1, <1>2, <1>3, <1>4 DEF EngineInv

(* It holds in a new room.                                                 *)
LEMMA NetInit == Init => NetInv /\ Future = rows
<1> SUFFICES ASSUME Init PROVE NetInv /\ Future = rows OBVIOUS
<1>1. EngineInv /\ Future = rows BY InitIsOK DEF Init
<1>2. FreshReplica \in Replicas /\ FreshReplica.outbox = <<>>
  <2> <<>> \in Seq(Ids) /\ <<>> \in Seq(IntentUpdates) /\ <<>> \in Seq(RowSet) BY EmptySeq
  <2> QED BY DEF FreshReplica, Replicas
<1>3. ClientTypes
  <2>1. /\ replica = [c \in Clients |-> FreshReplica] /\ authored = [c \in Clients |-> <<>>]
        /\ queue = [c \in Clients |-> <<>>]
    BY DEF Init
  <2>2. /\ <<>> \in Seq(Nat) /\ <<>> \in Seq(UpdateSet) /\ Len(<<>>) = 0 BY EmptySeq
  <2>3. MaxEdits \in Nat BY EngineAssumption
  <2>4. \A c \in Clients : Len(replica[c].outbox) = 0 BY <1>2, <2>1, <2>2
  <2>5. \A c \in Clients : Len(authored[c]) <= MaxEdits BY <2>1, <2>2, <2>3
  <2>6. /\ replica \in [Clients -> Replicas] /\ authored \in [Clients -> Seq(Nat)]
        /\ queue \in [Clients -> Seq(UpdateSet)]
    BY <1>2, <2>1, <2>2
  <2> QED BY <2>4, <2>5, <2>6 DEF ClientTypes
<1>4. NetTypes BY DEF Init, NetTypes, Flights, Replies, Budgets
<1>5. OneRequest BY DEF Init, EngineInit, OneRequest, OfIngest, NoReply
<1> QED BY <1>1, <1>3, <1>4, <1>5 DEF NetInv

(* What an action of the editor leaves alone.                              *)
LEMMA EditorKeepsNet ==
  ASSUME NetInv, UNCHANGED <<engineVars, netVars>>, ClientTypes', spent' \in Budgets
  PROVE  NetInv' /\ Future' = Future
<1>1. EngineInv' /\ Future' = Future BY EngineSame DEF NetInv
<1>2. /\ cursor' = cursor /\ flight' = flight /\ attempt' = attempt /\ reply' = reply
      /\ inbox' = inbox /\ ingest' = ingest
  BY DEF netVars, engineVars
<1>3. NetTypes' BY <1>2 DEF NetInv, NetTypes
<1>4. OneRequest' BY <1>2 DEF NetInv, OneRequest, OfIngest, Live
<1> QED BY <1>1, <1>3, <1>4 DEF NetInv

(* authorBatch().                                                          *)
LEMMA AuthorKeepsNet ==
  ASSUME NetInv, NEW c \in Clients, NEW size \in UnitSizes, NEW lag \in 0..MaxLag,
         Author(c, size, lag)
  PROVE  NetInv' /\ Future' = Future
<1> DEFINE rep  == replica[c]
           made == Len(authored[c])
           unit == [k \in 1..size |->
                      IntentUpdate(<<c, made + k>>, rep.seq - lag, made + 1)]
           marks == [k \in 1..size |-> made + 1]
<1>1. /\ rep.boot <= rep.seq - lag
      /\ Cardinality(Authored) + size <= MaxEdits
      /\ authored' = [authored EXCEPT ![c] = authored[c] \o marks]
      /\ replica' = [replica EXCEPT ![c].outbox = rep.outbox \o unit]
      /\ queue' = [queue EXCEPT ![c] = queue[c] \o unit]
      /\ UNCHANGED <<engineVars, netVars, spent>>
  BY DEF Author
<1>2. size \in Nat /\ MaxLag \in Nat /\ lag \in Nat /\ MaxEdits \in Nat
  BY NetworkAssumption, EngineAssumption
<1>3. ClientTypes BY DEF NetInv
<1>4. made \in Nat /\ made + size <= MaxEdits /\ rep \in Replicas
  BY <1>1, <1>2, <1>3, AuthoredFits DEF ClientTypes
<1>5. rep.seq - lag \in Nat
  <2> rep.seq \in Nat /\ rep.boot \in Nat BY <1>4 DEF Replicas
  <2> QED BY <1>1, <1>2
<1>6. \A k \in 1..size : /\ IntentUpdate(<<c, made + k>>, rep.seq - lag, made + 1) \in IntentUpdates
                         /\ IntentUpdate(<<c, made + k>>, rep.seq - lag, made + 1).id[1] = c
  <2> TAKE k \in 1..size
  <2>1. <<c, made + k>> \in Ids BY <1>2, <1>4 DEF Ids
  <2> QED BY <1>4, <1>5, <2>1 DEF IntentUpdate, IntentUpdates
<1> HIDE DEF made, rep
<1>7. /\ unit \in Seq(IntentUpdates) /\ Len(unit) = size /\ \A k \in 1..size : unit[k].id[1] = c
  BY <1>2, <1>6
<1>8. unit \in Seq(UpdateSet)
  <2> IntentUpdates \subseteq UpdateSet BY DEF UpdateSet
  <2> QED BY <1>7, SeqMonotonic, Zenon
<1>9. marks \in Seq(Nat) /\ Len(marks) = size BY <1>2, <1>4
<1> HIDE DEF unit, marks
<1>10. rep.outbox \in Seq(IntentUpdates) BY <1>4 DEF Replicas
<1>11. rep.outbox \o unit \in Seq(IntentUpdates) BY <1>7, <1>10
<1>12. ClientTypes'
  <2>1. replica' \in [Clients -> Replicas]
    <3> [rep EXCEPT !.outbox = rep.outbox \o unit] \in Replicas BY <1>4, <1>11 DEF Replicas
    <3> QED BY <1>1, <1>3 DEF ClientTypes, rep
  <2>2. authored' \in [Clients -> Seq(Nat)] BY <1>1, <1>3, <1>9 DEF ClientTypes
  <2>3. queue' \in [Clients -> Seq(UpdateSet)] BY <1>1, <1>3, <1>8 DEF ClientTypes
  <2>4. \A d \in Clients : Len(authored'[d]) <= MaxEdits
    <3> TAKE d \in Clients
    <3>1. CASE d = c
      <4>1. authored[c] \in Seq(Nat) BY <1>3 DEF ClientTypes
      <4>2. authored'[c] = authored[c] \o marks BY <1>1, <1>3 DEF ClientTypes
      <4>3. Len(authored[c] \o marks) = Len(authored[c]) + Len(marks)
        BY <1>9, <4>1, ConcatProperties, Zenon
      <4>4. Len(authored'[c]) = made + size BY <1>9, <4>2, <4>3 DEF made
      <4> QED BY <1>4, <3>1, <4>4
    <3>2. CASE d # c BY <1>1, <1>3, <3>2 DEF ClientTypes
    <3> QED BY <3>1, <3>2
  <2>5. ASSUME NEW d \in Clients, NEW k \in 1..Len(replica'[d].outbox)
        PROVE  replica'[d].outbox[k].id[1] = d
    <3>1. CASE d = c
      <4>1. replica'[c].outbox = rep.outbox \o unit BY <1>1, <1>3, <1>4 DEF ClientTypes, rep, Replicas
      <4>2. CASE k <= Len(rep.outbox)
        <5> k \in 1..Len(rep.outbox) /\ (rep.outbox \o unit)[k] = rep.outbox[k]
          BY <1>7, <1>10, <3>1, <4>1, <4>2
        <5> QED BY <1>3, <3>1, <4>1 DEF ClientTypes, rep
      <4>3. CASE ~(k <= Len(rep.outbox))
        <5> /\ k - Len(rep.outbox) \in 1..size
            /\ (rep.outbox \o unit)[k] = unit[k - Len(rep.outbox)]
          BY <1>7, <1>10, <3>1, <4>1, <4>3
        <5> QED BY <1>7, <3>1, <4>1
      <4> QED BY <4>2, <4>3
    <3>2. CASE d # c
      <4> replica'[d] = replica[d] BY <1>1, <1>3, <3>2 DEF ClientTypes
      <4> QED BY <1>3, <2>5 DEF ClientTypes
    <3> QED BY <3>1, <3>2
  <2> QED BY <2>1, <2>2, <2>3, <2>4, <2>5 DEF ClientTypes
<1>13. spent' \in Budgets BY <1>1 DEF NetInv, NetTypes
<1> QED BY <1>1, <1>12, <1>13, EditorKeepsNet

(* A replica of tab c: its pending intents are the tab's own.              *)
TabFits(rep, c) ==
  rep \in Replicas /\ \A k \in 1..Len(rep.outbox) : rep.outbox[k].id[1] = c

(* The replica of one tab and the queues change.                           *)
LEMMA TabsKept ==
  ASSUME ClientTypes, NEW c \in Clients, NEW rep, TabFits(rep, c),
         replica' = [replica EXCEPT ![c] = rep], authored' = authored,
         queue' \in [Clients -> Seq(UpdateSet)]
  PROVE  ClientTypes'
<1>1. replica' \in [Clients -> Replicas] BY DEF ClientTypes, TabFits
<1>2. ASSUME NEW d \in Clients, NEW k \in 1..Len(replica'[d].outbox)
      PROVE  replica'[d].outbox[k].id[1] = d
  <2>1. CASE d = c
    <3> replica'[d] = rep BY <2>1 DEF ClientTypes
    <3> QED BY <1>2, <2>1 DEF TabFits
  <2>2. CASE d # c
    <3> replica'[d] = replica[d] BY <2>2 DEF ClientTypes
    <3> QED BY <1>2 DEF ClientTypes
  <2> QED BY <2>1, <2>2
<1> QED BY <1>1, <1>2 DEF ClientTypes

(* Settling pending intents leaves a replica of the tab.                   *)
LEMMA SettledTabFits ==
  ASSUME NEW c, NEW rep, TabFits(rep, c), NEW ids
  PROVE  TabFits([rep EXCEPT !.outbox = SettlePending(rep.outbox, ids)], c)
<1> DEFINE s == SettlePending(rep.outbox, ids)
<1>1. rep \in Replicas /\ rep.outbox \in Seq(IntentUpdates) BY DEF TabFits, Replicas
<1>2. s \in Seq(IntentUpdates)
      /\ \A i \in 1..Len(s) : \E j \in 1..Len(rep.outbox) : s[i] = rep.outbox[j]
  BY <1>1, SettleIs
<1> HIDE DEF s
<1>3. [rep EXCEPT !.outbox = s] \in Replicas BY <1>1, <1>2 DEF Replicas
<1>4. [rep EXCEPT !.outbox = s].outbox = s BY <1>1 DEF Replicas
<1>5. ASSUME NEW k \in 1..Len(s) PROVE s[k].id[1] = c
  <2> PICK j \in 1..Len(rep.outbox) : s[k] = rep.outbox[j] BY <1>2
  <2> QED BY DEF TabFits
<1> QED BY <1>3, <1>4, <1>5 DEF TabFits, s

(* A budget that is used once more is a budget.                            *)
LEMMA BudgetKept ==
  ASSUME spent \in Budgets
  PROVE  /\ [spent EXCEPT !.failures = @ + 1] \in Budgets
         /\ [spent EXCEPT !.deaths = @ + 1] \in Budgets
         /\ [spent EXCEPT !.overlaps = @ + 1] \in Budgets
         /\ [spent EXCEPT !.cancels = @ + 1] \in Budgets
         /\ [spent EXCEPT !.resolutions = @ + 1] \in Budgets
BY DEF Budgets

(* One more update in the queue of a tab.                                  *)
LEMMA QueueGrows ==
  ASSUME ClientTypes, NEW c \in Clients, NEW u \in UpdateSet
  PROVE  [queue EXCEPT ![c] = Append(queue[c], u)] \in [Clients -> Seq(UpdateSet)]
<1>1. queue[c] \in Seq(UpdateSet) BY DEF ClientTypes
<1>2. Append(queue[c], u) \in Seq(UpdateSet) BY <1>1, AppendProperties, Zenon
<1> QED BY <1>2 DEF ClientTypes

(* cancelPendingIntents().                                                 *)
LEMMA CancelKeepsNet ==
  ASSUME NetInv, NEW c \in Clients, NEW txn, CancelPending(c, txn)
  PROVE  NetInv' /\ Future' = Future
<1> DEFINE rep  == replica[c]
           mine == Where(rep.outbox, LAMBDA x : x.txn = txn)
           ids  == [k \in 1..Len(mine) |-> mine[k].id]
           kept == [rep EXCEPT !.outbox = SettlePending(rep.outbox, ToSet(ids))]
<1>1. /\ replica' = [replica EXCEPT ![c] = kept]
      /\ queue' = [queue EXCEPT ![c] = Append(queue[c], CancelUpdate(ids))]
      /\ spent' = [spent EXCEPT !.cancels = spent.cancels + 1]
      /\ UNCHANGED <<engineVars, authored, netVars>>
  BY DEF CancelPending
<1>2. ClientTypes /\ TabFits(rep, c) BY DEF NetInv, ClientTypes, TabFits
<1>3. rep.outbox \in Seq(IntentUpdates) BY <1>2 DEF TabFits, Replicas
<1>4. mine \in Seq(IntentUpdates)
  <2> DEFINE K == {k \in DOMAIN rep.outbox : rep.outbox[k].txn = txn}
  <2>1. mine = Kept(rep.outbox, K) BY DEF Where
  <2> HIDE DEF K, mine
  <2> QED BY <1>3, <2>1, KeptType
<1>5. CancelUpdate(ids) \in UpdateSet
  <2> HIDE DEF mine
  <2>1. \A k \in 1..Len(mine) : mine[k].id \in Ids
    <3> TAKE k \in 1..Len(mine)
    <3>1. mine[k] \in IntentUpdates BY <1>4, ElementOfSeq, Zenon
    <3> QED BY <3>1 DEF IntentUpdates
  <2>2. ids \in Seq(Ids) BY <1>4, <2>1
  <2> HIDE DEF ids
  <2> QED BY <2>2 DEF CancelUpdate, UpdateSet
<1>6. TabFits(kept, c) BY <1>2, SettledTabFits
<1> HIDE DEF kept, ids
<1>7. queue' \in [Clients -> Seq(UpdateSet)] BY <1>1, <1>2, <1>5, QueueGrows
<1>8. ClientTypes' BY <1>1, <1>2, <1>6, <1>7, TabsKept
<1>9. spent' \in Budgets
  <2> spent \in Budgets BY DEF NetInv, NetTypes
  <2> QED BY <1>1, BudgetKept
<1> QED BY <1>1, <1>8, <1>9, EditorKeepsNet

(* resolveProposal().                                                      *)
LEMMA ResolveKeepsNet ==
  ASSUME NetInv, NEW c \in Clients, NEW i \in Ids, ResolveProposal(c, i)
  PROVE  NetInv' /\ Future' = Future
<1> DEFINE rep  == replica[c]
           kept == [rep EXCEPT !.resolved = rep.resolved \cup {i}]
<1>1. /\ replica' = [replica EXCEPT ![c] = kept]
      /\ queue' = [queue EXCEPT ![c] = Append(queue[c], ResolvedUpdate(i))]
      /\ spent' = [spent EXCEPT !.resolutions = spent.resolutions + 1]
      /\ UNCHANGED <<engineVars, authored, netVars>>
  BY DEF ResolveProposal
<1>2. ClientTypes /\ TabFits(rep, c) BY DEF NetInv, ClientTypes, TabFits
<1>3. TabFits(kept, c)
  <2>1. rep \in Replicas /\ rep.resolved \cup {i} \in SUBSET Ids BY <1>2 DEF TabFits, Replicas
  <2>2. kept \in Replicas /\ kept.outbox = rep.outbox BY <2>1 DEF Replicas
  <2> QED BY <1>2, <2>2 DEF TabFits
<1>4. ResolvedUpdate(i) \in UpdateSet BY DEF ResolvedUpdate, UpdateSet
<1> HIDE DEF kept
<1>5. queue' \in [Clients -> Seq(UpdateSet)] BY <1>1, <1>2, <1>4, QueueGrows
<1>6. ClientTypes' BY <1>1, <1>2, <1>3, <1>5, TabsKept
<1>7. spent' \in Budgets
  <2> spent \in Budgets BY DEF NetInv, NetTypes
  <2> QED BY <1>1, BudgetKept
<1> QED BY <1>1, <1>6, <1>7, EditorKeepsNet

(* What an action of the server leaves alone.                              *)
LEMMA ClientSame ==
  ASSUME ClientTypes, UNCHANGED clientVars PROVE ClientTypes'
<1>1. replica' = replica /\ authored' = authored /\ queue' = queue BY DEF clientVars
<1> QED BY <1>1 DEF ClientTypes

(* The POST.                                                               *)
LEMMA SendKeepsNet ==
  ASSUME NetInv, NEW c \in Clients, Send(c)
  PROVE  NetInv' /\ Future' = Future
<1>1. /\ ~flight[c].busy
      /\ UNCHANGED <<engineVars, replica, authored, cursor, attempt, reply, spent>>
  BY DEF Send
<1>2. ClientTypes /\ NetTypes /\ OneRequest /\ EngineInv BY DEF NetInv
<1>3. queue[c] \in Seq(UpdateSet) /\ Len(queue[c]) \in Nat
  <2> queue[c] \in Seq(UpdateSet) BY <1>2 DEF ClientTypes
  <2> QED BY LenProperties, Zenon
<1>4. PICK n \in 0..Len(queue[c]) :
        LET updates == SubSeq(queue[c], 1, n)
        IN  /\ flight' = [flight EXCEPT ![c] = Flight(updates)]
            /\ queue' = [queue EXCEPT ![c] = SubSeq(queue[c], n + 1, Len(queue[c]))]
            /\ inbox' = inbox \cup
                 {[client |-> c, attempt |-> attempt[c], cursor |-> cursor[c],
                   updates |-> updates, ingested |-> n = 0, verdicts |-> {}]}
  <2>1. (IF Splits /\ queue[c] # <<>> THEN 1..Len(queue[c]) ELSE {Len(queue[c])}) \subseteq 0..Len(queue[c])
    BY <1>3
  <2> QED BY <2>1 DEF Send
<1> DEFINE updates == SubSeq(queue[c], 1, n)
           rest == SubSeq(queue[c], n + 1, Len(queue[c]))
           req == [client |-> c, attempt |-> attempt[c], cursor |-> cursor[c],
                   updates |-> updates, ingested |-> n = 0, verdicts |-> {}]
<1>5. updates \in Seq(UpdateSet) /\ rest \in Seq(UpdateSet)
  <2>1. \A i \in 1..Len(queue[c]) : queue[c][i] \in UpdateSet BY <1>3, ElementOfSeq, Zenon
  <2>2. \A i \in 1..n : queue[c][i] \in UpdateSet BY <1>3, <2>1
  <2>3. \A i \in (n + 1)..Len(queue[c]) : queue[c][i] \in UpdateSet BY <1>3, <2>1
  <2>4. n \in Int /\ n + 1 \in Int /\ 1 \in Int /\ Len(queue[c]) \in Int BY <1>3
  <2> QED BY <2>2, <2>3, <2>4, SubSeqProperties, Zenon
<1> HIDE DEF updates, rest
<1>6. req \in RequestSet BY <1>2, <1>5 DEF RequestSet, NetTypes, Verdicts
<1>7. req.client = c /\ req.attempt = attempt[c] /\ req.cursor = cursor[c] OBVIOUS
<1>8. /\ flight' = [flight EXCEPT ![c] = Flight(updates)]
      /\ queue' = [queue EXCEPT ![c] = rest] /\ inbox' = inbox \cup {req}
  BY <1>4 DEF updates, rest
<1> HIDE DEF req
<1>9. ClientTypes' BY <1>1, <1>2, <1>5, <1>8 DEF ClientTypes
<1>10. NetTypes'
  <2>1. Flight(updates) \in Flights BY <1>5 DEF Flight, Flights
  <2> QED BY <1>1, <1>2, <1>6, <1>8, <2>1 DEF NetTypes
<1>11. EngineInv' /\ Future' = Future BY <1>1, <1>2, EngineSame
<1>12. ingest' = ingest BY <1>1 DEF engineVars
<1>13. /\ ~reply[c].here /\ ~OfIngest(c)
       /\ \A r \in inbox : r.client = c => ~Live(r)
  BY <1>1, <1>2 DEF OneRequest
<1>14. flight'[c].busy /\ \A d \in Clients : d # c => flight'[d] = flight[d]
  BY <1>2, <1>8 DEF Flight, NetTypes
<1>15. \A r \in inbox' : r.client \in Clients /\ (Live(r)' <=> Live(r)) /\ (r \in inbox \/ r = req)
  BY <1>1, <1>2, <1>6, <1>8 DEF NetTypes, RequestSet, Live
<1>16. Live(req) BY <1>7 DEF Live
<1>17. \A r \in inbox' :
         /\ r.attempt <= attempt'[r.client] /\ (r.ingested => Live(r)')
         /\ Live(r)' => /\ flight'[r.client].busy /\ ~reply'[r.client].here
                        /\ r.cursor = cursor'[r.client]
  <2> TAKE r \in inbox'
  <2>1. CASE r = req
    <3> attempt[c] \in Nat BY <1>2 DEF NetTypes
    <3> QED BY <1>1, <1>7, <1>13, <1>14, <1>15, <1>16, <2>1
  <2>2. CASE r \in inbox
    <3>1. r.attempt <= attempt[r.client] /\ (r.ingested => Live(r)) BY <1>2, <2>2 DEF OneRequest
    <3>2. CASE Live(r)
      <4> r.client # c BY <1>13, <2>2, <3>2
      <4> flight[r.client].busy /\ ~reply[r.client].here /\ r.cursor = cursor[r.client]
        BY <1>2, <2>2, <3>2 DEF OneRequest
      <4> QED BY <1>1, <1>14, <1>15, <3>1, <3>2
    <3>3. CASE ~Live(r) BY <1>1, <1>15, <3>1, <3>3
    <3> QED BY <3>2, <3>3
  <2> QED BY <1>15, <2>1, <2>2
<1>18. \A q, r \in inbox' : Live(q)' /\ Live(r)' /\ q.client = r.client => q = r
  <2> TAKE q, r \in inbox'
  <2> HAVE Live(q)' /\ Live(r)' /\ q.client = r.client
  <2>1. Live(q) /\ Live(r) BY <1>15
  <2>2. CASE q \in inbox /\ r \in inbox BY <1>2, <2>1, <2>2 DEF OneRequest
  <2>3. CASE q = req /\ r \in inbox BY <1>7, <1>13, <2>1, <2>3
  <2>4. CASE q \in inbox /\ r = req BY <1>7, <1>13, <2>1, <2>4
  <2> QED BY <1>15, <2>2, <2>3, <2>4
<1>19. \A d \in Clients : OfIngest(d)' =>
         /\ flight'[d].busy /\ ~reply'[d].here /\ ingest'.cursor = cursor'[d]
         /\ \A r \in inbox' : r.client = d => ~Live(r)'
  <2> TAKE d \in Clients
  <2> HAVE OfIngest(d)'
  <2>1. OfIngest(d) BY <1>1, <1>12 DEF OfIngest
  <2>2. d # c BY <1>13, <2>1
  <2>3. /\ flight[d].busy /\ ~reply[d].here /\ ingest.cursor = cursor[d]
        /\ \A r \in inbox : r.client = d => ~Live(r)
    BY <1>2, <2>1 DEF OneRequest
  <2>4. \A r \in inbox' : r.client = d => ~Live(r)' BY <1>7, <1>15, <2>2, <2>3
  <2> QED BY <1>1, <1>12, <1>14, <2>2, <2>3, <2>4
<1>20. ingest' # NoIngest => ingest'.attempt <= attempt'[ingest'.client]
  BY <1>1, <1>2, <1>12 DEF OneRequest
<1>21. \A d \in Clients : reply'[d].here => flight'[d].busy
  BY <1>1, <1>2, <1>14 DEF OneRequest
<1>22. OneRequest' BY <1>17, <1>18, <1>19, <1>20, <1>21 DEF OneRequest
<1> QED BY <1>9, <1>10, <1>11, <1>22 DEF NetInv

(* The server takes the lock and plans.                                    *)
LEMMA IngestKeepsNet ==
  ASSUME NetInv, NEW r \in inbox, ServerIngest(r)
  PROVE  NetInv'
<1>1. /\ IngestStart(r) /\ ~r.ingested /\ inbox' = inbox \ {r}
      /\ UNCHANGED <<clientVars, cursor, flight, attempt, reply, spent>>
  BY DEF ServerIngest
<1>2. ClientTypes /\ NetTypes /\ OneRequest /\ EngineInv BY DEF NetInv
<1>3. r \in RequestSet BY <1>2 DEF NetTypes
<1>4. /\ r.updates \in Seq(UpdateSet) /\ r.client \in Clients /\ r.attempt \in Nat
      /\ r.cursor \in Nat
  BY <1>3 DEF RequestSet
<1>5. EngineInv' /\ ingest' # NoIngest BY <1>1, <1>2, <1>4, StartKeepsInv
<1>6. ingest'.client = r.client /\ ingest'.attempt = r.attempt /\ ingest'.cursor = r.cursor
  BY <1>1 DEF IngestStart
<1>7. ClientTypes' BY <1>1, <1>2, ClientSame
<1>8. NetTypes' BY <1>1, <1>2 DEF NetTypes
<1>9. /\ flight' = flight /\ cursor' = cursor /\ attempt' = attempt /\ reply' = reply BY <1>1
<1>10. \A q \in inbox' : q \in inbox /\ (Live(q)' <=> Live(q)) BY <1>1, <1>9 DEF Live
<1>11. \A q \in inbox' :
         /\ q.attempt <= attempt'[q.client] /\ (q.ingested => Live(q)')
         /\ Live(q)' => /\ flight'[q.client].busy /\ ~reply'[q.client].here
                        /\ q.cursor = cursor'[q.client]
  BY <1>2, <1>9, <1>10 DEF OneRequest
<1>12. \A q, s \in inbox' : Live(q)' /\ Live(s)' /\ q.client = s.client => q = s
  BY <1>2, <1>10 DEF OneRequest
<1>13. r.attempt <= attempt[r.client] BY <1>2 DEF OneRequest
<1>14. \A d \in Clients : OfIngest(d)' =>
         /\ flight'[d].busy /\ ~reply'[d].here /\ ingest'.cursor = cursor'[d]
         /\ \A q \in inbox' : q.client = d => ~Live(q)'
  <2> TAKE d \in Clients
  <2> HAVE OfIngest(d)'
  <2>1. r.client = d /\ Live(r) BY <1>6, <1>9 DEF OfIngest, Live
  <2>2. flight[d].busy /\ ~reply[d].here /\ r.cursor = cursor[d]
    BY <1>2, <2>1 DEF OneRequest
  <2>3. \A q \in inbox' : q.client = d => ~Live(q)'
    BY <1>1, <1>2, <1>10, <2>1 DEF OneRequest
  <2> QED BY <1>6, <1>9, <2>2, <2>3
<1>15. \A d \in Clients : reply'[d].here => flight'[d].busy BY <1>2, <1>9 DEF OneRequest
<1>16. OneRequest' BY <1>6, <1>9, <1>11, <1>12, <1>13, <1>14, <1>15 DEF OneRequest
<1> QED BY <1>5, <1>7, <1>8, <1>16 DEF NetInv

(* A statement of an ingest is done: whose ingest it is does not change.   *)
LEMMA StepKeepsRequest ==
  ASSUME EngineInv, IngestStep
  PROVE  /\ ingest # NoIngest /\ ingest' # NoIngest
         /\ ingest'.client = ingest.client /\ ingest'.attempt = ingest.attempt
         /\ ingest'.cursor = ingest.cursor /\ ingest'.verdicts = ingest.verdicts
<1>1. ingest # NoIngest /\ \E t : ingest' = [ingest EXCEPT !.todo = t]
  BY DEF IngestStep, IngestInsert, IngestInsertFails, IngestMark, IngestTrim,
         IngestFloor, Doing, Done
<1>2. PICK t : ingest' = [ingest EXCEPT !.todo = t] BY <1>1
<1>3. ingest \in Ingests BY <1>1 DEF EngineInv, IngestOK
<1>4. "todo" \in DOMAIN ingest' /\ "todo" \notin DOMAIN NoIngest
  BY <1>2, <1>3 DEF NoIngest, Ingests
<1> QED BY <1>1, <1>2, <1>3, <1>4 DEF Ingests

(* A statement of an ingest keeps the invariant of the server.             *)
LEMMA StepKeepsEngine ==
  ASSUME EngineInv, IngestStep
  PROVE  /\ EngineInv'
         /\ \/ Future' = Future /\ rows' = rows
            \/ IngestInsert
<1>1. CASE IngestInsert BY <1>1, InsertKeepsInv
<1>2. CASE IngestInsertFails BY <1>2, FailureKeepsInv DEF IngestInsertFails
<1>3. CASE IngestMark BY <1>3, MarkKeepsInv DEF IngestMark
<1>4. CASE IngestTrim BY <1>4, TrimKeepsInv DEF IngestTrim
<1>5. CASE IngestFloor BY <1>5, FloorKeepsInv DEF IngestFloor
<1> QED BY <1>1, <1>2, <1>3, <1>4, <1>5 DEF IngestStep

(* A statement of an ingest keeps all of it.                               *)
LEMMA StepKeepsNet ==
  ASSUME NetInv, ServerStep
  PROVE  NetInv'
<1>1. IngestStep /\ UNCHANGED <<clientVars, netVars, spent>> BY DEF ServerStep
<1>2. ClientTypes /\ NetTypes /\ OneRequest /\ EngineInv BY DEF NetInv
<1>3. EngineInv' BY <1>1, <1>2, StepKeepsEngine
<1>4. /\ ingest # NoIngest /\ ingest' # NoIngest
      /\ ingest'.client = ingest.client /\ ingest'.attempt = ingest.attempt
      /\ ingest'.cursor = ingest.cursor
  BY <1>1, <1>2, StepKeepsRequest
<1>5. ClientTypes' BY <1>1, <1>2, ClientSame
<1>6. /\ cursor' = cursor /\ flight' = flight /\ attempt' = attempt /\ reply' = reply
      /\ inbox' = inbox /\ spent' = spent
  BY <1>1 DEF netVars
<1>7. NetTypes' BY <1>2, <1>6 DEF NetTypes
<1>8. OneRequest' BY <1>2, <1>4, <1>6 DEF OneRequest, OfIngest, Live
<1> QED BY <1>3, <1>5, <1>7, <1>8 DEF NetInv

(* The lock is released and the answer is due.                             *)
LEMMA EndKeepsNet ==
  ASSUME NetInv, ServerEnd
  PROVE  NetInv' /\ Future' = Future
<1> DEFINE c == ingest.client
           req == [client |-> c, attempt |-> ingest.attempt, cursor |-> ingest.cursor,
                   updates |-> <<>>, ingested |-> TRUE, verdicts |-> ingest.verdicts]
<1>1. /\ IngestEnd
      /\ inbox' = inbox \cup (IF ingest.attempt = attempt[c] THEN {req} ELSE {})
      /\ UNCHANGED <<clientVars, cursor, flight, attempt, reply, spent>>
  BY DEF ServerEnd
<1>2. ClientTypes /\ NetTypes /\ OneRequest /\ EngineInv BY DEF NetInv
<1>3. ingest # NoIngest /\ ingest' = NoIngest BY <1>1 DEF IngestEnd
<1>4. EngineInv' /\ Future' = Future BY <1>1, <1>2, EndKeepsInv
<1>5. ingest \in Ingests BY <1>2, <1>3 DEF EngineInv, IngestOK
<1>6. c \in Clients /\ req \in RequestSet
  <2> <<>> \in Seq(UpdateSet) BY EmptySeq
  <2> QED BY <1>5 DEF Ingests, RequestSet, Verdicts
<1>7. req.client = c /\ req.attempt = ingest.attempt /\ req.cursor = ingest.cursor OBVIOUS
<1> HIDE DEF req
<1>8. ClientTypes' BY <1>1, <1>2, ClientSame
<1>9. inbox' \subseteq inbox \cup {req} /\ (req \in inbox' \ inbox => OfIngest(c))
  BY <1>1, <1>3 DEF OfIngest
<1>10. NetTypes' BY <1>1, <1>2, <1>6, <1>9 DEF NetTypes
<1>11. /\ flight' = flight /\ cursor' = cursor /\ attempt' = attempt /\ reply' = reply
  BY <1>1
<1>12. \A q \in inbox' : Live(q)' <=> Live(q) BY <1>11 DEF Live
<1>13. OfIngest(c) => /\ Live(req) /\ flight[c].busy /\ ~reply[c].here /\ req.cursor = cursor[c]
                      /\ \A r \in inbox : r.client = c => ~Live(r)
  <2> HAVE OfIngest(c)
  <2>1. Live(req) BY <1>7 DEF OfIngest, Live
  <2>2. ingest.cursor = cursor[c] BY <1>2, <1>6 DEF OneRequest
  <2> QED BY <1>2, <1>6, <1>7, <2>1, <2>2 DEF OneRequest
<1>14. \A q \in inbox' :
         /\ q.attempt <= attempt'[q.client] /\ (q.ingested => Live(q)')
         /\ Live(q)' => /\ flight'[q.client].busy /\ ~reply'[q.client].here
                        /\ q.cursor = cursor'[q.client]
  <2> TAKE q \in inbox'
  <2>1. CASE q \in inbox BY <1>2, <1>11, <1>12, <2>1 DEF OneRequest
  <2>2. CASE q \notin inbox
    <3>1. q = req /\ OfIngest(c) BY <1>9, <2>2
    <3>2. req.attempt <= attempt[c] BY <1>2, <1>3, <1>7 DEF OneRequest
    <3> QED BY <1>7, <1>11, <1>12, <1>13, <3>1, <3>2
  <2> QED BY <2>1, <2>2
<1>15. \A q, r \in inbox' : Live(q)' /\ Live(r)' /\ q.client = r.client => q = r
  <2> TAKE q, r \in inbox'
  <2> HAVE Live(q)' /\ Live(r)' /\ q.client = r.client
  <2>1. Live(q) /\ Live(r) BY <1>12
  <2>2. CASE q \in inbox /\ r \in inbox BY <1>2, <2>1, <2>2 DEF OneRequest
  <2>3. CASE q \notin inbox \/ r \notin inbox
    <3>1. OfIngest(c) /\ (q = req \/ r = req) BY <1>9, <2>3
    <3>2. \A s \in inbox' : Live(s) /\ s.client = c => s = req BY <1>9, <1>13, <3>1
    <3> QED BY <1>7, <2>1, <3>1, <3>2
  <2> QED BY <2>2, <2>3
<1>16. \A d \in Clients : ~OfIngest(d)' BY <1>3 DEF OfIngest
<1>17. \A d \in Clients : reply'[d].here => flight'[d].busy BY <1>2, <1>11 DEF OneRequest
<1>18. OneRequest' BY <1>3, <1>14, <1>15, <1>16, <1>17 DEF OneRequest
<1> QED BY <1>4, <1>8, <1>10, <1>18 DEF NetInv

(* What get_updates_since() answers with: the rows from one on.            *)
SinceFrom(u) ==
  LET after == ReadFrom(u) + 1 IN IF after < first THEN first ELSE after

(* get_updates_since() returns the rows from there on.                     *)
LEMMA RowsSinceIs ==
  ASSUME TableOK, NEW u \in Nat
  PROVE  /\ SinceFrom(u) \in Nat \ {0}
         /\ RowsSince(u) = SubSeq(rows, SinceFrom(u), Len(rows))
         /\ RowsSince(u) \in Seq(RowSet)
         /\ SinceFrom(u) = first \/ (SinceFrom(u) = u + 1 /\ u >= first)
<1>1. /\ floor \in 0..first /\ first \in 1..Len(rows) /\ Len(rows) \in Nat /\ rows \in Seq(RowSet)
  <2> rows \in Seq(RowSet) BY DEF TableOK
  <2> Len(rows) \in Nat BY LenProperties, Zenon
  <2> QED BY DEF TableOK
<1>2. /\ SinceFrom(u) \in Nat \ {0}
      /\ SinceFrom(u) = first \/ (SinceFrom(u) = u + 1 /\ u >= first)
  BY <1>1 DEF SinceFrom, ReadFrom
<1>3. RowsSince(u) = SubSeq(rows, SinceFrom(u), Len(rows)) BY DEF RowsSince, SinceFrom
<1>4. SubSeq(rows, SinceFrom(u), Len(rows)) \in Seq(RowSet)
  <2>1. \A i \in 1..Len(rows) : rows[i] \in RowSet BY <1>1, ElementOfSeq, Zenon
  <2>2. \A i \in SinceFrom(u)..Len(rows) : rows[i] \in RowSet BY <1>1, <1>2, <2>1
  <2>3. SinceFrom(u) \in Int /\ Len(rows) \in Int BY <1>1, <1>2
  <2> QED BY <2>2, <2>3, SubSeqProperties, Zenon
<1> QED BY <1>2, <1>3, <1>4

(* The answer is on its way.                                               *)
LEMMA AnswerKeepsNet ==
  ASSUME NetInv, NEW r \in inbox, ServerAnswer(r)
  PROVE  NetInv' /\ Future' = Future
<1> DEFINE c == r.client
           answer == [here |-> TRUE, rows |-> RowsSince(r.cursor),
                      end |-> Len(rows), verdicts |-> r.verdicts]
<1>1. /\ r.ingested /\ inbox' = inbox \ {r} /\ reply' = [reply EXCEPT ![c] = answer]
      /\ UNCHANGED <<engineVars, clientVars, cursor, flight, attempt, spent>>
  BY DEF ServerAnswer
<1>2. ClientTypes /\ NetTypes /\ OneRequest /\ EngineInv BY DEF NetInv
<1>3. r \in RequestSet BY <1>2 DEF NetTypes
<1>4. c \in Clients /\ r.cursor \in Nat /\ r.verdicts \in Verdicts BY <1>3 DEF RequestSet
<1>5. answer \in Replies /\ answer.here
  <2>1. TableOK BY <1>2 DEF EngineInv
  <2>2. RowsSince(r.cursor) \in Seq(RowSet) BY <1>4, <2>1, RowsSinceIs
  <2>3. Len(rows) \in Nat BY <2>1, LenProperties, Zenon DEF TableOK
  <2> QED BY <1>4, <2>2, <2>3 DEF Replies
<1> HIDE DEF answer
<1>6. Live(r) /\ flight[c].busy BY <1>1, <1>2 DEF OneRequest
<1>7. ~OfIngest(c) BY <1>2, <1>4, <1>6 DEF OneRequest
<1>8. \A q \in inbox' : q.client = c => ~Live(q) BY <1>1, <1>2, <1>6 DEF OneRequest
<1>9. EngineInv' /\ Future' = Future BY <1>1, <1>2, EngineSame
<1>10. ClientTypes' BY <1>1, <1>2, ClientSame
<1>11. NetTypes' BY <1>1, <1>2, <1>5 DEF NetTypes
<1>12. /\ flight' = flight /\ cursor' = cursor /\ attempt' = attempt /\ ingest' = ingest
       /\ \A d \in Clients : d # c => reply'[d] = reply[d]
  BY <1>1, <1>2 DEF engineVars, NetTypes
<1>13. \A q \in inbox' : q \in inbox /\ q.client \in Clients /\ (Live(q)' <=> Live(q))
  BY <1>1, <1>2, <1>12 DEF Live, NetTypes, RequestSet
<1>14. \A q \in inbox' :
         /\ q.attempt <= attempt'[q.client] /\ (q.ingested => Live(q)')
         /\ Live(q)' => /\ flight'[q.client].busy /\ ~reply'[q.client].here
                        /\ q.cursor = cursor'[q.client]
  BY <1>2, <1>8, <1>12, <1>13 DEF OneRequest
<1>15. \A q, s \in inbox' : Live(q)' /\ Live(s)' /\ q.client = s.client => q = s
  BY <1>2, <1>13 DEF OneRequest
<1>16. \A d \in Clients : OfIngest(d)' =>
         /\ flight'[d].busy /\ ~reply'[d].here /\ ingest'.cursor = cursor'[d]
         /\ \A q \in inbox' : q.client = d => ~Live(q)'
  <2> TAKE d \in Clients
  <2> HAVE OfIngest(d)'
  <2>1. OfIngest(d) BY <1>12 DEF OfIngest
  <2>2. d # c BY <1>7, <2>1
  <2> QED BY <1>2, <1>12, <1>13, <2>1, <2>2 DEF OneRequest
<1>17. \A d \in Clients : reply'[d].here => flight'[d].busy
  BY <1>2, <1>6, <1>12 DEF OneRequest
<1>18. ingest' # NoIngest => ingest'.attempt <= attempt'[ingest'.client]
  BY <1>2, <1>12 DEF OneRequest
<1>19. OneRequest' BY <1>14, <1>15, <1>16, <1>17, <1>18 DEF OneRequest
<1> QED BY <1>9, <1>10, <1>11, <1>19 DEF NetInv

(* A row adds nothing to the pending intents of a tab.                     *)
LEMMA ReceiveUpdateFits ==
  ASSUME NEW c, NEW rep, TabFits(rep, c), NEW row \in RowSet
  PROVE  TabFits(ReceiveUpdate(rep, row), c)
<1>1. rep \in Replicas /\ rep.outbox \in Seq(IntentUpdates) BY DEF TabFits, Replicas
<1>2. ReceiveUpdate(rep, row) \in Replicas BY <1>1, ReceiveUpdateType
<1>3. \/ ReceiveUpdate(rep, row).outbox = rep.outbox
      \/ \E ids : ReceiveUpdate(rep, row).outbox = SettlePending(rep.outbox, ids)
  <2>1. \A s : [rep EXCEPT !.outbox = s].outbox = s BY <1>1 DEF Replicas
  <2>2. row.kind \in {"snapshot", "intent", "parked", "resolved", "voided"}
    BY DEF RowSet, Entries
  <2>3. CASE rep.deferred # <<>>
    BY <1>1, <2>3 DEF ReceiveUpdate, Replicas
  <2>4. CASE rep.deferred = <<>> /\ row.kind = "snapshot"
    BY <1>1, <2>4 DEF ReceiveUpdate, ReceiveSnapshot, Replicas
  <2>5. CASE rep.deferred = <<>> /\ row.kind = "intent"
    <3>1. ReceiveUpdate(rep, row) = ReceiveIntent(rep, row) BY <2>5 DEF ReceiveUpdate
    <3>2. \A s, n, d, a : [rep EXCEPT !.outbox = s, !.seq = n, !.doc = d, !.applied = a].outbox = s
      BY <1>1 DEF Replicas
    <3>3. CASE ~rep.live \/ row.id \in rep.applied BY <3>1, <3>3 DEF ReceiveIntent
    <3>4. CASE ~(~rep.live \/ row.id \in rep.applied)
      <4> ReceiveIntent(rep, row).outbox = SettlePending(rep.outbox, {row.id})
        BY <3>2, <3>4 DEF ReceiveIntent
      <4> QED BY <3>1
    <3> QED BY <3>3, <3>4
  <2>6. CASE rep.deferred = <<>> /\ row.kind = "parked"
    <3>1. ReceiveUpdate(rep, row) = ReceiveParked(rep, row) BY <2>6 DEF ReceiveUpdate
    <3>2. \A s, n : [rep EXCEPT !.outbox = s, !.proposals = n].outbox = s
      BY <1>1 DEF Replicas
    <3>3. ReceiveParked(rep, row) = rep \/ ReceiveParked(rep, row).outbox = SettlePending(rep.outbox, {row.id})
      BY <3>2 DEF ReceiveParked
    <3> QED BY <3>1, <3>3
  <2>7. CASE rep.deferred = <<>> /\ row.kind = "resolved"
    <3>1. ReceiveUpdate(rep, row) = [rep EXCEPT !.resolved = rep.resolved \cup {row.id}]
      BY <2>7 DEF ReceiveUpdate
    <3> QED BY <1>1, <3>1 DEF Replicas
  <2>8. CASE rep.deferred = <<>> /\ row.kind = "voided"
    <3>1. ReceiveUpdate(rep, row) = [rep EXCEPT !.outbox = SettlePending(rep.outbox, {row.id})]
      BY <2>8 DEF ReceiveUpdate
    <3> QED BY <2>1, <3>1
  <2> QED BY <2>2, <2>3, <2>4, <2>5, <2>6, <2>7, <2>8
<1>4. CASE ReceiveUpdate(rep, row).outbox = rep.outbox BY <1>2, <1>4 DEF TabFits
<1>5. ASSUME NEW ids, ReceiveUpdate(rep, row).outbox = SettlePending(rep.outbox, ids)
      PROVE  TabFits(ReceiveUpdate(rep, row), c)
  <2>1. TabFits([rep EXCEPT !.outbox = SettlePending(rep.outbox, ids)], c) BY SettledTabFits
  <2>2. [rep EXCEPT !.outbox = SettlePending(rep.outbox, ids)].outbox = SettlePending(rep.outbox, ids)
    BY <1>1 DEF Replicas
  <2> QED BY <1>2, <1>5, <2>1, <2>2 DEF TabFits
<1> QED BY <1>3, <1>4, <1>5

(* Receiving rows leaves the tab its own.                                  *)
LEMMA ReceiveRowsFits ==
  ASSUME NEW c, NEW rep, TabFits(rep, c), NEW rs \in Seq(RowSet)
  PROVE  TabFits(ReceiveRows(rep, rs), c)
<1>1. rep \in Replicas BY DEF TabFits
<1>2. PICK f : Received(f, rep, rs) BY <1>1, ReceiveSteps
<1> DEFINE S == {k \in 0..Len(rs) : TabFits(f[k], c)}
<1>3. Len(rs) \in Nat BY LenProperties, Zenon
<1>4. S = 0..Len(rs)
  <2>1. 0 \in S BY <1>2, <1>3 DEF Received
  <2>2. ASSUME NEW k \in S, k < Len(rs) PROVE k + 1 \in S
    <3>1. k + 1 \in 1..Len(rs) /\ (k + 1) - 1 = k BY <1>3, <2>2
    <3>2. rs[k + 1] \in RowSet BY <3>1, ElementOfSeq, Zenon
    <3>3. f[k + 1] = ReceiveUpdate(f[k], rs[k + 1]) BY <1>2, <3>1 DEF Received
    <3>4. TabFits(f[k + 1], c) BY <3>2, <3>3, ReceiveUpdateFits
    <3> QED BY <1>3, <2>2, <3>4
  <2>3. S \in SUBSET (0..Len(rs)) OBVIOUS
  <2> HIDE DEF S
  <2> QED BY <1>3, <2>1, <2>2, <2>3, UpTo, Zenon
<1>5. Len(rs) \in S BY <1>3, <1>4
<1> QED BY <1>2, <1>5 DEF Received

(* So does a deferred reset that is released.                              *)
LEMMA ReleaseFits ==
  ASSUME NEW c, NEW rep, TabFits(rep, c)
  PROVE  TabFits(ReleaseDeferred(rep), c)
<1> DEFINE open == [rep EXCEPT !.deferred = <<>>]
<1>1. rep \in Replicas /\ rep.deferred \in Seq(RowSet) BY DEF TabFits, Replicas
<1>2. TabFits(open, c)
  <2> <<>> \in Seq(RowSet) BY EmptySeq
  <2> open \in Replicas /\ open.outbox = rep.outbox BY <1>1 DEF Replicas
  <2> QED BY DEF TabFits
<1>3. TabFits(ReceiveRows(open, rep.deferred), c) BY <1>1, <1>2, ReceiveRowsFits
<1> QED BY <1>3 DEF ReleaseDeferred

(* So does a whole response.                                               *)
LEMMA AppliedFits ==
  ASSUME NEW c, NEW rep, TabFits(rep, c), NEW response, response.rows \in Seq(RowSet), NEW sent
  PROVE  TabFits(Applied(rep, response, sent), c)
<1> DEFINE caughtUp == ReceiveRows(rep, response.rows)
           ids == {v[1] : v \in response.verdicts}
<1>1. TabFits(caughtUp, c) BY ReceiveRowsFits
<1>2. Applied(rep, response, sent) =
        IF sent = <<>> THEN caughtUp ELSE ReceiveDispositions(caughtUp, ids)
  BY DEF Applied
<1> HIDE DEF caughtUp, ids
<1>3. TabFits([caughtUp EXCEPT !.outbox = SettlePending(caughtUp.outbox, ids)], c)
  BY <1>1, SettledTabFits
<1>4. TabFits(ReceiveDispositions(caughtUp, ids), c)
  BY <1>3, ReleaseFits DEF ReceiveDispositions
<1> QED BY <1>1, <1>2, <1>4

(* A tab that has no request in flight is waited for by nobody.            *)
LEMMA ReceiveKeepsNet ==
  ASSUME NetInv, NEW c \in Clients, Receive(c)
  PROVE  NetInv' /\ Future' = Future
<1> DEFINE rep == Applied(replica[c], reply[c], flight[c].updates)
<1>1. /\ reply[c].here /\ replica' = [replica EXCEPT ![c] = rep]
      /\ \/ cursor' = [cursor EXCEPT ![c] = reply[c].end] /\ spent' = spent
         \/ spent' = [spent EXCEPT !.overlaps = spent.overlaps + 1] /\ cursor' = cursor
      /\ flight' = [flight EXCEPT ![c] = Idle] /\ reply' = [reply EXCEPT ![c] = NoReply]
      /\ UNCHANGED <<engineVars, authored, queue, attempt, inbox>>
  BY DEF Receive
<1>2. ClientTypes /\ NetTypes /\ OneRequest /\ EngineInv BY DEF NetInv
<1>3. TabFits(replica[c], c) BY <1>2 DEF ClientTypes, TabFits
<1>4. reply[c] \in Replies \ {NoReply} BY <1>1, <1>2 DEF NetTypes, NoReply
<1>5. reply[c].rows \in Seq(RowSet) /\ reply[c].end \in Nat BY <1>4 DEF Replies
<1>6. TabFits(rep, c) BY <1>3, <1>5, AppliedFits
<1> HIDE DEF rep
<1>7. queue' \in [Clients -> Seq(UpdateSet)] BY <1>1, <1>2 DEF ClientTypes
<1>8. ClientTypes' BY <1>1, <1>2, <1>6, <1>7, TabsKept
<1>9. NetTypes'
  <2>1. cursor' \in [Clients -> Nat] BY <1>1, <1>2, <1>5 DEF NetTypes
  <2>2. spent' \in Budgets
    <3> spent \in Budgets BY <1>2 DEF NetTypes
    <3> QED BY <1>1, BudgetKept
  <2>3. flight' \in [Clients -> Flights] BY <1>1, <1>2 DEF NetTypes, Flights
  <2>4. reply' \in [Clients -> Replies] BY <1>1, <1>2 DEF NetTypes, Replies
  <2> QED BY <1>1, <1>2, <2>1, <2>2, <2>3, <2>4 DEF NetTypes
<1>10. EngineInv' /\ Future' = Future BY <1>1, <1>2, EngineSame
<1>11. ~OfIngest(c) /\ \A q \in inbox : q.client = c => ~Live(q) BY <1>1, <1>2 DEF OneRequest
<1>12. /\ attempt' = attempt /\ ingest' = ingest /\ inbox' = inbox
       /\ ~reply'[c].here
       /\ \A d \in Clients : d # c =>
            reply'[d] = reply[d] /\ flight'[d] = flight[d] /\ cursor'[d] = cursor[d]
  BY <1>1, <1>2 DEF engineVars, NetTypes, NoReply
<1>13. \A q \in inbox : q.client \in Clients /\ (Live(q)' <=> Live(q))
  BY <1>2, <1>12 DEF Live, NetTypes, RequestSet
<1>14. \A q \in inbox' :
         /\ q.attempt <= attempt'[q.client] /\ (q.ingested => Live(q)')
         /\ Live(q)' => /\ flight'[q.client].busy /\ ~reply'[q.client].here
                        /\ q.cursor = cursor'[q.client]
  <2> TAKE q \in inbox'
  <2>1. CASE q.client = c BY <1>2, <1>11, <1>12, <1>13, <2>1 DEF OneRequest
  <2>2. CASE q.client # c BY <1>2, <1>12, <1>13, <2>2 DEF OneRequest
  <2> QED BY <2>1, <2>2
<1>15. \A q, s \in inbox' : Live(q)' /\ Live(s)' /\ q.client = s.client => q = s
  BY <1>2, <1>12, <1>13 DEF OneRequest
<1>16. \A d \in Clients : OfIngest(d)' =>
         /\ flight'[d].busy /\ ~reply'[d].here /\ ingest'.cursor = cursor'[d]
         /\ \A q \in inbox' : q.client = d => ~Live(q)'
  <2> TAKE d \in Clients
  <2> HAVE OfIngest(d)'
  <2>1. OfIngest(d) BY <1>12 DEF OfIngest
  <2>2. d # c BY <1>11, <2>1
  <2> QED BY <1>2, <1>12, <1>13, <2>1, <2>2 DEF OneRequest
<1>17. \A d \in Clients : reply'[d].here => flight'[d].busy
  BY <1>2, <1>12 DEF OneRequest
<1>18. ingest' # NoIngest => ingest'.attempt <= attempt'[ingest'.client]
  BY <1>2, <1>12 DEF OneRequest
<1>19. OneRequest' BY <1>14, <1>15, <1>16, <1>17, <1>18 DEF OneRequest
<1> QED BY <1>8, <1>9, <1>10, <1>19 DEF NetInv

(* A tab gives its request up: nothing that is still under way is its own  *)
(* any more.                                                               *)
LEMMA GiveUpKeepsNet ==
  ASSUME NetInv, NEW c \in Clients, flight[c].busy, GiveUp(c),
         inbox' \subseteq inbox, \A q \in inbox' : q.client = c => ~q.ingested,
         ingest' \in {ingest, NoIngest}, EngineInv', spent' \in Budgets,
         UNCHANGED <<replica, authored, cursor>>
  PROVE  NetInv'
<1>1. /\ attempt' = [attempt EXCEPT ![c] = attempt[c] + 1]
      /\ flight' = [flight EXCEPT ![c] = Idle] /\ reply' = [reply EXCEPT ![c] = NoReply]
      /\ queue' = [queue EXCEPT ![c] = flight[c].updates \o queue[c]]
  BY DEF GiveUp
<1>2. ClientTypes /\ NetTypes /\ OneRequest /\ EngineInv BY DEF NetInv
<1>3. flight[c].updates \o queue[c] \in Seq(UpdateSet)
  <2>1. flight[c] \in Flights \ {Idle} BY <1>2 DEF NetTypes, Idle
  <2>2. flight[c].updates \in Seq(UpdateSet) BY <2>1 DEF Flights
  <2>3. queue[c] \in Seq(UpdateSet) BY <1>2 DEF ClientTypes
  <2> QED BY <2>2, <2>3, ConcatProperties, Zenon
<1>4. ClientTypes' BY <1>1, <1>2, <1>3 DEF ClientTypes
<1>5. NetTypes'
  <2>1. attempt' \in [Clients -> Nat] BY <1>1, <1>2 DEF NetTypes
  <2>2. flight' \in [Clients -> Flights] BY <1>1, <1>2 DEF NetTypes, Flights
  <2>3. reply' \in [Clients -> Replies] BY <1>1, <1>2 DEF NetTypes, Replies
  <2> QED BY <1>2, <2>1, <2>2, <2>3 DEF NetTypes
<1>6. /\ attempt'[c] = attempt[c] + 1 /\ attempt[c] \in Nat /\ ~reply'[c].here
      /\ \A d \in Clients : d # c =>
           reply'[d] = reply[d] /\ flight'[d] = flight[d] /\ attempt'[d] = attempt[d]
  BY <1>1, <1>2 DEF NetTypes, NoReply
<1>7. \A q \in inbox' : /\ q \in inbox /\ q.client \in Clients /\ q.attempt \in Nat
                        /\ q.client # c => (Live(q)' <=> Live(q))
                        /\ q.client = c => ~Live(q)'
  <2> TAKE q \in inbox'
  <2>1. q \in inbox /\ q.client \in Clients /\ q.attempt \in Nat
    BY <1>2 DEF NetTypes, RequestSet
  <2>2. q.client # c => (Live(q)' <=> Live(q)) BY <1>6, <2>1 DEF Live
  <2>3. q.client = c => ~Live(q)'
    <3> HAVE q.client = c
    <3>1. q.attempt <= attempt[c] BY <1>2, <2>1 DEF OneRequest
    <3> QED BY <1>6, <2>1, <3>1 DEF Live
  <2> QED BY <2>1, <2>2, <2>3
<1>8. \A q \in inbox' :
         /\ q.attempt <= attempt'[q.client] /\ (q.ingested => Live(q)')
         /\ Live(q)' => /\ flight'[q.client].busy /\ ~reply'[q.client].here
                        /\ q.cursor = cursor'[q.client]
  <2> TAKE q \in inbox'
  <2>1. CASE q.client = c
    <3>1. q.attempt <= attempt[c] BY <1>2, <1>7, <2>1 DEF OneRequest
    <3>2. q.attempt <= attempt'[c] BY <1>6, <1>7, <3>1
    <3> QED BY <1>7, <2>1, <3>2
  <2>2. CASE q.client # c BY <1>2, <1>6, <1>7, <2>2 DEF OneRequest
  <2> QED BY <2>1, <2>2
<1>9. \A q, s \in inbox' : Live(q)' /\ Live(s)' /\ q.client = s.client => q = s
  BY <1>2, <1>7 DEF OneRequest
<1>10. ingest' # NoIngest => ingest' = ingest /\ ingest.client \in Clients /\ ingest.attempt \in Nat
                             /\ ingest.attempt <= attempt[ingest.client]
  BY <1>2 DEF EngineInv, IngestOK, Ingests, OneRequest
<1>11. ingest' # NoIngest => ingest'.attempt <= attempt'[ingest'.client]
  <2> HAVE ingest' # NoIngest
  <2>1. CASE ingest.client = c BY <1>6, <1>10, <2>1
  <2>2. CASE ingest.client # c BY <1>6, <1>10, <2>2
  <2> QED BY <2>1, <2>2
<1>12. \A d \in Clients : OfIngest(d)' =>
         /\ flight'[d].busy /\ ~reply'[d].here /\ ingest'.cursor = cursor'[d]
         /\ \A q \in inbox' : q.client = d => ~Live(q)'
  <2> TAKE d \in Clients
  <2> HAVE OfIngest(d)'
  <2>1. ingest' # NoIngest /\ ingest.client = d /\ ingest.attempt = attempt'[d]
    BY <1>10 DEF OfIngest
  <2>2. d # c BY <1>6, <1>10, <2>1
  <2>3. OfIngest(d) BY <1>6, <1>10, <2>1, <2>2 DEF OfIngest
  <2> QED BY <1>2, <1>6, <1>7, <1>10, <2>1, <2>2, <2>3 DEF OneRequest
<1>13. \A d \in Clients : reply'[d].here => flight'[d].busy
  BY <1>2, <1>6 DEF OneRequest
<1>14. OneRequest' BY <1>8, <1>9, <1>11, <1>12, <1>13 DEF OneRequest
<1> QED BY <1>4, <1>5, <1>14 DEF NetInv

(* handleRequestFailure().                                                 *)
LEMMA FailureKeepsNet ==
  ASSUME NetInv, NEW c \in Clients, RequestFails(c)
  PROVE  NetInv' /\ Future' = Future
<1>1. /\ flight[c].busy /\ GiveUp(c) /\ inbox' \subseteq inbox
      /\ \A q \in inbox' : q.client = c => ~q.ingested
      /\ spent' = [spent EXCEPT !.failures = spent.failures + 1]
      /\ UNCHANGED <<engineVars, replica, authored, cursor>>
  BY DEF RequestFails
<1>2. EngineInv' /\ Future' = Future /\ ingest' = ingest
  BY <1>1, EngineSame DEF NetInv, engineVars
<1>3. spent' \in Budgets
  <2> spent \in Budgets BY DEF NetInv, NetTypes
  <2> QED BY <1>1, BudgetKept
<1> QED BY <1>1, <1>2, <1>3, GiveUpKeepsNet

(* The worker dies.                                                        *)
LEMMA DeathKeepsNet ==
  ASSUME NetInv, ServerDies
  PROVE  NetInv' /\ Future' = rows
<1> DEFINE c == ingest.client
<1>1. /\ IngestDies /\ spent' = [spent EXCEPT !.deaths = spent.deaths + 1]
      /\ IF ingest.attempt = attempt[c] THEN GiveUp(c)
         ELSE UNCHANGED <<attempt, flight, reply, queue>>
      /\ UNCHANGED <<replica, authored, cursor, inbox>>
  BY DEF ServerDies
<1>2. ClientTypes /\ NetTypes /\ OneRequest /\ EngineInv BY DEF NetInv
<1>3. EngineInv' /\ Future' = rows /\ ingest # NoIngest /\ ingest' = NoIngest
  BY <1>1, <1>2, DeathKeepsInv DEF IngestDies
<1>4. c \in Clients BY <1>2, <1>3 DEF EngineInv, IngestOK, Ingests
<1>5. spent' \in Budgets
  <2> spent \in Budgets BY <1>2 DEF NetTypes
  <2> QED BY <1>1, BudgetKept
<1>6. CASE ingest.attempt = attempt[c]
  <2>1. OfIngest(c) BY <1>3, <1>6 DEF OfIngest
  <2>2. flight[c].busy /\ \A q \in inbox : q.client = c => ~q.ingested
    BY <1>2, <1>4, <2>1 DEF OneRequest
  <2>3. GiveUp(c) /\ inbox' \subseteq inbox /\ \A q \in inbox' : q.client = c => ~q.ingested
    BY <1>1, <1>6, <2>2
  <2> HIDE DEF c
  <2>4. ingest' \in {ingest, NoIngest} /\ UNCHANGED <<replica, authored, cursor>> BY <1>1, <1>3
  <2> QED BY <1>3, <1>4, <1>5, <2>2, <2>3, <2>4, GiveUpKeepsNet
<1>7. CASE ingest.attempt # attempt[c]
  <2>1. UNCHANGED <<attempt, flight, reply, queue>> BY <1>1, <1>7
  <2>2. ClientTypes' BY <1>1, <1>2, <2>1 DEF ClientTypes
  <2>3. NetTypes' BY <1>1, <1>2, <1>5, <2>1 DEF NetTypes
  <2>4. OneRequest' BY <1>1, <1>2, <1>3, <2>1 DEF OneRequest, OfIngest, Live
  <2> QED BY <1>3, <2>2, <2>3, <2>4 DEF NetInv
<1> QED BY <1>6, <1>7

(* Every step keeps the invariant of the network.                          *)
LEMMA NetStep == NetInv /\ [Next]_vars => NetInv'
<1> SUFFICES ASSUME NetInv, [Next]_vars PROVE NetInv' OBVIOUS
<1>1. CASE UNCHANGED vars
  <2>1. UNCHANGED <<engineVars, netVars>> /\ spent' \in Budgets
    BY <1>1 DEF vars, NetInv, NetTypes
  <2>2. ClientTypes' BY <1>1, ClientSame DEF vars, NetInv
  <2> QED BY <2>1, <2>2, EditorKeepsNet
<1>2. ASSUME NEW c \in Clients, NEW size \in UnitSizes, NEW lag \in 0..MaxLag,
             Author(c, size, lag)
      PROVE  NetInv'
  BY <1>2, AuthorKeepsNet
<1>3. ASSUME NEW c \in Clients, NEW txn \in 1..MaxEdits, CancelPending(c, txn)
      PROVE  NetInv'
  BY <1>3, CancelKeepsNet
<1>4. ASSUME NEW c \in Clients, NEW i \in Ids, ResolveProposal(c, i) PROVE NetInv'
  BY <1>4, ResolveKeepsNet
<1>5. ASSUME NEW c \in Clients, Send(c) PROVE NetInv' BY <1>5, SendKeepsNet
<1>6. ASSUME NEW c \in Clients, Receive(c) PROVE NetInv' BY <1>6, ReceiveKeepsNet
<1>7. ASSUME NEW c \in Clients, RequestFails(c) PROVE NetInv' BY <1>7, FailureKeepsNet
<1>8. ASSUME NEW r \in inbox, ServerIngest(r) PROVE NetInv' BY <1>8, IngestKeepsNet
<1>9. ASSUME NEW r \in inbox, ServerAnswer(r) PROVE NetInv' BY <1>9, AnswerKeepsNet
<1>10. CASE ServerStep BY <1>10, StepKeepsNet
<1>11. CASE ServerEnd BY <1>11, EndKeepsNet
<1>12. CASE ServerDies BY <1>12, DeathKeepsNet
<1> QED BY <1>1, <1>2, <1>3, <1>4, <1>5, <1>6, <1>7, <1>8, <1>9, <1>10, <1>11, <1>12 DEF Next

(* The server's state and the requests are sound in every reachable state. *)
THEOREM NetworkInvariant == Spec => []NetInv
<1>1. Init => NetInv BY NetInit
<1> QED BY <1>1, NetStep, PTL DEF Spec

-----------------------------------------------------------------------------
(* The whole log is the sequence of the entries in the table.              *)
LEMMA WholeLogIs ==
  ASSUME TableOK
  PROVE  WholeLog = IntentsOf(rows) /\ WholeLog \in Seq(Entries)
<1>1. WholeLog = IntentsOf(rows) BY DEF WholeLog, IntentsOf
<1>2. rows \in Seq(RowSet) BY DEF TableOK
<1> QED BY <1>1, <1>2, IntentsOfType

(* load_room(): whatever was trimmed and wherever an ingest died, the      *)
(* state rebuilt from the retained rows is the one the whole history gives.*)
THEOREM LoadIsTheHistory == Spec => []LoadIsReplay
<1>1. NetInv => LoadIsReplay
  <2> SUFFICES ASSUME NetInv PROVE LoadIsReplay OBVIOUS
  <2>1. TableOK /\ SnapshotsReplay BY DEF NetInv, EngineInv
  <2>2. HeadSeq = Len(IntentsOf(rows)) /\ HeadDoc = EffectOf(IntentsOf(rows))
    BY <2>1, LoadReplays
  <2>3. WholeLog = IntentsOf(rows) /\ WholeLog \in Seq(Entries) BY <2>1, WholeLogIs
  <2>4. SubSeq(WholeLog, 1, Len(WholeLog)) = WholeLog BY <2>3, SubSeqFull, Zenon
  <2> QED BY <2>2, <2>3, <2>4 DEF LoadIsReplay, DocAt
<1> QED BY <1>1, NetworkInvariant, PTL

(* The dispositions: what the server has answered with "applied" is in the *)
(* log and what it has answered with "escalated" was parked, after every   *)
(* failed INSERT, dead worker and trim.                                    *)
THEOREM AcksAreBacked == Spec => []AckIsBacked
<1>1. NetInv => AckIsBacked
  <2> SUFFICES ASSUME NetInv, NEW v \in decided
               PROVE  /\ v[2] = "applied" => v[1] \in Logged
                      /\ v[2] = "escalated" => WasParked(v[1])
    BY DEF AckIsBacked
  <2>1. TableOK /\ Backed(decided, rows) BY DEF NetInv, EngineInv
  <2>2. rows \in Seq(RowSet) /\ DOMAIN rows = 1..Len(rows)
    <3> rows \in Seq(RowSet) BY <2>1 DEF TableOK
    <3> QED BY LenProperties, Zenon
  <2>3. ASSUME v[2] = "applied" PROVE v[1] \in Logged
    <3>1. PICK k \in 1..Len(rows) : rows[k].kind = "intent" /\ rows[k].id = v[1]
      BY <2>1, <2>3 DEF Backed
    <3>2. PICK p : /\ p \in [1..Len(IntentsOf(rows)) -> {m \in 1..Len(rows) : rows[m].kind = "intent"}]
                   /\ \A i \in 1..Len(IntentsOf(rows)) : IntentsOf(rows)[i] = rows[p[i]]
                   /\ \A i, j \in 1..Len(IntentsOf(rows)) : i < j => p[i] < p[j]
                   /\ \A m \in 1..Len(rows) : rows[m].kind = "intent" =>
                        \E i \in 1..Len(IntentsOf(rows)) : p[i] = m
      BY <2>2, IntentsOfPlaces, Zenon
    <3>3. PICK i \in 1..Len(IntentsOf(rows)) : p[i] = k BY <3>1, <3>2
    <3>4. IntentsOf(rows)[i].id = v[1] BY <3>1, <3>2, <3>3
    <3>5. WholeLog = IntentsOf(rows) /\ WholeLog \in Seq(Entries) BY <2>1, WholeLogIs
    <3>6. DOMAIN WholeLog = 1..Len(WholeLog) BY <3>5, LenProperties, Zenon
    <3> QED BY <3>3, <3>4, <3>5, <3>6 DEF Logged
  <2>4. ASSUME v[2] = "escalated" PROVE WasParked(v[1])
    BY <2>1, <2>2, <2>4 DEF Backed, WasParked
  <2> QED BY <2>3, <2>4
<1> QED BY <1>1, NetworkInvariant, PTL

-----------------------------------------------------------------------------
(* Prefixes of the table, and replicas that are canonical up to a row.     *)

(* The entries among the first rows are the first entries.                 *)
LEMMA PosIs ==
  ASSUME NEW s \in Seq(RowSet), NEW k \in 0..Len(s)
  PROVE  /\ Pos(s, k) \in Nat /\ Pos(s, k) <= Len(IntentsOf(s))
         /\ IntentsOf(SubSeq(s, 1, k)) = SubSeq(IntentsOf(s), 1, Pos(s, k))
<1> DEFINE L == IntentsOf(s)
           A == SubSeq(s, 1, k)
           V == IntentsOf(A)
<1>0. Len(s) \in Nat BY LenProperties, Zenon
<1>1. A \in Seq(RowSet) /\ Len(A) = k BY Prefix
<1>2. L \in Seq(Entries) BY IntentsOfType
<1>3. V \in Seq(Entries) BY <1>1, IntentsOfType
<1>4. Len(V) \in Nat /\ Len(L) \in Nat BY <1>2, <1>3, LenProperties, Zenon
<1>5. \E X \in Seq(Entries) : L = V \o X
  <2>1. CASE k = 0
    <3>1. \A i \in 1..Len(A) : A[i].kind # "intent" BY <1>1, <2>1
    <3>2. V = <<>> BY <1>1, <3>1, NoIntents
    <3>3. L = <<>> \o L BY <1>2, ConcatEmptySeq, Zenon
    <3> QED BY <1>2, <3>2, <3>3
  <2>2. CASE k # 0
    <3>1. k \in 1..Len(s) BY <1>0, <2>2
    <3> DEFINE B == SubSeq(s, k + 1, Len(s))
    <3>2. B \in Seq(RowSet) /\ s = A \o B BY <3>1, SplitAt
    <3> HIDE DEF A, B
    <3>3. L = V \o IntentsOf(B) BY <1>1, <3>2, IntentsOfConcat
    <3>4. IntentsOf(B) \in Seq(Entries) BY <3>2, IntentsOfType
    <3> QED BY <3>3, <3>4
  <2> QED BY <2>1, <2>2
<1>6. PICK X \in Seq(Entries) : L = V \o X BY <1>5
<1> HIDE DEF L, V
<1>7. Len(V) <= Len(L)
  <2> Len(V \o X) = Len(V) + Len(X) BY <1>3, ConcatProperties, Zenon
  <2> Len(X) \in Nat BY LenProperties, Zenon
  <2> QED BY <1>4, <1>6
<1>8. SubSeq(L, 1, Len(V)) = V
  <2>1. Len(V) \in 0..Len(V) BY <1>4
  <2>2. SubSeq(V \o X, 1, Len(V)) = SubSeq(V, 1, Len(V)) BY <1>3, <2>1, PrefixOfConcat, Zenon
  <2>3. SubSeq(V, 1, Len(V)) = V BY <1>3, SubSeqFull, Zenon
  <2> QED BY <1>6, <2>2, <2>3
<1> QED BY <1>4, <1>7, <1>8 DEF Pos, V, L, A

(* More rows have no fewer entries.                                        *)
LEMMA PosMonotone ==
  ASSUME NEW s \in Seq(RowSet), NEW k \in 0..Len(s), NEW j \in 0..k
  PROVE  Pos(s, j) <= Pos(s, k)
<1> DEFINE t == SubSeq(s, 1, k)
<1>1. t \in Seq(RowSet) /\ Len(t) = k BY Prefix
<1>2. SubSeq(t, 1, j) = SubSeq(s, 1, j) BY PrefixOfPrefix
<1> HIDE DEF t
<1>3. j \in 0..Len(t) BY <1>1
<1>4. Pos(t, j) <= Len(IntentsOf(t)) BY <1>1, <1>3, PosIs
<1> QED BY <1>2, <1>4 DEF Pos, t

(* An entry is one more; no other row is.                                  *)
LEMMA PosStep ==
  ASSUME NEW s \in Seq(RowSet), NEW k \in 1..Len(s)
  PROVE  /\ s[k].kind = "intent" =>
              Pos(s, k) = Pos(s, k - 1) + 1 /\ IntentsOf(s)[Pos(s, k)] = s[k]
         /\ s[k].kind # "intent" => Pos(s, k) = Pos(s, k - 1)
<1> DEFINE A == SubSeq(s, 1, k - 1)
           B == SubSeq(s, 1, k)
<1>0. Len(s) \in Nat BY LenProperties, Zenon
<1>1. k - 1 \in 0..Len(s) /\ k \in 0..Len(s) BY <1>0
<1>2. A \in Seq(RowSet) /\ Len(A) = k - 1 /\ \A i \in 1..(k - 1) : A[i] = s[i] BY <1>1, Prefix
<1>3. B \in Seq(RowSet) /\ Len(B) = k /\ \A i \in 1..k : B[i] = s[i] BY <1>1, Prefix
<1>4. s[k] \in RowSet BY ElementOfSeq, Zenon
<1>5. B = Append(A, s[k])
  <2>1. /\ Append(A, s[k]) \in Seq(RowSet) /\ Len(Append(A, s[k])) = Len(A) + 1
        /\ \A i \in 1..Len(A) : Append(A, s[k])[i] = A[i]
        /\ Append(A, s[k])[Len(A) + 1] = s[k]
    BY <1>2, <1>4, AppendProperties
  <2> HIDE DEF A, B
  <2>2. \A i \in 1..k : B[i] = Append(A, s[k])[i]
    <3> TAKE i \in 1..k
    <3>1. CASE i = k BY <1>2, <1>3, <2>1, <3>1
    <3>2. CASE i # k
      <4> i \in 1..(k - 1) BY <3>2
      <4> QED BY <1>2, <1>3, <2>1
    <3> QED BY <3>1, <3>2
  <2>3. Len(B) = Len(Append(A, s[k])) BY <1>2, <1>3, <2>1
  <2> QED BY <1>3, <2>1, <2>2, <2>3, SeqEqual
<1>6. IntentsOf(B) = IF s[k].kind = "intent" THEN Append(IntentsOf(A), s[k]) ELSE IntentsOf(A)
  <2> HIDE DEF A, B
  <2> QED BY <1>2, <1>4, <1>5, IntentsOfAppend
<1>7. IntentsOf(A) \in Seq(Entries) BY <1>2, IntentsOfType
<1>8. Pos(s, k - 1) = Len(IntentsOf(A)) /\ Pos(s, k) = Len(IntentsOf(B)) BY DEF Pos
<1> HIDE DEF A, B
<1>9. CASE s[k].kind = "intent"
  <2>1. s[k] \in Entries BY <1>4, <1>9 DEF RowSet
  <2>2. /\ Len(Append(IntentsOf(A), s[k])) = Len(IntentsOf(A)) + 1
        /\ Append(IntentsOf(A), s[k])[Len(IntentsOf(A)) + 1] = s[k]
    BY <1>7, <2>1, AppendProperties, SMTT(30)
  <2>3. Pos(s, k) = Pos(s, k - 1) + 1 /\ IntentsOf(B)[Pos(s, k)] = s[k]
    BY <1>6, <1>8, <1>9, <2>2
  <2>4. /\ Pos(s, k) \in Nat /\ Pos(s, k) <= Len(IntentsOf(s))
        /\ IntentsOf(B) = SubSeq(IntentsOf(s), 1, Pos(s, k)) /\ Pos(s, k - 1) \in Nat
    BY <1>1, PosIs DEF B
  <2>5. IntentsOf(s) \in Seq(Entries) BY IntentsOfType
  <2>6. Len(IntentsOf(s)) \in Nat BY <2>5, LenProperties, Zenon
  <2>7. Pos(s, k) \in 0..Len(IntentsOf(s)) /\ Pos(s, k) \in 1..Pos(s, k) BY <2>3, <2>4, <2>6
  <2>8. SubSeq(IntentsOf(s), 1, Pos(s, k))[Pos(s, k)] = IntentsOf(s)[Pos(s, k)]
    BY <2>5, <2>7, Prefix, Zenon
  <2> QED BY <1>9, <2>3, <2>4, <2>8
<1>10. CASE s[k].kind # "intent" BY <1>6, <1>8, <1>10
<1> QED BY <1>9, <1>10

(* One more row changes no position.                                       *)
LEMMA PosAppend ==
  ASSUME NEW s \in Seq(RowSet), NEW r \in RowSet, NEW k \in 0..Len(s)
  PROVE  Pos(Append(s, r), k) = Pos(s, k)
<1>0. Len(s) \in Nat BY LenProperties, Zenon
<1>1. /\ Append(s, r) \in Seq(RowSet) /\ Len(Append(s, r)) = Len(s) + 1
      /\ \A i \in 1..Len(s) : Append(s, r)[i] = s[i]
  BY AppendProperties
<1>2. k \in 0..Len(Append(s, r)) /\ \A i \in 1..k : Append(s, r)[i] = s[i] BY <1>0, <1>1
<1>3. SubSeq(Append(s, r), 1, k) = SubSeq(s, 1, k) BY <1>1, <1>2, SamePrefix, Zenon
<1> QED BY <1>3 DEF Pos

(* No rows have no entries, all rows have all.                             *)
LEMMA PosEnds ==
  ASSUME NEW s \in Seq(RowSet)
  PROVE  Pos(s, 0) = 0 /\ Pos(s, Len(s)) = Len(IntentsOf(s))
<1>0. Len(s) \in Nat BY LenProperties, Zenon
<1>1. SubSeq(s, 1, Len(s)) = s BY SubSeqFull, Zenon
<1>2. SubSeq(s, 1, 0) = <<>> BY SubSeqEmpty
<1>3. <<>> \in Seq(RowSet) /\ Len(<<>>) = 0 BY EmptySeq
<1>4. IntentsOf(<<>>) = <<>>
  <2>1. ASSUME NEW e \in Seq(RowSet), Len(e) = 0 PROVE IntentsOf(e) = <<>>
    <3> \A i \in 1..Len(e) : e[i].kind # "intent" BY <2>1
    <3> QED BY NoIntents
  <2> QED BY <1>3, <2>1
<1> QED BY <1>1, <1>2, <1>3, <1>4 DEF Pos

(* The document after one more entry.                                      *)
LEMMA DocStep ==
  ASSUME NEW L \in Seq(Entries), NEW n \in 1..Len(L)
  PROVE  EffectOf(SubSeq(L, 1, n)) =
           IF L[n].noop THEN EffectOf(SubSeq(L, 1, n - 1))
           ELSE Append(EffectOf(SubSeq(L, 1, n - 1)), L[n].id)
<1> DEFINE A == SubSeq(L, 1, n - 1)
           B == SubSeq(L, 1, n)
<1>0. Len(L) \in Nat BY LenProperties, Zenon
<1>1. n - 1 \in 0..Len(L) /\ n \in 0..Len(L) BY <1>0
<1>2. A \in Seq(Entries) /\ Len(A) = n - 1 /\ \A i \in 1..(n - 1) : A[i] = L[i] BY <1>1, Prefix
<1>3. B \in Seq(Entries) /\ Len(B) = n /\ \A i \in 1..n : B[i] = L[i] BY <1>1, Prefix
<1>4. L[n] \in Entries BY ElementOfSeq, Zenon
<1>5. <<L[n]>> \in Seq(Entries) /\ Len(<<L[n]>>) = 1 /\ <<L[n]>>[1] = L[n] BY <1>4
<1> HIDE DEF A, B
<1>6. B = A \o <<L[n]>>
  <2>1. /\ A \o <<L[n]>> \in Seq(Entries) /\ Len(A \o <<L[n]>>) = Len(A) + Len(<<L[n]>>)
        /\ \A i \in 1..Len(A) + Len(<<L[n]>>) :
             (A \o <<L[n]>>)[i] = IF i <= Len(A) THEN A[i] ELSE <<L[n]>>[i - Len(A)]
    BY <1>2, <1>5, ConcatProperties, Zenon
  <2>2. \A i \in 1..n : B[i] = (A \o <<L[n]>>)[i]
    <3> TAKE i \in 1..n
    <3>1. CASE i = n
      <4> i - Len(A) = 1 /\ ~(i <= Len(A)) /\ i \in 1..Len(A) + Len(<<L[n]>>) BY <1>2, <1>5, <3>1
      <4> QED BY <1>3, <1>5, <2>1, <3>1
    <3>2. CASE i # n
      <4> i <= Len(A) /\ i \in 1..(n - 1) /\ i \in 1..Len(A) + Len(<<L[n]>>) BY <1>2, <1>5, <3>2
      <4> QED BY <1>2, <1>3, <2>1
    <3> QED BY <3>1, <3>2
  <2>3. Len(B) = Len(A \o <<L[n]>>) BY <1>2, <1>3, <1>5, <2>1
  <2> QED BY <1>3, <2>1, <2>2, <2>3, SeqEqual
<1>7. EffectOf(B) = EffectOf(A) \o EffectOf(<<L[n]>>) BY <1>2, <1>5, <1>6, EffectOfConcat
<1>8. EffectOf(A) \in Seq(Ids) BY <1>2, EffectOfType
<1>9. L[n].id \in Ids BY <1>4 DEF Entries
<1>10. EffectOf(<<L[n]>>) = IF L[n].noop THEN <<>> ELSE <<L[n].id>>
  <2> DEFINE e == <<L[n]>>
             K == Effective(e)
  <2>1. EffectOf(e) = [k \in 1..Len(Kept(e, K)) |-> Kept(e, K)[k].id] BY EffectOfIsKept
  <2>2. Kept(e, K) = IF 1 \in K THEN e ELSE <<>>
    <3> HIDE DEF K
    <3> QED BY KeptOne
  <2>3. 1 \in K <=> ~L[n].noop BY <1>5 DEF Effective
  <2>4. CASE L[n].noop
    <3> Kept(e, K) = <<>> BY <2>2, <2>3, <2>4
    <3> QED BY <2>1, <2>4
  <2>5. CASE ~L[n].noop
    <3>1. Kept(e, K) = e BY <2>2, <2>3, <2>5
    <3>2. EffectOf(e) = [k \in 1..1 |-> e[k].id] BY <1>5, <2>1, <3>1
    <3>3. [k \in 1..1 |-> e[k].id] = <<L[n].id>> OBVIOUS
    <3> QED BY <2>5, <3>2, <3>3
  <2> QED BY <2>4, <2>5
<1>11. CASE L[n].noop
  <2> EffectOf(A) \o <<>> = EffectOf(A) BY <1>8, ConcatEmptySeq, Zenon
  <2> QED BY <1>7, <1>10, <1>11 DEF A, B
<1>12. CASE ~L[n].noop
  <2> Append(EffectOf(A), L[n].id) = EffectOf(A) \o <<L[n].id>> BY <1>8, <1>9, AppendIsConcat
  <2> QED BY <1>7, <1>10, <1>12 DEF A, B
<1> QED BY <1>11, <1>12

-----------------------------------------------------------------------------
(* The replicas.                                                           *)

CheckpointsReplay(s) ==
  \A k \in 1..Len(s) : s[k].kind = "snapshot" =>
    s[k].seq = Pos(s, k) /\ s[k].doc = EffectOf(SubSeq(IntentsOf(s), 1, Pos(s, k)))

(* The checkpoint rows of the table do.                                    *)
LEMMA TableReplays ==
  ASSUME TableOK, SnapshotsReplay PROVE CheckpointsReplay(rows)
<1>1. rows \in Seq(RowSet) BY DEF TableOK
<1>2. Len(rows) \in Nat BY <1>1, LenProperties, Zenon
<1> SUFFICES ASSUME NEW k \in 1..Len(rows), rows[k].kind = "snapshot"
             PROVE  /\ rows[k].seq = Pos(rows, k)
                    /\ rows[k].doc = EffectOf(SubSeq(IntentsOf(rows), 1, Pos(rows, k)))
  BY DEF CheckpointsReplay
<1>3. k \in 0..Len(rows) BY <1>2
<1>4. IntentsOf(SubSeq(rows, 1, k)) = SubSeq(IntentsOf(rows), 1, Pos(rows, k))
  BY <1>1, <1>3, PosIs
<1>5. /\ rows[k].seq = Len(IntentsOf(SubSeq(rows, 1, k)))
      /\ rows[k].doc = EffectOf(IntentsOf(SubSeq(rows, 1, k)))
  BY DEF SnapshotsReplay
<1> QED BY <1>4, <1>5 DEF Pos

(* It has every entry of the first k rows, and remembers each later one.   *)
Behind(rep, s, k) ==
  /\ Canonical(rep, s) /\ rep.deferred = <<>>
  /\ rep.boot <= Pos(s, k) /\ Pos(s, k) <= rep.seq

(* The next row, or one it has already, makes it neither skip nor repeat.  *)
LEMMA CatchUp ==
  ASSUME NEW s \in Seq(RowSet), CheckpointsReplay(s), Distinct(IntentsOf(s)),
         NEW k \in 1..Len(s), NEW rep, Behind(rep, s, k - 1)
  PROVE  /\ Behind(ReceiveUpdate(rep, s[k]), s, k)
         /\ ReceiveUpdate(rep, s[k]).boot = rep.boot
         /\ rep.seq <= ReceiveUpdate(rep, s[k]).seq
         /\ rep.outbox = <<>> => ReceiveUpdate(rep, s[k]).outbox = <<>>
<1> DEFINE L == IntentsOf(s)
           row == s[k]
           rep2 == ReceiveUpdate(rep, row)
           Fine(r) == /\ Behind(r, s, k) /\ r.boot = rep.boot /\ rep.seq <= r.seq
                      /\ rep.outbox = <<>> => r.outbox = <<>>
<1> SUFFICES Fine(rep2) OBVIOUS
<1>0. Len(s) \in Nat BY LenProperties, Zenon
<1>1. k - 1 \in 0..Len(s) /\ k \in 0..Len(s) BY <1>0
<1>2. /\ Pos(s, k - 1) \in Nat /\ Pos(s, k) \in Nat /\ Pos(s, k) <= Len(L)
  BY <1>1, PosIs
<1>3. L \in Seq(Entries) BY IntentsOfType
<1>4. Len(L) \in Nat BY <1>3, LenProperties, Zenon
<1>5. row \in RowSet BY ElementOfSeq, Zenon
<1>6. /\ rep \in Replicas /\ rep.live /\ rep.deferred = <<>>
      /\ rep.boot <= rep.seq /\ rep.seq <= Len(L)
      /\ rep.doc = EffectOf(SubSeq(L, 1, rep.seq))
      /\ rep.applied = {L[i].id : i \in (rep.boot + 1)..rep.seq}
      /\ rep.boot <= Pos(s, k - 1) /\ Pos(s, k - 1) <= rep.seq
  BY DEF Behind, Canonical
<1>7. rep.boot \in Nat /\ rep.seq \in Nat /\ rep.outbox \in Seq(IntentUpdates)
  BY <1>6 DEF Replicas
<1>8. rep2 \in Replicas BY <1>5, <1>6, ReceiveUpdateType
<1>9. /\ row.kind = "intent" => Pos(s, k) = Pos(s, k - 1) + 1 /\ L[Pos(s, k)] = row
      /\ row.kind # "intent" => Pos(s, k) = Pos(s, k - 1)
  BY PosStep
<1>10. Distinct(L) OBVIOUS
<1> HIDE DEF L
<1>11. ASSUME rep2.live = rep.live, rep2.boot = rep.boot, rep2.seq = rep.seq, rep2.doc = rep.doc,
              rep2.applied = rep.applied, rep2.deferred = rep.deferred,
              Pos(s, k) <= rep.seq, rep.outbox = <<>> => rep2.outbox = <<>>
       PROVE  Fine(rep2)
  <2>1. Canonical(rep2, s) BY <1>6, <1>8, <1>11 DEF Canonical, L
  <2>2. rep2.boot <= Pos(s, k) BY <1>2, <1>6, <1>7, <1>9, <1>11
  <2> QED BY <1>6, <1>7, <1>11, <2>1, <2>2 DEF Behind
<1>12. \A ids : rep.outbox = <<>> => SettlePending(rep.outbox, ids) = <<>>
  BY <1>7, SettleIs
<1>13. CASE row.kind = "snapshot"
  <2>1. row.seq = Pos(s, k) BY <1>13 DEF CheckpointsReplay
  <2>2. ~(row.seq > rep.seq) BY <1>2, <1>6, <1>7, <1>9, <1>13, <2>1
  <2>3. rep2 = rep BY <1>6, <1>13, <2>2 DEF ReceiveUpdate, ReceiveSnapshot
  <2>4. Pos(s, k) <= rep.seq BY <1>6, <1>9, <1>13
  <2> HIDE DEF rep2, Fine
  <2> QED BY <1>11, <2>3, <2>4
<1>14. CASE row.kind = "parked"
  <2>1. rep2 = IF row.id \in rep.proposals THEN rep
               ELSE [rep EXCEPT !.outbox = SettlePending(rep.outbox, {row.id}),
                                !.proposals = rep.proposals \cup {row.id}]
    BY <1>6, <1>14 DEF ReceiveUpdate, ReceiveParked
  <2>2. Pos(s, k) <= rep.seq BY <1>6, <1>9, <1>14
  <2>3. \A o, p : LET r == [rep EXCEPT !.outbox = o, !.proposals = p]
                  IN  /\ r.live = rep.live /\ r.boot = rep.boot /\ r.seq = rep.seq
                      /\ r.doc = rep.doc /\ r.applied = rep.applied
                      /\ r.deferred = rep.deferred /\ r.outbox = o
    BY <1>6 DEF Replicas
  <2> HIDE DEF rep2, Fine
  <2> QED BY <1>11, <1>12, <2>1, <2>2, <2>3
<1>15. CASE row.kind = "resolved"
  <2>1. rep2 = [rep EXCEPT !.resolved = rep.resolved \cup {row.id}]
    BY <1>6, <1>15 DEF ReceiveUpdate
  <2>2. Pos(s, k) <= rep.seq BY <1>6, <1>9, <1>15
  <2>3. \A o : LET r == [rep EXCEPT !.resolved = o]
               IN  /\ r.live = rep.live /\ r.boot = rep.boot /\ r.seq = rep.seq
                   /\ r.doc = rep.doc /\ r.applied = rep.applied
                   /\ r.deferred = rep.deferred /\ r.outbox = rep.outbox
    BY <1>6 DEF Replicas
  <2> HIDE DEF rep2, Fine
  <2> QED BY <1>11, <2>1, <2>2, <2>3
<1>16. CASE row.kind = "voided"
  <2>1. rep2 = [rep EXCEPT !.outbox = SettlePending(rep.outbox, {row.id})]
    BY <1>6, <1>16 DEF ReceiveUpdate
  <2>2. Pos(s, k) <= rep.seq BY <1>6, <1>9, <1>16
  <2>3. \A o : LET r == [rep EXCEPT !.outbox = o]
               IN  /\ r.live = rep.live /\ r.boot = rep.boot /\ r.seq = rep.seq
                   /\ r.doc = rep.doc /\ r.applied = rep.applied
                   /\ r.deferred = rep.deferred /\ r.outbox = o
    BY <1>6 DEF Replicas
  <2> HIDE DEF rep2, Fine
  <2> QED BY <1>11, <1>12, <2>1, <2>2, <2>3
<1>17. CASE row.kind = "intent"
  <2> DEFINE n == Pos(s, k)
  <2>1. n = Pos(s, k - 1) + 1 /\ L[n] = row /\ n \in Nat BY <1>2, <1>9, <1>17
  <2>2. rep2 = ReceiveIntent(rep, row) BY <1>6, <1>17 DEF ReceiveUpdate
  <2> HIDE DEF n
  <2>3. n \in 1..Len(L) BY <1>2, <1>4, <2>1 DEF n
  <2>4. CASE n <= rep.seq
    <3>1. n \in (rep.boot + 1)..rep.seq BY <1>2, <1>6, <1>7, <2>1, <2>4
    <3>2. row.id \in rep.applied BY <1>6, <2>1, <3>1
    <3>3. rep2 = rep BY <1>6, <2>2, <3>2 DEF ReceiveIntent
    <3> HIDE DEF rep2, Fine
    <3> QED BY <1>11, <2>4, <3>3 DEF n
  <2>5. CASE ~(n <= rep.seq)
    <3>1. n = rep.seq + 1 BY <1>2, <1>6, <1>7, <2>1, <2>5
    <3>2. row.id \notin rep.applied
      <4> SUFFICES ASSUME NEW i \in (rep.boot + 1)..rep.seq, L[i].id = row.id PROVE FALSE
        BY <1>6
      <4>1. i \in 1..Len(L) BY <1>4, <1>6, <1>7
      <4>2. i = n BY <1>10, <2>1, <2>3, <4>1 DEF Distinct
      <4> QED BY <1>7, <3>1, <4>2
    <3> DEFINE doc == IF row.noop THEN rep.doc ELSE Append(rep.doc, row.id)
               out == SettlePending(rep.outbox, {row.id})
    <3>3. rep2 = [rep EXCEPT !.outbox = out, !.seq = rep.seq + 1, !.doc = doc,
                             !.applied = rep.applied \cup {row.id}]
      BY <1>6, <2>2, <3>2 DEF ReceiveIntent
    <3>4. doc = EffectOf(SubSeq(L, 1, n))
      <4>1. EffectOf(SubSeq(L, 1, n)) =
              IF L[n].noop THEN EffectOf(SubSeq(L, 1, n - 1))
              ELSE Append(EffectOf(SubSeq(L, 1, n - 1)), L[n].id)
        BY <1>3, <2>3, DocStep
      <4>2. n - 1 = rep.seq BY <1>7, <3>1
      <4> QED BY <1>6, <2>1, <4>1, <4>2
    <3>5. rep.applied \cup {row.id} = {L[i].id : i \in (rep.boot + 1)..n}
      <4>1. \A i : i \in (rep.boot + 1)..n <=> i \in (rep.boot + 1)..rep.seq \/ i = n
        BY <1>6, <1>7, <3>1
      <4> QED BY <1>6, <2>1, <4>1
    <3> HIDE DEF doc, out
    <3>6. /\ rep2.outbox = out /\ rep2.seq = n /\ rep2.doc = doc /\ rep2.live = rep.live
          /\ rep2.applied = rep.applied \cup {row.id} /\ rep2.boot = rep.boot
          /\ rep2.deferred = rep.deferred
      BY <1>6, <3>1, <3>3 DEF Replicas
    <3> HIDE DEF rep2
    <3>7. rep2.boot <= rep2.seq /\ rep2.seq <= Len(L) /\ rep2.boot <= n
      BY <1>4, <1>6, <1>7, <2>3, <3>1, <3>6
    <3>8. Canonical(rep2, s) BY <1>6, <1>8, <3>4, <3>5, <3>6, <3>7 DEF Canonical, L
    <3>9. rep.outbox = <<>> => rep2.outbox = <<>> BY <1>12, <3>6 DEF out
    <3>10. Behind(rep2, s, k)
      <4> rep2.boot <= Pos(s, k) /\ Pos(s, k) <= rep2.seq BY <2>1, <3>6, <3>7 DEF n
      <4> QED BY <1>6, <3>6, <3>8 DEF Behind
    <3> QED BY <1>7, <3>1, <3>6, <3>9, <3>10
  <2> QED BY <2>4, <2>5
<1>18. row.kind \in {"snapshot", "intent", "parked", "resolved", "voided"}
  BY <1>5 DEF RowSet, Entries
<1> QED BY <1>13, <1>14, <1>15, <1>16, <1>17, <1>18

(* A replica that may reset starts again from the checkpoint row.          *)
LEMMA ResetTo ==
  ASSUME NEW s \in Seq(RowSet), CheckpointsReplay(s), NEW k \in 1..Len(s),
         s[k].kind = "snapshot", NEW rep \in Replicas, rep.deferred = <<>>,
         ~rep.live \/ (s[k].seq > rep.seq /\ rep.outbox = <<>>)
  PROVE  LET rep2 == ReceiveUpdate(rep, s[k])
         IN  /\ Behind(rep2, s, k) /\ rep2.boot = Pos(s, k) /\ rep2.seq = Pos(s, k)
             /\ rep2.outbox = rep.outbox
<1> DEFINE L == IntentsOf(s)
           row == s[k]
           n == Pos(s, k)
           rep2 == ReceiveUpdate(rep, row)
<1>0. Len(s) \in Nat BY LenProperties, Zenon
<1>1. k \in 0..Len(s) BY <1>0
<1>2. n \in Nat /\ n <= Len(L) BY <1>1, PosIs
<1>3. row \in RowSet BY ElementOfSeq, Zenon
<1>4. rep2 \in Replicas BY <1>3, ReceiveUpdateType
<1>5. row.seq = n /\ row.doc = EffectOf(SubSeq(L, 1, n)) BY DEF CheckpointsReplay
<1> HIDE DEF n, L
<1>6. rep2 = [rep EXCEPT !.live = TRUE, !.boot = row.seq, !.seq = row.seq,
                         !.doc = row.doc, !.applied = {}]
  BY DEF ReceiveUpdate, ReceiveSnapshot
<1>7. /\ rep2.live /\ rep2.boot = n /\ rep2.seq = n /\ rep2.doc = row.doc /\ rep2.applied = {}
      /\ rep2.deferred = rep.deferred /\ rep2.outbox = rep.outbox
  BY <1>5, <1>6 DEF Replicas
<1> HIDE DEF rep2
<1>8. (n + 1)..n = {} BY <1>2
<1>9. rep2.applied = {L[i].id : i \in (rep2.boot + 1)..rep2.seq} BY <1>7, <1>8
<1>10. rep2.boot <= rep2.seq /\ rep2.seq <= Len(L) /\ rep2.boot <= n /\ n <= rep2.seq BY <1>2, <1>7
<1>11. Canonical(rep2, s) BY <1>4, <1>5, <1>7, <1>9, <1>10 DEF Canonical, L
<1>12. Behind(rep2, s, k) BY <1>7, <1>10, <1>11 DEF Behind, n
<1> QED BY <1>7, <1>12 DEF rep2, n

(* Receiving rows is receiving the first one and then the others.          *)
LEMMA ReceiveFirst ==
  ASSUME NEW rep \in Replicas, NEW row \in RowSet, NEW rest \in Seq(RowSet)
  PROVE  ReceiveRows(rep, <<row>> \o rest) = ReceiveRows(ReceiveUpdate(rep, row), rest)
<1> DEFINE rs == <<row>> \o rest
           n == Len(rest)
<1>1. <<row>> \in Seq(RowSet) /\ Len(<<row>>) = 1 /\ <<row>>[1] = row OBVIOUS
<1>2. /\ rs \in Seq(RowSet) /\ Len(rs) = Len(<<row>>) + n
      /\ \A i \in 1..Len(<<row>>) + n : rs[i] = IF i <= Len(<<row>>) THEN <<row>>[i] ELSE rest[i - Len(<<row>>)]
  BY <1>1, ConcatProperties, Zenon
<1>3. n \in Nat BY LenProperties, Zenon
<1> HIDE DEF rs, n
<1>4. Len(rs) = n + 1 /\ rs[1] = row /\ \A i \in 1..n : rs[i + 1] = rest[i]
  <2>1. Len(rs) = n + 1 BY <1>1, <1>2, <1>3
  <2>2. 1 \in 1..Len(<<row>>) + n /\ 1 <= Len(<<row>>) BY <1>1, <1>3
  <2>3. rs[1] = row BY <1>1, <1>2, <2>2
  <2>4. \A i \in 1..n : rs[i + 1] = rest[i]
    <3> TAKE i \in 1..n
    <3>1. i + 1 \in 1..Len(<<row>>) + n /\ ~(i + 1 <= Len(<<row>>)) /\ (i + 1) - Len(<<row>>) = i
      BY <1>1, <1>3
    <3> QED BY <1>2, <3>1
  <2> QED BY <2>1, <2>3, <2>4
<1>5. PICK f : Received(f, rep, rs) BY <1>2, ReceiveSteps
<1> DEFINE next == ReceiveUpdate(rep, row)
<1>6. next \in Replicas BY ReceiveUpdateType
<1>7. PICK g : Received(g, next, rest) BY <1>6, ReceiveSteps
<1> DEFINE h == [k \in 0..n |-> f[k + 1]]
<1>8. h[0] = g[0]
  <2>1. 1 \in 1..Len(rs) BY <1>3, <1>4
  <2>2. f[1] = ReceiveUpdate(f[1 - 1], rs[1]) /\ f[0] = rep BY <1>5, <2>1 DEF Received
  <2>3. f[1] = next BY <1>4, <2>2
  <2>4. g[0] = next BY <1>7 DEF Received
  <2>5. h[0] = f[0 + 1] BY <1>3
  <2> QED BY <2>3, <2>4, <2>5
<1>9. ASSUME NEW k \in 1..n, h[k - 1] = g[k - 1] PROVE h[k] = g[k]
  <2>1. k + 1 \in 1..Len(rs) /\ (k + 1) - 1 = k /\ k \in 0..n /\ k - 1 \in 0..n /\ (k - 1) + 1 = k
    BY <1>3, <1>4
  <2>2. f[k + 1] = ReceiveUpdate(f[k], rs[k + 1]) BY <1>5, <2>1 DEF Received
  <2>3. g[k] = ReceiveUpdate(g[k - 1], rest[k]) BY <1>7 DEF Received, n
  <2>4. h[k] = f[k + 1] /\ h[k - 1] = f[k] BY <2>1
  <2> QED BY <1>4, <1>9, <2>2, <2>3, <2>4
<1>10. n \in 0..n BY <1>3
<1>11. h[n] = g[n]
  <2> HIDE DEF h
  <2>1. \A k \in 1..n : h[k - 1] = g[k - 1] => h[k] = g[k] BY <1>9
  <2>2. \A k \in 0..n : h[k] = g[k] BY <1>3, <1>8, <2>1, SameRecursion, ZenonT(60)
  <2> QED BY <1>10, <2>2
<1>12. ReceiveRows(rep, rs) = f[n + 1] /\ ReceiveRows(next, rest) = g[n]
  BY <1>4, <1>5, <1>7 DEF Received, n
<1>13. h[n] = f[n + 1] BY <1>10
<1> QED BY <1>11, <1>12, <1>13 DEF rs

(* Rows from the first one it may miss bring a replica up to the last.     *)
LEMMA RunOn ==
  ASSUME NEW s \in Seq(RowSet), CheckpointsReplay(s), Distinct(IntentsOf(s)),
         NEW a \in 1..(Len(s) + 1), NEW e \in (a - 1)..Len(s),
         NEW rep, Behind(rep, s, a - 1)
  PROVE  LET rep2 == ReceiveRows(rep, SubSeq(s, a, e))
         IN  Behind(rep2, s, e) /\ rep2.boot = rep.boot
<1> DEFINE rs == SubSeq(s, a, e)
           n == e - a + 1
<1>1. Len(s) \in Nat BY LenProperties, Zenon
<1>2. a \in Nat \ {0} /\ e \in Nat /\ n \in Nat /\ e <= Len(s) BY <1>1
<1>3. rs \in Seq(RowSet) /\ Len(rs) = n /\ \A i \in 1..n : rs[i] = s[a + i - 1] BY Part
<1>4. rep \in Replicas BY DEF Behind, Canonical
<1> HIDE DEF rs
<1>5. PICK f : Received(f, rep, rs) BY <1>3, <1>4, ReceiveSteps
<1> DEFINE S == {i \in 0..n : Behind(f[i], s, a + i - 1) /\ f[i].boot = rep.boot}
<1>6. 0 \in S
  <2> f[0] = rep BY <1>5 DEF Received
  <2> a + 0 - 1 = a - 1 /\ 0 \in 0..n BY <1>2
  <2> QED OBVIOUS
<1>7. ASSUME NEW i \in S, i < n PROVE i + 1 \in S
  <2> DEFINE k == a + i
  <2>1. i \in Nat /\ i + 1 \in 1..n /\ i + 1 \in 0..n /\ (i + 1) - 1 = i /\ a + (i + 1) - 1 = k
        /\ k \in 1..Len(s) /\ a + i - 1 = k - 1
    BY <1>2, <1>7
  <2>2. f[i + 1] = ReceiveUpdate(f[i], rs[i + 1]) BY <1>3, <1>5, <2>1 DEF Received
  <2>3. rs[i + 1] = s[k] BY <1>3, <2>1
  <2>4. Behind(f[i], s, k - 1) /\ f[i].boot = rep.boot BY <2>1
  <2> HIDE DEF S, k
  <2>5. /\ Behind(ReceiveUpdate(f[i], s[k]), s, k)
        /\ ReceiveUpdate(f[i], s[k]).boot = f[i].boot
    BY <2>1, <2>4, CatchUp
  <2>6. Behind(f[i + 1], s, a + (i + 1) - 1) /\ f[i + 1].boot = rep.boot
    BY <2>1, <2>2, <2>3, <2>4, <2>5
  <2> QED BY <2>1, <2>6 DEF S
<1>8. n \in S
  <2>1. S \in SUBSET (0..n) OBVIOUS
  <2> HIDE DEF S, n
  <2>2. S = 0..n BY <1>2, <1>6, <1>7, <2>1, UpTo, Zenon
  <2> QED BY <1>2, <2>2
<1>9. a + n - 1 = e BY <1>2
<1>10. ReceiveRows(rep, rs) = f[n] BY <1>3, <1>5 DEF Received
<1> QED BY <1>8, <1>9, <1>10 DEF rs

(* While a reset waits, every row waits behind it.                         *)
LEMMA HoldBack ==
  ASSUME NEW rep \in Replicas, rep.deferred # <<>>, NEW rs \in Seq(RowSet)
  PROVE  ReceiveRows(rep, rs) = [rep EXCEPT !.deferred = rep.deferred \o rs]
<1> DEFINE n == Len(rs)
           held(i) == rep.deferred \o SubSeq(rs, 1, i)
<1>1. n \in Nat BY LenProperties, Zenon
<1>a. \A A, B \in Seq(RowSet), x \in RowSet : Append(A \o B, x) = A \o Append(B, x)
  <2> TAKE A, B \in Seq(RowSet), x \in RowSet
  <2>1. A \o B \in Seq(RowSet) BY ConcatProperties, Zenon
  <2>2. <<x>> \in Seq(RowSet) OBVIOUS
  <2>3. Append(A \o B, x) = (A \o B) \o <<x>> BY <2>1, AppendIsConcat
  <2>4. Append(B, x) = B \o <<x>> BY AppendIsConcat
  <2>5. (A \o B) \o <<x>> = A \o (B \o <<x>>) BY <2>2, ConcatAssociative
  <2> QED BY <2>3, <2>4, <2>5
<1>2. PICK f : Received(f, rep, rs) BY ReceiveSteps
<1>3. rep.deferred \in Seq(RowSet) BY DEF Replicas
<1> DEFINE S == {i \in 0..n : f[i] = [rep EXCEPT !.deferred = held(i)]}
<1>4. 0 \in S
  <2>1. SubSeq(rs, 1, 0) = <<>> BY SubSeqEmpty
  <2>2. held(0) = rep.deferred BY <1>3, <2>1, ConcatEmptySeq, Zenon
  <2>3. f[0] = rep BY <1>2 DEF Received
  <2>4. rep = [rep EXCEPT !.deferred = rep.deferred] BY DEF Replicas
  <2> QED BY <1>1, <2>2, <2>3, <2>4
<1>5. ASSUME NEW i \in S, i < n PROVE i + 1 \in S
  <2>1. i \in Nat /\ i + 1 \in 1..n /\ i + 1 \in 0..n /\ (i + 1) - 1 = i /\ i \in 0..n BY <1>1, <1>5
  <2>2. f[i + 1] = ReceiveUpdate(f[i], rs[i + 1]) BY <1>2, <2>1 DEF Received
  <2>7. f[i] = [rep EXCEPT !.deferred = held(i)] OBVIOUS
  <2> HIDE DEF S
  <2>3. SubSeq(rs, 1, i) \in Seq(RowSet) /\ rs[i + 1] \in RowSet BY <2>1, Prefix, ElementOfSeq
  <2> DEFINE D == rep.deferred
             P == SubSeq(rs, 1, i)
             e == rs[i + 1]
  <2> HIDE DEF D, P, e
  <2>d. D \in Seq(RowSet) /\ P \in Seq(RowSet) /\ e \in RowSet BY <1>3, <2>3 DEF D, P, e
  <2>4. held(i) \in Seq(RowSet) BY <1>3, <2>3, ConcatProperties, Zenon
  <2>5. held(i) # <<>>
    <3>1. Len(rep.deferred) \in Nat \ {0} BY <1>3, EmptySeq, Zenon
    <3>2. Len(D \o P) = Len(D) + Len(P) BY <2>d, ConcatProperties, Zenon
    <3>3. Len(P) \in Nat BY <2>d, LenProperties, Zenon
    <3>a. Len(D) \in Nat \ {0} BY <3>1 DEF D
    <3>b. Len(D \o P) # 0 BY <3>2, <3>3, <3>a
    <3>c. held(i) = D \o P BY DEF D, P
    <3>4. Len(held(i)) # 0 BY <3>b, <3>c
    <3>5. Len(<<>>) = 0 BY EmptySeq
    <3> QED BY <3>4, <3>5
  <2>6. held(i + 1) = Append(held(i), rs[i + 1])
    <3>1. SubSeq(rs, 1, i + 1) = Append(SubSeq(rs, 1, i), rs[i + 1]) BY <2>1, PrefixGrows
    <3>2. Append(D \o P, e) = D \o Append(P, e) BY <2>d, <1>a, Zenon
    <3> QED BY <3>1, <3>2 DEF D, P, e
  <2> DEFINE h == held(i)
  <2> HIDE DEF h
  <2>8. f[i] = [rep EXCEPT !.deferred = h] /\ h # <<>> BY <2>5, <2>7 DEF h
  <2>9. f[i].deferred = h BY <2>8 DEF Replicas
  <2>10. f[i + 1] = [f[i] EXCEPT !.deferred = Append(f[i].deferred, rs[i + 1])]
    BY <2>2, <2>8, <2>9 DEF ReceiveUpdate
  <2>11. f[i + 1] = [rep EXCEPT !.deferred = Append(h, rs[i + 1])]
    BY <2>8, <2>9, <2>10 DEF Replicas
  <2>12. f[i + 1] = [rep EXCEPT !.deferred = held(i + 1)] BY <2>6, <2>11 DEF h
  <2> QED BY <2>1, <2>12 DEF S
<1>6. n \in S
  <2>1. S \in SUBSET (0..n) OBVIOUS
  <2> HIDE DEF S, n
  <2>2. S = 0..n BY <1>1, <1>4, <1>5, <2>1, UpTo, Zenon
  <2> QED BY <1>1, <2>2
<1>7. SubSeq(rs, 1, n) = rs BY SubSeqFull, Zenon
<1>8. ReceiveRows(rep, rs) = f[n] BY <1>2 DEF Received
<1> QED BY <1>6, <1>7, <1>8

(* While a reset is held back, the rows of a response are held back too.   *)
LEMMA WaitingGrows ==
  ASSUME NEW s \in Seq(RowSet), NEW u \in 0..Len(s), NEW a \in Nat,
         NEW b \in 1..(Len(s) + 1), NEW e \in (b - 1)..Len(s), a <= b,
         b <= u + 1 \/ (b <= e /\ b = a /\ s[b].kind = "snapshot"),
         NEW rep \in Replicas, NEW d, NEW H, Waiting(d, H, rep, s, u, a)
  PROVE  LET rep2 == ReceiveRows(rep, SubSeq(s, b, e))
         IN  /\ rep2 = [rep EXCEPT !.deferred = rep2.deferred]
             /\ \E d2, H2 : Waiting(d2, H2, rep2, s, e, a)
<1> DEFINE es == rep.deferred
           m == Len(es)
           rs == SubSeq(s, b, e)
           n == e - b + 1
           all == es \o rs
           rep2 == [rep EXCEPT !.deferred = all]
           d2 == [i \in 1..(m + n) |-> IF i <= m THEN d[i] ELSE b + (i - m) - 1]
           H2 == IF b <= u + 1 THEN H ELSE H \cup {m + 1}
<1>0. Len(s) \in Nat BY LenProperties, Zenon
<1>1. es \in Seq(RowSet) BY DEF Replicas
<1>2. rs \in Seq(RowSet) /\ Len(rs) = n /\ \A i \in 1..n : rs[i] = s[b + i - 1] BY Part
<1>3. /\ es # <<>> /\ d \in [1..m -> 1..Len(s)] /\ \A i \in 1..m : es[i] = s[d[i]]
      /\ 1 \in H /\ Begins(d, H, m, s, a) /\ s[d[1]].seq > rep.seq
      /\ Continues(d, H, m) /\ Reaches(d, m, u)
  BY DEF Waiting, HeldAt
<1>4. m \in Nat \ {0} BY <1>1, <1>3, EmptySeq, Zenon
<1>5. n \in Nat /\ b \in Nat \ {0} /\ e \in Nat /\ e <= Len(s) /\ u \in Nat BY <1>0
<1>6. ReceiveRows(rep, rs) = rep2 BY <1>2, <1>3, HoldBack
<1> HIDE DEF rs, es
<1>7. /\ all \in Seq(RowSet) /\ Len(all) = m + n
      /\ \A i \in 1..(m + n) : all[i] = IF i <= m THEN es[i] ELSE rs[i - m]
  <2>1. /\ es \o rs \in Seq(RowSet) /\ Len(es \o rs) = Len(es) + Len(rs)
        /\ \A i \in 1..Len(es) + Len(rs) :
             (es \o rs)[i] = IF i <= Len(es) THEN es[i] ELSE rs[i - Len(es)]
    BY <1>1, <1>2, ConcatProperties, Zenon
  <2>2. Len(rs) = n BY <1>2
  <2> HIDE DEF n
  <2> QED BY <2>1, <2>2
<1> HIDE DEF m, all
<1>8. rep2.deferred = all /\ rep2.seq = rep.seq BY DEF Replicas
<1> HIDE DEF rep2
<1>9. /\ \A i \in 1..m : i \in 1..(m + n) /\ d2[i] = d[i] /\ d[i] \in 1..Len(s)
      /\ \A i \in 1..(m + n) : ~(i <= m) => d2[i] = b + (i - m) - 1 /\ d2[i] \in 1..Len(s)
      /\ DOMAIN d2 = 1..(m + n)
  BY <1>0, <1>3, <1>4, <1>5
<1>10. all # <<>>
  <2> Len(all) # 0 BY <1>4, <1>5, <1>7
  <2> Len(<<>>) = 0 BY EmptySeq
  <2> QED OBVIOUS
<1>11. HeldAt(d2, all, s)
  <2>1. d2 \in [1..(m + n) -> 1..Len(s)]
    <3>1. \A i \in 1..(m + n) : d2[i] \in 1..Len(s)
      <4> TAKE i \in 1..(m + n)
      <4>1. CASE i <= m
        <5> i \in 1..m BY <1>4, <1>5, <4>1
        <5> QED BY <1>9
      <4>2. CASE ~(i <= m) BY <1>9, <4>2
      <4> QED BY <4>1, <4>2
    <3> QED BY <3>1
  <2>2. \A i \in 1..(m + n) : all[i] = s[d2[i]]
    <3> TAKE i \in 1..(m + n)
    <3>1. CASE i <= m
      <4> i \in 1..m BY <1>4, <1>5, <3>1
      <4> QED BY <1>3, <1>7, <1>9, <3>1 DEF m
    <3>2. CASE ~(i <= m)
      <4>1. i - m \in 1..n /\ b + (i - m) - 1 = d2[i] BY <1>4, <1>5, <1>9, <3>2
      <4>2. rs[i - m] = s[b + (i - m) - 1] BY <1>2, <4>1
      <4> QED BY <1>7, <3>2, <4>1, <4>2
    <3> QED BY <3>1, <3>2
  <2> HIDE DEF d2
  <2> QED BY <1>7, <2>1, <2>2 DEF HeldAt
<1> HIDE DEF d2
<1>12. \A i \in H : i \in 1..m /\ s[d[i]].kind = "snapshot" /\ d[i] <= a
                    /\ \A j \in i..m : d[i] <= d[j]
  BY <1>3 DEF Begins
<1>13. \A j \in 1..(m + n) : ~(j <= m) => b <= d2[j] BY <1>4, <1>5, <1>9
<1>14. Begins(d2, H2, m + n, s, a)
  <2> SUFFICES ASSUME NEW i \in H2
               PROVE  /\ i \in 1..(m + n) /\ s[d2[i]].kind = "snapshot" /\ d2[i] <= a
                      /\ \A j \in i..(m + n) : d2[i] <= d2[j]
    BY DEF Begins
  <2>1. CASE i \in H
    <3>1. i \in 1..m /\ d2[i] = d[i] /\ d[i] \in 1..Len(s) BY <1>9, <1>12, <2>1
    <3>2. \A j \in i..(m + n) : d2[i] <= d2[j]
      <4> TAKE j \in i..(m + n)
      <4>1. CASE j <= m
        <5>1. j \in i..m /\ j \in 1..m BY <1>4, <1>5, <3>1, <4>1
        <5> QED BY <1>9, <1>12, <2>1, <3>1, <5>1
      <4>2. CASE ~(j <= m)
        <5>1. j \in 1..(m + n) BY <1>4, <1>5, <3>1
        <5>2. b <= d2[j] /\ d2[j] \in Nat /\ d[i] <= a
          BY <1>0, <1>9, <1>12, <1>13, <2>1, <4>2, <5>1
        <5> QED BY <1>0, <1>5, <3>1, <5>2
      <4> QED BY <4>1, <4>2
    <3> QED BY <1>9, <1>12, <2>1, <3>1, <3>2
  <2>2. CASE i \notin H
    <3>1. i = m + 1 /\ ~(b <= u + 1) BY <2>2
    <3>2. b <= e /\ b = a /\ s[b].kind = "snapshot" BY <3>1
    <3>3. i \in 1..(m + n) /\ ~(i <= m) /\ i - m = 1 BY <1>4, <1>5, <3>1, <3>2
    <3>4. d2[i] = b BY <1>5, <1>9, <3>3
    <3>5. \A j \in i..(m + n) : d2[i] <= d2[j]
      <4> TAKE j \in i..(m + n)
      <4> j \in 1..(m + n) /\ ~(j <= m) BY <1>4, <1>5, <3>3
      <4> QED BY <1>13, <3>4
    <3> QED BY <1>5, <3>2, <3>3, <3>4, <3>5
  <2> QED BY <2>1, <2>2
<1>15. Continues(d2, H2, m + n)
  <2> SUFFICES ASSUME NEW i \in 1..(m + n), i \notin H2
               PROVE  \E j \in 1..(i - 1) : d2[i] - 1 <= d2[j]
    BY DEF Continues
  <2>1. CASE i <= m
    <3>1. i \in 1..m /\ i \notin H BY <1>4, <1>5, <2>1
    <3>2. PICK j \in 1..(i - 1) : d[i] - 1 <= d[j] BY <1>3, <3>1 DEF Continues
    <3>3. j \in 1..m BY <1>4, <3>1
    <3> QED BY <1>9, <3>1, <3>2, <3>3
  <2>2. CASE i = m + 1
    <3>1. b <= u + 1 BY <2>2
    <3>2. PICK j \in 1..m : u <= d[j] BY <1>3 DEF Reaches
    <3>3. d2[i] = b
      <4> ~(i <= m) /\ i - m = 1 BY <1>4, <2>2
      <4> QED BY <1>5, <1>9
    <3>4. j \in 1..(i - 1) /\ d2[j] = d[j] /\ d[j] \in Nat BY <1>0, <1>4, <1>9, <2>2
    <3> QED BY <1>5, <3>1, <3>2, <3>3, <3>4
  <2>3. CASE ~(i <= m) /\ i # m + 1
    <3>1. i - 1 \in 1..(m + n) /\ ~(i - 1 <= m) /\ i - 1 \in 1..(i - 1) BY <1>4, <1>5, <2>3
    <3>2. d2[i] = b + (i - m) - 1 /\ d2[i - 1] = b + ((i - 1) - m) - 1 BY <1>9, <2>3, <3>1
    <3>3. d2[i] - 1 <= d2[i - 1] BY <1>4, <1>5, <3>2
    <3> QED BY <3>1, <3>3
  <2> QED BY <2>1, <2>2, <2>3
<1>16. Reaches(d2, m + n, e)
  <2>1. CASE n = 0
    <3>1. e <= u BY <1>5, <2>1
    <3>2. PICK j \in 1..m : u <= d[j] BY <1>3 DEF Reaches
    <3>3. j \in 1..(m + n) /\ e <= d2[j] BY <1>0, <1>5, <1>9, <3>1, <3>2
    <3> QED BY <3>3 DEF Reaches
  <2>2. CASE n # 0
    <3>1. m + n \in 1..(m + n) /\ ~(m + n <= m) /\ (m + n) - m = n BY <1>4, <1>5, <2>2
    <3>2. d2[m + n] = e BY <1>5, <1>9, <3>1
    <3> QED BY <1>5, <3>1, <3>2 DEF Reaches
  <2> QED BY <2>1, <2>2
<1>17. s[d2[1]].seq > rep.seq /\ 1 \in H2
  <2> 1 \in 1..m BY <1>4
  <2> QED BY <1>3, <1>9
<1>18. Waiting(d2, H2, rep2, s, e, a)
  <2> HIDE DEF H2
  <2> QED BY <1>7, <1>8, <1>10, <1>11, <1>14, <1>15, <1>16, <1>17 DEF Waiting
<1>19. rep2 = [rep EXCEPT !.deferred = rep2.deferred] BY <1>8 DEF rep2
<1> QED BY <1>6, <1>18, <1>19 DEF rs

(* The rows of a response leave a replica a replica.                       *)
LEMMA ReceiveRowsType ==
  ASSUME NEW rep \in Replicas, NEW rs \in Seq(RowSet)
  PROVE  ReceiveRows(rep, rs) \in Replicas
<1>1. PICK f : Received(f, rep, rs) BY ReceiveSteps
<1>2. Len(rs) \in Nat BY LenProperties, Zenon
<1>3. Len(rs) \in 0..Len(rs) BY <1>2
<1> QED BY <1>1, <1>3 DEF Received

(* Neither the pending intents nor what is held back matter for the        *)
(* document.                                                               *)
LEMMA CanonicalSame ==
  ASSUME NEW rep, NEW s, Canonical(rep, s), NEW rep2 \in Replicas,
         rep2.live = rep.live, rep2.boot = rep.boot, rep2.seq = rep.seq,
         rep2.doc = rep.doc, rep2.applied = rep.applied
  PROVE  Canonical(rep2, s)
BY DEF Canonical

(* A window of rows brings a replica up to its last row, or joins what a   *)
(* deferred reset holds back.                                              *)
LEMMA WindowDone ==
  ASSUME NEW s \in Seq(RowSet), CheckpointsReplay(s), Distinct(IntentsOf(s)),
         NEW u \in 0..Len(s), NEW a \in (u + 1)..(Len(s) + 1), NEW e \in (a - 1)..Len(s),
         (a = u + 1 /\ u >= 1) \/ (a <= e /\ s[a].kind = "snapshot"),
         NEW rep \in Replicas,
         (~rep.live /\ u = 0 /\ rep.deferred = <<>>) \/ Up(rep, s, u, a)
  PROVE  Up(ReceiveRows(rep, SubSeq(s, a, e)), s, e, a)
<1> DEFINE rs == SubSeq(s, a, e)
           rep2 == ReceiveRows(rep, rs)
<1>0. Len(s) \in Nat BY LenProperties, Zenon
<1>1. /\ a \in Nat \ {0} /\ e \in Nat /\ u \in Nat /\ a \in 1..(Len(s) + 1) /\ a <= a
      /\ u + 1 <= a /\ a <= e + 1 /\ e <= Len(s) /\ a - 1 \in 0..Len(s) /\ e \in 0..Len(s)
  BY <1>0
<1>2. rs \in Seq(RowSet) BY <1>1, Part
<1>3. rep2 \in Replicas BY <1>2, ReceiveRowsType
<1>4. Pos(s, a - 1) \in Nat /\ Pos(s, u) \in Nat /\ Pos(s, e) \in Nat BY <1>1, PosIs
<1>5. CASE rep.deferred # <<>>
  <2>1. Canonical(rep, s) /\ rep.boot <= Pos(s, a - 1) BY <1>5 DEF Up
  <2>2. PICK d, H : Waiting(d, H, rep, s, u, a) BY <1>5 DEF Up
  <2>3. a <= u + 1 \/ (a <= e /\ a = a /\ s[a].kind = "snapshot") BY <1>1
  <2>4. /\ rep2 = [rep EXCEPT !.deferred = rep2.deferred]
        /\ \E d2, H2 : Waiting(d2, H2, rep2, s, e, a)
    BY <1>1, <2>2, <2>3, WaitingGrows
  <2> HIDE DEF rep2
  <2> DEFINE df == rep2.deferred
  <2> HIDE DEF df
  <2>5. rep2 = [rep EXCEPT !.deferred = df] BY <2>4 DEF df
  <2>6. /\ rep2.live = rep.live /\ rep2.boot = rep.boot /\ rep2.seq = rep.seq
        /\ rep2.doc = rep.doc /\ rep2.applied = rep.applied
    BY <2>5 DEF Replicas
  <2>7. Canonical(rep2, s) BY <1>3, <2>1, <2>6, CanonicalSame
  <2>8. Up(rep2, s, e, a) BY <2>1, <2>4, <2>6, <2>7 DEF Up
  <2> QED BY <2>8 DEF rep2
<1>6. ASSUME NEW b \in 1..(Len(s) + 1), e \in (b - 1)..Len(s), NEW r, Behind(r, s, b - 1),
             r.boot <= Pos(s, a - 1), rep2 = ReceiveRows(r, SubSeq(s, b, e))
      PROVE  Up(rep2, s, e, a)
  <2>1. Behind(rep2, s, e) /\ rep2.boot = r.boot BY <1>6, RunOn
  <2> HIDE DEF rep2
  <2> QED BY <1>6, <2>1 DEF Behind, Up
<1>7. CASE rep.deferred = <<>> /\ a = u + 1 /\ u >= 1
  <2>1. Up(rep, s, u, a) /\ a - 1 = u BY <1>1, <1>7
  <2>2. Behind(rep, s, a - 1)
    <3>1. Pos(s, u) <= rep.seq BY <1>7, <2>1 DEF Up, Waiting
    <3>2. Canonical(rep, s) /\ rep.boot <= Pos(s, a - 1) BY <2>1 DEF Up
    <3> QED BY <1>7, <2>1, <3>1, <3>2 DEF Behind
  <2>3. rep.boot <= Pos(s, a - 1) BY <2>1 DEF Up
  <2> HIDE DEF rep2
  <2> QED BY <1>1, <1>6, <2>2, <2>3 DEF rep2, rs
<1>8. CASE rep.deferred = <<>> /\ ~(a = u + 1 /\ u >= 1)
  <2>1. a <= e /\ s[a].kind = "snapshot" BY <1>8
  <2>2. a \in 1..Len(s) /\ a + 1 \in 1..(Len(s) + 1) /\ e \in ((a + 1) - 1)..Len(s) /\ (a + 1) - 1 = a
        /\ e \in a..Len(s)
    BY <1>0, <1>1, <2>1
  <2> DEFINE rest == SubSeq(s, a + 1, e)
             r1 == ReceiveUpdate(rep, s[a])
  <2>3. rs = <<s[a]>> \o rest BY <2>2, HeadOfPart
  <2>4. s[a] \in RowSet BY <2>2, ElementOfSeq, Zenon
  <2>5. rest \in Seq(RowSet) BY <2>2, Part
  <2>6. rep2 = ReceiveRows(r1, rest) BY <2>3, <2>4, <2>5, ReceiveFirst
  <2>7. Pos(s, a) = Pos(s, a - 1) BY <2>1, <2>2, PosStep
  <2>8. s[a].seq = Pos(s, a) BY <2>1, <2>2 DEF CheckpointsReplay
  <2>9. r1 = ReceiveSnapshot(rep, s[a]) BY <1>8, <2>1 DEF ReceiveUpdate
  <2> DEFINE n == Pos(s, a)
  <2>10. n \in Nat BY <1>4, <2>7
  <2>11. rep.seq \in Nat /\ rep.boot \in Nat BY DEF Replicas
  <2>12. CASE ~rep.live \/ (s[a].seq > rep.seq /\ rep.outbox = <<>>)
    <3>1. Behind(r1, s, a) /\ r1.boot = n BY <1>8, <2>1, <2>2, <2>12, ResetTo
    <3> HIDE DEF r1, rep2, rs
    <3>2. r1.boot <= Pos(s, a - 1) BY <2>7, <2>10, <3>1
    <3>3. Up(rep2, s, e, a) BY <1>6, <2>2, <2>6, <3>1, <3>2
    <3> QED BY <3>3 DEF rep2, rs
  <2>13. CASE rep.live /\ ~(s[a].seq > rep.seq)
    <3>1. r1 = rep BY <2>9, <2>13 DEF ReceiveSnapshot
    <3>2. Canonical(rep, s) /\ rep.boot <= Pos(s, a - 1) BY <1>8, <2>13 DEF Up
    <3>3. Behind(rep, s, a) BY <1>8, <2>7, <2>8, <2>10, <2>11, <2>13, <3>2 DEF Behind
    <3> HIDE DEF r1, rep2, rs
    <3>4. rep2 = ReceiveRows(rep, SubSeq(s, a + 1, e)) BY <2>6, <3>1
    <3>5. Up(rep2, s, e, a) BY <1>6, <2>2, <3>2, <3>3, <3>4
    <3> QED BY <3>5 DEF rep2, rs
  <2>14. CASE rep.live /\ s[a].seq > rep.seq /\ rep.outbox # <<>>
    <3> DEFINE h == <<s[a]>>
               d == [i \in 1..1 |-> a]
    <3>1. h \in Seq(RowSet) /\ Len(h) = 1 /\ h[1] = s[a] /\ h # <<>> BY <2>4
    <3>2. r1 = [rep EXCEPT !.deferred = h] BY <2>9, <2>14 DEF ReceiveSnapshot
    <3> HIDE DEF h
    <3>3. /\ r1.deferred = h /\ r1.seq = rep.seq /\ r1.live = rep.live /\ r1.boot = rep.boot
          /\ r1.doc = rep.doc /\ r1.applied = rep.applied
      BY <3>2 DEF Replicas
    <3>4. r1 \in Replicas BY <2>4, ReceiveUpdateType
    <3>5. Canonical(rep, s) /\ rep.boot <= Pos(s, a - 1) BY <1>8, <2>14 DEF Up
    <3> HIDE DEF r1, rep2, rs
    <3>6. Canonical(r1, s) BY <3>3, <3>4, <3>5, CanonicalSame
    <3>7. Waiting(d, {1}, r1, s, a, a)
      <4>1. HeldAt(d, h, s) BY <2>2, <3>1 DEF HeldAt
      <4>2. Begins(d, {1}, 1, s, a) BY <1>1, <2>1 DEF Begins
      <4>3. Continues(d, {1}, 1) BY DEF Continues
      <4>4. Reaches(d, 1, a) BY <1>1 DEF Reaches
      <4>5. s[d[1]].seq > rep.seq BY <2>14
      <4> HIDE DEF d
      <4> QED BY <3>1, <3>3, <4>1, <4>2, <4>3, <4>4, <4>5 DEF Waiting
    <3> HIDE DEF d
    <3>8. a \in 0..Len(s) /\ a \in Nat /\ a <= a + 1 /\ a + 1 <= a + 1 BY <1>1, <2>2
    <3> DEFINE q == ReceiveRows(r1, SubSeq(s, a + 1, e))
    <3>9. /\ q = [r1 EXCEPT !.deferred = q.deferred]
          /\ \E d2, H2 : Waiting(d2, H2, q, s, e, a)
      BY <2>2, <3>4, <3>7, <3>8, WaitingGrows
    <3>10. q = rep2 BY <2>6
    <3> HIDE DEF q
    <3> DEFINE df == q.deferred
    <3> HIDE DEF df
    <3>11. q = [r1 EXCEPT !.deferred = df] BY <3>9 DEF df
    <3>12. /\ q.live = r1.live /\ q.boot = r1.boot /\ q.seq = r1.seq
           /\ q.doc = r1.doc /\ q.applied = r1.applied
      BY <3>4, <3>11 DEF Replicas
    <3>13. Canonical(q, s) BY <1>3, <3>6, <3>10, <3>12, CanonicalSame
    <3>14. Up(rep2, s, e, a) BY <3>3, <3>5, <3>9, <3>10, <3>12, <3>13 DEF Up
    <3> QED BY <3>14 DEF rep2, rs
  <2> QED BY <2>12, <2>13, <2>14
<1> QED BY <1>5, <1>7, <1>8

-----------------------------------------------------------------------------
(* A deferred reset is released.                                           *)

(* A replica that has taken up the first i rows a reset held back: it      *)
(* starts from the checkpoint of one of the windows and has every entry    *)
(* up to the place of each of these rows.                                  *)
Released(r, d, H, s, i) ==
  /\ Canonical(r, s) /\ r.deferred = <<>> /\ r.outbox = <<>>
  /\ \E h \in H : h <= i /\ r.boot = Pos(s, d[h])
  /\ \A j \in 1..i : Pos(s, d[j]) <= r.seq

(* The next row that was held back.                                        *)
LEMMA ReleaseStep ==
  ASSUME NEW s \in Seq(RowSet), CheckpointsReplay(s), Distinct(IntentsOf(s)),
         NEW n \in Nat, NEW d \in [1..n -> 1..Len(s)], NEW H, NEW a,
         Begins(d, H, n, s, a), Continues(d, H, n),
         NEW i \in 1..n, i + 1 <= n, NEW r, Released(r, d, H, s, i)
  PROVE  Released(ReceiveUpdate(r, s[d[i + 1]]), d, H, s, i + 1)
<1> DEFINE k == d[i + 1]
           row == s[k]
           r2 == ReceiveUpdate(r, row)
<1>0. Len(s) \in Nat BY LenProperties, Zenon
<1>1. /\ i \in Nat \ {0} /\ i + 1 \in 1..n /\ i + 1 \notin 1..i /\ (i + 1) - 1 = i
      /\ \A j \in 1..(i + 1) : j \in 1..i \/ j = i + 1
      /\ \A j \in 1..i : j \in 1..n
  OBVIOUS
<1>2. k \in 1..Len(s) BY <1>1
<1>3. \A j \in 1..n : d[j] \in 1..Len(s) OBVIOUS
<1> HIDE DEF k
<1>4. k \in 0..Len(s) /\ k - 1 \in 0..Len(s) /\ k \in Nat \ {0} BY <1>0, <1>2
<1>5. Pos(s, k) \in Nat /\ Pos(s, k - 1) \in Nat BY <1>4, PosIs
<1>6. /\ Canonical(r, s) /\ r.deferred = <<>> /\ r.outbox = <<>>
      /\ \A j \in 1..i : Pos(s, d[j]) <= r.seq
  BY DEF Released
<1>7. PICK h \in H : h <= i /\ r.boot = Pos(s, d[h]) BY DEF Released
<1>8. r \in Replicas /\ r.live /\ r.seq \in Nat BY <1>6 DEF Canonical, Replicas
<1>9. \A j \in 1..i : Pos(s, d[j]) \in Nat
  <2> TAKE j \in 1..i
  <2> d[j] \in 0..Len(s) BY <1>0, <1>1, <1>3
  <2> QED BY PosIs
<1>10. i + 1 \notin H => Pos(s, k - 1) <= r.seq
  <2> SUFFICES ASSUME i + 1 \notin H PROVE Pos(s, k - 1) <= r.seq OBVIOUS
  <2>1. PICK j \in 1..i : k - 1 <= d[j] BY <1>1 DEF Continues, k
  <2>2. d[j] \in 0..Len(s) /\ k - 1 \in 0..d[j] BY <1>0, <1>1, <1>3, <1>4, <2>1
  <2>3. Pos(s, k - 1) <= Pos(s, d[j]) BY <2>2, PosMonotone
  <2> QED BY <1>5, <1>6, <1>8, <1>9, <2>3
<1>11. row.kind = "snapshot" => Pos(s, k) = Pos(s, k - 1) /\ row.seq = Pos(s, k)
  BY <1>2, PosStep DEF CheckpointsReplay
<1>12. ASSUME r2.deferred = <<>>, r2.outbox = <<>>, Canonical(r2, s), r.seq <= r2.seq,
              Pos(s, k) <= r2.seq, r2.boot = r.boot \/ (r2.boot = Pos(s, k) /\ i + 1 \in H)
       PROVE  Released(r2, d, H, s, i + 1)
  <2> r2.seq \in Nat BY <1>12 DEF Canonical, Replicas
  <2> HIDE DEF r2
  <2>1. \A j \in 1..(i + 1) : Pos(s, d[j]) <= r2.seq
    <3> TAKE j \in 1..(i + 1)
    <3>1. CASE j \in 1..i BY <1>6, <1>8, <1>9, <1>12, <3>1
    <3>2. CASE j = i + 1 BY <1>12, <3>2 DEF k
    <3> QED BY <1>1, <3>1, <3>2
  <2>2. \E g \in H : g <= i + 1 /\ r2.boot = Pos(s, d[g])
    <3>1. CASE r2.boot = r.boot
      <4> h \in 1..n BY DEF Begins
      <4> h <= i + 1 BY <1>1, <1>7
      <4> QED BY <1>7, <3>1
    <3>2. CASE r2.boot = Pos(s, k) /\ i + 1 \in H
      <4> i + 1 <= i + 1 BY <1>1
      <4> QED BY <3>2 DEF k
    <3> QED BY <1>12, <3>1, <3>2
  <2> QED BY <1>12, <2>1, <2>2 DEF Released
<1>13. CASE row.kind = "snapshot" /\ row.seq > r.seq
  <2>1. /\ Behind(r2, s, k) /\ r2.boot = Pos(s, k) /\ r2.seq = Pos(s, k)
        /\ r2.outbox = r.outbox
    BY <1>2, <1>6, <1>8, <1>13, ResetTo
  <2>2. i + 1 \in H BY <1>5, <1>8, <1>10, <1>11, <1>13
  <2> HIDE DEF r2
  <2>3. r.seq <= r2.seq /\ Pos(s, k) <= r2.seq BY <1>5, <1>8, <1>11, <1>13, <2>1
  <2>4. Canonical(r2, s) /\ r2.deferred = <<>> BY <2>1 DEF Behind
  <2>5. Released(r2, d, H, s, i + 1) BY <1>6, <1>12, <2>1, <2>2, <2>3, <2>4
  <2> QED BY <2>5 DEF r2, k
<1>14. CASE row.kind = "snapshot" /\ ~(row.seq > r.seq)
  <2>1. r2 = r BY <1>6, <1>8, <1>14 DEF ReceiveUpdate, ReceiveSnapshot
  <2> HIDE DEF r2
  <2>3. r.seq <= r2.seq /\ Pos(s, k) <= r2.seq BY <1>5, <1>8, <1>11, <1>14, <2>1
  <2>5. Released(r2, d, H, s, i + 1) BY <1>6, <1>12, <2>1, <2>3
  <2> QED BY <2>5 DEF r2, k
<1>15. CASE row.kind # "snapshot"
  <2>1. i + 1 \notin H BY <1>15 DEF Begins, k
  <2>2. h \in 1..n /\ s[d[h]].kind = "snapshot" /\ \A j \in h..n : d[h] <= d[j] BY DEF Begins
  <2>3. i + 1 \in h..n BY <1>1, <1>7, <2>2
  <2>4. d[h] <= k /\ d[h] # k /\ d[h] \in 1..Len(s) BY <1>3, <1>15, <2>2, <2>3 DEF k
  <2>5. d[h] \in 0..(k - 1) BY <1>0, <1>4, <2>4
  <2>6. r.boot <= Pos(s, k - 1) BY <1>4, <1>7, <2>5, PosMonotone
  <2>7. Behind(r, s, k - 1) BY <1>6, <1>10, <2>1, <2>6 DEF Behind
  <2>8. /\ Behind(r2, s, k) /\ r2.boot = r.boot /\ r.seq <= r2.seq
        /\ r.outbox = <<>> => r2.outbox = <<>>
    BY <1>2, <2>7, CatchUp
  <2> HIDE DEF r2
  <2>9. Canonical(r2, s) /\ r2.deferred = <<>> /\ Pos(s, k) <= r2.seq BY <2>8 DEF Behind
  <2>10. Released(r2, d, H, s, i + 1) BY <1>6, <1>12, <2>8, <2>9
  <2> QED BY <2>10 DEF r2, k
<1> QED BY <1>13, <1>14, <1>15

(* Releasing a deferred reset leaves no gap: the replica then has every    *)
(* entry of the rows received so far.                                      *)
LEMMA ReleaseDone ==
  ASSUME NEW s \in Seq(RowSet), CheckpointsReplay(s), Distinct(IntentsOf(s)),
         NEW e \in 0..Len(s), NEW a \in 1..(Len(s) + 1),
         NEW rep \in Replicas, Up(rep, s, e, a)
  PROVE  Up(ReleaseDeferred(rep), s, e, a)
<1> DEFINE rep2 == ReleaseDeferred(rep)
<1>0. Len(s) \in Nat BY LenProperties, Zenon
<1>1. CASE ~(rep.deferred # <<>> /\ rep.outbox = <<>>)
  BY <1>1 DEF ReleaseDeferred
<1>2. CASE rep.deferred # <<>> /\ rep.outbox = <<>>
  <2> DEFINE es == rep.deferred
             n == Len(es)
             r0 == [rep EXCEPT !.deferred = <<>>]
  <2>1. PICK d, H : Waiting(d, H, rep, s, e, a) BY <1>2 DEF Up
  <2>2. /\ es \in Seq(RowSet) /\ r0 \in Replicas /\ r0.deferred = <<>> /\ r0.outbox = <<>>
        /\ r0.live /\ r0.seq = rep.seq
    <3>1. rep.live BY DEF Up, Canonical
    <3>2. es \in Seq(RowSet) BY DEF Replicas
    <3>3. <<>> \in Seq(RowSet) OBVIOUS
    <3>4. r0 \in Replicas BY <3>3 DEF Replicas
    <3>5. r0.deferred = <<>> /\ r0.outbox = rep.outbox /\ r0.live = rep.live /\ r0.seq = rep.seq
      BY DEF Replicas
    <3> QED BY <1>2, <3>1, <3>2, <3>4, <3>5
  <2>3. PICK f : Received(f, r0, es) BY <2>2, ReceiveSteps
  <2>4. n \in Nat \ {0} BY <1>2, <2>2, EmptySeq, Zenon
  <2>5. /\ d \in [1..n -> 1..Len(s)] /\ \A i \in 1..n : es[i] = s[d[i]]
        /\ 1 \in H /\ Begins(d, H, n, s, a) /\ s[d[1]].seq > rep.seq
        /\ Continues(d, H, n) /\ Reaches(d, n, e)
    BY <2>1 DEF Waiting, HeldAt
  <2>6. rep2 = f[n] BY <1>2, <2>3 DEF ReleaseDeferred, Received
  <2>7. f[0] = r0 /\ \A i \in 1..n : f[i] = ReceiveUpdate(f[i - 1], es[i])
    BY <2>3 DEF Received
  <2> HIDE DEF es, n, r0, rep2
  <2> DEFINE S == {i \in 0..n : i = 0 \/ Released(f[i], d, H, s, i)}
  <2>8. 0 \in S BY <2>4
  <2>9. ASSUME NEW i \in S, i < n PROVE i + 1 \in S
    <3>1. i \in 0..n /\ i + 1 \in 0..n /\ i + 1 \in 1..n /\ i + 1 <= n /\ (i + 1) - 1 = i
      BY <2>4, <2>9
    <3>2. f[i + 1] = ReceiveUpdate(f[i], s[d[i + 1]]) BY <2>5, <2>7, <3>1
    <3>3. CASE i = 0
      <4> DEFINE k == d[1]
      <4>1. k \in 1..Len(s) /\ s[k].kind = "snapshot" /\ s[k].seq > r0.seq
            /\ f[1] = ReceiveUpdate(r0, s[k])
        BY <2>2, <2>4, <2>5, <2>7, <3>2, <3>3 DEF Begins
      <4> HIDE DEF k
      <4>2. /\ Behind(f[1], s, k) /\ f[1].boot = Pos(s, k) /\ f[1].seq = Pos(s, k)
            /\ f[1].outbox = r0.outbox
        BY <2>2, <4>1, ResetTo
      <4>3. k \in 0..Len(s) BY <1>0, <4>1
      <4>4. Pos(s, k) <= f[1].seq BY <4>2, <4>3, PosIs
      <4>5. \A j \in 1..1 : Pos(s, d[j]) <= f[1].seq BY <4>4 DEF k
      <4>6. \E h \in H : h <= 1 /\ f[1].boot = Pos(s, d[h]) BY <2>5, <4>2 DEF k
      <4>7. Canonical(f[1], s) /\ f[1].deferred = <<>> BY <4>2 DEF Behind
      <4>8. Released(f[1], d, H, s, 1) BY <2>2, <4>2, <4>5, <4>6, <4>7 DEF Released
      <4> QED BY <3>1, <3>3, <4>8
    <3>4. CASE i # 0
      <4>1. i \in 1..n /\ Released(f[i], d, H, s, i) BY <3>1, <3>4
      <4> HIDE DEF S
      <4>2. Released(ReceiveUpdate(f[i], s[d[i + 1]]), d, H, s, i + 1)
        BY <2>4, <2>5, <3>1, <4>1, ReleaseStep
      <4> QED BY <3>1, <3>2, <4>2 DEF S
    <3> QED BY <3>3, <3>4
  <2>10. n \in S
    <3>1. S \in SUBSET (0..n) OBVIOUS
    <3>2. \A i \in S : i < n => i + 1 \in S BY <2>9
    <3> HIDE DEF S
    <3>3. n \in Nat BY <2>4
    <3>4. S = 0..n BY <2>8, <3>1, <3>2, <3>3, UpTo, Zenon
    <3> QED BY <3>3, <3>4
  <2>11. Released(rep2, d, H, s, n) BY <2>4, <2>6, <2>10
  <2>12. rep2.seq \in Nat BY <2>11 DEF Released, Canonical, Replicas
  <2>13. PICK h \in H : h <= n /\ rep2.boot = Pos(s, d[h]) BY <2>11 DEF Released
  <2>14. h \in 1..n /\ s[d[h]].kind = "snapshot" /\ d[h] <= a /\ d[h] \in 1..Len(s)
    BY <2>5 DEF Begins
  <2>15. d[h] - 1 \in 0..(a - 1) /\ a - 1 \in 0..Len(s) BY <1>0, <2>14
  <2>16. Pos(s, d[h]) = Pos(s, d[h] - 1) BY <2>14, PosStep
  <2>17. Pos(s, d[h] - 1) <= Pos(s, a - 1) BY <2>15, PosMonotone
  <2>18. PICK j \in 1..n : e <= d[j] BY <2>5 DEF Reaches
  <2>19. d[j] \in 0..Len(s) /\ e \in 0..d[j] BY <1>0, <2>5, <2>18
  <2>20. Pos(s, e) <= Pos(s, d[j]) BY <2>19, PosMonotone
  <2>21. Pos(s, e) \in Nat /\ Pos(s, d[j]) \in Nat BY <2>19, PosIs
  <2>22. Pos(s, d[j]) <= rep2.seq BY <2>11 DEF Released
  <2>23. Pos(s, e) <= rep2.seq BY <2>12, <2>20, <2>21, <2>22
  <2>24. Canonical(rep2, s) /\ rep2.deferred = <<>> BY <2>11 DEF Released
  <2>25. Up(rep2, s, e, a) BY <2>13, <2>16, <2>17, <2>23, <2>24 DEF Up
  <2> QED BY <2>25 DEF rep2
<1> QED BY <1>1, <1>2

(* Unsettled intents, proposals and their resolutions do not matter for    *)
(* what a replica has received.                                            *)
LEMMA UpSame ==
  ASSUME NEW rep, NEW s, NEW u, NEW a, Up(rep, s, u, a), NEW rep2 \in Replicas,
         rep2.live = rep.live, rep2.boot = rep.boot, rep2.seq = rep.seq,
         rep2.doc = rep.doc, rep2.applied = rep.applied, rep2.deferred = rep.deferred
  PROVE  Up(rep2, s, u, a)
<1>1. Canonical(rep2, s) BY CanonicalSame DEF Up
<1>2. \A d, H : Waiting(d, H, rep, s, u, a) => Waiting(d, H, rep2, s, u, a) BY DEF Waiting
<1> QED BY <1>1, <1>2 DEF Up

(* What has been received can be taken for less, and the next window may   *)
(* begin later.                                                            *)
LEMMA UpLess ==
  ASSUME NEW s \in Seq(RowSet), NEW e \in 0..Len(s), NEW u \in 0..e,
         NEW a \in 1..(Len(s) + 1), NEW b \in a..(Len(s) + 1),
         NEW rep, Up(rep, s, e, a)
  PROVE  Up(rep, s, u, b)
<1>0. Len(s) \in Nat BY LenProperties, Zenon
<1>1. rep.boot \in Nat /\ rep.seq \in Nat BY DEF Up, Canonical, Replicas
<1>2. a - 1 \in 0..(b - 1) /\ b - 1 \in 0..Len(s) /\ a - 1 \in 0..Len(s) /\ u \in 0..Len(s)
      /\ a \in Nat /\ b \in Nat /\ a <= b /\ u \in Nat /\ e \in Nat /\ u <= e
  BY <1>0
<1>3. Pos(s, a - 1) <= Pos(s, b - 1) /\ Pos(s, u) <= Pos(s, e) BY <1>2, PosMonotone
<1>4. Pos(s, a - 1) \in Nat /\ Pos(s, b - 1) \in Nat /\ Pos(s, u) \in Nat /\ Pos(s, e) \in Nat
  BY <1>2, PosIs
<1>5. Canonical(rep, s) /\ rep.boot <= Pos(s, a - 1) BY DEF Up
<1>6. rep.boot <= Pos(s, b - 1) BY <1>1, <1>3, <1>4, <1>5
<1>7. CASE rep.deferred = <<>> /\ Pos(s, e) <= rep.seq
  <2> Pos(s, u) <= rep.seq BY <1>1, <1>3, <1>4, <1>7
  <2> QED BY <1>5, <1>6, <1>7 DEF Up
<1>8. ASSUME NEW d, NEW H, Waiting(d, H, rep, s, e, a) PROVE Up(rep, s, u, b)
  <2> DEFINE n == Len(rep.deferred)
  <2>1. \A i \in 1..n : d[i] \in 1..Len(s) BY <1>8 DEF Waiting, HeldAt
  <2>2. n \in Nat BY <1>5, LenProperties DEF Canonical, Replicas
  <2> HIDE DEF n
  <2>3. Begins(d, H, n, s, a) /\ Reaches(d, n, e) BY <1>8 DEF Waiting, n
  <2>4. Begins(d, H, n, s, b)
    <3> SUFFICES ASSUME NEW i \in H
                 PROVE  /\ i \in 1..n /\ s[d[i]].kind = "snapshot" /\ d[i] <= b
                        /\ \A j \in i..n : d[i] <= d[j]
      BY DEF Begins
    <3>1. /\ i \in 1..n /\ s[d[i]].kind = "snapshot" /\ d[i] <= a
          /\ \A j \in i..n : d[i] <= d[j]
      BY <2>3 DEF Begins
    <3>2. d[i] \in Nat BY <1>0, <2>1, <3>1
    <3>3. d[i] <= b BY <1>2, <3>1, <3>2
    <3> QED BY <3>1, <3>3
  <2>5. Reaches(d, n, u)
    <3>1. PICK j \in 1..n : e <= d[j] BY <2>3 DEF Reaches
    <3>2. d[j] \in Nat BY <1>0, <2>1
    <3>3. u <= d[j] BY <1>2, <3>1, <3>2
    <3> QED BY <3>3 DEF Reaches
  <2>6. Waiting(d, H, rep, s, u, b) BY <1>8, <2>4, <2>5 DEF Waiting, n
  <2> QED BY <1>5, <1>6, <2>6 DEF Up
<1> QED BY <1>7, <1>8 DEF Up

(* One more row takes nothing from what a replica has received.            *)
LEMMA UpLater ==
  ASSUME NEW s \in Seq(RowSet), NEW r \in RowSet, NEW u \in 0..Len(s),
         NEW a \in 1..(Len(s) + 1), NEW rep, Up(rep, s, u, a)
  PROVE  Up(rep, Append(s, r), u, a)
<1> DEFINE t == Append(s, r)
           L == IntentsOf(s)
           M == IntentsOf(t)
<1>0. Len(s) \in Nat BY LenProperties, Zenon
<1>1. /\ t \in Seq(RowSet) /\ Len(t) = Len(s) + 1
      /\ \A i \in 1..Len(s) : t[i] = s[i]
  BY AppendProperties
<1>2. a - 1 \in 0..Len(s) BY <1>0
<1>3. Pos(t, u) = Pos(s, u) /\ Pos(t, a - 1) = Pos(s, a - 1) BY <1>2, PosAppend
<1>4. L \in Seq(Entries) /\ M \in Seq(Entries) BY <1>1, IntentsOfType
<1>5. M = IF r.kind = "intent" THEN Append(L, r) ELSE L BY IntentsOfAppend
<1>6. r.kind = "intent" => r \in Entries BY DEF RowSet
<1>7. Len(L) \in Nat BY <1>4, LenProperties, Zenon
<1>8. rep.seq \in Nat /\ rep.boot \in Nat /\ rep.seq <= Len(L)
  BY DEF Up, Canonical, Replicas
<1> HIDE DEF L, M, t
<1>9. Len(L) <= Len(M) /\ \A i \in 1..Len(L) : M[i] = L[i]
  <2>1. CASE r.kind = "intent"
    <3> Len(Append(L, r)) = Len(L) + 1 /\ \A i \in 1..Len(L) : Append(L, r)[i] = L[i]
      BY <1>4, <1>6, <2>1, AppendProperties
    <3> QED BY <1>5, <1>7, <2>1
  <2>2. CASE r.kind # "intent" BY <1>5, <1>7, <2>2
  <2> QED BY <2>1, <2>2
<1>10. Len(M) \in Nat BY <1>4, LenProperties, Zenon
<1>11. rep.seq \in 0..Len(L) /\ rep.seq \in 0..Len(M) /\ \A i \in 1..rep.seq : M[i] = L[i]
  BY <1>7, <1>8, <1>9, <1>10
<1>12. SubSeq(M, 1, rep.seq) = SubSeq(L, 1, rep.seq) BY <1>4, <1>11, SamePrefix, Zenon
<1>13. \A i \in (rep.boot + 1)..rep.seq : M[i] = L[i] BY <1>8, <1>11
<1>14. {M[i].id : i \in (rep.boot + 1)..rep.seq} = {L[i].id : i \in (rep.boot + 1)..rep.seq}
  BY <1>13
<1>15. Canonical(rep, s) /\ rep.boot <= Pos(s, a - 1) BY DEF Up
<1>16. Canonical(rep, t)
  <2> rep.seq <= Len(M) BY <1>7, <1>8, <1>9, <1>10
  <2> QED BY <1>12, <1>14, <1>15 DEF Canonical, L, M
<1>17. ASSUME NEW d, NEW H, Waiting(d, H, rep, s, u, a) PROVE Waiting(d, H, rep, t, u, a)
  <2> DEFINE n == Len(rep.deferred)
  <2>1. n \in Nat BY <1>15, LenProperties DEF Canonical, Replicas
  <2>2. rep.deferred # <<>> BY <1>17 DEF Waiting
  <2>3. rep.deferred \in Seq(RowSet) BY <1>15 DEF Canonical, Replicas
  <2>4. n # 0 BY <2>2, <2>3, EmptySeq, Zenon
  <2> HIDE DEF n
  <2>5. d \in [1..n -> 1..Len(s)] /\ \A i \in 1..n : rep.deferred[i] = s[d[i]]
    BY <1>17 DEF Waiting, HeldAt, n
  <2>6. \A i \in 1..n : d[i] \in 1..Len(s) /\ t[d[i]] = s[d[i]] BY <1>1, <2>5
  <2>7. 1..Len(s) \subseteq 1..Len(t) BY <1>0, <1>1
  <2>8. HeldAt(d, rep.deferred, t) BY <2>5, <2>6, <2>7 DEF HeldAt, n
  <2>9. Begins(d, H, n, t, a) BY <1>17, <2>6 DEF Waiting, Begins, n
  <2>10. t[d[1]].seq > rep.seq
    <3> 1 \in 1..n BY <2>1, <2>4
    <3> QED BY <1>17, <2>6 DEF Waiting
  <2> QED BY <1>17, <2>8, <2>9, <2>10 DEF Waiting, n
<1>18. Up(rep, t, u, a) BY <1>3, <1>15, <1>16, <1>17 DEF Up
<1> QED BY <1>18 DEF t

-----------------------------------------------------------------------------
(* The tabs and the rows on their way to them.                             *)

(* The answer to a cursor begins there.                                    *)
LEMMA SinceFromIs ==
  ASSUME TableOK, NEW u \in Nat
  PROVE  SinceFrom(u) = From(u, first)
<1>1. floor \in Nat /\ first \in Nat \ {0} /\ floor <= first BY DEF TableOK
<1> QED BY <1>1 DEF SinceFrom, ReadFrom, From

(* Pending work and the review list do not matter.                         *)
LEMMA TabSame ==
  ASSUME NEW rep, NEW u, NEW rp, NEW s, NEW lo, Tab(rep, u, rp, s, lo), NEW rep2 \in Replicas,
         rep2.live = rep.live, rep2.boot = rep.boot, rep2.seq = rep.seq,
         rep2.doc = rep.doc, rep2.applied = rep.applied, rep2.deferred = rep.deferred
  PROVE  Tab(rep2, u, rp, s, lo)
<1>1. PICK a : TabOK(rep, u, a, s) /\ IF rp.here THEN Window(rp, u, a, s, lo) ELSE a = From(u, lo)
  BY DEF Tab
<1>2. Up(rep, s, u, a) => Up(rep2, s, u, a) BY UpSame
<1>3. TabOK(rep2, u, a, s) BY <1>1, <1>2 DEF TabOK
<1> QED BY <1>1, <1>3 DEF Tab

(* The table grows.                                                        *)
LEMMA TabAppend ==
  ASSUME NEW s \in Seq(RowSet), NEW r \in RowSet, NEW rep, NEW u, NEW rp, NEW lo,
         Tab(rep, u, rp, s, lo)
  PROVE  Tab(rep, u, rp, Append(s, r), lo)
<1> DEFINE t == Append(s, r)
<1>0. Len(s) \in Nat BY LenProperties, Zenon
<1>1. /\ t \in Seq(RowSet) /\ Len(t) = Len(s) + 1
      /\ \A i \in 1..Len(s) : t[i] = s[i]
  BY AppendProperties
<1>2. PICK a : TabOK(rep, u, a, s) /\ IF rp.here THEN Window(rp, u, a, s, lo) ELSE a = From(u, lo)
  BY DEF Tab
<1>3. u \in 0..Len(s) /\ a \in (u + 1)..(Len(s) + 1) /\ a \in 1..(Len(s) + 1) /\ u \in Nat
  BY <1>0, <1>2 DEF TabOK
<1>4. Up(rep, s, u, a) => Up(rep, t, u, a) BY <1>3, UpLater
<1> HIDE DEF t
<1>5. u \in 0..Len(t) /\ a \in (u + 1)..(Len(t) + 1) BY <1>0, <1>1, <1>3
<1>6. TabOK(rep, u, a, t) BY <1>2, <1>4, <1>5 DEF TabOK
<1>7. ASSUME Window(rp, u, a, s, lo) PROVE Window(rp, u, a, t, lo)
  <2> DEFINE e == rp.end
  <2>1. e \in u..Len(s) /\ a <= e + 1 BY <1>7 DEF Window
  <2> HIDE DEF e
  <2>2. e \in u..Len(t) /\ e \in (a - 1)..Len(s) /\ e \in (a - 1)..Len(t) /\ a \in 1..(Len(t) + 1)
    BY <1>0, <1>1, <1>3, <2>1
  <2>3. SubSeq(t, a, e) = SubSeq(s, a, e)
    <3> DEFINE A == SubSeq(s, a, e)
               B == SubSeq(t, a, e)
    <3>1. /\ A \in Seq(RowSet) /\ Len(A) = e - a + 1
          /\ \A i \in 1..(e - a + 1) : A[i] = s[a + i - 1]
      BY <1>3, <2>2, Part
    <3>2. /\ B \in Seq(RowSet) /\ Len(B) = e - a + 1
          /\ \A i \in 1..(e - a + 1) : B[i] = t[a + i - 1]
      BY <1>1, <2>2, Part
    <3> HIDE DEF A, B
    <3>3. \A i \in 1..(e - a + 1) : t[a + i - 1] = s[a + i - 1]
      <4> TAKE i \in 1..(e - a + 1)
      <4> a + i - 1 \in 1..Len(s) BY <1>0, <1>3, <2>1
      <4> QED BY <1>1
    <3>4. \A i \in 1..Len(A) : A[i] = B[i] BY <3>1, <3>2, <3>3
    <3>5. A = B BY <3>1, <3>2, <3>4, SeqEqual
    <3> QED BY <3>5 DEF A, B
  <2>4. ASSUME a <= e, s[a].kind = "snapshot" PROVE t[a].kind = "snapshot"
    <3> a \in 1..Len(s) BY <1>0, <1>3, <2>1, <2>4
    <3> QED BY <1>1, <2>4
  <2> QED BY <1>7, <2>2, <2>3, <2>4 DEF Window, e
<1>8. Tab(rep, u, rp, t, lo) BY <1>2, <1>6, <1>7 DEF Tab
<1> QED BY <1>8 DEF t

(* Rows are trimmed, and a response may be lost: the next window begins    *)
(* later, at a checkpoint row.                                             *)
LEMMA TabTrim ==
  ASSUME NEW s \in Seq(RowSet), NEW rep, NEW u, NEW rp, NEW lo \in 1..Len(s),
         NEW lo2 \in lo..Len(s), NEW rp2, rp2 = rp \/ ~rp2.here,
         Tab(rep, u, rp, s, lo)
  PROVE  Tab(rep, u, rp2, s, lo2)
<1>0. Len(s) \in Nat BY LenProperties, Zenon
<1>1. PICK a : TabOK(rep, u, a, s) /\ IF rp.here THEN Window(rp, u, a, s, lo) ELSE a = From(u, lo)
  BY DEF Tab
<1>2. u \in 0..Len(s) /\ a \in (u + 1)..(Len(s) + 1) /\ u \in Nat /\ a \in Nat
  BY <1>0, <1>1 DEF TabOK
<1>3. a <= From(u, lo) BY <1>0, <1>1, <1>2 DEF Window, From
<1>4. /\ From(u, lo) <= From(u, lo2) /\ From(u, lo2) <= Len(s) + 1
      /\ From(u, lo2) \in Nat /\ From(u, lo) \in Nat /\ u + 1 <= From(u, lo2)
  BY <1>0, <1>2 DEF From
<1>5. CASE rp2 = rp /\ rp.here
  <2> a <= From(u, lo2) BY <1>2, <1>3, <1>4
  <2> Window(rp2, u, a, s, lo2) BY <1>1, <1>5 DEF Window
  <2> QED BY <1>1, <1>5 DEF Tab
<1>6. CASE ~rp2.here
  <2> DEFINE b == From(u, lo2)
  <2>1. b \in (u + 1)..(Len(s) + 1) /\ b \in a..(Len(s) + 1) /\ a \in 1..(Len(s) + 1) /\ u \in 0..u
    BY <1>0, <1>2, <1>3, <1>4
  <2> HIDE DEF b
  <2>2. Up(rep, s, u, a) => Up(rep, s, u, b) BY <1>2, <2>1, UpLess
  <2>3. TabOK(rep, u, b, s) BY <1>1, <2>1, <2>2 DEF TabOK
  <2> QED BY <1>6, <2>3 DEF Tab, b
<1> QED BY <1>5, <1>6

(* The server answers with the rows after the cursor.                      *)
LEMMA TabAnswer ==
  ASSUME NEW s \in Seq(RowSet), NEW rep, NEW u, NEW rp, NEW lo \in 1..Len(s),
         s[lo].kind = "snapshot", ~rp.here, Tab(rep, u, rp, s, lo),
         NEW rp2, rp2.here, rp2.end = Len(s), rp2.rows = SubSeq(s, From(u, lo), Len(s))
  PROVE  Tab(rep, u, rp2, s, lo)
<1>0. Len(s) \in Nat BY LenProperties, Zenon
<1>1. TabOK(rep, u, From(u, lo), s) BY DEF Tab
<1>2. u \in 0..Len(s) BY <1>1 DEF TabOK
<1>3. Window(rp2, u, From(u, lo), s, lo)
  <2>1. CASE u < lo BY <1>0, <1>2, <2>1 DEF Window, From
  <2>2. CASE ~(u < lo) BY <1>0, <1>2, <2>2 DEF Window, From
  <2> QED BY <2>1, <2>2
<1> QED BY <1>1, <1>3 DEF Tab

(* The response arrives, and its cursor is taken over or not.              *)
LEMMA TabReceive ==
  ASSUME NEW s \in Seq(RowSet), CheckpointsReplay(s), Distinct(IntentsOf(s)),
         NEW rep, NEW u, NEW rp, NEW lo \in 1..Len(s), rp.here, Tab(rep, u, rp, s, lo),
         NEW sent, NEW v \in {u, rp.end}, NEW rp2, ~rp2.here
  PROVE  Tab(Applied(rep, rp, sent), v, rp2, s, lo)
<1> DEFINE e == rp.end
           up == ReceiveRows(rep, rp.rows)
           rep2 == Applied(rep, rp, sent)
           b == From(v, lo)
<1>0. Len(s) \in Nat BY LenProperties, Zenon
<1>1. PICK a : TabOK(rep, u, a, s) /\ Window(rp, u, a, s, lo) BY DEF Tab
<1>2. /\ u \in 0..Len(s) /\ a \in (u + 1)..(Len(s) + 1) /\ rep \in Replicas
      /\ (~rep.live /\ u = 0 /\ rep.deferred = <<>>) \/ Up(rep, s, u, a)
  BY <1>1 DEF TabOK
<1>3. /\ e \in u..Len(s) /\ a <= e + 1 /\ a <= From(u, lo)
      /\ rp.rows = SubSeq(s, a, e)
      /\ (a = u + 1 /\ u >= 1) \/ (a <= e /\ s[a].kind = "snapshot")
  BY <1>1 DEF Window
<1>4. v = u \/ v = e OBVIOUS
<1>5. rep2 = IF sent = <<>> THEN up
             ELSE ReleaseDeferred([up EXCEPT !.outbox =
                    SettlePending(up.outbox, {x[1] : x \in rp.verdicts})])
  BY DEF Applied, ReceiveDispositions
<1> HIDE DEF e, rep2
<1>6. e \in (a - 1)..Len(s) /\ e \in 0..Len(s) /\ a \in 1..(Len(s) + 1) BY <1>0, <1>2, <1>3
<1>7. up = ReceiveRows(rep, SubSeq(s, a, e)) BY <1>3
<1>8. Up(up, s, e, a)
  <2> HIDE DEF up
  <2>1. Up(ReceiveRows(rep, SubSeq(s, a, e)), s, e, a) BY <1>2, <1>3, <1>6, WindowDone
  <2> QED BY <1>7, <2>1
<1>9. up \in Replicas BY <1>8 DEF Up, Canonical
<1> HIDE DEF up
<1>10. rep2 \in Replicas /\ Up(rep2, s, e, a)
  <2>1. CASE sent = <<>> BY <1>5, <1>8, <1>9, <2>1
  <2>2. CASE sent # <<>>
    <3> DEFINE o == SettlePending(up.outbox, {x[1] : x \in rp.verdicts})
               settled == [up EXCEPT !.outbox = o]
    <3>1. o \in Seq(IntentUpdates) BY <1>9, SettleIs DEF Replicas
    <3> HIDE DEF o
    <3>2. settled \in Replicas BY <1>9, <3>1 DEF Replicas
    <3>3. /\ settled.live = up.live /\ settled.boot = up.boot /\ settled.seq = up.seq
          /\ settled.doc = up.doc /\ settled.applied = up.applied
          /\ settled.deferred = up.deferred
      BY <1>9 DEF Replicas
    <3>4. rep2 = ReleaseDeferred(settled) BY <1>5, <2>2 DEF o
    <3> HIDE DEF settled
    <3>5. Up(settled, s, e, a) BY <1>8, <3>2, <3>3, UpSame
    <3>6. Up(ReleaseDeferred(settled), s, e, a) BY <1>6, <3>2, <3>5, ReleaseDone
    <3>7. Up(rep2, s, e, a) BY <3>4, <3>6
    <3> QED BY <3>7 DEF Up, Canonical
  <2> QED BY <2>1, <2>2
<1>11. v \in 0..e /\ v \in 0..Len(s) /\ a \in Nat BY <1>0, <1>2, <1>3, <1>4
<1>12. b \in a..(Len(s) + 1) /\ b \in (v + 1)..(Len(s) + 1)
  BY <1>0, <1>2, <1>3, <1>4, <1>11 DEF From
<1> HIDE DEF b
<1>13. Up(rep2, s, v, b) BY <1>6, <1>10, <1>11, <1>12, UpLess
<1>14. TabOK(rep2, v, b, s) BY <1>10, <1>11, <1>12, <1>13 DEF TabOK
<1>15. Tab(rep2, v, rp2, s, lo) BY <1>14 DEF Tab, b
<1> QED BY <1>15 DEF rep2

-----------------------------------------------------------------------------
(* Every step keeps the tabs canonical.                                    *)

(* Tabs that have not received anything.                                   *)
LEMMA TabsInit == Init => TabsInv
<1> SUFFICES ASSUME Init, NEW c \in Clients
             PROVE  Tab(replica[c], cursor[c], reply[c], rows, first)
  BY DEF TabsInv
<1>1. /\ replica[c] = FreshReplica /\ cursor[c] = 0 /\ reply[c] = NoReply
      /\ first = 1 /\ Len(rows) = 1
  BY DEF Init, EngineInit
<1>2. FreshReplica \in Replicas /\ ~FreshReplica.live /\ FreshReplica.deferred = <<>>
  <2> <<>> \in Seq(Ids) /\ <<>> \in Seq(IntentUpdates) /\ <<>> \in Seq(RowSet) OBVIOUS
  <2> QED BY DEF FreshReplica, Replicas
<1>3. From(0, 1) = 1 /\ ~NoReply.here BY DEF From, NoReply
<1>4. TabOK(replica[c], cursor[c], 1, rows) BY <1>1, <1>2 DEF TabOK
<1> QED BY <1>1, <1>3, <1>4 DEF Tab

(* The editor changes pending work and the review list only.               *)
LEMMA EditorKeepsTabs ==
  ASSUME NetInv, TabsInv, UNCHANGED <<engineVars, netVars>>,
         NEW c \in Clients, NEW rep \in Replicas, replica' = [replica EXCEPT ![c] = rep],
         rep.live = replica[c].live, rep.boot = replica[c].boot, rep.seq = replica[c].seq,
         rep.doc = replica[c].doc, rep.applied = replica[c].applied,
         rep.deferred = replica[c].deferred
  PROVE  TabsInv'
<1> SUFFICES ASSUME NEW d \in Clients
             PROVE  Tab(replica'[d], cursor'[d], reply'[d], rows', first')
  BY DEF TabsInv
<1>1. rows' = rows /\ first' = first /\ cursor' = cursor /\ reply' = reply
  BY DEF engineVars, netVars
<1>2. Tab(replica[d], cursor[d], reply[d], rows, first) BY DEF TabsInv
<1>3. replica \in [Clients -> Replicas] BY DEF NetInv, ClientTypes
<1>4. CASE d = c
  <2>1. replica'[d] = rep BY <1>3, <1>4
  <2>2. Tab(rep, cursor[d], reply[d], rows, first) BY <1>2, <1>4, TabSame
  <2> QED BY <1>1, <2>1, <2>2
<1>5. CASE d # c BY <1>1, <1>2, <1>3, <1>5
<1> QED BY <1>4, <1>5

(* Nothing that a tab has received, or is about to, changes.               *)
LEMMA TabsUnmoved ==
  ASSUME TabsInv, UNCHANGED <<replica, cursor, reply, rows, first>> PROVE TabsInv'
BY DEF TabsInv

(* The response to a tab is lost, or rows are trimmed.                     *)
LEMMA TabsTrimmed ==
  ASSUME NetInv, TabsInv, UNCHANGED <<replica, cursor, rows>>, first' \in first..Len(rows),
         \A c \in Clients : reply'[c] = reply[c] \/ ~reply'[c].here
  PROVE  TabsInv'
<1> SUFFICES ASSUME NEW d \in Clients
             PROVE  Tab(replica'[d], cursor'[d], reply'[d], rows', first')
  BY DEF TabsInv
<1>1. Tab(replica[d], cursor[d], reply[d], rows, first) BY DEF TabsInv
<1>2. rows \in Seq(RowSet) /\ first \in 1..Len(rows) BY DEF NetInv, EngineInv, TableOK
<1>3. Tab(replica[d], cursor[d], reply'[d], rows, first') BY <1>1, <1>2, TabTrim
<1> QED BY <1>3

(* A statement of an ingest adds a row or trims some.                      *)
LEMMA StepKeepsTabs ==
  ASSUME NetInv, TabsInv, ServerStep PROVE TabsInv'
<1>1. IngestStep /\ UNCHANGED <<replica, cursor, reply>>
  BY DEF ServerStep, clientVars, netVars
<1>2. TableOK /\ IngestOK BY DEF NetInv, EngineInv
<1>3. rows \in Seq(RowSet) /\ first \in 1..Len(rows) BY <1>2 DEF TableOK
<1>4. Len(rows) \in Nat BY <1>3, LenProperties, Zenon
<1>5. CASE IngestInsert
  <2>1. first' = first BY <1>5 DEF IngestInsert
  <2>2. Head(ingest.todo).row \in RowSet /\ rows' = Append(rows, Head(ingest.todo).row)
    BY <1>2, <1>5, FutureOfInsert
  <2> SUFFICES ASSUME NEW d \in Clients
               PROVE  Tab(replica'[d], cursor'[d], reply'[d], rows', first')
    BY DEF TabsInv
  <2>3. Tab(replica[d], cursor[d], reply[d], rows, first) BY DEF TabsInv
  <2>4. Tab(replica[d], cursor[d], reply[d], Append(rows, Head(ingest.todo).row), first)
    BY <1>3, <2>2, <2>3, TabAppend
  <2> QED BY <1>1, <2>1, <2>2, <2>4
<1>6. CASE IngestTrim
  <2>1. /\ ingest # NoIngest /\ ingest.todo # <<>> /\ Head(ingest.todo).do = "trim"
        /\ first' = Head(ingest.todo).below /\ rows' = rows
    BY <1>6 DEF IngestTrim, Doing
  <2>2. ingest.todo \in Seq(OpSet) /\ MetaOK(ingest.todo, rows, first, ckpt)
    BY <1>2, <2>1 DEF IngestOK, Ingests
  <2>3. Head(ingest.todo) = ingest.todo[1] /\ Len(ingest.todo) \in Nat \ {0}
    <3> DEFINE t == ingest.todo
    <3> HIDE DEF t
    <3>1. t \in Seq(OpSet) /\ t # <<>> BY <2>1, <2>2 DEF t
    <3>2. Head(t) = t[1] /\ Len(t) \in Nat \ {0} BY <3>1, EmptySeq
    <3> QED BY <3>2 DEF t
  <2>4. ckpt # 0 /\ Head(ingest.todo).below \in first..ckpt
    <3> 1 \in 1..Len(ingest.todo) BY <2>3
    <3> QED BY <2>1, <2>2, <2>3 DEF MetaOK
  <2>5. ckpt \in first..Len(rows) BY <1>2, <2>4 DEF TableOK
  <2>6. first' \in first..Len(rows) BY <1>3, <1>4, <2>1, <2>4, <2>5
  <2> QED BY <1>1, <2>1, <2>6, TabsTrimmed
<1>7. CASE IngestMark \/ IngestFloor \/ IngestInsertFails
  BY <1>1, <1>7, TabsUnmoved DEF IngestMark, IngestFloor, IngestInsertFails
<1> QED BY <1>1, <1>5, <1>6, <1>7 DEF IngestStep

(* The answer carries the rows from the cursor, or from a checkpoint.      *)
LEMMA AnswerKeepsTabs ==
  ASSUME NetInv, TabsInv, NEW r \in inbox, ServerAnswer(r) PROVE TabsInv'
<1> DEFINE c == r.client
           rp == [here |-> TRUE, rows |-> RowsSince(r.cursor), end |-> Len(rows),
                  verdicts |-> r.verdicts]
<1>1. /\ r.ingested /\ reply' = [reply EXCEPT ![c] = rp]
      /\ replica' = replica /\ cursor' = cursor /\ rows' = rows /\ first' = first
  BY DEF ServerAnswer, engineVars, clientVars
<1>2. TableOK /\ OneRequest /\ NetTypes BY DEF NetInv, EngineInv
<1>3. c \in Clients /\ r.cursor \in Nat BY <1>2 DEF NetTypes, RequestSet
<1>4. r.cursor = cursor[c] /\ ~reply[c].here BY <1>1, <1>2 DEF OneRequest
<1>5. rows \in Seq(RowSet) /\ first \in 1..Len(rows) /\ rows[first].kind = "snapshot"
  BY <1>2 DEF TableOK
<1>6. RowsSince(r.cursor) = SubSeq(rows, From(cursor[c], first), Len(rows))
  <2>1. RowsSince(r.cursor) = SubSeq(rows, SinceFrom(r.cursor), Len(rows)) BY <1>2, <1>3, RowsSinceIs
  <2>2. SinceFrom(r.cursor) = From(r.cursor, first) BY <1>2, <1>3, SinceFromIs
  <2> QED BY <1>4, <2>1, <2>2
<1>7. DOMAIN reply = Clients BY <1>2 DEF NetTypes
<1> SUFFICES ASSUME NEW d \in Clients
             PROVE  Tab(replica'[d], cursor'[d], reply'[d], rows', first')
  BY DEF TabsInv
<1>8. Tab(replica[d], cursor[d], reply[d], rows, first) BY DEF TabsInv
<1>9. CASE d = c
  <2>1. reply'[d] = rp BY <1>1, <1>7, <1>9
  <2>2. rp.here /\ rp.end = Len(rows) /\ rp.rows = SubSeq(rows, From(cursor[c], first), Len(rows))
    BY <1>6
  <2> HIDE DEF rp
  <2>3. Tab(replica[d], cursor[d], rp, rows, first) BY <1>4, <1>5, <1>8, <1>9, <2>2, TabAnswer
  <2> QED BY <1>1, <2>1, <2>3
<1>10. CASE d # c BY <1>1, <1>7, <1>8, <1>10
<1> QED BY <1>9, <1>10

(* applyRoomRows(): a response, again or for the first time.               *)
LEMMA ReceiveKeepsTabs ==
  ASSUME NetInv, TabsInv, Distinct(IntentsOf(rows)), NEW c \in Clients, Receive(c) PROVE TabsInv'
<1>1. /\ reply[c].here
      /\ replica' = [replica EXCEPT ![c] = Applied(replica[c], reply[c], flight[c].updates)]
      /\ cursor' = [cursor EXCEPT ![c] = reply[c].end] \/ cursor' = cursor
      /\ reply' = [reply EXCEPT ![c] = NoReply]
      /\ rows' = rows /\ first' = first
  BY DEF Receive, engineVars
<1>2. TableOK /\ ClientTypes /\ NetTypes /\ SnapshotsReplay BY DEF NetInv, EngineInv
<1>3. rows \in Seq(RowSet) /\ first \in 1..Len(rows) BY <1>2 DEF TableOK
<1>4. CheckpointsReplay(rows) BY <1>2, TableReplays
<1>5. DOMAIN replica = Clients /\ DOMAIN cursor = Clients /\ DOMAIN reply = Clients
  BY <1>2 DEF ClientTypes, NetTypes
<1> SUFFICES ASSUME NEW d \in Clients
             PROVE  Tab(replica'[d], cursor'[d], reply'[d], rows', first')
  BY DEF TabsInv
<1>6. Tab(replica[d], cursor[d], reply[d], rows, first) BY DEF TabsInv
<1>7. CASE d = c
  <2>1. /\ replica'[d] = Applied(replica[c], reply[c], flight[c].updates)
        /\ reply'[d] = NoReply /\ cursor'[d] \in {cursor[c], reply[c].end}
    BY <1>1, <1>5, <1>7
  <2>2. ~NoReply.here BY DEF NoReply
  <2>3. ~reply'[d].here BY <2>1, <2>2
  <2> DEFINE v == cursor'[d]
             rp2 == reply'[d]
  <2> HIDE DEF v, rp2
  <2>4. v \in {cursor[c], reply[c].end} /\ ~rp2.here BY <2>1, <2>3 DEF v, rp2
  <2>5. Tab(Applied(replica[c], reply[c], flight[c].updates), v, rp2, rows, first)
    BY <1>1, <1>3, <1>4, <1>6, <1>7, <2>4, TabReceive
  <2> QED BY <1>1, <2>1, <2>5 DEF v, rp2
<1>8. CASE d # c BY <1>1, <1>5, <1>6, <1>8
<1> QED BY <1>7, <1>8

(* Every step leaves each tab with all it has received.                    *)
LEMMA TabsStep ==
  ASSUME NetInv, NetInv', TabsInv, Distinct(IntentsOf(rows)), [Next]_vars PROVE TabsInv'
<1>0. ClientTypes /\ ClientTypes' /\ NetTypes /\ TableOK BY DEF NetInv, EngineInv
<1>a. first \in first..Len(rows)
  <2>1. rows \in Seq(RowSet) /\ first \in 1..Len(rows) BY <1>0 DEF TableOK
  <2>2. Len(rows) \in Nat BY <2>1, LenProperties, Zenon
  <2> QED BY <2>1, <2>2
<1>b. ASSUME NEW c \in Clients, NEW rep, replica' = [replica EXCEPT ![c] = rep]
      PROVE  rep \in Replicas
  <2> replica'[c] = rep /\ replica'[c] \in Replicas BY <1>0, <1>b DEF ClientTypes
  <2> QED OBVIOUS
<1>c. ASSUME NEW c \in Clients, NEW o PROVE
        LET q == [replica[c] EXCEPT !.outbox = o]
            p == [replica[c] EXCEPT !.resolved = o]
        IN  /\ q.live = replica[c].live /\ q.boot = replica[c].boot /\ q.seq = replica[c].seq
            /\ q.doc = replica[c].doc /\ q.applied = replica[c].applied
            /\ q.deferred = replica[c].deferred
            /\ p.live = replica[c].live /\ p.boot = replica[c].boot /\ p.seq = replica[c].seq
            /\ p.doc = replica[c].doc /\ p.applied = replica[c].applied
            /\ p.deferred = replica[c].deferred
  <2> replica[c] \in Replicas BY <1>0 DEF ClientTypes
  <2> QED BY DEF Replicas
<1>d. ASSUME NEW c \in Clients, NEW o, UNCHANGED <<engineVars, netVars>>,
             \/ replica' = [replica EXCEPT ![c] = [replica[c] EXCEPT !.outbox = o]]
             \/ replica' = [replica EXCEPT ![c] = [replica[c] EXCEPT !.resolved = o]]
      PROVE  TabsInv'
  <2> DEFINE q == [replica[c] EXCEPT !.outbox = o]
             p == [replica[c] EXCEPT !.resolved = o]
  <2>1. CASE replica' = [replica EXCEPT ![c] = q]
    <3>1. q \in Replicas BY <1>b, <2>1
    <3> QED BY <1>c, <1>d, <2>1, <3>1, EditorKeepsTabs
  <2>2. CASE replica' = [replica EXCEPT ![c] = p]
    <3>1. p \in Replicas BY <1>b, <2>2
    <3> QED BY <1>c, <1>d, <2>2, <3>1, EditorKeepsTabs
  <2> QED BY <1>d, <2>1, <2>2
<1>1. CASE UNCHANGED vars
  BY <1>1, TabsUnmoved DEF vars, engineVars, clientVars, netVars
<1>2. ASSUME NEW c \in Clients, NEW size \in UnitSizes, NEW lag \in 0..MaxLag,
             Author(c, size, lag)
      PROVE  TabsInv'
  <2> \E o : replica' = [replica EXCEPT ![c] = [replica[c] EXCEPT !.outbox = o]]
    BY <1>0, <1>2 DEF Author, ClientTypes
  <2> QED BY <1>d, <1>2 DEF Author
<1>3. ASSUME NEW c \in Clients, NEW txn \in 1..MaxEdits, CancelPending(c, txn)
      PROVE  TabsInv'
  <2> \E o : replica' = [replica EXCEPT ![c] = [replica[c] EXCEPT !.outbox = o]]
    BY <1>0, <1>3 DEF CancelPending, ClientTypes
  <2> UNCHANGED <<engineVars, netVars>> BY <1>3 DEF CancelPending
  <2> QED BY <1>d
<1>4. ASSUME NEW c \in Clients, NEW i \in Ids, ResolveProposal(c, i) PROVE TabsInv'
  <2> \E o : replica' = [replica EXCEPT ![c] = [replica[c] EXCEPT !.resolved = o]]
    BY <1>0, <1>4 DEF ResolveProposal, ClientTypes
  <2> UNCHANGED <<engineVars, netVars>> BY <1>4 DEF ResolveProposal
  <2> QED BY <1>d
<1>5. ASSUME NEW c \in Clients, Send(c) PROVE TabsInv'
  BY <1>5, TabsUnmoved DEF Send, engineVars
<1>6. ASSUME NEW c \in Clients, Receive(c) PROVE TabsInv' BY <1>6, ReceiveKeepsTabs
<1>7. ASSUME NEW c \in Clients, RequestFails(c) PROVE TabsInv'
  <2>1. /\ reply' = [reply EXCEPT ![c] = NoReply] /\ UNCHANGED <<replica, cursor, rows, first>>
    BY <1>7 DEF RequestFails, GiveUp, engineVars
  <2>2. \A d \in Clients : reply'[d] = reply[d] \/ ~reply'[d].here
    BY <1>0, <2>1 DEF NetTypes, NoReply
  <2> QED BY <1>a, <2>1, <2>2, TabsTrimmed
<1>8. ASSUME NEW r \in inbox, ServerIngest(r) PROVE TabsInv'
  BY <1>8, TabsUnmoved DEF ServerIngest, IngestStart, clientVars
<1>9. ASSUME NEW r \in inbox, ServerAnswer(r) PROVE TabsInv' BY <1>9, AnswerKeepsTabs
<1>10. CASE ServerStep BY <1>10, StepKeepsTabs
<1>11. CASE ServerEnd
  BY <1>11, TabsUnmoved DEF ServerEnd, IngestEnd, clientVars
<1>12. CASE ServerDies
  <2>1. UNCHANGED <<replica, cursor, rows, first>> BY <1>12 DEF ServerDies, IngestDies
  <2>a. reply' = reply \/ reply' = [reply EXCEPT ![ingest.client] = NoReply]
    BY <1>12 DEF ServerDies, GiveUp
  <2>2. \A d \in Clients : reply'[d] = reply[d] \/ ~reply'[d].here
    BY <1>0, <2>a DEF NetTypes, NoReply
  <2> QED BY <1>a, <2>1, <2>2, TabsTrimmed
<1> QED BY <1>1, <1>2, <1>3, <1>4, <1>5, <1>6, <1>7, <1>8, <1>9, <1>10, <1>11, <1>12 DEF Next

-----------------------------------------------------------------------------
(* Copies of an intent that are under way.                                 *)

(* The parts of what a tab has sent.                                       *)
LEMMA SentPart ==
  ASSUME NEW A \in Seq(UpdateSet), NEW B \in Seq(UpdateSet), NEW c, NEW G, NEW n, NEW m,
         Sent(A \o B, c, G, n, m)
  PROVE  Sent(A, c, G, n, m) /\ Sent(B, c, G, n, m)
<1> DEFINE us == A \o B
<1>1. /\ us \in Seq(UpdateSet) /\ Len(us) = Len(A) + Len(B)
      /\ \A i \in 1..Len(A) + Len(B) : us[i] = IF i <= Len(A) THEN A[i] ELSE B[i - Len(A)]
  BY ConcatProperties, Zenon
<1>2. Len(A) \in Nat /\ Len(B) \in Nat BY LenProperties, Zenon
<1>3. Sent(us, c, G, n, m) OBVIOUS
<1> HIDE DEF us
<1>4. \A i \in 1..Len(A) : i \in 1..Len(us) /\ us[i] = A[i] BY <1>1, <1>2
<1>5. \A i \in 1..Len(B) : Len(A) + i \in 1..Len(us) /\ us[Len(A) + i] = B[i]
  <2> TAKE i \in 1..Len(B)
  <2> Len(A) + i \in 1..Len(A) + Len(B) /\ ~(Len(A) + i <= Len(A)) /\ Len(A) + i - Len(A) = i
    BY <1>2
  <2> QED BY <1>1
<1>6. Sent(A, c, G, n, m) BY <1>3, <1>4 DEF Sent
<1>7. Sent(B, c, G, n, m)
  <2>1. \A i \in 1..Len(B) : B[i].type = "intent" => AboveBase(B[i], c, G, n, m)
    BY <1>3, <1>5 DEF Sent
  <2>2. ASSUME NEW i \in 1..Len(B), NEW j \in 1..Len(B), B[i].type = "intent",
               B[j].type = "intent", B[i].id = B[j].id
        PROVE  i = j
    <3>1. Len(A) + i = Len(A) + j BY <1>3, <1>5, <2>2 DEF Sent
    <3> QED BY <1>2, <3>1
  <2> QED BY <2>1, <2>2 DEF Sent
<1> QED BY <1>6, <1>7

(* Sending something else as well.                                         *)
LEMMA SentOther ==
  ASSUME NEW A \in Seq(UpdateSet), NEW u \in UpdateSet, u.type # "intent",
         NEW c, NEW G, NEW n, NEW m, Sent(A, c, G, n, m)
  PROVE  Sent(Append(A, u), c, G, n, m)
<1> DEFINE us == Append(A, u)
<1>1. /\ Len(us) = Len(A) + 1 /\ us[Len(A) + 1] = u
      /\ \A i \in 1..Len(A) : us[i] = A[i]
  BY AppendProperties
<1>2. Len(A) \in Nat BY LenProperties, Zenon
<1> HIDE DEF us
<1>3. \A i \in 1..Len(us) : us[i].type = "intent" => i \in 1..Len(A) /\ us[i] = A[i]
  <2> TAKE i \in 1..Len(us)
  <2>1. CASE i = Len(A) + 1 BY <1>1, <2>1
  <2>2. CASE i # Len(A) + 1
    <3> i \in 1..Len(A) BY <1>1, <1>2, <2>2
    <3> QED BY <1>1
  <2> QED BY <2>1, <2>2
<1>4. Sent(us, c, G, n, m) BY <1>3 DEF Sent
<1> QED BY <1>4 DEF us

(* The log H keeps the entries of G or has new ones above n.               *)
Follows(G, H, n) ==
  \A p \in 1..Len(H) : (p \in 1..Len(G) /\ H[p] = G[p]) \/ p > n

(* The log continues, and the tab authors more.                            *)
LEMMA SentLater ==
  ASSUME NEW us \in Seq(UpdateSet), NEW c, NEW G, NEW H, NEW n \in Nat, NEW n2 \in Nat, n <= n2,
         NEW m \in Nat, NEW m2 \in Nat, m <= m2, Follows(G, H, n), Sent(us, c, G, n, m)
  PROVE  Sent(us, c, H, n2, m2)
<1>1. \A i \in 1..Len(us) : us[i] \in UpdateSet BY ElementOfSeq, Zenon
<1>2. ASSUME NEW i \in 1..Len(us), us[i].type = "intent"
      PROVE  AboveBase(us[i], c, H, n2, m2)
  <2> DEFINE x == us[i]
  <2>1. x \in IntentUpdates BY <1>1, <1>2 DEF UpdateSet
  <2>2. AboveBase(x, c, G, n, m) BY <1>2 DEF Sent
  <2> HIDE DEF x
  <2>3. x.base \in Nat /\ x.id[2] \in Nat
    BY <2>1, EngineAssumption DEF IntentUpdates, Ids
  <2>4. x.id[1] = c /\ x.id[2] <= m2 /\ x.base <= n2 BY <2>2, <2>3 DEF AboveBase
  <2>5. ASSUME NEW p \in 1..Len(H), H[p].id = x.id PROVE p > x.base
    <3>1. CASE p \in 1..Len(G) /\ H[p] = G[p] BY <2>2, <2>5, <3>1 DEF AboveBase
    <3>2. CASE p > n BY <2>2, <2>3, <3>2 DEF AboveBase
    <3> QED BY <3>1, <3>2 DEF Follows
  <2>6. AboveBase(x, c, H, n2, m2) BY <2>4, <2>5 DEF AboveBase
  <2> QED BY <2>6 DEF x
<1> QED BY <1>2 DEF Sent

(* They are updates.                                                       *)
LEMMA OutgoingType ==
  ASSUME NEW f \in Flights, NEW q \in Seq(UpdateSet)
  PROVE  /\ f.busy => f.updates \in Seq(UpdateSet)
         /\ (IF f.busy THEN f.updates \o q ELSE q) \in Seq(UpdateSet)
<1>1. f.busy => f.updates \in Seq(UpdateSet)
  <2>1. CASE f = Idle BY <2>1 DEF Idle
  <2>2. CASE f \in [busy : {TRUE}, updates : Seq(UpdateSet)] BY <2>2
  <2> QED BY <2>1, <2>2 DEF Flights
<1>2. f.busy => f.updates \o q \in Seq(UpdateSet) BY <1>1, ConcatProperties, Zenon
<1> QED BY <1>1, <1>2

(* What a step must show: the log stays without repetitions, new entries   *)
(* are above those of the table, and nothing new is sent unless it fits.   *)
LEMMA OnceLater ==
  ASSUME NetInv, NetInv', NEW G, NEW n \in Nat, n <= Len(IntentsOf(rows')),
         LogOnce(IntentsOf(Future'), authored'), Follows(G, IntentsOf(Future'), n),
         \A c \in Clients : Sent(Outgoing(c)', c, G, n, Len(authored'[c])),
         \A r \in inbox' : Sent(r.updates, r.client, G, n, Len(authored'[r.client]))
  PROVE  OnceInv'
<1>1. ClientTypes' /\ NetTypes' /\ TableOK' BY DEF NetInv, EngineInv
<1>2. rows' \in Seq(RowSet) BY <1>1 DEF TableOK
<1>3. IntentsOf(rows') \in Seq(Entries) BY <1>2, IntentsOfType
<1>4. Len(IntentsOf(rows')) \in Nat BY <1>3, LenProperties, Zenon
<1>5. \A c \in Clients : Len(authored'[c]) \in Nat BY <1>1, LenProperties DEF ClientTypes
<1>6. \A c \in Clients : Outgoing(c)' \in Seq(UpdateSet)
  <2> TAKE c \in Clients
  <2> flight'[c] \in Flights /\ queue'[c] \in Seq(UpdateSet) BY <1>1 DEF ClientTypes, NetTypes
  <2> QED BY OutgoingType DEF Outgoing
<1>7. \A r \in inbox' : r.client \in Clients /\ r.updates \in Seq(UpdateSet)
  BY <1>1 DEF NetTypes, RequestSet
<1>8. ASSUME NEW us \in Seq(UpdateSet), NEW c \in Clients, Sent(us, c, G, n, Len(authored'[c]))
      PROVE  Sent(us, c, IntentsOf(Future'), Len(IntentsOf(rows')), Len(authored'[c]))
  <2> Len(authored'[c]) <= Len(authored'[c]) BY <1>5
  <2> QED BY <1>4, <1>5, <1>8, SentLater
<1>9. \A c \in Clients : Sent(Outgoing(c)', c, IntentsOf(Future'), Len(IntentsOf(rows')), Len(authored'[c]))
  BY <1>6, <1>8
<1>10. \A r \in inbox' : Sent(r.updates, r.client, IntentsOf(Future'), Len(IntentsOf(rows')), Len(authored'[r.client]))
  BY <1>7, <1>8
<1> QED BY <1>9, <1>10 DEF OnceInv

-----------------------------------------------------------------------------
(* The steps that accept nothing.                                          *)

(* Nothing is under way in a new room.                                     *)
LEMMA OnceInit == Init => OnceInv
<1> SUFFICES ASSUME Init PROVE OnceInv OBVIOUS
<1>1. Future = rows BY NetInit
<1>2. rows = <<Snapshot(0, <<>>)>> /\ inbox = {} BY DEF Init, EngineInit
<1>3. IntentsOf(rows) = <<>>
  <2>1. IntentsOf(<<Snapshot(0, <<>>)>>) = <<>> BY IntentsOfOne DEF Snapshot
  <2> QED BY <1>2, <2>1
<1>4. Len(<<>>) = 0 /\ 1..0 = {} OBVIOUS
<1>5. \A c \in Clients : Outgoing(c) = <<>> BY DEF Init, Outgoing, Idle
<1>6. LogOnce(IntentsOf(rows), authored) BY <1>3, <1>4 DEF LogOnce, Distinct
<1>7. \A c \in Clients : Sent(Outgoing(c), c, IntentsOf(rows), Len(IntentsOf(rows)), Len(authored[c]))
  BY <1>4, <1>5 DEF Sent
<1> QED BY <1>1, <1>2, <1>6, <1>7 DEF OnceInv

(* A step that leaves the log alone.                                       *)
LEMMA QuietOnce ==
  ASSUME NetInv, NetInv', OnceInv, IntentsOf(Future') = IntentsOf(Future),
         Len(IntentsOf(rows)) <= Len(IntentsOf(rows')), authored' = authored,
         \A c \in Clients :
           Sent(Outgoing(c)', c, IntentsOf(Future), Len(IntentsOf(rows)), Len(authored[c])),
         \A r \in inbox' :
           Sent(r.updates, r.client, IntentsOf(Future), Len(IntentsOf(rows)), Len(authored[r.client]))
  PROVE  OnceInv'
<1> DEFINE G == IntentsOf(Future)
           n == Len(IntentsOf(rows))
<1>1. rows \in Seq(RowSet) BY DEF NetInv, EngineInv, TableOK
<1>2. IntentsOf(rows) \in Seq(Entries) BY <1>1, IntentsOfType
<1>3. n \in Nat BY <1>2, LenProperties, Zenon
<1>4. LogOnce(IntentsOf(Future'), authored') BY DEF OnceInv
<1>5. Follows(G, IntentsOf(Future'), n) BY DEF Follows
<1> HIDE DEF G, n
<1>6. n <= Len(IntentsOf(rows')) BY DEF n
<1>7. \A c \in Clients : Sent(Outgoing(c)', c, G, n, Len(authored'[c])) BY DEF G, n
<1>8. \A r \in inbox' : Sent(r.updates, r.client, G, n, Len(authored'[r.client])) BY DEF G, n
<1> QED BY <1>3, <1>4, <1>5, <1>6, <1>7, <1>8, OnceLater

(* The same while the table stays as it is.                                *)
LEMMA StillOnce ==
  ASSUME NetInv, NetInv', OnceInv, Future' = Future, rows' = rows, authored' = authored,
         \A c \in Clients :
           Sent(Outgoing(c)', c, IntentsOf(Future), Len(IntentsOf(rows)), Len(authored[c])),
         \A r \in inbox' :
           Sent(r.updates, r.client, IntentsOf(Future), Len(IntentsOf(rows)), Len(authored[r.client]))
  PROVE  OnceInv'
<1>1. rows \in Seq(RowSet) BY DEF NetInv, EngineInv, TableOK
<1>2. IntentsOf(rows) \in Seq(Entries) BY <1>1, IntentsOfType
<1>3. Len(IntentsOf(rows)) \in Nat BY <1>2, LenProperties, Zenon
<1>4. Len(IntentsOf(rows)) <= Len(IntentsOf(rows')) BY <1>3
<1> QED BY <1>4, QuietOnce

(* Undo and review only add updates that are not intents.                  *)
LEMMA OtherKeepsOnce ==
  ASSUME NetInv, NetInv', OnceInv, Future' = Future, NEW c \in Clients, NEW u \in UpdateSet,
         u.type # "intent", queue' = [queue EXCEPT ![c] = Append(queue[c], u)],
         UNCHANGED <<rows, authored, flight, inbox>>
  PROVE  OnceInv'
<1> DEFINE G == IntentsOf(Future)
           n == Len(IntentsOf(rows))
<1>1. ClientTypes /\ NetTypes BY DEF NetInv
<1>2. \A d \in Clients : Sent(Outgoing(d), d, G, n, Len(authored[d])) BY DEF OnceInv
<1>3. \A r \in inbox : Sent(r.updates, r.client, G, n, Len(authored[r.client])) BY DEF OnceInv
<1> HIDE DEF G, n
<1>4. ASSUME NEW d \in Clients PROVE Sent(Outgoing(d)', d, G, n, Len(authored[d]))
  <2>1. CASE d = c
    <3> DEFINE A == flight[c].updates
               q == queue[c]
    <3>1. queue'[c] = Append(q, u) /\ flight' = flight BY <1>1 DEF ClientTypes
    <3>2. q \in Seq(UpdateSet) /\ Outgoing(c) \in Seq(UpdateSet)
          /\ (flight[c].busy => A \in Seq(UpdateSet))
      BY <1>1, OutgoingType DEF ClientTypes, NetTypes, Outgoing
    <3>3. Outgoing(c)' = Append(Outgoing(c), u)
      <4>1. CASE flight[c].busy
        <5>1. A \in Seq(UpdateSet) BY <3>2, <4>1
        <5>2. Outgoing(c) = A \o q /\ Outgoing(c)' = A \o Append(q, u)
          BY <3>1, <4>1 DEF Outgoing
        <5> HIDE DEF A, q
        <5>3. <<u>> \in Seq(UpdateSet) OBVIOUS
        <5>4. Append(q, u) = q \o <<u>> BY <3>2, AppendIsConcat
        <5>5. Append(A \o q, u) = (A \o q) \o <<u>> BY <3>2, <5>2, AppendIsConcat
        <5>6. (A \o q) \o <<u>> = A \o (q \o <<u>>) BY <3>2, <5>1, <5>3, ConcatAssociative
        <5> QED BY <5>2, <5>4, <5>5, <5>6
      <4>2. CASE ~flight[c].busy BY <3>1, <4>2 DEF Outgoing
      <4> QED BY <4>1, <4>2
    <3>4. Sent(Outgoing(c), c, G, n, Len(authored[c])) BY <1>2
    <3>5. Sent(Append(Outgoing(c), u), c, G, n, Len(authored[c])) BY <3>2, <3>4, SentOther
    <3> QED BY <2>1, <3>3, <3>5
  <2>2. CASE d # c
    <3> Outgoing(d)' = Outgoing(d) BY <1>1, <2>2 DEF Outgoing, ClientTypes
    <3> QED BY <1>2
  <2> QED BY <2>1, <2>2
<1> QED BY <1>3, <1>4, StillOnce DEF G, n

(* A request takes the front of the queue along.                           *)
LEMMA SendKeepsOnce ==
  ASSUME NetInv, NetInv', OnceInv, Future' = Future, NEW c \in Clients, Send(c)
  PROVE  OnceInv'
<1> DEFINE G == IntentsOf(Future)
           n == Len(IntentsOf(rows))
           q == queue[c]
<1>1. ClientTypes /\ NetTypes BY DEF NetInv
<1>2. q \in Seq(UpdateSet) BY <1>1 DEF ClientTypes
<1>3. Len(q) \in Nat BY <1>2, LenProperties, Zenon
<1>4. ~flight[c].busy BY DEF Send
<1>5. PICK k \in 0..Len(q) :
        LET us == SubSeq(q, 1, k)
        IN  /\ flight' = [flight EXCEPT ![c] = Flight(us)]
            /\ queue' = [queue EXCEPT ![c] = SubSeq(q, k + 1, Len(q))]
            /\ inbox' = inbox \cup
                 {[client |-> c, attempt |-> attempt[c], cursor |-> cursor[c],
                   updates |-> us, ingested |-> k = 0, verdicts |-> {}]}
  <2>1. (IF Splits /\ queue[c] # <<>> THEN 1..Len(queue[c]) ELSE {Len(queue[c])}) \subseteq 0..Len(queue[c])
    BY <1>3
  <2> QED BY <2>1 DEF Send
<1>6. rows' = rows /\ authored' = authored BY DEF Send, engineVars
<1> DEFINE us == SubSeq(q, 1, k)
           rest == SubSeq(q, k + 1, Len(q))
<1>7. us \in Seq(UpdateSet) /\ rest \in Seq(UpdateSet) /\ q = us \o rest
  <2>1. CASE k = 0
    <3>1. us = <<>> BY <2>1, SubSeqEmpty
    <3>2. k + 1 = 1 BY <2>1
    <3>3. rest = q BY <1>2, <3>2, SubSeqFull
    <3>4. <<>> \o q = q /\ <<>> \in Seq(UpdateSet) BY <1>2, ConcatEmptySeq, EmptySeq, Zenon
    <3> QED BY <1>2, <3>1, <3>3, <3>4
  <2>2. CASE k # 0
    <3> k \in 1..Len(q) BY <1>3, <2>2
    <3> HIDE DEF q
    <3> QED BY <1>2, SplitAt
  <2> QED BY <2>1, <2>2
<1>8. \A d \in Clients : Sent(Outgoing(d), d, G, n, Len(authored[d])) BY DEF OnceInv
<1>9. \A r \in inbox : Sent(r.updates, r.client, G, n, Len(authored[r.client])) BY DEF OnceInv
<1> HIDE DEF G, n, us, rest, q
<1>10. Sent(q, c, G, n, Len(authored[c])) BY <1>4, <1>8 DEF Outgoing, q
<1>11. Sent(us, c, G, n, Len(authored[c])) BY <1>7, <1>10, SentPart
<1>12. ASSUME NEW d \in Clients PROVE Sent(Outgoing(d)', d, G, n, Len(authored[d]))
  <2>1. CASE d = c
    <3>1. flight'[c] = Flight(us) /\ queue'[c] = rest
      BY <1>1, <1>5 DEF ClientTypes, NetTypes, us, rest, q
    <3>2. Outgoing(c)' = us \o rest BY <3>1 DEF Outgoing, Flight
    <3> QED BY <1>7, <1>10, <2>1, <3>2
  <2>2. CASE d # c
    <3> flight'[d] = flight[d] /\ queue'[d] = queue[d]
      BY <1>1, <1>5, <2>2 DEF ClientTypes, NetTypes
    <3> QED BY <1>8 DEF Outgoing
  <2> QED BY <2>1, <2>2
<1>13. ASSUME NEW r \in inbox' PROVE Sent(r.updates, r.client, G, n, Len(authored[r.client]))
  <2>1. CASE r \in inbox BY <1>9, <2>1
  <2>2. CASE r \notin inbox
    <3> r.client = c /\ r.updates = us BY <1>5, <2>2 DEF us, q
    <3> QED BY <1>11
  <2> QED BY <2>1, <2>2
<1> QED BY <1>6, <1>12, <1>13, StillOnce DEF G, n

(* Neither the log nor the updates of any tab change; requests may finish  *)
(* or lose their updates.                                                  *)
LEMMA RequestsKeepOnce ==
  ASSUME NetInv, NetInv', OnceInv, Future' = Future,
         UNCHANGED <<rows, authored, flight, queue>>,
         \A r \in inbox' : r \in inbox \/ r.updates = <<>>
  PROVE  OnceInv'
<1>1. \A c \in Clients :
        Sent(Outgoing(c)', c, IntentsOf(Future), Len(IntentsOf(rows)), Len(authored[c]))
  BY DEF OnceInv, Outgoing
<1>2. \A r \in inbox' :
        Sent(r.updates, r.client, IntentsOf(Future), Len(IntentsOf(rows)), Len(authored[r.client]))
  <2> TAKE r \in inbox'
  <2>1. CASE r \in inbox BY <2>1 DEF OnceInv
  <2>2. CASE r.updates = <<>>
    <3> Len(r.updates) = 0 /\ 1..0 = {} BY <2>2
    <3> QED BY DEF Sent
  <2> QED BY <2>1, <2>2
<1> QED BY <1>1, <1>2, StillOnce

(* An answer: its updates are settled.                                     *)
LEMMA ReceiveKeepsOnce ==
  ASSUME NetInv, NetInv', OnceInv, Future' = Future, NEW c \in Clients, Receive(c)
  PROVE  OnceInv'
<1>1. /\ reply[c].here /\ flight' = [flight EXCEPT ![c] = Idle]
      /\ UNCHANGED <<rows, authored, queue, inbox>>
  BY DEF Receive, engineVars
<1>2. ClientTypes /\ NetTypes /\ OneRequest BY DEF NetInv
<1>3. flight[c].busy BY <1>1, <1>2 DEF OneRequest
<1>4. flight[c].updates \in Seq(UpdateSet) /\ queue[c] \in Seq(UpdateSet)
  BY <1>2, <1>3, OutgoingType DEF ClientTypes, NetTypes
<1> DEFINE G == IntentsOf(Future)
           n == Len(IntentsOf(rows))
<1>5. \A d \in Clients : Sent(Outgoing(d), d, G, n, Len(authored[d])) BY DEF OnceInv
<1>6. \A r \in inbox : Sent(r.updates, r.client, G, n, Len(authored[r.client])) BY DEF OnceInv
<1> HIDE DEF G, n
<1>7. ASSUME NEW d \in Clients PROVE Sent(Outgoing(d)', d, G, n, Len(authored[d]))
  <2>1. CASE d = c
    <3>1. ~flight'[c].busy BY <1>1, <1>2 DEF NetTypes, Idle
    <3>2. Outgoing(c)' = queue[c] BY <1>1, <3>1 DEF Outgoing
    <3>3. Sent(flight[c].updates \o queue[c], c, G, n, Len(authored[c]))
      BY <1>3, <1>5 DEF Outgoing
    <3>4. Sent(queue[c], c, G, n, Len(authored[c])) BY <1>4, <3>3, SentPart
    <3> QED BY <2>1, <3>2, <3>4
  <2>2. CASE d # c
    <3> Outgoing(d)' = Outgoing(d) BY <1>1, <1>2, <2>2 DEF Outgoing, NetTypes
    <3> QED BY <1>5
  <2> QED BY <2>1, <2>2
<1> QED BY <1>1, <1>6, <1>7, StillOnce DEF G, n

(* What a failed request carried goes back to the front of the queue.      *)
LEMMA GiveUpSame ==
  ASSUME NetInv, NEW c \in Clients, flight[c].busy, GiveUp(c), NEW d \in Clients
  PROVE  Outgoing(d)' = Outgoing(d)
<1>1. /\ flight' = [flight EXCEPT ![c] = Idle]
      /\ queue' = [queue EXCEPT ![c] = flight[c].updates \o queue[c]]
  BY DEF GiveUp
<1>2. ClientTypes /\ NetTypes BY DEF NetInv
<1>3. CASE d = c
  <2> ~flight'[c].busy /\ queue'[c] = flight[c].updates \o queue[c]
    BY <1>1, <1>2 DEF ClientTypes, NetTypes, Idle
  <2> QED BY <1>3 DEF Outgoing
<1>4. CASE d # c BY <1>1, <1>2, <1>4 DEF ClientTypes, NetTypes, Outgoing
<1> QED BY <1>3, <1>4

(* A request fails: its updates are queued again, and may arrive twice.    *)
LEMMA FailureKeepsOnce ==
  ASSUME NetInv, NetInv', OnceInv, Future' = Future, NEW c \in Clients, RequestFails(c)
  PROVE  OnceInv'
<1>1. flight[c].busy /\ GiveUp(c) /\ inbox' \subseteq inbox /\ rows' = rows /\ authored' = authored
  BY DEF RequestFails, engineVars
<1>2. \A d \in Clients : Outgoing(d)' = Outgoing(d) BY <1>1, GiveUpSame
<1>3. \A d \in Clients :
        Sent(Outgoing(d)', d, IntentsOf(Future), Len(IntentsOf(rows)), Len(authored[d]))
  BY <1>2 DEF OnceInv
<1>4. \A r \in inbox' :
        Sent(r.updates, r.client, IntentsOf(Future), Len(IntentsOf(rows)), Len(authored[r.client]))
  BY <1>1 DEF OnceInv
<1> QED BY <1>1, <1>3, <1>4, StillOnce

(* The entries among the first rows of a longer table.                     *)
LEMMA LogOfPart ==
  ASSUME NEW s \in Seq(RowSet), NEW t \in Seq(RowSet), NEW made, LogOnce(IntentsOf(s \o t), made)
  PROVE  /\ LogOnce(IntentsOf(s), made)
         /\ \A n : Follows(IntentsOf(s \o t), IntentsOf(s), n)
<1> DEFINE A == IntentsOf(s)
           B == IntentsOf(t)
           G == IntentsOf(s \o t)
<1>1. A \in Seq(Entries) /\ B \in Seq(Entries) /\ G = A \o B BY IntentsOfType, IntentsOfConcat
<1>2. LogOnce(G, made) OBVIOUS
<1> HIDE DEF A, B, G
<1>3. Len(A) \in Nat /\ Len(B) \in Nat BY <1>1, LenProperties, Zenon
<1>4. /\ Len(A \o B) = Len(A) + Len(B)
      /\ \A i \in 1..Len(A) + Len(B) : (A \o B)[i] = IF i <= Len(A) THEN A[i] ELSE B[i - Len(A)]
  BY <1>1, ConcatProperties, Zenon
<1>5. \A i \in 1..Len(A) : i \in 1..Len(G) /\ A[i] = G[i]
  <2> TAKE i \in 1..Len(A)
  <2> i \in 1..Len(A) + Len(B) /\ i <= Len(A) BY <1>3
  <2> QED BY <1>1, <1>4
<1>6. LogOnce(A, made) BY <1>2, <1>5 DEF LogOnce, Distinct
<1>7. \A n : Follows(G, A, n) BY <1>5 DEF Follows
<1> QED BY <1>6, <1>7 DEF A, G

(* When an ingest dies, what it had planned is not in the log after all.   *)
LEMMA DeathKeepsOnce ==
  ASSUME NetInv, NetInv', OnceInv, Future' = rows, ServerDies
  PROVE  OnceInv'
<1> DEFINE G == IntentsOf(Future)
           n == Len(IntentsOf(rows))
           c == ingest.client
           P == Planned(ingest.todo)
<1>1. /\ ingest # NoIngest /\ rows' = rows /\ authored' = authored /\ inbox' = inbox
  BY DEF ServerDies, IngestDies
<1>2. \/ GiveUp(c) /\ ingest.attempt = attempt[c]
      \/ UNCHANGED <<flight, queue>>
  BY DEF ServerDies
<1>3. EngineInv /\ OneRequest BY DEF NetInv
<1>4. rows \in Seq(RowSet) /\ ingest.todo \in Seq(OpSet) /\ c \in Clients
  BY <1>1, <1>3 DEF EngineInv, TableOK, IngestOK, Ingests
<1>5. P \in Seq(RowSet) BY <1>4, PlannedType
<1>6. Future = rows \o P BY <1>1 DEF Future
<1>7. LogOnce(G, authored) BY DEF OnceInv
<1>8. IntentsOf(rows) \in Seq(Entries) BY <1>4, IntentsOfType
<1>9. n \in Nat BY <1>8, LenProperties, Zenon
<1>10. \A d \in Clients : Outgoing(d)' = Outgoing(d)
  <2>1. CASE GiveUp(c) /\ ingest.attempt = attempt[c]
    <3> flight[c].busy BY <1>1, <1>3, <1>4, <2>1 DEF OneRequest, OfIngest
    <3> QED BY <1>4, <2>1, GiveUpSame
  <2>2. CASE UNCHANGED <<flight, queue>> BY <2>2 DEF Outgoing
  <2> QED BY <1>2, <2>1, <2>2
<1>11. \A d \in Clients : Sent(Outgoing(d)', d, G, n, Len(authored'[d])) BY <1>1, <1>10 DEF OnceInv
<1>12. \A r \in inbox' : Sent(r.updates, r.client, G, n, Len(authored'[r.client]))
  BY <1>1 DEF OnceInv
<1> HIDE DEF G, n, P, c
<1>13. LogOnce(IntentsOf(rows), authored) /\ Follows(G, IntentsOf(rows), n)
  BY <1>4, <1>5, <1>6, <1>7, LogOfPart DEF G
<1>14. n <= Len(IntentsOf(rows')) BY <1>1, <1>9 DEF n
<1>15. LogOnce(IntentsOf(Future'), authored') /\ Follows(G, IntentsOf(Future'), n) BY <1>1, <1>13
<1> QED BY <1>9, <1>11, <1>12, <1>14, <1>15, OnceLater

(* A statement adds at most a row the plan already counts, or no entry.    *)
LEMMA StepKeepsOnce ==
  ASSUME NetInv, NetInv', OnceInv, ServerStep
  PROVE  OnceInv'
<1>1. IngestStep /\ UNCHANGED <<authored, queue, flight, inbox>>
  BY DEF ServerStep, clientVars, netVars
<1>2. EngineInv BY DEF NetInv
<1>3. TableOK /\ IngestOK BY <1>2 DEF EngineInv
<1>4. rows \in Seq(RowSet) BY <1>3 DEF TableOK
<1>5. IntentsOf(rows) \in Seq(Entries) BY <1>4, IntentsOfType
<1>6. Len(IntentsOf(rows)) \in Nat BY <1>5, LenProperties, Zenon
<1>7. CASE Future' = Future /\ rows' = rows BY <1>1, <1>7, RequestsKeepOnce
<1>8. CASE IngestInsert
  <2> DEFINE r == Head(ingest.todo).row
  <2>1. /\ r \in RowSet /\ rows' = Append(rows, r)
        /\ \/ Future' = Future
           \/ /\ Future = rows /\ Future' = Append(rows, r) /\ r.kind # "intent"
    BY <1>3, <1>8, FutureOfInsert
  <2> HIDE DEF r
  <2>2. IntentsOf(Append(rows, r)) =
          IF r.kind = "intent" THEN Append(IntentsOf(rows), r) ELSE IntentsOf(rows)
    BY <1>4, <2>1, IntentsOfAppend
  <2>3. IntentsOf(Future') = IntentsOf(Future) BY <2>1, <2>2
  <2>4. Len(IntentsOf(rows)) <= Len(IntentsOf(rows'))
    <3>1. CASE r.kind = "intent"
      <4> r \in Entries BY <2>1, <3>1 DEF RowSet
      <4> Len(Append(IntentsOf(rows), r)) = Len(IntentsOf(rows)) + 1
        BY <1>5, AppendProperties
      <4> QED BY <1>6, <2>1, <2>2, <3>1
    <3>2. CASE r.kind # "intent" BY <1>6, <2>1, <2>2, <3>2
    <3> QED BY <3>1, <3>2
  <2>5. \A c \in Clients :
          Sent(Outgoing(c)', c, IntentsOf(Future), Len(IntentsOf(rows)), Len(authored[c]))
    BY <1>1 DEF OnceInv, Outgoing
  <2>6. \A q \in inbox' :
          Sent(q.updates, q.client, IntentsOf(Future), Len(IntentsOf(rows)), Len(authored[q.client]))
    BY <1>1 DEF OnceInv
  <2> QED BY <1>1, <2>3, <2>4, <2>5, <2>6, QuietOnce
<1> QED BY <1>1, <1>2, <1>7, <1>8, StepKeepsEngine

-----------------------------------------------------------------------------
(* An ingest accepts an intent once.                                       *)

(* An intent that is not settled and whose base is retained is not in the  *)
(* log: the log above the base is in the rows the server loads.            *)
LEMMA FreshIsUnlogged ==
  ASSUME TableOK, SnapshotsReplay, NEW x \in IntentUpdates, Settled(x.id) = "none",
         x.base >= BaseSeq, NEW c, NEW n, NEW m, AboveBase(x, c, IntentsOf(rows), n, m)
  PROVE  \A p \in 1..Len(IntentsOf(rows)) : IntentsOf(rows)[p].id # x.id
<1> DEFINE G == IntentsOf(rows)
           old == IntentsOf(SubSeq(rows, 1, BaseRow))
           recent == SubSeq(rows, BaseRow + 1, Len(rows))
<1> SUFFICES ASSUME NEW p \in 1..Len(G), G[p].id = x.id PROVE FALSE
  OBVIOUS
<1>1. /\ G = old \o Log /\ BaseSeq = Len(old)
      /\ Log \in Seq(Entries) /\ old \in Seq(Entries)
  BY LoadReplays
<1>2. rows \in Seq(RowSet) BY DEF TableOK
<1>3. BaseRow \in first..Len(rows) /\ first \in 1..Len(rows) BY BaseRowIsLast DEF TableOK
<1>4. Len(rows) \in Nat BY <1>2, LenProperties, Zenon
<1>5. BaseRow \in 1..Len(rows) /\ BaseRow \in Nat BY <1>3, <1>4
<1>6. recent \in Seq(RowSet) /\ \A i \in 1..Len(recent) :
        BaseRow + i \in (BaseRow + 1)..Len(rows) /\ recent[i] = rows[BaseRow + i]
  <2>1. BaseRow + 1 \in 1..(Len(rows) + 1) /\ Len(rows) \in ((BaseRow + 1) - 1)..Len(rows)
    BY <1>4, <1>5
  <2>2. /\ recent \in Seq(RowSet) /\ Len(recent) = Len(rows) - (BaseRow + 1) + 1
        /\ \A i \in 1..(Len(rows) - (BaseRow + 1) + 1) : recent[i] = rows[(BaseRow + 1) + i - 1]
    BY <1>2, <2>1, Part
  <2> HIDE DEF recent
  <2>3. \A i \in 1..Len(recent) :
          BaseRow + i \in (BaseRow + 1)..Len(rows) /\ recent[i] = rows[BaseRow + i]
    <3> TAKE i \in 1..Len(recent)
    <3> i \in 1..(Len(rows) - (BaseRow + 1) + 1) /\ (BaseRow + 1) + i - 1 = BaseRow + i
      BY <1>4, <1>5, <2>2
    <3> BaseRow + i \in (BaseRow + 1)..Len(rows) BY <1>4, <1>5, <2>2
    <3> QED BY <2>2
  <2> QED BY <2>2, <2>3
<1>7. Log = IntentsOf(recent) BY DEF Log, IntentsOf
<1>8. G[p].id = x.id /\ p \in 1..Len(G) /\ AboveBase(x, c, G, n, m) OBVIOUS
<1> HIDE DEF G, old, recent
<1>9. Len(old) \in Nat /\ Len(Log) \in Nat BY <1>1, LenProperties, Zenon
<1>10. p > x.base /\ x.base \in Nat BY <1>8 DEF AboveBase, IntentUpdates
<1>11. p > Len(old) BY <1>1, <1>8, <1>9, <1>10
<1>12. /\ Len(old \o Log) = Len(old) + Len(Log)
       /\ \A i \in 1..Len(old) + Len(Log) :
            (old \o Log)[i] = IF i <= Len(old) THEN old[i] ELSE Log[i - Len(old)]
  BY <1>1, ConcatProperties, Zenon
<1> DEFINE k == p - Len(old)
<1>13. k \in 1..Len(Log) /\ G[p] = Log[k]
  <2>1. p \in 1..Len(old) + Len(Log) /\ ~(p <= Len(old)) /\ p - Len(old) \in 1..Len(Log)
    BY <1>1, <1>8, <1>9, <1>11, <1>12
  <2> QED BY <1>1, <1>12, <2>1
<1> HIDE DEF k
<1>14. PICK q : /\ q \in [1..Len(Log) -> {i \in 1..Len(recent) : recent[i].kind = "intent"}]
                /\ \A i \in 1..Len(Log) : Log[i] = recent[q[i]]
  BY <1>6, <1>7, IntentsOfPlaces
<1>15. q[k] \in 1..Len(recent) /\ recent[q[k]].kind = "intent" /\ recent[q[k]].id = x.id
  BY <1>8, <1>13, <1>14
<1>16. /\ BaseRow + q[k] \in (BaseRow + 1)..Len(rows)
       /\ rows[BaseRow + q[k]].kind = "intent" /\ rows[BaseRow + q[k]].id = x.id
  BY <1>6, <1>15
<1>17. x.id \in Ids BY DEF IntentUpdates
<1> QED BY <1>16, <1>17, SettledIs

(* The entries a plan accepts are those of different intents.              *)
LEMMA AcceptedAre ==
  ASSUME NEW fresh \in Seq(IntentUpdates), NEW out \in [1..Len(fresh) -> AllOutcomes]
  PROVE  /\ Accepted(fresh, out) \in Seq(Entries)
         /\ \E o : /\ o \in [1..Len(Accepted(fresh, out)) -> 1..Len(fresh)]
                   /\ \A i \in 1..Len(Accepted(fresh, out)) :
                        Accepted(fresh, out)[i].id = fresh[o[i]].id
                   /\ \A i, j \in 1..Len(Accepted(fresh, out)) : o[i] = o[j] => i = j
<1> DEFINE F == PlanRows(fresh, out)
           A == IntentsOf(F)
<1>1. Accepted(fresh, out) = A BY DEF Accepted, IntentsOf
<1>2. PICK a : OriginsOf(a, F, fresh, out, AllOutcomes) BY PlanOrigins
<1>3. /\ F \in Seq(RowSet) /\ a \in [1..Len(F) -> 1..Len(fresh)]
      /\ \A j \in 1..Len(F) : F[j].id = fresh[a[j]].id
      /\ \A i, j \in 1..Len(F) :
           F[i].kind = "intent" /\ F[j].kind = "intent" /\ a[i] = a[j] => i = j
  BY <1>2 DEF OriginsOf, RowOf
<1> HIDE DEF F
<1>4. A \in Seq(Entries) BY <1>3, IntentsOfType
<1>5. PICK p : /\ p \in [1..Len(A) -> {k \in 1..Len(F) : F[k].kind = "intent"}]
               /\ \A i \in 1..Len(A) : A[i] = F[p[i]]
               /\ \A i, j \in 1..Len(A) : i < j => p[i] < p[j]
  BY <1>3, IntentsOfPlaces
<1>6. Len(A) \in Nat BY <1>4, LenProperties, Zenon
<1>7. Len(F) \in Nat BY <1>3, LenProperties, Zenon
<1> HIDE DEF A
<1> DEFINE o == [i \in 1..Len(A) |-> a[p[i]]]
<1>8. \A i \in 1..Len(A) : p[i] \in 1..Len(F) /\ F[p[i]].kind = "intent" /\ p[i] \in Nat
  BY <1>5, <1>7
<1>9. o \in [1..Len(A) -> 1..Len(fresh)] BY <1>3, <1>8
<1>10. \A i \in 1..Len(A) : A[i].id = fresh[o[i]].id BY <1>3, <1>5, <1>8
<1>11. ASSUME NEW i \in 1..Len(A), NEW j \in 1..Len(A), o[i] = o[j] PROVE i = j
  <2>1. p[i] = p[j] BY <1>3, <1>8, <1>11
  <2>2. ~(i < j) /\ ~(j < i) BY <1>5, <1>8, <2>1
  <2> QED BY <1>6, <2>2
<1> HIDE DEF o
<1> QED BY <1>1, <1>4, <1>9, <1>10, <1>11

(* An ingest plans no entry that is in the log, and none twice.            *)
LEMMA IngestKeepsOnce ==
  ASSUME NetInv, NetInv', OnceInv, NEW r \in inbox, ServerIngest(r)
  PROVE  OnceInv'
<1> DEFINE G == IntentsOf(rows)
           n == Len(G)
           us == r.updates
           c == r.client
           m == Len(authored[c])
           fresh == Fresh(us)
<1>1. /\ IngestStart(r) /\ inbox' = inbox \ {r}
      /\ UNCHANGED <<authored, queue, flight>>
  BY DEF ServerIngest, clientVars
<1>2. rows' = rows BY <1>1 DEF IngestStart
<1>3. ClientTypes /\ NetTypes /\ EngineInv /\ TableOK /\ SnapshotsReplay
  BY DEF NetInv, EngineInv
<1>4. /\ us \in Seq(UpdateSet) /\ c \in Clients /\ r.attempt \in Nat /\ r.cursor \in Nat
  BY <1>3 DEF NetTypes, RequestSet
<1>5. rows \in Seq(RowSet) BY <1>3 DEF TableOK
<1>6. G \in Seq(Entries) BY <1>5, IntentsOfType
<1>7. n \in Nat BY <1>6, LenProperties, Zenon
<1>8. /\ Future = rows
      /\ \E out \in Plans(c, fresh) : IntentsOf(Future') = G \o Accepted(fresh, out)
  BY <1>1, <1>3, <1>4, StartKeepsInv
<1>9. PICK out \in Plans(c, fresh) : IntentsOf(Future') = G \o Accepted(fresh, out) BY <1>8
<1>10. fresh \in Seq(IntentUpdates) /\ \E q : Picked(q, fresh, us) BY <1>4, FreshIs
<1>11. \A i \in 1..Len(fresh) : Settled(fresh[i].id) = "none" /\ fresh[i].base >= BaseSeq
  BY <1>4, FreshIs
<1>12. PICK q : Picked(q, fresh, us) BY <1>10
<1>13. out \in [1..Len(fresh) -> AllOutcomes] BY <1>10, PlansAre
<1>14. LogOnce(G, authored) /\ Sent(us, c, G, n, m) BY <1>8 DEF OnceInv
<1>15. \A d \in Clients : Sent(Outgoing(d)', d, G, n, Len(authored'[d]))
  BY <1>1, <1>8 DEF OnceInv, Outgoing
<1>16. \A s \in inbox' : Sent(s.updates, s.client, G, n, Len(authored'[s.client]))
  BY <1>1, <1>8 DEF OnceInv
<1> DEFINE A == Accepted(fresh, out)
<1> HIDE DEF fresh, m
<1>17. A \in Seq(Entries) BY <1>10, <1>13, AcceptedAre
<1>18. PICK o : /\ o \in [1..Len(A) -> 1..Len(fresh)]
                /\ \A i \in 1..Len(A) : A[i].id = fresh[o[i]].id
                /\ \A i, j \in 1..Len(A) : o[i] = o[j] => i = j
  BY <1>10, <1>13, AcceptedAre
<1>19. Len(A) \in Nat BY <1>17, LenProperties, Zenon
<1>20. Len(us) \in Nat BY <1>4, LenProperties, Zenon
<1>a. Len(fresh) \in Nat BY <1>10, LenProperties, Zenon
<1> DEFINE H == IntentsOf(Future')
<1>21. H = G \o A BY <1>9
<1> HIDE DEF A, G, n, us, c, H
<1>22. \A k \in 1..Len(fresh) :
         fresh[k] \in IntentUpdates /\ q[k] \in 1..Len(us) /\ fresh[k] = us[q[k]]
         /\ us[q[k]].type = "intent" /\ AboveBase(fresh[k], c, G, n, m)
  <2> TAKE k \in 1..Len(fresh)
  <2>1. fresh[k] \in IntentUpdates BY <1>10, ElementOfSeq, Zenon
  <2>2. q[k] \in 1..Len(us) /\ fresh[k] = us[q[k]] BY <1>12 DEF Picked
  <2>3. us[q[k]].type = "intent" BY <2>1, <2>2 DEF IntentUpdates
  <2> QED BY <1>14, <2>1, <2>2, <2>3 DEF Sent
<1>23. \A k, l \in 1..Len(fresh) : fresh[k].id = fresh[l].id => k = l
  <2> TAKE k, l \in 1..Len(fresh)
  <2> HAVE fresh[k].id = fresh[l].id
  <2>1. q[k] = q[l] BY <1>14, <1>22, ZenonT(60) DEF Sent
  <2>2. q[k] \in Nat /\ ~(k < l) /\ ~(l < k) BY <1>12, <1>20, <1>22, <2>1 DEF Picked
  <2> QED BY <1>a, <2>2
<1>24. \A k \in 1..Len(fresh) : \A p \in 1..Len(G) : G[p].id # fresh[k].id
  <2> TAKE k \in 1..Len(fresh)
  <2> DEFINE x == fresh[k]
  <2>1. x \in IntentUpdates /\ AboveBase(x, c, G, n, m) /\ Settled(x.id) = "none" /\ x.base >= BaseSeq
    BY <1>11, <1>22 DEF fresh
  <2> HIDE DEF x
  <2>2. \A p \in 1..Len(G) : G[p].id # x.id BY <1>3, <2>1, FreshIsUnlogged DEF G
  <2> QED BY <2>2 DEF x
<1>25. /\ Len(H) = Len(G) + Len(A)
       /\ \A i \in 1..Len(G) + Len(A) : H[i] = IF i <= Len(G) THEN G[i] ELSE A[i - Len(G)]
  BY <1>6, <1>17, <1>21, ConcatProperties, Zenon
<1>26. Len(G) = n BY DEF n
<1>27. \A p \in 1..Len(H) :
         \/ p \in 1..n /\ H[p] = G[p]
         \/ p > n /\ p - n \in 1..Len(A) /\ H[p] = A[p - n]
  <2> TAKE p \in 1..Len(H)
  <2>1. CASE p <= n BY <1>7, <1>19, <1>25, <1>26, <2>1
  <2>2. CASE ~(p <= n) BY <1>7, <1>19, <1>25, <1>26, <2>2
  <2> QED BY <2>1, <2>2
<1>28. \A i \in 1..Len(A) : \A p \in 1..n : G[p].id # A[i].id BY <1>18, <1>24, <1>26
<1>29. \A i, j \in 1..Len(A) : A[i].id = A[j].id => i = j BY <1>18, <1>23
<1>30. Distinct(H)
  <2> SUFFICES ASSUME NEW p \in 1..Len(H), NEW s \in 1..Len(H), H[p].id = H[s].id PROVE p = s
    BY DEF Distinct
  <2>1. CASE p \in 1..n /\ H[p] = G[p] /\ s \in 1..n /\ H[s] = G[s]
    BY <1>14, <1>26, <2>1 DEF LogOnce, Distinct
  <2>2. CASE p \in 1..n /\ H[p] = G[p] /\ s > n /\ s - n \in 1..Len(A) /\ H[s] = A[s - n]
    BY <1>28, <2>2
  <2>3. CASE s \in 1..n /\ H[s] = G[s] /\ p > n /\ p - n \in 1..Len(A) /\ H[p] = A[p - n]
    BY <1>28, <2>3
  <2>4. CASE /\ p > n /\ p - n \in 1..Len(A) /\ H[p] = A[p - n]
             /\ s > n /\ s - n \in 1..Len(A) /\ H[s] = A[s - n]
    <3>1. p - n = s - n BY <1>29, <2>4
    <3>2. Len(H) \in Nat BY <1>7, <1>19, <1>25, <1>26
    <3> QED BY <1>7, <3>1, <3>2
  <2> QED BY <1>27, <2>1, <2>2, <2>3, <2>4
<1>31. \A p \in 1..Len(H) : H[p].id[2] <= Len(authored[H[p].id[1]])
  <2> TAKE p \in 1..Len(H)
  <2>1. CASE p \in 1..n /\ H[p] = G[p] BY <1>14, <1>26, <2>1 DEF LogOnce
  <2>2. CASE p - n \in 1..Len(A) /\ H[p] = A[p - n]
    <3> DEFINE k == o[p - n]
    <3>1. k \in 1..Len(fresh) /\ H[p].id = fresh[k].id BY <1>18, <2>2
    <3> HIDE DEF k
    <3>2. fresh[k].id[1] = c /\ fresh[k].id[2] <= m BY <1>22, <3>1 DEF AboveBase
    <3> QED BY <3>1, <3>2 DEF m
  <2> QED BY <1>27, <2>1, <2>2
<1>32. LogOnce(H, authored') BY <1>1, <1>30, <1>31 DEF LogOnce
<1>33. Follows(G, H, n) BY <1>26, <1>27 DEF Follows
<1>34. n <= Len(IntentsOf(rows')) BY <1>2, <1>7 DEF n, G
<1> QED BY <1>7, <1>15, <1>16, <1>32, <1>33, <1>34, OnceLater DEF H

-----------------------------------------------------------------------------
(* The editor authors above the entries it knows.                          *)

(* A new unit gets ids of its own and a base within the log.               *)
LEMMA SentUnit ==
  ASSUME NEW A \in Seq(UpdateSet), NEW U \in Seq(UpdateSet), NEW c, NEW G \in Seq(Entries),
         NEW n \in Nat, NEW m \in Nat, NEW base \in Nat, base <= n,
         \A k \in 1..Len(U) : U[k].id = <<c, m + k>> /\ U[k].base = base,
         \A p \in 1..Len(G) : G[p].id[1] = c => G[p].id[2] <= m,
         Sent(A, c, G, n, m)
  PROVE  Sent(A \o U, c, G, n, m + Len(U))
<1> DEFINE us == A \o U
           m2 == m + Len(U)
<1>1. /\ us \in Seq(UpdateSet) /\ Len(us) = Len(A) + Len(U)
      /\ \A i \in 1..Len(A) + Len(U) : us[i] = IF i <= Len(A) THEN A[i] ELSE U[i - Len(A)]
  BY ConcatProperties, Zenon
<1>2. Len(A) \in Nat /\ Len(U) \in Nat BY LenProperties, Zenon
<1>3. m2 \in Nat /\ m <= m2 BY <1>2
<1> HIDE DEF us, m2
<1>4. Sent(A, c, G, n, m2)
  <2>1. Follows(G, G, n) BY DEF Follows
  <2>2. n <= n OBVIOUS
  <2> QED BY <1>3, <2>1, <2>2, SentLater
<1>5. \A i \in 1..Len(us) :
         \/ i \in 1..Len(A) /\ us[i] = A[i]
         \/ i - Len(A) \in 1..Len(U) /\ us[i] = U[i - Len(A)]
  <2> TAKE i \in 1..Len(us)
  <2>1. CASE i <= Len(A) BY <1>1, <1>2, <2>1
  <2>2. CASE ~(i <= Len(A)) BY <1>1, <1>2, <2>2
  <2> QED BY <2>1, <2>2
<1>6. \A k \in 1..Len(U) : /\ U[k].id[1] = c /\ U[k].id[2] = m + k /\ U[k].base = base
                           /\ k \in Nat /\ k >= 1 /\ m + k <= m2
  BY <1>2 DEF m2
<1>7. \A i \in 1..Len(A) : A[i].type = "intent" =>
         /\ A[i].id[1] = c /\ A[i].id[2] \in Nat /\ A[i].id[2] <= m
  <2> TAKE i \in 1..Len(A)
  <2> HAVE A[i].type = "intent"
  <2>1. A[i] \in UpdateSet BY ElementOfSeq, Zenon
  <2>2. A[i].id \in Ids BY <2>1 DEF UpdateSet, IntentUpdates
  <2> QED BY <2>2, EngineAssumption DEF Sent, AboveBase, Ids
<1>8. ASSUME NEW i \in 1..Len(us), us[i].type = "intent"
      PROVE  AboveBase(us[i], c, G, n, m2)
  <2>1. CASE i \in 1..Len(A) /\ us[i] = A[i] BY <1>4, <1>8, <2>1 DEF Sent
  <2>2. CASE i - Len(A) \in 1..Len(U) /\ us[i] = U[i - Len(A)]
    <3> DEFINE k == i - Len(A)
    <3>1. k \in 1..Len(U) /\ us[i] = U[k] BY <2>2
    <3> HIDE DEF k
    <3>2. ASSUME NEW p \in 1..Len(G), G[p].id = U[k].id PROVE FALSE
      <4>1. G[p].id[1] = c /\ G[p].id[2] = m + k BY <1>6, <3>1, <3>2
      <4>2. m + k <= m BY <4>1
      <4> QED BY <1>6, <3>1, <4>2
    <3>3. AboveBase(U[k], c, G, n, m2) BY <1>6, <3>1, <3>2 DEF AboveBase
    <3> QED BY <3>1, <3>3
  <2> QED BY <1>5, <2>1, <2>2
<1>a. ASSUME NEW i \in 1..Len(A), A[i].type = "intent", NEW k \in 1..Len(U)
      PROVE  A[i].id # U[k].id
  <2>1. A[i].id[2] \in Nat /\ A[i].id[2] <= m BY <1>7, <1>a
  <2>2. U[k].id[2] = m + k /\ k \in Nat /\ k >= 1 BY <1>6
  <2>3. A[i].id[2] # U[k].id[2] BY <2>1, <2>2
  <2> QED BY <2>3
<1>9. ASSUME NEW i \in 1..Len(us), NEW j \in 1..Len(us), us[i].type = "intent",
             us[j].type = "intent", us[i].id = us[j].id
      PROVE  i = j
  <2>1. CASE i \in 1..Len(A) /\ us[i] = A[i] /\ j \in 1..Len(A) /\ us[j] = A[j]
    BY <1>9, <2>1 DEF Sent
  <2>2. CASE i \in 1..Len(A) /\ us[i] = A[i] /\ j - Len(A) \in 1..Len(U) /\ us[j] = U[j - Len(A)]
    BY <1>9, <1>a, <2>2
  <2>3. CASE j \in 1..Len(A) /\ us[j] = A[j] /\ i - Len(A) \in 1..Len(U) /\ us[i] = U[i - Len(A)]
    BY <1>9, <1>a, <2>3
  <2>4. CASE /\ i - Len(A) \in 1..Len(U) /\ us[i] = U[i - Len(A)]
             /\ j - Len(A) \in 1..Len(U) /\ us[j] = U[j - Len(A)]
    <3>1. m + (i - Len(A)) = m + (j - Len(A)) BY <1>6, <1>9, <2>4
    <3> QED BY <1>1, <1>2, <3>1
  <2> QED BY <1>5, <2>1, <2>2, <2>3, <2>4
<1>10. Sent(us, c, G, n, m2) BY <1>8, <1>9 DEF Sent
<1> QED BY <1>10 DEF us, m2

(* authorBatch(): the frame a unit is authored at is within the log.       *)
LEMMA AuthorKeepsOnce ==
  ASSUME NetInv, NetInv', OnceInv, TabsInv, Future' = Future, NEW c \in Clients,
         NEW size \in UnitSizes, NEW lag \in 0..MaxLag, Author(c, size, lag)
  PROVE  OnceInv'
<1> DEFINE rep == replica[c]
           made == Len(authored[c])
           base == rep.seq - lag
           unit == [k \in 1..size |-> IntentUpdate(<<c, made + k>>, base, made + 1)]
           marks == [k \in 1..size |-> made + 1]
           G == IntentsOf(Future)
           n == Len(IntentsOf(rows))
<1>1. /\ rep.live /\ rep.boot <= base
      /\ authored' = [authored EXCEPT ![c] = authored[c] \o marks]
      /\ queue' = [queue EXCEPT ![c] = queue[c] \o unit]
      /\ UNCHANGED <<rows, flight, inbox>>
  BY DEF Author, engineVars, netVars
<1>2. size \in Nat /\ lag \in Nat /\ MaxEdits \in Nat BY NetworkAssumption, EngineAssumption
<1>3. ClientTypes /\ ClientTypes' /\ NetTypes /\ EngineInv /\ TableOK BY DEF NetInv, EngineInv
<1>4. rep \in Replicas /\ rep.seq \in Nat /\ rep.boot \in Nat BY <1>3 DEF ClientTypes, Replicas
<1>5. made \in Nat BY <1>3, LenProperties DEF ClientTypes
<1>6. rows \in Seq(RowSet) BY <1>3 DEF TableOK
<1>7. n \in Nat
  <2> IntentsOf(rows) \in Seq(Entries) BY <1>6, IntentsOfType
  <2> QED BY LenProperties, Zenon
<1>8. rep.seq <= n
  <2>1. Tab(rep, cursor[c], reply[c], rows, first) BY DEF TabsInv
  <2>2. PICK a : TabOK(rep, cursor[c], a, rows) BY <2>1 DEF Tab
  <2> QED BY <1>1, <2>2 DEF TabOK, Up, Canonical
<1>9. base \in Nat /\ base <= n
  <2> HIDE DEF rep, n
  <2> QED BY <1>1, <1>2, <1>4, <1>7, <1>8
<1>10. G \in Seq(Entries)
  <2>1. ingest # NoIngest => Planned(ingest.todo) \in Seq(RowSet)
    BY <1>3, PlannedType DEF EngineInv, IngestOK, Ingests
  <2>2. Future \in Seq(RowSet)
    <3>1. CASE ingest = NoIngest BY <1>6, <3>1 DEF Future
    <3>2. CASE ingest # NoIngest
      <4> DEFINE P == Planned(ingest.todo)
      <4>1. P \in Seq(RowSet) BY <2>1, <3>2
      <4> HIDE DEF P
      <4>2. rows \o P \in Seq(RowSet) BY <1>6, <4>1, ConcatProperties, Zenon
      <4> QED BY <3>2, <4>2 DEF Future, P
    <3> QED BY <3>1, <3>2
  <2> QED BY <2>2, IntentsOfType
<1>11. LogOnce(G, authored) BY DEF OnceInv
<1>12. \A d \in Clients : Sent(Outgoing(d), d, G, n, Len(authored[d])) BY DEF OnceInv
<1>13. \A r \in inbox : Sent(r.updates, r.client, G, n, Len(authored[r.client])) BY DEF OnceInv
<1> HIDE DEF G, n, rep, base, made
<1>14. marks \in Seq(Nat) /\ Len(marks) = size BY <1>2, <1>5
<1>15. Len(unit) = size /\ \A k \in 1..Len(unit) :
         unit[k] = IntentUpdate(<<c, made + k>>, base, made + 1)
  BY <1>2
<1> HIDE DEF marks, unit
<1>16. queue'[c] = queue[c] \o unit /\ authored'[c] = authored[c] \o marks
       /\ \A d \in Clients : d # c => queue'[d] = queue[d] /\ authored'[d] = authored[d]
  BY <1>1, <1>3 DEF ClientTypes
<1>17. Len(authored'[c]) = made + size
  <2> authored[c] \in Seq(Nat) BY <1>3 DEF ClientTypes
  <2> Len(authored[c] \o marks) = Len(authored[c]) + Len(marks)
    BY <1>14, ConcatProperties, Zenon
  <2> QED BY <1>14, <1>16 DEF made
<1>18. \A d \in Clients : /\ Len(authored[d]) \in Nat /\ Len(authored'[d]) \in Nat
                          /\ Len(authored[d]) <= Len(authored'[d])
  <2> TAKE d \in Clients
  <2>1. authored[d] \in Seq(Nat) /\ authored'[d] \in Seq(Nat) BY <1>3 DEF ClientTypes
  <2>2. Len(authored[d]) \in Nat /\ Len(authored'[d]) \in Nat BY <2>1, LenProperties, Zenon
  <2>3. CASE d = c BY <1>2, <1>5, <1>17, <2>2, <2>3 DEF made
  <2>4. CASE d # c BY <1>16, <2>2, <2>4
  <2> QED BY <2>2, <2>3, <2>4
<1>19. \A k \in 1..Len(unit) : unit[k].id = <<c, made + k>> /\ unit[k].base = base
  BY <1>15 DEF IntentUpdate
<1>20. unit \in Seq(UpdateSet)
  <2>1. made + size <= MaxEdits BY <1>3, <1>17 DEF ClientTypes
  <2>2. \A k \in 1..size : unit[k] \in IntentUpdates
    <3> TAKE k \in 1..size
    <3>1. <<c, made + k>> \in Ids BY <1>2, <1>5, <2>1 DEF Ids
    <3>2. unit[k] = IntentUpdate(<<c, made + k>>, base, made + 1) BY <1>15
    <3> QED BY <1>5, <1>9, <3>1, <3>2 DEF IntentUpdate, IntentUpdates
  <2>3. unit = [k \in 1..size |-> unit[k]] BY DEF unit
  <2>4. IntentUpdates \subseteq UpdateSet BY DEF UpdateSet
  <2> QED BY <1>2, <2>2, <2>3, <2>4
<1>21. \A p \in 1..Len(G) : G[p].id[1] = c => G[p].id[2] <= made
  BY <1>11 DEF LogOnce, made
<1>22. \A d \in Clients : flight[d] \in Flights /\ queue[d] \in Seq(UpdateSet)
  BY <1>3 DEF ClientTypes, NetTypes
<1>23. \A d \in Clients : Outgoing(d) \in Seq(UpdateSet)
  BY <1>22, OutgoingType DEF Outgoing
<1>24. Follows(G, G, n) /\ n <= n BY <1>7 DEF Follows
<1>25. ASSUME NEW d \in Clients PROVE Sent(Outgoing(d)', d, G, n, Len(authored'[d]))
  <2>1. CASE d = c
    <3>1. Outgoing(c)' = Outgoing(c) \o unit
      <4>1. CASE flight[c].busy
        <5> DEFINE B == flight[c].updates
                   q == queue[c]
        <5>1. B \in Seq(UpdateSet) /\ q \in Seq(UpdateSet) BY <1>22, <4>1, OutgoingType
        <5>2. Outgoing(c)' = B \o (q \o unit) /\ Outgoing(c) = B \o q
          BY <1>1, <1>16, <4>1 DEF Outgoing
        <5> HIDE DEF B, q
        <5>3. (B \o q) \o unit = B \o (q \o unit) BY <1>20, <5>1, ConcatAssociative, SMTT(30)
        <5> QED BY <5>2, <5>3
      <4>2. CASE ~flight[c].busy BY <1>1, <1>16, <4>2 DEF Outgoing
      <4> QED BY <4>1, <4>2
    <3>2. Sent(Outgoing(c), c, G, n, made) BY <1>12 DEF made
    <3>3. Outgoing(c) \in Seq(UpdateSet) BY <1>23
    <3> DEFINE O == Outgoing(c)
    <3> HIDE DEF O
    <3>4. O \in Seq(UpdateSet) /\ Sent(O, c, G, n, made) BY <3>2, <3>3 DEF O
    <3>5. Sent(O \o unit, c, G, n, made + Len(unit))
      BY <1>5, <1>7, <1>9, <1>10, <1>19, <1>20, <1>21, <3>4, SentUnit
    <3> QED BY <1>15, <1>17, <2>1, <3>1, <3>5 DEF O
  <2>2. CASE d # c
    <3>1. Outgoing(d)' = Outgoing(d) BY <1>1, <1>16, <2>2 DEF Outgoing
    <3>2. authored'[d] = authored[d] BY <1>16, <2>2
    <3> QED BY <1>12, <3>1, <3>2
  <2> QED BY <2>1, <2>2
<1>26. ASSUME NEW r \in inbox' PROVE Sent(r.updates, r.client, G, n, Len(authored'[r.client]))
  <2>1. r \in inbox /\ r \in RequestSet BY <1>1, <1>3 DEF NetTypes
  <2>2. r.updates \in Seq(UpdateSet) /\ r.client \in Clients BY <2>1 DEF RequestSet
  <2>3. Sent(r.updates, r.client, G, n, Len(authored[r.client])) BY <1>13, <2>1
  <2> DEFINE us == r.updates
             d == r.client
  <2> HIDE DEF us, d
  <2>4. us \in Seq(UpdateSet) /\ d \in Clients /\ Sent(us, d, G, n, Len(authored[d]))
    BY <2>2, <2>3 DEF us, d
  <2>5. Sent(us, d, G, n, Len(authored'[d])) BY <1>7, <1>18, <1>24, <2>4, SentLater
  <2> QED BY <2>5 DEF us, d
<1>27. LogOnce(G, authored')
  <2>1. \A p \in 1..Len(G) : G[p].id[2] <= Len(authored'[G[p].id[1]])
    <3> TAKE p \in 1..Len(G)
    <3>1. G[p] \in Entries BY <1>10, ElementOfSeq, Zenon
    <3>2. G[p].id \in Ids BY <3>1 DEF Entries
    <3>3. G[p].id[1] \in Clients /\ G[p].id[2] \in Nat BY <1>2, <3>2 DEF Ids
    <3>4. G[p].id[2] <= Len(authored[G[p].id[1]]) BY <1>11 DEF LogOnce
    <3> QED BY <1>18, <3>3, <3>4
  <2> QED BY <1>11, <2>1 DEF LogOnce
<1>28. n <= Len(IntentsOf(rows')) BY <1>1, <1>7 DEF n
<1>29. IntentsOf(Future') = G BY DEF G
<1> QED BY <1>7, <1>24, <1>25, <1>26, <1>27, <1>28, <1>29, OnceLater

(* No step puts an intent into the log twice.                              *)
LEMMA OnceStep ==
  ASSUME NetInv, NetInv', OnceInv, TabsInv, [Next]_vars PROVE OnceInv'
<1>0. ClientTypes /\ EngineInv BY DEF NetInv
<1>1. CASE UNCHANGED vars
  <2>1. /\ UNCHANGED <<rows, authored, flight, queue>> /\ UNCHANGED engineVars
        /\ \A r \in inbox' : r \in inbox \/ r.updates = <<>>
    BY <1>1 DEF vars, engineVars, clientVars, netVars
  <2>2. Future' = Future BY <1>0, <2>1, EngineSame
  <2> QED BY <2>1, <2>2, RequestsKeepOnce
<1>2. ASSUME NEW c \in Clients, NEW size \in UnitSizes, NEW lag \in 0..MaxLag,
             Author(c, size, lag)
      PROVE  OnceInv'
  BY <1>2, AuthorKeepsNet, AuthorKeepsOnce
<1>3. ASSUME NEW c \in Clients, NEW txn \in 1..MaxEdits, CancelPending(c, txn)
      PROVE  OnceInv'
  <2>1. Future' = Future BY <1>3, CancelKeepsNet
  <2>2. PICK ids : queue' = [queue EXCEPT ![c] = Append(queue[c], CancelUpdate(ids))]
    BY <1>0, <1>3 DEF CancelPending, ClientTypes
  <2>3. UNCHANGED <<rows, authored, flight, inbox>>
    BY <1>3 DEF CancelPending, engineVars, netVars
  <2> DEFINE u == CancelUpdate(ids)
  <2>4. u.type # "intent" BY DEF CancelUpdate
  <2>5. u \in UpdateSet
    <3>1. queue[c] \in Seq(UpdateSet) /\ queue'[c] = Append(queue[c], u) BY <1>0, <2>2 DEF ClientTypes
    <3>2. queue'[c] \in Seq(UpdateSet) BY DEF NetInv, ClientTypes
    <3> HIDE DEF u
    <3>3. \A q : q \in Seq(UpdateSet) /\ Append(q, u) \in Seq(UpdateSet) => u \in UpdateSet
      <4> SUFFICES ASSUME NEW q \in Seq(UpdateSet), Append(q, u) \in Seq(UpdateSet)
                   PROVE  u \in UpdateSet
        OBVIOUS
      <4>1. Len(q) \in Nat BY LenProperties, Zenon
      <4>2. Len(Append(q, u)) = Len(q) + 1 /\ Append(q, u)[Len(q) + 1] = u OBVIOUS
      <4>3. Len(q) + 1 \in 1..Len(Append(q, u)) BY <4>1, <4>2
      <4> QED BY <4>2, <4>3, ElementOfSeq
    <3> QED BY <3>1, <3>2, <3>3
  <2> HIDE DEF u
  <2>6. queue' = [queue EXCEPT ![c] = Append(queue[c], u)] BY <2>2 DEF u
  <2> QED BY <2>1, <2>3, <2>4, <2>5, <2>6, OtherKeepsOnce DEF u
<1>4. ASSUME NEW c \in Clients, NEW i \in Ids, ResolveProposal(c, i) PROVE OnceInv'
  <2>1. Future' = Future BY <1>4, ResolveKeepsNet
  <2>2. queue' = [queue EXCEPT ![c] = Append(queue[c], ResolvedUpdate(i))]
    BY <1>0, <1>4 DEF ResolveProposal, ClientTypes
  <2>3. UNCHANGED <<rows, authored, flight, inbox>>
    BY <1>4 DEF ResolveProposal, engineVars, netVars
  <2>4. ResolvedUpdate(i).type # "intent" /\ ResolvedUpdate(i) \in UpdateSet
    BY DEF ResolvedUpdate, UpdateSet
  <2> QED BY <2>1, <2>2, <2>3, <2>4, OtherKeepsOnce
<1>5. ASSUME NEW c \in Clients, Send(c) PROVE OnceInv' BY <1>5, SendKeepsNet, SendKeepsOnce
<1>6. ASSUME NEW c \in Clients, Receive(c) PROVE OnceInv' BY <1>6, ReceiveKeepsNet, ReceiveKeepsOnce
<1>7. ASSUME NEW c \in Clients, RequestFails(c) PROVE OnceInv'
  BY <1>7, FailureKeepsNet, FailureKeepsOnce
<1>8. ASSUME NEW r \in inbox, ServerIngest(r) PROVE OnceInv' BY <1>8, IngestKeepsOnce
<1>9. ASSUME NEW r \in inbox, ServerAnswer(r) PROVE OnceInv'
  <2>1. Future' = Future BY <1>9, AnswerKeepsNet
  <2>2. UNCHANGED <<rows, authored, flight, queue>> /\ \A q \in inbox' : q \in inbox
    BY <1>9 DEF ServerAnswer, engineVars, clientVars
  <2> QED BY <2>1, <2>2, RequestsKeepOnce
<1>10. CASE ServerStep BY <1>10, StepKeepsOnce
<1>11. CASE ServerEnd
  <2>1. Future' = Future BY <1>11, EndKeepsNet
  <2>2. /\ UNCHANGED <<rows, authored, flight, queue>>
        /\ \A q \in inbox' : q \in inbox \/ q.updates = <<>>
    BY <1>11 DEF ServerEnd, IngestEnd, clientVars
  <2> QED BY <2>1, <2>2, RequestsKeepOnce
<1>12. CASE ServerDies BY <1>12, DeathKeepsNet, DeathKeepsOnce
<1> QED BY <1>1, <1>2, <1>3, <1>4, <1>5, <1>6, <1>7, <1>8, <1>9, <1>10, <1>11, <1>12 DEF Next

-----------------------------------------------------------------------------
(* The room.                                                               *)

(* What is in the table is in the table of the finished ingest.            *)
LEMMA LogIsDistinct ==
  ASSUME NetInv, OnceInv
  PROVE  Distinct(IntentsOf(rows))
<1> DEFINE P == Planned(ingest.todo)
<1>1. LogOnce(IntentsOf(Future), authored) BY DEF OnceInv
<1>2. EngineInv BY DEF NetInv
<1>3. rows \in Seq(RowSet) BY <1>2 DEF EngineInv, TableOK
<1>4. CASE ingest = NoIngest BY <1>1, <1>4 DEF Future, LogOnce
<1>5. CASE ingest # NoIngest
  <2>1. ingest.todo \in Seq(OpSet) BY <1>2, <1>5 DEF EngineInv, IngestOK, Ingests
  <2>2. P \in Seq(RowSet) BY <2>1, PlannedType
  <2>3. Future = rows \o P BY <1>5 DEF Future
  <2> HIDE DEF P
  <2>4. LogOnce(IntentsOf(rows), authored) BY <1>1, <1>3, <2>2, <2>3, LogOfPart
  <2> QED BY <2>4 DEF LogOnce
<1> QED BY <1>4, <1>5

(* The whole invariant is inductive: the copies of an intent that are      *)
(* under way bound what an ingest may accept, a log without repetition     *)
(* keeps the replicas canonical, and canonical replicas author above the   *)
(* entries they know.                                                      *)
LEMMA RoomStep == RoomInv /\ [Next]_vars => RoomInv'
<1> SUFFICES ASSUME RoomInv, [Next]_vars PROVE RoomInv' OBVIOUS
<1>1. NetInv /\ OnceInv /\ TabsInv BY DEF RoomInv
<1>2. NetInv' BY <1>1, NetStep
<1>3. OnceInv' BY <1>1, <1>2, OnceStep
<1>4. Distinct(IntentsOf(rows)) BY <1>1, LogIsDistinct
<1>5. TabsInv' BY <1>1, <1>2, <1>4, TabsStep
<1> QED BY <1>2, <1>3, <1>5 DEF RoomInv

(* The inductive invariant of the room.                                    *)
THEOREM RoomInvariant == Spec => []RoomInv
<1>1. Init => RoomInv BY NetInit, OnceInit, TabsInit DEF RoomInv
<1> QED BY <1>1, RoomStep, PTL DEF Spec

(* handle_updates(): whatever copies of an intent reach the server, and    *)
(* wherever an ingest dies, it enters the log once.                        *)
THEOREM IntentsAreLoggedOnce == Spec => []LoggedOnce
<1>1. RoomInv => LoggedOnce
  <2> SUFFICES ASSUME RoomInv PROVE LoggedOnce OBVIOUS
  <2>1. NetInv /\ OnceInv BY DEF RoomInv
  <2>2. TableOK BY <2>1 DEF NetInv, EngineInv
  <2>3. Distinct(IntentsOf(rows)) BY <2>1, LogIsDistinct
  <2>4. WholeLog = IntentsOf(rows) /\ WholeLog \in Seq(Entries) BY <2>2, WholeLogIs
  <2>5. DOMAIN WholeLog = 1..Len(WholeLog) BY <2>4, LenProperties, Zenon
  <2> QED BY <2>3, <2>4, <2>5 DEF LoggedOnce, Distinct
<1> QED BY <1>1, RoomInvariant, PTL

(* ingestRow(), maybe_checkpoint() and get_updates_since() together: the   *)
(* document of a tab is the effect of the first entries of the log, after  *)
(* every overlap, trim, deferred reset and repeated delivery.              *)
THEOREM ReplicasArePrefixes == Spec => []ReplicaIsAPrefix
<1>1. RoomInv => ReplicaIsAPrefix
  <2> SUFFICES ASSUME RoomInv, NEW c \in Clients, replica[c].live
               PROVE  /\ replica[c].seq <= Len(WholeLog)
                      /\ replica[c].doc = DocAt(replica[c].seq)
    BY DEF ReplicaIsAPrefix
  <2>1. TableOK /\ TabsInv BY DEF RoomInv, NetInv, EngineInv
  <2>2. WholeLog = IntentsOf(rows) BY <2>1, WholeLogIs
  <2>3. PICK a : TabOK(replica[c], cursor[c], a, rows) BY <2>1 DEF TabsInv, Tab
  <2>4. Canonical(replica[c], rows) BY <2>3 DEF TabOK, Up
  <2> QED BY <2>2, <2>4 DEF Canonical, DocAt
<1> QED BY <1>1, RoomInvariant, PTL

(* Only failures and deaths are charged to a request.                      *)
LEMMA SpentSame ==
  ASSUME SpentInv, attempt' = attempt,
         spent'.failures = spent.failures, spent'.deaths = spent.deaths
  PROVE  SpentInv'
BY DEF SpentInv

(* Every step keeps within the bounds.                                     *)
LEMMA SpentStep == NetInv /\ SpentInv /\ [Next]_vars => SpentInv'
<1> SUFFICES ASSUME NetInv, SpentInv, [Next]_vars PROVE SpentInv' OBVIOUS
<1>0. /\ spent \in Budgets /\ attempt \in [Clients -> Nat]
  BY DEF NetInv, NetTypes
<1>1. /\ spent.failures \in Nat /\ spent.deaths \in Nat
      /\ MaxFailures \in Nat /\ MaxDeaths \in Nat
  BY <1>0, NetworkAssumption DEF Budgets
<1>2. CASE UNCHANGED <<attempt, spent>> BY <1>2, SpentSame
<1>3. ASSUME NEW c \in Clients, NEW txn \in 1..MaxEdits, CancelPending(c, txn)
      PROVE  SpentInv'
  BY <1>0, <1>3, SpentSame DEF CancelPending, netVars, Budgets
<1>4. ASSUME NEW c \in Clients, NEW i \in Ids, ResolveProposal(c, i) PROVE SpentInv'
  BY <1>0, <1>4, SpentSame DEF ResolveProposal, netVars, Budgets
<1>5. ASSUME NEW c \in Clients, Receive(c) PROVE SpentInv'
  <2>1. attempt' = attempt BY <1>5 DEF Receive
  <2>2. spent' = spent \/ spent' = [spent EXCEPT !.overlaps = @ + 1] BY <1>5 DEF Receive
  <2> QED BY <1>0, <2>1, <2>2, SpentSame DEF Budgets
<1>6. ASSUME NEW c \in Clients, RequestFails(c) PROVE SpentInv'
  <2>1. /\ spent.failures < MaxFailures /\ spent' = [spent EXCEPT !.failures = @ + 1]
        /\ attempt' = [attempt EXCEPT ![c] = @ + 1]
    BY <1>6 DEF RequestFails, GiveUp
  <2>2. spent'.failures = spent.failures + 1 /\ spent'.deaths = spent.deaths
    BY <1>0, <2>1 DEF Budgets
  <2>3. \A d \in Clients : attempt[d] \in Nat /\ attempt'[d] <= attempt[d] + 1 BY <1>0, <2>1
  <2> QED BY <1>1, <2>1, <2>2, <2>3, <1>0 DEF SpentInv
<1>7. CASE ServerDies
  <2> DEFINE c == ingest.client
  <2>1. /\ spent.deaths < MaxDeaths /\ spent' = [spent EXCEPT !.deaths = @ + 1]
        /\ attempt' = attempt \/ attempt' = [attempt EXCEPT ![c] = @ + 1]
    BY <1>7 DEF ServerDies, GiveUp
  <2>2. spent'.deaths = spent.deaths + 1 /\ spent'.failures = spent.failures
    BY <1>0, <2>1 DEF Budgets
  <2>3. \A d \in Clients : attempt[d] \in Nat /\ attempt'[d] <= attempt[d] + 1
                           /\ attempt'[d] \in Nat
    <3> HIDE DEF c
    <3> QED BY <1>0, <2>1
  <2> QED BY <1>1, <2>1, <2>2, <2>3, <1>0 DEF SpentInv
<1>8. ASSUME NEW c \in Clients, NEW size \in UnitSizes, NEW lag \in 0..MaxLag, Author(c, size, lag)
      PROVE  UNCHANGED <<attempt, spent>>
  BY <1>8 DEF Author, netVars
<1>9. ASSUME NEW c \in Clients, Send(c) PROVE UNCHANGED <<attempt, spent>> BY <1>9 DEF Send
<1>10. ASSUME NEW r \in inbox, ServerIngest(r) \/ ServerAnswer(r)
       PROVE  UNCHANGED <<attempt, spent>>
  BY <1>10 DEF ServerIngest, ServerAnswer
<1>11. ServerStep \/ ServerEnd => UNCHANGED <<attempt, spent>>
  BY DEF ServerStep, ServerEnd, netVars
<1>12. UNCHANGED vars => UNCHANGED <<attempt, spent>> BY DEF vars, netVars
<1> QED BY <1>2, <1>3, <1>4, <1>5, <1>6, <1>7, <1>8, <1>9, <1>10, <1>11, <1>12 DEF Next

(* The retained rows begin with a checkpoint, no cursor is beyond the      *)
(* table, no answer comes to a tab that does not wait, and what a tab      *)
(* keeps for itself is its own.                                            *)
THEOREM Typed == Spec => []TypeOK
<1>1. Init => SpentInv
  BY NetworkAssumption DEF Init, SpentInv
<1>2. RoomInv /\ SpentInv /\ [Next]_vars => SpentInv' BY SpentStep DEF RoomInv
<1>3. RoomInv /\ SpentInv => TypeOK
  <2> SUFFICES ASSUME RoomInv, SpentInv PROVE TypeOK OBVIOUS
  <2>1. TableOK /\ ClientTypes /\ NetTypes /\ OneRequest /\ TabsInv
    BY DEF RoomInv, NetInv, EngineInv
  <2> SUFFICES ASSUME NEW c \in Clients
               PROVE  /\ Len(authored[c]) <= MaxEdits
                      /\ cursor[c] \in 0..Len(rows)
                      /\ attempt[c] \in 0..(MaxFailures + MaxDeaths)
                      /\ reply[c].here => flight[c].busy
                      /\ \A x \in ToSet(replica[c].outbox) : x.id[1] = c
                      /\ replica[c].deferred # <<>> => replica[c].live
    BY <2>1 DEF TypeOK, TableOK
  <2>2. PICK a : TabOK(replica[c], cursor[c], a, rows) BY <2>1 DEF TabsInv, Tab
  <2>3. cursor[c] \in 0..Len(rows) BY <2>2 DEF TabOK
  <2>4. replica[c].deferred # <<>> => replica[c].live BY <2>2 DEF TabOK, Up, Canonical
  <2>5. attempt[c] \in 0..(MaxFailures + MaxDeaths)
    BY <2>1, NetworkAssumption DEF SpentInv, NetTypes, Budgets
  <2>6. ASSUME NEW x \in ToSet(replica[c].outbox) PROVE x.id[1] = c
    <3>1. replica[c].outbox \in Seq(IntentUpdates) BY <2>1 DEF ClientTypes, Replicas
    <3>2. DOMAIN replica[c].outbox = 1..Len(replica[c].outbox) BY <3>1, LenProperties, Zenon
    <3>3. PICK k \in 1..Len(replica[c].outbox) : x = replica[c].outbox[k]
      BY <3>2 DEF ToSet
    <3> QED BY <2>1, <3>3 DEF ClientTypes
  <2> QED BY <2>1, <2>3, <2>4, <2>5, <2>6 DEF ClientTypes, OneRequest
<1> QED BY <1>1, <1>2, <1>3, RoomInvariant, PTL DEF Spec

-----------------------------------------------------------------------------
(* The review list: copies of a proposal under way.                        *)

(* Parts of a list and the whole.                                          *)
LEMMA NotAboveParts ==
  ASSUME NEW A \in Seq(UpdateSet), NEW B \in Seq(UpdateSet), NEW i, NEW p
  PROVE  NotAbove(A \o B, i, p) <=> NotAbove(A, i, p) /\ NotAbove(B, i, p)
<1> DEFINE us == A \o B
<1>1. /\ us \in Seq(UpdateSet) /\ Len(us) = Len(A) + Len(B)
      /\ \A j \in 1..Len(A) + Len(B) : us[j] = IF j <= Len(A) THEN A[j] ELSE B[j - Len(A)]
  BY ConcatProperties, Zenon
<1>2. Len(A) \in Nat /\ Len(B) \in Nat BY LenProperties, Zenon
<1> HIDE DEF us
<1>3. \A j \in 1..Len(A) : j \in 1..Len(us) /\ us[j] = A[j] BY <1>1, <1>2
<1>4. \A j \in 1..Len(B) : Len(A) + j \in 1..Len(us) /\ us[Len(A) + j] = B[j]
  <2> TAKE j \in 1..Len(B)
  <2> Len(A) + j \in 1..Len(A) + Len(B) /\ ~(Len(A) + j <= Len(A)) /\ Len(A) + j - Len(A) = j
    BY <1>2
  <2> QED BY <1>1
<1>5. \A j \in 1..Len(us) :
         \/ j \in 1..Len(A) /\ us[j] = A[j]
         \/ j - Len(A) \in 1..Len(B) /\ us[j] = B[j - Len(A)]
  <2> TAKE j \in 1..Len(us)
  <2>1. CASE j <= Len(A) BY <1>1, <1>2, <2>1
  <2>2. CASE ~(j <= Len(A)) BY <1>1, <1>2, <2>2
  <2> QED BY <2>1, <2>2
<1>6. ASSUME NotAbove(us, i, p) PROVE NotAbove(A, i, p) /\ NotAbove(B, i, p)
  BY <1>3, <1>4, <1>6 DEF NotAbove
<1>7. ASSUME NotAbove(A, i, p), NotAbove(B, i, p) PROVE NotAbove(us, i, p)
  BY <1>5, <1>7 DEF NotAbove
<1> QED BY <1>6, <1>7 DEF us

(* An update of another kind, or an intent authored now, is no copy.       *)
LEMMA NotAboveMore ==
  ASSUME NEW A \in Seq(UpdateSet), NEW U \in Seq(UpdateSet), NEW i, NEW p,
         \A j \in 1..Len(U) : U[j].type = "intent" => U[j].id # i,
         NotAbove(A, i, p)
  PROVE  NotAbove(A \o U, i, p)
<1>1. NotAbove(U, i, p) BY DEF NotAbove
<1> QED BY <1>1, NotAboveParts

(* Nothing under way, no copy.                                             *)
LEMMA NotAboveEmpty == ASSUME NEW i, NEW p PROVE NotAbove(<<>>, i, p)
<1> Len(<<>>) = 0 /\ 1..0 = {} OBVIOUS
<1> QED BY DEF NotAbove

(* Copies below p are below what is no less.                               *)
LEMMA CopiesRise ==
  ASSUME NetInv, NEW i, NEW p \in Nat, NEW q \in Nat, p <= q, CopiesBelow(i, p)
  PROVE  CopiesBelow(i, q)
<1>1. ASSUME NEW us \in Seq(UpdateSet), NotAbove(us, i, p) PROVE NotAbove(us, i, q)
  <2> SUFFICES ASSUME NEW j \in 1..Len(us), us[j].type = "intent", us[j].id = i
               PROVE  us[j].base <= q
    BY DEF NotAbove
  <2>1. us[j] \in UpdateSet BY ElementOfSeq, Zenon
  <2>2. us[j].base \in Nat BY <2>1 DEF UpdateSet, IntentUpdates
  <2>3. us[j].base <= p BY <1>1 DEF NotAbove
  <2> QED BY <2>2, <2>3
<1>2. \A c \in Clients : Outgoing(c) \in Seq(UpdateSet)
  BY OutgoingType DEF NetInv, ClientTypes, NetTypes, Outgoing
<1>3. \A r \in inbox : r.updates \in Seq(UpdateSet) BY DEF NetInv, NetTypes, RequestSet
<1> QED BY <1>1, <1>2, <1>3 DEF CopiesBelow

(* Every copy was authored at a base within the log.                       *)
LEMMA CopiesWithin ==
  ASSUME OnceInv, NEW i
  PROVE  CopiesBelow(i, Len(IntentsOf(rows)))
BY DEF OnceInv, CopiesBelow, NotAbove, Sent, AboveBase

(* More updates for a tab.                                                 *)
LEMMA OutgoingGrows ==
  ASSUME NetInv, NEW c \in Clients, NEW U \in Seq(UpdateSet),
         queue' = [queue EXCEPT ![c] = queue[c] \o U], flight' = flight
  PROVE  /\ Outgoing(c)' = Outgoing(c) \o U
         /\ \A d \in Clients : d # c => Outgoing(d)' = Outgoing(d)
<1>1. flight[c] \in Flights /\ queue[c] \in Seq(UpdateSet) BY DEF NetInv, ClientTypes, NetTypes
<1>2. queue'[c] = queue[c] \o U /\ \A d \in Clients : d # c => queue'[d] = queue[d]
  BY DEF NetInv, ClientTypes
<1>3. Outgoing(c)' = Outgoing(c) \o U
  <2>1. CASE flight[c].busy
    <3> DEFINE B == flight[c].updates
               q == queue[c]
    <3>1. B \in Seq(UpdateSet) /\ q \in Seq(UpdateSet) BY <1>1, <2>1, OutgoingType
    <3>2. Outgoing(c)' = B \o (q \o U) /\ Outgoing(c) = B \o q
      BY <1>2, <2>1 DEF Outgoing
    <3> HIDE DEF B, q
    <3>3. (B \o q) \o U = B \o (q \o U) BY <3>1, ConcatAssociative
    <3> QED BY <3>2, <3>3
  <2>2. CASE ~flight[c].busy BY <1>2, <2>2 DEF Outgoing
  <2> QED BY <2>1, <2>2
<1>4. \A d \in Clients : d # c => Outgoing(d)' = Outgoing(d) BY <1>2 DEF Outgoing
<1> QED BY <1>3, <1>4

(* What a step must show: no new copy of an authored intent.               *)
LEMMA CopiesSame ==
  ASSUME NEW i, NEW p, CopiesBelow(i, p),
         \A c \in Clients : Outgoing(c)' = Outgoing(c),
         \A r \in inbox' : r \in inbox \/ r.updates = <<>>
  PROVE  CopiesBelow(i, p)'
<1>1. \A r \in inbox' : NotAbove(r.updates, i, p) BY NotAboveEmpty DEF CopiesBelow
<1> QED BY <1>1 DEF CopiesBelow, NotAbove

(* Undo and review add updates of other kinds, an author new intents.      *)
LEMMA QueueKeepsCopies ==
  ASSUME NetInv, NEW i, NEW p, CopiesBelow(i, p), NEW c \in Clients, NEW U \in Seq(UpdateSet),
         \A j \in 1..Len(U) : U[j].type = "intent" => U[j].id # i,
         queue' = [queue EXCEPT ![c] = queue[c] \o U], UNCHANGED <<flight, inbox>>
  PROVE  CopiesBelow(i, p)'
<1>1. /\ Outgoing(c)' = Outgoing(c) \o U
      /\ \A d \in Clients : d # c => Outgoing(d)' = Outgoing(d)
  BY OutgoingGrows
<1>2. \A d \in Clients : Outgoing(d) \in Seq(UpdateSet)
  BY OutgoingType DEF NetInv, ClientTypes, NetTypes, Outgoing
<1>3. NotAbove(Outgoing(c) \o U, i, p)
  <2> DEFINE A == Outgoing(c)
  <2>1. A \in Seq(UpdateSet) /\ NotAbove(A, i, p) BY <1>2 DEF CopiesBelow
  <2> HIDE DEF A
  <2>2. NotAbove(A \o U, i, p) BY <2>1, NotAboveMore
  <2> QED BY <2>2 DEF A
<1>4. \A d \in Clients : NotAbove(Outgoing(d)', i, p)
  <2> TAKE d \in Clients
  <2>1. CASE d = c BY <1>1, <1>3, <2>1
  <2>2. CASE d # c BY <1>1, <2>2 DEF CopiesBelow
  <2> QED BY <2>1, <2>2
<1> QED BY <1>4 DEF CopiesBelow, NotAbove

(* A request takes copies along.                                           *)
LEMMA SendKeepsCopies ==
  ASSUME NetInv, NEW i, NEW p, CopiesBelow(i, p), NEW c \in Clients, Send(c)
  PROVE  CopiesBelow(i, p)'
<1> DEFINE q == queue[c]
<1>1. ClientTypes /\ NetTypes BY DEF NetInv
<1>2. q \in Seq(UpdateSet) BY <1>1 DEF ClientTypes
<1>3. Len(q) \in Nat BY <1>2, LenProperties, Zenon
<1>4. ~flight[c].busy BY DEF Send
<1>5. PICK k \in 0..Len(q) :
        LET us == SubSeq(q, 1, k)
        IN  /\ flight' = [flight EXCEPT ![c] = Flight(us)]
            /\ queue' = [queue EXCEPT ![c] = SubSeq(q, k + 1, Len(q))]
            /\ inbox' = inbox \cup
                 {[client |-> c, attempt |-> attempt[c], cursor |-> cursor[c],
                   updates |-> us, ingested |-> k = 0, verdicts |-> {}]}
  <2>1. (IF Splits /\ queue[c] # <<>> THEN 1..Len(queue[c]) ELSE {Len(queue[c])}) \subseteq 0..Len(queue[c])
    BY <1>3
  <2> QED BY <2>1 DEF Send
<1> DEFINE us == SubSeq(q, 1, k)
           rest == SubSeq(q, k + 1, Len(q))
<1>6. us \in Seq(UpdateSet) /\ rest \in Seq(UpdateSet) /\ q = us \o rest
  <2>1. CASE k = 0
    <3>1. us = <<>> BY <2>1, SubSeqEmpty
    <3>2. k + 1 = 1 BY <2>1
    <3>3. rest = q BY <1>2, <3>2, SubSeqFull
    <3>4. <<>> \o q = q /\ <<>> \in Seq(UpdateSet) BY <1>2, ConcatEmptySeq, EmptySeq, Zenon
    <3> QED BY <1>2, <3>1, <3>3, <3>4
  <2>2. CASE k # 0
    <3> k \in 1..Len(q) BY <1>3, <2>2
    <3> HIDE DEF q
    <3> QED BY <1>2, SplitAt
  <2> QED BY <2>1, <2>2
<1> HIDE DEF us, rest, q
<1>7. NotAbove(q, i, p) BY <1>4 DEF CopiesBelow, Outgoing, q
<1>8. NotAbove(us, i, p)
  <2>1. NotAbove(us \o rest, i, p) BY <1>6, <1>7
  <2> QED BY <1>6, <2>1, NotAboveParts
<1>9. ASSUME NEW d \in Clients PROVE NotAbove(Outgoing(d)', i, p)
  <2>1. CASE d = c
    <3>1. flight'[c] = Flight(us) /\ queue'[c] = rest
      BY <1>1, <1>5 DEF ClientTypes, NetTypes, us, rest, q
    <3>2. Outgoing(c)' = us \o rest BY <3>1 DEF Outgoing, Flight
    <3> QED BY <1>6, <1>7, <2>1, <3>2
  <2>2. CASE d # c
    <3> flight'[d] = flight[d] /\ queue'[d] = queue[d]
      BY <1>1, <1>5, <2>2 DEF ClientTypes, NetTypes
    <3> QED BY DEF CopiesBelow, Outgoing
  <2> QED BY <2>1, <2>2
<1>10. ASSUME NEW r \in inbox' PROVE NotAbove(r.updates, i, p)
  <2>1. CASE r \in inbox BY <2>1 DEF CopiesBelow
  <2>2. CASE r \notin inbox
    <3> r.updates = us BY <1>5, <2>2 DEF us, q
    <3> QED BY <1>8
  <2> QED BY <2>1, <2>2
<1> QED BY <1>9, <1>10 DEF CopiesBelow, NotAbove

(* An answered request is done with its copies.                            *)
LEMMA ReceiveKeepsCopies ==
  ASSUME NetInv, NEW i, NEW p, CopiesBelow(i, p), NEW c \in Clients, Receive(c)
  PROVE  CopiesBelow(i, p)'
<1>1. /\ reply[c].here /\ flight' = [flight EXCEPT ![c] = Idle]
      /\ UNCHANGED <<queue, inbox>>
  BY DEF Receive
<1>2. ClientTypes /\ NetTypes /\ OneRequest BY DEF NetInv
<1>3. flight[c].busy BY <1>1, <1>2 DEF OneRequest
<1>4. flight[c].updates \in Seq(UpdateSet) /\ queue[c] \in Seq(UpdateSet)
  BY <1>2, <1>3, OutgoingType DEF ClientTypes, NetTypes
<1>5. ASSUME NEW d \in Clients PROVE NotAbove(Outgoing(d)', i, p)
  <2>1. CASE d = c
    <3>1. ~flight'[c].busy BY <1>1, <1>2 DEF NetTypes, Idle
    <3>2. Outgoing(c)' = queue[c] BY <1>1, <3>1 DEF Outgoing
    <3>3. NotAbove(flight[c].updates \o queue[c], i, p)
      BY <1>3 DEF CopiesBelow, Outgoing
    <3> DEFINE A == flight[c].updates
               q == queue[c]
    <3>4. A \in Seq(UpdateSet) /\ q \in Seq(UpdateSet) /\ NotAbove(A \o q, i, p)
      BY <1>4, <3>3
    <3> HIDE DEF A, q
    <3>5. NotAbove(q, i, p) BY <3>4, NotAboveParts
    <3> QED BY <2>1, <3>2, <3>5 DEF q
  <2>2. CASE d # c
    <3> Outgoing(d)' = Outgoing(d) BY <1>1, <1>2, <2>2 DEF Outgoing, NetTypes
    <3> QED BY DEF CopiesBelow
  <2> QED BY <2>1, <2>2
<1> QED BY <1>1, <1>5 DEF CopiesBelow, NotAbove

(* The ids of a new unit are new.                                          *)
LEMMA AuthorKeepsCopies ==
  ASSUME NetInv, NetInv', NEW i \in Ids, NEW p, CopiesBelow(i, p), Known(i), NEW c \in Clients,
         NEW size \in UnitSizes, NEW lag \in 0..MaxLag, Author(c, size, lag)
  PROVE  CopiesBelow(i, p)' /\ Known(i)'
<1> DEFINE made == Len(authored[c])
           unit == [k \in 1..size |-> IntentUpdate(<<c, made + k>>, replica[c].seq - lag, made + 1)]
           marks == [k \in 1..size |-> made + 1]
<1>1. /\ authored' = [authored EXCEPT ![c] = authored[c] \o marks]
      /\ queue' = [queue EXCEPT ![c] = queue[c] \o unit]
      /\ UNCHANGED <<flight, inbox>>
      /\ replica[c].boot <= replica[c].seq - lag
  BY DEF Author, netVars
<1>2. size \in Nat /\ lag \in Nat BY NetworkAssumption
<1>3. ClientTypes /\ ClientTypes' /\ replica[c] \in Replicas BY DEF NetInv, ClientTypes
<1>4. made \in Nat BY <1>3, LenProperties DEF ClientTypes
<1>5. Len(unit) = size /\ \A k \in 1..Len(unit) : unit[k].id = <<c, made + k>>
  BY <1>2 DEF IntentUpdate
<1>6. Len(marks) = size /\ marks \in Seq(Nat) BY <1>2, <1>4
<1>7. made + size <= MaxEdits /\ Len(authored'[c]) = made + size
      /\ \A d \in Clients : d # c => authored'[d] = authored[d]
  <2> authored[c] \in Seq(Nat) /\ authored'[c] = authored[c] \o marks BY <1>1, <1>3 DEF ClientTypes
  <2> HIDE DEF marks
  <2> Len(authored[c] \o marks) = Len(authored[c]) + Len(marks) BY <1>6, ConcatProperties, Zenon
  <2> QED BY <1>1, <1>3, <1>6 DEF ClientTypes
<1>8. unit \in Seq(UpdateSet)
  <2>1. replica[c].seq - lag \in Nat BY <1>1, <1>2, <1>3 DEF Replicas
  <2>2. \A k \in 1..size : unit[k] \in UpdateSet
    <3> TAKE k \in 1..size
    <3>1. <<c, made + k>> \in Ids BY <1>2, <1>4, <1>7, EngineAssumption DEF Ids
    <3> QED BY <1>4, <2>1, <3>1 DEF IntentUpdate, IntentUpdates, UpdateSet
  <2> QED BY <1>2, <2>2
<1>9. i[1] \in Clients /\ i[2] \in Nat BY EngineAssumption DEF Ids
<1>10. \A k \in 1..Len(unit) : unit[k].id # i
  <2> SUFFICES ASSUME NEW k \in 1..Len(unit), <<c, made + k>> = i PROVE FALSE BY <1>5
  <2>1. i[1] = c /\ i[2] = made + k /\ k \in Nat /\ k >= 1 BY <1>2, <1>5
  <2>2. i[2] <= made BY <2>1 DEF Known
  <2> QED BY <1>4, <2>1, <2>2
<1> HIDE DEF unit, marks
<1>11. CopiesBelow(i, p)' BY <1>1, <1>8, <1>10, QueueKeepsCopies
<1>12. Known(i)'
  <2>1. CASE i[1] = c BY <1>2, <1>4, <1>7, <1>9, <2>1 DEF Known
  <2>2. CASE i[1] # c BY <1>7, <1>9, <2>2 DEF Known
  <2> QED BY <2>1, <2>2
<1> QED BY <1>11, <1>12

(* No step brings a copy of an authored intent with a greater base.        *)
LEMMA CopiesStep ==
  ASSUME NetInv, NetInv', [Next]_vars, NEW i \in Ids, NEW p, CopiesBelow(i, p), Known(i)
  PROVE  CopiesBelow(i, p)' /\ Known(i)'
<1>0. ClientTypes /\ ClientTypes' BY DEF NetInv
<1>1. ASSUME authored' = authored, UNCHANGED <<queue, flight>>,
             \A r \in inbox' : r \in inbox \/ r.updates = <<>>
      PROVE  CopiesBelow(i, p)' /\ Known(i)'
  <2>1. \A c \in Clients : Outgoing(c)' = Outgoing(c) BY <1>1 DEF Outgoing
  <2>2. CopiesBelow(i, p)' BY <1>1, <2>1, CopiesSame
  <2> QED BY <1>1, <2>2 DEF Known
<1>2. ASSUME authored' = authored, NEW c \in Clients, flight[c].busy, GiveUp(c), inbox' \subseteq inbox
      PROVE  CopiesBelow(i, p)' /\ Known(i)'
  <2>1. \A d \in Clients : Outgoing(d)' = Outgoing(d) BY <1>2, GiveUpSame
  <2>2. CopiesBelow(i, p)' BY <1>2, <2>1, CopiesSame
  <2> QED BY <1>2, <2>2 DEF Known
<1>3. CASE UNCHANGED vars BY <1>1, <1>3 DEF vars, clientVars, netVars
<1>4. ASSUME NEW c \in Clients, NEW size \in UnitSizes, NEW lag \in 0..MaxLag,
             Author(c, size, lag)
      PROVE  CopiesBelow(i, p)' /\ Known(i)'
  BY <1>4, AuthorKeepsCopies
<1>5. ASSUME NEW c \in Clients, NEW u, u.type # "intent",
             queue' = [queue EXCEPT ![c] = Append(queue[c], u)],
             authored' = authored, UNCHANGED <<flight, inbox>>
      PROVE  CopiesBelow(i, p)' /\ Known(i)'
  <2>1. queue[c] \in Seq(UpdateSet) /\ queue'[c] = Append(queue[c], u)
        /\ queue'[c] \in Seq(UpdateSet)
    BY <1>0, <1>5 DEF ClientTypes
  <2>2. u \in UpdateSet
    <3>1. \A q : q \in Seq(UpdateSet) /\ Append(q, u) \in Seq(UpdateSet) => u \in UpdateSet
      <4> SUFFICES ASSUME NEW q \in Seq(UpdateSet), Append(q, u) \in Seq(UpdateSet)
                   PROVE  u \in UpdateSet
        OBVIOUS
      <4>1. Len(q) \in Nat BY LenProperties, Zenon
      <4>2. Len(Append(q, u)) = Len(q) + 1 /\ Append(q, u)[Len(q) + 1] = u OBVIOUS
      <4>3. Len(q) + 1 \in 1..Len(Append(q, u)) BY <4>1, <4>2
      <4> QED BY <4>2, <4>3, ElementOfSeq
    <3> QED BY <2>1, <3>1
  <2>3. <<u>> \in Seq(UpdateSet) /\ Len(<<u>>) = 1 /\ <<u>>[1] = u BY <2>2
  <2>4. \A q : q \in Seq(UpdateSet) => Append(q, u) = q \o <<u>> BY <2>2, AppendIsConcat
  <2>5. queue' = [queue EXCEPT ![c] = queue[c] \o <<u>>] BY <1>5, <2>1, <2>4
  <2>6. \A j \in 1..Len(<<u>>) : <<u>>[j].type = "intent" => <<u>>[j].id # i BY <1>5, <2>3
  <2> DEFINE U == <<u>>
  <2> HIDE DEF U
  <2>7. /\ U \in Seq(UpdateSet) /\ queue' = [queue EXCEPT ![c] = queue[c] \o U]
        /\ \A j \in 1..Len(U) : U[j].type = "intent" => U[j].id # i
    BY <2>3, <2>5, <2>6 DEF U
  <2>8. CopiesBelow(i, p)' BY <1>5, <2>7, QueueKeepsCopies
  <2> QED BY <1>5, <2>8 DEF Known
<1>6. ASSUME NEW c \in Clients, NEW txn \in 1..MaxEdits, CancelPending(c, txn)
      PROVE  CopiesBelow(i, p)' /\ Known(i)'
  <2>1. PICK ids : queue' = [queue EXCEPT ![c] = Append(queue[c], CancelUpdate(ids))]
    BY <1>0, <1>6 DEF CancelPending, ClientTypes
  <2>2. CancelUpdate(ids).type # "intent" BY DEF CancelUpdate
  <2>3. UNCHANGED <<authored, flight, inbox>> BY <1>6 DEF CancelPending, netVars
  <2> QED BY <1>5, <2>1, <2>2, <2>3
<1>7. ASSUME NEW c \in Clients, NEW j \in Ids, ResolveProposal(c, j)
      PROVE  CopiesBelow(i, p)' /\ Known(i)'
  <2>1. queue' = [queue EXCEPT ![c] = Append(queue[c], ResolvedUpdate(j))]
    BY <1>0, <1>7 DEF ResolveProposal, ClientTypes
  <2>2. ResolvedUpdate(j).type # "intent" BY DEF ResolvedUpdate
  <2>3. UNCHANGED <<authored, flight, inbox>> BY <1>7 DEF ResolveProposal, netVars
  <2> QED BY <1>5, <2>1, <2>2, <2>3
<1>8. ASSUME NEW c \in Clients, Send(c) PROVE CopiesBelow(i, p)' /\ Known(i)'
  BY <1>8, SendKeepsCopies DEF Send, Known
<1>9. ASSUME NEW c \in Clients, Receive(c) PROVE CopiesBelow(i, p)' /\ Known(i)'
  BY <1>9, ReceiveKeepsCopies DEF Receive, Known
<1>10. ASSUME NEW c \in Clients, RequestFails(c) PROVE CopiesBelow(i, p)' /\ Known(i)'
  <2> flight[c].busy /\ GiveUp(c) /\ inbox' \subseteq inbox /\ authored' = authored
    BY <1>10 DEF RequestFails
  <2> QED BY <1>2
<1>11. ASSUME NEW r \in inbox, ServerIngest(r) PROVE CopiesBelow(i, p)' /\ Known(i)'
  BY <1>1, <1>11 DEF ServerIngest, clientVars
<1>12. ASSUME NEW r \in inbox, ServerAnswer(r) PROVE CopiesBelow(i, p)' /\ Known(i)'
  BY <1>1, <1>12 DEF ServerAnswer, clientVars
<1>13. CASE ServerStep BY <1>1, <1>13 DEF ServerStep, clientVars, netVars
<1>14. CASE ServerEnd BY <1>1, <1>14 DEF ServerEnd, clientVars
<1>15. CASE ServerDies
  <2> DEFINE c == ingest.client
  <2>1. ingest # NoIngest /\ inbox' = inbox /\ authored' = authored
    BY <1>15 DEF ServerDies, IngestDies
  <2>2. \/ GiveUp(c) /\ ingest.attempt = attempt[c]
        \/ UNCHANGED <<flight, queue>>
    BY <1>15 DEF ServerDies
  <2>3. c \in Clients BY <2>1 DEF NetInv, EngineInv, IngestOK, Ingests
  <2>4. CASE GiveUp(c) /\ ingest.attempt = attempt[c]
    <3> flight[c].busy BY <2>1, <2>3, <2>4 DEF NetInv, OneRequest, OfIngest
    <3> QED BY <1>2, <2>1, <2>3, <2>4
  <2>5. CASE UNCHANGED <<flight, queue>> BY <1>1, <2>1, <2>5
  <2> QED BY <2>2, <2>4, <2>5
<1> QED BY <1>3, <1>4, <1>6, <1>7, <1>8, <1>9, <1>10, <1>11, <1>12, <1>13, <1>14, <1>15 DEF Next

-----------------------------------------------------------------------------
(* A table and its continuation.                                           *)

(* Rows and log positions of the two parts.                                *)
LEMMA PosInConcat ==
  ASSUME NEW s \in Seq(RowSet), NEW t \in Seq(RowSet)
  PROVE  /\ s \o t \in Seq(RowSet) /\ Len(s \o t) = Len(s) + Len(t)
         /\ Len(s) \in Nat /\ Len(t) \in Nat /\ Len(IntentsOf(s)) \in Nat
         /\ \A k \in 1..Len(s) : (s \o t)[k] = s[k]
         /\ \A k \in 1..Len(t) : (s \o t)[Len(s) + k] = t[k]
         /\ \A k \in 0..Len(s) : Pos(s \o t, k) = Pos(s, k)
         /\ \A k \in Len(s)..Len(s \o t) :
              Pos(s \o t, k) \in Nat /\ Len(IntentsOf(s)) <= Pos(s \o t, k)
<1> DEFINE u == s \o t
<1>1. /\ u \in Seq(RowSet) /\ Len(u) = Len(s) + Len(t)
      /\ \A j \in 1..Len(s) + Len(t) : u[j] = IF j <= Len(s) THEN s[j] ELSE t[j - Len(s)]
  BY ConcatProperties, Zenon
<1>2. Len(s) \in Nat /\ Len(t) \in Nat BY LenProperties, Zenon
<1>3. \A k \in 1..Len(s) : u[k] = s[k]
  <2> TAKE k \in 1..Len(s)
  <2> k \in 1..Len(s) + Len(t) /\ k <= Len(s) BY <1>2
  <2> QED BY <1>1
<1>4. \A k \in 1..Len(t) : u[Len(s) + k] = t[k]
  <2> TAKE k \in 1..Len(t)
  <2> Len(s) + k \in 1..Len(s) + Len(t) /\ ~(Len(s) + k <= Len(s)) /\ Len(s) + k - Len(s) = k
    BY <1>2
  <2> QED BY <1>1
<1>5. \A k \in 0..Len(s) : Pos(u, k) = Pos(s, k) BY PrefixOfConcat DEF Pos
<1>6. Pos(s, Len(s)) = Len(IntentsOf(s)) BY PosEnds
<1>7. Len(IntentsOf(s)) \in Nat
  <2> IntentsOf(s) \in Seq(Entries) BY IntentsOfType
  <2> QED BY LenProperties, Zenon
<1> HIDE DEF u
<1>8. \A k \in Len(s)..Len(u) : Pos(u, k) \in Nat /\ Len(IntentsOf(s)) <= Pos(u, k)
  <2> TAKE k \in Len(s)..Len(u)
  <2>1. k \in 0..Len(u) /\ Len(s) \in 0..k /\ Len(s) \in 0..Len(s) BY <1>1, <1>2
  <2>2. Pos(u, k) \in Nat BY <1>1, <2>1, PosIs
  <2>3. Pos(u, Len(s)) <= Pos(u, k) BY <1>1, <2>1, PosMonotone
  <2>4. Pos(u, Len(s)) = Len(IntentsOf(s)) BY <1>5, <1>6, <2>1
  <2> QED BY <2>2, <2>3, <2>4
<1> QED BY <1>1, <1>2, <1>3, <1>4, <1>5, <1>7, <1>8 DEF u

(* Rows and log positions with one row more.                               *)
LEMMA AppendedRow ==
  ASSUME NEW s \in Seq(RowSet), NEW r \in RowSet
  PROVE  /\ Append(s, r) \in Seq(RowSet) /\ Len(Append(s, r)) = Len(s) + 1 /\ Len(s) \in Nat
         /\ Append(s, r)[Len(s) + 1] = r
         /\ \A k \in 1..Len(s) : Append(s, r)[k] = s[k] /\ Pos(Append(s, r), k) = Pos(s, k)
         /\ r.kind # "intent" => Pos(Append(s, r), Len(s) + 1) = Len(IntentsOf(s))
<1> DEFINE t == Append(s, r)
<1>1. /\ t \in Seq(RowSet) /\ Len(t) = Len(s) + 1 /\ Len(s) \in Nat /\ t[Len(s) + 1] = r
      /\ \A k \in 1..Len(s) : t[k] = s[k]
  BY AppendProperties, LenProperties
<1>2. \A k \in 0..Len(s) : Pos(t, k) = Pos(s, k) BY PosAppend
<1>3. Pos(s, Len(s)) = Len(IntentsOf(s)) BY PosEnds
<1> HIDE DEF t
<1>4. r.kind # "intent" => Pos(t, Len(s) + 1) = Len(IntentsOf(s))
  <2> SUFFICES ASSUME r.kind # "intent" PROVE Pos(t, Len(s) + 1) = Len(IntentsOf(s)) OBVIOUS
  <2>1. Len(s) + 1 \in 1..Len(t) /\ (Len(s) + 1) - 1 = Len(s) /\ Len(s) \in 0..Len(s) BY <1>1
  <2>2. Pos(t, Len(s) + 1) = Pos(t, (Len(s) + 1) - 1) BY <1>1, <2>1, PosStep
  <2> QED BY <1>2, <1>3, <2>1, <2>2
<1>5. \A k \in 1..Len(s) : Pos(t, k) = Pos(s, k) BY <1>1, <1>2
<1> QED BY <1>1, <1>4, <1>5 DEF t

(* Future begins with the table.                                           *)
LEMMA FutureIs ==
  ASSUME NetInv
  PROVE  /\ rows \in Seq(RowSet)
         /\ \E P \in Seq(RowSet) : Future = rows \o P /\ (ingest = NoIngest => P = <<>>)
<1>1. rows \in Seq(RowSet) BY DEF NetInv, EngineInv, TableOK
<1>2. CASE ingest = NoIngest
  <2> Future = rows \o <<>> /\ <<>> \in Seq(RowSet) BY <1>1, <1>2, ConcatEmptySeq, EmptySeq DEF Future
  <2> QED BY <1>1
<1>3. CASE ingest # NoIngest
  <2> Planned(ingest.todo) \in Seq(RowSet) BY <1>3, PlannedType DEF NetInv, EngineInv, IngestOK, Ingests
  <2> QED BY <1>1, <1>3 DEF Future
<1> QED BY <1>2, <1>3

FutureOK == Future \in Seq(RowSet)

(* Future is a table.                                                      *)
LEMMA FutureType == NetInv => FutureOK
<1> SUFFICES ASSUME NetInv PROVE FutureOK OBVIOUS
<1>1. PICK P \in Seq(RowSet) : Future = rows \o P BY FutureIs
<1>2. rows \in Seq(RowSet) BY FutureIs
<1> DEFINE s == rows
<1>3. s \in Seq(RowSet) BY <1>2
<1> HIDE DEF s
<1>4. s \o P \in Seq(RowSet) BY <1>3, ConcatProperties, Zenon
<1> QED BY <1>1, <1>4 DEF s, FutureOK

(* ... and after the step.                                                 *)
LEMMA FutureTypeNext == NetInv' => FutureOK'
BY FutureType, PTL

(* Rows about a proposal are written for authored intents, and above the   *)
(* base of every copy.                                                     *)
LEMMA ProposalsLater ==
  ASSUME NetInv, NetInv', OnceInv, [Next]_vars, ProposalsKnown(Future),
         \/ Future' = Future
         \/ \E A \in Seq(RowSet) :
              /\ Future' = rows \o A
              /\ \A k \in 1..Len(A) : A[k].kind \in {"parked", "resolved"} => Known(A[k].id)
  PROVE  ProposalsKnown(Future)'
<1>1. rows \in Seq(RowSet) BY FutureIs
<1>2. PICK P \in Seq(RowSet) : Future = rows \o P BY FutureIs
<1>3. /\ \A k \in 1..Len(rows) : Future[k] = rows[k] /\ Pos(Future, k) = Pos(rows, k)
      /\ Len(rows) \in Nat /\ Len(Future) \in Nat /\ Len(rows) <= Len(Future)
      /\ Len(IntentsOf(rows)) \in Nat
  <2> DEFINE s == rows
  <2>1. s \in Seq(RowSet) /\ Future = s \o P BY <1>1, <1>2
  <2> HIDE DEF s
  <2>2. /\ Len(s \o P) = Len(s) + Len(P) /\ Len(s) \in Nat /\ Len(P) \in Nat
        /\ Len(IntentsOf(s)) \in Nat
        /\ \A k \in 1..Len(s) : (s \o P)[k] = s[k]
        /\ \A k \in 0..Len(s) : Pos(s \o P, k) = Pos(s, k)
    BY <2>1, PosInConcat
  <2> QED BY <2>1, <2>2 DEF s
<1>4. Future' \in Seq(RowSet) BY FutureTypeNext DEF FutureOK
<1>5. \A k \in 1..Len(Future') : Future'[k] \in RowSet /\ Pos(Future', k) \in Nat
  <2> TAKE k \in 1..Len(Future')
  <2> k \in 0..Len(Future') BY <1>4, LenProperties
  <2> QED BY <1>4, PosIs, ElementOfSeq
<1>6. ASSUME NEW k \in 1..Len(Future'), Future'[k].kind \in {"parked", "resolved"}
      PROVE  Known(Future'[k].id) /\ CopiesBelow(Future'[k].id, Pos(Future', k))
  <2>1. CASE k \in 1..Len(Future) /\ Future'[k] = Future[k] /\ Pos(Future', k) = Pos(Future, k)
    BY <1>6, <2>1 DEF ProposalsKnown
  <2>2. CASE /\ Known(Future'[k].id) /\ Len(IntentsOf(rows)) <= Pos(Future', k)
    <3>1. CopiesBelow(Future'[k].id, Len(IntentsOf(rows))) BY CopiesWithin
    <3> QED BY <1>3, <1>5, <2>2, <3>1, CopiesRise
  <2>3. CASE Future' = Future BY <2>1, <2>3
  <2>4. ASSUME NEW A \in Seq(RowSet), Future' = rows \o A,
               \A j \in 1..Len(A) : A[j].kind \in {"parked", "resolved"} => Known(A[j].id)
        PROVE  Known(Future'[k].id) /\ CopiesBelow(Future'[k].id, Pos(Future', k))
    <3> DEFINE s == rows
               F == Future'
    <3>1. /\ Len(s \o A) = Len(s) + Len(A) /\ Len(s) \in Nat /\ Len(A) \in Nat
          /\ \A j \in 1..Len(s) : (s \o A)[j] = s[j]
          /\ \A j \in 1..Len(A) : (s \o A)[Len(s) + j] = A[j]
          /\ \A j \in 0..Len(s) : Pos(s \o A, j) = Pos(s, j)
          /\ \A j \in Len(s)..Len(s \o A) :
               Pos(s \o A, j) \in Nat /\ Len(IntentsOf(s)) <= Pos(s \o A, j)
      <4> s \in Seq(RowSet) BY <1>1
      <4> HIDE DEF s
      <4> QED BY PosInConcat
    <3>2. F = s \o A BY <2>4
    <3> HIDE DEF F, s
    <3>3. k \in 1..(Len(s) + Len(A)) BY <3>1, <3>2 DEF F
    <3>4. CASE k <= Len(s)
      <4>1. k \in 1..Len(s) /\ k \in 0..Len(s) BY <3>1, <3>3, <3>4
      <4>2. F[k] = s[k] /\ Pos(F, k) = Pos(s, k) BY <3>1, <3>2, <4>1
      <4>3. k \in 1..Len(Future) /\ F[k] = Future[k] /\ Pos(F, k) = Pos(Future, k)
        BY <1>3, <4>1, <4>2 DEF s
      <4> QED BY <2>1, <4>3 DEF F
    <3>5. CASE ~(k <= Len(s))
      <4> DEFINE j == k - Len(s)
      <4>1. j \in 1..Len(A) /\ Len(s) + j = k /\ k \in Len(s)..Len(s \o A) BY <3>1, <3>3, <3>5
      <4> HIDE DEF j
      <4>2. F[k] = A[j] /\ Len(IntentsOf(s)) <= Pos(F, k) BY <3>1, <3>2, <4>1
      <4>3. Known(F[k].id) BY <1>6, <2>4, <4>1, <4>2 DEF F
      <4> QED BY <2>2, <4>2, <4>3 DEF F, s
    <3> QED BY <3>4, <3>5
  <2> QED BY <2>3, <2>4
<1>7. \A i \in Ids : \A p : CopiesBelow(i, p) /\ Known(i) => CopiesBelow(i, p)' /\ Known(i)'
  BY CopiesStep
<1>8. ASSUME NEW k \in 1..Len(Future'), Future'[k].kind \in {"parked", "resolved"}
      PROVE  (Known(Future[k].id) /\ CopiesBelow(Future[k].id, Pos(Future, k)))'
  <2>1. PICK i : i = Future'[k].id OBVIOUS
  <2>2. PICK p : p = Pos(Future', k) OBVIOUS
  <2>3. i \in Ids BY <1>5, <1>8, <2>1 DEF RowSet, Entries
  <2>4. Known(i) /\ CopiesBelow(i, p) BY <1>6, <1>8, <2>1, <2>2
  <2>5. Known(i)' /\ CopiesBelow(i, p)' BY <1>7, <2>3, <2>4
  <2> QED BY <2>1, <2>2, <2>5 DEF Known, CopiesBelow
<1> QED BY <1>8 DEF ProposalsKnown

(* One row more: what there was about an intent is still there.            *)
LEMMA HasMore ==
  ASSUME NEW s \in Seq(RowSet), NEW r \in RowSet, NEW kind, NEW i
  PROVE  Has(Append(s, r), kind, i) <=> Has(s, kind, i) \/ (r.kind = kind /\ r.id = i)
<1> DEFINE t == Append(s, r)
<1>1. /\ Len(t) = Len(s) + 1 /\ Len(s) \in Nat /\ t[Len(s) + 1] = r
      /\ \A k \in 1..Len(s) : t[k] = s[k]
  BY AppendedRow
<1> HIDE DEF t
<1>2. \A k \in 1..Len(t) : k \in 1..Len(s) \/ k = Len(s) + 1 BY <1>1
<1>3. \A k \in 1..Len(s) : k \in 1..Len(t) BY <1>1
<1>4. Len(s) + 1 \in 1..Len(t) BY <1>1
<1>5. Has(t, kind, i) <=> Has(s, kind, i) \/ (r.kind = kind /\ r.id = i)
  BY <1>1, <1>2, <1>3, <1>4 DEF Has
<1> QED BY <1>5 DEF t

(* What a trim ahead leaves of one parked row.                             *)
LEMMA KeptAt ==
  ASSUME NEW todo, NEW s, NEW n, Reviewing(todo, s, n), NEW j \in 1..Len(todo), todo[j].do = "trim",
         NEW k \in 1..Len(s), s[k].kind = "parked", NEW b, b = todo[j].below
  PROVE  \/ Has(s, "resolved", s[k].id)
         \/ \E m \in b..Len(s) : s[m] = s[k]
         \/ \E h \in 1..(j - 1) : todo[h].do = "insert" /\ todo[h].row = s[k]
BY Zenon DEF Reviewing, WillBeKept

(* The head of a plan is done; the rest is what it was.                    *)
LEMMA PendingTail ==
  ASSUME NEW todo \in Seq(OpSet), todo # <<>>, Layout(todo),
         NEW s \in Seq(RowSet), NEW n \in Nat, Reviewing(todo, s, n), todo[1].do # "insert"
  PROVE  Reviewing(Tail(todo), s, n)
<1>1. /\ Len(Tail(todo)) = Len(todo) - 1 /\ Len(todo) \in Nat \ {0}
      /\ \A i \in 1..(Len(todo) - 1) : Tail(todo)[i] = todo[i + 1]
  BY TailOK, EmptySeq
<1> DEFINE t == Tail(todo)
<1>2. \A i \in 1..Len(t) : i + 1 \in 1..Len(todo) /\ t[i] = todo[i + 1] /\ i \in Nat /\ Len(t) \in Nat
  BY <1>1
<1>3. Len(todo) = Len(t) + 1 /\ Len(t) \in Nat BY <1>1
<1> HIDE DEF t
<1>4. WillBeBelow(t, s, n) BY <1>2 DEF Reviewing, WillBeBelow
<1>5. WillBeEarly(t, s, n)
  <2> SUFFICES ASSUME NEW i \in 1..Len(t), OfResolved(t[i])
               PROVE  /\ Has(s, "parked", t[i].row.id)
                      /\ Short(s, n) \/ \E h \in 1..(i - 1) : OfSnapshot(t[h])
                      /\ \A j \in i..Len(t) : OfResolved(t[j])
    BY DEF WillBeEarly
  <2>1. /\ Has(s, "parked", t[i].row.id)
        /\ Short(s, n) \/ \E h \in 1..((i + 1) - 1) : OfSnapshot(todo[h])
        /\ \A j \in (i + 1)..Len(todo) : OfResolved(todo[j])
    BY <1>2 DEF Reviewing, WillBeEarly
  <2>2. ASSUME NEW h \in 1..((i + 1) - 1), OfSnapshot(todo[h])
        PROVE  \E g \in 1..(i - 1) : OfSnapshot(t[g])
    <3>1. h # 1 BY <2>2 DEF OfSnapshot
    <3>2. h - 1 \in 1..(i - 1) /\ h - 1 \in 1..Len(t) /\ (h - 1) + 1 = h BY <1>3, <2>2, <3>1
    <3>3. t[h - 1] = todo[h] BY <1>2, <3>2
    <3> QED BY <2>2, <3>2, <3>3
  <2>3. ASSUME NEW j \in i..Len(t) PROVE OfResolved(t[j])
    <3> j \in 1..Len(t) /\ j + 1 \in (i + 1)..Len(todo) BY <1>3
    <3> QED BY <1>2, <2>1
  <2> QED BY <2>1, <2>2, <2>3
<1>6. WillBeOpen(t, s) BY <1>2 DEF Reviewing, WillBeOpen
<1>7. WillBeKept(t, s)
  <2> SUFFICES ASSUME NEW i \in 1..Len(t), t[i].do = "trim",
                      NEW k \in 1..Len(s), s[k].kind = "parked"
               PROVE  \/ Has(s, "resolved", s[k].id)
                      \/ \E m \in t[i].below..Len(s) : s[m] = s[k]
                      \/ \E h \in 1..(i - 1) : t[h].do = "insert" /\ t[h].row = s[k]
    BY DEF WillBeKept
  <2>1. \/ Has(s, "resolved", s[k].id)
        \/ \E m \in t[i].below..Len(s) : s[m] = s[k]
        \/ \E h \in 1..((i + 1) - 1) : todo[h].do = "insert" /\ todo[h].row = s[k]
    <3> HIDE DEF t
    <3>1. i + 1 \in 1..Len(todo) /\ todo[i + 1].do = "trim" /\ t[i].below = todo[i + 1].below
      BY <1>2
    <3> DEFINE j == i + 1
               b == t[i].below
    <3>2. j \in 1..Len(todo) /\ todo[j].do = "trim" /\ b = todo[j].below BY <3>1
    <3> HIDE DEF j, b
    <3>3. \/ Has(s, "resolved", s[k].id)
          \/ \E m \in b..Len(s) : s[m] = s[k]
          \/ \E h \in 1..(j - 1) : todo[h].do = "insert" /\ todo[h].row = s[k]
      BY <3>2, KeptAt
    <3> QED BY <3>3 DEF j, b
  <2>2. ASSUME NEW h \in 1..((i + 1) - 1), todo[h].do = "insert", todo[h].row = s[k]
        PROVE  \E g \in 1..(i - 1) : t[g].do = "insert" /\ t[g].row = s[k]
    <3>1. h # 1 BY <2>2
    <3>2. h - 1 \in 1..(i - 1) /\ h - 1 \in 1..Len(t) /\ (h - 1) + 1 = h BY <1>3, <2>2, <3>1
    <3>3. t[h - 1] = todo[h] BY <1>2, <3>2
    <3> QED BY <2>2, <3>2, <3>3
  <2> QED BY <2>1, <2>2
<1> QED BY <1>4, <1>5, <1>6, <1>7 DEF Reviewing, t

(* The head of a plan stores its row.                                      *)
LEMMA PendingStored ==
  ASSUME NEW todo \in Seq(OpSet), todo # <<>>, Layout(todo),
         NEW s \in Seq(RowSet), NEW n \in Nat, Reviewing(todo, s, n), todo[1].do = "insert",
         todo[1].row.kind = "snapshot" => todo[1].row.seq = n,
         \A i \in 1..Len(todo) : todo[i].do = "trim" => todo[i].below \in 1..Len(s)
  PROVE  Reviewing(Tail(todo), Append(s, todo[1].row), n)
<1>1. /\ Len(Tail(todo)) = Len(todo) - 1 /\ Len(todo) \in Nat \ {0}
      /\ \A i \in 1..(Len(todo) - 1) : Tail(todo)[i] = todo[i + 1]
      /\ todo[1] \in OpSet
  BY TailOK, EmptySeq
<1> DEFINE t == Tail(todo)
           r == todo[1].row
           s2 == Append(s, r)
<1>2. \A i \in 1..Len(t) : i + 1 \in 1..Len(todo) /\ t[i] = todo[i + 1] /\ i \in Nat /\ Len(t) \in Nat
  BY <1>1
<1>3. Len(todo) = Len(t) + 1 /\ Len(t) \in Nat BY <1>1
<1>4. r \in RowSet BY <1>1 DEF OpSet
<1>5. /\ s2 \in Seq(RowSet) /\ Len(s2) = Len(s) + 1 /\ Len(s) \in Nat
      /\ s2[Len(s) + 1] = r
      /\ \A k \in 1..Len(s) : s2[k] = s[k] /\ Pos(s2, k) = Pos(s, k)
  BY <1>4, AppendedRow
<1>6. \A kind, i : Has(s2, kind, i) <=> Has(s, kind, i) \/ (r.kind = kind /\ r.id = i)
  BY <1>4, HasMore
<1>7. 1 \in 1..Len(todo) BY <1>1
<1>a. todo[1].do = "insert" /\ todo[1].row = r OBVIOUS
<1>b. r.kind = "snapshot" => r.seq = n OBVIOUS
<1> HIDE DEF t, r, s2
<1>8. \A k \in 1..Len(s2) : k \in 1..Len(s) \/ k = Len(s) + 1 BY <1>5
(* Once a resolution is stored nothing but resolutions follow.             *)
<1>9. r.kind = "resolved" => \A i \in 1..Len(t) : OfResolved(t[i])
  <2> SUFFICES ASSUME r.kind = "resolved", NEW i \in 1..Len(t) PROVE OfResolved(t[i])
    OBVIOUS
  <2>1. OfResolved(todo[1]) BY <1>a DEF OfResolved
  <2>2. \A j \in 1..Len(todo) : OfResolved(todo[j]) BY <1>7, <2>1 DEF Reviewing, WillBeEarly
  <2> QED BY <1>2, <2>2
<1>10. WillBeBelow(t, s2, n)
  <2> SUFFICES ASSUME NEW i \in 1..Len(t), OfSnapshot(t[i]),
                      NEW k \in 1..Len(s2), s2[k].kind = "resolved"
               PROVE  Pos(s2, k) < n
    BY DEF WillBeBelow
  <2>1. CASE k = Len(s) + 1
    <3> OfResolved(t[i]) BY <1>5, <1>9, <2>1
    <3> QED BY DEF OfResolved, OfSnapshot
  <2>2. CASE k \in 1..Len(s) BY <1>2, <1>5, <2>2 DEF Reviewing, WillBeBelow
  <2> QED BY <1>8, <2>1, <2>2
<1>11. Short(s, n) => Short(s2, n)
  <2> SUFFICES ASSUME NEW j \in 1..Len(s), s[j].kind = "snapshot", n < s[j].seq + Interval
               PROVE  Short(s2, n)
    BY DEF Short
  <2> j \in 1..Len(s2) /\ s2[j] = s[j] BY <1>5
  <2> QED BY DEF Short
<1>12. r.kind = "snapshot" => Short(s2, n)
  <2> SUFFICES ASSUME r.kind = "snapshot" PROVE Short(s2, n) OBVIOUS
  <2>1. n < r.seq + Interval BY <1>b, EngineAssumption
  <2> Len(s) + 1 \in 1..Len(s2) BY <1>5
  <2> QED BY <1>5, <2>1 DEF Short
<1>13. WillBeEarly(t, s2, n)
  <2> SUFFICES ASSUME NEW i \in 1..Len(t), OfResolved(t[i])
               PROVE  /\ Has(s2, "parked", t[i].row.id)
                      /\ Short(s2, n) \/ \E h \in 1..(i - 1) : OfSnapshot(t[h])
                      /\ \A j \in i..Len(t) : OfResolved(t[j])
    BY DEF WillBeEarly
  <2>1. /\ Has(s, "parked", t[i].row.id)
        /\ Short(s, n) \/ \E h \in 1..((i + 1) - 1) : OfSnapshot(todo[h])
        /\ \A j \in (i + 1)..Len(todo) : OfResolved(todo[j])
    BY <1>2 DEF Reviewing, WillBeEarly
  <2>2. ASSUME NEW h \in 1..((i + 1) - 1), OfSnapshot(todo[h])
        PROVE  Short(s2, n) \/ \E g \in 1..(i - 1) : OfSnapshot(t[g])
    <3>1. CASE h = 1 BY <1>12, <1>a, <2>2, <3>1 DEF OfSnapshot
    <3>2. CASE h # 1
      <4>1. h - 1 \in 1..(i - 1) /\ h - 1 \in 1..Len(t) /\ (h - 1) + 1 = h BY <1>3, <2>2, <3>2
      <4>2. t[h - 1] = todo[h] BY <1>2, <4>1
      <4> QED BY <2>2, <4>1, <4>2
    <3> QED BY <3>1, <3>2
  <2>3. ASSUME NEW j \in i..Len(t) PROVE OfResolved(t[j])
    <3> j \in 1..Len(t) /\ j + 1 \in (i + 1)..Len(todo) BY <1>3
    <3> QED BY <1>2, <2>1
  <2> QED BY <1>6, <1>11, <2>1, <2>2, <2>3
<1>14. WillBeOpen(t, s2)
  <2> SUFFICES ASSUME NEW i \in 1..Len(t), Reappends(t[i])
               PROVE  Has(s2, "parked", t[i].row.id) /\ ~Has(s2, "resolved", t[i].row.id)
    BY DEF WillBeOpen
  <2>1. Has(s, "parked", t[i].row.id) /\ ~Has(s, "resolved", t[i].row.id)
    BY <1>2 DEF Reviewing, WillBeOpen
  <2>2. r.kind # "resolved" BY <1>9 DEF OfResolved, Reappends
  <2> QED BY <1>6, <2>1, <2>2
<1>15. WillBeKept(t, s2)
  <2> SUFFICES ASSUME NEW i \in 1..Len(t), t[i].do = "trim",
                      NEW k \in 1..Len(s2), s2[k].kind = "parked"
               PROVE  \/ Has(s2, "resolved", s2[k].id)
                      \/ \E m \in t[i].below..Len(s2) : s2[m] = s2[k]
                      \/ \E h \in 1..(i - 1) : t[h].do = "insert" /\ t[h].row = s2[k]
    BY DEF WillBeKept
  <2>1. t[i].below \in 1..Len(s) BY <1>2
  <2>2. Len(s) + 1 \in t[i].below..Len(s2) BY <1>5, <2>1
  <2>3. CASE k = Len(s) + 1 BY <2>2, <2>3
  <2>4. CASE k \in 1..Len(s)
    <3>0. s2[k] = s[k] BY <1>5, <2>4
    <3>1. \/ Has(s, "resolved", s[k].id)
          \/ \E m \in t[i].below..Len(s) : s[m] = s[k]
          \/ \E h \in 1..((i + 1) - 1) : todo[h].do = "insert" /\ todo[h].row = s[k]
      <4>1. i + 1 \in 1..Len(todo) /\ todo[i + 1].do = "trim" /\ t[i].below = todo[i + 1].below
            /\ s[k].kind = "parked"
        BY <1>2, <3>0
      <4> DEFINE j == i + 1
                 b == t[i].below
      <4>2. j \in 1..Len(todo) /\ todo[j].do = "trim" /\ b = todo[j].below BY <4>1
      <4> HIDE DEF j, b
      <4>3. \/ Has(s, "resolved", s[k].id)
            \/ \E m \in b..Len(s) : s[m] = s[k]
            \/ \E h \in 1..(j - 1) : todo[h].do = "insert" /\ todo[h].row = s[k]
        <5>1. s[k].kind = "parked" BY <4>1
        <5> HIDE DEF t, s2, r
        <5> QED BY ONLY Reviewing(todo, s, n), <2>4, <4>2, <5>1, KeptAt, SMTT(30)
      <4> QED BY <4>3 DEF j, b
    <3>2. CASE Has(s, "resolved", s[k].id) BY <1>6, <3>0, <3>2
    <3>3. ASSUME NEW m \in t[i].below..Len(s), s[m] = s[k]
          PROVE  \E q \in t[i].below..Len(s2) : s2[q] = s2[k]
      <4> m \in 1..Len(s) /\ m \in t[i].below..Len(s2) BY <1>5, <2>1
      <4> QED BY <1>5, <3>0, <3>3
    <3>4. ASSUME NEW h \in 1..((i + 1) - 1), todo[h].do = "insert", todo[h].row = s[k]
          PROVE  \/ \E m \in t[i].below..Len(s2) : s2[m] = s2[k]
                 \/ \E g \in 1..(i - 1) : t[g].do = "insert" /\ t[g].row = s2[k]
      <4>1. CASE h = 1 BY <1>5, <1>a, <2>2, <3>0, <3>4, <4>1
      <4>2. CASE h # 1
        <5>1. h - 1 \in 1..(i - 1) /\ h - 1 \in 1..Len(t) /\ (h - 1) + 1 = h BY <1>3, <3>4, <4>2
        <5>2. t[h - 1] = todo[h] BY <1>2, <5>1
        <5> QED BY <3>0, <3>4, <5>1, <5>2
      <4> QED BY <4>1, <4>2
    <3> QED BY <3>1, <3>2, <3>3, <3>4
  <2> QED BY <1>8, <2>3, <2>4
<1> QED BY <1>10, <1>13, <1>14, <1>15 DEF Reviewing, t, s2, r

(* A parked row of the table that is not resolved since the last trim.     *)
OnReview(r) == r.kind = "parked" /\ LastAbout(r.id, {"resolved"}, first) = 0

(* What is re-appended is exactly what is under review below the trim.     *)
LEMMA ReappendedHas ==
  ASSUME TableOK, ckpt # 0
  PROVE  /\ \A j \in 1..Len(Reappended) :
              \E m \in first..(ckpt - 1) : Reappended[j] = rows[m] /\ OnReview(rows[m])
         /\ \A m \in first..(ckpt - 1) : OnReview(rows[m]) =>
              \E j \in 1..Len(Reappended) : Reappended[j] = rows[m]
<1> DEFINE old == SubSeq(rows, first, ckpt - 1)
           K == {k \in DOMAIN old : OnReview(old[k])}
           w == Kept(old, K)
<1>1. Reappended = w BY DEF Reappended, Where, OnReview
<1>2. rows \in Seq(RowSet) /\ first \in 1..Len(rows) /\ ckpt \in first..Len(rows)
  BY DEF TableOK
<1>3. Len(rows) \in Nat BY <1>2, LenProperties, Zenon
<1>4. /\ old \in Seq(RowSet) /\ Len(old) = ckpt - first
      /\ \A i \in 1..(ckpt - first) : old[i] = rows[first + i - 1]
  <2> DEFINE s == rows
             e == ckpt - 1
  <2>1. s \in Seq(RowSet) /\ first \in 1..(Len(s) + 1) /\ e \in (first - 1)..Len(s)
        /\ e - first + 1 = ckpt - first
    BY <1>2, <1>3
  <2> HIDE DEF s, e
  <2>2. /\ SubSeq(s, first, e) \in Seq(RowSet) /\ Len(SubSeq(s, first, e)) = e - first + 1
        /\ \A i \in 1..(e - first + 1) : SubSeq(s, first, e)[i] = s[first + i - 1]
    BY <2>1, Part
  <2> QED BY <2>1, <2>2 DEF s, e
<1> HIDE DEF old
<1>5. DOMAIN old = 1..Len(old) BY <1>4, LenProperties, Zenon
<1>6. PICK p : Places(p, old, K)
  <2> HIDE DEF K
  <2> QED BY <1>4, KeptPlaces
<1>7. \A i \in 1..Len(w) : p[i] \in 1..Len(old) /\ p[i] \in K /\ w[i] = old[p[i]]
  <2> HIDE DEF K
  <2> QED BY <1>6 DEF Places
<1>8. \A k \in 1..Len(old) : k \in K => \E i \in 1..Len(w) : w[i] = old[k]
  <2> HIDE DEF K
  <2> TAKE k \in 1..Len(old)
  <2> HAVE k \in K
  <2>1. PICK i \in 1..Len(w) : p[i] = k BY <1>6 DEF Places
  <2> QED BY <1>7, <2>1
<1> HIDE DEF w
<1>9. ASSUME NEW j \in 1..Len(w)
      PROVE  \E m \in first..(ckpt - 1) : w[j] = rows[m] /\ OnReview(rows[m])
  <2>1. p[j] \in 1..(ckpt - first) /\ w[j] = old[p[j]] /\ OnReview(old[p[j]]) BY <1>4, <1>7
  <2>2. first + p[j] - 1 \in first..(ckpt - 1) /\ old[p[j]] = rows[first + p[j] - 1]
    <3> DEFINE k == p[j]
    <3>1. k \in 1..(ckpt - first) BY <2>1
    <3> HIDE DEF k
    <3>2. first + k - 1 \in first..(ckpt - 1) BY <1>2, <1>3, <3>1
    <3>3. old[k] = rows[first + k - 1] BY <1>4, <3>1
    <3> QED BY <3>2, <3>3 DEF k
  <2> QED BY <2>1, <2>2
<1>10. ASSUME NEW m \in first..(ckpt - 1), OnReview(rows[m])
       PROVE  \E j \in 1..Len(w) : w[j] = rows[m]
  <2> DEFINE k == m - first + 1
  <2>1. k \in 1..(ckpt - first) /\ first + k - 1 = m BY <1>2, <1>3
  <2> HIDE DEF k
  <2>2. old[k] = rows[m] /\ k \in 1..Len(old) BY <1>4, <2>1
  <2>3. k \in K BY <1>5, <1>10, <2>2
  <2> HIDE DEF K
  <2> QED BY <1>8, <2>2, <2>3
<1> QED BY <1>1, <1>9, <1>10

(* The statements of maybe_checkpoint() and the review list.               *)
Checkpoints(ops, due) ==
  /\ ops \in Seq(OpSet)
  /\ \A i \in 1..Len(ops) : ops[i].do = "insert" =>
       \/ due /\ ops[i].row.kind = "snapshot"
       \/ /\ ckpt # 0 /\ ops[i].row.kind = "parked"
          /\ \E m \in first..(ckpt - 1) : ops[i].row = rows[m] /\ OnReview(rows[m])
  /\ due => \E h \in 1..Len(ops) : OfSnapshot(ops[h])
  /\ \A i \in 1..Len(ops) : ops[i].do = "trim" =>
       /\ ckpt # 0 /\ ops[i].below = ckpt
       /\ \A m \in first..(ckpt - 1) : OnReview(rows[m]) =>
            \E h \in 1..(i - 1) : ops[h].do = "insert" /\ ops[h].row = rows[m]

(* They are those of CheckpointOps.                                        *)
LEMMA CheckpointOpsAre ==
  ASSUME TableOK, NEW n \in Nat, NEW doc \in Seq(Ids), HeadSeq + n \in Nat
  PROVE  Checkpoints(CheckpointOps(n, doc), Len(Log) + n >= Interval)
<1> DEFINE re == IF ckpt = 0 THEN <<>> ELSE Reappended
           r == Snapshot(HeadSeq + n, doc)
           i1 == Insert(r, "skip")
           X == Inserts(re, "ignored")
           m == <<i1, Mark>>
           d == IF ckpt = 0 THEN <<>> ELSE <<Trim(ckpt), SetFloor(ckpt)>>
           due == Len(Log) + n >= Interval
           low == Len(Log) + n < Interval
<1>1. CheckpointOps(n, doc) = IF low THEN <<>> ELSE (X \o m) \o d
  BY DEF CheckpointOps
<1>2. r \in RowSet /\ r.kind = "snapshot" BY DEF Snapshot, RowSet
<1>3. due <=> ~low
  <2>1. rows \in Seq(RowSet) BY DEF TableOK
  <2>2. BaseRow \in first..Len(rows) /\ first \in 1..Len(rows) BY BaseRowIsLast DEF TableOK
  <2>3. Len(rows) \in Nat BY <2>1, LenProperties, Zenon
  <2>4. SubSeq(rows, BaseRow + 1, Len(rows)) \in Seq(RowSet)
    <3> DEFINE s == rows
               a == BaseRow + 1
               e == Len(rows)
    <3>1. s \in Seq(RowSet) /\ a \in 1..(Len(s) + 1) /\ e \in (a - 1)..Len(s)
      BY <2>1, <2>2, <2>3
    <3> HIDE DEF s, a, e
    <3>2. SubSeq(s, a, e) \in Seq(RowSet) BY <3>1, Part
    <3> QED BY <3>2 DEF s, a, e
  <2>5. Log = IntentsOf(SubSeq(rows, BaseRow + 1, Len(rows))) BY DEF Log, IntentsOf
  <2>6. Log \in Seq(Entries) BY <2>4, <2>5, IntentsOfType
  <2>7. Len(Log) \in Nat BY <2>6, LenProperties, Zenon
  <2> QED BY <2>7, EngineAssumption
<1> HIDE DEF r, due, low
<1>4. CASE low
  <2>1. CheckpointOps(n, doc) = <<>> BY <1>1, <1>4
  <2>2. <<>> \in Seq(OpSet) /\ Len(<<>>) = 0 /\ 1..0 = {} BY EmptySeq
  <2>3. Checkpoints(<<>>, due) BY <1>3, <1>4, <2>2 DEF Checkpoints
  <2> QED BY <2>1, <2>3 DEF due
<1>5. CASE ~low
  <2>1. i1 \in OpSet /\ i1.do = "insert" /\ i1.row = r BY <1>2 DEF Insert, OpSet
  <2> HIDE DEF i1
  <2>2. m \in Seq(OpSet) /\ Len(m) = 2 /\ m[1] = i1 /\ m[2] = Mark /\ Mark.do = "mark"
    BY <2>1 DEF Mark, OpSet
  <2>3. re \in Seq(RowSet)
    <3>1. CASE ckpt = 0
      <4> re = <<>> BY <3>1
      <4> HIDE DEF re
      <4> QED BY EmptySeq
    <3>2. CASE ckpt # 0
      <4>1. re \in Seq([kind : {"parked"}, id : Ids]) BY <3>2, ReappendedAre
      <4> HIDE DEF re
      <4>2. [kind : {"parked"}, id : Ids] \subseteq RowSet BY DEF RowSet
      <4> QED BY <4>1, <4>2, SeqMonotonic, Zenon
    <3> QED BY <3>1, <3>2
  <2>4. Len(re) \in Nat BY <2>3, LenProperties, Zenon
  <2>5. ASSUME NEW j \in 1..Len(re)
        PROVE  /\ ckpt # 0 /\ re[j].kind = "parked"
               /\ \E k \in first..(ckpt - 1) : re[j] = rows[k] /\ OnReview(rows[k])
    <3>1. CASE ckpt = 0
      <4> re = <<>> BY <3>1
      <4> Len(re) = 0 OBVIOUS
      <4> QED OBVIOUS
    <3>2. CASE ckpt # 0
      <4>1. PICK k \in first..(ckpt - 1) : Reappended[j] = rows[k] /\ OnReview(rows[k])
        BY <3>2, ReappendedHas
      <4> QED BY <3>2, <4>1 DEF OnReview
    <3> QED BY <3>1, <3>2
  <2>6. ckpt # 0 => \A k \in first..(ckpt - 1) : OnReview(rows[k]) =>
                      \E j \in 1..Len(re) : re[j] = rows[k]
    BY ReappendedHas
  <2> HIDE DEF re
  <2>7. X \in Seq(OpSet) /\ Len(X) = Len(re) /\ \A k \in 1..Len(re) : X[k] = Insert(re[k], "ignored")
    BY <2>3, InsertsAre
  <2>8. \A k \in 1..Len(re) : X[k].do = "insert" /\ X[k].row = re[k]
    <3> HIDE DEF X
    <3> TAKE k \in 1..Len(re)
    <3>1. X[k] = Insert(re[k], "ignored") BY <2>7
    <3> QED BY <3>1 DEF Insert
  <2>9. /\ d \in Seq(OpSet)
        /\ \A k \in 1..Len(d) : /\ ckpt # 0 /\ d[k].do \in {"trim", "floor"}
                                /\ d[k].do = "trim" => d[k].below = ckpt
    <3>1. CASE ckpt = 0
      <4> d = <<>> BY <3>1
      <4> HIDE DEF d
      <4> Len(d) = 0 /\ d \in Seq(OpSet) BY EmptySeq
      <4> QED OBVIOUS
    <3>2. CASE ckpt # 0
      <4>1. d = <<Trim(ckpt), SetFloor(ckpt)>> BY <3>2
      <4>2. /\ Trim(ckpt) \in OpSet /\ Trim(ckpt).do = "trim" /\ Trim(ckpt).below = ckpt
            /\ SetFloor(ckpt) \in OpSet /\ SetFloor(ckpt).do = "floor"
        <5> ckpt \in Nat BY DEF TableOK
        <5> QED BY DEF Trim, SetFloor, OpSet
      <4> HIDE DEF d
      <4>3. d \in Seq(OpSet) /\ Len(d) = 2 /\ d[1] = Trim(ckpt) /\ d[2] = SetFloor(ckpt)
        BY <4>1, <4>2
      <4>4. \A k \in 1..Len(d) : k = 1 \/ k = 2 BY <4>3
      <4> QED BY <3>2, <4>2, <4>3, <4>4
    <3> QED BY <3>1, <3>2
  <2> DEFINE t == (X \o m) \o d
  <2> HIDE DEF X, m, d
  <2>10. /\ t \in Seq(OpSet) /\ Len(t) = (Len(X) + Len(m)) + Len(d)
         /\ Len(X) \in Nat /\ Len(m) \in Nat /\ Len(d) \in Nat
         /\ \A i \in 1..Len(X) : t[i] = X[i]
         /\ \A i \in 1..Len(m) : t[Len(X) + i] = m[i]
         /\ \A i \in 1..Len(t) :
              \/ i \in 1..Len(X) /\ t[i] = X[i]
              \/ i - Len(X) \in 1..Len(m) /\ t[i] = m[i - Len(X)]
              \/ i - (Len(X) + Len(m)) \in 1..Len(d) /\ t[i] = d[i - (Len(X) + Len(m))]
    <3> X \in Seq(OpSet) /\ m \in Seq(OpSet) /\ d \in Seq(OpSet) BY <2>2, <2>7, <2>9
    <3> QED BY ThreeParts
  <2> HIDE DEF t
  <2>11. \A i \in 1..Len(t) :
            \/ /\ i \in 1..Len(re) /\ t[i].do = "insert" /\ t[i].row = re[i]
            \/ t[i] = i1
            \/ t[i] = Mark
            \/ /\ i > Len(re) /\ ckpt # 0 /\ t[i].do \in {"trim", "floor"}
               /\ t[i].do = "trim" => t[i].below = ckpt
    <3> TAKE i \in 1..Len(t)
    <3>1. CASE i \in 1..Len(X) /\ t[i] = X[i] BY <2>7, <2>8, <3>1
    <3>2. CASE i - Len(X) \in 1..Len(m) /\ t[i] = m[i - Len(X)]
      <4> i - Len(X) = 1 \/ i - Len(X) = 2 BY <2>2, <2>10, <3>2
      <4> QED BY <2>2, <3>2
    <3>3. CASE i - (Len(X) + Len(m)) \in 1..Len(d) /\ t[i] = d[i - (Len(X) + Len(m))]
      <4>1. i > Len(re) BY <2>7, <2>10, <3>3
      <4> QED BY <2>9, <3>3, <4>1
    <3> QED BY <2>10, <3>1, <3>2, <3>3
  <2>12. \A i \in 1..Len(t) : t[i].do = "insert" =>
            \/ due /\ t[i].row.kind = "snapshot"
            \/ /\ ckpt # 0 /\ t[i].row.kind = "parked"
               /\ \E k \in first..(ckpt - 1) : t[i].row = rows[k] /\ OnReview(rows[k])
    <3> TAKE i \in 1..Len(t)
    <3> HAVE t[i].do = "insert"
    <3>1. CASE i \in 1..Len(re) /\ t[i].row = re[i] BY <2>5, <3>1
    <3>2. CASE t[i] = i1 BY <1>2, <1>3, <1>5, <2>1, <3>2
    <3> QED BY <2>2, <2>11, <3>1, <3>2
  <2>13. \E h \in 1..Len(t) : OfSnapshot(t[h])
    <3>1. Len(X) + 1 \in 1..Len(t) /\ 1 \in 1..Len(m) BY <2>2, <2>10
    <3>2. t[Len(X) + 1] = i1 BY <2>2, <2>10, <3>1
    <3> QED BY <1>2, <2>1, <3>1, <3>2 DEF OfSnapshot
  <2>14. \A i \in 1..Len(t) : t[i].do = "trim" =>
           /\ ckpt # 0 /\ t[i].below = ckpt
           /\ \A k \in first..(ckpt - 1) : OnReview(rows[k]) =>
                \E h \in 1..(i - 1) : t[h].do = "insert" /\ t[h].row = rows[k]
    <3> TAKE i \in 1..Len(t)
    <3> HAVE t[i].do = "trim"
    <3>1. i > Len(re) /\ ckpt # 0 /\ t[i].below = ckpt BY <2>1, <2>2, <2>11
    <3>2. ASSUME NEW k \in first..(ckpt - 1), OnReview(rows[k])
          PROVE  \E h \in 1..(i - 1) : t[h].do = "insert" /\ t[h].row = rows[k]
      <4>1. PICK j \in 1..Len(re) : re[j] = rows[k] BY <2>6, <3>1, <3>2
      <4>2. j \in 1..(i - 1) /\ j \in 1..Len(X) BY <2>4, <2>7, <2>10, <3>1
      <4>3. t[j] = X[j] BY <2>10, <4>2
      <4> QED BY <2>8, <4>1, <4>2, <4>3
    <3> QED BY <3>1, <3>2
  <2>15. Checkpoints(t, due) BY <2>10, <2>12, <2>13, <2>14 DEF Checkpoints
  <2> QED BY <1>1, <1>5, <2>15 DEF t, due
<1> QED BY <1>4, <1>5

(* The checkpoints of the table and the last of them.                      *)
LEMMA BaseIs ==
  ASSUME TableOK, SnapshotsReplay
  PROVE  /\ rows \in Seq(RowSet) /\ Len(rows) \in Nat /\ first \in 1..Len(rows)
         /\ BaseRow \in first..Len(rows) /\ rows[BaseRow].kind = "snapshot"
         /\ BaseSeq \in Nat /\ Len(Log) \in Nat /\ BaseSeq = Pos(rows, BaseRow)
         /\ HeadSeq = BaseSeq + Len(Log) /\ HeadSeq = Len(IntentsOf(rows))
         /\ \A j \in 1..Len(rows) : rows[j].kind = "snapshot" =>
              j <= BaseRow /\ rows[j].seq \in Nat /\ rows[j].seq <= BaseSeq
<1>1. rows \in Seq(RowSet) /\ first \in 1..Len(rows) BY DEF TableOK
<1>2. Len(rows) \in Nat BY <1>1, LenProperties, Zenon
<1>3. /\ BaseRow \in first..Len(rows) /\ rows[BaseRow].kind = "snapshot"
      /\ \A m \in (BaseRow + 1)..Len(rows) : rows[m].kind # "snapshot"
  BY BaseRowIsLast
<1>4. /\ HeadSeq = Len(IntentsOf(rows)) /\ BaseSeq = Pos(rows, BaseRow) /\ Log \in Seq(Entries)
  BY LoadReplays DEF Pos
<1>5. Len(Log) \in Nat BY <1>4, LenProperties, Zenon
<1>6. BaseRow \in 0..Len(rows) /\ BaseRow \in Nat BY <1>1, <1>2, <1>3
<1>7. BaseSeq \in Nat BY <1>1, <1>4, <1>6, PosIs
<1>8. ASSUME NEW j \in 1..Len(rows), rows[j].kind = "snapshot"
      PROVE  j <= BaseRow /\ rows[j].seq \in Nat /\ rows[j].seq <= BaseSeq
  <2>1. j <= BaseRow BY <1>2, <1>3, <1>6, <1>8
  <2>2. rows[j].seq = Pos(rows, j) BY <1>8 DEF SnapshotsReplay, Pos
  <2>3. j \in 0..BaseRow /\ j \in 0..Len(rows) BY <1>2, <1>6, <2>1
  <2>4. Pos(rows, j) \in Nat /\ Pos(rows, j) <= Pos(rows, BaseRow)
    BY <1>1, <1>6, <2>3, PosIs, PosMonotone
  <2> QED BY <1>4, <2>1, <2>2, <2>4
<1> QED BY <1>1, <1>2, <1>3, <1>4, <1>5, <1>7, <1>8 DEF HeadSeq

(* What is parked in the retained rows is resolved there or not at all.    *)
LEMMA ResolvedIsRetained ==
  ASSUME TableOK, NotReparked(rows), NEW m \in first..Len(rows), rows[m].kind = "parked"
  PROVE  LastAbout(rows[m].id, {"resolved"}, first) = 0 <=> ~Has(rows, "resolved", rows[m].id)
<1> DEFINE i == rows[m].id
           g == LastAbout(i, {"resolved"}, first)
<1>1. /\ rows \in Seq(RowSet) /\ first \in 1..Len(rows) /\ rows[first].kind = "snapshot"
  BY DEF TableOK
<1>2. Len(rows) \in Nat BY <1>1, LenProperties, Zenon
<1>3. \/ g = 0 /\ \A k \in first..Len(rows) : ~(rows[k].kind = "resolved" /\ rows[k].id = i)
      \/ g \in first..Len(rows) /\ rows[g].kind = "resolved" /\ rows[g].id = i
  <2> first \in Nat \ {0} BY <1>1
  <2> HIDE DEF i
  <2>1. LET k == LastAbout(i, {"resolved"}, first)
        IN  \/ k = 0 /\ \A l \in first..Len(rows) : ~(rows[l].kind \in {"resolved"} /\ rows[l].id = i)
            \/ /\ k \in first..Len(rows) /\ rows[k].kind \in {"resolved"} /\ rows[k].id = i
               /\ \A l \in first..Len(rows) :
                    rows[l].kind \in {"resolved"} /\ rows[l].id = i => l <= k
    BY LastAboutIs
  <2> QED BY <2>1
<1> HIDE DEF g
<1>4. ASSUME Has(rows, "resolved", i) PROVE g # 0
  <2>1. PICK k \in 1..Len(rows) : rows[k].kind = "resolved" /\ rows[k].id = i BY <1>4 DEF Has
  <2>2. CASE k \in first..Len(rows) BY <1>1, <1>2, <1>3, <2>1, <2>2
  <2>3. CASE k < first
    <3>1. m \in 1..Len(rows) /\ k < m /\ first \in k..m BY <1>1, <1>2, <2>3
    <3>2. \A h \in k..m : rows[h].kind # "snapshot" BY <2>1, <3>1 DEF NotReparked
    <3> QED BY <1>1, <3>1, <3>2
  <2> QED BY <1>1, <1>2, <2>2, <2>3
<1>5. ASSUME g # 0 PROVE Has(rows, "resolved", i)
  <2>1. g \in 1..Len(rows) BY <1>1, <1>2, <1>3, <1>5
  <2> QED BY <1>3, <1>5, <2>1 DEF Has
<1> QED BY <1>4, <1>5 DEF g, i

(* An open proposal is parked in the retained rows and not resolved there. *)
LEMMA OpenIs ==
  ASSUME TableOK, NEW i
  PROVE  Open(i) <=>
           /\ \E m \in first..Len(rows) : rows[m].kind = "parked" /\ rows[m].id = i
           /\ LastAbout(i, {"resolved"}, first) = 0
<1> DEFINE g == LastAbout(i, {"parked"}, first)
<1>1. first \in 1..Len(rows) BY DEF TableOK
<1>2. LET k == LastAbout(i, {"parked"}, first)
      IN  \/ k = 0 /\ \A l \in first..Len(rows) : ~(rows[l].kind \in {"parked"} /\ rows[l].id = i)
          \/ /\ k \in first..Len(rows) /\ rows[k].kind \in {"parked"} /\ rows[k].id = i
             /\ \A l \in first..Len(rows) :
                  rows[l].kind \in {"parked"} /\ rows[l].id = i => l <= k
  <2> first \in Nat \ {0} BY <1>1
  <2> QED BY LastAboutIs
<1>3. \/ g = 0 /\ \A l \in first..Len(rows) : ~(rows[l].kind = "parked" /\ rows[l].id = i)
      \/ g \in first..Len(rows) /\ rows[g].kind = "parked" /\ rows[g].id = i
  BY <1>2
<1> HIDE DEF g
<1>4. ASSUME g \in first..Len(rows) PROVE g # 0 BY <1>1, <1>4
<1> QED BY <1>3, <1>4 DEF Open, g

(* The rows of resolutions are about open proposals.                       *)
LEMMA ResolutionsAreOpen ==
  ASSUME NEW updates \in Seq(UpdateSet)
  PROVE  \A k \in 1..Len(ResolutionRows(updates)) :
           /\ ResolutionRows(updates)[k].kind = "resolved"
           /\ Open(ResolutionRows(updates)[k].id)
<1> DEFINE asked == OfType(updates, "resolved")
           K == {k \in DOMAIN asked : Open(asked[k].id)}
           open == Kept(asked, K)
           Y == [k \in 1..Len(open) |-> Resolved(open[k].id)]
<1>1. ResolutionRows(updates) = Y BY DEF ResolutionRows, Where
<1>2. asked \in Seq({u \in UpdateSet : u.type = "resolved"}) BY OfTypeIs
<1> HIDE DEF asked
<1>3. \A i \in 1..Len(open) : \E j \in 1..Len(asked) : j \in K /\ open[i] = asked[j]
  <2> HIDE DEF K
  <2> QED BY <1>2, KeptFrom
<1>4. open \in Seq({u \in UpdateSet : u.type = "resolved"}) BY <1>2, KeptType
<1>5. \A i \in 1..Len(open) : Open(open[i].id) BY <1>3
<1> HIDE DEF open
<1>6. Len(open) \in Nat BY <1>4, LenProperties, Zenon
<1>7. Len(Y) = Len(open) /\ \A k \in 1..Len(open) : Y[k] = Resolved(open[k].id) BY <1>6
<1> HIDE DEF Y
<1>8. \A k \in 1..Len(Y) : Y[k].kind = "resolved" /\ Open(Y[k].id)
  <2> TAKE k \in 1..Len(Y)
  <2>1. Y[k] = Resolved(open[k].id) /\ Open(open[k].id) BY <1>5, <1>7
  <2>2. Y[k].kind = "resolved" /\ Y[k].id = open[k].id BY <2>1 DEF Resolved
  <2> QED BY <2>1, <2>2
<1> QED BY <1>1, <1>8

(* What an ingest sets out to do fits the review list.                     *)
LEMMA StartReviewing ==
  ASSUME TableOK, SnapshotsReplay, ResolvedEarly(rows), NotReparked(rows), StaysListed(rows, first),
         NEW updates \in Seq(UpdateSet),
         NEW fresh \in Seq(IntentUpdates), NEW out \in [1..Len(fresh) -> AllOutcomes]
  PROVE  Reviewing(IngestOps(updates, fresh, out), rows,
                   Len(IntentsOf(rows \o (CancelRows(updates) \o PlanRows(fresh, out)))))
<1> DEFINE A == CancelRows(updates) \o PlanRows(fresh, out)
           Y == ResolutionRows(updates)
           acc == Accepted(fresh, out)
           doc == HeadDoc \o EffectOf(acc)
           C == CheckpointOps(Len(acc), doc)
           X == Inserts(A, "abort")
           Z == Inserts(Y, "abort")
           N == Len(IntentsOf(rows \o A))
           due == Len(Log) + Len(acc) >= Interval
           todo == IngestOps(updates, fresh, out)
<1>1. todo = (X \o C) \o Z BY DEF IngestOps
<1>2. /\ A \in Seq(RowSet) /\ IntentsOf(rows \o A) = IntentsOf(rows) \o acc
      /\ acc = IntentsOf(PlanRows(fresh, out)) /\ todo \in Seq(OpSet)
      /\ Planned(todo) = A /\ Layout(todo)
  BY StartOfIngest
<1>3. acc \in Seq(Entries) BY AcceptedAre
<1>4. /\ rows \in Seq(RowSet) /\ Len(rows) \in Nat /\ first \in 1..Len(rows)
      /\ BaseRow \in first..Len(rows) /\ rows[BaseRow].kind = "snapshot"
      /\ BaseSeq \in Nat /\ Len(Log) \in Nat
      /\ HeadSeq = BaseSeq + Len(Log) /\ HeadSeq = Len(IntentsOf(rows))
      /\ \A j \in 1..Len(rows) : rows[j].kind = "snapshot" =>
           j <= BaseRow /\ rows[j].seq \in Nat /\ rows[j].seq <= BaseSeq
  BY BaseIs
<1>5. Len(acc) \in Nat BY <1>3, LenProperties, Zenon
<1>6. N = (BaseSeq + Len(Log)) + Len(acc)
  <2>1. IntentsOf(rows) \in Seq(Entries) BY <1>4, IntentsOfType
  <2> DEFINE G == IntentsOf(rows)
  <2>2. G \in Seq(Entries) BY <2>1
  <2> HIDE DEF G, acc
  <2>3. Len(G \o acc) = Len(G) + Len(acc) BY <1>3, <2>2, ConcatProperties, Zenon
  <2> QED BY <1>2, <1>4, <2>3 DEF G
<1>7. doc \in Seq(Ids) /\ HeadSeq + Len(acc) \in Nat
  <2>1. HeadDoc \in Seq(Ids) BY LoadReplays
  <2>2. EffectOf(acc) \in Seq(Ids) BY <1>3, EffectOfType
  <2> DEFINE e == EffectOf(acc)
             f == HeadDoc
  <2> HIDE DEF e, f
  <2>3. f \o e \in Seq(Ids) BY <2>1, <2>2, ConcatProperties, Zenon DEF e, f
  <2> QED BY <1>4, <1>5, <2>3 DEF e, f
<1>8. Checkpoints(C, due) BY <1>5, <1>7, CheckpointOpsAre
<1>9. Y \in Seq(RowSet)
  <2> DEFINE R == [kind : {"resolved"}, id : Ids]
  <2>1. Y \in Seq(R) BY ResolutionRowsAre
  <2>2. R \subseteq RowSet BY DEF RowSet
  <2> HIDE DEF Y, R
  <2> QED BY <2>1, <2>2, SeqMonotonic, Zenon
<1>10. \A k \in 1..Len(Y) : Y[k].kind = "resolved" /\ Open(Y[k].id) BY ResolutionsAreOpen
<1>11. \A k \in 1..Len(A) : A[k].kind \in PlanKinds
  <2>1. todo \in Seq(OpSet) /\ RowsPlanned(todo) BY <1>2 DEF Layout
  <2>2. \A k \in 1..Len(A) : \E j \in 1..Len(todo) : IsPlanned(todo[j]) /\ A[k] = todo[j].row
    <3> HIDE DEF todo, A
    <3> QED BY <1>2, PlannedType
  <2> HIDE DEF todo, A
  <2> TAKE k \in 1..Len(A)
  <2>3. PICK j \in 1..Len(todo) : IsPlanned(todo[j]) /\ A[k] = todo[j].row BY <2>2
  <2> QED BY <2>1, <2>3 DEF RowsPlanned, IsPlanned
<1>12. C \in Seq(OpSet) BY <1>8 DEF Checkpoints
<1> HIDE DEF A, Y, acc, doc, C, N, due
<1>13. /\ X \in Seq(OpSet) /\ Len(X) = Len(A)
       /\ \A k \in 1..Len(A) : X[k] = Insert(A[k], "abort")
  BY <1>2, InsertsAre
<1>14. /\ Z \in Seq(OpSet) /\ Len(Z) = Len(Y)
       /\ \A k \in 1..Len(Y) : Z[k] = Insert(Y[k], "abort")
  BY <1>9, InsertsAre
<1> HIDE DEF X, Z
<1>15. \A k \in 1..Len(X) : IsPlanned(X[k]) /\ X[k].row.kind \in PlanKinds /\ X[k].do = "insert"
  <2> TAKE k \in 1..Len(X)
  <2>1. A[k].kind \in PlanKinds /\ X[k] = Insert(A[k], "abort") BY <1>11, <1>13
  <2> QED BY <2>1 DEF Insert, IsPlanned, PlanKinds
<1>16. \A k \in 1..Len(Z) : OfResolved(Z[k]) /\ Open(Z[k].row.id) /\ Z[k].do = "insert"
  <2> TAKE k \in 1..Len(Z)
  <2>1. Y[k].kind = "resolved" /\ Open(Y[k].id) /\ Z[k] = Insert(Y[k], "abort") BY <1>10, <1>14
  <2> QED BY <2>1 DEF Insert, OfResolved
<1> HIDE DEF todo
<1> DEFINE a == Len(X)
           b == Len(X) + Len(C)
<1>17. /\ Len(todo) = (Len(X) + Len(C)) + Len(Z)
       /\ a \in Nat /\ Len(C) \in Nat /\ Len(Z) \in Nat
       /\ \A i \in 1..Len(C) : todo[Len(X) + i] = C[i]
       /\ \A i \in 1..Len(todo) :
            \/ i \in 1..Len(X) /\ todo[i] = X[i]
            \/ i - Len(X) \in 1..Len(C) /\ todo[i] = C[i - Len(X)]
            \/ i - (Len(X) + Len(C)) \in 1..Len(Z) /\ todo[i] = Z[i - (Len(X) + Len(C))]
  <2> X \in Seq(OpSet) /\ C \in Seq(OpSet) /\ Z \in Seq(OpSet) BY <1>12, <1>13, <1>14
  <2> QED BY <1>1, ThreeParts
<1>18. \A i \in 1..Len(todo) :
         \/ i <= a /\ IsPlanned(todo[i]) /\ todo[i].row.kind \in PlanKinds /\ todo[i].do = "insert"
         \/ i > a /\ i <= b /\ i - a \in 1..Len(C) /\ todo[i] = C[i - a]
         \/ i > b /\ OfResolved(todo[i]) /\ Open(todo[i].row.id) /\ todo[i].do = "insert"
  <2> TAKE i \in 1..Len(todo)
  <2>1. CASE i \in 1..Len(X) /\ todo[i] = X[i] BY <1>15, <1>17, <2>1
  <2>2. CASE i - Len(X) \in 1..Len(C) /\ todo[i] = C[i - Len(X)] BY <1>17, <2>2
  <2>3. CASE i - (Len(X) + Len(C)) \in 1..Len(Z) /\ todo[i] = Z[i - (Len(X) + Len(C))]
    BY <1>16, <1>17, <2>3
  <2> QED BY <1>17, <2>1, <2>2, <2>3
<1>19. a \in Nat /\ b \in Nat /\ b >= a /\ Len(todo) \in Nat BY <1>17
<1> HIDE DEF a, b
<1>20. \A j \in 1..Len(C) : C[j].do = "insert" =>
         \/ due /\ C[j].row.kind = "snapshot"
         \/ /\ ckpt # 0 /\ C[j].row.kind = "parked"
            /\ \E m \in first..(ckpt - 1) : C[j].row = rows[m] /\ OnReview(rows[m])
  BY <1>8 DEF Checkpoints
<1>21. \A i \in 1..Len(todo) : OfSnapshot(todo[i]) => due
  <2> TAKE i \in 1..Len(todo)
  <2> HAVE OfSnapshot(todo[i])
  <2>1. i - a \in 1..Len(C) /\ todo[i] = C[i - a]
    BY <1>18 DEF OfSnapshot, OfResolved, PlanKinds
  <2> QED BY <1>20, <2>1 DEF OfSnapshot
<1>22. WillBeBelow(todo, rows, N)
  <2> SUFFICES ASSUME NEW i \in 1..Len(todo), OfSnapshot(todo[i]),
                      NEW k \in 1..Len(rows), rows[k].kind = "resolved"
               PROVE  Pos(rows, k) < N
    BY DEF WillBeBelow
  <2>1. PICK j \in 1..k : rows[j].kind = "snapshot" /\ Pos(rows, k) < rows[j].seq + Interval
    BY DEF ResolvedEarly
  <2>2. j \in 1..Len(rows) BY <1>4
  <2>3. rows[j].seq \in Nat /\ rows[j].seq <= BaseSeq BY <1>4, <2>1, <2>2
  <2>4. Len(Log) + Len(acc) >= Interval BY <1>21 DEF due
  <2>5. k \in 0..Len(rows) BY <1>4
  <2>6. Pos(rows, k) \in Nat BY <1>4, <2>5, PosIs
  <2> DEFINE p == Pos(rows, k)
             q == rows[j].seq
             l == Len(Log)
             e == Len(acc)
             s == BaseSeq
  <2>7. /\ p \in Nat /\ q \in Nat /\ l \in Nat /\ e \in Nat /\ s \in Nat /\ Interval \in Nat
        /\ p < q + Interval /\ q <= s /\ l + e >= Interval /\ N = (s + l) + e
    BY <1>4, <1>5, <1>6, <2>1, <2>3, <2>4, <2>6, EngineAssumption
  <2> HIDE DEF p, q, l, e, s
  <2>8. p < N BY <2>7
  <2> QED BY <2>8 DEF p
<1>23. \A i \in 1..Len(todo) : OfResolved(todo[i]) => i > b /\ Open(todo[i].row.id)
  <2> TAKE i \in 1..Len(todo)
  <2> HAVE OfResolved(todo[i])
  <2>1. ~(i - a \in 1..Len(C) /\ todo[i] = C[i - a]) BY <1>20 DEF OfResolved
  <2> QED BY <1>18, <2>1 DEF OfResolved, PlanKinds
<1>24. Short(rows, N) \/ \E h \in 1..b : h \in 1..Len(todo) /\ OfSnapshot(todo[h])
  <2>1. CASE due
    <3>1. PICK h \in 1..Len(C) : OfSnapshot(C[h]) BY <1>8, <2>1 DEF Checkpoints
    <3>2. Len(X) + h \in 1..b /\ Len(X) + h \in 1..Len(todo) BY <1>17 DEF a, b
    <3>3. todo[Len(X) + h] = C[h] BY <1>17
    <3> QED BY <3>1, <3>2, <3>3
  <2>2. CASE ~due
    <3>1. BaseRow \in 1..Len(rows) BY <1>4
    <3>2. N < rows[BaseRow].seq + Interval
      <4>1. rows[BaseRow].seq = BaseSeq BY DEF BaseSeq
      <4> QED BY <1>4, <1>5, <1>6, <2>2, <4>1, EngineAssumption DEF due
    <3> QED BY <1>4, <3>1, <3>2 DEF Short
  <2> QED BY <2>1, <2>2
<1>25. WillBeEarly(todo, rows, N)
  <2> SUFFICES ASSUME NEW i \in 1..Len(todo), OfResolved(todo[i])
               PROVE  /\ Has(rows, "parked", todo[i].row.id)
                      /\ Short(rows, N) \/ \E h \in 1..(i - 1) : OfSnapshot(todo[h])
                      /\ \A j \in i..Len(todo) : OfResolved(todo[j])
    BY DEF WillBeEarly
  <2>1. i > b /\ Open(todo[i].row.id) BY <1>23
  <2>2. PICK m \in first..Len(rows) : rows[m].kind = "parked" /\ rows[m].id = todo[i].row.id
    <3> DEFINE x == todo[i].row.id
    <3>1. Open(x) BY <2>1
    <3> HIDE DEF x
    <3>2. \E m \in first..Len(rows) : rows[m].kind = "parked" /\ rows[m].id = x BY <3>1, OpenIs
    <3> QED BY <3>2 DEF x
  <2>3. m \in 1..Len(rows) BY <1>4
  <2>4. Has(rows, "parked", todo[i].row.id) BY <2>2, <2>3 DEF Has
  <2>5. ASSUME NEW j \in i..Len(todo) PROVE OfResolved(todo[j])
    <3> j \in 1..Len(todo) /\ j > b /\ ~(j <= a) /\ ~(j <= b) BY <1>19, <2>1
    <3> QED BY <1>18
  <2>6. ASSUME NEW h \in 1..b PROVE h \in 1..(i - 1) BY <1>19, <2>1
  <2> QED BY <1>24, <2>4, <2>5, <2>6
<1>26. \A m \in first..Len(rows) : rows[m].kind = "parked" =>
         (OnReview(rows[m]) <=> ~Has(rows, "resolved", rows[m].id))
  BY ResolvedIsRetained DEF OnReview
<1>27. ckpt # 0 => ckpt \in first..Len(rows) BY DEF TableOK
<1>28. WillBeOpen(todo, rows)
  <2> SUFFICES ASSUME NEW i \in 1..Len(todo), Reappends(todo[i])
               PROVE  Has(rows, "parked", todo[i].row.id) /\ ~Has(rows, "resolved", todo[i].row.id)
    BY DEF WillBeOpen
  <2>1. i - a \in 1..Len(C) /\ todo[i] = C[i - a] BY <1>18 DEF Reappends, OfResolved
  <2>2. /\ ckpt # 0
        /\ \E m \in first..(ckpt - 1) : C[i - a].row = rows[m] /\ OnReview(rows[m])
    BY <1>20, <2>1 DEF Reappends
  <2>3. PICK m \in first..(ckpt - 1) : todo[i].row = rows[m] /\ OnReview(rows[m]) BY <2>1, <2>2
  <2>4. m \in first..Len(rows) /\ m \in 1..Len(rows) BY <1>4, <1>27, <2>2
  <2>5. rows[m].kind = "parked" BY <2>3 DEF OnReview
  <2> QED BY <1>26, <2>3, <2>4, <2>5 DEF Has
<1>29. WillBeKept(todo, rows)
  <2> SUFFICES ASSUME NEW i \in 1..Len(todo), todo[i].do = "trim",
                      NEW k \in 1..Len(rows), rows[k].kind = "parked"
               PROVE  \/ Has(rows, "resolved", rows[k].id)
                      \/ \E m \in todo[i].below..Len(rows) : rows[m] = rows[k]
                      \/ \E h \in 1..(i - 1) : todo[h].do = "insert" /\ todo[h].row = rows[k]
    BY DEF WillBeKept
  <2>1. i - a \in 1..Len(C) /\ todo[i] = C[i - a] BY <1>18
  <2>2. /\ ckpt # 0 /\ todo[i].below = ckpt
        /\ \A m \in first..(ckpt - 1) : OnReview(rows[m]) =>
             \E h \in 1..((i - a) - 1) : C[h].do = "insert" /\ C[h].row = rows[m]
    BY <1>8, <2>1 DEF Checkpoints
  <2>3. CASE Has(rows, "resolved", rows[k].id) BY <2>3
  <2>4. ASSUME NEW m \in first..Len(rows), rows[m] = rows[k], ~Has(rows, "resolved", rows[k].id)
        PROVE  \/ \E q \in todo[i].below..Len(rows) : rows[q] = rows[k]
               \/ \E h \in 1..(i - 1) : todo[h].do = "insert" /\ todo[h].row = rows[k]
    <3>1. CASE m >= ckpt
      <4> m \in todo[i].below..Len(rows) BY <1>4, <1>27, <2>2, <3>1
      <4> QED BY <2>4
    <3>2. CASE ~(m >= ckpt)
      <4>1. m \in first..(ckpt - 1) BY <1>4, <1>27, <2>2, <3>2
      <4>2. OnReview(rows[m]) BY <1>26, <2>4
      <4>3. PICK h \in 1..((i - a) - 1) : C[h].do = "insert" /\ C[h].row = rows[m]
        BY <2>2, <4>1, <4>2
      <4>4. h \in 1..Len(C) /\ Len(X) + h \in 1..(i - 1) BY <1>17, <1>19, <2>1, SMTT(30) DEF a
      <4>5. todo[Len(X) + h] = C[h] BY <1>17, <4>4
      <4> QED BY <2>4, <4>3, <4>4, <4>5
    <3> QED BY <3>1, <3>2
  <2>5. Has(rows, "resolved", rows[k].id) \/ \E m \in first..Len(rows) : rows[m] = rows[k]
    BY DEF StaysListed
  <2> QED BY <2>3, <2>4, <2>5
<1>30. Reviewing(todo, rows, N) BY <1>22, <1>25, <1>28, <1>29 DEF Reviewing
<1> QED BY <1>30 DEF todo, N, A

(* What an ingest starts with: what it parks was sent, above the base.     *)
LEMMA StartIs ==
  ASSUME NetInv, OnceInv, ReviewInv, NEW r \in inbox, ServerIngest(r)
  PROVE  /\ ingest' # NoIngest /\ rows' = rows /\ first' = first /\ Future = rows
         /\ r.updates \in Seq(UpdateSet)
         /\ \E A \in Seq(RowSet) :
              /\ Future' = rows \o A
              /\ Reviewing(ingest'.todo, rows, Len(IntentsOf(rows \o A)))
              /\ \A k \in 1..Len(A) : A[k].kind # "resolved" /\ A[k].kind # "snapshot"
              /\ \A k \in 1..Len(A) : A[k].kind = "parked" =>
                   /\ Known(A[k].id)
                   /\ \E l \in 1..Len(r.updates) :
                        /\ r.updates[l].type = "intent" /\ r.updates[l].id = A[k].id
                        /\ r.updates[l].base >= BaseSeq
<1> DEFINE updates == r.updates
           fresh == Fresh(updates)
           c == r.client
<1>1. IngestStart(r) BY DEF ServerIngest
<1>2. PICK out \in Plans(c, fresh) :
        ingest' = [client   |-> r.client,
                   attempt  |-> r.attempt,
                   cursor   |-> r.cursor,
                   todo     |-> IngestOps(updates, fresh, out),
                   verdicts |-> IntentVerdicts(updates, fresh, out)]
  BY <1>1 DEF IngestStart
<1>3. ingest = NoIngest /\ rows' = rows /\ first' = first BY <1>1 DEF IngestStart
<1>4. TableOK /\ SnapshotsReplay /\ rows \in Seq(RowSet) BY DEF NetInv, EngineInv, TableOK
<1>5. updates \in Seq(UpdateSet) /\ c \in Clients BY DEF NetInv, NetTypes, RequestSet
<1>6. Future = rows BY <1>3 DEF Future
<1>7. Sent(updates, c, IntentsOf(rows), Len(IntentsOf(rows)), Len(authored[c]))
  BY <1>6 DEF OnceInv
<1>8. ResolvedEarly(rows) /\ NotReparked(rows) /\ StaysListed(rows, first)
  BY <1>6 DEF ReviewInv
<1> HIDE DEF updates, c
<1>9. /\ fresh \in Seq(IntentUpdates)
      /\ \A i \in 1..Len(fresh) : fresh[i].base >= BaseSeq
      /\ \E q : Picked(q, fresh, updates)
  BY <1>5, FreshIs
<1> HIDE DEF fresh
<1>10. out \in [1..Len(fresh) -> AllOutcomes] BY <1>9, PlansAre
<1> DEFINE B == CancelRows(updates)
           P == PlanRows(fresh, out)
           A == B \o P
           todo == IngestOps(updates, fresh, out)
<1>11. A \in Seq(RowSet) /\ Planned(todo) = A /\ todo \in Seq(OpSet)
  BY <1>4, <1>5, <1>9, <1>10, StartOfIngest
<1>12. Reviewing(todo, rows, Len(IntentsOf(rows \o A)))
  BY <1>4, <1>5, <1>8, <1>9, <1>10, StartReviewing
<1>13. B \in Seq([kind : {"voided"}, id : Ids, reason : {"canceled"}]) BY <1>5, CancelRowsAre
<1>14. PICK a : OriginsOf(a, P, fresh, out, AllOutcomes) BY <1>9, <1>10, PlanOrigins
<1>15. P \in Seq(RowSet) BY <1>14 DEF OriginsOf
<1>16. Len(P) \in Nat /\ Len(B) \in Nat BY <1>13, <1>15, LenProperties, Zenon
<1> HIDE DEF B, P, todo
<1>17. \A k \in 1..Len(A) :
         \/ k \in 1..Len(B) /\ A[k] = B[k]
         \/ k - Len(B) \in 1..Len(P) /\ A[k] = P[k - Len(B)]
  <2> DEFINE R == [kind : {"voided"}, id : Ids, reason : {"canceled"}]
  <2>1. R \subseteq RowSet BY DEF RowSet
  <2>2. B \in Seq(R) BY <1>13
  <2> HIDE DEF R
  <2>3. B \in Seq(RowSet) BY <2>1, <2>2, SeqMonotonic, Zenon
  <2>4. /\ Len(A) = Len(B) + Len(P)
        /\ \A j \in 1..Len(B) + Len(P) : A[j] = IF j <= Len(B) THEN B[j] ELSE P[j - Len(B)]
    BY <1>15, <2>3, ConcatProperties, Zenon
  <2> HIDE DEF A
  <2> TAKE k \in 1..Len(A)
  <2>5. CASE k <= Len(B) BY <1>16, <2>4, <2>5
  <2>6. CASE ~(k <= Len(B)) BY <1>16, <2>4, <2>6
  <2> QED BY <2>5, <2>6
<1>18. \A j \in 1..Len(B) : B[j].kind = "voided"
  <2> TAKE j \in 1..Len(B)
  <2> B[j] \in [kind : {"voided"}, id : Ids, reason : {"canceled"}] BY <1>13, ElementOfSeq, Zenon
  <2> QED OBVIOUS
<1>19. \A j \in 1..Len(P) : P[j].kind \in PlanKinds /\ P[j].id = fresh[a[j]].id /\ a[j] \in 1..Len(fresh)
  BY <1>14 DEF OriginsOf, RowOf
<1> HIDE DEF A
<1>20. \A k \in 1..Len(A) : A[k].kind # "resolved" /\ A[k].kind # "snapshot"
  <2> TAKE k \in 1..Len(A)
  <2>1. CASE k \in 1..Len(B) /\ A[k] = B[k] BY <1>18, <2>1
  <2>2. CASE k - Len(B) \in 1..Len(P) /\ A[k] = P[k - Len(B)] BY <1>19, <2>2 DEF PlanKinds
  <2> QED BY <1>17, <2>1, <2>2
<1>21. PICK q : Picked(q, fresh, updates) BY <1>9
<1>22. ASSUME NEW k \in 1..Len(A), A[k].kind = "parked"
       PROVE  /\ Known(A[k].id)
              /\ \E l \in 1..Len(updates) :
                   /\ updates[l].type = "intent" /\ updates[l].id = A[k].id
                   /\ updates[l].base >= BaseSeq
  <2>1. k - Len(B) \in 1..Len(P) /\ A[k] = P[k - Len(B)] BY <1>17, <1>18, <1>22
  <2>2. PICK f \in 1..Len(fresh) : A[k].id = fresh[f].id BY <1>19, <2>1
  <2>3. q[f] \in 1..Len(updates) /\ fresh[f] = updates[q[f]] BY <1>21 DEF Picked
  <2>4. fresh[f] \in IntentUpdates BY <1>9, ElementOfSeq, Zenon
  <2>5. updates[q[f]].type = "intent" BY <2>3, <2>4 DEF IntentUpdates
  <2>6. updates[q[f]].id[1] = c /\ updates[q[f]].id[2] <= Len(authored[c])
    BY <1>7, <2>3, <2>5 DEF Sent, AboveBase
  <2>7. Known(A[k].id) BY <2>2, <2>3, <2>6 DEF Known
  <2>8. updates[q[f]].base >= BaseSeq BY <1>9, <2>3
  <2> QED BY <2>2, <2>3, <2>5, <2>7, <2>8
<1>23. ingest'.todo = todo BY <1>2 DEF todo
<1>24. ingest' # NoIngest
  <2> "todo" \in DOMAIN ingest' /\ "todo" \notin DOMAIN NoIngest BY <1>2 DEF NoIngest
  <2> QED OBVIOUS
<1>25. Future' = rows \o A BY <1>3, <1>11, <1>23, <1>24 DEF Future, A
<1> QED BY <1>3, <1>5, <1>6, <1>11, <1>12, <1>20, <1>22, <1>23, <1>24, <1>25 DEF updates, A

(* A fresh copy is not of a proposal resolved below the last checkpoint.   *)
LEMMA StartKeepsReview ==
  ASSUME NetInv, NetInv', OnceInv, ReviewInv, NEW r \in inbox, ServerIngest(r)
  PROVE  ReviewInv'
<1>1. /\ ingest' # NoIngest /\ rows' = rows /\ first' = first /\ Future = rows
      /\ r.updates \in Seq(UpdateSet)
  BY StartIs
<1>2. PICK A \in Seq(RowSet) :
        /\ Future' = rows \o A
        /\ Reviewing(ingest'.todo, rows, Len(IntentsOf(rows \o A)))
        /\ \A k \in 1..Len(A) : A[k].kind # "resolved" /\ A[k].kind # "snapshot"
        /\ \A k \in 1..Len(A) : A[k].kind = "parked" =>
             /\ Known(A[k].id)
             /\ \E l \in 1..Len(r.updates) :
                  /\ r.updates[l].type = "intent" /\ r.updates[l].id = A[k].id
                  /\ r.updates[l].base >= BaseSeq
  BY StartIs
<1>3. TableOK /\ SnapshotsReplay /\ rows \in Seq(RowSet) BY DEF NetInv, EngineInv, TableOK
<1>4. /\ Len(rows) \in Nat /\ BaseRow \in 1..Len(rows) /\ rows[BaseRow].kind = "snapshot"
      /\ BaseSeq \in Nat
      /\ \A j \in 1..Len(rows) : rows[j].kind = "snapshot" => j <= BaseRow
  <2>1. /\ Len(rows) \in Nat /\ first \in 1..Len(rows) /\ BaseRow \in first..Len(rows)
        /\ rows[BaseRow].kind = "snapshot" /\ BaseSeq \in Nat
        /\ \A j \in 1..Len(rows) : rows[j].kind = "snapshot" => j <= BaseRow
    BY <1>3, BaseIs
  <2> QED BY <2>1
<1>5. /\ ResolvedBelow(rows) /\ NotReparked(rows) /\ ProposalsKnown(rows)
  BY <1>1 DEF ReviewInv
<1> DEFINE s == rows
           F == Future'
<1>6. /\ Len(s \o A) = Len(s) + Len(A) /\ Len(s) \in Nat /\ Len(A) \in Nat
      /\ \A k \in 1..Len(s) : (s \o A)[k] = s[k]
      /\ \A k \in 1..Len(A) : (s \o A)[Len(s) + k] = A[k]
  <2> s \in Seq(RowSet) BY <1>3
  <2> HIDE DEF s
  <2> QED BY PosInConcat
<1>7. F = s \o A BY <1>2
<1> HIDE DEF s, F
<1>8. \A k \in 1..Len(F) :
        \/ k \in 1..Len(s) /\ F[k] = s[k]
        \/ k > Len(s) /\ k - Len(s) \in 1..Len(A) /\ F[k] = A[k - Len(s)]
  <2> TAKE k \in 1..Len(F)
  <2>1. CASE k <= Len(s)
    <3> k \in 1..Len(s) BY <1>6, <1>7, <2>1
    <3> QED BY <1>6, <1>7
  <2>2. CASE ~(k <= Len(s))
    <3> DEFINE j == k - Len(s)
    <3>1. j \in 1..Len(A) /\ Len(s) + j = k BY <1>6, <1>7, <2>2
    <3> HIDE DEF j
    <3>2. F[k] = A[j] BY <1>6, <1>7, <3>1
    <3> QED BY <1>6, <1>7, <2>2, <3>1, <3>2 DEF j
  <2> QED BY <2>1, <2>2
<1>9. NotReparked(F)
  <2> SUFFICES ASSUME NEW k \in 1..Len(F), NEW m \in 1..Len(F), k < m, F[k].kind = "resolved",
                      F[m].kind = "parked", F[m].id = F[k].id, NEW h \in k..m, F[h].kind = "snapshot"
               PROVE  FALSE
    BY DEF NotReparked
  <2>1. k \in 1..Len(s) /\ F[k] = s[k] BY <1>2, <1>8
  <2>2. h \in 1..Len(F) BY <1>6, <1>7
  <2>3. h \in 1..Len(s) /\ F[h] = s[h] BY <1>2, <1>8, <2>2
  <2>4. CASE m \in 1..Len(s) /\ F[m] = s[m] BY <1>5, <2>1, <2>3, <2>4 DEF NotReparked, s
  <2>5. CASE m > Len(s) /\ m - Len(s) \in 1..Len(A) /\ F[m] = A[m - Len(s)]
    <3>1. PICK l \in 1..Len(r.updates) :
            /\ r.updates[l].type = "intent" /\ r.updates[l].id = F[m].id
            /\ r.updates[l].base >= BaseSeq
      BY <1>2, <2>5
    <3>2. h <= BaseRow /\ k <= h /\ k # h BY <1>4, <2>1, <2>3 DEF s
    <3>3. k < BaseRow BY <1>4, <2>1, <2>3, <3>2
    <3>4. Pos(s, k) < s[BaseRow].seq BY <1>4, <1>5, <2>1, <3>3 DEF ResolvedBelow, s
    <3>5. Pos(s, k) < BaseSeq BY <3>4 DEF BaseSeq, s
    <3>6. CopiesBelow(s[k].id, Pos(s, k)) BY <1>5, <2>1 DEF ProposalsKnown, s
    <3>7. NotAbove(r.updates, s[k].id, Pos(s, k)) BY <3>6 DEF CopiesBelow
    <3>8. r.updates[l].base <= Pos(s, k) BY <2>1, <3>1, <3>7 DEF NotAbove
    <3>9. k \in 0..Len(s) BY <1>6, <2>1
    <3>10. Pos(s, k) \in Nat BY <1>3, <3>9, PosIs DEF s
    <3>11. r.updates[l].base \in Nat
      <4>1. r.updates[l] \in UpdateSet BY <1>1, ElementOfSeq, Zenon
      <4> QED BY <3>1, <4>1 DEF UpdateSet, IntentUpdates
    <3> DEFINE b == r.updates[l].base
               p == Pos(s, k)
               q == BaseSeq
    <3>12. b \in Nat /\ p \in Nat /\ q \in Nat /\ b >= q /\ p < q /\ b <= p
      BY <1>4, <3>1, <3>5, <3>8, <3>10, <3>11
    <3> HIDE DEF b, p, q
    <3> QED BY <3>12
  <2> QED BY <1>8, <2>4, <2>5
<1>10. ProposalsKnown(Future)'
  <2>1. \A k \in 1..Len(A) : A[k].kind \in {"parked", "resolved"} => Known(A[k].id) BY <1>2
  <2>2. Future' = rows \o A BY <1>2
  <2>3. [Next]_vars BY DEF Next
  <2>4. ProposalsKnown(Future) BY <1>1, <1>5
  <2> QED BY <2>1, <2>2, <2>3, <2>4, ProposalsLater
<1>11. ResolvedEarly(rows)' /\ ResolvedBelow(rows)' /\ StaysListed(rows, first)'
  BY <1>1 DEF ReviewInv, ResolvedEarly, ResolvedBelow, StaysListed, Has
<1>12. NotReparked(Future)' BY <1>9 DEF F, NotReparked
<1>13. Reviewing(ingest'.todo, rows', Len(IntentsOf(Future'))) BY <1>1, <1>2
<1> QED BY <1>10, <1>11, <1>12, <1>13 DEF ReviewInv

(* A row is stored: what was planned of it becomes true of the table.      *)
LEMMA InsertKeepsReview ==
  ASSUME NetInv, NetInv', OnceInv, ReviewInv, ServerStep, IngestInsert
  PROVE  ReviewInv'
<1> DEFINE todo == ingest.todo
           r == Head(todo).row
           N == Len(IntentsOf(Future))
           s2 == Append(rows, r)
<1>1. /\ ingest # NoIngest /\ todo # <<>> /\ Head(todo).do = "insert"
      /\ rows' = s2 /\ ingest' = [ingest EXCEPT !.todo = Tail(todo)] /\ first' = first
  BY DEF IngestInsert, Doing, Done
<1>2. TableOK /\ IngestOK BY DEF NetInv, EngineInv
<1>3. /\ ingest \in Ingests /\ Layout(todo) /\ WillReplay(todo, IntentsOf(Future))
      /\ MetaOK(todo, rows, first, ckpt)
  BY <1>1, <1>2 DEF IngestOK
<1>4. /\ r \in RowSet /\ ingest' # NoIngest
      /\ \/ /\ Future' = Future
            /\ IsPlanned(Head(todo)) /\ r.kind # "snapshot"
         \/ /\ Future = rows /\ Future' = s2
            /\ ~IsPlanned(Head(todo)) /\ r.kind \in {"snapshot", "parked", "resolved"}
  BY <1>2, FutureOfInsert
<1>5. todo \in Seq(OpSet) BY <1>3 DEF Ingests
<1>6. ingest'.todo = Tail(todo) BY <1>1, <1>3 DEF Ingests
<1>7. rows \in Seq(RowSet) /\ first \in 1..Len(rows) /\ (ckpt = 0 \/ ckpt \in first..Len(rows))
  BY <1>2 DEF TableOK
<1>8. /\ ResolvedEarly(rows) /\ ResolvedBelow(rows) /\ StaysListed(rows, first)
      /\ NotReparked(Future) /\ ProposalsKnown(Future) /\ Reviewing(todo, rows, N)
  BY <1>1 DEF ReviewInv
<1> HIDE DEF todo
<1>9. Head(todo) = todo[1] /\ 1 \in 1..Len(todo)
  <2>1. Head(todo) = todo[1] BY <1>1, <1>3, <1>5, TailOK
  <2>2. Len(todo) \in Nat \ {0} BY <1>1, <1>5, EmptySeq
  <2> QED BY <2>1, <2>2
<1>10. N \in Nat /\ Len(IntentsOf(rows)) \in Nat
  <2>1. Future \in Seq(RowSet) BY FutureType DEF FutureOK
  <2>2. IntentsOf(Future) \in Seq(Entries) /\ IntentsOf(rows) \in Seq(Entries)
    BY <1>7, <2>1, IntentsOfType
  <2> QED BY <2>2, LenProperties, Zenon
<1>11. /\ s2 \in Seq(RowSet) /\ Len(s2) = Len(rows) + 1 /\ Len(rows) \in Nat
       /\ s2[Len(rows) + 1] = r
       /\ \A k \in 1..Len(rows) : s2[k] = rows[k] /\ Pos(s2, k) = Pos(rows, k)
       /\ r.kind # "intent" => Pos(s2, Len(rows) + 1) = Len(IntentsOf(rows))
  BY <1>4, <1>7, AppendedRow
<1>12. Len(IntentsOf(Future')) = N
  <2>1. CASE Future' = Future BY <2>1
  <2>2. CASE Future = rows /\ Future' = s2 /\ r.kind \in {"snapshot", "parked", "resolved"}
    <3>1. IntentsOf(s2) = IntentsOf(rows) BY <1>4, <1>7, <2>2, IntentsOfAppend
    <3> QED BY <2>2, <3>1
  <2> QED BY <1>4, <2>1, <2>2
<1>13. \A kind, i : Has(s2, kind, i) <=> Has(rows, kind, i) \/ (r.kind = kind /\ r.id = i)
  <2> TAKE kind, i
  <2> DEFINE s == rows
  <2>1. s \in Seq(RowSet) BY <1>7
  <2> HIDE DEF s, r
  <2>2. r \in RowSet BY <1>4
  <2>3. Has(Append(s, r), kind, i) <=> Has(s, kind, i) \/ (r.kind = kind /\ r.id = i)
    BY <2>1, <2>2, HasMore
  <2> QED BY <2>3 DEF s, r
<1>a. todo[1].do = "insert" /\ todo[1].row = r BY <1>1, <1>9
<1>b. r.kind = "snapshot" => r.seq = N
  BY <1>3, <1>9, <1>a DEF WillReplay, OfSnapshot
<1>14. Reviewing(ingest'.todo, rows', Len(IntentsOf(Future')))
  <2>1. \A i \in 1..Len(todo) : todo[i].do = "trim" => todo[i].below \in 1..Len(rows)
    <3> TAKE i \in 1..Len(todo)
    <3> HAVE todo[i].do = "trim"
    <3>1. ckpt # 0 /\ todo[i].below \in first..ckpt BY <1>3 DEF MetaOK
    <3> QED BY <1>7, <1>11, <3>1
  <2> DEFINE s == rows
             n == N
  <2>2. s \in Seq(RowSet) /\ n \in Nat BY <1>7, <1>10
  <2>3. todo[1].row.kind = "snapshot" => todo[1].row.seq = n BY <1>a, <1>b
  <2>4. \A i \in 1..Len(todo) : todo[i].do = "trim" => todo[i].below \in 1..Len(s) BY <2>1
  <2>5. Reviewing(todo, s, n) BY <1>8
  <2> HIDE DEF s, n
  <2>6. Reviewing(Tail(todo), Append(s, todo[1].row), n)
    BY <1>1, <1>3, <1>5, <1>a, <2>2, <2>3, <2>4, <2>5, PendingStored
  <2> QED BY <1>1, <1>6, <1>12, <1>a, <2>6 DEF s, n
<1>15. r.kind = "resolved" => ~IsPlanned(Head(todo)) /\ OfResolved(todo[1])
  BY <1>1, <1>a DEF IsPlanned, OfResolved
<1>16. r.kind = "parked" /\ ~IsPlanned(Head(todo)) => Reappends(todo[1])
  BY <1>9, <1>a DEF Reappends
<1>17. r.kind = "resolved" => Has(rows, "parked", r.id) /\ Short(rows, N)
  <2> SUFFICES ASSUME r.kind = "resolved" PROVE Has(rows, "parked", r.id) /\ Short(rows, N)
    OBVIOUS
  <2>1. /\ Has(rows, "parked", todo[1].row.id)
        /\ Short(rows, N) \/ \E h \in 1..(1 - 1) : OfSnapshot(todo[h])
    BY <1>8, <1>9, <1>15 DEF Reviewing, WillBeEarly
  <2> QED BY <1>a, <2>1
<1>18. r.kind = "parked" /\ ~IsPlanned(Head(todo)) =>
         Has(rows, "parked", r.id) /\ ~Has(rows, "resolved", r.id)
  BY <1>8, <1>9, <1>16, <1>a DEF Reviewing, WillBeOpen
<1>19. r.kind = "snapshot" => \A k \in 1..Len(rows) : rows[k].kind = "resolved" => Pos(rows, k) < r.seq
  BY <1>8, <1>9, <1>a, <1>b DEF Reviewing, WillBeBelow, OfSnapshot
<1> HIDE DEF s2, r, N
<1>20. \A k \in 1..Len(s2) : k \in 1..Len(rows) \/ (k = Len(rows) + 1 /\ s2[k] = r) BY <1>11
<1>21. ResolvedEarly(s2)
  <2> SUFFICES ASSUME NEW k \in 1..Len(s2), s2[k].kind = "resolved"
               PROVE  \E j \in 1..k : s2[j].kind = "snapshot" /\ Pos(s2, k) < s2[j].seq + Interval
    BY DEF ResolvedEarly
  <2>1. CASE k \in 1..Len(rows)
    <3>1. PICK j \in 1..k : rows[j].kind = "snapshot" /\ Pos(rows, k) < rows[j].seq + Interval
      BY <1>8, <1>11, <2>1 DEF ResolvedEarly
    <3> j \in 1..Len(rows) BY <1>11, <2>1
    <3> QED BY <1>11, <2>1, <3>1
  <2>2. CASE k = Len(rows) + 1 /\ s2[k] = r
    <3>1. Future = rows BY <1>4, <1>15, <2>2
    <3>2. N = Len(IntentsOf(rows)) BY <3>1 DEF N
    <3>3. PICK j \in 1..Len(rows) : rows[j].kind = "snapshot" /\ N < rows[j].seq + Interval
      BY <1>17, <2>2 DEF Short
    <3>4. Pos(s2, k) = N BY <1>11, <2>2, <3>2
    <3>5. j \in 1..k /\ s2[j] = rows[j] BY <1>11, <2>2
    <3> QED BY <3>3, <3>4, <3>5
  <2> QED BY <1>20, <2>1, <2>2
<1>22. ResolvedBelow(s2)
  <2> SUFFICES ASSUME NEW k \in 1..Len(s2), NEW m \in 1..Len(s2), k < m,
                      s2[k].kind = "resolved", s2[m].kind = "snapshot"
               PROVE  Pos(s2, k) < s2[m].seq
    BY DEF ResolvedBelow
  <2>1. k \in 1..Len(rows) BY <1>11
  <2>2. s2[k] = rows[k] /\ Pos(s2, k) = Pos(rows, k) BY <1>11, <2>1
  <2>3. CASE m \in 1..Len(rows)
    <3> s2[m] = rows[m] BY <1>11, <2>3
    <3> QED BY <1>8, <2>1, <2>2, <2>3 DEF ResolvedBelow
  <2>4. CASE s2[m] = r BY <1>19, <2>1, <2>2, <2>4
  <2> QED BY <1>20, <2>3, <2>4
<1>23. StaysListed(s2, first)
  <2> SUFFICES ASSUME NEW k \in 1..Len(s2), s2[k].kind = "parked"
               PROVE  Has(s2, "resolved", s2[k].id) \/ \E m \in first..Len(s2) : s2[m] = s2[k]
    BY DEF StaysListed
  <2>1. CASE k \in 1..Len(rows)
    <3>0. s2[k] = rows[k] BY <1>11, <2>1
    <3>1. CASE Has(rows, "resolved", rows[k].id) BY <1>13, <3>0, <3>1
    <3>2. ASSUME NEW m \in first..Len(rows), rows[m] = rows[k]
          PROVE  \E q \in first..Len(s2) : s2[q] = s2[k]
      <4> m \in first..Len(s2) /\ m \in 1..Len(rows) BY <1>7, <1>11
      <4> QED BY <1>11, <3>0, <3>2
    <3> QED BY <1>8, <2>1, <3>0, <3>1, <3>2 DEF StaysListed
  <2>2. CASE k = Len(rows) + 1
    <3> k \in first..Len(s2) BY <1>7, <1>11, <2>2
    <3> QED OBVIOUS
  <2> QED BY <1>20, <2>1, <2>2
<1>24. NotReparked(Future)'
  <2>1. CASE Future' = Future BY <1>8, <2>1 DEF NotReparked
  <2>2. CASE Future = rows /\ Future' = s2 /\ ~IsPlanned(Head(todo))
    <3>1. NotReparked(s2)
      <4> SUFFICES ASSUME NEW k \in 1..Len(s2), NEW m \in 1..Len(s2), k < m,
                          s2[k].kind = "resolved", s2[m].kind = "parked", s2[m].id = s2[k].id,
                          NEW h \in k..m
                   PROVE  s2[h].kind # "snapshot"
        BY DEF NotReparked
      <4>1. k \in 1..Len(rows) BY <1>11
      <4>2. s2[k] = rows[k] BY <1>11, <4>1
      <4>3. CASE m \in 1..Len(rows)
        <5>1. h \in 1..Len(rows) BY <1>11, <4>1, <4>3
        <5>2. s2[m] = rows[m] /\ s2[h] = rows[h] BY <1>11, <4>3, <5>1
        <5> QED BY <1>8, <2>2, <4>1, <4>2, <4>3, <5>2 DEF NotReparked
      <4>4. CASE s2[m] = r
        <5>1. ~Has(rows, "resolved", r.id) BY <1>18, <2>2, <4>4
        <5> QED BY <4>1, <4>2, <4>4, <5>1 DEF Has
      <4> QED BY <1>20, <4>3, <4>4
    <3> QED BY <2>2, <3>1 DEF NotReparked
  <2> QED BY <1>4, <2>1, <2>2
<1>25. ProposalsKnown(Future)'
  <2>1. [Next]_vars BY DEF Next
  <2>2. CASE Future' = Future BY <1>8, <2>1, <2>2, ProposalsLater
  <2>3. CASE Future = rows /\ Future' = s2 /\ ~IsPlanned(Head(todo))
    <3>1. s2 = rows \o <<r>> BY <1>4, <1>7, AppendIsConcat DEF s2
    <3>2. <<r>> \in Seq(RowSet) /\ Len(<<r>>) = 1 /\ <<r>>[1] = r BY <1>4
    <3>3. r.kind \in {"parked", "resolved"} => Known(r.id)
      <4> SUFFICES ASSUME r.kind \in {"parked", "resolved"} PROVE Known(r.id) OBVIOUS
      <4>1. Has(rows, "parked", r.id) BY <1>17, <1>18, <2>3
      <4>2. PICK k \in 1..Len(rows) : rows[k].kind = "parked" /\ rows[k].id = r.id
        BY <4>1 DEF Has
      <4> QED BY <1>8, <2>3, <4>2 DEF ProposalsKnown
    <3> DEFINE A == <<r>>
    <3>4. \A k \in 1..Len(A) : A[k].kind \in {"parked", "resolved"} => Known(A[k].id)
      BY <3>2, <3>3
    <3>5. A \in Seq(RowSet) /\ Future' = rows \o A BY <2>3, <3>1, <3>2
    <3> HIDE DEF A
    <3> QED BY <1>8, <2>1, <3>4, <3>5, ProposalsLater
  <2> QED BY <1>4, <2>2, <2>3
<1>26. ResolvedEarly(rows)' /\ ResolvedBelow(rows)' /\ StaysListed(rows, first)'
  BY <1>1, <1>21, <1>22, <1>23 DEF ResolvedEarly, ResolvedBelow, StaysListed, Has
<1> QED BY <1>14, <1>24, <1>25, <1>26 DEF ReviewInv

(* The table is as it was, and at most the ingest is over.                 *)
LEMMA StillReview ==
  ASSUME NetInv, NetInv', OnceInv, ReviewInv, [Next]_vars, Future' = Future,
         rows' = rows, first' = first, ingest' \in {ingest, NoIngest}
  PROVE  ReviewInv'
<1>1. ProposalsKnown(Future)' BY ProposalsLater DEF ReviewInv
<1>2. NotReparked(Future)' BY DEF ReviewInv, NotReparked
<1>3. ResolvedEarly(rows)' /\ ResolvedBelow(rows)' /\ StaysListed(rows, first)'
  BY DEF ReviewInv, ResolvedEarly, ResolvedBelow, StaysListed, Has
<1>4. ingest' # NoIngest => Reviewing(ingest'.todo, rows', Len(IntentsOf(Future')))
  BY DEF ReviewInv
<1> QED BY <1>1, <1>2, <1>3, <1>4 DEF ReviewInv

(* A statement that stores no row.                                         *)
LEMMA QuietKeepsReview ==
  ASSUME NetInv, NetInv', OnceInv, ReviewInv, [Next]_vars, Future' = Future,
         ingest # NoIngest, ingest.todo # <<>>, Head(ingest.todo).do # "insert",
         ingest' = [ingest EXCEPT !.todo = Tail(ingest.todo)],
         rows' = rows, StaysListed(rows, first')
  PROVE  ReviewInv'
<1>1. ingest \in Ingests /\ Layout(ingest.todo) BY DEF NetInv, EngineInv, IngestOK
<1>2. ingest'.todo = Tail(ingest.todo) BY <1>1 DEF Ingests
<1> DEFINE todo == ingest.todo
           s == rows
           n == Len(IntentsOf(Future))
<1>3. todo \in Seq(OpSet) /\ s \in Seq(RowSet) /\ Reviewing(todo, s, n)
  BY <1>1 DEF Ingests, ReviewInv, NetInv, EngineInv, TableOK
<1>4. n \in Nat
  <2>1. Future \in Seq(RowSet) BY FutureType DEF FutureOK
  <2>2. IntentsOf(Future) \in Seq(Entries) BY <2>1, IntentsOfType
  <2> QED BY <2>2, LenProperties, Zenon
<1>5. Head(todo) = todo[1]
  <2> HIDE DEF todo
  <2> QED BY <1>1, <1>3, TailOK DEF todo
<1>6. todo # <<>> /\ Layout(todo) /\ todo[1].do # "insert" BY <1>1, <1>5
<1> HIDE DEF todo, s, n
<1>7. Reviewing(Tail(todo), s, n) BY <1>3, <1>4, <1>6, PendingTail
<1>8. ProposalsKnown(Future)' BY ProposalsLater DEF ReviewInv
<1>9. NotReparked(Future)' BY DEF ReviewInv, NotReparked
<1>10. ResolvedEarly(rows)' /\ ResolvedBelow(rows)' /\ StaysListed(rows, first)'
  BY DEF ReviewInv, ResolvedEarly, ResolvedBelow, StaysListed, Has
<1>11. Reviewing(ingest'.todo, rows', Len(IntentsOf(Future')))
  BY <1>2, <1>7 DEF todo, s, n
<1> QED BY <1>8, <1>9, <1>10, <1>11 DEF ReviewInv

(* The trim leaves everything under review: it was re-appended.            *)
LEMMA TrimKeepsReview ==
  ASSUME NetInv, NetInv', OnceInv, ReviewInv, [Next]_vars, IngestTrim
  PROVE  ReviewInv'
<1>1. /\ ingest # NoIngest /\ ingest.todo # <<>> /\ Head(ingest.todo).do = "trim"
      /\ first' = Head(ingest.todo).below /\ rows' = rows
      /\ ingest' = [ingest EXCEPT !.todo = Tail(ingest.todo)]
  BY DEF IngestTrim, Doing, Done
<1>2. Future' = Future BY TrimKeepsInv DEF NetInv
<1> DEFINE todo == ingest.todo
<1>3. todo \in Seq(OpSet) /\ Layout(todo) /\ Reviewing(todo, rows, Len(IntentsOf(Future)))
  BY <1>1 DEF NetInv, EngineInv, IngestOK, Ingests, ReviewInv
<1>4. Head(todo) = todo[1] /\ 1 \in 1..Len(todo)
  <2> todo # <<>> BY <1>1
  <2> HIDE DEF todo
  <2>1. Head(todo) = todo[1] BY <1>3, TailOK
  <2>2. Len(todo) \in Nat \ {0} BY <1>3, EmptySeq
  <2> QED BY <2>1, <2>2
<1>5. StaysListed(rows, first')
  <2> SUFFICES ASSUME NEW k \in 1..Len(rows), rows[k].kind = "parked"
               PROVE  Has(rows, "resolved", rows[k].id) \/ \E m \in first'..Len(rows) : rows[m] = rows[k]
    BY DEF StaysListed
  <2>1. PICK b : b = first' OBVIOUS
  <2>2. todo[1].do = "trim" /\ b = todo[1].below BY <1>1, <1>4, <2>1
  <2> HIDE DEF todo
  <2>3. PICK j \in 1..Len(todo) : j = 1 BY <1>4
  <2>4. todo[j].do = "trim" /\ b = todo[j].below BY <2>2, <2>3
  <2>5. \/ Has(rows, "resolved", rows[k].id)
        \/ \E m \in b..Len(rows) : rows[m] = rows[k]
        \/ \E h \in 1..(j - 1) : todo[h].do = "insert" /\ todo[h].row = rows[k]
    BY <1>3, <2>4, KeptAt
  <2>6. 1..(j - 1) = {} BY <2>3
  <2> QED BY <2>1, <2>5, <2>6
<1>6. Head(ingest.todo).do # "insert" BY <1>1
<1> QED BY <1>1, <1>2, <1>5, <1>6, QuietKeepsReview

(* The checkpoint is recorded, or the floor raised.                        *)
LEMMA MarkKeepsReview ==
  ASSUME NetInv, NetInv', OnceInv, ReviewInv, [Next]_vars, IngestMark \/ IngestFloor
  PROVE  ReviewInv'
<1>1. /\ ingest # NoIngest /\ ingest.todo # <<>> /\ Head(ingest.todo).do # "insert"
      /\ first' = first /\ rows' = rows
      /\ ingest' = [ingest EXCEPT !.todo = Tail(ingest.todo)]
  BY DEF IngestMark, IngestFloor, Doing, Done
<1>2. Future' = Future BY MarkKeepsInv, FloorKeepsInv DEF NetInv
<1>3. StaysListed(rows, first') BY <1>1 DEF ReviewInv
<1> QED BY <1>1, <1>2, <1>3, QuietKeepsReview

(* What holds of the continuation holds of the table.                      *)
LEMMA NotReparkedYet ==
  ASSUME NetInv, NotReparked(Future)
  PROVE  NotReparked(rows)
<1>1. rows \in Seq(RowSet) /\ \E P \in Seq(RowSet) : Future = rows \o P BY FutureIs
<1>2. PICK P \in Seq(RowSet) : Future = rows \o P BY <1>1
<1> DEFINE s == rows
<1>3. s \in Seq(RowSet) /\ NotReparked(s \o P) BY <1>1, <1>2
<1> HIDE DEF s
<1>4. /\ Len(s \o P) = Len(s) + Len(P) /\ Len(s) \in Nat /\ Len(P) \in Nat
      /\ \A k \in 1..Len(s) : (s \o P)[k] = s[k]
  BY <1>3, PosInConcat
<1>5. NotReparked(s)
  <2> SUFFICES ASSUME NEW k \in 1..Len(s), NEW m \in 1..Len(s), k < m, s[k].kind = "resolved",
                      s[m].kind = "parked", s[m].id = s[k].id, NEW h \in k..m
               PROVE  s[h].kind # "snapshot"
    BY DEF NotReparked
  <2>1. h \in 1..Len(s) BY <1>4
  <2>2. k \in 1..Len(s \o P) /\ m \in 1..Len(s \o P) BY <1>4
  <2>3. (s \o P)[k] = s[k] /\ (s \o P)[m] = s[m] /\ (s \o P)[h] = s[h] BY <1>4, <2>1
  <2> QED BY <1>3, <2>2, <2>3 DEF NotReparked
<1> QED BY <1>5 DEF s

(* What the worker had still to write is never written.                    *)
LEMMA DeathKeepsReview ==
  ASSUME NetInv, NetInv', OnceInv, ReviewInv, [Next]_vars, ServerDies
  PROVE  ReviewInv'
<1>1. Future' = rows BY DeathKeepsNet
<1>2. rows' = rows /\ first' = first /\ ingest' = NoIngest BY DEF ServerDies, IngestDies
<1>3. rows \in Seq(RowSet) BY FutureIs
<1>4. ProposalsKnown(Future)'
  <2> DEFINE A == <<>>
  <2>1. A \in Seq(RowSet) /\ Len(A) = 0 BY EmptySeq
  <2>2. Future' = rows \o A BY <1>1, <1>3, ConcatEmptySeq
  <2> HIDE DEF A
  <2>3. \A k \in 1..Len(A) : A[k].kind \in {"parked", "resolved"} => Known(A[k].id) BY <2>1
  <2>4. ProposalsKnown(Future) BY DEF ReviewInv
  <2> QED BY <2>1, <2>2, <2>3, <2>4, ProposalsLater
<1>5. NotReparked(rows) BY NotReparkedYet DEF ReviewInv
<1>6. NotReparked(Future)' BY <1>1, <1>5 DEF NotReparked
<1>7. ResolvedEarly(rows)' /\ ResolvedBelow(rows)' /\ StaysListed(rows, first)'
  BY <1>2 DEF ReviewInv, ResolvedEarly, ResolvedBelow, StaysListed, Has
<1> QED BY <1>2, <1>4, <1>6, <1>7 DEF ReviewInv

(* An empty room has nothing under review.                                 *)
LEMMA ReviewInit == Init => ReviewInv
<1> SUFFICES ASSUME Init PROVE ReviewInv OBVIOUS
<1>1. rows = <<Snapshot(0, <<>>)>> /\ first = 1 /\ ingest = NoIngest
  BY DEF Init, EngineInit
<1>2. Future = rows BY <1>1 DEF Future
<1>3. Len(rows) = 1 /\ rows[1].kind = "snapshot" BY <1>1 DEF Snapshot
<1>4. \A k \in 1..Len(rows) : rows[k].kind = "snapshot" BY <1>3
<1>5. /\ ResolvedEarly(rows) /\ ResolvedBelow(rows) /\ StaysListed(rows, first)
      /\ NotReparked(rows) /\ ProposalsKnown(rows)
  BY <1>4 DEF ResolvedEarly, ResolvedBelow, StaysListed, NotReparked, ProposalsKnown
<1> QED BY <1>1, <1>2, <1>5 DEF ReviewInv

(* No INSERT has failed without ending its request.                        *)
LEMMA ReviewStep ==
  ASSUME NetInv, NetInv', OnceInv, rowFailures = 0 => ReviewInv, rowFailures' = 0, [Next]_vars
  PROVE  ReviewInv'
<1>1. EngineInv /\ ClientTypes /\ rowFailures \in Nat BY DEF NetInv, EngineInv, TableOK
<1>2. CASE UNCHANGED engineVars
  <2>1. /\ rows' = rows /\ first' = first /\ ingest' = ingest /\ rowFailures' = rowFailures
    BY <1>2 DEF engineVars
  <2>2. Future' = Future BY <1>1, <1>2, EngineSame
  <2> QED BY <2>1, <2>2, StillReview
<1>3. CASE UNCHANGED vars BY <1>2, <1>3 DEF vars
<1>4. ASSUME NEW c \in Clients,
             \/ \E size \in UnitSizes, lag \in 0..MaxLag : Author(c, size, lag)
             \/ \E txn \in 1..MaxEdits : CancelPending(c, txn)
             \/ \E i \in Ids : ResolveProposal(c, i)
             \/ Send(c) \/ Receive(c) \/ RequestFails(c)
      PROVE  ReviewInv'
  <2>1. UNCHANGED engineVars
    BY <1>4 DEF Author, CancelPending, ResolveProposal, Send, Receive, RequestFails
  <2> QED BY <1>2, <2>1
<1>5. ASSUME NEW r \in inbox, ServerIngest(r) PROVE ReviewInv'
  <2>1. rowFailures' = rowFailures BY <1>5 DEF ServerIngest, IngestStart
  <2>2. ReviewInv BY <2>1
  <2> QED BY <1>5, <2>2, StartKeepsReview
<1>6. ASSUME NEW r \in inbox, ServerAnswer(r) PROVE ReviewInv'
  <2>1. UNCHANGED engineVars BY <1>6 DEF ServerAnswer
  <2> QED BY <1>2, <2>1
<1>7. CASE ServerStep
  <2>1. CASE IngestInsert
    <3>1. rowFailures' = rowFailures BY <2>1 DEF IngestInsert
    <3> QED BY <1>7, <2>1, <3>1, InsertKeepsReview
  <2>2. CASE IngestInsertFails
    <3>1. rowFailures' = rowFailures + 1 BY <2>2 DEF IngestInsertFails
    <3> QED BY <1>1, <3>1
  <2>3. CASE IngestMark \/ IngestFloor
    <3>1. rowFailures' = rowFailures BY <2>3 DEF IngestMark, IngestFloor
    <3> QED BY <2>3, <3>1, MarkKeepsReview
  <2>4. CASE IngestTrim
    <3>1. rowFailures' = rowFailures BY <2>4 DEF IngestTrim
    <3> QED BY <2>4, <3>1, TrimKeepsReview
  <2> QED BY <1>7, <2>1, <2>2, <2>3, <2>4 DEF ServerStep, IngestStep
<1>8. CASE ServerEnd
  <2>1. /\ rowFailures' = rowFailures /\ rows' = rows /\ first' = first /\ ingest' = NoIngest
    BY <1>8 DEF ServerEnd, IngestEnd
  <2>2. Future' = Future BY <1>8, EndKeepsNet
  <2> QED BY <2>1, <2>2, StillReview
<1>9. CASE ServerDies
  <2>1. rowFailures' = rowFailures BY <1>9 DEF ServerDies, IngestDies
  <2> QED BY <1>9, <2>1, DeathKeepsReview
<1> QED BY <1>3, <1>4, <1>5, <1>6, <1>7, <1>8, <1>9 DEF Next

(* What is under review is in the retained rows, open.                     *)
LEMMA ReviewIsKept == NetInv /\ ReviewInv => ProposalsSurvive
<1> SUFFICES ASSUME NetInv, ReviewInv, NEW i \in Ids
             PROVE  Open(i) <=> WasParked(i) /\ ~WasResolved(i)
  BY DEF ProposalsSurvive
<1>1. TableOK /\ rows \in Seq(RowSet) /\ first \in 1..Len(rows)
  BY DEF NetInv, EngineInv, TableOK
<1>2. Len(rows) \in Nat /\ DOMAIN rows = 1..Len(rows) BY <1>1, LenProperties, Zenon
<1>3. NotReparked(rows) /\ StaysListed(rows, first) BY NotReparkedYet DEF ReviewInv
<1>4. \A k \in 1..Len(rows) : /\ rows[k] = Parked(i) <=> rows[k].kind = "parked" /\ rows[k].id = i
                              /\ rows[k] = Resolved(i) <=> rows[k].kind = "resolved" /\ rows[k].id = i
  <2> TAKE k \in 1..Len(rows)
  <2>1. PICK r \in RowSet : r = rows[k] BY <1>1, ElementOfSeq, Zenon
  <2>2. /\ r = Parked(i) <=> r.kind = "parked" /\ r.id = i
        /\ r = Resolved(i) <=> r.kind = "resolved" /\ r.id = i
    <3>1. r = Parked(i) => r.kind = "parked" /\ r.id = i BY DEF Parked
    <3>2. r = Resolved(i) => r.kind = "resolved" /\ r.id = i BY DEF Resolved
    <3>3. r.kind = "parked" /\ r.id = i => r = Parked(i) BY DEF RowSet, Entries, Parked
    <3>4. r.kind = "resolved" /\ r.id = i => r = Resolved(i) BY DEF RowSet, Entries, Resolved
    <3> QED BY <3>1, <3>2, <3>3, <3>4
  <2> QED BY <2>1, <2>2
<1>5. WasParked(i) <=> Has(rows, "parked", i) BY <1>2, <1>4 DEF WasParked, Has
<1>6. WasResolved(i) <=> Has(rows, "resolved", i) BY <1>2, <1>4 DEF WasResolved, Has
<1>7. Open(i) <=> /\ \E m \in first..Len(rows) : rows[m].kind = "parked" /\ rows[m].id = i
                  /\ LastAbout(i, {"resolved"}, first) = 0
  BY <1>1, OpenIs
<1>8. ASSUME NEW m \in first..Len(rows), rows[m].kind = "parked", rows[m].id = i
      PROVE  /\ LastAbout(i, {"resolved"}, first) = 0 <=> ~Has(rows, "resolved", i)
             /\ Has(rows, "parked", i)
  <2>1. LastAbout(rows[m].id, {"resolved"}, first) = 0 <=> ~Has(rows, "resolved", rows[m].id)
    BY <1>1, <1>3, <1>8, ResolvedIsRetained
  <2>2. m \in 1..Len(rows) BY <1>1, <1>2
  <2> QED BY <1>8, <2>1, <2>2 DEF Has
<1>9. ASSUME Has(rows, "parked", i), ~Has(rows, "resolved", i)
      PROVE  \E m \in first..Len(rows) : rows[m].kind = "parked" /\ rows[m].id = i
  <2>1. PICK k \in 1..Len(rows) : rows[k].kind = "parked" /\ rows[k].id = i BY <1>9 DEF Has
  <2>2. PICK m \in first..Len(rows) : rows[m] = rows[k] BY <1>3, <1>9, <2>1 DEF StaysListed
  <2> QED BY <2>1, <2>2
<1> QED BY <1>5, <1>6, <1>7, <1>8, <1>9

(* maybe_checkpoint() and handle_updates_locked(): as long as no INSERT of *)
(* a checkpoint fails unnoticed, the proposals open in the retained rows   *)
(* are those ever parked and never resolved - after every trim, with       *)
(* requests lost, late or repeated, and with the worker dead between any   *)
(* two statements.                                                         *)
THEOREM ProposalsAreKept == Spec => [](rowFailures = 0 => ProposalsSurvive)
<1> DEFINE Inv == RoomInv /\ (rowFailures = 0 => ReviewInv)
<1>1. Init => Inv BY NetInit, OnceInit, TabsInit, ReviewInit DEF RoomInv
<1>2. Inv /\ [Next]_vars => Inv'
  <2> SUFFICES ASSUME Inv, [Next]_vars PROVE Inv' OBVIOUS
  <2>1. RoomInv' BY RoomStep
  <2>2. NetInv /\ NetInv' /\ OnceInv BY <2>1 DEF RoomInv
  <2>3. rowFailures' = 0 => ReviewInv' BY <2>2, ReviewStep
  <2> QED BY <2>1, <2>3
<1>3. Inv => (rowFailures = 0 => ProposalsSurvive) BY ReviewIsKept DEF RoomInv
<1> QED BY <1>1, <1>2, <1>3, PTL DEF Spec

=============================================================================
