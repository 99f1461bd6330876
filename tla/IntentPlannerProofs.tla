------------------------- MODULE IntentPlannerProofs -------------------------
(***************************************************************************)
(* One transform of one text edit over another, for texts of any length:   *)
(* what the run "planner" checks on short blocks holds for every position. *)
(*                                                                         *)
(* Then the session of IntentEditing: the folds of the planner as runs,    *)
(* what a plan consists of, what one intent more makes of it, and from     *)
(* these the invariant that every screen is what a replan would show.      *)
(***************************************************************************)
EXTENDS IntentEditing, SelectionProofs

(* Text edits as tabs author them: an insertion has a place, the others a  *)
(* range that is not empty.  A holds whatever names and characters are.    *)
TextIntents(A) ==
  {i \in [id : A, actor : A, base : Nat, txn : A, type : TextEdits, block : A,
          field : Fields, start : Nat, end : Nat, to : A, saw : A] :
     IF i.type = "insert_text" THEN i.start = i.end ELSE i.start < i.end}

(* Documents in which a block has one place.                               *)
Documents(A) ==
  {d \in Seq([id : A, text : [Fields -> Seq(A)], attr : A]) :
     \A m, n \in DOMAIN d : d[m].id = d[n].id => m = n}

Typed(p) == IF p.type = "delete_text" THEN <<>> ELSE <<p.id>>

(* Where the character at k is after the edit p, if it is still there.     *)
Survives(p, k) == k <= p.start \/ k > p.end
Moved(p, k)    == IF k <= p.start THEN k ELSE k + Len(Typed(p)) - (p.end - p.start)

(* j stands to the text after p where i stood to the text before it: the   *)
(* characters that are left are on the same sides of both ends, and the    *)
(* range of j holds no character but those that are left of i's.           *)
SameSides(i, j, p, length) ==
  \A k \in 1 .. length : Survives(p, k) =>
    /\ k <= i.start <=> Moved(p, k) <= j.start
    /\ k <= i.end <=> Moved(p, k) <= j.end

SameRange(i, j, p) ==
  \A n \in (j.start + 1) .. j.end :
    \E k \in (i.start + 1) .. i.end : Survives(p, k) /\ n = Moved(p, k)

-----------------------------------------------------------------------------

(* What Splice returns, character by character.                            *)
LEMMA SpliceByPosition ==
  ASSUME NEW A, NEW s \in Seq(A), NEW new \in Seq(A),
         NEW from \in 0 .. Len(s), NEW upto \in from .. Len(s)
  PROVE  /\ Splice(s, from, upto, new) \in Seq(A)
         /\ Len(Splice(s, from, upto, new)) = Len(s) + Len(new) - (upto - from)
         /\ \A k \in 1 .. from : Splice(s, from, upto, new)[k] = s[k]
         /\ \A k \in (upto + 1) .. Len(s) :
              Splice(s, from, upto, new)[k + Len(new) - (upto - from)] = s[k]
<1>1. PICK left \in Seq(A) :
        /\ left = SubSeq(s, 1, from) /\ Len(left) = from
        /\ \A k \in 1 .. from : left[k] = s[k]
  <2>1. /\ SubSeq(s, 1, from) \in Seq(A) /\ Len(SubSeq(s, 1, from)) = from
        /\ \A k \in 1 .. from : SubSeq(s, 1, from)[k] = s[k]
    OBVIOUS
  <2> QED
    BY <2>1
<1>2. PICK right \in Seq(A) :
        /\ right = SubSeq(s, upto + 1, Len(s)) /\ Len(right) = Len(s) - upto
        /\ \A k \in 1 .. (Len(s) - upto) : right[k] = s[upto + k]
  <2>1. /\ SubSeq(s, upto + 1, Len(s)) \in Seq(A)
        /\ Len(SubSeq(s, upto + 1, Len(s))) = Len(s) - upto
        /\ \A k \in 1 .. (Len(s) - upto) : SubSeq(s, upto + 1, Len(s))[k] = s[upto + k]
    OBVIOUS
  <2> QED
    BY <2>1
<1>3. PICK both \in Seq(A) :
        /\ both = left \o new /\ Len(both) = from + Len(new)
        /\ \A k \in 1 .. from : both[k] = s[k]
  <2>1. /\ left \o new \in Seq(A) /\ Len(left \o new) = Len(left) + Len(new)
        /\ \A k \in 1 .. Len(left) : (left \o new)[k] = left[k]
    OBVIOUS
  <2> QED
    BY <1>1, <2>1
<1>4. PICK t \in Seq(A) :
        /\ t = both \o right /\ Len(t) = Len(both) + Len(right)
        /\ \A k \in 1 .. Len(both) : t[k] = both[k]
        /\ \A k \in 1 .. Len(right) : t[Len(both) + k] = right[k]
  <2>1. /\ both \o right \in Seq(A) /\ Len(both \o right) = Len(both) + Len(right)
        /\ \A k \in 1 .. Len(both) : (both \o right)[k] = both[k]
        /\ \A k \in 1 .. Len(right) : (both \o right)[Len(both) + k] = right[k]
    OBVIOUS
  <2> QED
    BY <2>1
<1>5. \A k \in 1 .. from : t[k] = s[k]
  BY <1>3, <1>4
<1>6. \A k \in (upto + 1) .. Len(s) : t[k + Len(new) - (upto - from)] = s[k]
  <2> TAKE k \in (upto + 1) .. Len(s)
  <2>1. k - upto \in 1 .. Len(right) /\ upto + (k - upto) = k
    BY <1>2
  <2>r. right[k - upto] = s[upto + (k - upto)]
    <3> PICK m \in 1 .. Len(right) : m = k - upto
      BY <2>1
    <3> QED
      BY <1>2
  <2>t. t[Len(both) + (k - upto)] = right[k - upto]
    BY <1>4, <2>1
  <2>2. t[Len(both) + (k - upto)] = right[k - upto] /\ right[k - upto] = s[k]
    BY <2>1, <2>r, <2>t
  <2>3. Len(both) + (k - upto) = k + Len(new) - (upto - from)
    BY <1>3
  <2> QED
    BY <2>2, <2>3
<1>7. Splice(s, from, upto, new) = t
  BY <1>1, <1>2, <1>3, <1>4 DEF Splice
<1>8. Len(t) = Len(s) + Len(new) - (upto - from)
  <2>1. Len(both) = from + Len(new) /\ Len(right) = Len(s) - upto /\ Len(t) = Len(both) + Len(right)
    BY <1>2, <1>3, <1>4
  <2>2. Len(new) \in Nat /\ Len(s) \in Nat /\ from \in Nat /\ upto \in Nat
    OBVIOUS
  <2> QED
    BY <2>1, <2>2
<1> QED
  BY <1>5, <1>6, <1>7, <1>8

(* Where a text edit stands after another one of the same field.           *)
LEMMA TextOverText ==
  ASSUME NEW A, NEW i \in TextIntents(A), NEW p \in TextIntents(A), NEW doc, NEW j,
         p.block = i.block, p.field = i.field, TransformOne(i, p, doc) = Clean(j),
         NEW length \in Nat, i.end <= length, p.end <= length
  PROVE  /\ 0 <= j.start /\ j.start <= j.end
         /\ j.end <= length + Len(Typed(p)) - (p.end - p.start)
         /\ SameSides(i, j, p, length) /\ SameRange(i, j, p)
<1> DEFINE a == i.start
           b == i.end
           c == p.start
           d == p.end
           x == j.start
           y == j.end
           g == Len(Typed(p))
<1>1. /\ a \in Nat /\ b \in Nat /\ c \in Nat /\ d \in Nat /\ a <= b /\ c <= d
      /\ i.type \in TextEdits /\ p.type \in TextEdits
      /\ i.type = "insert_text" => a = b
      /\ i.type # "insert_text" => a < b
      /\ p.type = "insert_text" => c = d
      /\ p.type # "insert_text" => c < d
  BY DEF TextIntents
<1>2. g = IF p.type = "delete_text" THEN 0 ELSE 1
  BY DEF Typed
<1>3. CASE p.type = "insert_text"
  <2>1. OverInsert(i, p) = Clean(j)
    <3>1. TransformOne(i, p, doc) = OverInsert(i, p)
      BY <1>3 DEF TransformOne, Ranges
    <3> QED
      BY <3>1
  <2>2. TargetsTextOf(i, p.block, p.field)
    BY <1>1 DEF TargetsTextOf
  <2>3. g = 1 /\ c = d
    BY <1>1, <1>2, <1>3
  <2>4. CASE c <= a
    <3>1. Clean(j) = MoveTo(i, i.block, 1)
      BY <2>1, <2>2, <2>4 DEF OverInsert
    <3>2. x = a + 1 /\ y = b + 1
      BY <3>1, <1>1 DEF Clean, MoveTo, TextIntents
    <3>3. 0 <= x /\ x <= y /\ y <= length + g - (d - c)
      BY <1>1, <2>3, <3>2
    <3>4. SameSides(i, j, p, length)
      BY <1>1, <2>3, <2>4, <3>2 DEF SameSides, Survives, Moved
    <3>5. SameRange(i, j, p)
      <4> SUFFICES ASSUME NEW n \in (x + 1) .. y
                   PROVE  \E k \in (a + 1) .. b : Survives(p, k) /\ n = Moved(p, k)
        BY DEF SameRange
      <4>1. n - 1 \in (a + 1) .. b /\ n - 1 > d
        BY <1>1, <2>3, <2>4, <3>2
      <4>2. Survives(p, n - 1) /\ Moved(p, n - 1) = n
        BY <1>1, <2>3, <4>1 DEF Survives, Moved
      <4> QED
        BY <4>1, <4>2
    <3> QED
      BY <3>3, <3>4, <3>5
  <2>5. CASE c > a
    <3>1. c >= b /\ Clean(j) = Clean(i)
      BY <1>1, <2>1, <2>2, <2>5 DEF OverInsert, Clean, Escalate, Points, TextEdits
    <3>2. x = a /\ y = b
      BY <3>1 DEF Clean
    <3>3. 0 <= x /\ x <= y /\ y <= length + g - (d - c)
      BY <1>1, <2>3, <3>2
    <3>4. SameSides(i, j, p, length)
      BY <1>1, <2>3, <2>5, <3>1, <3>2 DEF SameSides, Survives, Moved
    <3>5. SameRange(i, j, p)
      BY <1>1, <2>3, <2>5, <3>1, <3>2 DEF SameRange, Survives, Moved
    <3> QED
      BY <3>3, <3>4, <3>5
  <2> QED
    BY <1>1, <2>4, <2>5
<1>4. CASE p.type # "insert_text"
  <2> DEFINE by == g - (d - c)
  <2>1. Gain(p) = by /\ by \in Int /\ g \in {0, 1} /\ c < d
    BY <1>1, <1>2, <1>4 DEF Gain, TextEdits
  <2>2. OverDestroy(i, p) = Clean(j)
    <3>1. TransformOne(i, p, doc) = OverDestroy(i, p)
      BY <1>1, <1>4 DEF TransformOne, Ranges, TextEdits
    <3> QED
      BY <3>1
  <2>3. TargetsTextOf(i, p.block, p.field)
    BY <1>1 DEF TargetsTextOf
  <2>4. \/ b <= c /\ x = a /\ y = b
        \/ a >= d /\ x = a + by /\ y = b + by
        \/ /\ a < d /\ c < b /\ g = 0 /\ x < y
           /\ x = IF a <= c THEN a ELSE c
           /\ y = IF b < d THEN c ELSE b + by
    <3>1. CASE i.type = "insert_text"
      <4>1. ~Inside(p, a) /\ Clean(j) = Clean([i EXCEPT !.start = MapPosition(p, @), !.end = MapPosition(p, @)])
        BY <2>2, <2>3, <3>1 DEF OverDestroy, PointOverDestroy, Points, Clean, Escalate
      <4>2. x = MapPosition(p, a) /\ y = MapPosition(p, b)
        BY <4>1 DEF Clean, TextIntents
      <4> QED
        BY <1>1, <2>1, <3>1, <4>1, <4>2 DEF Inside, MapPosition
    <3>2. CASE i.type # "insert_text"
      <4>1. RangeOverDestroy(i, p) = Clean(j)
        BY <1>1, <2>2, <2>3, <3>2 DEF OverDestroy, Points, TextEdits
      <4>2. CASE b <= c \/ a >= d
        <5> DEFINE shift(n) == IF n >= d THEN n + Gain(p) ELSE n
        <5>1. Clean(j) = Clean([i EXCEPT !.start = shift(@), !.end = shift(@)])
          BY <4>1, <4>2 DEF RangeOverDestroy
        <5>2. x = shift(a) /\ y = shift(b)
          BY <5>1 DEF Clean, TextIntents
        <5> QED
          BY <1>1, <2>1, <3>2, <4>2, <5>2
      <4>3. CASE ~(b <= c \/ a >= d)
        <5> DEFINE cut(n) == IF Inside(p, n) THEN c ELSE MapPosition(p, n)
        <5>1. /\ p.type = "delete_text" /\ ~(cut(b) <= cut(a))
              /\ Clean(j) = Clean([i EXCEPT !.start = cut(@), !.end = cut(@)])
          BY <1>1, <1>4, <4>1, <4>3 DEF RangeOverDestroy, Clean, Escalate, VoidOut, TextEdits
        <5>2. x = cut(a) /\ y = cut(b)
          BY <5>1 DEF Clean, TextIntents
        <5> QED
          BY <1>1, <1>2, <2>1, <4>3, <5>1, <5>2 DEF Inside, MapPosition
      <4> QED
        BY <4>2, <4>3
    <3> QED
      BY <3>1, <3>2
  <2>5. \A k : Moved(p, k) = IF k <= c THEN k ELSE k + g - (d - c)
    BY DEF Moved
  <2>6. CASE b <= c /\ x = a /\ y = b
    <3>1. 0 <= x /\ x <= y /\ y <= length + g - (d - c)
      BY <1>1, <2>1, <2>6
    <3>2. SameSides(i, j, p, length)
      BY <1>1, <2>1, <2>5, <2>6 DEF SameSides, Survives
    <3>3. SameRange(i, j, p)
      BY <1>1, <2>1, <2>5, <2>6, SMTT(30) DEF SameRange, Survives
    <3> QED
      BY <3>1, <3>2, <3>3
  <2>7. CASE a >= d /\ x = a + by /\ y = b + by
    <3>1. 0 <= x /\ x <= y /\ y <= length + g - (d - c)
      BY <1>1, <2>1, <2>7, SMTT(30)
    <3>2. SameSides(i, j, p, length)
      <4> SUFFICES ASSUME NEW k \in 1 .. length, Survives(p, k)
                   PROVE  /\ k <= a <=> Moved(p, k) <= x
                          /\ k <= b <=> Moved(p, k) <= y
        BY DEF SameSides
      <4>1. CASE k <= c
        <5>1. k <= a /\ k <= b /\ Moved(p, k) = k
          BY <1>1, <2>1, <2>5, <2>7, <4>1, SMTT(30)
        <5>2. k <= x /\ k <= y
          BY <1>1, <2>1, <2>7, <4>1, SMTT(30)
        <5> QED
          BY <5>1, <5>2
      <4>2. CASE k > d
        <5>1. Moved(p, k) = k + by
          BY <1>1, <2>1, <2>5, <4>2
        <5> QED
          BY <1>1, <2>1, <2>7, <5>1
      <4> QED
        BY <4>1, <4>2 DEF Survives
    <3>3. SameRange(i, j, p)
      <4> SUFFICES ASSUME NEW n \in (x + 1) .. y
                   PROVE  \E k \in (a + 1) .. b : Survives(p, k) /\ n = Moved(p, k)
        BY DEF SameRange
      <4>1. n - by \in (a + 1) .. b /\ n - by > d
        <5>1. n \in Int /\ a + by < n /\ n <= b + by
          BY <1>1, <2>1, <2>7
        <5> HIDE DEF by
        <5> QED
          BY <1>1, <2>1, <2>7, <5>1
      <4>2. Survives(p, n - by) /\ Moved(p, n - by) = n
        BY <1>1, <2>1, <2>5, <4>1 DEF Survives
      <4> QED
        BY <4>1, <4>2
    <3> QED
      BY <3>1, <3>2, <3>3
  <2>8. CASE /\ a < d /\ c < b /\ g = 0 /\ x < y
             /\ x = IF a <= c THEN a ELSE c
             /\ y = IF b < d THEN c ELSE b + by
    <3>1. 0 <= x /\ x <= y /\ y <= length + g - (d - c)
      BY <1>1, <2>1, <2>8
    <3>2. SameSides(i, j, p, length)
      <4> SUFFICES ASSUME NEW k \in 1 .. length, Survives(p, k)
                   PROVE  /\ k <= a <=> Moved(p, k) <= x
                          /\ k <= b <=> Moved(p, k) <= y
        BY DEF SameSides
      <4>1. CASE k <= c
        <5>1. Moved(p, k) = k
          BY <2>5, <4>1
        <5>2. k <= a <=> k <= x
          BY <1>1, <2>1, <2>8, <4>1
        <5>3. k <= b /\ k <= y
          BY <1>1, <2>1, <2>8, <4>1
        <5> QED
          BY <5>1, <5>2, <5>3
      <4>2. CASE k > d
        <5>1. Moved(p, k) = k + by
          BY <1>1, <2>1, <2>5, <4>2
        <5>2. ~(k <= a) /\ ~(k + by <= x)
          BY <1>1, <2>1, <2>8, <4>2, SMTT(30)
        <5>3. k <= b <=> k + by <= y
          BY <1>1, <2>1, <2>8, <4>2
        <5> QED
          BY <5>1, <5>2, <5>3
      <4> QED
        BY <4>1, <4>2 DEF Survives
    <3>3. SameRange(i, j, p)
      <4> SUFFICES ASSUME NEW n \in (x + 1) .. y
                   PROVE  \E k \in (a + 1) .. b : Survives(p, k) /\ n = Moved(p, k)
        BY DEF SameRange
      <4>1. CASE n <= c
        <5>1. n \in (a + 1) .. b /\ Survives(p, n) /\ Moved(p, n) = n
          BY <1>1, <2>1, <2>5, <2>8, <4>1 DEF Survives
        <5> QED
          BY <5>1
      <4>2. CASE n > c
        <5>1. n \in Int /\ n <= b + by /\ by = c - d
          BY <1>1, <2>1, <2>8, <4>2
        <5>2. n - by > d /\ n - by <= b
          <6> HIDE DEF by
          <6> QED
            BY <1>1, <2>1, <4>2, <5>1
        <5>3. n - by \in (a + 1) .. b
          BY <1>1, <2>1, <2>8, <5>1, <5>2, SMTT(30)
        <5>4. Survives(p, n - by) /\ Moved(p, n - by) = n
          BY <1>1, <2>1, <2>5, <5>1, <5>2 DEF Survives
        <5> QED
          BY <5>3, <5>4
      <4>3. n \in Int /\ c \in Int
        BY <1>1, <2>1, <2>8
      <4> QED
        BY <4>1, <4>2, <4>3
    <3> QED
      BY <3>1, <3>2, <3>3
  <2> QED
    BY <2>4, <2>6, <2>7, <2>8
<1> QED
  BY <1>3, <1>4

(* What a text edit does to the text of its field.                         *)
LEMMA EffectOnText ==
  ASSUME NEW A, NEW doc \in Documents(A), NEW p \in TextIntents(A), Has(doc, p.block),
         p.end <= Len(Text(doc, p.block, p.field))
  PROVE  /\ Text(doc, p.block, p.field) \in Seq(A)
         /\ Text(Effect(doc, p), p.block, p.field) =
              Splice(Text(doc, p.block, p.field), p.start, p.end, Typed(p))
<1> DEFINE b == p.block
           f == p.field
           at == Place(doc, b)
           s == Text(doc, b, f)
           new == Splice(s, p.start, p.end, Typed(p))
<1>1. /\ p.start \in Nat /\ p.end \in Nat /\ p.start <= p.end /\ f \in Fields
      /\ p.type \in TextEdits /\ (p.type = "insert_text" => p.start = p.end)
  BY DEF TextIntents
<1>2. at \in DOMAIN doc /\ doc[at].id = b
  BY DEF Has, Place
<1>3. doc \in Seq([id : A, text : [Fields -> Seq(A)], attr : A])
      /\ \A m, n \in DOMAIN doc : doc[m].id = doc[n].id => m = n
  BY DEF Documents
<1>4. doc[at] \in [id : A, text : [Fields -> Seq(A)], attr : A]
  <2> DEFINE Blocks == [id : A, text : [Fields -> Seq(A)], attr : A]
  <2> HIDE DEF Blocks
  <2>1. \A d \in Seq(Blocks) : \A k \in DOMAIN d : d[k] \in Blocks
    OBVIOUS
  <2>2. doc \in Seq(Blocks)
    BY <1>3 DEF Blocks
  <2>3. doc[at] \in Blocks
    BY <1>2, <2>1, <2>2
  <2> QED
    BY <2>3 DEF Blocks
<1>5. s = doc[at].text[f] /\ s \in Seq(A)
  BY <1>1, <1>4 DEF Text
<1>6. Effect(doc, p) = Write(doc, b, f, new)
  <2>1. Smaller(p.start, Len(s)) = p.start /\ Smaller(p.end, Len(s)) = p.end
    BY <1>1, <1>5, SMTT(30) DEF Smaller
  <2> QED
    BY <1>1, <2>1 DEF Effect, Typed, TextEdits
<1>7. PICK after : after = Write(doc, b, f, new)
  OBVIOUS
<1>8. /\ DOMAIN after = DOMAIN doc
      /\ \A k \in DOMAIN doc : after[k].id = doc[k].id
      /\ after[at].text[f] = new
  BY <1>1, <1>2, <1>3, <1>4, <1>7 DEF Write
<1>9. Has(after, b) /\ Place(after, b) = at
  BY <1>2, <1>3, <1>8 DEF Has, Place
<1> QED
  BY <1>5, <1>6, <1>7, <1>8, <1>9 DEF Text

(* A text edit that arrives after another tab's text edit of the same      *)
(* field is applied where its author meant it, whatever the text, the      *)
(* ranges and their overlap: if transform_one calls it clean, then in the  *)
(* text after the other edit its range lies within the text, no character  *)
(* that is left changed sides, and it holds only characters of the range   *)
(* its author selected.                                                    *)
THEOREM TransformKeepsText ==
  ASSUME NEW A, NEW doc \in Documents(A),
         NEW i \in TextIntents(A), NEW p \in TextIntents(A), NEW j,
         p.block = i.block, p.field = i.field, Has(doc, p.block),
         i.end <= Len(Text(doc, p.block, p.field)),
         p.end <= Len(Text(doc, p.block, p.field)),
         TransformOne(i, p, doc) = Clean(j)
  PROVE  LET before == Text(doc, p.block, p.field)
             after  == Text(Effect(doc, p), p.block, p.field)
         IN /\ 0 <= j.start /\ j.start <= j.end /\ j.end <= Len(after)
            /\ \A k \in 1 .. Len(before) : Survives(p, k) => after[Moved(p, k)] = before[k]
            /\ SameSides(i, j, p, Len(before)) /\ SameRange(i, j, p)
<1> DEFINE s == Text(doc, p.block, p.field)
           t == Splice(s, p.start, p.end, Typed(p))
<1>1. s \in Seq(A) /\ Text(Effect(doc, p), p.block, p.field) = t
  BY EffectOnText
<1>2. Typed(p) \in Seq(A) /\ p.start \in 0 .. Len(s) /\ p.end \in p.start .. Len(s)
  BY <1>1 DEF TextIntents, Typed
<1> HIDE DEF s
<1>3. /\ Len(t) = Len(s) + Len(Typed(p)) - (p.end - p.start)
      /\ \A k \in 1 .. p.start : t[k] = s[k]
      /\ \A k \in (p.end + 1) .. Len(s) : t[k + Len(Typed(p)) - (p.end - p.start)] = s[k]
  <2>1. \A u, new \in Seq(A) : \A from \in 0 .. Len(u) : \A upto \in from .. Len(u) :
          /\ Len(Splice(u, from, upto, new)) = Len(u) + Len(new) - (upto - from)
          /\ \A k \in 1 .. from : Splice(u, from, upto, new)[k] = u[k]
          /\ \A k \in (upto + 1) .. Len(u) :
               Splice(u, from, upto, new)[k + Len(new) - (upto - from)] = u[k]
    BY SpliceByPosition, ZenonT(60)
  <2> QED
    BY <1>1, <1>2, <2>1
<1> HIDE DEF t
<1>4. \A k \in 1 .. Len(s) : Survives(p, k) => t[Moved(p, k)] = s[k]
  <2> SUFFICES ASSUME NEW k \in 1 .. Len(s), Survives(p, k) PROVE t[Moved(p, k)] = s[k]
    OBVIOUS
  <2>1. CASE k <= p.start
    <3>1. Moved(p, k) = k /\ k \in 1 .. p.start
      BY <1>1, <1>2, <2>1 DEF Moved
    <3> QED
      BY <1>3, <3>1
  <2>2. CASE ~(k <= p.start)
    <3>1. Moved(p, k) = k + Len(Typed(p)) - (p.end - p.start) /\ k \in (p.end + 1) .. Len(s)
      BY <1>1, <1>2, <2>2 DEF Moved, Survives
    <3> QED
      BY <1>3, <3>1
  <2> QED
    BY <2>1, <2>2
<1>5. Len(s) \in Nat
  BY <1>1
<1>6. /\ 0 <= j.start /\ j.start <= j.end
      /\ j.end <= Len(s) + Len(Typed(p)) - (p.end - p.start)
      /\ SameSides(i, j, p, Len(s)) /\ SameRange(i, j, p)
  BY <1>5, TextOverText DEF s
<1> QED
  BY <1>1, <1>3, <1>4, <1>6 DEF s

-----------------------------------------------------------------------------
(* The folds of the planner, with what they fold over as parameters.       *)
Settled(p, j, unit, judged, triggers) == SettleOne(p, unit[j], judged[j], triggers)
Planned(plan, unit, l, docAt) == PlanUnit(plan, unit, JudgeAll(plan.frame, unit, l, docAt))
SettleFold(unit, judged, triggers, x, s) ==
  Folded(LAMBDA p, j : SettleOne(p, unit[j], judged[j], triggers), x, s)
PlanFold(l, docAt, x, s) ==
  Folded(LAMBDA plan, unit : PlanUnit(plan, unit, JudgeAll(plan.frame, unit, l, docAt)), x, s)

ReplayRun(f, x, s) ==
  f[0] = x /\ \A k \in 1..Len(s) : f[k] = ApplyIntent(f[k - 1], s[k])

(* A log is replayed entry by entry.                                       *)
LEMMA ReplayRuns ==
  ASSUME NEW x, NEW s, Len(s) \in Nat
  PROVE  \E f : /\ ReplayRun(f, x, s)
               /\ Replay(x, s) = f[Len(s)]
<1> DEFINE Is(g, n) == g = [k \in 0..n |-> IF k = 0 THEN x ELSE ApplyIntent(g[k - 1], s[k])]
           T == {n \in 0..Len(s) : \E g : Is(g, n)}
           h == CHOOSE g : Is(g, Len(s))
<1>1. \A n \in Nat : \A g : Is(g, n) => g[0] = x /\ \A k \in 1..n : g[k] = ApplyIntent(g[k - 1], s[k])
  <2> SUFFICES ASSUME NEW n \in Nat, NEW g, Is(g, n)
               PROVE  g[0] = x /\ \A k \in 1..n : g[k] = ApplyIntent(g[k - 1], s[k])
    OBVIOUS
  <2>1. \A k \in 0..n : g[k] = IF k = 0 THEN x ELSE ApplyIntent(g[k - 1], s[k]) BY Zenon
  <2>2. 0 \in 0..n /\ \A k \in 1..n : k \in 0..n /\ k # 0 OBVIOUS
  <2> QED BY <2>1, <2>2
<1>2. 0 \in T
  <2> DEFINE g == [k \in 0..0 |-> x]
  <2>1. \A k \in 0..0 : k = 0 OBVIOUS
  <2>2. Is(g, 0) BY <2>1
  <2> HIDE DEF Is
  <2> QED BY <2>2
<1>3. ASSUME NEW n \in T, n < Len(s) PROVE n + 1 \in T
  <2>1. PICK g : Is(g, n) OBVIOUS
  <2>2. n \in Nat OBVIOUS
  <2>3. g[0] = x /\ \A k \in 1..n : g[k] = ApplyIntent(g[k - 1], s[k]) BY <1>1, <2>1, <2>2
  <2>v. PICK v : v = ApplyIntent(g[n], s[n + 1]) OBVIOUS
  <2> DEFINE e == [k \in 0..(n + 1) |-> IF k <= n THEN g[k] ELSE v]
  <2>4. \A k \in 0..n : e[k] = g[k] BY <2>2
  <2>e. e[n + 1] = v BY <2>2
  <2>5. e[n + 1] = ApplyIntent(g[n], s[n + 1]) BY <2>v, <2>e, Zenon
  <2>6. ASSUME NEW k \in 0..(n + 1) PROVE e[k] = IF k = 0 THEN x ELSE ApplyIntent(e[k - 1], s[k])
    <3>1. CASE k = 0 BY <3>1, <2>2, <2>3, <2>4
    <3>2. CASE k # 0 /\ k <= n
      <4>1. k \in 1..n /\ k - 1 \in 0..n /\ k \in 0..n BY <2>2, <3>2
      <4>2. e[k] = g[k] /\ e[k - 1] = g[k - 1] BY <2>4, <4>1
      <4>3. g[k] = ApplyIntent(g[k - 1], s[k]) BY <2>3, <4>1
      <4> HIDE DEF e
      <4> QED BY <3>2, <4>2, <4>3
    <3>3. CASE k = n + 1
      <4>1. k # 0 /\ k - 1 = n /\ n \in 0..n BY <2>2, <3>3
      <4>2. e[k - 1] = g[n] BY <2>4, <4>1
      <4> HIDE DEF e
      <4> QED BY <2>5, <3>3, <4>1, <4>2
    <3>4. k = 0 \/ (k # 0 /\ k <= n) \/ k = n + 1 BY <2>2
    <3> QED BY <3>1, <3>2, <3>3, <3>4
  <2>7. e = [k \in 0..(n + 1) |-> e[k]] OBVIOUS
  <2> HIDE DEF e
  <2>8. Is(e, n + 1) BY <2>6, <2>7, Zenon
  <2>9. n + 1 \in 0..Len(s) BY <2>2, <1>3
  <2> HIDE DEF Is
  <2> QED BY <2>8, <2>9
<1>4. Len(s) \in T
  <2>1. T \in SUBSET (0..Len(s)) OBVIOUS
  <2> HIDE DEF T
  <2>2. T = 0..Len(s) BY <1>2, <1>3, <2>1, UpTo
  <2> QED BY <2>2
<1>5. Is(h, Len(s))
  <2>1. \E g : Is(g, Len(s)) BY <1>4
  <2> HIDE DEF Is
  <2> QED BY <2>1, Zenon
<1>6. Replay(x, s) = h[Len(s)] BY Zenon DEF Replay, Folded
<1>7. h[0] = x /\ \A k \in 1..Len(s) : h[k] = ApplyIntent(h[k - 1], s[k]) BY <1>1, <1>5
<1> HIDE DEF h
<1> QED BY <1>6, <1>7 DEF ReplayRun

RebaseRun(f, x, s) ==
  f[0] = x /\ \A k \in 1..Len(s) : f[k] = RebaseOver(f[k - 1], s[k])

(* An intent is rebased entry by entry.                                    *)
LEMMA RebaseRuns ==
  ASSUME NEW x, NEW s, Len(s) \in Nat
  PROVE  \E f : /\ RebaseRun(f, x, s)
               /\ Folded(RebaseOver, x, s) = f[Len(s)]
<1> DEFINE Is(g, n) == g = [k \in 0..n |-> IF k = 0 THEN x ELSE RebaseOver(g[k - 1], s[k])]
           T == {n \in 0..Len(s) : \E g : Is(g, n)}
           h == CHOOSE g : Is(g, Len(s))
<1>1. \A n \in Nat : \A g : Is(g, n) => g[0] = x /\ \A k \in 1..n : g[k] = RebaseOver(g[k - 1], s[k])
  <2> SUFFICES ASSUME NEW n \in Nat, NEW g, Is(g, n)
               PROVE  g[0] = x /\ \A k \in 1..n : g[k] = RebaseOver(g[k - 1], s[k])
    OBVIOUS
  <2>1. \A k \in 0..n : g[k] = IF k = 0 THEN x ELSE RebaseOver(g[k - 1], s[k]) BY Zenon
  <2>2. 0 \in 0..n /\ \A k \in 1..n : k \in 0..n /\ k # 0 OBVIOUS
  <2> QED BY <2>1, <2>2
<1>2. 0 \in T
  <2> DEFINE g == [k \in 0..0 |-> x]
  <2>1. \A k \in 0..0 : k = 0 OBVIOUS
  <2>2. Is(g, 0) BY <2>1
  <2> HIDE DEF Is
  <2> QED BY <2>2
<1>3. ASSUME NEW n \in T, n < Len(s) PROVE n + 1 \in T
  <2>1. PICK g : Is(g, n) OBVIOUS
  <2>2. n \in Nat OBVIOUS
  <2>3. g[0] = x /\ \A k \in 1..n : g[k] = RebaseOver(g[k - 1], s[k]) BY <1>1, <2>1, <2>2
  <2>v. PICK v : v = RebaseOver(g[n], s[n + 1]) OBVIOUS
  <2> DEFINE e == [k \in 0..(n + 1) |-> IF k <= n THEN g[k] ELSE v]
  <2>4. \A k \in 0..n : e[k] = g[k] BY <2>2
  <2>e. e[n + 1] = v BY <2>2
  <2>5. e[n + 1] = RebaseOver(g[n], s[n + 1]) BY <2>v, <2>e, Zenon
  <2>6. ASSUME NEW k \in 0..(n + 1) PROVE e[k] = IF k = 0 THEN x ELSE RebaseOver(e[k - 1], s[k])
    <3>1. CASE k = 0 BY <3>1, <2>2, <2>3, <2>4
    <3>2. CASE k # 0 /\ k <= n
      <4>1. k \in 1..n /\ k - 1 \in 0..n /\ k \in 0..n BY <2>2, <3>2
      <4>2. e[k] = g[k] /\ e[k - 1] = g[k - 1] BY <2>4, <4>1
      <4>3. g[k] = RebaseOver(g[k - 1], s[k]) BY <2>3, <4>1
      <4> HIDE DEF e
      <4> QED BY <3>2, <4>2, <4>3
    <3>3. CASE k = n + 1
      <4>1. k # 0 /\ k - 1 = n /\ n \in 0..n BY <2>2, <3>3
      <4>2. e[k - 1] = g[n] BY <2>4, <4>1
      <4> HIDE DEF e
      <4> QED BY <2>5, <3>3, <4>1, <4>2
    <3>4. k = 0 \/ (k # 0 /\ k <= n) \/ k = n + 1 BY <2>2
    <3> QED BY <3>1, <3>2, <3>3, <3>4
  <2>7. e = [k \in 0..(n + 1) |-> e[k]] OBVIOUS
  <2> HIDE DEF e
  <2>8. Is(e, n + 1) BY <2>6, <2>7, Zenon
  <2>9. n + 1 \in 0..Len(s) BY <2>2, <1>3
  <2> HIDE DEF Is
  <2> QED BY <2>8, <2>9
<1>4. Len(s) \in T
  <2>1. T \in SUBSET (0..Len(s)) OBVIOUS
  <2> HIDE DEF T
  <2>2. T = 0..Len(s) BY <1>2, <1>3, <2>1, UpTo
  <2> QED BY <2>2
<1>5. Is(h, Len(s))
  <2>1. \E g : Is(g, Len(s)) BY <1>4
  <2> HIDE DEF Is
  <2> QED BY <2>1, Zenon
<1>6. Folded(RebaseOver, x, s) = h[Len(s)] BY Zenon DEF Folded
<1>7. h[0] = x /\ \A k \in 1..Len(s) : h[k] = RebaseOver(h[k - 1], s[k]) BY <1>1, <1>5
<1> HIDE DEF h
<1> QED BY <1>6, <1>7 DEF RebaseRun

JoinRun(f, x, s) ==
  f[0] = x /\ \A k \in 1..Len(s) : f[k] = Join(f[k - 1], s[k])

(* A batch is divided intent by intent.                                    *)
LEMMA JoinRuns ==
  ASSUME NEW x, NEW s, Len(s) \in Nat
  PROVE  \E f : /\ JoinRun(f, x, s)
               /\ Folded(Join, x, s) = f[Len(s)]
<1> DEFINE Is(g, n) == g = [k \in 0..n |-> IF k = 0 THEN x ELSE Join(g[k - 1], s[k])]
           T == {n \in 0..Len(s) : \E g : Is(g, n)}
           h == CHOOSE g : Is(g, Len(s))
<1>1. \A n \in Nat : \A g : Is(g, n) => g[0] = x /\ \A k \in 1..n : g[k] = Join(g[k - 1], s[k])
  <2> SUFFICES ASSUME NEW n \in Nat, NEW g, Is(g, n)
               PROVE  g[0] = x /\ \A k \in 1..n : g[k] = Join(g[k - 1], s[k])
    OBVIOUS
  <2>1. \A k \in 0..n : g[k] = IF k = 0 THEN x ELSE Join(g[k - 1], s[k]) BY Zenon
  <2>2. 0 \in 0..n /\ \A k \in 1..n : k \in 0..n /\ k # 0 OBVIOUS
  <2> QED BY <2>1, <2>2
<1>2. 0 \in T
  <2> DEFINE g == [k \in 0..0 |-> x]
  <2>1. \A k \in 0..0 : k = 0 OBVIOUS
  <2>2. Is(g, 0) BY <2>1
  <2> HIDE DEF Is
  <2> QED BY <2>2
<1>3. ASSUME NEW n \in T, n < Len(s) PROVE n + 1 \in T
  <2>1. PICK g : Is(g, n) OBVIOUS
  <2>2. n \in Nat OBVIOUS
  <2>3. g[0] = x /\ \A k \in 1..n : g[k] = Join(g[k - 1], s[k]) BY <1>1, <2>1, <2>2
  <2>v. PICK v : v = Join(g[n], s[n + 1]) OBVIOUS
  <2> DEFINE e == [k \in 0..(n + 1) |-> IF k <= n THEN g[k] ELSE v]
  <2>4. \A k \in 0..n : e[k] = g[k] BY <2>2
  <2>e. e[n + 1] = v BY <2>2
  <2>5. e[n + 1] = Join(g[n], s[n + 1]) BY <2>v, <2>e, Zenon
  <2>6. ASSUME NEW k \in 0..(n + 1) PROVE e[k] = IF k = 0 THEN x ELSE Join(e[k - 1], s[k])
    <3>1. CASE k = 0 BY <3>1, <2>2, <2>3, <2>4
    <3>2. CASE k # 0 /\ k <= n
      <4>1. k \in 1..n /\ k - 1 \in 0..n /\ k \in 0..n BY <2>2, <3>2
      <4>2. e[k] = g[k] /\ e[k - 1] = g[k - 1] BY <2>4, <4>1
      <4>3. g[k] = Join(g[k - 1], s[k]) BY <2>3, <4>1
      <4> HIDE DEF e
      <4> QED BY <3>2, <4>2, <4>3
    <3>3. CASE k = n + 1
      <4>1. k # 0 /\ k - 1 = n /\ n \in 0..n BY <2>2, <3>3
      <4>2. e[k - 1] = g[n] BY <2>4, <4>1
      <4> HIDE DEF e
      <4> QED BY <2>5, <3>3, <4>1, <4>2
    <3>4. k = 0 \/ (k # 0 /\ k <= n) \/ k = n + 1 BY <2>2
    <3> QED BY <3>1, <3>2, <3>3, <3>4
  <2>7. e = [k \in 0..(n + 1) |-> e[k]] OBVIOUS
  <2> HIDE DEF e
  <2>8. Is(e, n + 1) BY <2>6, <2>7, Zenon
  <2>9. n + 1 \in 0..Len(s) BY <2>2, <1>3
  <2> HIDE DEF Is
  <2> QED BY <2>8, <2>9
<1>4. Len(s) \in T
  <2>1. T \in SUBSET (0..Len(s)) OBVIOUS
  <2> HIDE DEF T
  <2>2. T = 0..Len(s) BY <1>2, <1>3, <2>1, UpTo
  <2> QED BY <2>2
<1>5. Is(h, Len(s))
  <2>1. \E g : Is(g, Len(s)) BY <1>4
  <2> HIDE DEF Is
  <2> QED BY <2>1, Zenon
<1>6. Folded(Join, x, s) = h[Len(s)] BY Zenon DEF Folded
<1>7. h[0] = x /\ \A k \in 1..Len(s) : h[k] = Join(h[k - 1], s[k]) BY <1>1, <1>5
<1> HIDE DEF h
<1> QED BY <1>6, <1>7 DEF JoinRun

SettleRun(f, unit, judged, triggers, x, s) ==
  f[0] = x /\ \A k \in 1..Len(s) : f[k] = Settled(f[k - 1], s[k], unit, judged, triggers)

(* A unit is settled member by member.                                     *)
LEMMA SettleRuns ==
  ASSUME NEW unit, NEW judged, NEW triggers, NEW x, NEW s, Len(s) \in Nat
  PROVE  \E f : /\ SettleRun(f, unit, judged, triggers, x, s)
               /\ SettleFold(unit, judged, triggers, x, s) = f[Len(s)]
<1> DEFINE Is(g, n) == g = [k \in 0..n |-> IF k = 0 THEN x ELSE Settled(g[k - 1], s[k], unit, judged, triggers)]
           T == {n \in 0..Len(s) : \E g : Is(g, n)}
           h == CHOOSE g : Is(g, Len(s))
<1>1. \A n \in Nat : \A g : Is(g, n) => g[0] = x /\ \A k \in 1..n : g[k] = Settled(g[k - 1], s[k], unit, judged, triggers)
  <2> SUFFICES ASSUME NEW n \in Nat, NEW g, Is(g, n)
               PROVE  g[0] = x /\ \A k \in 1..n : g[k] = Settled(g[k - 1], s[k], unit, judged, triggers)
    OBVIOUS
  <2>1. \A k \in 0..n : g[k] = IF k = 0 THEN x ELSE Settled(g[k - 1], s[k], unit, judged, triggers) BY Zenon
  <2>2. 0 \in 0..n /\ \A k \in 1..n : k \in 0..n /\ k # 0 OBVIOUS
  <2> QED BY <2>1, <2>2
<1>2. 0 \in T
  <2> DEFINE g == [k \in 0..0 |-> x]
  <2>1. \A k \in 0..0 : k = 0 OBVIOUS
  <2>2. Is(g, 0) BY <2>1
  <2> HIDE DEF Is
  <2> QED BY <2>2
<1>3. ASSUME NEW n \in T, n < Len(s) PROVE n + 1 \in T
  <2>1. PICK g : Is(g, n) OBVIOUS
  <2>2. n \in Nat OBVIOUS
  <2>3. g[0] = x /\ \A k \in 1..n : g[k] = Settled(g[k - 1], s[k], unit, judged, triggers) BY <1>1, <2>1, <2>2
  <2>v. PICK v : v = Settled(g[n], s[n + 1], unit, judged, triggers) OBVIOUS
  <2> DEFINE e == [k \in 0..(n + 1) |-> IF k <= n THEN g[k] ELSE v]
  <2>4. \A k \in 0..n : e[k] = g[k] BY <2>2
  <2>e. e[n + 1] = v BY <2>2
  <2>5. e[n + 1] = Settled(g[n], s[n + 1], unit, judged, triggers) BY <2>v, <2>e, Zenon
  <2>6. ASSUME NEW k \in 0..(n + 1) PROVE e[k] = IF k = 0 THEN x ELSE Settled(e[k - 1], s[k], unit, judged, triggers)
    <3>1. CASE k = 0 BY <3>1, <2>2, <2>3, <2>4
    <3>2. CASE k # 0 /\ k <= n
      <4>1. k \in 1..n /\ k - 1 \in 0..n /\ k \in 0..n BY <2>2, <3>2
      <4>2. e[k] = g[k] /\ e[k - 1] = g[k - 1] BY <2>4, <4>1
      <4>3. g[k] = Settled(g[k - 1], s[k], unit, judged, triggers) BY <2>3, <4>1
      <4> HIDE DEF e
      <4> QED BY <3>2, <4>2, <4>3
    <3>3. CASE k = n + 1
      <4>1. k # 0 /\ k - 1 = n /\ n \in 0..n BY <2>2, <3>3
      <4>2. e[k - 1] = g[n] BY <2>4, <4>1
      <4> HIDE DEF e
      <4> QED BY <2>5, <3>3, <4>1, <4>2
    <3>4. k = 0 \/ (k # 0 /\ k <= n) \/ k = n + 1 BY <2>2
    <3> QED BY <3>1, <3>2, <3>3, <3>4
  <2>7. e = [k \in 0..(n + 1) |-> e[k]] OBVIOUS
  <2> HIDE DEF e
  <2>8. Is(e, n + 1) BY <2>6, <2>7, Zenon
  <2>9. n + 1 \in 0..Len(s) BY <2>2, <1>3
  <2> HIDE DEF Is
  <2> QED BY <2>8, <2>9
<1>4. Len(s) \in T
  <2>1. T \in SUBSET (0..Len(s)) OBVIOUS
  <2> HIDE DEF T
  <2>2. T = 0..Len(s) BY <1>2, <1>3, <2>1, UpTo
  <2> QED BY <2>2
<1>5. Is(h, Len(s))
  <2>1. \E g : Is(g, Len(s)) BY <1>4
  <2> HIDE DEF Is
  <2> QED BY <2>1, Zenon
<1>6. SettleFold(unit, judged, triggers, x, s) = h[Len(s)] BY Zenon DEF SettleFold, Settled, Folded
<1>7. h[0] = x /\ \A k \in 1..Len(s) : h[k] = Settled(h[k - 1], s[k], unit, judged, triggers) BY <1>1, <1>5
<1> HIDE DEF h
<1> QED BY <1>6, <1>7 DEF SettleRun

PlanRun(f, l, docAt, x, s) ==
  f[0] = x /\ \A k \in 1..Len(s) : f[k] = Planned(f[k - 1], s[k], l, docAt)

(* A batch is planned unit by unit.                                        *)
LEMMA PlanRuns ==
  ASSUME NEW l, NEW docAt, NEW x, NEW s, Len(s) \in Nat
  PROVE  \E f : /\ PlanRun(f, l, docAt, x, s)
               /\ PlanFold(l, docAt, x, s) = f[Len(s)]
<1> DEFINE Is(g, n) == g = [k \in 0..n |-> IF k = 0 THEN x ELSE Planned(g[k - 1], s[k], l, docAt)]
           T == {n \in 0..Len(s) : \E g : Is(g, n)}
           h == CHOOSE g : Is(g, Len(s))
<1>1. \A n \in Nat : \A g : Is(g, n) => g[0] = x /\ \A k \in 1..n : g[k] = Planned(g[k - 1], s[k], l, docAt)
  <2> SUFFICES ASSUME NEW n \in Nat, NEW g, Is(g, n)
               PROVE  g[0] = x /\ \A k \in 1..n : g[k] = Planned(g[k - 1], s[k], l, docAt)
    OBVIOUS
  <2>1. \A k \in 0..n : g[k] = IF k = 0 THEN x ELSE Planned(g[k - 1], s[k], l, docAt) BY Zenon
  <2>2. 0 \in 0..n /\ \A k \in 1..n : k \in 0..n /\ k # 0 OBVIOUS
  <2> QED BY <2>1, <2>2
<1>2. 0 \in T
  <2> DEFINE g == [k \in 0..0 |-> x]
  <2>1. \A k \in 0..0 : k = 0 OBVIOUS
  <2>2. Is(g, 0) BY <2>1
  <2> HIDE DEF Is
  <2> QED BY <2>2
<1>3. ASSUME NEW n \in T, n < Len(s) PROVE n + 1 \in T
  <2>1. PICK g : Is(g, n) OBVIOUS
  <2>2. n \in Nat OBVIOUS
  <2>3. g[0] = x /\ \A k \in 1..n : g[k] = Planned(g[k - 1], s[k], l, docAt) BY <1>1, <2>1, <2>2
  <2>v. PICK v : v = Planned(g[n], s[n + 1], l, docAt) OBVIOUS
  <2> DEFINE e == [k \in 0..(n + 1) |-> IF k <= n THEN g[k] ELSE v]
  <2>4. \A k \in 0..n : e[k] = g[k] BY <2>2
  <2>e. e[n + 1] = v BY <2>2
  <2>5. e[n + 1] = Planned(g[n], s[n + 1], l, docAt) BY <2>v, <2>e, Zenon
  <2>6. ASSUME NEW k \in 0..(n + 1) PROVE e[k] = IF k = 0 THEN x ELSE Planned(e[k - 1], s[k], l, docAt)
    <3>1. CASE k = 0 BY <3>1, <2>2, <2>3, <2>4
    <3>2. CASE k # 0 /\ k <= n
      <4>1. k \in 1..n /\ k - 1 \in 0..n /\ k \in 0..n BY <2>2, <3>2
      <4>2. e[k] = g[k] /\ e[k - 1] = g[k - 1] BY <2>4, <4>1
      <4>3. g[k] = Planned(g[k - 1], s[k], l, docAt) BY <2>3, <4>1
      <4> HIDE DEF e
      <4> QED BY <3>2, <4>2, <4>3
    <3>3. CASE k = n + 1
      <4>1. k # 0 /\ k - 1 = n /\ n \in 0..n BY <2>2, <3>3
      <4>2. e[k - 1] = g[n] BY <2>4, <4>1
      <4> HIDE DEF e
      <4> QED BY <2>5, <3>3, <4>1, <4>2
    <3>4. k = 0 \/ (k # 0 /\ k <= n) \/ k = n + 1 BY <2>2
    <3> QED BY <3>1, <3>2, <3>3, <3>4
  <2>7. e = [k \in 0..(n + 1) |-> e[k]] OBVIOUS
  <2> HIDE DEF e
  <2>8. Is(e, n + 1) BY <2>6, <2>7, Zenon
  <2>9. n + 1 \in 0..Len(s) BY <2>2, <1>3
  <2> HIDE DEF Is
  <2> QED BY <2>8, <2>9
<1>4. Len(s) \in T
  <2>1. T \in SUBSET (0..Len(s)) OBVIOUS
  <2> HIDE DEF T
  <2>2. T = 0..Len(s) BY <1>2, <1>3, <2>1, UpTo
  <2> QED BY <2>2
<1>5. Is(h, Len(s))
  <2>1. \E g : Is(g, Len(s)) BY <1>4
  <2> HIDE DEF Is
  <2> QED BY <2>1, Zenon
<1>6. PlanFold(l, docAt, x, s) = h[Len(s)] BY Zenon DEF PlanFold, Planned, Folded
<1>7. h[0] = x /\ \A k \in 1..Len(s) : h[k] = Planned(h[k - 1], s[k], l, docAt) BY <1>1, <1>5
<1> HIDE DEF h
<1> QED BY <1>6, <1>7 DEF PlanRun

-----------------------------------------------------------------------------
(* What a fold makes of no element and of one element more.                *)
LEMMA ReplayNothing == ASSUME NEW x PROVE Replay(x, <<>>) = x
<1>1. Len(<<>>) = 0 OBVIOUS
<1>2. PICK f : ReplayRun(f, x, <<>>) /\ Replay(x, <<>>) = f[Len(<<>>)] BY <1>1, ReplayRuns
<1> QED BY <1>1, <1>2 DEF ReplayRun

(* No intents make no unit.                                                *)
LEMMA GroupNothing == GroupUnits(<<>>) = <<>>
<1> DEFINE x == <<>>
           s == <<>>
<1>1. Len(s) = 0 OBVIOUS
<1>2. PICK f : JoinRun(f, x, s) /\ Folded(Join, x, s) = f[Len(s)] BY <1>1, JoinRuns
<1>3. Folded(Join, x, s) = x BY <1>1, <1>2 DEF JoinRun
<1> QED BY <1>3 DEF GroupUnits

(* One intent more joins the last unit or begins one (group_units).        *)
LEMMA GroupAppend ==
  ASSUME NEW B, NEW s \in Seq(B), NEW i \in B
  PROVE  GroupUnits(Append(s, i)) = Join(GroupUnits(s), i)
<1> DEFINE t == Append(s, i)
           x == <<>>
           n == Len(s)
<1>1. n \in Nat /\ Len(t) = n + 1 /\ t[n + 1] = i /\ \A k \in 1..n : t[k] = s[k] OBVIOUS
<1>2. Len(t) \in Nat /\ n \in 0..n /\ n + 1 \in 1..Len(t) /\ (n + 1) - 1 = n BY <1>1
<1>0. GroupUnits(s) = Folded(Join, x, s) /\ GroupUnits(t) = Folded(Join, x, t) BY DEF GroupUnits
<1> HIDE DEF t, x
<1>3. PICK f : JoinRun(f, x, s) /\ Folded(Join, x, s) = f[n] BY <1>1, JoinRuns
<1>4. PICK g : JoinRun(g, x, t) /\ Folded(Join, x, t) = g[Len(t)] BY <1>2, JoinRuns
<1> HIDE DEF n
<1>5. \A k \in 1..n : f[k - 1] = g[k - 1] => f[k] = g[k]
  <2> TAKE k \in 1..n
  <2>1. k \in 1..Len(t) /\ t[k] = s[k] BY <1>1
  <2>2. f[k] = Join(f[k - 1], s[k]) BY <1>3 DEF JoinRun, n
  <2>3. g[k] = Join(g[k - 1], t[k]) BY <1>4, <2>1 DEF JoinRun
  <2> QED BY <2>1, <2>2, <2>3
<1>6. f[0] = g[0] BY <1>3, <1>4 DEF JoinRun
<1>7. \A k \in 0..n : f[k] = g[k]
  <2>n. n \in Nat BY <1>1
  <2> DEFINE S == {k \in 0..n : f[k] = g[k]}
  <2>i1. 0 \in S BY <2>n, <1>6
  <2>i2. ASSUME NEW k \in S, k < n PROVE k + 1 \in S
    <3>1. k + 1 \in 1..n /\ k + 1 \in 0..n /\ (k + 1) - 1 = k BY <2>n, <2>i2
    <3>2. f[k] = g[k] OBVIOUS
    <3>3. f[k + 1] = g[k + 1] BY <1>5, <3>1, <3>2
    <3> QED BY <3>1, <3>3
  <2>i3. S = 0..n
    <3> S \in SUBSET (0..n) OBVIOUS
    <3> HIDE DEF S
    <3> QED BY <2>n, <2>i1, <2>i2, UpTo
  <2> QED BY <2>i3
<1>8. g[n + 1] = Join(g[n], t[n + 1]) BY <1>2, <1>4 DEF JoinRun
<1>9. f[n] = g[n] BY <1>2, <1>7
<1> QED BY <1>0, <1>1, <1>3, <1>4, <1>8, <1>9 DEF t

(* A batch of units is planned one after the other.                        *)
Start(l, docAt)        == [rows |-> <<>>, head |-> docAt[Len(l)], frame |-> NoFrame]
Plans(units, l, docAt) == PlanFold(l, docAt, Start(l, docAt), units)

(* plan_batch plans the units of the batch one after the other.            *)
LEMMA PlanIsPlans ==
  ASSUME NEW batch, NEW l, NEW docAt
  PROVE  PlanOver(batch, l, docAt) = Plans(GroupUnits(batch), l, docAt)
  BY DEF PlanOver, Plans, PlanFold, Start

(* No unit leaves the head of the log as it is.                            *)
LEMMA PlansNothing ==
  ASSUME NEW l, NEW docAt PROVE Plans(<<>>, l, docAt) = Start(l, docAt)
<1> DEFINE x == Start(l, docAt)
           s == <<>>
<1>1. Len(s) = 0 OBVIOUS
<1> HIDE DEF x, s
<1>2. PICK f : /\ PlanRun(f, l, docAt, x, s)
               /\ PlanFold(l, docAt, x, s) = f[Len(s)]
  BY <1>1, PlanRuns
<1>3. Plans(s, l, docAt) = f[Len(s)] BY <1>2 DEF Plans, x
<1>4. f[0] = x BY <1>2 DEF PlanRun
<1> QED BY <1>1, <1>3, <1>4 DEF x, s

(* One unit more is planned over what the units before it left.            *)
LEMMA PlansAppend ==
  ASSUME NEW B, NEW s \in Seq(B), NEW u \in B, NEW l, NEW docAt
  PROVE  Plans(Append(s, u), l, docAt) = Planned(Plans(s, l, docAt), u, l, docAt)
<1> DEFINE t == Append(s, u)
           x == Start(l, docAt)
           n == Len(s)
<1>1. n \in Nat /\ Len(t) = n + 1 /\ t[n + 1] = u /\ \A k \in 1..n : t[k] = s[k] OBVIOUS
<1>2. Len(t) \in Nat /\ n \in 0..n /\ n + 1 \in 1..Len(t) /\ (n + 1) - 1 = n BY <1>1
<1> HIDE DEF t, x
<1>3. PICK f : /\ PlanRun(f, l, docAt, x, s)
               /\ PlanFold(l, docAt, x, s) = f[n]
  BY <1>1, PlanRuns
<1>4. PICK g : /\ PlanRun(g, l, docAt, x, t)
               /\ PlanFold(l, docAt, x, t) = g[Len(t)]
  BY <1>2, PlanRuns
<1>0. Plans(s, l, docAt) = f[n] /\ Plans(t, l, docAt) = g[Len(t)] BY <1>3, <1>4 DEF Plans, x
<1>3a. PlanRun(f, l, docAt, x, s) BY <1>3
<1>4a. PlanRun(g, l, docAt, x, t) BY <1>4
<1> HIDE DEF n
<1>5. \A k \in 1..n : f[k - 1] = g[k - 1] => f[k] = g[k]
  <2> TAKE k \in 1..n
  <2>1. k \in 1..Len(t) /\ t[k] = s[k] BY <1>1
  <2>2. f[k] = Planned(f[k - 1], s[k], l, docAt) BY <1>3a DEF PlanRun, n
  <2>3. g[k] = Planned(g[k - 1], t[k], l, docAt) BY <1>4a, <2>1 DEF PlanRun
  <2> QED BY <2>1, <2>2, <2>3
<1>6. f[0] = g[0] BY <1>3a, <1>4a DEF PlanRun
<1>7. \A k \in 0..n : f[k] = g[k]
  <2>n. n \in Nat BY <1>1
  <2> DEFINE S == {k \in 0..n : f[k] = g[k]}
  <2>i1. 0 \in S BY <2>n, <1>6
  <2>i2. ASSUME NEW k \in S, k < n PROVE k + 1 \in S
    <3>1. k + 1 \in 1..n /\ k + 1 \in 0..n /\ (k + 1) - 1 = k BY <2>n, <2>i2
    <3>2. f[k] = g[k] OBVIOUS
    <3>3. f[k + 1] = g[k + 1] BY <1>5, <3>1, <3>2
    <3> QED BY <3>1, <3>3
  <2>i3. S = 0..n
    <3> S \in SUBSET (0..n) OBVIOUS
    <3> HIDE DEF S
    <3> QED BY <2>n, <2>i1, <2>i2, UpTo
  <2> QED BY <2>i3
<1>8. g[n + 1] = Planned(g[n], t[n + 1], l, docAt) BY <1>2, <1>4a DEF PlanRun
<1>9. f[n] = g[n] BY <1>2, <1>7
<1> QED BY <1>0, <1>1, <1>8, <1>9 DEF t

(* A unit with one member more, if the others are judged as before and     *)
(* nothing triggers its escalation.                                        *)
LEMMA SettleAppend ==
  ASSUME NEW B, NEW u \in Seq(B), NEW i \in B, NEW plan, NEW ju, NEW jt, NEW triggers,
         \A k \in 1..Len(u) : jt[k] = ju[k]
  PROVE  SettleUnit(plan, Append(u, i), jt, triggers)
           = SettleOne(SettleUnit(plan, u, ju, triggers), i, jt[Len(u) + 1], triggers)
<1> DEFINE t == Append(u, i)
           n == Len(u)
           a == [j \in DOMAIN u |-> j]
           b == [j \in DOMAIN t |-> j]
<1>1. /\ n \in Nat /\ Len(t) = n + 1 /\ DOMAIN u = 1..n /\ DOMAIN t = 1..(n + 1)
      /\ t[n + 1] = i /\ \A k \in 1..n : t[k] = u[k]
  OBVIOUS
<1>2. n \in 0..n /\ n + 1 \in 1..(n + 1) /\ (n + 1) - 1 = n /\ n + 1 \in Nat BY <1>1
<1>3. \A k \in 1..n : jt[k] = ju[k] OBVIOUS
<1> HIDE DEF t, n
<1>4. Len(a) = n /\ Len(b) = n + 1
  <2>1. \A m \in Nat : Len([j \in 1..m |-> j]) = m OBVIOUS
  <2>2. DOMAIN u = 1..n /\ DOMAIN t = 1..(n + 1) BY <1>1
  <2>3. a = [j \in 1..n |-> j] /\ b = [j \in 1..(n + 1) |-> j] BY <2>2, Zenon
  <2> QED BY <1>1, <1>2, <2>1, <2>3
<1>5. (\A k \in 1..n : a[k] = k) /\ (\A k \in 1..(n + 1) : b[k] = k) BY <1>1
<1>e. SettleUnit(plan, u, ju, triggers)
        = SettleFold(u, ju, triggers, plan, a)
  BY DEF SettleUnit, SettleFold
<1>g. SettleUnit(plan, t, jt, triggers)
        = SettleFold(t, jt, triggers, plan, b)
  BY DEF SettleUnit, SettleFold
<1> HIDE DEF a, b
<1>6. PICK f : /\ SettleRun(f, u, ju, triggers, plan, a)
               /\ SettleFold(u, ju, triggers, plan, a) = f[Len(a)]
  BY <1>1, <1>4, SettleRuns
<1>7. PICK g : /\ SettleRun(g, t, jt, triggers, plan, b)
               /\ SettleFold(t, jt, triggers, plan, b) = g[Len(b)]
  BY <1>2, <1>4, SettleRuns
<1>8. f[0] = plan /\ \A k \in 1..n : f[k] = SettleOne(f[k - 1], u[k], ju[k], triggers)
  BY <1>4, <1>5, <1>6 DEF SettleRun, Settled
<1>9. g[0] = plan /\ \A k \in 1..(n + 1) : g[k] = SettleOne(g[k - 1], t[k], jt[k], triggers)
  BY <1>4, <1>5, <1>7 DEF SettleRun, Settled
<1>10. \A k \in 1..n : f[k - 1] = g[k - 1] => f[k] = g[k]
  <2> TAKE k \in 1..n
  <2>1. k \in 1..(n + 1) /\ t[k] = u[k] /\ jt[k] = ju[k] BY <1>1, <1>3
  <2> QED BY <1>8, <1>9, <2>1
<1>11. \A k \in 0..n : f[k] = g[k]
  <2>1. n \in Nat BY <1>1
  <2>2. f[0] = g[0] BY <1>8, <1>9
  <2> DEFINE S == {k \in 0..n : f[k] = g[k]}
  <2>3. 0 \in S BY <2>1, <2>2
  <2>4. ASSUME NEW k \in S, k < n PROVE k + 1 \in S
    <3>1. k + 1 \in 1..n /\ k + 1 \in 0..n /\ (k + 1) - 1 = k BY <2>1, <2>4
    <3>2. f[k] = g[k] OBVIOUS
    <3>3. f[k + 1] = g[k + 1] BY <1>10, <3>1, <3>2
    <3> QED BY <3>1, <3>3
  <2>5. S = 0..n
    <3> S \in SUBSET (0..n) OBVIOUS
    <3> HIDE DEF S
    <3> QED BY <2>1, <2>3, <2>4, UpTo
  <2> QED BY <2>5
<1>12. f[n] = g[n] BY <1>2, <1>11
<1>13. g[n + 1] = SettleOne(g[n], i, jt[n + 1], triggers) BY <1>1, <1>2, <1>9
<1>14. SettleUnit(plan, u, ju, triggers) = f[n] /\ SettleUnit(plan, t, jt, triggers) = g[n + 1]
  BY <1>e, <1>g, <1>4, <1>6, <1>7
<1> QED BY <1>12, <1>13, <1>14 DEF t, n

(* A unit of no intents settles nothing.                                   *)
LEMMA SettleNothing ==
  ASSUME NEW plan, NEW ju, NEW triggers PROVE SettleUnit(plan, <<>>, ju, triggers) = plan
<1> DEFINE u == <<>>
           a == [j \in DOMAIN u |-> j]
<1>1. Len(a) = 0 OBVIOUS
<1>e. SettleUnit(plan, u, ju, triggers)
        = SettleFold(u, ju, triggers, plan, a)
  BY DEF SettleUnit, SettleFold
<1> HIDE DEF a, u
<1>2. PICK f : /\ SettleRun(f, u, ju, triggers, plan, a)
               /\ SettleFold(u, ju, triggers, plan, a) = f[Len(a)]
  BY <1>1, SettleRuns
<1>3. f[0] = plan BY <1>2 DEF SettleRun
<1> QED BY <1>e, <1>1, <1>2, <1>3 DEF u

-----------------------------------------------------------------------------
(* What an intent is made of; one of tab t that its copy of n entries can  *)
(* be the base of.                                                         *)
Parts == {"id", "actor", "base", "txn", "type", "block", "field", "start", "end", "to", "saw"}
Shaped(i)         == i = [x \in Parts |-> i[x]]
IntentOK(i, t, n) == Shaped(i) /\ i.actor = t /\ i.base \in 0..n

(* The positions on record in a frame are those of entries.                *)
Bounded(frame, n) ==
  /\ DOMAIN frame = {"applied", "phantom", "broken"}
  /\ \A x \in frame.phantom \cup frame.broken : x[2] \in (-1)..(n - 1)

(* The unit an intent is of changes nothing of what it does.               *)
LEMMA SameButUnit ==
  ASSUME NEW i, Shaped(i), NEW u
  PROVE  LET j == [i EXCEPT !.txn = u]
         IN /\ Shaped(j) /\ j.id = i.id /\ j.actor = i.actor /\ j.base = i.base /\ j.txn = u
            /\ \A doc : Takes(doc, j) = Takes(doc, i) /\ ApplyIntent(doc, j) = ApplyIntent(doc, i)
<1> DEFINE j == [i EXCEPT !.txn = u]
<1>1. /\ j.id = i.id /\ j.actor = i.actor /\ j.base = i.base /\ j.txn = u /\ j.type = i.type
      /\ j.block = i.block /\ j.field = i.field /\ j.start = i.start /\ j.end = i.end
      /\ j.to = i.to /\ j.saw = i.saw /\ Shaped(j)
  BY DEF Shaped, Parts
<1> HIDE DEF j
<1>3. ASSUME NEW doc PROVE Takes(doc, j) = Takes(doc, i)
  BY <1>1 DEF Takes
<1>4. ASSUME NEW doc PROVE Effect(doc, j) = Effect(doc, i)
  BY <1>1 DEF Effect
<1>5. ASSUME NEW doc PROVE ApplyIntent(doc, j) = ApplyIntent(doc, i)
  BY <1>3, <1>4 DEF ApplyIntent
<1> QED BY <1>1, <1>3, <1>5 DEF j

(* A set of numbers within bounds has a least and a greatest one.          *)
LEMMA LeastWithin ==
  ASSUME NEW lo \in Int, NEW hi \in Int, NEW S \in SUBSET (lo..hi), S # {}
  PROVE  Least(S) \in S
<1> DEFINE T == {k \in Nat : k + lo \in S}
<1>1. T # {}
  <2> PICK x \in S : TRUE OBVIOUS
  <2> x - lo \in Nat /\ (x - lo) + lo = x OBVIOUS
  <2> QED OBVIOUS
<1>2. PICK m \in T : \A y \in T : ~(y < m)
  <2> T \in SUBSET Nat OBVIOUS
  <2> HIDE DEF T
  <2> QED BY <1>1, LeastNumber
<1>3. ASSUME NEW y \in S PROVE m + lo <= y
  <2> y - lo \in Nat /\ (y - lo) + lo = y OBVIOUS
  <2> y - lo \in T OBVIOUS
  <2> ~(y - lo < m) BY <1>2
  <2> QED OBVIOUS
<1>4. m + lo \in S OBVIOUS
<1>5. \E x \in S : \A y \in S : x <= y BY <1>3, <1>4
<1> QED BY <1>5 DEF Least

(* The last of some sequence numbers is one of them.                       *)
LEMMA GreatestWithin ==
  ASSUME NEW lo \in Int, NEW hi \in Int, NEW S \in SUBSET (lo..hi), S # {}
  PROVE  Greatest(S) \in S
<1> DEFINE T == {k \in Nat : hi - k \in S}
<1>1. T # {}
  <2> PICK x \in S : TRUE OBVIOUS
  <2> hi - x \in Nat /\ hi - (hi - x) = x OBVIOUS
  <2> QED OBVIOUS
<1>2. PICK m \in T : \A y \in T : ~(y < m)
  <2> T \in SUBSET Nat OBVIOUS
  <2> HIDE DEF T
  <2> QED BY <1>1, LeastNumber
<1>3. ASSUME NEW y \in S PROVE y <= hi - m
  <2> hi - y \in Nat /\ hi - (hi - y) = y OBVIOUS
  <2> hi - y \in T OBVIOUS
  <2> ~(hi - y < m) BY <1>2
  <2> QED OBVIOUS
<1>4. hi - m \in S OBVIOUS
<1>5. \E x \in S : \A y \in S : y <= x BY <1>3, <1>4
<1> QED BY <1>5 DEF Greatest

(* The first and the last of some sequence numbers are among them, if any  *)
(* are.                                                                    *)
LEMMA EndsWithin ==
  ASSUME NEW lo \in Int, NEW hi \in Int, NEW S \in SUBSET (lo..hi)
  PROVE  Lowest(S) \in SUBSET (lo..hi) /\ Highest(S) \in SUBSET (lo..hi)
  BY LeastWithin, GreatestWithin DEF Lowest, Highest

(* A frame rule settles an intent at an entry after its base; so one that  *)
(* is based on the head of the log is settled by none.                     *)
LEMMA RemoteWithin ==
  ASSUME NEW n \in Nat, NEW l, Len(l) = n, NEW i, NEW key
  PROVE  RemoteWrites(i, key, l) \in SUBSET (i.base..(n - 1))
  BY DEF RemoteWrites

(* A frame conflict lies between the base of the intent and the head.      *)
LEMMA FrameWithin ==
  ASSUME NEW n \in Nat, NEW l, Len(l) = n, NEW i, i.base \in 0..n,
         NEW frame, Bounded(frame, n)
  PROVE  FrameEscalation(frame, i, l) \in SUBSET (i.base..(n - 1))
<1> DEFINE R == SUBSET (i.base..(n - 1))
           targets == RequiredTargets(i)
           reads == FrameReads(i)
           a == [k \in DOMAIN targets |-> BrokenAt(frame, i, targets[k])]
           b == [k \in DOMAIN reads |-> FrameAt(frame, i, reads[k], l)]
           found == a \o b
           some == {k \in DOMAIN found : found[k] # {}}
<1>0. i.base \in Int /\ n - 1 \in Int /\ {} \in R OBVIOUS
<1>1. \A x \in frame.phantom \cup frame.broken : x[2] \in (-1)..(n - 1) BY DEF Bounded
<1>2. ASSUME NEW id PROVE BrokenAt(frame, i, id) \in R
  <2> DEFINE S == {x[2] : x \in {y \in frame.broken : y[1] = id /\ i.base <= y[2]}}
  <2>1. S \in SUBSET (i.base..(n - 1)) BY <1>0, <1>1
  <2>2. BrokenAt(frame, i, id) = Highest(S) BY DEF BrokenAt
  <2> HIDE DEF S
  <2> QED BY <1>0, <2>1, <2>2, EndsWithin, ZenonT(60)
<1>3. ASSUME NEW key PROVE FrameAt(frame, i, key, l) \in R
  <2> DEFINE S == Phantoms(frame, i, key)
  <2>1. S \in SUBSET (i.base..(n - 1)) BY <1>0, <1>1 DEF Phantoms
  <2>2. RemoteWrites(i, key, l) \in SUBSET (i.base..(n - 1)) BY RemoteWithin
  <2> HIDE DEF S
  <2>3. Highest(S) \in R /\ Lowest(RemoteWrites(i, key, l)) \in R BY <1>0, <2>1, <2>2, EndsWithin
  <2> HIDE DEF R
  <2> QED BY <1>0, <2>3 DEF FrameAt, First, S
<1>e. \A x, y : <<>> \in Seq({x, y}) /\ <<x>> \in Seq({x, y}) /\ <<x, y>> \in Seq({x, y})
  OBVIOUS
<1>4. targets \in Seq({i.block, i.to})
  <2>1. targets = <<>> \/ targets = <<i.block, i.to>> \/ targets = <<i.block>>
    BY DEF RequiredTargets
  <2> HIDE DEF targets
  <2> QED BY <1>e, <2>1, Zenon
<1>5. reads \in Seq({<<i.block, i.field>>, <<i.to, Whole>>})
  <2> DEFINE x == <<i.block, i.field>>
             y == <<i.to, Whole>>
  <2>1. reads = <<>> \/ reads = <<x>> \/ reads = <<x, y>> BY DEF FrameReads
  <2> HIDE DEF reads, x, y
  <2>2. reads \in Seq({x, y}) BY <1>e, <2>1, Zenon
  <2> QED BY <2>2 DEF x, y
<1> HIDE DEF R, targets, reads
<1>6. a \in Seq(R) BY <1>2, <1>4
<1>7. b \in Seq(R) BY <1>3, <1>5
<1> HIDE DEF a, b
<1>8. found \in Seq(R) /\ Len(found) \in Nat /\ DOMAIN found = 1..Len(found) BY <1>6, <1>7
<1>9. \A k \in some : found[k] \in R BY <1>8
<1>10. some \in SUBSET (1..Len(found)) BY <1>8
<1> HIDE DEF found, some
<1>11. some # {} => Least(some) \in some
  <2>1. 1 \in Int /\ Len(found) \in Int BY <1>8
  <2> QED BY <1>10, <2>1, LeastWithin
<1>12. FrameEscalation(frame, i, l) = IF some = {} THEN {} ELSE found[Least(some)]
  BY DEF FrameEscalation, some, found, a, b, targets, reads
<1>13. FrameEscalation(frame, i, l) \in R BY <1>0, <1>9, <1>11, <1>12 DEF R
<1> QED BY <1>13 DEF R

(* So does a conflict with an intent of the same unit.                     *)
LEMMA UnitWithin ==
  ASSUME NEW n \in Nat, NEW l, Len(l) = n, NEW unit, NEW j, unit[j].base \in 0..n
  PROVE  IntraUnitConflict(unit, j, l) \in SUBSET (unit[j].base..(n - 1))
<1> DEFINE S == UNION {RemoteWrites(unit[j], key, l) : key \in OwnReads(unit, j)}
<1>1. \A key : RemoteWrites(unit[j], key, l) \in SUBSET (unit[j].base..(n - 1)) BY RemoteWithin
<1>2. S \in SUBSET (unit[j].base..(n - 1)) BY <1>1
<1>3. unit[j].base \in Int /\ n - 1 \in Int OBVIOUS
<1> HIDE DEF S
<1>4. Lowest(S) \in SUBSET (unit[j].base..(n - 1)) BY <1>2, <1>3, EndsWithin
<1> QED BY <1>4 DEF IntraUnitConflict, S

(* A transform leaves an intent its author's and keeps its base.           *)
LEMMA TransformKeeps ==
  ASSUME NEW i, Shaped(i), NEW p, NEW doc
  PROVE  LET j == TransformOver(i, p, doc).intent
         IN Shaped(j) /\ j.actor = i.actor /\ j.base = i.base
<1> DEFINE Same(j) == Shaped(j) /\ j.actor = i.actor /\ j.base = i.base
<1>1. Same(i) OBVIOUS
<1>2. Same(Clean(i).intent) /\ Same(Escalate(i).intent) /\ Same(VoidOut(i).intent)
  BY <1>1 DEF Clean, Escalate, VoidOut
<1>3. ASSUME NEW x, NEW y PROVE Same([i EXCEPT !.start = x, !.end = y])
  BY DEF Shaped, Parts
<1>4. ASSUME NEW b, NEW x, NEW y PROVE Same([i EXCEPT !.block = b, !.start = x, !.end = y])
  BY DEF Shaped, Parts
<1> HIDE DEF Same
<1>5. \A b, by : Same(MoveTo(i, b, by).intent)
  BY <1>4 DEF MoveTo, Clean
<1>6. Same(OverRemove(i, p, doc).intent) BY <1>2 DEF OverRemove
<1>7. Same(OverSplit(i, p).intent) BY <1>2, <1>5 DEF OverSplit
<1>8. Same(OverMerge(i, p, doc).intent) BY <1>2, <1>5 DEF OverMerge, AbsorbedText
<1>9. Same(OverInsert(i, p).intent) BY <1>2, <1>5 DEF OverInsert
<1>10. Same(OverDestroy(i, p).intent)
  <2>1. \A x, y : Same(Clean([i EXCEPT !.start = x, !.end = y]).intent) BY <1>3 DEF Clean
  <2>2. Same(PointOverDestroy(i, p).intent) BY <1>2, <2>1 DEF PointOverDestroy
  <2>3. Same(RangeOverDestroy(i, p).intent) BY <1>2, <2>1 DEF RangeOverDestroy
  <2> QED BY <1>2, <2>2, <2>3 DEF OverDestroy
<1>11. Same(OverRewrite(i, p).intent) /\ Same(OverRegister(i, p).intent)
  BY <1>2 DEF OverRewrite, OverRegister
<1>12. Same(TransformOne(i, p, doc).intent)
  BY <1>2, <1>6, <1>7, <1>8, <1>9, <1>10, <1>11, Zenon DEF TransformOne
<1>13. Same(TransformOver(i, p, doc).intent) BY <1>2, <1>12 DEF TransformOver
<1> QED BY <1>13 DEF Same

-----------------------------------------------------------------------------
(* An intent is judged at an entry after its base, and stays its author's. *)
LEMMA JudgeWithin ==
  ASSUME NEW E, NEW l \in Seq(E), NEW t, NEW i, IntentOK(i, t, Len(l)), NEW docAt,
         NEW conflict \in SUBSET (i.base..(Len(l) - 1))
  PROVE  LET r == Judge(i, conflict, l, docAt)
         IN r.at \in (-1)..(Len(l) - 1) /\ IntentOK(r.intent, t, Len(l))
<1> DEFINE n == Len(l)
           r == Judge(i, conflict, l, docAt)
           slice == SubSeq(l, i.base + 1, n)
           x == Past(Clean(i), i.base - 1, docAt[i.base])
<1>1. n \in Nat /\ i.base \in 0..n /\ Shaped(i) /\ i.actor = t BY DEF IntentOK
<1>2. CASE conflict # {}
  <2>1. i.base \in Int /\ n - 1 \in Int BY <1>1
  <2>2. Least(conflict) \in conflict BY <1>2, <2>1, LeastWithin
  <2>3. r = Past(Escalate(i), Least(conflict), docAt[i.base]) BY <1>2 DEF Judge
  <2>4. r.at = Least(conflict) /\ r.intent = i BY <2>3 DEF Past, Escalate
  <2> QED BY <1>1, <2>2, <2>4
<1>3. CASE conflict = {}
  <2>1. Len(slice) = n - i.base /\ Len(slice) \in Nat BY <1>1
  <2>2. r = Folded(RebaseOver, x, slice) BY <1>3 DEF Judge, Rebase
  <2>3. x.at = i.base - 1 /\ x.intent = i BY DEF Past, Clean
  <2> HIDE DEF slice, x
  <2>4. PICK f : RebaseRun(f, x, slice) /\ Folded(RebaseOver, x, slice) = f[Len(slice)]
    BY <2>1, RebaseRuns
  <2> DEFINE m == Len(slice)
             S == {k \in 0..m : /\ f[k].at \in (i.base - 1)..(i.base - 1 + k)
                                /\ Shaped(f[k].intent) /\ f[k].intent.actor = t
                                /\ f[k].intent.base = i.base}
  <2>5. 0 \in S BY <1>1, <2>1, <2>3, <2>4 DEF RebaseRun
  <2>6. ASSUME NEW k \in S, k < m PROVE k + 1 \in S
    <3>1. k + 1 \in 1..m /\ (k + 1) - 1 = k /\ k \in Nat BY <2>1, <2>6
    <3>2. f[k + 1] = RebaseOver(f[k], slice[k + 1]) BY <2>4, <3>1 DEF RebaseRun
    <3> DEFINE j == TransformOver(f[k].intent, slice[k + 1], f[k].doc).intent
    <3>3. Shaped(f[k].intent) /\ f[k].intent.actor = t /\ f[k].intent.base = i.base
          /\ f[k].at \in (i.base - 1)..(i.base - 1 + k)
      OBVIOUS
    <3>4. Shaped(j) /\ j.actor = t /\ j.base = i.base
      BY <3>3, TransformKeeps
    <3>5. \/ f[k + 1] = f[k]
          \/ f[k + 1].at = f[k].at + 1 /\ f[k + 1].intent = j
      BY <3>2 DEF RebaseOver, Past
    <3> HIDE DEF j
    <3>6. f[k + 1].at \in (i.base - 1)..(i.base - 1 + (k + 1)) BY <1>1, <3>1, <3>3, <3>5, SMTT(30)
    <3>7. Shaped(f[k + 1].intent) /\ f[k + 1].intent.actor = t /\ f[k + 1].intent.base = i.base
      BY <3>3, <3>4, <3>5
    <3>8. k + 1 \in 0..m BY <2>1, <3>1
    <3> QED BY <3>6, <3>7, <3>8
  <2>7. m \in S
    <3>1. S \in SUBSET (0..m) OBVIOUS
    <3> HIDE DEF S
    <3>2. S = 0..m BY <2>1, <2>5, <2>6, <3>1, UpTo
    <3> QED BY <2>1, <3>2
  <2>8. r = f[m] BY <2>2, <2>4
  <2> HIDE DEF r
  <2>9. r.at \in (-1)..(n - 1) /\ IntentOK(r.intent, t, n)
    BY <1>1, <2>1, <2>7, <2>8 DEF IntentOK
  <2> QED BY <2>9 DEF r
<1> QED BY <1>2, <1>3

(* An intent based on the head of the log meets nothing on its way.        *)
LEMMA JudgeAtHead ==
  ASSUME NEW E, NEW l \in Seq(E), NEW i, i.base = Len(l), NEW docAt
  PROVE  Judge(i, {}, l, docAt) = Past(Clean(i), Len(l) - 1, docAt[Len(l)])
<1> DEFINE slice == SubSeq(l, i.base + 1, Len(l))
           x == Past(Clean(i), i.base - 1, docAt[i.base])
<1>1. Len(slice) = 0 OBVIOUS
<1>2. Judge(i, {}, l, docAt) = Folded(RebaseOver, x, slice) BY DEF Judge, Rebase
<1> HIDE DEF slice
<1>x. PICK y : y = x OBVIOUS
<1>3. PICK f : RebaseRun(f, y, slice) /\ Folded(RebaseOver, y, slice) = f[Len(slice)]
  BY <1>1, RebaseRuns
<1>4. f[0] = y BY <1>3 DEF RebaseRun
<1> QED BY <1>1, <1>2, <1>3, <1>4, <1>x

(* And so does the one that is reported.                                   *)
LEMMA ConflictsWithin ==
  ASSUME NEW n \in Nat, NEW l, Len(l) = n, NEW frame, Bounded(frame, n),
         NEW unit, NEW j, unit[j].base \in 0..n
  PROVE  First(FrameEscalation(frame, unit[j], l), IntraUnitConflict(unit, j, l))
           \in SUBSET (unit[j].base..(n - 1))
  BY FrameWithin, UnitWithin DEF First

(* The members of a unit are judged at entries of the log, and a trigger   *)
(* is one of these; the members of a unit at the head have none.           *)
LEMMA UnitJudged ==
  ASSUME NEW E, NEW l \in Seq(E), NEW t, NEW B, \A i \in B : IntentOK(i, t, Len(l)),
         NEW unit \in Seq(B), NEW frame, Bounded(frame, Len(l)), NEW docAt
  PROVE  LET judged == JudgeAll(frame, unit, l, docAt)
         IN /\ \A j \in 1..Len(unit) : /\ judged[j].at \in (-1)..(Len(l) - 1)
                                       /\ IntentOK(judged[j].intent, t, Len(l))
            /\ Triggers(judged) \in SUBSET ((-1)..(Len(l) - 1))
<1> DEFINE judged == JudgeAll(frame, unit, l, docAt)
           conflict(j) == First(FrameEscalation(frame, unit[j], l), IntraUnitConflict(unit, j, l))
<1>0. Len(l) \in Nat OBVIOUS
<1>1. DOMAIN unit = 1..Len(unit) /\ \A j \in 1..Len(unit) : unit[j] \in B OBVIOUS
<1>2. DOMAIN judged = 1..Len(unit) BY <1>1 DEF JudgeAll
<1>3. ASSUME NEW j \in 1..Len(unit)
      PROVE  judged[j].at \in (-1)..(Len(l) - 1) /\ IntentOK(judged[j].intent, t, Len(l))
  <2>1. judged[j] = Judge(unit[j], conflict(j), l, docAt) BY <1>1 DEF JudgeAll
  <2>2. IntentOK(unit[j], t, Len(l)) BY <1>1
  <2>3. unit[j].base \in 0..Len(l) BY <2>2 DEF IntentOK
  <2>4. conflict(j) \in SUBSET (unit[j].base..(Len(l) - 1)) BY <1>0, <2>3, ConflictsWithin
  <2> HIDE DEF conflict, judged
  <2> QED BY <2>1, <2>2, <2>4, JudgeWithin
<1> HIDE DEF judged
<1>4. Triggers(judged) \in SUBSET ((-1)..(Len(l) - 1)) BY <1>2, <1>3 DEF Triggers, ToSet
<1> QED BY <1>3, <1>4 DEF judged

(* Nothing has landed since the base of a unit authored at the head: each  *)
(* of its intents is judged clean, and nothing sets the unit aside.        *)
LEMMA UnitAtHead ==
  ASSUME NEW E, NEW l \in Seq(E), NEW B, \A i \in B : i.base = Len(l),
         NEW unit \in Seq(B), NEW frame, Bounded(frame, Len(l)), NEW docAt
  PROVE  LET judged == JudgeAll(frame, unit, l, docAt)
         IN /\ \A j \in 1..Len(unit) :
                 judged[j] = Past(Clean(unit[j]), Len(l) - 1, docAt[Len(l)])
            /\ Triggers(judged) = {}
<1> DEFINE judged == JudgeAll(frame, unit, l, docAt)
           conflict(j) == First(FrameEscalation(frame, unit[j], l), IntraUnitConflict(unit, j, l))
<1>0. Len(l) \in Nat OBVIOUS
<1>1. DOMAIN unit = 1..Len(unit) /\ \A j \in 1..Len(unit) : unit[j] \in B OBVIOUS
<1>2. DOMAIN judged = 1..Len(unit) BY <1>1 DEF JudgeAll
<1>3. ASSUME NEW j \in 1..Len(unit)
      PROVE  judged[j] = Past(Clean(unit[j]), Len(l) - 1, docAt[Len(l)])
  <2>1. judged[j] = Judge(unit[j], conflict(j), l, docAt) BY <1>1 DEF JudgeAll
  <2>2. unit[j].base = Len(l) BY <1>1
  <2>3. unit[j].base \in 0..Len(l) BY <1>0, <2>2
  <2>4. conflict(j) \in SUBSET (unit[j].base..(Len(l) - 1)) BY <1>0, <2>3, ConflictsWithin
  <2> HIDE DEF conflict, judged
  <2>5. conflict(j) = {} BY <1>0, <2>2, <2>4
  <2> QED BY <2>1, <2>2, <2>5, JudgeAtHead
<1> HIDE DEF judged
<1>4. ASSUME NEW j \in 1..Len(unit) PROVE judged[j].outcome = "clean"
  <2>1. \A i, at, doc : Past(Clean(i), at, doc).outcome = "clean" BY DEF Past, Clean
  <2> QED BY <1>3, <2>1
<1>5. Triggers(judged) = {} BY <1>2, <1>4 DEF Triggers, ToSet
<1> QED BY <1>3, <1>5 DEF judged

-----------------------------------------------------------------------------
(* A sequence of whatever.                                                 *)
Listed(s) == s \in Seq(ToSet(s))

(* A list and one element more.                                            *)
LEMMA ListedAppend ==
  ASSUME NEW s, Listed(s), NEW e
  PROVE  LET t == Append(s, e)
         IN /\ Listed(t) /\ Len(t) = Len(s) + 1 /\ Len(s) \in Nat /\ t[Len(s) + 1] = e
            /\ \A k \in 1..Len(s) : t[k] = s[k]
<1> DEFINE t == Append(s, e)
           S == ToSet(s) \cup {e}
<1>1. s \in Seq(S) /\ e \in S BY DEF Listed
<1> HIDE DEF S
<1>2. /\ t \in Seq(S) /\ Len(t) = Len(s) + 1 /\ Len(s) \in Nat /\ t[Len(s) + 1] = e
      /\ \A k \in 1..Len(s) : t[k] = s[k]
  BY <1>1
<1> HIDE DEF t
<1>3. Listed(t)
  <2>1. \A k \in 1..Len(t) : t[k] \in ToSet(t)
    <3>1. DOMAIN t = 1..Len(t) BY <1>2
    <3> QED BY <3>1 DEF ToSet
  <2>2. t \in Seq(ToSet(t)) BY <1>2, <2>1
  <2> QED BY <2>2 DEF Listed
<1> QED BY <1>2, <1>3 DEF t

(* A sequence over any set is a list.                                      *)
LEMMA ListedSeq ==
  ASSUME NEW S, NEW s \in Seq(S) PROVE Listed(s)
<1>1. DOMAIN s = 1..Len(s) OBVIOUS
<1>2. \A k \in 1..Len(s) : s[k] \in ToSet(s) BY <1>1 DEF ToSet
<1>3. s \in Seq(ToSet(s)) BY <1>2
<1> QED BY <1>3 DEF Listed

(* A list and another after it.                                            *)
LEMMA ListedConcat ==
  ASSUME NEW s, Listed(s), NEW u, Listed(u)
  PROVE  /\ Listed(s \o u) /\ Len(s \o u) = Len(s) + Len(u)
         /\ Len(s) \in Nat /\ Len(u) \in Nat
         /\ \A k \in 1..Len(s) : (s \o u)[k] = s[k]
         /\ \A k \in 1..Len(u) : (s \o u)[Len(s) + k] = u[k]
<1> DEFINE t == s \o u
           S == ToSet(s) \cup ToSet(u)
<1>1. s \in Seq(S) /\ u \in Seq(S) BY DEF Listed
<1> HIDE DEF S
<1>2. /\ t \in Seq(S) /\ Len(t) = Len(s) + Len(u) /\ Len(s) \in Nat /\ Len(u) \in Nat
      /\ \A k \in 1..Len(s) : t[k] = s[k]
      /\ \A k \in 1..Len(u) : t[Len(s) + k] = u[k]
  BY <1>1
<1> HIDE DEF t
<1>3. Listed(t) BY <1>2, ListedSeq
<1> QED BY <1>2, <1>3 DEF t

(* The rows of a plan carry the statuses the code has and accept intents   *)
(* of the batch's author based on entries of the log.                      *)
RowOK(row, t, n) ==
  /\ row.status \in Statuses
  /\ \/ row.accepted = <<>>
     \/ \E i : row.accepted = <<i>> /\ IntentOK(i, t, n)

PlanOK(plan, t, n) ==
  /\ DOMAIN plan = {"rows", "head", "frame"}
  /\ Listed(plan.rows) /\ \A k \in 1..Len(plan.rows) : RowOK(plan.rows[k], t, n)
  /\ Bounded(plan.frame, n)

(* What the planner records of an outcome is of entries of the log.        *)
LEMMA RecordBounded ==
  ASSUME NEW n \in Nat, NEW frame, Bounded(frame, n), NEW i, NEW at, NEW applied \in BOOLEAN,
         ~applied => at \in (-1)..(n - 1)
  PROVE  Bounded(RecordFrameOutcome(frame, i, applied, at), n)
<1> DEFINE W == FrameWrites(i)
           C == CreatedIds(i)
<1> HIDE DEF W, C
<1>1. CASE applied
  <2>1. RecordFrameOutcome(frame, i, applied, at) = [frame EXCEPT !.applied = @ \cup W]
    BY <1>1 DEF RecordFrameOutcome, W
  <2> QED BY <2>1 DEF Bounded
<1>2. CASE ~applied
  <2> DEFINE g == [frame EXCEPT !.phantom = @ \cup (W \X {at}), !.broken = @ \cup (C \X {at})]
  <2>1. RecordFrameOutcome(frame, i, applied, at) = g
    BY <1>2 DEF RecordFrameOutcome, W, C
  <2>2. /\ g.phantom = frame.phantom \cup (W \X {at}) /\ g.broken = frame.broken \cup (C \X {at})
        /\ DOMAIN g = DOMAIN frame
    BY DEF Bounded
  <2>3. \A x \in g.phantom \cup g.broken : x[2] \in (-1)..(n - 1) BY <1>2, <2>2 DEF Bounded
  <2> HIDE DEF g
  <2> QED BY <2>1, <2>2, <2>3 DEF Bounded
<1> QED BY <1>1, <1>2

(* Settling an intent adds one row of the same author.                     *)
LEMMA SettleOneKeeps ==
  ASSUME NEW n \in Nat, NEW t, NEW plan, PlanOK(plan, t, n), NEW i,
         NEW r, r.at \in (-1)..(n - 1), IntentOK(r.intent, t, n),
         NEW triggers \in SUBSET ((-1)..(n - 1))
  PROVE  /\ PlanOK(SettleOne(plan, i, r, triggers), t, n)
         /\ Len(SettleOne(plan, i, r, triggers).rows) = Len(plan.rows) + 1
<1> DEFINE next == SettleOne(plan, i, r, triggers)
           at == IF triggers = {} THEN r.at ELSE Least(triggers)
           ok == triggers = {} /\ r.outcome = "clean"
           status == IF Takes(plan.head, r.intent) THEN "applied" ELSE "voided"
           row == IF ok THEN Row(i, status, <<r.intent>>)
                  ELSE Row(i, IF triggers = {} THEN "voided" ELSE "escalated", <<>>)
<1>1. Listed(plan.rows) /\ Bounded(plan.frame, n) /\ DOMAIN plan = {"rows", "head", "frame"}
      /\ \A k \in 1..Len(plan.rows) : RowOK(plan.rows[k], t, n)
  BY DEF PlanOK
<1>2. at \in (-1)..(n - 1)
  <2>1. -1 \in Int /\ n - 1 \in Int OBVIOUS
  <2>2. triggers # {} => Least(triggers) \in triggers BY <2>1, LeastWithin
  <2> QED BY <2>2
<1>3. RowOK(row, t, n) BY DEF RowOK, Row, Statuses
<1>4. /\ DOMAIN next = {"rows", "head", "frame"} /\ next.rows = Append(plan.rows, row)
      /\ next.frame = IF ok THEN RecordFrameOutcome(plan.frame, i, TRUE, r.at)
                      ELSE RecordFrameOutcome(plan.frame, i, FALSE, at)
  <2>1. CASE ok BY <2>1 DEF SettleOne
  <2>2. CASE ~ok BY <1>1, <2>2 DEF SettleOne
  <2> QED BY <2>1, <2>2
<1> HIDE DEF next, row, at, ok
<1>5. Bounded(next.frame, n) BY <1>1, <1>2, <1>4, RecordBounded
<1>6. /\ Listed(next.rows) /\ Len(next.rows) = Len(plan.rows) + 1 /\ Len(plan.rows) \in Nat
      /\ next.rows[Len(plan.rows) + 1] = row
      /\ \A k \in 1..Len(plan.rows) : next.rows[k] = plan.rows[k]
  BY <1>1, <1>4, ListedAppend
<1>7. \A k \in 1..Len(next.rows) : RowOK(next.rows[k], t, n)
  <2> TAKE k \in 1..Len(next.rows)
  <2>1. k \in 1..Len(plan.rows) \/ k = Len(plan.rows) + 1 BY <1>6
  <2> QED BY <1>1, <1>3, <1>6, <2>1
<1>8. PlanOK(next, t, n) BY <1>4, <1>5, <1>6, <1>7 DEF PlanOK
<1> QED BY <1>6, <1>8 DEF next

(* A unit makes one row of each of its members.                            *)
LEMMA PlanUnitKeeps ==
  ASSUME NEW E, NEW l \in Seq(E), NEW t, NEW B, \A i \in B : IntentOK(i, t, Len(l)),
         NEW unit \in Seq(B), NEW docAt, NEW plan, PlanOK(plan, t, Len(l))
  PROVE  /\ PlanOK(Planned(plan, unit, l, docAt), t, Len(l))
         /\ Len(Planned(plan, unit, l, docAt).rows) = Len(plan.rows) + Len(unit)
<1> DEFINE n == Len(l)
           m == Len(unit)
           judged == JudgeAll(plan.frame, unit, l, docAt)
           triggers == Triggers(judged)
           a == [j \in DOMAIN unit |-> j]
<1>1. n \in Nat /\ m \in Nat /\ DOMAIN unit = 1..m OBVIOUS
<1>2. Bounded(plan.frame, n) /\ Listed(plan.rows) BY DEF PlanOK
<1>3. /\ \A j \in 1..m : judged[j].at \in (-1)..(n - 1) /\ IntentOK(judged[j].intent, t, n)
      /\ triggers \in SUBSET ((-1)..(n - 1))
  BY <1>2, UnitJudged
<1>4. Planned(plan, unit, l, docAt) = SettleFold(unit, judged, triggers, plan, a)
  BY DEF Planned, PlanUnit, SettleUnit, SettleFold
<1>5. Len(a) = m /\ \A k \in 1..m : a[k] = k
  <2>1. \A q \in Nat : Len([j \in 1..q |-> j]) = q OBVIOUS
  <2>2. a = [j \in 1..m |-> j] BY <1>1, Zenon
  <2> QED BY <1>1, <2>1, <2>2
<1> HIDE DEF judged, triggers, a
<1>6. PICK f : /\ SettleRun(f, unit, judged, triggers, plan, a)
               /\ SettleFold(unit, judged, triggers, plan, a) = f[Len(a)]
  BY <1>1, <1>5, SettleRuns
<1>7. f[0] = plan /\ \A k \in 1..m : f[k] = SettleOne(f[k - 1], unit[k], judged[k], triggers)
  BY <1>5, <1>6 DEF SettleRun, Settled
<1>8. Len(plan.rows) \in Nat BY <1>2 DEF Listed
<1>t. triggers \in SUBSET ((-1)..(n - 1)) BY <1>3
<1>s. \A p, i, r : PlanOK(p, t, n) /\ r.at \in (-1)..(n - 1) /\ IntentOK(r.intent, t, n)
        => /\ PlanOK(SettleOne(p, i, r, triggers), t, n)
           /\ Len(SettleOne(p, i, r, triggers).rows) = Len(p.rows) + 1
  <2> HIDE DEF n
  <2> QED BY <1>1, <1>t, SettleOneKeeps
<1> HIDE DEF n, m
<1> DEFINE S == {k \in 0..m : PlanOK(f[k], t, n) /\ Len(f[k].rows) = Len(plan.rows) + k}
<1>9. 0 \in S
  <2>1. f[0] = plan BY <1>7
  <2>2. PlanOK(f[0], t, n) BY <2>1 DEF n
  <2>3. Len(f[0].rows) = Len(plan.rows) + 0 BY <1>8, <2>1
  <2> QED BY <1>1, <2>2, <2>3
<1>10. ASSUME NEW k \in S, k < m PROVE k + 1 \in S
  <2>1. k + 1 \in 1..m /\ (k + 1) - 1 = k /\ k \in Nat /\ k + 1 \in 0..m BY <1>1, <1>10
  <2>2. f[k + 1] = SettleOne(f[k], unit[k + 1], judged[k + 1], triggers) BY <1>7, <2>1
  <2>3. PlanOK(f[k], t, n) /\ Len(f[k].rows) = Len(plan.rows) + k OBVIOUS
  <2>j. judged[k + 1].at \in (-1)..(n - 1) /\ IntentOK(judged[k + 1].intent, t, n)
    BY <1>3, <2>1
  <2>4. PlanOK(f[k + 1], t, n) /\ Len(f[k + 1].rows) = Len(f[k].rows) + 1
    BY <1>s, <2>j, <2>2, <2>3
  <2>5. Len(f[k + 1].rows) = Len(plan.rows) + (k + 1)
    <3> DEFINE a0 == Len(plan.rows)
               b0 == Len(f[k].rows)
               c0 == Len(f[k + 1].rows)
    <3>1. a0 \in Nat /\ k \in Nat /\ b0 = a0 + k /\ c0 = b0 + 1 BY <1>8, <2>1, <2>3, <2>4
    <3> HIDE DEF a0, b0, c0
    <3>2. c0 = a0 + (k + 1) BY <3>1
    <3> QED BY <3>2 DEF a0, c0
  <2> QED BY <2>1, <2>4, <2>5
<1>11. m \in S
  <2>1. S \in SUBSET (0..m) OBVIOUS
  <2> HIDE DEF S
  <2>2. S = 0..m BY <1>1, <1>9, <1>10, <2>1, UpTo
  <2> QED BY <1>1, <2>2
<1>12. Planned(plan, unit, l, docAt) = f[m] BY <1>4, <1>5, <1>6
<1> QED BY <1>11, <1>12 DEF m, n

-----------------------------------------------------------------------------
(* What a batch of t's intents is divided into: units that are not empty   *)
(* and of one transaction, or of one intent.                               *)
Units(B) == {u \in Seq(B) : /\ u # <<>>
                            /\ \A k \in 1..Len(u) : u[k].txn = u[1].txn
                            /\ Len(u) > 1 => u[1].txn # None}

(* The last element of a sequence is replaced.                             *)
LEMMA SetLast ==
  ASSUME NEW W, NEW U \in Seq(W), NEW u \in W, NEW v \in W
  PROVE  [Append(U, u) EXCEPT ![Len(U) + 1] = v] = Append(U, v)
<1> DEFINE t == Append(U, u)
           p == [t EXCEPT ![Len(U) + 1] = v]
           q == Append(U, v)
           m == Len(U) + 1
<1>1. /\ t \in Seq(W) /\ Len(t) = m /\ t[m] = u /\ \A k \in 1..Len(U) : t[k] = U[k]
      /\ q \in Seq(W) /\ Len(q) = m /\ q[m] = v /\ \A k \in 1..Len(U) : q[k] = U[k]
      /\ Len(U) \in Nat
  OBVIOUS
<1> HIDE DEF t, q
<1>2. p \in [1..m -> W] BY <1>1
<1>3. q \in [1..m -> W] BY <1>1
<1>4. \A k \in 1..m : p[k] = q[k]
  <2> TAKE k \in 1..m
  <2>1. CASE k = m BY <1>1, <2>1
  <2>2. CASE k # m
     <3>1. k \in 1..Len(U) BY <1>1, <2>2
     <3>2. p[k] = t[k] BY <1>1, <2>2
     <3> QED BY <1>1, <3>1, <3>2
  <2> QED BY <2>1, <2>2
<1> HIDE DEF p
<1> QED BY <1>2, <1>3, <1>4 DEF p, q, t

(* An intent begins a unit, or joins the last one.                         *)
LEMMA JoinCases ==
  ASSUME NEW B, NEW i \in B, NEW units \in Seq(Units(B))
  PROVE  \/ /\ Join(units, i) = Append(units, <<i>>) /\ <<i>> \in Units(B)
            /\ \/ units = <<>> \/ i.txn = None
               \/ \E U \in Seq(Units(B)), u \in Units(B) :
                    units = Append(U, u) /\ u[1].txn # i.txn
         \/ \E U \in Seq(Units(B)), u \in Units(B) :
              /\ units = Append(U, u) /\ u[1].txn = i.txn /\ i.txn # None
              /\ Join(units, i) = Append(U, Append(u, i)) /\ Append(u, i) \in Units(B)
<1>1. <<i>> \in Units(B) BY DEF Units
<1>2. CASE units = <<>> BY <1>1, <1>2 DEF Join
<1>3. CASE units # <<>>
  <2>1. PICK U \in Seq(Units(B)), u \in Units(B) : units = Append(U, u)
    <3> DEFINE W == Units(B)
    <3> HIDE DEF W
    <3>1. units \in Seq(W) BY DEF W
    <3>2. \E U \in Seq(W), u \in W : units = Append(U, u) BY <1>3, <3>1, SequenceEmptyOrAppend
    <3> QED BY <3>2 DEF W
  <2>2. Last(units) = u /\ Len(units) = Len(U) + 1 /\ units[Len(U) + 1] = u BY <2>1 DEF Last
  <2>3. CASE i.txn = None \/ u[1].txn # i.txn
    <3>1. Join(units, i) = Append(units, <<i>>) BY <1>3, <2>2, <2>3 DEF Join
    <3> QED BY <1>1, <2>1, <2>3, <3>1
  <2>4. CASE i.txn # None /\ u[1].txn = i.txn
    <3>1. u \in Seq(B) /\ u # <<>> /\ Len(u) \in Nat /\ \A k \in 1..Len(u) : u[k].txn = u[1].txn
      BY DEF Units
    <3> DEFINE v == Append(u, i)
    <3>2. v \in Seq(B) /\ v # <<>> /\ Len(v) = Len(u) + 1 /\ v[Len(u) + 1] = i
          /\ \A k \in 1..Len(u) : v[k] = u[k]
      BY <3>1
    <3>3. Len(u) > 0 BY <3>1
    <3> HIDE DEF v
    <3>4. v[1] = u[1] BY <3>1, <3>2, <3>3
    <3>5. \A k \in 1..Len(v) : v[k].txn = v[1].txn
      <4> TAKE k \in 1..Len(v)
      <4>1. k \in 1..Len(u) \/ k = Len(u) + 1 BY <3>1, <3>2
      <4> QED BY <2>4, <3>1, <3>2, <3>4, <4>1
    <3>6. v \in Units(B) BY <2>4, <3>2, <3>4, <3>5 DEF Units
    <3>7. Join(units, i) = [units EXCEPT ![Len(units)] = Append(@, i)]
      BY <1>3, <2>2, <2>4 DEF Join
    <3>8. [units EXCEPT ![Len(units)] = Append(@, i)] = Append(U, v)
      <4> DEFINE W == Units(B)
      <4>1. U \in Seq(W) /\ u \in W /\ v \in W BY <3>6
      <4> HIDE DEF W
      <4>2. units = Append(U, u) /\ units[Len(units)] = u /\ Len(units) = Len(U) + 1
        BY <2>1, <2>2
      <4>3. [units EXCEPT ![Len(units)] = v] = Append(U, v) BY <4>1, <4>2, SetLast
      <4> QED BY <4>2, <4>3 DEF v
    <3> QED BY <2>1, <2>4, <3>6, <3>7, <3>8 DEF v
  <2> QED BY <2>3, <2>4
<1> QED BY <1>2, <1>3

(* The last unit ends with the last intent.                                *)
GroupOK(B, s) ==
  /\ GroupUnits(s) \in Seq(Units(B))
  /\ s # <<>> => \E U \in Seq(Units(B)), u \in Units(B) :
                   GroupUnits(s) = Append(U, u) /\ u[Len(u)] = s[Len(s)]

(* The units of a batch hold its intents, in order.                        *)
LEMMA Grouped == ASSUME NEW B, NEW s \in Seq(B) PROVE GroupOK(B, s)
<1> DEFINE P == {r \in Seq(B) : GroupOK(B, r)}
<1>1. <<>> \in P
  <2>1. <<>> \in Seq(B) /\ <<>> \in Seq(Units(B)) OBVIOUS
  <2> QED BY <2>1, GroupNothing DEF GroupOK
<1>2. ASSUME NEW r \in P, NEW i \in B PROVE Append(r, i) \in P
  <2> DEFINE t == Append(r, i)
             units == GroupUnits(r)
  <2>1. t \in Seq(B) /\ t[Len(t)] = i BY <1>2
  <2>2. GroupUnits(t) = Join(units, i) BY GroupAppend
  <2>3. units \in Seq(Units(B)) BY DEF GroupOK
  <2> HIDE DEF t, units
  <2>4. \E U \in Seq(Units(B)), u \in Units(B) : Join(units, i) = Append(U, u) /\ u[Len(u)] = i
    <3>j. \/ Join(units, i) = Append(units, <<i>>) /\ <<i>> \in Units(B)
          \/ \E U \in Seq(Units(B)), u \in Units(B) :
               /\ units = Append(U, u) /\ Join(units, i) = Append(U, Append(u, i))
               /\ Append(u, i) \in Units(B)
      <4> DEFINE W == Units(B)
      <4> HIDE DEF W
      <4> QED BY <2>3, JoinCases, ZenonT(60) DEF W
    <3>1. CASE Join(units, i) = Append(units, <<i>>) /\ <<i>> \in Units(B)
      <4>1. Len(<<i>>) = 1 /\ <<i>>[1] = i OBVIOUS
      <4> QED BY <2>3, <3>1, <4>1
    <3>2. ASSUME NEW U \in Seq(Units(B)), NEW u \in Units(B), units = Append(U, u),
                 Join(units, i) = Append(U, Append(u, i)), Append(u, i) \in Units(B)
          PROVE  \E V \in Seq(Units(B)), v \in Units(B) : Join(units, i) = Append(V, v) /\ v[Len(v)] = i
      <4>1. u \in Seq(B) BY DEF Units
      <4>2. LET v == Append(u, i) IN v[Len(v)] = i BY <4>1
      <4> QED BY <3>2, <4>2
    <3> QED BY <3>1, <3>2, <3>j
  <2>5. GroupUnits(t) \in Seq(Units(B))
    <3> DEFINE W == Units(B)
    <3>1. PICK U \in Seq(W), u \in W : GroupUnits(t) = Append(U, u) BY <2>2, <2>4
    <3> HIDE DEF W
    <3>2. GroupUnits(t) \in Seq(W) BY <3>1
    <3> QED BY <3>2 DEF W
  <2>6. GroupOK(B, t) BY <2>1, <2>2, <2>4, <2>5 DEF GroupOK
  <2> QED BY <2>1, <2>6 DEF t
<1>3. P = Seq(B)
  <2>1. P \in SUBSET Seq(B) OBVIOUS
  <2> HIDE DEF P
  <2> QED BY <1>1, <1>2, <2>1, SequenceInduction
<1> QED BY <1>3

(* What is planned of any units is a plan, with a row for every intent of  *)
(* the batch.                                                              *)
LEMMA PlansKeep ==
  ASSUME NEW E, NEW l \in Seq(E), NEW t, NEW B, \A i \in B : IntentOK(i, t, Len(l)),
         NEW docAt, NEW units \in Seq(Units(B))
  PROVE  PlanOK(Plans(units, l, docAt), t, Len(l))
<1> DEFINE W == Units(B)
           P == {r \in Seq(W) : PlanOK(Plans(r, l, docAt), t, Len(l))}
<1>1. <<>> \in P
  <2>1. Plans(<<>>, l, docAt) = Start(l, docAt) BY PlansNothing
  <2>2. Start(l, docAt).rows = <<>> /\ Start(l, docAt).frame = NoFrame
        /\ DOMAIN Start(l, docAt) = {"rows", "head", "frame"}
    BY DEF Start
  <2>3. Bounded(NoFrame, Len(l)) BY DEF Bounded, NoFrame
  <2>4. Listed(<<>>) /\ Len(<<>>) = 0 BY DEF Listed
  <2>5. PlanOK(Plans(<<>>, l, docAt), t, Len(l)) BY <2>1, <2>2, <2>3, <2>4 DEF PlanOK
  <2>6. <<>> \in Seq(W) OBVIOUS
  <2> QED BY <2>5, <2>6
<1>2. ASSUME NEW r \in P, NEW u \in W PROVE Append(r, u) \in P
  <2>1. u \in Seq(B) BY DEF Units
  <2>0. r \in Seq(W) OBVIOUS
  <2>2. PlanOK(Plans(r, l, docAt), t, Len(l)) OBVIOUS
  <2> HIDE DEF W
  <2>3. Plans(Append(r, u), l, docAt) = Planned(Plans(r, l, docAt), u, l, docAt)
    BY <2>0, PlansAppend
  <2>4. PlanOK(Planned(Plans(r, l, docAt), u, l, docAt), t, Len(l)) BY <2>1, <2>2, PlanUnitKeeps
  <2>5. Append(r, u) \in Seq(W) BY <2>0
  <2> QED BY <2>3, <2>4, <2>5
<1>3. P = Seq(W)
  <2>1. P \in SUBSET Seq(W) OBVIOUS
  <2> HIDE DEF P, W
  <2> QED BY <1>1, <1>2, <2>1, SequenceInduction
<1> QED BY <1>3

(* A unit is planned into as many rows as it has intents.                  *)
LEMMA PlansLength ==
  ASSUME NEW E, NEW l \in Seq(E), NEW t, NEW B, \A i \in B : IntentOK(i, t, Len(l)),
         NEW docAt, NEW U \in Seq(Units(B)), NEW u \in Units(B)
  PROVE  /\ Len(Plans(Append(U, u), l, docAt).rows) = Len(Plans(U, l, docAt).rows) + Len(u)
         /\ Len(u) \in Nat /\ Len(Plans(U, l, docAt).rows) \in Nat
<1> DEFINE W == Units(B)
<1>1. u \in Seq(B) BY DEF Units
<1>2. PICK p : p = Plans(U, l, docAt) OBVIOUS
<1>3. PlanOK(p, t, Len(l)) BY <1>2, PlansKeep
<1>4. U \in Seq(W) /\ u \in W OBVIOUS
<1> HIDE DEF W
<1>5. Plans(Append(U, u), l, docAt) = Planned(p, u, l, docAt) BY <1>2, <1>4, PlansAppend
<1>6. /\ PlanOK(Planned(p, u, l, docAt), t, Len(l))
      /\ Len(Planned(p, u, l, docAt).rows) = Len(p.rows) + Len(u)
  BY <1>1, <1>3, PlanUnitKeeps, SMTT(30)
<1>7. Len(p.rows) \in Nat BY <1>3 DEF PlanOK, Listed
<1> QED BY <1>1, <1>2, <1>5, <1>6, <1>7

(* A batch is planned into as many rows as it has intents.                 *)
LEMMA PlanLength ==
  ASSUME NEW E, NEW l \in Seq(E), NEW t, NEW B, \A i \in B : IntentOK(i, t, Len(l)),
         NEW docAt, NEW s \in Seq(B)
  PROVE  /\ PlanOK(Plans(GroupUnits(s), l, docAt), t, Len(l))
         /\ Len(Plans(GroupUnits(s), l, docAt).rows) = Len(s)
<1>r. ASSUME NEW U \in Seq(Units(B)), NEW u \in Units(B)
      PROVE  /\ Len(Plans(Append(U, u), l, docAt).rows) = Len(Plans(U, l, docAt).rows) + Len(u)
             /\ Len(u) \in Nat /\ Len(Plans(U, l, docAt).rows) \in Nat
  BY PlansLength, Zenon
<1> DEFINE Rows(units) == Len(Plans(units, l, docAt).rows)
           P == {r \in Seq(B) : Rows(GroupUnits(r)) = Len(r)}
<1>0. ASSUME NEW U \in Seq(Units(B)), NEW u \in Units(B)
      PROVE  Rows(Append(U, u)) = Rows(U) + Len(u) /\ Len(u) \in Nat /\ Rows(U) \in Nat
  BY <1>r
<1>1. <<>> \in P
  <2>1. Plans(<<>>, l, docAt).rows = <<>> BY PlansNothing DEF Start
  <2>2. <<>> \in Seq(B) /\ Len(<<>>) = 0 OBVIOUS
  <2> QED BY <2>1, <2>2, GroupNothing
<1> HIDE DEF Rows
<1>2. ASSUME NEW r \in P, NEW i \in B PROVE Append(r, i) \in P
  <2> DEFINE units == GroupUnits(r)
  <2>1. r \in Seq(B) /\ Append(r, i) \in Seq(B) /\ Len(Append(r, i)) = Len(r) + 1
        /\ Rows(units) = Len(r) /\ Len(r) \in Nat
    OBVIOUS
  <2>2. GroupUnits(Append(r, i)) = Join(units, i) BY <2>1, GroupAppend
  <2>3. units \in Seq(Units(B)) BY <2>1, Grouped DEF GroupOK
  <2> HIDE DEF units
  <2>4. Rows(Join(units, i)) = Rows(units) + 1
    <3>j. \/ Join(units, i) = Append(units, <<i>>) /\ <<i>> \in Units(B)
          \/ \E U \in Seq(Units(B)), u \in Units(B) :
               /\ units = Append(U, u) /\ Join(units, i) = Append(U, Append(u, i))
               /\ Append(u, i) \in Units(B)
      <4> DEFINE W == Units(B)
      <4> HIDE DEF W
      <4> QED BY <2>3, JoinCases, ZenonT(60) DEF W
    <3>1. CASE Join(units, i) = Append(units, <<i>>) /\ <<i>> \in Units(B)
      <4>1. Len(<<i>>) = 1 OBVIOUS
      <4> QED BY <1>0, <2>3, <3>1, <4>1
    <3>2. ASSUME NEW U \in Seq(Units(B)), NEW u \in Units(B), units = Append(U, u),
                 Join(units, i) = Append(U, Append(u, i)), Append(u, i) \in Units(B)
          PROVE  Rows(Join(units, i)) = Rows(units) + 1
      <4>1. u \in Seq(B) BY DEF Units
      <4>2. Len(Append(u, i)) = Len(u) + 1 BY <4>1
      <4>3. Rows(units) = Rows(U) + Len(u) /\ Len(u) \in Nat /\ Rows(U) \in Nat BY <1>0, <3>2
      <4>4. Rows(Join(units, i)) = Rows(U) + Len(Append(u, i)) BY <1>0, <3>2
      <4> QED BY <4>2, <4>3, <4>4
    <3> QED BY <3>1, <3>2, <3>j
  <2> QED BY <2>1, <2>2, <2>4
<1>3. P = Seq(B)
  <2>1. P \in SUBSET Seq(B) OBVIOUS
  <2> HIDE DEF P
  <2> QED BY <1>1, <1>2, <2>1, SequenceInduction
<1>4. Len(Plans(GroupUnits(s), l, docAt).rows) = Len(s) BY <1>3 DEF Rows
<1>5. GroupUnits(s) \in Seq(Units(B)) BY Grouped DEF GroupOK
<1>6. PlanOK(Plans(GroupUnits(s), l, docAt), t, Len(l)) BY <1>5, PlansKeep
<1> QED BY <1>4, <1>6

-----------------------------------------------------------------------------
(* What authorIntent does to the screen without a replan.                  *)
Answer(plan, i) == <<i.id, IF Takes(plan.head, i) THEN "applied" ELSE "voided">>

Follows(after, before, i) ==
  /\ after.head = ApplyIntent(before.head, i)
  /\ Prediction(after.rows) = Append(Prediction(before.rows), Answer(before, i))

(* What a tab predicts of a plan, row by row.                              *)
LEMMA PredictionListed ==
  ASSUME NEW rows, Listed(rows)
  PROVE  /\ Listed(Prediction(rows)) /\ Len(Prediction(rows)) = Len(rows) /\ Len(rows) \in Nat
         /\ \A k \in 1..Len(rows) : Prediction(rows)[k] = <<rows[k].intent.id, rows[k].status>>
<1> DEFINE p == Prediction(rows)
           n == Len(rows)
           S == {<<rows[k].intent.id, rows[k].status>> : k \in 1..n}
<1>1. n \in Nat /\ DOMAIN rows = 1..n BY DEF Listed
<1>2. p = [k \in 1..n |-> <<rows[k].intent.id, rows[k].status>>] BY <1>1 DEF Prediction
<1> HIDE DEF p
<1>3. \A k \in 1..n : p[k] = <<rows[k].intent.id, rows[k].status>> BY <1>2
<1>4. p \in [1..n -> S] BY <1>2
<1> HIDE DEF S, n
<1>5. p \in Seq(S) /\ Len(p) = n BY <1>1, <1>4
<1>6. Listed(p) BY <1>5, ListedSeq
<1> QED BY <1>1, <1>3, <1>5, <1>6 DEF p, n

(* Lists of the same elements are the same.                                *)
LEMMA SameElements ==
  ASSUME NEW p, NEW q, Listed(p), Listed(q), Len(p) = Len(q), \A k \in 1..Len(p) : p[k] = q[k]
  PROVE  p = q
<1>1. /\ p \in [1..Len(p) -> ToSet(p)] /\ q \in [1..Len(p) -> ToSet(q)] BY DEF Listed
<1> QED BY <1>1

(* One row more is one prediction more.                                    *)
LEMMA PredictionAppend ==
  ASSUME NEW rows, Listed(rows), NEW row
  PROVE  Prediction(Append(rows, row)) = Append(Prediction(rows), <<row.intent.id, row.status>>)
<1> DEFINE t == Append(rows, row)
           n == Len(rows)
           p == Prediction(t)
           q == Append(Prediction(rows), <<row.intent.id, row.status>>)
<1>1. Listed(t) /\ Len(t) = n + 1 /\ n \in Nat /\ t[n + 1] = row /\ \A k \in 1..n : t[k] = rows[k]
  BY ListedAppend
<1>2. /\ Listed(Prediction(rows)) /\ Len(Prediction(rows)) = n
      /\ \A k \in 1..n : Prediction(rows)[k] = <<rows[k].intent.id, rows[k].status>>
  BY PredictionListed
<1>3. /\ Listed(q) /\ Len(q) = n + 1 /\ q[n + 1] = <<row.intent.id, row.status>>
      /\ \A k \in 1..n : q[k] = <<rows[k].intent.id, rows[k].status>>
  BY <1>2, ListedAppend
<1> HIDE DEF t, n
<1>4. /\ Listed(p) /\ Len(p) = n + 1
      /\ \A k \in 1..(n + 1) : p[k] = <<t[k].intent.id, t[k].status>>
  BY <1>1, PredictionListed
<1> HIDE DEF p, q
<1>5. \A k \in 1..(n + 1) : p[k] = q[k]
  <2> TAKE k \in 1..(n + 1)
  <2>1. CASE k = n + 1 BY <1>1, <1>3, <1>4, <2>1
  <2>2. CASE k \in 1..n BY <1>1, <1>3, <1>4, <2>2
  <2> QED BY <1>1, <2>1, <2>2
<1>6. p = q BY <1>3, <1>4, <1>5, SameElements
<1> QED BY <1>6 DEF p, q, t

(* An intent judged clean settles as the tab that authors it shows it.     *)
LEMMA SettleClean ==
  ASSUME NEW plan, Listed(plan.rows), NEW i, NEW at, NEW doc
  PROVE  Follows(SettleOne(plan, i, Past(Clean(i), at, doc), {}), plan, i)
<1> DEFINE r == Past(Clean(i), at, doc)
           status == IF Takes(plan.head, i) THEN "applied" ELSE "voided"
           row == Row(i, status, <<i>>)
           next == SettleOne(plan, i, r, {})
<1>1. r.outcome = "clean" /\ r.intent = i BY DEF Past, Clean
<1> HIDE DEF r
<1>2. next.rows = Append(plan.rows, row) /\ next.head = ApplyIntent(plan.head, i)
  BY <1>1 DEF SettleOne
<1>3. row.intent = i /\ row.status = status BY DEF Row
<1> HIDE DEF next, row
<1>4. Prediction(next.rows) = Append(Prediction(plan.rows), <<row.intent.id, row.status>>)
  BY <1>2, PredictionAppend
<1>5. Answer(plan, i) = <<row.intent.id, row.status>> BY <1>3 DEF Answer
<1> QED BY <1>2, <1>4, <1>5 DEF Follows, next, r

(* In a unit at the head, a member more is applied after the others.       *)
LEMMA PlannedNothing ==
  ASSUME NEW plan, NEW l, NEW docAt PROVE Planned(plan, <<>>, l, docAt) = plan
  BY SettleNothing DEF Planned, PlanUnit

(* So does the last intent of a unit authored at the head.                 *)
LEMMA PlannedFollows ==
  ASSUME NEW E, NEW l \in Seq(E), NEW t, NEW B, \A i \in B : IntentOK(i, t, Len(l)),
         NEW docAt, NEW plan, PlanOK(plan, t, Len(l)),
         NEW u \in Seq(B), NEW i \in B, i.base = Len(l), \A k \in 1..Len(u) : u[k].base = Len(l)
  PROVE  Follows(Planned(plan, Append(u, i), l, docAt), Planned(plan, u, l, docAt), i)
<1> DEFINE n == Len(l)
           C == {x \in B : x.base = n}
           v == Append(u, i)
           ju == JudgeAll(plan.frame, u, l, docAt)
           jv == JudgeAll(plan.frame, v, l, docAt)
           m == Len(u)
<1>1. i \in C /\ u \in Seq(C) /\ v \in Seq(C) /\ Len(v) = m + 1 /\ v[m + 1] = i /\ m \in Nat
      /\ \A k \in 1..m : v[k] = u[k]
  OBVIOUS
<1>2. Bounded(plan.frame, n) BY DEF PlanOK
<1>3. \A x \in C : x.base = n OBVIOUS
<1> HIDE DEF C, v
<1>4. /\ \A k \in 1..m : ju[k] = Past(Clean(u[k]), n - 1, docAt[n])
      /\ Triggers(ju) = {}
  BY <1>1, <1>2, <1>3, UnitAtHead
<1>5. /\ \A k \in 1..Len(v) : jv[k] = Past(Clean(v[k]), n - 1, docAt[n])
      /\ Triggers(jv) = {}
  BY <1>1, <1>2, <1>3, UnitAtHead
<1>6. Planned(plan, u, l, docAt) = SettleUnit(plan, u, ju, {}) BY <1>4 DEF Planned, PlanUnit
<1>7. Planned(plan, v, l, docAt) = SettleUnit(plan, v, jv, {}) BY <1>5 DEF Planned, PlanUnit
<1> HIDE DEF ju, jv
<1>8. /\ \A k \in 1..m : jv[k] = ju[k]
      /\ jv[m + 1] = Past(Clean(i), n - 1, docAt[n])
  BY <1>1, <1>4, <1>5
<1>9. SettleUnit(plan, v, jv, {}) = SettleOne(SettleUnit(plan, u, ju, {}), i, jv[m + 1], {})
  BY <1>1, <1>8, SettleAppend DEF v
<1>p. PICK before : before = Planned(plan, u, l, docAt) OBVIOUS
<1>10. PlanOK(before, t, n) BY <1>p, PlanUnitKeeps
<1>11. Listed(before.rows) BY <1>10 DEF PlanOK
<1>12. Planned(plan, v, l, docAt) = SettleOne(before, i, Past(Clean(i), n - 1, docAt[n]), {})
  BY <1>6, <1>7, <1>8, <1>9, <1>p
<1>13. Follows(Planned(plan, v, l, docAt), before, i) BY <1>11, <1>12, SettleClean
<1> QED BY <1>13, <1>p DEF v

-----------------------------------------------------------------------------
(* Settling an intent does not depend on the unit that it names.           *)
LEMMA SameStep ==
  ASSUME NEW i, Shaped(i), NEW u, NEW after, NEW before,
         Follows(after, before, [i EXCEPT !.txn = u])
  PROVE  Follows(after, before, i)
<1> DEFINE j == [i EXCEPT !.txn = u]
<1>1. j.id = i.id /\ \A doc : Takes(doc, j) = Takes(doc, i) /\ ApplyIntent(doc, j) = ApplyIntent(doc, i)
  BY SameButUnit
<1> HIDE DEF j
<1>2. Answer(before, j) = Answer(before, i) BY <1>1 DEF Answer
<1>3. Follows(after, before, j) BY DEF j
<1> QED BY <1>1, <1>2, <1>3 DEF Follows

(* What appending yields.                                                  *)
LEMMA Appended ==
  ASSUME NEW S, NEW s \in Seq(S), NEW e \in S
  PROVE  /\ Append(s, e) \in Seq(S) /\ Append(s, e) # <<>> /\ Last(Append(s, e)) = e
         /\ Len(Append(s, e)) = Len(s) + 1 /\ Len(s) \in Nat /\ Append(s, e)[Len(s) + 1] = e
         /\ \A k \in 1..Len(s) : Append(s, e)[k] = s[k]
  BY DEF Last

(* Sequences over a set are sequences over a larger one.                   *)
LEMMA SeqGrows ==
  ASSUME NEW S, NEW T, S \in SUBSET T PROVE Seq(S) \in SUBSET Seq(T)
  OBVIOUS

(* An intent of its own unit, and one more in the last unit.               *)
LEMMA AloneFollows ==
  ASSUME NEW E, NEW l \in Seq(E), NEW t, NEW B, \A i \in B : IntentOK(i, t, Len(l)),
         NEW docAt, NEW s \in Seq(B), NEW i \in B, i.base = Len(l),
         i.txn = None \/ \A k \in 1..Len(s) : s[k].txn # i.txn
  PROVE  /\ GroupUnits(Append(s, i)) = Append(GroupUnits(s), <<i>>)
         /\ Follows(Plans(GroupUnits(Append(s, i)), l, docAt), Plans(GroupUnits(s), l, docAt), i)
<1> DEFINE W == Units(B)
           C == ToSet(s)
           G == GroupUnits(s)
<1>1. G \in Seq(W) /\ <<i>> \in W /\ Append(<<>>, i) = <<i>> /\ <<>> \in Seq(B) /\ Len(<<>>) = 0
  <2>1. GroupOK(B, s) BY Grouped
  <2> QED BY <2>1 DEF GroupOK, Units
<1>2. GroupUnits(Append(s, i)) = Append(G, <<i>>)
  <2>1. GroupUnits(Append(s, i)) = Join(G, i) BY GroupAppend
  <2>2. CASE i.txn = None BY <2>1, <2>2 DEF Join
  <2>3. CASE G = <<>> BY <2>1, <2>3 DEF Join
  <2>4. CASE i.txn # None /\ G # <<>>
    <3>1. DOMAIN s = 1..Len(s) /\ s \in Seq(C) /\ \A e \in C : e.txn # i.txn
      <4>1. DOMAIN s = 1..Len(s) OBVIOUS
      <4>2. \A k \in 1..Len(s) : s[k] \in C BY <4>1 DEF ToSet
      <4>3. \A e \in C : \E k \in 1..Len(s) : e = s[k] BY <4>1 DEF ToSet
      <4>4. \A e \in C : e.txn # i.txn BY <2>4, <4>3
      <4> HIDE DEF C
      <4> QED BY <4>1, <4>2, <4>4
    <3>2. GroupOK(C, s) BY <3>1, Grouped
    <3>3. s # <<>> BY <2>4, GroupNothing
    <3>4. PICK U \in Seq(Units(C)), u \in Units(C) : G = Append(U, u)
      BY <3>2, <3>3 DEF GroupOK
    <3>5. Last(G) = u
      <4> DEFINE X == Units(C)
      <4>1. U \in Seq(X) /\ u \in X OBVIOUS
      <4> HIDE DEF X, G
      <4> QED BY <3>4, <4>1, Appended
    <3>6. u[1] \in C
      <4>1. u \in Seq(C) /\ u # <<>> BY DEF Units
      <4> HIDE DEF C
      <4> QED BY <4>1
    <3>7. Last(G)[1].txn # i.txn BY <3>1, <3>5, <3>6
    <3> QED BY <2>1, <3>7 DEF Join
  <2> QED BY <2>2, <2>3, <2>4
<1>p. PICK P : P = Plans(G, l, docAt) OBVIOUS
<1>3. PlanOK(P, t, Len(l)) BY <1>1, <1>p, PlansKeep
<1> HIDE DEF W, G, C
<1>4. Plans(Append(G, <<i>>), l, docAt) = Planned(P, <<i>>, l, docAt) BY <1>1, <1>p, PlansAppend
<1>5. Planned(P, <<>>, l, docAt) = P BY PlannedNothing
<1>6. \A k \in 1..Len(<<>>) : <<>>[k].base = Len(l) OBVIOUS
<1>7. Follows(Planned(P, Append(<<>>, i), l, docAt), Planned(P, <<>>, l, docAt), i)
  <2> DEFINE u == <<>>
  <2>1. u \in Seq(B) /\ \A k \in 1..Len(u) : u[k].base = Len(l) BY <1>1
  <2> HIDE DEF u
  <2>2. Follows(Planned(P, Append(u, i), l, docAt), Planned(P, u, l, docAt), i)
    BY <1>3, <2>1, PlannedFollows
  <2> QED BY <2>2 DEF u
<1> QED BY <1>1, <1>2, <1>4, <1>5, <1>7, <1>p DEF G

(* An intent that joins the unit of the one before it settles after the    *)
(* others.                                                                 *)
LEMMA JoinedFollows ==
  ASSUME NEW E, NEW l \in Seq(E), NEW t, NEW B, \A i \in B : IntentOK(i, t, Len(l)),
         NEW docAt, NEW s \in Seq(B), s # <<>>, NEW i \in B, i.base = Len(l), i.txn # None,
         s[Len(s)].txn = i.txn,
         \A k \in 1..Len(s) : s[k].txn = i.txn => s[k].base = Len(l)
  PROVE  Follows(Plans(GroupUnits(Append(s, i)), l, docAt), Plans(GroupUnits(s), l, docAt), i)
<1> DEFINE n == Len(l)
           C == ToSet(s)
           W == Units(C)
           D == C \cup {i}
<1>1. s \in Seq(C) /\ C \in SUBSET B /\ \A e \in C : e.txn = i.txn => e.base = n
  <2>1. DOMAIN s = 1..Len(s) /\ \A k \in 1..Len(s) : s[k] \in B OBVIOUS
  <2>2. \A k \in 1..Len(s) : s[k] \in C BY <2>1 DEF ToSet
  <2> QED BY <2>1, <2>2 DEF ToSet
<1>2. PICK U \in Seq(W), u \in W : GroupUnits(s) = Append(U, u) /\ u[Len(u)] = s[Len(s)]
  <2>1. GroupOK(C, s) BY <1>1, Grouped
  <2> QED BY <2>1 DEF GroupOK
<1>3. /\ u \in Seq(C) /\ u # <<>> /\ Len(u) \in Nat /\ u[1].txn = i.txn
      /\ \A k \in 1..Len(u) : u[k].base = n
  <2>1. u \in Seq(C) /\ u # <<>> /\ \A k \in 1..Len(u) : u[k].txn = u[1].txn BY DEF Units
  <2>2. Len(u) \in 1..Len(u) /\ Len(u) \in Nat BY <2>1
  <2>3. u[Len(u)].txn = i.txn BY <1>2
  <2>4. \A k \in 1..Len(u) : u[k].txn = i.txn BY <2>1, <2>2, <2>3
  <2>5. \A k \in 1..Len(u) : u[k] \in C BY <2>1
  <2>6. 1 \in 1..Len(u) BY <2>2
  <2> QED BY <1>1, <2>1, <2>2, <2>4, <2>5, <2>6
<1>4. \A e \in D : IntentOK(e, t, n) BY <1>1
<1>5. GroupUnits(Append(s, i)) = Append(U, Append(u, i)) /\ Append(u, i) \in Units(D)
      /\ U \in Seq(Units(D)) /\ u \in Units(D)
  <2>1. Units(C) \in SUBSET Units(D)
    <3>1. Seq(C) \in SUBSET Seq(D) BY SeqGrows
    <3> QED BY <3>1 DEF Units
  <2> DEFINE X == Units(D)
             G == GroupUnits(s)
  <2>2. U \in Seq(X) /\ u \in X
    <3> HIDE DEF C, D
    <3>1. Seq(W) \in SUBSET Seq(X) BY <2>1, SeqGrows
    <3> QED BY <2>1, <3>1
  <2>3. s \in Seq(D) /\ i \in D BY <1>1
  <2> HIDE DEF D
  <2>4. GroupUnits(Append(s, i)) = Join(G, i) BY <2>3, GroupAppend
  <2>5. G = Append(U, u) /\ G # <<>> /\ Last(G) = u /\ Len(G) = Len(U) + 1
    <3> HIDE DEF X, G, W
    <3>1. G = Append(U, u) BY <1>2 DEF G
    <3> QED BY <2>2, <3>1, Appended
  <2>v. PICK v : v = Append(u, i) OBVIOUS
  <2>6. Join(G, i) = [G EXCEPT ![Len(G)] = v]
    <3>1. G[Len(G)] = u
      <4> HIDE DEF X, G
      <4> QED BY <2>2, <2>5
    <3> HIDE DEF G
    <3> QED BY <1>3, <2>5, <2>v, <3>1 DEF Join
  <2>7. v \in X
    <3>1. u \in Seq(D) /\ i \in D /\ \A k \in 1..Len(u) : u[k].txn = u[1].txn /\ u # <<>>
      BY <2>2, <2>3 DEF Units
    <3>2. /\ v \in Seq(D) /\ v # <<>> /\ Len(v) = Len(u) + 1 /\ v[Len(u) + 1] = i
          /\ \A k \in 1..Len(u) : v[k] = u[k]
      BY <2>v, <3>1, Appended
    <3>3. 1 \in 1..Len(u) BY <1>3, <3>1
    <3>4. v[1].txn = i.txn BY <1>3, <3>2, <3>3
    <3>5. \A k \in 1..Len(v) : v[k].txn = v[1].txn
      <4> TAKE k \in 1..Len(v)
      <4>1. k \in 1..Len(u) \/ k = Len(u) + 1 BY <1>3, <3>2
      <4> QED BY <1>3, <3>1, <3>2, <3>4, <4>1
    <3> QED BY <3>2, <3>4, <3>5 DEF Units
  <2> HIDE DEF X, G
  <2>8. [G EXCEPT ![Len(G)] = v] = Append(U, v) BY <2>2, <2>5, <2>7, SetLast
  <2> QED BY <2>2, <2>4, <2>6, <2>7, <2>8, <2>v DEF X
<1> HIDE DEF n, C, W
<1>p. PICK P : P = Plans(U, l, docAt) OBVIOUS
<1>6. PlanOK(P, t, n) BY <1>4, <1>5, <1>p, PlansKeep DEF n
<1>7. u \in Seq(D) /\ i \in D BY <1>3
<1> DEFINE X == Units(D)
<1>8. U \in Seq(X) /\ u \in X /\ Append(u, i) \in X BY <1>5
<1> HIDE DEF D, X
<1>9. Plans(Append(U, u), l, docAt) = Planned(P, u, l, docAt) BY <1>8, <1>p, PlansAppend
<1>10. Plans(Append(U, Append(u, i)), l, docAt) = Planned(P, Append(u, i), l, docAt)
  BY <1>8, <1>p, PlansAppend
<1>11. Follows(Planned(P, Append(u, i), l, docAt), Planned(P, u, l, docAt), i)
  BY <1>3, <1>4, <1>6, <1>7, PlannedFollows DEF n
<1> QED BY <1>2, <1>5, <1>9, <1>10, <1>11

(* The unit of the intent before it, which joining may give its name.      *)
UnitOf(box, joins) ==
  IF joins THEN (IF Last(box).txn = None THEN Last(box).id ELSE Last(box).txn) ELSE None
Named(box, joins) ==
  IF joins THEN [box EXCEPT ![Len(box)].txn = UnitOf(box, joins)] ELSE box

(* authorIntent is a replan: an intent based on the head of the tab's copy *)
(* is applied to what the plan of the intents before it leaves, alone or   *)
(* in the unit of the last of these.                                       *)
LEMMA AuthorFollows ==
  ASSUME NEW E, NEW l \in Seq(E), NEW t, NEW docAt,
         NEW box, Listed(box), \A k \in 1..Len(box) : IntentOK(box[k], t, Len(l)),
         NEW i, IntentOK(i, t, Len(l)), i.base = Len(l), NEW joins \in BOOLEAN,
         joins => /\ box # <<>> /\ Last(box).base = Len(l) /\ Last(box).id # None
                  /\ \A k \in 1..(Len(box) - 1) : box[k].txn # Last(box).id
                  /\ \A k \in 1..Len(box) : box[k].txn = Last(box).txn /\ box[k].txn # None
                                              => box[k].base = Last(box).base
  PROVE  Follows(PlanOver(Append(Named(box, joins), [i EXCEPT !.txn = UnitOf(box, joins)]), l, docAt),
                 PlanOver(box, l, docAt), i)
<1> DEFINE n == Len(l)
           unit == UnitOf(box, joins)
           j == [i EXCEPT !.txn = unit]
           plan(s) == Plans(GroupUnits(s), l, docAt)
<1>0. \A s : PlanOver(s, l, docAt) = plan(s) BY PlanIsPlans
<1>1. Shaped(i) /\ Shaped(j) /\ j.txn = unit /\ j.base = n /\ j.actor = t /\ IntentOK(j, t, n)
  <2>1. Shaped(i) /\ i.actor = t BY DEF IntentOK
  <2>2. Shaped(j) /\ j.txn = unit /\ j.base = i.base /\ j.actor = i.actor BY <2>1, SameButUnit
  <2> QED BY <2>1, <2>2 DEF IntentOK
<1> HIDE DEF j
<1>2. CASE ~joins
  <2>1. unit = None /\ Named(box, joins) = box BY <1>2 DEF UnitOf, Named
  <2> DEFINE B == ToSet(box) \cup {j}
  <2>2. box \in Seq(B) /\ j \in B
    <3>1. box \in Seq(ToSet(box)) BY DEF Listed
    <3>2. Seq(ToSet(box)) \in SUBSET Seq(B) BY SeqGrows
    <3> QED BY <3>1, <3>2
  <2>3. \A x \in B : IntentOK(x, t, n)
    <3>1. DOMAIN box = 1..Len(box) BY DEF Listed
    <3> QED BY <1>1, <3>1 DEF ToSet
  <2> HIDE DEF B
  <2>4. Follows(plan(Append(box, j)), plan(box), j) BY <1>1, <2>1, <2>2, <2>3, AloneFollows
  <2> HIDE DEF plan
  <2>5. Follows(plan(Append(box, j)), plan(box), i) BY <1>1, <2>4, SameStep DEF j
  <2> QED BY <1>0, <2>1, <2>5 DEF j
<1>3. CASE joins
  <2>1. PICK front, last : box = Append(front, last) /\ Listed(front)
    <3> DEFINE B == ToSet(box)
    <3>1. box \in Seq(B) /\ box # <<>> BY <1>3 DEF Listed
    <3> HIDE DEF B
    <3>2. PICK f \in Seq(B), e \in B : box = Append(f, e) BY <3>1, SequenceEmptyOrAppend
    <3>3. Listed(f) BY ListedSeq
    <3> QED BY <3>2, <3>3
  <2>2. /\ Len(box) = Len(front) + 1 /\ Len(front) \in Nat /\ box[Len(front) + 1] = last
        /\ \A k \in 1..Len(front) : box[k] = front[k]
    BY <2>1, ListedAppend
  <2>3. Last(box) = last BY <2>2 DEF Last
  <2>4. /\ last.base = n /\ last.id # None /\ \A k \in 1..Len(front) : front[k].txn # last.id
        /\ \A k \in 1..Len(front) : front[k].txn = last.txn /\ front[k].txn # None => front[k].base = n
    BY <1>3, <2>2, <2>3
  <2>5. IntentOK(last, t, n) /\ \A k \in 1..Len(front) : IntentOK(front[k], t, n)
    BY <2>2
  <2>6. unit = IF last.txn = None THEN last.id ELSE last.txn BY <1>3, <2>3 DEF UnitOf
  <2>7. unit # None BY <2>4, <2>6
  <2> DEFINE last2 == [last EXCEPT !.txn = unit]
  <2>8. /\ Shaped(last) /\ Shaped(last2) /\ last2.txn = unit /\ last2.base = n /\ last2.actor = t
        /\ IntentOK(last2, t, n)
    <3>1. Shaped(last) /\ last.actor = t BY <2>5 DEF IntentOK
    <3>2. Shaped(last2) /\ last2.txn = unit /\ last2.base = last.base /\ last2.actor = last.actor
      BY <3>1, SameButUnit
    <3> QED BY <2>4, <2>5, <3>1, <3>2 DEF IntentOK
  <2>9. Named(box, joins) = Append(front, last2)
    <3> DEFINE B == ToSet(front) \cup {last, last2}
    <3>1. front \in Seq(B)
      <4>1. front \in Seq(ToSet(front)) BY <2>1 DEF Listed
      <4>2. Seq(ToSet(front)) \in SUBSET Seq(B) BY SeqGrows
      <4> QED BY <4>1, <4>2
    <3>2. last \in B /\ last2 \in B OBVIOUS
    <3> HIDE DEF B
    <3>3. Named(box, joins) = [box EXCEPT ![Len(front) + 1] = last2]
      BY <1>3, <2>2 DEF Named
    <3> HIDE DEF last2
    <3> QED BY <2>1, <3>1, <3>2, <3>3, SetLast
  <2> DEFINE B == ToSet(front) \cup {last, last2, j}
  <2>10. front \in Seq(B) /\ last \in B /\ last2 \in B /\ j \in B
    <3>1. front \in Seq(ToSet(front)) BY <2>1 DEF Listed
    <3>2. Seq(ToSet(front)) \in SUBSET Seq(B) BY SeqGrows
    <3> QED BY <3>1, <3>2
  <2>11. \A x \in B : IntentOK(x, t, n)
    <3>1. DOMAIN front = 1..Len(front) BY <2>1 DEF Listed
    <3> HIDE DEF last2
    <3> QED BY <1>1, <2>5, <2>8, <3>1 DEF ToSet
  <2> HIDE DEF B
  <2>12. CASE last.txn # None
    <3>1. last2 = last
      <4>1. unit = last.txn BY <2>6, <2>12
      <4> QED BY <2>8, <4>1 DEF Shaped, Parts
    <3> HIDE DEF last2
    <3>2. /\ box \in Seq(B) /\ box # <<>> /\ box[Len(box)].txn = j.txn /\ j.txn # None
      BY <1>1, <2>1, <2>2, <2>7, <2>8, <2>10, <3>1, Appended
    <3>3. \A k \in 1..Len(box) : box[k].txn = j.txn => box[k].base = n
      <4> TAKE k \in 1..Len(box)
      <4>1. CASE k = Len(front) + 1 BY <2>2, <2>4, <4>1
      <4>2. CASE k \in 1..Len(front) BY <1>1, <2>2, <2>4, <2>6, <2>12, <4>2
      <4> QED BY <2>2, <4>1, <4>2
    <3>4. Follows(plan(Append(box, j)), plan(box), j)
      BY <1>1, <2>10, <2>11, <3>2, <3>3, JoinedFollows
    <3> HIDE DEF plan
    <3>5. Follows(plan(Append(box, j)), plan(box), i) BY <1>1, <3>4, SameStep DEF j
    <3>6. Named(box, joins) = box BY <2>1, <2>9, <3>1
    <3> QED BY <1>0, <3>5, <3>6 DEF j
  <2>13. CASE last.txn = None
    <3> DEFINE box2 == Append(front, last2)
    <3>1. unit = last.id BY <2>6, <2>13
    <3>2. \A k \in 1..Len(front) : front[k].txn # last2.txn BY <2>4, <2>8, <3>1
    <3>3. Follows(plan(Append(front, last)), plan(front), last)
      <4> HIDE DEF last2
      <4> QED BY <2>4, <2>10, <2>11, <2>13, AloneFollows
    <3> HIDE DEF last2
    <3>4. Follows(plan(box2), plan(front), last2)
      BY <2>8, <2>10, <2>11, <3>2, AloneFollows
    <3>5. /\ box2 \in Seq(B) /\ box2 # <<>> /\ Len(box2) = Len(front) + 1 /\ box2[Len(box2)] = last2
          /\ \A k \in 1..Len(front) : box2[k] = front[k]
      BY <2>10, Appended
    <3> HIDE DEF box2, plan
    <3>6. Follows(plan(box2), plan(front), last) BY <2>8, <3>4, SameStep DEF last2
    <3>7. \A k \in 1..Len(box2) : box2[k].txn = j.txn => box2[k].base = n
      <4> TAKE k \in 1..Len(box2)
      <4>1. CASE k = Len(front) + 1 BY <2>8, <3>5, <4>1
      <4>2. CASE k \in 1..Len(front) BY <1>1, <2>8, <3>2, <3>5, <4>2
      <4> QED BY <2>2, <3>5, <4>1, <4>2
    <3>8. box2[Len(box2)].txn = j.txn /\ j.txn # None BY <1>1, <2>7, <2>8, <3>5
    <3>9. Follows(plan(Append(box2, j)), plan(box2), j)
      BY <1>1, <2>10, <2>11, <3>5, <3>7, <3>8, JoinedFollows DEF plan
    <3>10. Follows(plan(Append(box2, j)), plan(box2), i) BY <1>1, <3>9, SameStep DEF j
    <3>11. /\ plan(box2).head = plan(box).head
           /\ Prediction(plan(box2).rows) = Prediction(plan(box).rows)
      BY <2>1, <3>3, <3>6 DEF Follows
    <3>12. Follows(plan(Append(box2, j)), plan(box), i)
      BY <3>10, <3>11 DEF Follows, Answer
    <3>13. Named(box, joins) = box2 BY <2>9 DEF box2
    <3> QED BY <1>0, <3>12, <3>13 DEF j
  <2> QED BY <2>12, <2>13
<1> QED BY <1>2, <1>3

-----------------------------------------------------------------------------
(* What a tab has pending: its own intents, numbered as it made them, each *)
(* of no unit or in one named after an intent of the tab that is not later *)
(* and based where the others of its unit are.                             *)
Numbering(num, box, t, made) ==
  /\ num \in [1..Len(box) -> 1..made]
  /\ \A j, k \in 1..Len(box) : j < k => num[j] < num[k]
  /\ \A k \in 1..Len(box) :
       /\ box[k].id = <<t, num[k]>>
       /\ box[k].txn = None \/ \E m \in 1..num[k] : box[k].txn = <<t, m>>

Tied(box) ==
  \A j, k \in 1..Len(box) :
    box[j].txn = box[k].txn /\ box[j].txn # None => box[j].base = box[k].base

BoxOK(box, t, n, made) ==
  /\ Listed(box) /\ \A k \in 1..Len(box) : IntentOK(box[k], t, n)
  /\ Tied(box) /\ \E num : Numbering(num, box, t, made)

(* The server's plan of such a batch, and a tab's.                         *)
LEMMA BatchPlanned ==
  ASSUME NEW l, Listed(l), NEW t, NEW box, Listed(box),
         \A k \in 1..Len(box) : IntentOK(box[k], t, Len(l)), NEW genesis
  PROVE  /\ PlanOK(PlanBatch(box, l, genesis), t, Len(l))
         /\ Len(PlanBatch(box, l, genesis).rows) = Len(box)
<1> DEFINE B == ToSet(box)
           E == ToSet(l)
           docAt == [n \in 0 .. Len(l) |-> Replay(genesis, SubSeq(l, 1, n))]
           G == GroupUnits(box)
<1>1. box \in Seq(B) /\ l \in Seq(E) BY DEF Listed
<1>2. \A i \in B : IntentOK(i, t, Len(l))
  <2>1. DOMAIN box = 1..Len(box) BY <1>1
  <2> QED BY <2>1 DEF ToSet
<1>3. PlanBatch(box, l, genesis) = Plans(G, l, docAt) BY PlanIsPlans DEF PlanBatch
<1> HIDE DEF B, E, docAt
<1>4. /\ PlanOK(Plans(G, l, docAt), t, Len(l))
      /\ Len(Plans(G, l, docAt).rows) = Len(box)
  BY <1>1, <1>2, PlanLength
<1> QED BY <1>3, <1>4

(* Planning nothing over nothing shows the genesis document.               *)
LEMMA NothingPlanned ==
  ASSUME NEW genesis
  PROVE  /\ PlanBatch(<<>>, <<>>, genesis).head = genesis
         /\ PlanBatch(<<>>, <<>>, genesis).rows = <<>>
<1> DEFINE docAt == [n \in 0 .. Len(<<>>) |-> Replay(genesis, SubSeq(<<>>, 1, n))]
<1>1. PlanBatch(<<>>, <<>>, genesis) = Plans(<<>>, <<>>, docAt)
  BY PlanIsPlans, GroupNothing DEF PlanBatch
<1>2. docAt[0] = genesis
  <2>1. SubSeq(<<>>, 1, 0) = <<>> /\ Len(<<>>) = 0 OBVIOUS
  <2>2. docAt[0] = Replay(genesis, SubSeq(<<>>, 1, 0)) BY <2>1
  <2> QED BY <2>1, <2>2, ReplayNothing
<1> HIDE DEF docAt
<1>3. Plans(<<>>, <<>>, docAt) = Start(<<>>, docAt) BY PlansNothing
<1>4. Start(<<>>, docAt).head = docAt[0] /\ Start(<<>>, docAt).rows = <<>> BY DEF Start
<1> QED BY <1>1, <1>2, <1>3, <1>4

(* What a plan accepts are intents of the batch's author.                  *)
LEMMA AcceptedTyped ==
  ASSUME NEW n \in Nat, NEW t, NEW plan, PlanOK(plan, t, n)
  PROVE  /\ Listed(Accepted(plan.rows))
         /\ \A k \in 1..Len(Accepted(plan.rows)) : IntentOK(Accepted(plan.rows)[k], t, n)
<1> DEFINE rows == plan.rows
           R == {i \in UNION {ToSet(rows[k].accepted) : k \in 1..Len(rows)} : IntentOK(i, t, n)}
           a == [k \in DOMAIN rows |-> rows[k].accepted]
<1>1. Listed(rows) /\ \A k \in 1..Len(rows) : RowOK(rows[k], t, n) BY DEF PlanOK
<1> HIDE DEF rows
<1>2. Len(rows) \in Nat /\ DOMAIN rows = 1..Len(rows) BY <1>1 DEF Listed
<1>3. ASSUME NEW k \in 1..Len(rows) PROVE rows[k].accepted \in Seq(R)
  <2>1. CASE rows[k].accepted = <<>>
    <3> HIDE DEF R
    <3> QED BY <2>1
  <2>2. ASSUME NEW i, rows[k].accepted = <<i>>, IntentOK(i, t, n) PROVE rows[k].accepted \in Seq(R)
    <3>1. i \in ToSet(rows[k].accepted) BY <2>2 DEF ToSet
    <3>2. i \in R BY <2>2, <3>1
    <3> HIDE DEF R
    <3> QED BY <2>2, <3>2
  <2> QED BY <1>1, <2>1, <2>2 DEF RowOK
<1>4. \A i \in R : IntentOK(i, t, n) OBVIOUS
<1> HIDE DEF R
<1>5. a \in Seq(Seq(R)) BY <1>2, <1>3
<1>6. Accepted(rows) = FlattenSeq(a) BY DEF Accepted
<1> HIDE DEF a
<1>7. Accepted(rows) \in Seq(R) BY <1>5, <1>6, FlattenType
<1>8. Listed(Accepted(rows)) /\ \A k \in 1..Len(Accepted(rows)) : Accepted(rows)[k] \in R
  BY <1>7, ListedSeq
<1> QED BY <1>4, <1>8 DEF rows

(* The statuses of a batch's rows are what the server settles it as.       *)
LEMMA Predicted ==
  ASSUME NEW n \in Nat, NEW t, NEW plan, PlanOK(plan, t, n)
  PROVE  /\ Listed(Prediction(plan.rows)) /\ Len(Prediction(plan.rows)) = Len(plan.rows)
         /\ \A k \in 1..Len(Prediction(plan.rows)) : Prediction(plan.rows)[k][2] \in Statuses
<1>1. Listed(plan.rows) /\ \A k \in 1..Len(plan.rows) : RowOK(plan.rows[k], t, n) BY DEF PlanOK
<1>2. /\ Listed(Prediction(plan.rows)) /\ Len(Prediction(plan.rows)) = Len(plan.rows)
      /\ \A k \in 1..Len(plan.rows) :
           Prediction(plan.rows)[k] = <<plan.rows[k].intent.id, plan.rows[k].status>>
  BY <1>1, PredictionListed
<1>3. \A x, y : <<x, y>>[2] = y OBVIOUS
<1>4. \A k \in 1..Len(plan.rows) : Prediction(plan.rows)[k][2] = plan.rows[k].status
  BY <1>2, <1>3
<1>5. \A k \in 1..Len(plan.rows) : plan.rows[k].status \in Statuses BY <1>1 DEF RowOK
<1> QED BY <1>2, <1>4, <1>5

(* An intent more in the outbox, in the unit of the last one or alone.     *)
LEMMA BoxGrows ==
  ASSUME NEW t \in Tabs, NEW n \in Nat, NEW made \in Nat, NEW box, BoxOK(box, t, n, made),
         NEW i, IntentOK(i, t, n), i.base = n, i.id = <<t, made + 1>>,
         NEW joins \in BOOLEAN, joins => box # <<>> /\ Last(box).base = n
  PROVE  /\ BoxOK(Append(Named(box, joins), [i EXCEPT !.txn = UnitOf(box, joins)]), t, n, made + 1)
         /\ joins => /\ Last(box).id # None
                     /\ \A k \in 1..(Len(box) - 1) : box[k].txn # Last(box).id
<1> DEFINE m == Len(box)
           unit == UnitOf(box, joins)
           box2 == Named(box, joins)
           i2 == [i EXCEPT !.txn = unit]
           all == Append(box2, i2)
<1>0. /\ Listed(box) /\ m \in Nat /\ \A k \in 1..m : IntentOK(box[k], t, n)
      /\ Tied(box) /\ box = [k \in 1..m |-> box[k]]
  BY DEF BoxOK, Listed
<1>1. PICK num : Numbering(num, box, t, made) BY DEF BoxOK
<1>2. /\ num \in [1..m -> 1..made] /\ \A j, k \in 1..m : j < k => num[j] < num[k]
      /\ \A k \in 1..m : box[k].id = <<t, num[k]>>
      /\ \A k \in 1..m : box[k].txn = None \/ \E q \in 1..num[k] : box[k].txn = <<t, q>>
  BY <1>1 DEF Numbering
<1>n. \A q \in Nat : <<t, q>> # None BY NoneNamesNothing
<1>3. ASSUME joins
      PROVE  /\ m \in 1..m /\ m - 1 \in Nat /\ Last(box) = box[m]
             /\ \A k \in 1..(m - 1) : box[k].txn # box[m].id
             /\ box[m].id # None /\ box[m].base = n
  <2>1. m \in 1..m /\ Last(box) = box[m] /\ m - 1 \in Nat
    <3>1. box # <<>> BY <1>3
    <3>2. m # 0
      <4>1. box \in Seq(ToSet(box)) BY <1>0 DEF Listed
      <4> QED BY <3>1, <4>1
    <3> QED BY <1>0, <3>2 DEF Last
  <2>2. box[m].id = <<t, num[m]>> /\ num[m] \in Nat BY <1>2, <2>1
  <2>3. ASSUME NEW k \in 1..(m - 1) PROVE box[k].txn # box[m].id
    <3>1. k \in 1..m /\ k < m BY <1>0, <2>1
    <3>2. num[k] < num[m] /\ num[k] \in Nat BY <1>2, <2>1, <3>1
    <3>3. ASSUME NEW q \in 1..num[k] PROVE <<t, q>> # <<t, num[m]>>
      <4>1. q # num[m] BY <2>2, <3>2
      <4> QED BY <4>1
    <3>4. box[k].txn = None \/ \E q \in 1..num[k] : box[k].txn = <<t, q>> BY <1>2, <3>1
    <3> QED BY <1>n, <2>2, <3>3, <3>4
  <2> QED BY <1>n, <1>3, <2>1, <2>2, <2>3
<1>4. /\ Shaped(i2) /\ i2.id = <<t, made + 1>> /\ i2.base = n /\ i2.actor = t /\ i2.txn = unit
      /\ IntentOK(i2, t, n)
  <2>1. Shaped(i) /\ i.actor = t BY DEF IntentOK
  <2>2. Shaped(i2) /\ i2.id = i.id /\ i2.base = i.base /\ i2.actor = i.actor /\ i2.txn = unit
    BY <2>1, SameButUnit
  <2> QED BY <2>1, <2>2 DEF IntentOK
<1>5. /\ Listed(box2) /\ Len(box2) = m
      /\ \A k \in 1..m : /\ IntentOK(box2[k], t, n) /\ box2[k].id = box[k].id
                         /\ box2[k].base = box[k].base
                         /\ box2[k].txn = IF joins /\ k = m THEN unit ELSE box[k].txn
  <2>1. CASE ~joins BY <1>0, <2>1 DEF Named
  <2>2. CASE joins
    <3> DEFINE last == box[m]
               last2 == [last EXCEPT !.txn = unit]
    <3>1. box2 = [box EXCEPT ![m] = last2] BY <2>2 DEF Named
    <3>2. IntentOK(last, t, n) BY <1>0, <1>3, <2>2
    <3>3. /\ Shaped(last2) /\ last2.id = last.id /\ last2.base = last.base /\ last2.txn = unit
          /\ last2.actor = last.actor
      BY <3>2, SameButUnit DEF IntentOK
    <3>4. IntentOK(last2, t, n) BY <3>2, <3>3 DEF IntentOK
    <3>5. box2[m] = last2 /\ \A k \in 1..m : k # m => box2[k] = box[k]
      <4> HIDE DEF last2, box2
      <4> QED BY <1>0, <1>3, <2>2, <3>1
    <3>6. box2 \in Seq(ToSet(box) \cup {last2}) /\ Len(box2) = m
      <4>1. box \in Seq(ToSet(box)) BY <1>0 DEF Listed
      <4> DEFINE S == ToSet(box) \cup {last2}
      <4>2. box \in Seq(S) /\ last2 \in S BY <4>1
      <4> HIDE DEF S, last2, box2
      <4>3. box2 \in Seq(S) /\ Len(box2) = m BY <1>0, <1>3, <2>2, <3>1, <4>2
      <4> QED BY <4>3 DEF S
    <3>7. Listed(box2) BY <3>6, ListedSeq
    <3> HIDE DEF last2, box2, last
    <3>8. ASSUME NEW k \in 1..m
          PROVE  /\ IntentOK(box2[k], t, n) /\ box2[k].id = box[k].id
                 /\ box2[k].base = box[k].base
                 /\ box2[k].txn = IF joins /\ k = m THEN unit ELSE box[k].txn
      <4>1. CASE k = m BY <2>2, <3>3, <3>4, <3>5, <4>1 DEF last
      <4>2. CASE k # m BY <1>0, <3>5, <4>2
      <4> QED BY <4>1, <4>2
    <3> QED BY <3>6, <3>7, <3>8
  <2> QED BY <2>1, <2>2
<1>6. joins => \/ box[m].txn # None /\ unit = box[m].txn
               \/ box[m].txn = None /\ unit = box[m].id
  BY <1>3 DEF UnitOf
<1>7. ~joins => unit = None BY DEF UnitOf
<1> HIDE DEF box2, i2, unit
<1>8. /\ Listed(all) /\ Len(all) = m + 1 /\ all[m + 1] = i2 /\ \A k \in 1..m : all[k] = box2[k]
  BY <1>5, ListedAppend
<1> HIDE DEF all, m
<1> DEFINE num2 == [k \in 1..(m + 1) |-> IF k = m + 1 THEN made + 1 ELSE num[k]]
<1>9. Numbering(num2, all, t, made + 1)
  <2>1. num2[m + 1] = made + 1 /\ \A k \in 1..m : num2[k] = num[k] /\ num[k] \in 1..made
    BY <1>0, <1>2
  <2>2. \A k \in 1..(m + 1) : k \in 1..m \/ k = m + 1 BY <1>0
  <2>3. num2 \in [1..(m + 1) -> 1..(made + 1)]
    <3>1. ASSUME NEW k \in 1..(m + 1) PROVE num2[k] \in 1..(made + 1)
      <4> HIDE DEF num2
      <4>1. CASE k \in 1..m
        <5>1. num2[k] \in 1..made BY <2>1, <4>1
        <5> QED BY <5>1
      <4>2. CASE k = m + 1 BY <2>1, <4>2
      <4> QED BY <2>2, <4>1, <4>2
    <3> QED BY <3>1
  <2> HIDE DEF num2
  <2>4. \A j, k \in 1..(m + 1) : j < k => num2[j] < num2[k]
    <3> TAKE j, k \in 1..(m + 1)
    <3> HAVE j < k
    <3>1. j \in 1..m BY <1>0
    <3>2. CASE k \in 1..m BY <1>2, <2>1, <3>1, <3>2
    <3>3. CASE k = m + 1 BY <2>1, <3>1, <3>3
    <3> QED BY <2>2, <3>2, <3>3
  <2>5. ASSUME NEW k \in 1..(m + 1)
        PROVE  /\ all[k].id = <<t, num2[k]>>
               /\ all[k].txn = None \/ \E q \in 1..num2[k] : all[k].txn = <<t, q>>
    <3>0. joins => \E q \in 1..num[m] : unit = <<t, q>>
      <4> SUFFICES ASSUME joins PROVE \E q \in 1..num[m] : unit = <<t, q>> OBVIOUS
      <4>1. m \in 1..m BY <1>3 DEF m
      <4>2. CASE box[m].txn # None /\ unit = box[m].txn BY <1>2, <4>1, <4>2
      <4>3. CASE unit = box[m].id
        <5>1. num[m] \in 1..num[m] /\ unit = <<t, num[m]>> BY <1>2, <4>1, <4>3
        <5> QED BY <5>1
      <4> QED BY <1>6, <4>2, <4>3
    <3>1. CASE k \in 1..m
      <4>1. all[k].id = <<t, num2[k]>> BY <1>2, <1>5, <1>8, <2>1, <3>1
      <4>2. CASE joins /\ k = m
        <5>1. all[k].txn = unit /\ num2[k] = num[m] BY <1>5, <1>8, <2>1, <3>1, <4>2
        <5> QED BY <3>0, <4>1, <4>2, <5>1
      <4>3. CASE ~(joins /\ k = m)
        <5>1. all[k].txn = box[k].txn BY <1>5, <1>8, <3>1, <4>3
        <5> QED BY <1>2, <2>1, <3>1, <4>1, <5>1
      <4> QED BY <4>1, <4>2, <4>3
    <3>2. CASE k = m + 1
      <4>1. all[k].id = <<t, num2[k]>> /\ all[k].txn = unit BY <1>4, <1>8, <2>1, <3>2
      <4>2. CASE joins
        <5>1. PICK q \in 1..num[m] : unit = <<t, q>> BY <3>0, <4>2
        <5>2. m \in 1..m BY <1>3, <4>2 DEF m
        <5>3. q \in 1..num2[k] BY <2>1, <3>2, <5>2
        <5> QED BY <4>1, <5>1, <5>3
      <4>3. CASE ~joins BY <1>7, <4>1, <4>3
      <4> QED BY <4>2, <4>3
    <3> QED BY <2>2, <3>1, <3>2
  <2> QED BY <1>8, <2>3, <2>4, <2>5 DEF Numbering
<1> HIDE DEF num2
<1>10. Tied(all)
  <2>1. ASSUME NEW k \in 1..(m + 1)
        PROVE  \/ joins /\ k \in {m, m + 1} /\ all[k].txn = unit /\ all[k].base = n
               \/ ~joins /\ k = m + 1 /\ all[k].txn = None
               \/ k \in 1..m /\ (joins => k # m) /\ all[k].txn = box[k].txn /\ all[k].base = box[k].base
    <3>1. CASE k = m + 1 BY <1>4, <1>7, <1>8, <3>1
    <3>2. CASE k \in 1..m /\ joins /\ k = m
      <4>1. box[m].base = n BY <1>3, <3>2 DEF m
      <4> QED BY <1>5, <1>8, <3>2, <4>1
    <3>3. CASE k \in 1..m /\ ~(joins /\ k = m) BY <1>5, <1>8, <3>3
    <3>4. k = m + 1 \/ k \in 1..m BY <1>0
    <3> QED BY <3>1, <3>2, <3>3, <3>4
  <2>2. ASSUME joins, NEW k \in 1..m, k # m, box[k].txn = unit PROVE box[k].base = n
    <3>1. m \in 1..m /\ k \in 1..(m - 1) /\ box[m].base = n BY <1>0, <1>3, <2>2 DEF m
    <3>2. unit # box[m].id
      <4>1. box[k].txn # box[m].id BY <1>3, <2>2, <3>1 DEF m
      <4> QED BY <2>2, <4>1
    <3>3. unit = box[m].txn /\ unit # None BY <1>6, <2>2, <3>2
    <3> QED BY <1>0, <2>2, <3>1, <3>3 DEF Tied
  <2>3. ASSUME NEW j \in 1..(m + 1), NEW k \in 1..(m + 1), all[j].txn = all[k].txn, all[j].txn # None
        PROVE  all[j].base = all[k].base
    <3>1. CASE j \in 1..m /\ all[j].txn = box[j].txn /\ all[j].base = box[j].base
               /\ k \in 1..m /\ all[k].txn = box[k].txn /\ all[k].base = box[k].base
      BY <1>0, <2>3, <3>1 DEF Tied, m
    <3> QED BY <2>1, <2>2, <2>3, <3>1
  <2> QED BY <1>8, <2>3 DEF Tied
<1>11. \A k \in 1..Len(all) : IntentOK(all[k], t, n)
  <2> TAKE k \in 1..Len(all)
  <2>1. k = m + 1 \/ k \in 1..m BY <1>0, <1>8
  <2> QED BY <1>4, <1>5, <1>8, <2>1
<1>12. BoxOK(all, t, n, made + 1) BY <1>8, <1>9, <1>10, <1>11 DEF BoxOK
<1> QED BY <1>3, <1>12 DEF all, m, box2, i2, unit

-----------------------------------------------------------------------------
(* The invariant.  A tab's pending intents are its own, in the order it    *)
(* made them, none based past the tab's cursor, and a unit's are of one    *)
(* base; what the tab shows is the plan of these over its copy of the log. *)
TabParts     == {"cursor", "outbox", "sent", "made", "doc", "predicted"}
TabShaped(w) == w = [x \in TabParts |-> w[x]]

Shows(w, plan) == w.doc = plan.head /\ w.predicted = Prediction(plan.rows)

PlanOf(w, l, genesis) == PlanBatch(w.outbox, SubSeq(l, 1, w.cursor), genesis)

TabOK(w, t, l, s) ==
  /\ TabShaped(w) /\ w.cursor \in 0..Len(l) /\ w.made \in 0..Len(s.menu[t])
  /\ BoxOK(w.outbox, t, w.cursor, w.made)
  /\ Shows(w, PlanOf(w, l, s.genesis))

LogOK(l) ==
  /\ Listed(l)
  /\ \A k \in 1..Len(l) : l[k].actor \in Tabs /\ l[k].base \in 0..(k - 1)

SettledOK(a) == Listed(a) /\ \A k \in 1..Len(a) : a[k][2] \in Statuses

EditingInv ==
  /\ scene \in Scenes /\ LogOK(log) /\ SettledOK(settled)
  /\ tab = [t \in Tabs |-> tab[t]]
  /\ \A t \in Tabs : TabOK(tab[t], t, log, scene)

(* The copy that a tab has of the log.                                     *)
LEMMA CopyOfLog ==
  ASSUME NEW l, Listed(l), NEW n \in 0..Len(l)
  PROVE  Listed(SubSeq(l, 1, n)) /\ Len(SubSeq(l, 1, n)) = n /\ n \in Nat /\ Len(l) \in Nat
<1>1. l \in Seq(ToSet(l)) BY DEF Listed
<1>2. SubSeq(l, 1, n) \in Seq(ToSet(l)) /\ Len(SubSeq(l, 1, n)) = n BY <1>1, Prefix
<1>3. Len(l) \in Nat BY <1>1
<1>4. n \in Nat BY <1>3
<1> DEFINE p == SubSeq(l, 1, n)
<1> HIDE DEF p
<1>5. Listed(p) BY <1>2, ListedSeq DEF p
<1> QED BY <1>2, <1>3, <1>4, <1>5 DEF p

(* A tab shows what its replan would make it show.                         *)
LEMMA ScreenShows ==
  ASSUME NEW w, TabShaped(w), NEW plan
  PROVE  /\ TabShaped(Screen(w, plan)) /\ Shows(Screen(w, plan), plan)
         /\ Screen(w, plan).cursor = w.cursor /\ Screen(w, plan).outbox = w.outbox
         /\ Screen(w, plan).sent = w.sent /\ Screen(w, plan).made = w.made
         /\ Shows(w, plan) => Screen(w, plan) = w
<1> DEFINE p == Prediction(plan.rows)
           h == plan.head
           v == [w EXCEPT !.doc = h, !.predicted = p]
<1>1. Screen(w, plan) = v BY DEF Screen
<1>2. Shows(w, plan) <=> w.doc = h /\ w.predicted = p BY DEF Shows
<1>3. Shows(v, plan) <=> v.doc = h /\ v.predicted = p BY DEF Shows
<1> HIDE DEF p, h
<1>4. /\ TabShaped(v) /\ v.doc = h /\ v.predicted = p /\ v.cursor = w.cursor /\ v.outbox = w.outbox
      /\ v.sent = w.sent /\ v.made = w.made
  BY DEF TabShaped, TabParts
<1>5. w.doc = h /\ w.predicted = p => v = w
  BY DEF TabShaped, TabParts
<1> QED BY <1>1, <1>2, <1>3, <1>4, <1>5

(* A tab that replans is as the invariant wants it.                        *)
LEMMA ReplanOK ==
  ASSUME NEW t \in Tabs, NEW w, TabShaped(w), w.cursor \in 0..Len(log),
         w.made \in 0..Len(scene.menu[t]), BoxOK(w.outbox, t, w.cursor, w.made)
  PROVE  TabOK(Replan(w), t, log, scene)
<1> DEFINE plan == PlanOf(w, log, scene.genesis)
           v == Screen(w, plan)
<1>1. Replan(w) = v BY DEF Replan, PlanOf
<1>2. /\ TabShaped(v) /\ Shows(v, plan) /\ v.cursor = w.cursor /\ v.outbox = w.outbox
      /\ v.made = w.made
  BY ScreenShows
<1> HIDE DEF v
<1>3. PlanOf(v, log, scene.genesis) = plan BY <1>2 DEF PlanOf
<1> HIDE DEF plan
<1> QED BY <1>1, <1>2, <1>3 DEF TabOK

(* What the invariant is for.                                              *)
LEMMA InvReplanned == EditingInv => ScreenIsReplan
<1> SUFFICES ASSUME EditingInv, NEW t \in Tabs PROVE Replan(tab[t]) = tab[t]
  BY DEF ScreenIsReplan
<1>1. TabShaped(tab[t]) /\ Shows(tab[t], PlanOf(tab[t], log, scene.genesis))
  BY DEF EditingInv, TabOK
<1> QED BY <1>1, ScreenShows DEF Replan, PlanOf

(* The invariant gives the types.                                          *)
LEMMA InvTyped == EditingInv => TypeOK
<1> SUFFICES ASSUME EditingInv PROVE TypeOK OBVIOUS
<1>1. DOMAIN log = 1..Len(log) /\ DOMAIN settled = 1..Len(settled)
  BY DEF EditingInv, LogOK, SettledOK, Listed
<1>2. \A k \in DOMAIN log : log[k].actor \in Tabs /\ log[k].base \in 0 .. (k - 1)
  BY <1>1 DEF EditingInv, LogOK
<1>3. \A k \in DOMAIN settled : settled[k][2] \in Statuses
  BY <1>1 DEF EditingInv, SettledOK
<1>4. ASSUME NEW t \in Tabs
      PROVE  /\ tab[t].cursor \in 0 .. Len(log) /\ tab[t].made \in 0 .. Len(scene.menu[t])
             /\ \A i \in ToSet(tab[t].outbox) : i.base <= tab[t].cursor
             /\ Len(tab[t].predicted) = Len(tab[t].outbox)
  <2> DEFINE w == tab[t]
             n == w.cursor
             l == SubSeq(log, 1, n)
             plan == PlanBatch(w.outbox, l, scene.genesis)
  <2>1. /\ n \in 0..Len(log) /\ w.made \in 0..Len(scene.menu[t])
        /\ Listed(w.outbox) /\ \A k \in 1..Len(w.outbox) : IntentOK(w.outbox[k], t, n)
        /\ w.predicted = Prediction(plan.rows) /\ Listed(log)
    BY DEF EditingInv, TabOK, BoxOK, Shows, PlanOf, LogOK
  <2>2. DOMAIN w.outbox = 1..Len(w.outbox) BY <2>1 DEF Listed
  <2>3. \A i \in ToSet(w.outbox) : i.base \in 0..n BY <2>1, <2>2 DEF ToSet, IntentOK
  <2>4. Listed(l) /\ Len(l) = n /\ n \in Nat BY <2>1, CopyOfLog
  <2>5. PlanOK(plan, t, n) /\ Len(plan.rows) = Len(w.outbox)
    <3> HIDE DEF w, l, n
    <3>1. /\ Listed(l) /\ Listed(w.outbox)
          /\ \A k \in 1..Len(w.outbox) : IntentOK(w.outbox[k], t, Len(l))
      BY <2>1, <2>4
    <3>2. /\ PlanOK(PlanBatch(w.outbox, l, scene.genesis), t, Len(l))
          /\ Len(PlanBatch(w.outbox, l, scene.genesis).rows) = Len(w.outbox)
      BY <3>1, BatchPlanned
    <3> QED BY <2>4, <3>2
  <2>6. Len(Prediction(plan.rows)) = Len(plan.rows)
    <3> HIDE DEF plan, l, n
    <3> QED BY <2>4, <2>5, Predicted
  <2>7. \A i \in ToSet(w.outbox) : i.base <= n BY <2>3, <2>4
  <2> QED BY <2>1, <2>5, <2>6, <2>7
<1> QED BY <1>2, <1>3, <1>4 DEF TypeOK

(* The invariant holds when the tabs open.                                 *)
LEMMA InitInv == Init => EditingInv
<1> SUFFICES ASSUME Init PROVE EditingInv OBVIOUS
<1>1. /\ scene \in Scenes /\ log = <<>> /\ settled = <<>>
      /\ tab = [t \in Tabs |-> [cursor |-> 0, outbox |-> <<>>, sent |-> {}, made |-> 0,
                                doc |-> scene.genesis, predicted |-> <<>>]]
  BY DEF Init
<1>e. Listed(<<>>) /\ Len(<<>>) = 0 /\ SubSeq(<<>>, 1, 0) = <<>> BY DEF Listed
<1>2. LogOK(log) /\ SettledOK(settled) BY <1>1, <1>e DEF LogOK, SettledOK
<1>3. ASSUME NEW t \in Tabs PROVE TabOK(tab[t], t, log, scene)
  <2> DEFINE w == tab[t]
  <2>1. /\ w.cursor = 0 /\ w.outbox = <<>> /\ w.made = 0 /\ w.doc = scene.genesis
        /\ w.predicted = <<>>
    BY <1>1
  <2>2. TabShaped(w) BY <1>1 DEF TabShaped, TabParts
  <2>3. Len(scene.menu[t]) \in Nat
    <3>1. scene.menu \in [Tabs -> Seq(SUBSET Kinds)] BY <1>1, MenusAreLists
    <3>2. scene.menu[t] \in Seq(SUBSET Kinds) BY <3>1
    <3> QED BY <3>2
  <2> HIDE DEF w
  <2>4. Tied(<<>>) BY DEF Tied
  <2>5. Numbering([k \in 1..0 |-> 0], <<>>, t, 0) BY DEF Numbering
  <2>6. BoxOK(<<>>, t, 0, 0) BY <1>e, <2>4, <2>5 DEF BoxOK
  <2>7. PlanOf(w, log, scene.genesis) = PlanBatch(<<>>, <<>>, scene.genesis)
    BY <1>1, <1>e, <2>1 DEF PlanOf
  <2>8. Prediction(<<>>) = <<>> BY DEF Prediction
  <2>9. Shows(w, PlanOf(w, log, scene.genesis))
    BY <2>1, <2>7, <2>8, NothingPlanned DEF Shows
  <2>10. 0 \in 0..Len(log) /\ 0 \in 0..Len(scene.menu[t]) BY <1>1, <1>e, <2>3
  <2> QED BY <2>1, <2>2, <2>6, <2>9, <2>10 DEF TabOK, w
<1>4. tab = [t \in Tabs |-> tab[t]] BY <1>1
<1> QED BY <1>1, <1>2, <1>3, <1>4 DEF EditingInv

-----------------------------------------------------------------------------
(* The steps.  Whatever a tab authors is an intent of its own at its cursor. *)
LEMMA AuthoredIs ==
  ASSUME NEW t, NEW i \in Authorable(t)
  PROVE  \E type, b, f, from, upto, to : i = Intent(t, type, b, f, from, upto, to)
<1> HIDE DEF Intent
<1> DEFINE Goal == \E type, b, f, from, upto, to : i = Intent(t, type, b, f, from, upto, to)
<1>1. i \in SpanIntents(t) => Goal BY DEF SpanIntents, AtSpan
<1>2. i \in Replacements(t) => Goal BY DEF Replacements
<1>3. i \in Merges(t) => Goal BY DEF Merges
<1>4. i \in Insertions(t) => Goal BY DEF Insertions
<1>5. i \in BlockIntents(t) => Goal BY DEF BlockIntents
<1> QED BY <1>1, <1>2, <1>3, <1>4, <1>5 DEF Authorable

(* Its id is new, and it is based on all that the tab has of the log.      *)
LEMMA AuthoredOK ==
  ASSUME NEW t \in Tabs, tab[t].cursor \in Nat, NEW i \in Authorable(t)
  PROVE  /\ IntentOK(i, t, tab[t].cursor) /\ i.base = tab[t].cursor
         /\ i.id = <<t, tab[t].made + 1>>
<1>1. PICK type, b, f, from, upto, to : i = Intent(t, type, b, f, from, upto, to) BY AuthoredIs
<1> DEFINE saw == Seen(tab[t].doc, b, f, from, upto)
           new == <<t, tab[t].made + 1>>
           n == tab[t].cursor
<1>2. i = [id |-> new, actor |-> t, base |-> n, txn |-> None, type |-> type, block |-> b,
           field |-> f, start |-> from, end |-> upto, to |-> to, saw |-> saw]
  BY <1>1 DEF Intent
<1>n. n \in 0..n OBVIOUS
<1> HIDE DEF saw, new, n
<1>3. Shaped(i) /\ i.actor = t /\ i.base = n /\ i.id = new BY <1>2 DEF Shaped, Parts
<1> QED BY <1>n, <1>3 DEF IntentOK, n, new

(* Nothing else a tab is judged by depends on the others' steps.           *)
LEMMA TabLater ==
  ASSUME NEW x, NEW s, TabOK(x, s, log, scene), Listed(log), NEW more, Listed(more)
  PROVE  TabOK(x, s, log \o more, scene)
<1> DEFINE R == ToSet(log) \cup ToSet(more)
<1>1. log \in Seq(R) /\ more \in Seq(R)
  <2>1. log \in Seq(ToSet(log)) /\ more \in Seq(ToSet(more)) BY DEF Listed
  <2>2. Seq(ToSet(log)) \in SUBSET Seq(R) /\ Seq(ToSet(more)) \in SUBSET Seq(R) BY SeqGrows
  <2> QED BY <2>1, <2>2
<1>2. x.cursor \in 0..Len(log) BY DEF TabOK
<1> HIDE DEF R
<1>3. SubSeq(log \o more, 1, x.cursor) = SubSeq(log, 1, x.cursor) BY <1>1, <1>2, PrefixOfConcat
<1>4. PlanOf(x, log \o more, scene.genesis) = PlanOf(x, log, scene.genesis) BY <1>3 DEF PlanOf
<1>5. x.cursor \in 0..Len(log \o more)
  <2>1. Len(log \o more) = Len(log) + Len(more) /\ Len(log) \in Nat /\ Len(more) \in Nat
    BY ListedConcat
  <2> QED BY <1>2, <2>1
<1> QED BY <1>4, <1>5 DEF TabOK

(* A step that changes one tab only keeps the invariant if it does for     *)
(* that tab.                                                               *)
LEMMA OneTab ==
  ASSUME EditingInv, NEW t \in Tabs, NEW w, tab' = [tab EXCEPT ![t] = w],
         UNCHANGED <<log, settled, scene>>, TabOK(w, t, log, scene)
  PROVE  EditingInv'
<1>1. /\ tab = [u \in Tabs |-> tab[u]] /\ \A s \in Tabs : TabOK(tab[s], s, log, scene)
      /\ Listed(log)
  BY DEF EditingInv, LogOK
<1>2. tab' = [u \in Tabs |-> tab'[u]] /\ tab'[t] = w /\ \A s \in Tabs : s # t => tab'[s] = tab[s]
  BY <1>1
<1>3. ASSUME NEW s \in Tabs PROVE TabOK(tab'[s], s, log', scene')
  <2>1. CASE s = t BY <1>2, <2>1
  <2>2. CASE s # t
    <3>1. tab'[s] = tab[s] /\ TabOK(tab[s], s, log, scene) BY <1>1, <1>2, <2>2
    <3> QED BY <3>1
  <2> QED BY <2>1, <2>2
<1>4. scene' \in Scenes /\ LogOK(log)' /\ SettledOK(settled)'
  BY DEF EditingInv, LogOK, SettledOK
<1> QED BY <1>2, <1>3, <1>4 DEF EditingInv

(* authorIntent: what the screen shows after the fast path is what a       *)
(* replan would show.                                                      *)
LEMMA AuthorStep ==
  ASSUME EditingInv, NEW t \in Tabs, Author(t) PROVE EditingInv'
<1> DEFINE w == tab[t]
           n == w.cursor
           l == SubSeq(log, 1, n)
           docAt == [k \in 0 .. Len(l) |-> Replay(scene.genesis, SubSeq(l, 1, k))]
           last == Last(w.outbox)
<1>1. PICK i \in Authorable(t), joins \in BOOLEAN :
        /\ joins => w.outbox # <<>> /\ last.base = n
        /\ tab' = [tab EXCEPT ![t] =
             [w EXCEPT !.outbox = Append(Named(w.outbox, joins), [i EXCEPT !.txn = UnitOf(w.outbox, joins)]),
                       !.made = @ + 1,
                       !.doc = ApplyIntent(@, i),
                       !.predicted = Append(@, <<i.id, IF Takes(w.doc, i) THEN "applied" ELSE "voided">>)]]
  BY Zenon DEF Author, Named, UnitOf
<1>2. w.made < Len(scene.menu[t]) /\ UNCHANGED <<log, settled, scene>> BY DEF Author
<1>3. /\ TabShaped(w) /\ n \in 0..Len(log) /\ w.made \in 0..Len(scene.menu[t])
      /\ BoxOK(w.outbox, t, n, w.made) /\ Shows(w, PlanOf(w, log, scene.genesis)) /\ Listed(log)
      /\ scene \in Scenes
  BY DEF EditingInv, TabOK, LogOK
<1>4. Listed(l) /\ Len(l) = n /\ n \in Nat BY <1>3, CopyOfLog
<1>5. IntentOK(i, t, n) /\ i.base = n /\ i.id = <<t, w.made + 1>> BY <1>4, AuthoredOK
<1>6. w.made \in Nat /\ w.made + 1 \in 0..Len(scene.menu[t])
  <2>1. scene.menu[t] \in Seq(SUBSET Kinds) BY <1>3, MenusAreLists
  <2>2. Len(scene.menu[t]) \in Nat BY <2>1
  <2> QED BY <1>2, <1>3, <2>2
<1> DEFINE unit == UnitOf(w.outbox, joins)
           box == Append(Named(w.outbox, joins), [i EXCEPT !.txn = unit])
           doc == ApplyIntent(w.doc, i)
           predicted == Append(w.predicted, <<i.id, IF Takes(w.doc, i) THEN "applied" ELSE "voided">>)
           v == [w EXCEPT !.outbox = box, !.made = @ + 1, !.doc = doc, !.predicted = predicted]
<1>7. tab' = [tab EXCEPT ![t] = v] BY <1>1
<1> HIDE DEF n, w
<1>8. /\ BoxOK(box, t, n, w.made + 1)
      /\ joins => /\ last.id # None
                  /\ \A k \in 1..(Len(w.outbox) - 1) : w.outbox[k].txn # last.id
  BY <1>1, <1>3, <1>4, <1>5, <1>6, BoxGrows
<1>9. /\ Listed(w.outbox) /\ \A k \in 1..Len(w.outbox) : IntentOK(w.outbox[k], t, n)
      /\ Tied(w.outbox)
  BY <1>3 DEF BoxOK
<1>10. joins => \A k \in 1..Len(w.outbox) :
                  w.outbox[k].txn = last.txn /\ w.outbox[k].txn # None => w.outbox[k].base = last.base
  <2> SUFFICES ASSUME joins, NEW k \in 1..Len(w.outbox), w.outbox[k].txn = last.txn,
                      w.outbox[k].txn # None
               PROVE  w.outbox[k].base = last.base
    OBVIOUS
  <2>1. Len(w.outbox) \in 1..Len(w.outbox) /\ last = w.outbox[Len(w.outbox)]
    <3>1. w.outbox # <<>> /\ w.outbox \in Seq(ToSet(w.outbox)) BY <1>1, <1>9 DEF Listed
    <3> QED BY <3>1 DEF Last
  <2> QED BY <1>9, <2>1 DEF Tied
<1>11. Follows(PlanOver(box, l, docAt), PlanOver(w.outbox, l, docAt), i)
  <2>1. l \in Seq(ToSet(l)) BY <1>4 DEF Listed
  <2> HIDE DEF l, docAt
  <2> QED BY <1>1, <1>4, <1>5, <1>8, <1>9, <1>10, <2>1, AuthorFollows
<1>12. /\ PlanOf(w, log, scene.genesis) = PlanOver(w.outbox, l, docAt)
       /\ PlanBatch(box, l, scene.genesis) = PlanOver(box, l, docAt)
  BY DEF PlanOf, PlanBatch, n
<1> HIDE DEF l, docAt, box
<1>13. doc = PlanOver(box, l, docAt).head /\ predicted = Prediction(PlanOver(box, l, docAt).rows)
  BY <1>3, <1>11, <1>12 DEF Follows, Answer, Shows
<1> HIDE DEF doc, predicted
<1>14. /\ TabShaped(v) /\ v.cursor = n /\ v.outbox = box /\ v.made = w.made + 1
       /\ v.doc = doc /\ v.predicted = predicted
  BY <1>3 DEF TabShaped, TabParts, n
<1> HIDE DEF v
<1>15. PlanOf(v, log, scene.genesis) = PlanOver(box, l, docAt) BY <1>12, <1>14 DEF PlanOf, l
<1>16. Shows(v, PlanOf(v, log, scene.genesis)) BY <1>13, <1>14, <1>15 DEF Shows
<1>17. TabOK(v, t, log, scene) BY <1>3, <1>6, <1>8, <1>14, <1>16 DEF TabOK
<1> QED BY <1>2, <1>7, <1>17, OneTab

(* A batch that may wait for a longer log.                                 *)
LEMMA BoxLater ==
  ASSUME NEW t, NEW n \in Nat, NEW m \in Nat, n <= m, NEW made, NEW box, BoxOK(box, t, n, made)
  PROVE  BoxOK(box, t, m, made)
<1>1. \A i : IntentOK(i, t, n) => IntentOK(i, t, m) BY DEF IntentOK
<1> QED BY <1>1 DEF BoxOK

(* A poll: the tab replans over a longer copy of the log.                  *)
LEMMA AbsorbStep ==
  ASSUME EditingInv, NEW t \in Tabs, Absorb(t) PROVE EditingInv'
<1> DEFINE w == tab[t]
<1>1. PICK n \in (w.cursor + 1) .. Len(log) :
        tab' = [tab EXCEPT ![t] = Replan([w EXCEPT !.cursor = n])]
  BY DEF Absorb
<1>2. /\ TabShaped(w) /\ w.cursor \in 0..Len(log) /\ w.made \in 0..Len(scene.menu[t])
      /\ BoxOK(w.outbox, t, w.cursor, w.made) /\ Len(log) \in Nat
  BY DEF EditingInv, TabOK, LogOK, Listed
<1> DEFINE v == [w EXCEPT !.cursor = n]
<1>3. TabShaped(v) /\ v.cursor = n /\ v.outbox = w.outbox /\ v.made = w.made
  BY <1>2 DEF TabShaped, TabParts
<1>4. tab' = [tab EXCEPT ![t] = Replan(v)] BY <1>1
<1> HIDE DEF v, w
<1>5. n \in 0..Len(log) /\ n \in Nat /\ w.cursor \in Nat /\ w.cursor <= n BY <1>2
<1>6. BoxOK(v.outbox, t, v.cursor, v.made) BY <1>2, <1>3, <1>5, BoxLater
<1>7. TabOK(Replan(v), t, log, scene) BY <1>2, <1>3, <1>5, <1>6, ReplanOK
<1>8. UNCHANGED <<log, settled, scene>> BY DEF Absorb
<1> QED BY <1>4, <1>7, <1>8, OneTab

(* What is left of a tab's pending intents is still in order.              *)
LEMMA BoxShrinks ==
  ASSUME NEW t, NEW n \in Nat, NEW made \in Nat, NEW box, BoxOK(box, t, n, made), NEW K
  PROVE  BoxOK(Kept(box, K), t, n, made)
<1> DEFINE left == Kept(box, K)
           B == ToSet(box)
<1>1. box \in Seq(B) /\ Tied(box) /\ \A k \in 1..Len(box) : IntentOK(box[k], t, n)
  BY DEF BoxOK, Listed
<1>2. PICK num : Numbering(num, box, t, made) BY DEF BoxOK
<1>3. PICK p : Places(p, box, K) BY <1>1, KeptPlaces
<1>4. left \in Seq(B) BY <1>1, KeptType
<1> HIDE DEF B
<1>5. /\ \A k \in 1..Len(left) : p[k] \in 1..Len(box) /\ left[k] = box[p[k]]
      /\ \A j, k \in 1..Len(left) : j < k => p[j] < p[k]
  BY <1>3 DEF Places
<1> HIDE DEF left
<1>6. Listed(left) BY <1>4, ListedSeq
<1>7. \A k \in 1..Len(left) : IntentOK(left[k], t, n) BY <1>1, <1>5
<1>8. Tied(left)
  <2> SUFFICES ASSUME NEW j \in 1..Len(left), NEW k \in 1..Len(left), left[j].txn = left[k].txn,
                      left[j].txn # None
               PROVE  left[j].base = left[k].base
    BY DEF Tied
  <2>1. /\ p[j] \in 1..Len(box) /\ p[k] \in 1..Len(box)
        /\ left[j] = box[p[j]] /\ left[k] = box[p[k]]
    BY <1>5
  <2> QED BY <1>1, <2>1 DEF Tied
<1> DEFINE num2 == [k \in 1..Len(left) |-> num[p[k]]]
<1>9. Numbering(num2, left, t, made)
  <2>1. \A k \in 1..Len(left) : num2[k] = num[p[k]] /\ p[k] \in 1..Len(box) BY <1>5
  <2>2. num \in [1..Len(box) -> 1..made] BY <1>2 DEF Numbering
  <2>3. num2 \in [1..Len(left) -> 1..made] BY <2>1, <2>2
  <2> HIDE DEF num2
  <2>4. \A j, k \in 1..Len(left) : j < k => num2[j] < num2[k] BY <1>2, <1>5, <2>1 DEF Numbering
  <2>5. \A k \in 1..Len(left) :
          /\ left[k].id = <<t, num2[k]>>
          /\ left[k].txn = None \/ \E m \in 1..num2[k] : left[k].txn = <<t, m>>
    <3> TAKE k \in 1..Len(left)
    <3>1. left[k] = box[p[k]] /\ p[k] \in 1..Len(box) /\ num2[k] = num[p[k]] BY <1>5, <2>1
    <3> QED BY <1>2, <3>1 DEF Numbering
  <2> QED BY <2>3, <2>4, <2>5 DEF Numbering
<1> QED BY <1>6, <1>7, <1>8, <1>9 DEF BoxOK, left

(* The answer: the intents settled leave, and the tab replans.             *)
LEMMA ReceiveStep ==
  ASSUME EditingInv, NEW t \in Tabs, Receive(t) PROVE EditingInv'
<1> DEFINE w == tab[t]
           m == Len(log)
           left == Unsent(w)
           none == {}
           v == [w EXCEPT !.cursor = m, !.sent = none, !.outbox = left]
<1>1. tab' = [tab EXCEPT ![t] = Replan(v)] BY DEF Receive
<1>2. /\ TabShaped(w) /\ w.cursor \in 0..m /\ w.made \in 0..Len(scene.menu[t])
      /\ BoxOK(w.outbox, t, w.cursor, w.made) /\ m \in Nat /\ scene \in Scenes
  BY DEF EditingInv, TabOK, LogOK, Listed
<1>3. PICK K : left = Kept(w.outbox, K)
  <2>1. left = Kept(w.outbox, {k \in DOMAIN w.outbox : w.outbox[k].id \notin w.sent})
    BY DEF Where, Unsent
  <2> QED BY <2>1
<1>m. w.made \in Nat
  <2>1. scene.menu[t] \in Seq(SUBSET Kinds) BY <1>2, MenusAreLists
  <2>2. Len(scene.menu[t]) \in Nat BY <2>1
  <2> QED BY <1>2, <2>2
<1> HIDE DEF left, m, none
<1>4. TabShaped(v) /\ v.cursor = m /\ v.outbox = left /\ v.made = w.made
  BY <1>2 DEF TabShaped, TabParts
<1> HIDE DEF v, w
<1>5. w.cursor \in Nat /\ w.cursor <= m /\ m \in 0..m BY <1>2
<1>6. BoxOK(w.outbox, t, m, w.made) BY <1>2, <1>5, BoxLater
<1>7. BoxOK(v.outbox, t, v.cursor, v.made) BY <1>2, <1>3, <1>4, <1>6, <1>m, BoxShrinks
<1>8. TabOK(Replan(v), t, log, scene) BY <1>2, <1>4, <1>5, <1>7, ReplanOK DEF m
<1>9. UNCHANGED <<log, settled, scene>> BY DEF Receive
<1> QED BY <1>1, <1>8, <1>9, OneTab

(* Two lists, one after the other.                                         *)
LEMMA Joined ==
  ASSUME NEW s, Listed(s), NEW u, Listed(u), NEW x, x = s \o u
  PROVE  /\ Listed(x) /\ Len(x) = Len(s) + Len(u) /\ Len(s) \in Nat /\ Len(u) \in Nat
         /\ \A k \in 1..Len(s) : x[k] = s[k]
         /\ \A k \in 1..Len(u) : x[Len(s) + k] = u[k]
BY ListedConcat

(* A batch is planned under the lock: it leaves every screen as it was.    *)
LEMMA IngestStep ==
  ASSUME EditingInv, NEW t \in Tabs, Ingest(t) PROVE EditingInv'
<1> DEFINE w == tab[t]
           n == Len(log)
           plan == PlanBatch(w.outbox, log, scene.genesis)
           more == Accepted(plan.rows)
           answers == Prediction(plan.rows)
           sent == Ids(w.outbox)
           v == [w EXCEPT !.sent = sent]
<1>1. /\ log' = log \o more /\ settled' = settled \o answers
      /\ tab' = [tab EXCEPT ![t] = v] /\ scene' = scene
  BY DEF Ingest, Commit
<1>2. /\ TabOK(w, t, log, scene) /\ LogOK(log) /\ SettledOK(settled) /\ scene \in Scenes
      /\ tab = [u \in Tabs |-> tab[u]] /\ \A s \in Tabs : TabOK(tab[s], s, log, scene)
      /\ Listed(log) /\ Listed(settled) /\ n \in Nat
  BY DEF EditingInv, LogOK, SettledOK, Listed
<1>3. TabShaped(w) /\ w.cursor \in 0..n /\ BoxOK(w.outbox, t, w.cursor, w.made) BY <1>2 DEF TabOK
<1> HIDE DEF w, n
<1>4. BoxOK(w.outbox, t, n, w.made)
  <2>1. w.cursor \in Nat /\ w.cursor <= n BY <1>2, <1>3
  <2> QED BY <1>2, <1>3, <2>1, BoxLater
<1>5. PlanOK(plan, t, n) BY <1>2, <1>4, BatchPlanned DEF BoxOK, n
<1> HIDE DEF plan
<1>6. Listed(more) /\ \A k \in 1..Len(more) : IntentOK(more[k], t, n) BY <1>2, <1>5, AcceptedTyped
<1>7. Listed(answers) /\ \A k \in 1..Len(answers) : answers[k][2] \in Statuses
  BY <1>2, <1>5, Predicted
<1> HIDE DEF more, answers, sent
<1>8. LogOK(log')
  <2>1. /\ Listed(log') /\ Len(log') = n + Len(more) /\ Len(more) \in Nat
        /\ \A k \in 1..n : log'[k] = log[k]
        /\ \A k \in 1..Len(more) : log'[n + k] = more[k]
    <3>1. PICK x : x = log \o more OBVIOUS
    <3>0. Listed(log) /\ Listed(more) BY <1>2, <1>6
    <3>2. /\ Listed(x) /\ Len(x) = Len(log) + Len(more) /\ Len(more) \in Nat
          /\ \A k \in 1..Len(log) : x[k] = log[k]
          /\ \A k \in 1..Len(more) : x[Len(log) + k] = more[k]
      <4>1. Listed(log) BY <3>0
      <4>2. Listed(more) BY <3>0
      <4>3. x = log \o more BY <3>1
      <4>4. Listed(x) /\ Len(x) = Len(log) + Len(more) BY <4>1, <4>2, <4>3, Joined
      <4>5. Len(log) \in Nat /\ Len(more) \in Nat BY <4>1, <4>2, <4>3, Joined
      <4>6. \A k \in 1..Len(log) : x[k] = log[k] BY <4>1, <4>2, <4>3, Joined
      <4>7. \A k \in 1..Len(more) : x[Len(log) + k] = more[k] BY <4>1, <4>2, <4>3, Joined
      <4> QED BY <4>4, <4>5, <4>6, <4>7
    <3>3. log' = x BY <1>1, <3>1
    <3> QED BY <3>2, <3>3 DEF n
  <2>2. ASSUME NEW k \in 1..Len(log') PROVE log'[k].actor \in Tabs /\ log'[k].base \in 0..(k - 1)
    <3>1. CASE k \in 1..n BY <1>2, <2>1, <3>1 DEF LogOK, n
    <3>2. CASE k > n
      <4>1. k - n \in 1..Len(more) /\ n + (k - n) = k BY <1>2, <2>1, <3>2
      <4>2. log'[k] = more[k - n] BY <2>1, <4>1
      <4>3. log'[k].actor = t /\ log'[k].base \in 0..n BY <1>6, <4>1, <4>2 DEF IntentOK
      <4> QED BY <1>2, <3>2, <4>3
    <3> QED BY <1>2, <2>1, <3>1, <3>2
  <2> QED BY <2>1, <2>2 DEF LogOK
<1>9. SettledOK(settled')
  <2>1. /\ Listed(settled') /\ Len(settled') = Len(settled) + Len(answers)
        /\ Len(settled) \in Nat /\ Len(answers) \in Nat
        /\ \A k \in 1..Len(settled) : settled'[k] = settled[k]
        /\ \A k \in 1..Len(answers) : settled'[Len(settled) + k] = answers[k]
    <3>1. PICK x : x = settled \o answers OBVIOUS
    <3>0. Listed(settled) /\ Listed(answers) BY <1>2, <1>7
    <3>2. /\ Listed(x) /\ Len(x) = Len(settled) + Len(answers)
          /\ Len(settled) \in Nat /\ Len(answers) \in Nat
          /\ \A k \in 1..Len(settled) : x[k] = settled[k]
          /\ \A k \in 1..Len(answers) : x[Len(settled) + k] = answers[k]
      <4>1. Listed(settled) BY <3>0
      <4>2. Listed(answers) BY <3>0
      <4>3. x = settled \o answers BY <3>1
      <4>4. Listed(x) /\ Len(x) = Len(settled) + Len(answers) BY <4>1, <4>2, <4>3, Joined
      <4>5. Len(settled) \in Nat /\ Len(answers) \in Nat BY <4>1, <4>2, <4>3, Joined
      <4>6. \A k \in 1..Len(settled) : x[k] = settled[k] BY <4>1, <4>2, <4>3, Joined
      <4>7. \A k \in 1..Len(answers) : x[Len(settled) + k] = answers[k] BY <4>1, <4>2, <4>3, Joined
      <4> QED BY <4>4, <4>5, <4>6, <4>7
    <3>3. settled' = x BY <1>1, <3>1
    <3> QED BY <3>2, <3>3
  <2>2. ASSUME NEW k \in 1..Len(settled') PROVE settled'[k][2] \in Statuses
    <3>1. CASE k \in 1..Len(settled) BY <1>2, <2>1, <3>1 DEF SettledOK
    <3>2. CASE k > Len(settled)
      <4>1. k - Len(settled) \in 1..Len(answers) /\ Len(settled) + (k - Len(settled)) = k
        BY <2>1, <3>2
      <4>2. settled'[k] = answers[k - Len(settled)] BY <2>1, <4>1
      <4> QED BY <1>7, <4>1, <4>2
    <3> QED BY <2>1, <3>1, <3>2
  <2> QED BY <2>1, <2>2 DEF SettledOK
<1>10. /\ TabShaped(v) /\ v.cursor = w.cursor /\ v.outbox = w.outbox /\ v.made = w.made
       /\ v.doc = w.doc /\ v.predicted = w.predicted
  BY <1>3 DEF TabShaped, TabParts
<1>11. TabOK(v, t, log, scene)
  <2> HIDE DEF v
  <2>1. TabOK(w, t, log, scene) BY <1>2 DEF w
  <2> QED BY <1>10, <2>1 DEF TabOK, Shows, PlanOf
<1>12. /\ tab' = [u \in Tabs |-> tab'[u]] /\ tab'[t] = v
       /\ \A s \in Tabs : s # t => tab'[s] = tab[s]
  <2> HIDE DEF v
  <2> QED BY <1>1, <1>2
<1> HIDE DEF v
<1>13. ASSUME NEW s \in Tabs PROVE TabOK(tab'[s], s, log', scene')
  <2>1. PICK x : x = tab'[s] OBVIOUS
  <2>2. TabOK(x, s, log, scene) BY <1>2, <1>11, <1>12, <2>1
  <2>3. LogOK(log) /\ log' = log \o more /\ Listed(more) /\ scene' = scene BY <1>1, <1>2, <1>6
  <2>4. TabOK(x, s, log \o more, scene) BY <1>2, <1>6, <2>2, TabLater
  <2> QED BY <2>1, <2>3, <2>4
<1> QED BY <1>1, <1>2, <1>8, <1>9, <1>12, <1>13 DEF EditingInv

(* Every step keeps the invariant.                                         *)
LEMMA InvStep == EditingInv /\ [Next]_vars => EditingInv'
<1> SUFFICES ASSUME EditingInv, [Next]_vars PROVE EditingInv' OBVIOUS
<1>1. CASE UNCHANGED vars
  BY <1>1 DEF vars, EditingInv, LogOK, SettledOK
<1>2. ASSUME NEW t \in Tabs, Author(t) \/ Absorb(t) \/ Ingest(t) \/ Receive(t) PROVE EditingInv'
  BY <1>2, AuthorStep, AbsorbStep, IngestStep, ReceiveStep
<1> QED BY <1>1, <1>2 DEF Next

(* The inductive invariant of the session.                                 *)
THEOREM EditingKept == Spec => []EditingInv
<1> QED BY InitInv, InvStep, PTL DEF Spec

(* The types of the session hold in every run of it, for any tabs, scenes  *)
(* and menus.                                                              *)
THEOREM EditingTyped == Spec => []TypeOK
<1> QED BY EditingKept, InvTyped, PTL

(* authorIntent only applies the new intent to the document on screen;     *)
(* that is always what replan would make of the log and of all that is     *)
(* pending.                                                                *)
THEOREM FastPathIsReplan == Spec => []ScreenIsReplan
<1> QED BY EditingKept, InvReplanned, PTL

=============================================================================
