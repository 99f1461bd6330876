---------------------------- MODULE YjsRoomProofs ----------------------------
(***************************************************************************)
(* Proofs about YjsRoom, for any tabs, edits, intervals and faults.        *)
(*                                                                         *)
(* BaseInv    what has which shape, whose items are in whose document      *)
(* TrimInv    the visible rows hold what all committed rows claim          *)
(* LoadInv    no stamp and no cursor is ahead of its document              *)
(* RoomInv    and what a request stands for is in a committed row or still *)
(*            to be stored by it                                           *)
(* CloseInv   until something is trimmed, no item is stored, sent or       *)
(*            queued before what it needs                                  *)
(*                                                                         *)
(* What can be lost to a race is in a row that went astray (YjsRoom): it   *)
(* was committed below a committed row, or trimmed by a request that had   *)
(* loaded the room before it, behind a snapshot without it.  A row claims  *)
(* what it holds and no astray row does; the argument is about claims, so  *)
(* that it needs no bound on the requests and no order of the commits.     *)
(***************************************************************************)
EXTENDS YjsRoom, SelectionProofs, FiniteSetTheorems

(***************************************************************************)
(* Merging a batch.                                                        *)
(***************************************************************************)

(* What the first k elements of a sequence of sets hold.                   *)
UpToHere(s, k) == UNION {s[j] : j \in 1..k}

(* A document has what the items need.                                     *)
Closed(items, d) == \A x \in items : needs[x] \subseteq d

(* f is the document after each update of a batch.                         *)
MergeUpTo(f, start, b) ==
  /\ f \in [0..Len(b) -> SUBSET Items]
  /\ f[0] = start
  /\ \A k \in 1..Len(b) :
       f[k] = IF Whole(f[k - 1] \cup b[k]) THEN f[k - 1] \cup b[k] ELSE f[k - 1]
  /\ Merge(start, b) = [doc   |-> f[Len(b)],
                        diffs |-> [k \in 1..Len(b) |-> b[k] \ Integrated(f[k - 1])],
                        taken |-> {k \in 1..Len(b) : Whole(f[k - 1] \cup b[k])}]

(* Merging a batch goes through a document per update.                     *)
LEMMA MergeIsRecursive ==
  ASSUME NEW start \in SUBSET Items, NEW b \in Seq(SUBSET Items)
  PROVE  \E f : MergeUpTo(f, start, b)
<1> DEFINE R == SUBSET Items
           After1(d, u) == IF Whole(d \cup u) THEN d \cup u ELSE d
           step == [p \in R \X Nat |-> IF p[2] \in 1..Len(b) THEN After1(p[1], b[p[2]]) ELSE p[1]]
           Is(g) == g = [k \in 0..Len(b) |->
                          IF k = 0 THEN start
                          ELSE LET next == g[k - 1] \cup b[k]
                               IN IF Whole(next) THEN next ELSE g[k - 1]]
           h == CHOOSE g : Is(g)
<1>0. Len(b) \in Nat /\ DOMAIN b = 1..Len(b) /\ \A k \in 1..Len(b) : b[k] \in R
  OBVIOUS
<1>a. \A d, u \in R : After1(d, u) \in R
  OBVIOUS
<1> HIDE DEF R, After1
<1>1. step \in [R \X Nat -> R]
  BY <1>0, <1>a
<1>2. \A v \in R, k \in 1..Len(b) : step[<<v, k>>] = After1(v, b[k])
  BY <1>0
<1>3. start \in R BY DEF R
<1> HIDE DEF step
<1>4. PICK f : Iterates(f, R, start, step, Len(b))
  BY <1>0, <1>1, <1>3, Recursion
<1>4a. f \in [0..Len(b) -> R] /\ f[0] = start /\ \A k \in 1..Len(b) : f[k] = step[<<f[k - 1], k>>]
  BY <1>4 DEF Iterates
<1>5. ASSUME NEW k \in 1..Len(b) PROVE f[k] = After1(f[k - 1], b[k]) /\ f[k - 1] \in R
  <2>1. k - 1 \in 0..Len(b) BY <1>0
  <2>2. f[k - 1] \in R BY <2>1, <1>4a
  <2> QED BY <1>4a, <1>2, <2>2
<1>6. \A k \in 1..Len(b) :
        f[k] = IF Whole(f[k - 1] \cup b[k]) THEN f[k - 1] \cup b[k] ELSE f[k - 1]
  BY <1>5 DEF After1
<1>7. Is(f)
  <2>1. ASSUME NEW k \in 0..Len(b)
        PROVE f[k] = IF k = 0 THEN start
                     ELSE LET next == f[k - 1] \cup b[k] IN IF Whole(next) THEN next ELSE f[k - 1]
    <3>1. CASE k = 0 BY <1>4a, <3>1
    <3>2. CASE k # 0
      <4>1. k \in 1..Len(b) BY <3>2, <1>0
      <4> QED BY <4>1, <1>6, <3>2
    <3> QED BY <3>1, <3>2
  <2> QED BY <2>1, <1>4a
<1>8. Is(h) BY <1>7, Zenon
<1>9. Merge(start, b) = [doc |-> h[Len(b)],
                         diffs |-> [k \in DOMAIN b |-> b[k] \ Integrated(h[k - 1])],
                         taken |-> {k \in DOMAIN b : Whole(h[k - 1] \cup b[k])}]
  BY Zenon DEF Merge
<1> HIDE DEF h
<1>10. h[0] = start /\ \A k \in 1..Len(b) :
         h[k] = IF Whole(h[k - 1] \cup b[k]) THEN h[k - 1] \cup b[k] ELSE h[k - 1]
  <2>1. ASSUME NEW k \in 0..Len(b)
        PROVE h[k] = IF k = 0 THEN start
                     ELSE LET next == h[k - 1] \cup b[k] IN IF Whole(next) THEN next ELSE h[k - 1]
    BY <1>8, Zenon
  <2>2. ASSUME NEW k \in 1..Len(b)
        PROVE h[k] = IF Whole(h[k - 1] \cup b[k]) THEN h[k - 1] \cup b[k] ELSE h[k - 1]
    <3>1. k \in 0..Len(b) /\ k # 0 BY <1>0
    <3> QED BY <3>1, <2>1
  <2>3. 0 \in 0..Len(b) BY <1>0
  <2> QED BY <2>1, <2>2, <2>3
<1>11. \A k \in 0..Len(b) : f[k] = h[k]
  <2>1. \A k \in 1..Len(b) : f[k - 1] = h[k - 1] => f[k] = h[k] BY <1>10, <1>6
  <2>2. f[0] = h[0] BY <1>4a, <1>10
  <2> QED BY <2>1, <2>2, <1>0, SameRecursion, ZenonT(60)
<1>12. f[Len(b)] = h[Len(b)] /\ \A k \in 1..Len(b) : f[k - 1] = h[k - 1]
  <2>1. \A k \in 1..Len(b) : k - 1 \in 0..Len(b) BY <1>0
  <2>2. Len(b) \in 0..Len(b) BY <1>0
  <2> QED BY <2>1, <2>2, <1>11
<1>13. Merge(start, b) = [doc   |-> f[Len(b)],
                          diffs |-> [k \in 1..Len(b) |-> b[k] \ Integrated(f[k - 1])],
                          taken |-> {k \in 1..Len(b) : Whole(f[k - 1] \cup b[k])}]
  <2>1. [k \in DOMAIN b |-> b[k] \ Integrated(h[k - 1])] = [k \in 1..Len(b) |-> b[k] \ Integrated(f[k - 1])]
    BY <1>12, <1>0
  <2>2. {k \in DOMAIN b : Whole(h[k - 1] \cup b[k])} = {k \in 1..Len(b) : Whole(f[k - 1] \cup b[k])}
    BY <1>12, <1>0
  <2> QED BY <2>1, <2>2, <1>9, <1>12
<1>14. f \in [0..Len(b) -> SUBSET Items] BY <1>4a DEF R
<1> QED BY <1>14, <1>4a, <1>6, <1>13 DEF MergeUpTo

(* Items taken for integrated are items of the document.                   *)
LEMMA IntegratedIsPart == ASSUME NEW d PROVE Integrated(d) \subseteq d
  BY DEF Integrated

(* m is what merging size updates onto a document may yield: nothing is    *)
(* lost, and what is new is in the differences of the accepted updates.    *)
Merged(m, start, size) ==
  /\ m.doc \in SUBSET Items
  /\ m.diffs \in Seq(SUBSET Items) /\ Len(m.diffs) = size
  /\ m.taken \subseteq 1..size
  /\ start \subseteq m.doc
  /\ m.doc \subseteq start \cup UNION {m.diffs[k] : k \in m.taken}
  /\ \A k \in m.taken : m.diffs[k] \subseteq m.doc

(* As long as every update is accepted, each is in the start and the       *)
(* differences so far, and so is what it needs.                            *)
InTurn(m, start, b) ==
  \A n \in 0..Len(b) : 1..n \subseteq m.taken =>
    \A k \in 1..n : /\ b[k] \subseteq start \cup UpToHere(m.diffs, k)
                    /\ Closed(b[k], start \cup UpToHere(m.diffs, k))

(* Merging accepts updates as they are and finds what each brings.         *)
LEMMA MergeLosesNothing ==
  ASSUME NEW start \in SUBSET Items, NEW b \in Seq(SUBSET Items)
  PROVE  /\ Merged(Merge(start, b), start, Len(b))
         /\ \A k \in 1..Len(b) : Merge(start, b).diffs[k] \subseteq b[k]
         /\ \A k \in Merge(start, b).taken : b[k] \subseteq Merge(start, b).doc
<1> DEFINE m == Merge(start, b)
<1>0. Len(b) \in Nat /\ \A k \in 1..Len(b) : b[k] \in SUBSET Items OBVIOUS
<1>1. PICK f : MergeUpTo(f, start, b) BY MergeIsRecursive, Zenon
<1>2. /\ f \in [0..Len(b) -> SUBSET Items] /\ f[0] = start
      /\ \A k \in 1..Len(b) :
           f[k] = IF Whole(f[k - 1] \cup b[k]) THEN f[k - 1] \cup b[k] ELSE f[k - 1]
      /\ m.doc = f[Len(b)]
      /\ m.diffs = [k \in 1..Len(b) |-> b[k] \ Integrated(f[k - 1])]
      /\ m.taken = {k \in 1..Len(b) : Whole(f[k - 1] \cup b[k])}
  BY <1>1 DEF MergeUpTo
<1> HIDE DEF m
<1>3. m.diffs \in Seq(SUBSET Items) /\ Len(m.diffs) = Len(b)
      /\ \A k \in 1..Len(b) : m.diffs[k] = b[k] \ Integrated(f[k - 1])
  BY <1>2, <1>0
<1> DEFINE Good == {n \in 0..Len(b) :
                      /\ start \subseteq f[n]
                      /\ f[n] \subseteq start \cup UNION {m.diffs[k] : k \in {j \in m.taken : j <= n}}
                      /\ \A k \in m.taken : k <= n => b[k] \subseteq f[n]}
<1>4. 0 \in Good
  <2>1. \A k \in m.taken : ~(k <= 0) BY <1>2
  <2> QED BY <2>1, <1>2, <1>0
<1>5. \A n \in Good : n < Len(b) => n + 1 \in Good
  <2> SUFFICES ASSUME NEW n \in Good, n < Len(b) PROVE n + 1 \in Good
    OBVIOUS
  <2>1. n \in 0..Len(b) /\ n + 1 \in 1..Len(b) /\ (n + 1) - 1 = n BY <1>0
  <2>2. f[n + 1] = IF Whole(f[n] \cup b[n + 1]) THEN f[n] \cup b[n + 1] ELSE f[n]
    BY <2>1, <1>2
  <2>3. n + 1 \in m.taken <=> Whole(f[n] \cup b[n + 1]) BY <2>1, <1>2
  <2>4. m.diffs[n + 1] = b[n + 1] \ Integrated(f[n]) BY <2>1, <1>3
  <2>5. f[n] \cup b[n + 1] = f[n] \cup m.diffs[n + 1] BY <2>4, IntegratedIsPart
  <2>6. \A k \in m.taken : k <= n + 1 => k <= n \/ k = n + 1 BY <1>2, <2>1
  <2>7. \A k \in m.taken : k <= n => k <= n + 1 BY <1>2, <2>1
  <2>8. n + 1 \in 0..Len(b) /\ n + 1 <= n + 1 BY <2>1
  <2>a. start \subseteq f[n + 1] BY <2>2
  <2>b. f[n + 1] \subseteq start \cup UNION {m.diffs[k] : k \in {j \in m.taken : j <= n + 1}}
    <3>1. f[n] \subseteq start \cup UNION {m.diffs[k] : k \in {j \in m.taken : j <= n + 1}}
      BY <2>7
    <3>2. CASE n + 1 \in m.taken
      <4>1. m.diffs[n + 1] \subseteq UNION {m.diffs[k] : k \in {j \in m.taken : j <= n + 1}}
        BY <3>2, <2>8
      <4> QED BY <4>1, <3>1, <2>2, <2>3, <2>5
    <3>3. CASE n + 1 \notin m.taken
      BY <3>3, <3>1, <2>2, <2>3
    <3> QED BY <3>2, <3>3
  <2>c. \A k \in m.taken : k <= n + 1 => b[k] \subseteq f[n + 1]
    BY <2>2, <2>3, <2>6
  <2> QED BY <2>8, <2>a, <2>b, <2>c
<1>6. Good = 0..Len(b)
  <2> HIDE DEF Good
  <2>1. Good \in SUBSET (0..Len(b)) BY DEF Good
  <2> QED BY <2>1, <1>4, <1>5, <1>0, UpTo
<1>7. Len(b) \in Good BY <1>6, <1>0
<1>8. \A k \in m.taken : k <= Len(b) BY <1>2, <1>0
<1>9. start \subseteq m.doc /\ m.doc \subseteq start \cup UNION {m.diffs[k] : k \in m.taken}
      /\ \A k \in m.taken : b[k] \subseteq m.doc
  BY <1>7, <1>8, <1>2
<1>10. m.doc \in SUBSET Items BY <1>2, <1>0
<1>11. \A k \in 1..Len(b) : m.diffs[k] \subseteq b[k] BY <1>3
<1>12. m.taken \subseteq 1..Len(b) BY <1>2
<1>13. \A k \in m.taken : m.diffs[k] \subseteq m.doc BY <1>9, <1>11, <1>12
<1>14. Merged(m, start, Len(b)) BY <1>3, <1>9, <1>10, <1>12, <1>13 DEF Merged
<1> QED BY <1>9, <1>11, <1>14 DEF m

(* The updates that come before the first refused one are in order.        *)
LEMMA MergeInTurn ==
  ASSUME NEW start \in SUBSET Items, NEW b \in Seq(SUBSET Items)
  PROVE  InTurn(Merge(start, b), start, b)
<1> DEFINE m == Merge(start, b)
<1>0. Len(b) \in Nat /\ \A k \in 1..Len(b) : b[k] \in SUBSET Items OBVIOUS
<1>1. PICK f : MergeUpTo(f, start, b) BY MergeIsRecursive, Zenon
<1>2. /\ f \in [0..Len(b) -> SUBSET Items] /\ f[0] = start
      /\ \A k \in 1..Len(b) :
           f[k] = IF Whole(f[k - 1] \cup b[k]) THEN f[k - 1] \cup b[k] ELSE f[k - 1]
      /\ m.diffs = [k \in 1..Len(b) |-> b[k] \ Integrated(f[k - 1])]
      /\ m.taken = {k \in 1..Len(b) : Whole(f[k - 1] \cup b[k])}
  BY <1>1 DEF MergeUpTo
<1> HIDE DEF m
<1> SUFFICES ASSUME NEW n \in 0..Len(b), 1..n \subseteq m.taken
             PROVE  \A k \in 1..n : /\ b[k] \subseteq start \cup UpToHere(m.diffs, k)
                                    /\ Closed(b[k], start \cup UpToHere(m.diffs, k))
  BY DEF InTurn, m
<1> DEFINE Good == {k \in 0..n : f[k] \subseteq start \cup UpToHere(m.diffs, k)}
<1>3. 0 \in Good BY <1>2
<1>4. \A k \in Good : k < n => k + 1 \in Good
  <2> SUFFICES ASSUME NEW k \in Good, k < n PROVE k + 1 \in Good
    OBVIOUS
  <2>1. k \in 0..n /\ k + 1 \in 1..n /\ k + 1 \in 1..Len(b) /\ (k + 1) - 1 = k BY <1>0
  <2>2. f[k + 1] \subseteq f[k] \cup b[k + 1] BY <2>1, <1>2
  <2>3. m.diffs[k + 1] = b[k + 1] \ Integrated(f[k]) BY <2>1, <1>2
  <2>4. f[k + 1] \subseteq f[k] \cup m.diffs[k + 1] BY <2>2, <2>3, IntegratedIsPart
  <2>5. UpToHere(m.diffs, k) \cup m.diffs[k + 1] \subseteq UpToHere(m.diffs, k + 1)
    BY <2>1 DEF UpToHere
  <2> QED BY <2>1, <2>4, <2>5
<1>5. Good = 0..n
  <2> HIDE DEF Good
  <2>1. Good \in SUBSET (0..n) BY DEF Good
  <2> QED BY <2>1, <1>3, <1>4, <1>0, UpTo
<1> TAKE k \in 1..n
<1>6. k \in 1..Len(b) /\ k \in m.taken /\ k \in 0..n BY <1>0
<1>7. f[k] \subseteq start \cup UpToHere(m.diffs, k) BY <1>5, <1>6
<1>8. f[k] = f[k - 1] \cup b[k] /\ Whole(f[k]) BY <1>6, <1>2
<1>9. Closed(b[k], f[k]) BY <1>8 DEF Whole, Closed
<1> QED BY <1>7, <1>8, <1>9 DEF Closed

(* A batch whose updates need only what comes before them is accepted.     *)
LEMMA MergeTakesAll ==
  ASSUME NEW start \in SUBSET Items, NEW b \in Seq(SUBSET Items), Whole(start),
         \A k \in 1..Len(b) : Closed(b[k], start \cup UpToHere(b, k))
  PROVE  Merge(start, b).taken = 1..Len(b)
<1> DEFINE m == Merge(start, b)
<1>0. Len(b) \in Nat OBVIOUS
<1>1. PICK f : MergeUpTo(f, start, b) BY MergeIsRecursive, Zenon
<1>2. /\ f[0] = start
      /\ \A k \in 1..Len(b) :
           f[k] = IF Whole(f[k - 1] \cup b[k]) THEN f[k - 1] \cup b[k] ELSE f[k - 1]
      /\ m.taken = {k \in 1..Len(b) : Whole(f[k - 1] \cup b[k])}
  BY <1>1 DEF MergeUpTo
<1> HIDE DEF m
<1> DEFINE Good == {n \in 0..Len(b) : f[n] = start \cup UpToHere(b, n) /\ Whole(f[n])}
<1>3. 0 \in Good
  <2>1. UpToHere(b, 0) = {} BY DEF UpToHere
  <2> QED BY <2>1, <1>2, <1>0
<1>4. \A n \in 0..Len(b) : n < Len(b) =>
        (f[n] = start \cup UpToHere(b, n) /\ Whole(f[n]) =>
         f[n + 1] = start \cup UpToHere(b, n + 1) /\ Whole(f[n + 1]) /\ Whole(f[n] \cup b[n + 1]))
  <2> SUFFICES ASSUME NEW n \in 0..Len(b), n < Len(b), f[n] = start \cup UpToHere(b, n), Whole(f[n])
               PROVE  f[n + 1] = start \cup UpToHere(b, n + 1) /\ Whole(f[n + 1]) /\ Whole(f[n] \cup b[n + 1])
    OBVIOUS
  <2>1. n + 1 \in 1..Len(b) /\ (n + 1) - 1 = n BY <1>0
  <2>2. f[n + 1] = IF Whole(f[n] \cup b[n + 1]) THEN f[n] \cup b[n + 1] ELSE f[n]
    BY <2>1, <1>2
  <2>3. UpToHere(b, n + 1) = UpToHere(b, n) \cup b[n + 1]
    <3>1. 1..(n + 1) = (1..n) \cup {n + 1} BY <1>0
    <3> QED BY <3>1 DEF UpToHere
  <2>4. Closed(b[n + 1], f[n] \cup b[n + 1]) BY <2>1, <2>3
  <2>5. Whole(f[n] \cup b[n + 1]) BY <2>4 DEF Whole, Closed
  <2> QED BY <2>2, <2>3, <2>5
<1>5. Good = 0..Len(b)
  <2>1. ASSUME NEW n \in Good, n < Len(b) PROVE n + 1 \in Good
    <3>1. n \in 0..Len(b) /\ n + 1 \in 0..Len(b) BY <2>1, <1>0
    <3>2. f[n] = start \cup UpToHere(b, n) /\ Whole(f[n]) OBVIOUS
    <3>3. f[n + 1] = start \cup UpToHere(b, n + 1) /\ Whole(f[n + 1]) BY <2>1, <3>1, <3>2, <1>4
    <3> QED BY <3>1, <3>3
  <2> HIDE DEF Good
  <2>2. Good \in SUBSET (0..Len(b)) BY DEF Good
  <2> QED BY <2>1, <2>2, <1>3, <1>0, UpTo
<1>6. ASSUME NEW k \in 1..Len(b) PROVE Whole(f[k - 1] \cup b[k])
  <2>1. k - 1 \in 0..Len(b) /\ k - 1 < Len(b) /\ (k - 1) + 1 = k BY <1>0
  <2>2. f[k - 1] = start \cup UpToHere(b, k - 1) /\ Whole(f[k - 1]) BY <2>1, <1>5
  <2> QED BY <2>1, <2>2, <1>4
<1> QED BY <1>6, <1>2 DEF m

(***************************************************************************)
(* Types and bounds, and who wrote what.                                   *)
(***************************************************************************)
Row == [type : {"snapshot", "update"}, from : Tabs \cup {Server}, items : SUBSET Items]

(* No row becomes visible after its id is taken.                           *)
InOrder == ~LateRows

(* The items that exist, when the tabs have the documents d.               *)
KnownIn(d) == {x \in Items : x = Genesis \/ x \in d[x[1]]}

Appending(r) == r.pc = "append" \/ (r.pc = "commit" /\ r.then = "append")
Unmerged(r)  == r.pc \in {"idle", "meta", "rows", "replay"}

(* A request, when the log has n rows and the tabs have the documents d.   *)
RequestOK(r, n, d) ==
  /\ r \in Requests
  /\ r.stamp <= n /\ r.prev <= n /\ r.own <= n
  /\ r.pc = "idle" => ~r.heard
  /\ r.pc # "idle" => r.tab \in Tabs
  /\ DOMAIN r.verdicts = IF Unmerged(r) THEN {} ELSE DOMAIN r.batch
  /\ r.pc = "replay" => Len(r.diffs) <= Len(r.batch)
  /\ r.pc = "commit" => r.then \in {"append", "save", "stamp", "born"} /\ LateRows
  /\ r.pc \in {"commit", "stamp", "trim", "born", "pace"} => r.own > 0
  /\ r.pc = "trim" => r.prev > 0
  /\ r.pc \in {"idle", "meta", "rows"} => r.diffs = <<>>
  /\ r.tab \in Tabs => \A k \in DOMAIN r.batch : r.batch[k] \subseteq d[r.tab]
  /\ r.tab \in Tabs => \A k \in DOMAIN r.diffs : r.diffs[k] \subseteq d[r.tab]
  /\ r.doc \subseteq KnownIn(d)
  /\ Appending(r) => r.diffs # <<>> /\ \A k \in DOMAIN r.diffs : r.diffs[k] \subseteq r.doc

RequestsOK(n, d) == \A w \in Workers : RequestOK(req[w], n, d)

(* The log, the trimmed rows and the room meta.                            *)
StoreOK ==
  /\ log \in Seq(Row)
  /\ hidden \subseteq DOMAIN log /\ gone \subseteq DOMAIN log /\ astray \subseteq DOMAIN log
  /\ InOrder => hidden = {}
  /\ canon \in [items : SUBSET Items, cursor : Nat] /\ canon.cursor <= Len(log)
  /\ checkpoint \in Nat /\ checkpoint <= Len(log) /\ floor \in Nat
  /\ canon.items \subseteq KnownIn(doc)

(* A stored row holds items that exist, an update those of its author.     *)
RowOK(row, d) ==
  /\ row.items \subseteq KnownIn(d)
  /\ row.type = "update" => row.from \in Tabs /\ row.items \subseteq d[row.from]

(* The items a tab authored are numbered from 1.                           *)
Numbered(t, d) ==
  \E n \in 0..MaxEdits : \A x \in Items : x[1] = t => (x \in d[t] <=> x[2] <= n)

TabOK(t) ==
  /\ doc[t] \subseteq KnownIn(doc)
  /\ cursor[t] <= Len(log)
  /\ \A k \in DOMAIN queue[t] : queue[t][k] \subseteq doc[t]
  /\ Numbered(t, doc)

TabTypes ==
  /\ doc \in [Tabs -> SUBSET Items] /\ queue \in [Tabs -> Seq(SUBSET Items)]
  /\ cursor \in [Tabs -> Nat]
  /\ needs \in [Items -> SUBSET Items] /\ acked \subseteq Items /\ faults \in Nat

BaseInv ==
  /\ StoreOK
  /\ \A i \in DOMAIN log : RowOK(log[i], doc)
  /\ TabTypes
  /\ \A t \in Tabs : TabOK(t)
  /\ req \in [Workers -> Requests]
  /\ RequestsOK(Len(log), doc)

(* TypeOK is part of the base.                                             *)
LEMMA BaseIsTyped == BaseInv => TypeOK
  BY DEF BaseInv, StoreOK, TabTypes, TypeOK, Row

(* No document of a tab shrinks.                                           *)
Grown(d, e) == \A t \in Tabs : d[t] \subseteq e[t]

(* An item stays known.                                                    *)
LEMMA KnownStays ==
  ASSUME NEW d, NEW e, Grown(d, e)
  PROVE  KnownIn(d) \subseteq KnownIn(e)
<1> SUFFICES ASSUME NEW x \in KnownIn(d) PROVE x \in KnownIn(e) OBVIOUS
<1>1. x = Genesis \/ x[1] \in Tabs BY DEF KnownIn, Items
<1> QED BY <1>1 DEF KnownIn, Grown

(* A request stays well formed while the log and the documents grow.       *)
LEMMA RequestStays ==
  ASSUME NEW d, NEW e, NEW m \in Nat, NEW n \in Nat, m <= n, Grown(d, e), NEW r, RequestOK(r, m, d)
  PROVE  RequestOK(r, n, e)
<1>1. KnownIn(d) \subseteq KnownIn(e) BY KnownStays
<1>2. r.stamp <= n /\ r.prev <= n /\ r.own <= n BY DEF RequestOK, Requests
<1>3. r.tab \in Tabs => d[r.tab] \subseteq e[r.tab] BY DEF Grown
<1> QED BY <1>1, <1>2, <1>3, Zenon DEF RequestOK

(* So does a row.                                                          *)
LEMMA RowStays ==
  ASSUME NEW d, NEW e, Grown(d, e), NEW row, RowOK(row, d)
  PROVE  RowOK(row, e)
  BY KnownStays DEF RowOK, Grown

(* A step of one request, with the log growing and the documents too.      *)
LEMMA Lane ==
  ASSUME NEW d, NEW e, NEW m \in Nat, NEW n \in Nat, m <= n, Grown(d, e),
         req \in [Workers -> Requests], RequestsOK(m, d),
         NEW w \in Workers, NEW r, RequestOK(r, n, e), req' = [req EXCEPT ![w] = r]
  PROVE  req' \in [Workers -> Requests] /\ \A u \in Workers : RequestOK(req'[u], n, e)
<1>1. r \in Requests BY DEF RequestOK
<1>2. \A u \in Workers : RequestOK(req[u], n, e) BY RequestStays, Zenon DEF RequestsOK
<1>3. \A u \in Workers : req'[u] = IF u = w THEN r ELSE req[u] OBVIOUS
<1> QED BY <1>1, <1>2, <1>3, Zenon

(* The positions of the log.                                               *)
LEMMA LogType == ASSUME BaseInv PROVE Len(log) \in Nat /\ DOMAIN log = 1..Len(log)
  BY DEF BaseInv, StoreOK

(* A step that changes one request and leaves the tabs alone.              *)
LEMMA OneRequestBase ==
  ASSUME BaseInv, StoreOK', Len(log) <= Len(log'), UNCHANGED <<doc, queue, cursor, needs, acked>>,
         faults' \in Nat, \A i \in DOMAIN log' : RowOK(log'[i], doc),
         NEW w \in Workers, NEW r, RequestOK(r, Len(log'), doc), req' = [req EXCEPT ![w] = r]
  PROVE  BaseInv'
<1>1. Len(log) \in Nat /\ Len(log') \in Nat BY DEF BaseInv, StoreOK
<1>2. Grown(doc, doc) BY DEF Grown
<1>3. req' \in [Workers -> Requests] /\ \A u \in Workers : RequestOK(req'[u], Len(log'), doc)
  BY <1>1, <1>2, Lane, Zenon DEF BaseInv
<1>4. RequestsOK(Len(log), doc)' BY <1>3 DEF RequestsOK
<1>5. TabTypes' BY DEF BaseInv, TabTypes
<1>6. \A t \in Tabs : TabOK(t)'
  <2> TAKE t \in Tabs
  <2>1. TabOK(t) BY DEF BaseInv
  <2>2. cursor[t] \in Nat BY DEF BaseInv, TabTypes
  <2> QED BY <2>1, <2>2, <1>1 DEF TabOK
<1>7. \A i \in DOMAIN log' : RowOK(log'[i], doc') OBVIOUS
<1> QED BY <1>3, <1>4, <1>5, <1>6, <1>7 DEF BaseInv

(* The same, when the room is left alone as well.                          *)
LEMMA RequestOnly ==
  ASSUME BaseInv, UNCHANGED <<room, meta, tabs, faults>>,
         NEW w \in Workers, NEW r, RequestOK(r, Len(log), doc), req' = [req EXCEPT ![w] = r]
  PROVE  BaseInv'
<1>1. StoreOK' BY DEF BaseInv, StoreOK, room, meta, tabs
<1>2. Len(log) \in Nat BY LogType
<1>3. log' = log /\ faults' \in Nat /\ UNCHANGED <<doc, queue, cursor, needs, acked>>
  BY DEF room, tabs, BaseInv, TabTypes
<1>4. \A i \in DOMAIN log' : RowOK(log'[i], doc) BY <1>3, Zenon DEF BaseInv
<1>5. Len(log) <= Len(log') /\ RequestOK(r, Len(log'), doc) BY <1>2, <1>3
<1> QED BY <1>1, <1>3, <1>4, <1>5, OneRequestBase, Zenon

(* The same, when the log is left alone.                                   *)
LEMMA LogSame ==
  ASSUME BaseInv, StoreOK', UNCHANGED <<log, tabs>>, faults' \in Nat,
         NEW w \in Workers, NEW r, RequestOK(r, Len(log), doc), req' = [req EXCEPT ![w] = r]
  PROVE  BaseInv'
<1>1. Len(log) \in Nat BY LogType
<1>2. log' = log /\ UNCHANGED <<doc, queue, cursor, needs, acked>> BY DEF tabs
<1>3. \A i \in DOMAIN log' : RowOK(log'[i], doc) BY <1>2, Zenon DEF BaseInv
<1>4. Len(log) <= Len(log') /\ RequestOK(r, Len(log'), doc) BY <1>1, <1>2
<1> QED BY <1>2, <1>3, <1>4, OneRequestBase, Zenon

(* Visible rows are rows, and finitely many.                               *)
LEMMA VisibleType ==
  ASSUME BaseInv
  PROVE  /\ Visible \subseteq 1..Len(log) /\ Cardinality(Visible) \in Nat
         /\ RowsAfter(0) = Visible
<1>1. Visible \subseteq 1..Len(log) BY LogType DEF Visible
<1>2. IsFiniteSet(1..Len(log)) BY LogType, FS_Interval
<1>3. IsFiniteSet(Visible) BY <1>1, <1>2, FS_Subset
<1>4. RowsAfter(0) = Visible
  <2>1. \A i \in Visible : i > 0 BY <1>1, LogType
  <2> QED BY <2>1, Zenon DEF RowsAfter
<1> QED BY <1>1, <1>3, <1>4, FS_CardinalityType

(* The highest visible row.                                                *)
LEMMA WatermarkIsLast ==
  ASSUME BaseInv
  PROVE  /\ Watermark \in 0..Len(log)
         /\ \A i \in Visible : i <= Watermark
         /\ Visible # {} => Watermark \in Visible
<1>0. Len(log) \in Nat /\ Visible \subseteq 1..Len(log) BY LogType, VisibleType
<1>1. CASE Visible = {}
  BY <1>0, <1>1 DEF Watermark
<1>2. CASE Visible # {}
  <2> DEFINE Bounds == {n \in Nat : \A i \in Visible : i <= n}
  <2>1. Len(log) \in Bounds BY <1>0
  <2>2. PICK n \in Bounds : \A k \in Bounds : ~(k < n)
    <3>1. Bounds \in SUBSET Nat /\ Bounds # {} BY <2>1
    <3> HIDE DEF Bounds
    <3> QED BY <3>1, LeastNumber
  <2>3. n \in Visible
    <3> SUFFICES ASSUME n \notin Visible PROVE FALSE OBVIOUS
    <3>1. PICK i \in Visible : TRUE BY <1>2
    <3>2. i \in Nat /\ i >= 1 /\ i <= n /\ n \in Nat BY <3>1, <1>0
    <3>3. n - 1 \in Nat /\ n - 1 < n BY <3>2
    <3>4. \A j \in Visible : j <= n - 1
      <4> TAKE j \in Visible
      <4>1. j \in Nat /\ j <= n /\ j # n BY <1>0
      <4> QED BY <4>1, <3>2
    <3> QED BY <3>3, <3>4, <2>2
  <2>4. n \in Visible /\ \A j \in Visible : j <= n BY <2>2, <2>3
  <2>5. Watermark \in Visible /\ \A j \in Visible : j <= Watermark
    BY <2>4, <1>2, Zenon DEF Watermark
  <2>6. Watermark \in 0..Len(log) BY <2>5, <1>0
  <2> QED BY <2>5, <2>6
<1> QED BY <1>1, <1>2

(* Rows hold items that are known.                                         *)
LEMMA HeldType ==
  ASSUME BaseInv, NEW ids \in SUBSET DOMAIN log
  PROVE  Held(ids) \subseteq KnownIn(doc) /\ Held(ids) \in SUBSET Items
<1>1. Held(ids) \subseteq KnownIn(doc) BY DEF Held, BaseInv, RowOK
<1> QED BY <1>1 DEF KnownIn

(* Rows past a cursor are rows.                                            *)
LEMMA RowsAfterType == RowsAfter(0) \in SUBSET DOMAIN log /\ \A k : RowsAfter(k) \in SUBSET DOMAIN log
  BY DEF RowsAfter, Visible

(***************************************************************************)
(* The steps of a request.                                                 *)
(***************************************************************************)
Unchanging == UNCHANGED <<room, meta, tabs, faults>>

(* A request is one, and well formed.                                      *)
LEMMA RequestIs ==
  ASSUME BaseInv, NEW w \in Workers
  PROVE  req[w] \in Requests /\ RequestOK(req[w], Len(log), doc)
  BY Zenon DEF BaseInv, RequestsOK, RequestOK

(* A load of the canonical: known items, a stamp within the log.           *)
LEMMA LoadMetaBase ==
  ASSUME BaseInv, NEW w \in Workers, LoadMeta(w)
  PROVE  BaseInv'
<1> DEFINE r == [req[w] EXCEPT !.pc = "rows", !.doc = canon.items, !.stamp = canon.cursor]
<1>1. req[w] \in Requests /\ RequestOK(req[w], Len(log), doc) BY RequestIs
<1>2. canon.items \in SUBSET Items /\ canon.cursor \in Nat /\ canon.cursor <= Len(log)
      /\ canon.items \subseteq KnownIn(doc)
  BY DEF BaseInv, StoreOK
<1>3. req[w].pc = "meta" BY DEF LoadMeta
<1>4. r \in Requests BY <1>1, <1>2 DEF Requests, Pcs
<1>5. RequestOK(r, Len(log), doc)
  BY <1>1, <1>2, <1>3, <1>4 DEF RequestOK, Requests, Unmerged, Appending
<1> HIDE DEF r
<1> QED BY <1>5, RequestOnly DEF LoadMeta, r

(* The stored differences are those of the accepted updates.               *)
LEMMA KeptAre ==
  ASSUME NEW s \in Seq(SUBSET Items), NEW K \in SUBSET (1..Len(s))
  PROVE  /\ Kept(s, K) \in Seq(SUBSET Items)
         /\ \A j \in 1..Len(Kept(s, K)) : \E k \in K : Kept(s, K)[j] = s[k]
         /\ \A k \in K : \E j \in 1..Len(Kept(s, K)) : Kept(s, K)[j] = s[k]
<1>1. Kept(s, K) \in Seq(SUBSET Items) BY KeptType, Zenon
<1>2. PICK p : Places(p, s, K) BY KeptPlaces, Zenon
<1> DEFINE q == Kept(s, K)
<1>3. /\ p \in [1..Len(q) -> {k \in 1..Len(s) : k \in K}]
      /\ \A i \in 1..Len(q) : q[i] = s[p[i]]
      /\ \A k \in 1..Len(s) : k \in K => \E i \in 1..Len(q) : p[i] = k
  BY <1>2 DEF Places
<1> HIDE DEF q
<1>4. \A j \in 1..Len(q) : \E k \in K : q[j] = s[k] BY <1>3
<1>5. \A k \in K : \E j \in 1..Len(q) : q[j] = s[k] BY <1>3
<1> QED BY <1>1, <1>4, <1>5 DEF q

(* A settled request stores the differences, or goes on with none.         *)
LEMMA SettleOK ==
  ASSUME NEW n \in Nat, NEW d, NEW r, RequestOK(r, n, d), r.pc \in {"rows", "replay"},
         NEW m, NEW before, NEW replayed \in BOOLEAN, Merged(m, before, Len(r.batch)),
         m.doc \subseteq KnownIn(d), \A k \in 1..Len(r.batch) : m.diffs[k] \subseteq d[r.tab]
  PROVE  RequestOK(Settle(r, before, m, replayed), n, d)
<1> DEFINE x == Settle(r, before, m, replayed)
           q == Kept(m.diffs, m.taken)
           pc == IF m.doc # before THEN "append" ELSE IF replayed THEN "resave" ELSE "read"
           vs == [k \in DOMAIN m.diffs |-> IF k \notin m.taken THEN "resync-required"
                                           ELSE IF m.doc = before THEN "already-merged" ELSE "applied"]
<1>1. /\ m.diffs \in Seq(SUBSET Items) /\ m.taken \in SUBSET (1..Len(m.diffs))
      /\ Len(m.diffs) = Len(r.batch) /\ m.doc \in SUBSET Items
      /\ \A k \in m.taken : m.diffs[k] \subseteq m.doc
      /\ before \subseteq m.doc /\ m.doc \subseteq before \cup UNION {m.diffs[k] : k \in m.taken}
  BY DEF Merged
<1>2. x = [r EXCEPT !.pc = pc, !.doc = m.doc, !.diffs = q, !.verdicts = vs] BY Zenon DEF Settle
<1>3. q \in Seq(SUBSET Items) /\ (\A j \in 1..Len(q) : \E k \in m.taken : q[j] = m.diffs[k])
      /\ (\A k \in m.taken : \E j \in 1..Len(q) : q[j] = m.diffs[k])
  BY <1>1, KeptAre, Zenon
<1>4. vs \in Seq(Verdicts) /\ DOMAIN vs = DOMAIN r.batch
  <2>1. DOMAIN m.diffs = 1..Len(m.diffs) /\ Len(m.diffs) \in Nat BY <1>1
  <2>2. vs \in [1..Len(m.diffs) -> Verdicts] BY <2>1 DEF Verdicts
  <2>3. r.batch \in Seq(SUBSET Items) BY DEF RequestOK, Requests
  <2>4. DOMAIN r.batch = 1..Len(m.diffs) BY <2>3, <1>1
  <2> QED BY <2>1, <2>2, <2>4
<1>5. pc \in {"append", "resave", "read"} /\ (pc = "append" => m.doc # before) OBVIOUS
<1> HIDE DEF x, q, pc, vs
<1>6. r \in Requests /\ r.tab \in Tabs BY DEF RequestOK
<1>7. pc = "append" => q # <<>>
  <2> SUFFICES ASSUME m.doc # before PROVE q # <<>> BY <1>5
  <2>1. PICK k \in m.taken : TRUE BY <1>1
  <2>2. PICK j \in 1..Len(q) : q[j] = m.diffs[k] BY <1>3
  <2> QED BY <2>2
<1>8. \A j \in DOMAIN q : q[j] \subseteq m.doc /\ q[j] \subseteq d[r.tab]
  <2> TAKE j \in DOMAIN q
  <2>1. j \in 1..Len(q) BY <1>3
  <2>2. PICK k \in m.taken : q[j] = m.diffs[k] BY <2>1, <1>3
  <2> QED BY <2>2, <1>1
<1>9. x \in Requests BY <1>1, <1>2, <1>3, <1>4, <1>5, <1>6 DEF Requests, Pcs
<1>10. /\ x.pc = pc /\ x.doc = m.doc /\ x.diffs = q /\ x.verdicts = vs /\ x.batch = r.batch /\ x.tab = r.tab
       /\ x.stamp = r.stamp /\ x.prev = r.prev /\ x.own = r.own
  BY <1>2, <1>6 DEF Requests
<1>11. x.stamp <= n /\ x.prev <= n /\ x.own <= n BY <1>10 DEF RequestOK
<1>12. \A k \in DOMAIN x.batch : x.batch[k] \subseteq d[x.tab] BY <1>10, <1>6 DEF RequestOK
<1>13. x.pc \notin {"idle", "meta", "rows", "replay", "commit", "stamp", "trim", "born", "pace"} BY <1>5, <1>10
<1> HIDE DEF pc
<1> QED BY <1>4, <1>6, <1>7, <1>8, <1>9, <1>10, <1>11, <1>12, <1>13 DEF RequestOK, Unmerged, Appending, x

(* The elements of a sequence past the first n.                            *)
LEMMA RestOf ==
  ASSUME NEW R, NEW s \in Seq(R), NEW n \in 0..Len(s)
  PROVE  /\ SubSeq(s, n + 1, Len(s)) \in Seq(R) /\ Len(SubSeq(s, n + 1, Len(s))) = Len(s) - n
         /\ \A k \in 1..(Len(s) - n) :
              n + k \in 1..Len(s) /\ SubSeq(s, n + 1, Len(s))[k] = s[n + k]
<1>1. n \in Nat /\ Len(s) \in Nat /\ n <= Len(s) /\ n + 1 \in Int /\ Len(s) \in Int
  OBVIOUS
<1>2. \A i \in (n + 1)..Len(s) : s[i] \in R BY <1>1
<1> DEFINE q == SubSeq(s, n + 1, Len(s))
<1>3. /\ q \in Seq(R)
      /\ Len(q) = IF n + 1 <= Len(s) THEN Len(s) - (n + 1) + 1 ELSE 0
      /\ \A i \in 1..(Len(s) - (n + 1) + 1) : q[i] = s[n + 1 + i - 1]
  <2> HIDE DEF q
  <2> QED BY <1>1, <1>2, SubSeqProperties DEF q
<1> HIDE DEF q
<1>4. Len(q) = Len(s) - n /\ Len(s) - (n + 1) + 1 = Len(s) - n BY <1>1, <1>3
<1>5. ASSUME NEW k \in 1..(Len(s) - n) PROVE n + k \in 1..Len(s) /\ q[k] = s[n + k]
  <2>1. q[k] = s[n + 1 + k - 1] /\ n + 1 + k - 1 = n + k BY <1>1, <1>3, <1>4
  <2> QED BY <2>1, <1>1
<1> QED BY <1>3, <1>4, <1>5 DEF q

(* A concatenation, place by place.                                        *)
LEMMA Joined ==
  ASSUME NEW R, NEW s \in Seq(R), NEW t \in Seq(R)
  PROVE  /\ s \o t \in Seq(R) /\ Len(s \o t) = Len(s) + Len(t)
         /\ \A k \in 1..Len(s) : (s \o t)[k] = s[k]
         /\ \A k \in 1..Len(t) : (s \o t)[Len(s) + k] = t[k]
<1>1. Len(s) \in Nat /\ Len(t) \in Nat OBVIOUS
<1> DEFINE q == s \o t
<1>2. /\ q \in Seq(R) /\ Len(q) = Len(s) + Len(t)
      /\ \A i \in 1..(Len(s) + Len(t)) : q[i] = IF i <= Len(s) THEN s[i] ELSE t[i - Len(s)]
  BY ConcatProperties, Zenon
<1> HIDE DEF q
<1>3. \A k \in 1..Len(s) : q[k] = s[k] BY <1>1, <1>2
<1>4. ASSUME NEW k \in 1..Len(t) PROVE q[Len(s) + k] = t[k]
  <2>1. Len(s) + k \in 1..(Len(s) + Len(t)) /\ ~(Len(s) + k <= Len(s)) /\ Len(s) + k - Len(s) = k BY <1>1
  <2> QED BY <2>1, <1>2
<1> QED BY <1>2, <1>3, <1>4 DEF q

(* What the rest of a batch brings to a room built anew.                   *)
LEMMA MergeRestIsMerge ==
  ASSUME BaseInv, NEW r, r.tab \in Tabs, RequestOK(r, Len(log), doc), r.pc = "replay",
         NEW replayed \in SUBSET Items, replayed \subseteq KnownIn(doc)
  PROVE  /\ Merged(MergeRest(replayed, r), replayed, Len(r.batch))
         /\ MergeRest(replayed, r).doc \subseteq KnownIn(doc)
         /\ \A k \in 1..Len(r.batch) : MergeRest(replayed, r).diffs[k] \subseteq doc[r.tab]
<1> DEFINE n == Len(r.diffs)
           rest == SubSeq(r.batch, n + 1, Len(r.batch))
           start == replayed \cup UNION Range(r.diffs)
           m == Merge(start, rest)
           x == MergeRest(replayed, r)
<1>1. /\ r.batch \in Seq(SUBSET Items) /\ r.diffs \in Seq(SUBSET Items) /\ n <= Len(r.batch)
      /\ \A k \in 1..Len(r.batch) : r.batch[k] \subseteq doc[r.tab]
      /\ \A k \in 1..n : r.diffs[k] \subseteq doc[r.tab]
  BY DEF RequestOK, Requests
<1>2. n \in Nat /\ Len(r.batch) \in Nat BY <1>1
<1>3. /\ rest \in Seq(SUBSET Items) /\ Len(rest) = Len(r.batch) - n
      /\ \A k \in 1..Len(rest) : n + k \in 1..Len(r.batch) /\ rest[k] = r.batch[n + k]
  <2>1. n \in 0..Len(r.batch) BY <1>1, <1>2
  <2> HIDE DEF n
  <2> DEFINE b == r.batch
  <2>2. b \in Seq(SUBSET Items) /\ n \in 0..Len(b) BY <1>1, <2>1
  <2>3. /\ rest \in Seq(SUBSET Items) /\ Len(rest) = Len(b) - n
        /\ \A k \in 1..(Len(b) - n) : n + k \in 1..Len(b) /\ rest[k] = b[n + k]
    <3> HIDE DEF b
    <3> QED BY <2>2, RestOf, Zenon DEF b
  <2> QED BY <2>3
<1>4. x = [doc |-> m.doc, diffs |-> r.diffs \o m.diffs, taken |-> (1..n) \cup {n + k : k \in m.taken}]
  BY Zenon DEF MergeRest
<1>5. doc[r.tab] \subseteq KnownIn(doc) /\ doc[r.tab] \in SUBSET Items BY DEF BaseInv, TabOK, TabTypes
<1>6. /\ UNION Range(r.diffs) \subseteq doc[r.tab]
      /\ \A k \in 1..n : r.diffs[k] \subseteq UNION Range(r.diffs)
      /\ UNION Range(r.diffs) \subseteq UNION {r.diffs[k] : k \in 1..n}
  BY <1>1 DEF Range
<1>7. start \in SUBSET Items BY <1>5, <1>6
<1> HIDE DEF m, start, rest
<1>8. Merged(m, start, Len(rest)) /\ \A k \in 1..Len(rest) : m.diffs[k] \subseteq rest[k]
  BY <1>3, <1>7, MergeLosesNothing, Zenon DEF m
<1>9. /\ m.doc \in SUBSET Items
      /\ m.diffs \in Seq(SUBSET Items) /\ Len(m.diffs) = Len(rest)
      /\ m.taken \subseteq 1..Len(rest)
      /\ start \subseteq m.doc
      /\ m.doc \subseteq start \cup UNION {m.diffs[k] : k \in m.taken}
      /\ \A k \in m.taken : m.diffs[k] \subseteq m.doc
  BY <1>8 DEF Merged
<1> HIDE DEF x
<1>10. /\ x.doc = m.doc /\ x.diffs = r.diffs \o m.diffs /\ x.taken = (1..n) \cup {n + k : k \in m.taken}
  BY <1>4
<1>11. /\ x.diffs \in Seq(SUBSET Items) /\ Len(x.diffs) = Len(r.batch)
       /\ \A k \in 1..n : x.diffs[k] = r.diffs[k]
       /\ \A k \in 1..Len(rest) : x.diffs[n + k] = m.diffs[k]
  <2> DEFINE s == r.diffs
             t == m.diffs
  <2>1. s \in Seq(SUBSET Items) /\ t \in Seq(SUBSET Items) BY <1>1, <1>9
  <2>2. /\ s \o t \in Seq(SUBSET Items) /\ Len(s \o t) = Len(s) + Len(t)
        /\ \A k \in 1..Len(s) : (s \o t)[k] = s[k]
        /\ \A k \in 1..Len(t) : (s \o t)[Len(s) + k] = t[k]
    <3> HIDE DEF s, t
    <3> QED BY <2>1, Joined
  <2>3. x.diffs = s \o t /\ Len(s) = n /\ Len(t) = Len(rest) BY <1>9, <1>10
  <2>4. n + Len(rest) = Len(r.batch) BY <1>2, <1>3
  <2> HIDE DEF s, t, n
  <2> QED BY <2>2, <2>3, <2>4 DEF s, t
<1>12. x.taken \subseteq 1..Len(r.batch)
  <2> SUFFICES ASSUME NEW k \in x.taken PROVE k \in 1..Len(r.batch) OBVIOUS
  <2> HIDE DEF n
  <2>1. CASE k \in 1..n BY <2>1, <1>1, <1>2
  <2>2. CASE k \notin 1..n
    <3>1. PICK j \in m.taken : k = n + j BY <2>2, <1>10
    <3> QED BY <3>1, <1>9, <1>3
  <2> QED BY <2>1, <2>2
<1>13. \A k \in x.taken : x.diffs[k] \subseteq m.doc
  <2> TAKE k \in x.taken
  <2>1. CASE k \in 1..n BY <2>1, <1>6, <1>9, <1>11 DEF start
  <2>2. CASE k \notin 1..n
    <3>1. PICK j \in m.taken : k = n + j BY <2>2, <1>10
    <3> QED BY <3>1, <1>9, <1>11
  <2> QED BY <2>1, <2>2
<1>14. m.doc \subseteq replayed \cup UNION {x.diffs[k] : k \in x.taken}
  <2>1. UNION {m.diffs[k] : k \in m.taken} \subseteq UNION {x.diffs[k] : k \in x.taken}
    <3> SUFFICES ASSUME NEW j \in m.taken PROVE n + j \in x.taken /\ x.diffs[n + j] = m.diffs[j]
      OBVIOUS
    <3> QED BY <1>9, <1>10, <1>11
  <2>2. UNION Range(r.diffs) \subseteq UNION {x.diffs[k] : k \in x.taken}
    <3>1. ASSUME NEW i \in 1..n PROVE r.diffs[i] \subseteq UNION {x.diffs[k] : k \in x.taken}
      <4>1. i \in x.taken /\ x.diffs[i] = r.diffs[i] BY <1>10, <1>11
      <4> QED BY <4>1
    <3>2. UNION {r.diffs[k] : k \in 1..n} \subseteq UNION {x.diffs[k] : k \in x.taken}
      <4> HIDE DEF n
      <4> QED BY <3>1
    <3> DEFINE A == UNION Range(r.diffs)
               B == UNION {r.diffs[k] : k \in 1..n}
               C == UNION {x.diffs[k] : k \in x.taken}
    <3>3. A \subseteq B BY <1>1 DEF Range
    <3>4. B \subseteq C BY <3>2
    <3> HIDE DEF A, B, C
    <3>5. A \subseteq C BY <3>3, <3>4
    <3> QED BY <3>5 DEF A, C
  <2> QED BY <2>1, <2>2, <1>9 DEF start
<1>15. replayed \subseteq m.doc BY <1>9 DEF start
<1>16. Merged(x, replayed, Len(r.batch))
  BY <1>9, <1>10, <1>11, <1>12, <1>13, <1>14, <1>15 DEF Merged
<1>17. \A k \in 1..Len(r.batch) : x.diffs[k] \subseteq doc[r.tab]
  <2> TAKE k \in 1..Len(r.batch)
  <2>1. CASE k \in 1..n BY <2>1, <1>1, <1>11
  <2>2. CASE k \notin 1..n
    <3>1. k - n \in 1..Len(rest) /\ n + (k - n) = k BY <2>2, <1>2, <1>3
    <3>2. x.diffs[k] = m.diffs[k - n] /\ rest[k - n] = r.batch[k] BY <3>1, <1>11, <1>3
    <3> QED BY <3>1, <3>2, <1>8, <1>1
  <2> QED BY <2>1, <2>2
<1>18. x.doc \subseteq KnownIn(doc)
  <2>1. \A k \in x.taken : x.diffs[k] \subseteq KnownIn(doc) BY <1>12, <1>17, <1>5
  <2>2. UNION {x.diffs[k] : k \in x.taken} \subseteq KnownIn(doc) BY <2>1
  <2>3. m.doc \subseteq KnownIn(doc) BY <2>2, <1>14, Zenon
  <2> QED BY <2>3, <1>10
<1> QED BY <1>16, <1>17, <1>18 DEF x

(* The first number of a set.                                              *)
LEMMA FirstOf ==
  ASSUME NEW S \in SUBSET Nat, S # {}
  PROVE  LET first == CHOOSE k \in S : \A j \in S : k <= j
         IN  first \in S /\ \A j \in S : first <= j
<1>1. PICK x \in S : \A y \in S : ~(y < x) BY LeastNumber
<1>2. \A y \in S : x <= y BY <1>1
<1> QED BY <1>2, Zenon

(* A load of the rows: what is merged is known, what is to be stored is of *)
(* the tab.                                                                *)
LEMMA LoadRowsBase ==
  ASSUME BaseInv, NEW w \in Workers, LoadRows(w)
  PROVE  BaseInv'
<1> DEFINE loaded  == req[w].doc \cup Held(RowsAfter(req[w].stamp))
           r       == [req[w] EXCEPT !.stamp = Watermark, !.seen = Cardinality(Visible)]
           m       == Merge(loaded, r.batch)
           refused == DOMAIN r.batch \ m.taken
           first   == CHOOSE k \in refused : \A j \in refused : k <= j
           x       == IF refused = {} THEN Settle(r, loaded, m, FALSE)
                      ELSE [r EXCEPT !.pc = "replay", !.diffs = SubSeq(m.diffs, 1, first - 1)]
<1>1. req[w] \in Requests /\ RequestOK(req[w], Len(log), doc) BY RequestIs
<1>2. req[w].pc = "rows" /\ req' = [req EXCEPT ![w] = x] /\ Unchanging BY DEF LoadRows, Unchanging
<1>3. loaded \in SUBSET Items /\ loaded \subseteq KnownIn(doc)
  <2>1. Held(RowsAfter(req[w].stamp)) \subseteq KnownIn(doc) BY HeldType, RowsAfterType
  <2>2. req[w].doc \subseteq KnownIn(doc) BY <1>1 DEF RequestOK
  <2> QED BY <2>1, <2>2 DEF KnownIn
<1>4. RequestOK(r, Len(log), doc) /\ r.pc = "rows" /\ r \in Requests
  <2>1. Watermark \in Nat /\ Watermark <= Len(log) /\ Cardinality(Visible) \in Nat
    BY WatermarkIsLast, VisibleType, LogType
  <2>2. r \in Requests BY <1>1, <2>1 DEF Requests
  <2> QED BY <1>1, <1>2, <2>1, <2>2 DEF RequestOK, Requests, Unmerged, Appending
<1>5. r.batch \in Seq(SUBSET Items) /\ r.tab \in Tabs /\ \A k \in 1..Len(r.batch) : r.batch[k] \subseteq doc[r.tab]
  <2>1. r.batch \in Seq(SUBSET Items) /\ r.tab \in Tabs BY <1>4 DEF RequestOK, Requests
  <2>2. \A k \in DOMAIN r.batch : r.batch[k] \subseteq doc[r.tab] BY <2>1, <1>4 DEF RequestOK
  <2> HIDE DEF r
  <2> QED BY <2>1, <2>2
<1> HIDE DEF loaded, r, m
<1>6. /\ Merged(m, loaded, Len(r.batch))
      /\ \A k \in 1..Len(r.batch) : m.diffs[k] \subseteq r.batch[k]
  BY <1>3, <1>5, MergeLosesNothing, Zenon DEF m
<1>7. /\ m.doc \in SUBSET Items
      /\ m.diffs \in Seq(SUBSET Items) /\ Len(m.diffs) = Len(r.batch)
      /\ m.taken \subseteq 1..Len(r.batch)
      /\ m.doc \subseteq loaded \cup UNION {m.diffs[k] : k \in m.taken}
  BY <1>6 DEF Merged
<1>8. \A k \in 1..Len(r.batch) : m.diffs[k] \subseteq doc[r.tab] BY <1>5, <1>6
<1>9. doc[r.tab] \subseteq KnownIn(doc) BY <1>5 DEF BaseInv, TabOK
<1>10. m.doc \subseteq KnownIn(doc)
  <2>1. UNION {m.diffs[k] : k \in m.taken} \subseteq KnownIn(doc) BY <1>7, <1>8, <1>9
  <2> QED BY <2>1, <1>3, <1>7, Zenon
<1>11. ASSUME refused = {} PROVE RequestOK(Settle(r, loaded, m, FALSE), Len(log), doc)
  BY <1>4, <1>6, <1>8, <1>10, LogType, SettleOK
<1>12. ASSUME refused # {}
       PROVE  RequestOK([r EXCEPT !.pc = "replay", !.diffs = SubSeq(m.diffs, 1, first - 1)], Len(log), doc)
  <2> DEFINE q == SubSeq(m.diffs, 1, first - 1)
             y == [r EXCEPT !.pc = "replay", !.diffs = q]
  <2>1. DOMAIN r.batch = 1..Len(r.batch) /\ Len(r.batch) \in Nat BY <1>5
  <2>2. first \in 1..Len(r.batch)
    <3>1. refused \in SUBSET Nat BY <2>1
    <3>2. first \in refused BY <3>1, <1>12, FirstOf, Zenon
    <3> QED BY <3>2, <2>1
  <2> HIDE DEF first
  <2>3. /\ q \in Seq(SUBSET Items) /\ Len(q) = first - 1
        /\ \A k \in 1..Len(q) : k \in 1..Len(r.batch) /\ q[k] = m.diffs[k]
    BY <2>1, <2>2, <1>7
  <2> HIDE DEF q
  <2>4. Len(q) <= Len(r.batch) BY <2>1, <2>2, <2>3
  <2>5. y \in Requests BY <1>4, <2>3 DEF Requests, Pcs
  <2>6. \A k \in DOMAIN q : q[k] \subseteq doc[r.tab] BY <2>3, <1>8
  <2>7. /\ y.pc = "replay" /\ y.diffs = q /\ y.batch = r.batch /\ y.tab = r.tab /\ y.verdicts = r.verdicts
        /\ y.doc = r.doc /\ y.stamp = r.stamp /\ y.prev = r.prev /\ y.own = r.own
    BY <1>4 DEF Requests
  <2> HIDE DEF y
  <2>8. RequestOK(y, Len(log), doc)
    BY <1>4, <2>3, <2>4, <2>5, <2>6, <2>7 DEF RequestOK, Unmerged, Appending
  <2> QED BY <2>8 DEF y, q
<1>13. RequestOK(x, Len(log), doc) BY <1>11, <1>12
<1> HIDE DEF x
<1> QED BY <1>2, <1>13, RequestOnly DEF Unchanging

(* The same of a rebuild from the log.                                     *)
LEMMA ReplayBase ==
  ASSUME BaseInv, NEW w \in Workers, Replay(w)
  PROVE  BaseInv'
<1> DEFINE replayed == Held(RowsAfter(0))
           r == [req[w] EXCEPT !.stamp = Watermark, !.seen = Cardinality(Visible)]
           m == MergeRest(replayed, r)
           x == Settle(r, replayed, m, TRUE)
<1>1. req[w] \in Requests /\ RequestOK(req[w], Len(log), doc) BY RequestIs
<1>2. req[w].pc = "replay" /\ req' = [req EXCEPT ![w] = x] /\ Unchanging BY DEF Replay, Unchanging
<1>3. replayed \in SUBSET Items /\ replayed \subseteq KnownIn(doc) BY HeldType, RowsAfterType
<1>4. RequestOK(r, Len(log), doc) /\ r.pc = "replay" /\ r.tab \in Tabs
  <2>1. Watermark \in Nat /\ Watermark <= Len(log) /\ Cardinality(Visible) \in Nat
    BY WatermarkIsLast, VisibleType, LogType
  <2>2. r \in Requests BY <1>1, <2>1 DEF Requests
  <2> QED BY <1>1, <1>2, <2>1, <2>2 DEF RequestOK, Requests, Unmerged, Appending
<1> HIDE DEF replayed, r, m
<1>5. /\ Merged(m, replayed, Len(r.batch)) /\ m.doc \subseteq KnownIn(doc)
      /\ \A k \in 1..Len(r.batch) : m.diffs[k] \subseteq doc[r.tab]
  BY <1>3, <1>4, MergeRestIsMerge, Zenon DEF m
<1>6. RequestOK(x, Len(log), doc) BY <1>4, <1>5, LogType, SettleOK
<1> HIDE DEF x
<1> QED BY <1>2, <1>6, RequestOnly DEF Unchanging

(* The request that has inserted a row.                                    *)
Inserting(r, then) ==
  [r EXCEPT !.pc = IF LateRows THEN "commit" ELSE then,
            !.then = IF LateRows THEN then ELSE "idle", !.own = Len(log) + 1]

(* An INSERT of a well-formed row by a request that stays well formed.     *)
LEMMA AddRowBase ==
  ASSUME BaseInv, NEW w \in Workers, NEW type, NEW from, NEW items, NEW then, NEW r,
         AddRow(w, type, from, items, then, r),
         [type |-> type, from |-> from, items |-> items] \in Row,
         RowOK([type |-> type, from |-> from, items |-> items], doc),
         RequestOK(Inserting(r, then), Len(log) + 1, doc)
  PROVE  BaseInv'
<1> DEFINE row == [type |-> type, from |-> from, items |-> items]
           x == Inserting(r, then)
<1>1. /\ log' = Append(log, row) /\ req' = [req EXCEPT ![w] = x]
      /\ hidden' = IF LateRows THEN hidden \cup {Len(log) + 1} ELSE hidden
      /\ UNCHANGED <<gone, astray, canon, checkpoint, floor, doc, queue, cursor, needs, acked, faults>>
  BY DEF AddRow, Inserting, meta, tabs
<1> HIDE DEF row, x
<1>2. log \in Seq(Row) /\ Len(log) \in Nat /\ DOMAIN log = 1..Len(log) BY LogType DEF BaseInv, StoreOK
<1>3. row \in Row /\ RowOK(row, doc) BY DEF row
<1>4. log' \in Seq(Row) /\ Len(log') = Len(log) + 1 /\ DOMAIN log' = 1..(Len(log) + 1)
      /\ log'[Len(log) + 1] = row /\ \A i \in 1..Len(log) : log'[i] = log[i]
  BY <1>1, <1>2, <1>3
<1>5. \A i \in DOMAIN log' : RowOK(log'[i], doc)
  <2> TAKE i \in DOMAIN log'
  <2>1. CASE i = Len(log) + 1 BY <2>1, <1>3, <1>4
  <2>2. CASE i # Len(log) + 1
    <3>1. i \in DOMAIN log /\ log'[i] = log[i] BY <2>2, <1>2, <1>4
    <3> QED BY <3>1 DEF BaseInv
  <2> QED BY <2>1, <2>2
<1>6. StoreOK'
  <2>1. hidden' \subseteq DOMAIN log' /\ gone' \subseteq DOMAIN log' /\ (InOrder => hidden' = {})
        /\ astray' \subseteq DOMAIN log'
    BY <1>1, <1>2, <1>4 DEF BaseInv, StoreOK, InOrder
  <2>2. /\ canon' \in [items : SUBSET Items, cursor : Nat] /\ canon'.cursor <= Len(log')
        /\ checkpoint' \in Nat /\ checkpoint' <= Len(log') /\ floor' \in Nat
        /\ canon'.items \subseteq KnownIn(doc')
    BY <1>1, <1>2, <1>4 DEF BaseInv, StoreOK
  <2> QED BY <2>1, <2>2, <1>4 DEF StoreOK, InOrder
<1>7. RequestOK(x, Len(log'), doc) BY <1>4 DEF x
<1>8. Len(log) <= Len(log') BY <1>2, <1>4
<1>9. faults' \in Nat BY <1>1 DEF BaseInv, TabTypes
<1> QED BY <1>1, <1>5, <1>6, <1>7, <1>8, <1>9, OneRequestBase

(* A row was inserted: the rest of the request is as it was.               *)
LEMMA InsertingIs ==
  ASSUME BaseInv, NEW r \in Requests, NEW then \in {"append", "save", "stamp", "born"}
  PROVE  LET x == Inserting(r, then) IN
         /\ x \in Requests
         /\ x.pc = IF LateRows THEN "commit" ELSE then
         /\ x.then = IF LateRows THEN then ELSE "idle"
         /\ x.own = Len(log) + 1 /\ x.diffs = r.diffs /\ x.batch = r.batch /\ x.tab = r.tab
         /\ x.doc = r.doc /\ x.stamp = r.stamp /\ x.prev = r.prev /\ x.verdicts = r.verdicts
         /\ x.heard = r.heard
<1> DEFINE pc == IF LateRows THEN "commit" ELSE then
           next == IF LateRows THEN then ELSE "idle"
           n == Len(log) + 1
           x == [r EXCEPT !.pc = pc, !.then = next, !.own = n]
<1>1. pc \in Pcs /\ next \in Pcs BY DEF Pcs
<1>2. n \in Nat BY LogType
<1>3. Inserting(r, then) = x BY DEF Inserting
<1> HIDE DEF pc, next, n
<1>4. /\ x \in Requests /\ x.pc = pc /\ x.then = next
      /\ x.own = n /\ x.diffs = r.diffs /\ x.batch = r.batch /\ x.tab = r.tab
      /\ x.doc = r.doc /\ x.stamp = r.stamp /\ x.prev = r.prev /\ x.verdicts = r.verdicts
      /\ x.heard = r.heard
  BY <1>1, <1>2 DEF Requests
<1> HIDE DEF x
<1> QED BY <1>3, <1>4 DEF pc, next, n

(* The elements of a sequence without its first.                           *)
LEMMA TailOf ==
  ASSUME NEW R, NEW s \in Seq(R), s # <<>>
  PROVE  /\ Head(s) \in R /\ Head(s) = s[1] /\ 1 \in DOMAIN s /\ Tail(s) \in Seq(R)
         /\ Len(Tail(s)) = Len(s) - 1 /\ Len(s) \in Nat /\ Len(s) > 0
         /\ \A k \in DOMAIN Tail(s) : k \in Nat /\ k + 1 \in DOMAIN s /\ Tail(s)[k] = s[k + 1]
         /\ \A k \in DOMAIN s : k # 1 => k - 1 \in DOMAIN Tail(s) /\ k = (k - 1) + 1
         /\ (Tail(s) = <<>> <=> Len(s) = 1)
<1>1. Len(s) \in Nat /\ Len(s) > 0 /\ DOMAIN s = 1..Len(s) OBVIOUS
<1>2. Tail(s) \in Seq(R) /\ Len(Tail(s)) = Len(s) - 1 /\ DOMAIN Tail(s) = 1..(Len(s) - 1) BY <1>1
<1>3. \A k \in 1..(Len(s) - 1) : Tail(s)[k] = s[k + 1] BY <1>1
<1>4. Head(s) = s[1] /\ s[1] \in R BY <1>1
<1>5. Tail(s) = <<>> <=> Len(s) = 1 BY <1>1, <1>2
<1> QED BY <1>1, <1>2, <1>3, <1>4, <1>5

(* An accepted update becomes a row of its tab.                            *)
LEMMA StoreRowBase ==
  ASSUME BaseInv, NEW w \in Workers, StoreRow(w)
  PROVE  BaseInv'
<1> DEFINE r == req[w]
           then == IF Len(r.diffs) = 1 THEN "save" ELSE "append"
           y == [r EXCEPT !.diffs = Tail(@)]
           x == Inserting(y, then)
           row == [type |-> "update", from |-> r.tab, items |-> Head(r.diffs)]
<1>1. r \in Requests /\ RequestOK(r, Len(log), doc) BY RequestIs
<1>2. r.pc = "append" /\ AddRow(w, "update", r.tab, Head(r.diffs), then, y) BY DEF StoreRow
<1>3. Len(log) \in Nat BY LogType
<1>4. r.diffs \in Seq(SUBSET Items) /\ r.diffs # <<>> /\ r.tab \in Tabs
  BY <1>1, <1>2 DEF RequestOK, Requests, Appending
<1>5. \A k \in DOMAIN r.diffs : r.diffs[k] \subseteq doc[r.tab] /\ r.diffs[k] \subseteq r.doc
  BY <1>1, <1>2, <1>4 DEF RequestOK, Appending
<1> HIDE DEF r
<1>6. Head(r.diffs) \in SUBSET Items /\ Tail(r.diffs) \in Seq(SUBSET Items)
      /\ Head(r.diffs) = r.diffs[1] /\ 1 \in DOMAIN r.diffs
      /\ (\A k \in DOMAIN Tail(r.diffs) : k + 1 \in DOMAIN r.diffs /\ Tail(r.diffs)[k] = r.diffs[k + 1])
      /\ (Tail(r.diffs) = <<>> => then = "save")
  BY <1>4, TailOf
<1>7. row \in Row /\ RowOK(row, doc)
  <2>1. doc[r.tab] \subseteq KnownIn(doc) BY <1>4 DEF BaseInv, TabOK
  <2>2. Head(r.diffs) \subseteq doc[r.tab] BY <1>5, <1>6
  <2> QED BY <2>1, <2>2, <1>4, <1>6 DEF Row, RowOK
<1> DEFINE t == Tail(r.diffs)
<1>8. t \in Seq(SUBSET Items) /\ (\A k \in DOMAIN t : t[k] \subseteq doc[r.tab] /\ t[k] \subseteq r.doc)
      /\ (t = <<>> => then = "save") /\ then \in {"save", "append"}
  BY <1>5, <1>6
<1> HIDE DEF then, t
<1>9. /\ x \in Requests
      /\ x.pc = (IF LateRows THEN "commit" ELSE then) /\ x.then = (IF LateRows THEN then ELSE "idle")
      /\ x.own = Len(log) + 1 /\ x.diffs = t /\ x.batch = r.batch /\ x.tab = r.tab /\ x.doc = r.doc
      /\ x.stamp = r.stamp /\ x.prev = r.prev /\ x.verdicts = r.verdicts
  <2>1. y = [r EXCEPT !.diffs = t] BY DEF t
  <2>2. y \in Requests /\ y.diffs = t /\ y.batch = r.batch /\ y.tab = r.tab /\ y.doc = r.doc
        /\ y.stamp = r.stamp /\ y.prev = r.prev /\ y.verdicts = r.verdicts
    BY <2>1, <1>1, <1>8 DEF Requests, r
  <2>3. then \in {"append", "save", "stamp", "born"} BY <1>8
  <2> HIDE DEF y
  <2> QED BY <2>2, <2>3, InsertingIs
<1> HIDE DEF x
<1>10. x.stamp <= Len(log) + 1 /\ x.prev <= Len(log) + 1 /\ x.own <= Len(log) + 1 /\ x.own > 0
  BY <1>1, <1>3, <1>9, SMTT(30) DEF RequestOK, Requests
<1>11. RequestOK(x, Len(log) + 1, doc)
  <2>1. \A k \in DOMAIN x.batch : x.batch[k] \subseteq doc[x.tab] BY <1>1, <1>4, <1>9 DEF RequestOK
  <2>2. DOMAIN x.verdicts = DOMAIN x.batch BY <1>1, <1>2, <1>9 DEF RequestOK, Unmerged
  <2>3. x.doc \subseteq KnownIn(doc) BY <1>1, <1>9 DEF RequestOK
  <2>4. Appending(x) => t # <<>> BY <1>8, <1>9 DEF Appending
  <2> QED BY <2>1, <2>2, <2>3, <2>4, <1>4, <1>8, <1>9, <1>10 DEF RequestOK, Unmerged
<1> QED BY <1>2, <1>7, <1>11, AddRowBase DEF x

(* Storing a row that ends the updates: a checkpoint or the genesis.       *)
LEMMA SnapshotBase ==
  ASSUME BaseInv, NEW w \in Workers, NEW from \in Tabs \cup {Server}, NEW items \in SUBSET Items,
         items \subseteq KnownIn(doc), NEW then \in {"stamp", "born"},
         req[w].pc \in {"snapshot", "birth"}, AddRow(w, "snapshot", from, items, then, req[w])
  PROVE  BaseInv'
<1> DEFINE r == req[w]
           x == Inserting(r, then)
<1>1. r \in Requests /\ RequestOK(r, Len(log), doc) BY RequestIs
<1>2. Len(log) \in Nat BY LogType
<1> HIDE DEF r
<1>3. /\ x \in Requests
      /\ x.pc = (IF LateRows THEN "commit" ELSE then) /\ x.then = (IF LateRows THEN then ELSE "idle")
      /\ x.own = Len(log) + 1 /\ x.diffs = r.diffs /\ x.batch = r.batch /\ x.tab = r.tab /\ x.doc = r.doc
      /\ x.stamp = r.stamp /\ x.prev = r.prev /\ x.verdicts = r.verdicts
  <2>1. then \in {"append", "save", "stamp", "born"} OBVIOUS
  <2> QED BY <1>1, <2>1, InsertingIs
<1> HIDE DEF x
<1>4. x.stamp <= Len(log) + 1 /\ x.prev <= Len(log) + 1 /\ x.own <= Len(log) + 1 /\ x.own > 0
  BY <1>1, <1>2, <1>3 DEF RequestOK, Requests
<1>5. RequestOK(x, Len(log) + 1, doc)
  <2>1. r.tab \in Tabs BY <1>1 DEF RequestOK, r
  <2>2. DOMAIN x.verdicts = DOMAIN x.batch BY <1>1, <1>3 DEF RequestOK, Unmerged, r
  <2> QED BY <2>1, <2>2, <1>1, <1>3, <1>4 DEF RequestOK, Unmerged, Appending
<1>6. [type |-> "snapshot", from |-> from, items |-> items] \in Row
      /\ RowOK([type |-> "snapshot", from |-> from, items |-> items], doc)
  BY DEF Row, RowOK
<1> QED BY <1>5, <1>6, AddRowBase DEF x, r

(* A snapshot row holds the document of the request.                       *)
LEMMA StoreSnapshotBase ==
  ASSUME BaseInv, NEW w \in Workers, StoreSnapshot(w)
  PROVE  BaseInv'
<1>1. req[w] \in Requests /\ RequestOK(req[w], Len(log), doc) BY RequestIs
<1>2. req[w].pc = "snapshot" /\ AddRow(w, "snapshot", req[w].tab, req[w].doc, "stamp", req[w])
  BY DEF StoreSnapshot
<1>3. req[w].tab \in Tabs /\ req[w].doc \in SUBSET Items /\ req[w].doc \subseteq KnownIn(doc)
  BY <1>1, <1>2 DEF RequestOK, Requests
<1> QED BY <1>2, <1>3, SnapshotBase

(* A genesis row holds the genesis.                                        *)
LEMMA StoreGenesisBase ==
  ASSUME BaseInv, NEW w \in Workers, StoreGenesis(w)
  PROVE  BaseInv'
<1>1. req[w].pc = "birth" /\ AddRow(w, "snapshot", Server, {Genesis}, "born", req[w])
  BY DEF StoreGenesis
<1>2. {Genesis} \in SUBSET Items /\ {Genesis} \subseteq KnownIn(doc) BY DEF Items, KnownIn
<1> QED BY <1>1, <1>2, SnapshotBase

(* A step that changes where a request is.                                 *)
LEMMA GoesOn ==
  ASSUME BaseInv, NEW w \in Workers, NEW pc \in Pcs, ~Unmerged(req[w]),
         pc \notin {"idle", "meta", "rows", "replay", "append", "commit"},
         pc \in {"stamp", "trim", "born", "pace"} => req[w].own > 0,
         pc = "trim" => req[w].prev > 0
  PROVE  RequestOK([req[w] EXCEPT !.pc = pc], Len(log), doc)
<1> DEFINE r == req[w]
           x == [r EXCEPT !.pc = pc]
<1>1. r \in Requests /\ RequestOK(r, Len(log), doc) /\ ~Unmerged(r)
      /\ (pc \in {"stamp", "trim", "born", "pace"} => r.own > 0) /\ (pc = "trim" => r.prev > 0)
  BY RequestIs
<1> HIDE DEF r
<1>2. /\ x \in Requests /\ x.pc = pc
      /\ x.own = r.own /\ x.diffs = r.diffs /\ x.batch = r.batch /\ x.tab = r.tab /\ x.doc = r.doc
      /\ x.stamp = r.stamp /\ x.prev = r.prev /\ x.verdicts = r.verdicts
  BY <1>1 DEF Requests
<1> HIDE DEF x
<1>3. RequestOK(x, Len(log), doc) BY <1>1, <1>2 DEF RequestOK, Unmerged, Appending
<1> QED BY <1>3 DEF x, r

(* A row becomes visible, its request goes on.                             *)
LEMMA CommitBase ==
  ASSUME BaseInv, NEW w \in Workers, Commit(w)
  PROVE  BaseInv'
<1> DEFINE r == req[w]
           x == [r EXCEPT !.pc = r.then, !.then = "idle"]
<1>1. r \in Requests /\ RequestOK(r, Len(log), doc) BY RequestIs
<1>2. /\ r.pc = "commit" /\ hidden' = hidden \ {r.own} /\ astray' \subseteq astray \cup hidden
      /\ UNCHANGED <<log, gone, meta, tabs, faults>>
      /\ req' = [req EXCEPT ![w].pc = r.then, ![w].then = "idle"]
  BY DEF Commit, Late
<1>3. req' = [req EXCEPT ![w] = x] BY <1>2, <1>1 DEF BaseInv, Requests
<1> HIDE DEF r
<1>4. r.then \in {"append", "save", "stamp", "born"} BY <1>1, <1>2 DEF RequestOK
<1>5. /\ x \in Requests /\ x.pc = r.then
      /\ x.own = r.own /\ x.diffs = r.diffs /\ x.batch = r.batch /\ x.tab = r.tab /\ x.doc = r.doc
      /\ x.stamp = r.stamp /\ x.prev = r.prev /\ x.verdicts = r.verdicts
  BY <1>1, <1>4 DEF Requests, Pcs
<1> HIDE DEF x
<1>6. RequestOK(x, Len(log), doc)
  BY <1>1, <1>2, <1>4, <1>5 DEF RequestOK, Unmerged, Appending
<1>7. StoreOK' BY <1>2 DEF BaseInv, StoreOK, meta, tabs, InOrder
<1>8. UNCHANGED <<log, tabs>> /\ faults' \in Nat BY <1>2 DEF BaseInv, TabTypes, tabs
<1> QED BY <1>3, <1>6, <1>7, <1>8, LogSame

(* The canonical becomes the document of the request, at its stamp.        *)
LEMMA SaveCanonicalBase ==
  ASSUME BaseInv, NEW w \in Workers, SaveCanonical(w)
  PROVE  BaseInv'
<1> DEFINE pc == IF req[w].pc = "save" THEN "due" ELSE "read"
           x == [req[w] EXCEPT !.pc = pc]
<1>1. req[w] \in Requests /\ RequestOK(req[w], Len(log), doc) BY RequestIs
<1>2. /\ req[w].pc \in {"save", "resave"} /\ canon' = [items |-> req[w].doc, cursor |-> req[w].stamp]
      /\ UNCHANGED <<room, checkpoint, floor, tabs, faults>>
      /\ req' = [req EXCEPT ![w].pc = IF @ = "save" THEN "due" ELSE "read"]
  BY DEF SaveCanonical
<1>3. req' = [req EXCEPT ![w] = x] BY <1>2, <1>1 DEF BaseInv, Requests
<1>4. RequestOK(x, Len(log), doc) BY <1>2, GoesOn DEF Pcs, Unmerged
<1>5. StoreOK'
  <2>1. /\ canon' \in [items : SUBSET Items, cursor : Nat] /\ canon'.cursor <= Len(log)
        /\ canon'.items \subseteq KnownIn(doc)
    BY <1>1, <1>2 DEF RequestOK, Requests
  <2> QED BY <2>1, <1>2 DEF BaseInv, StoreOK, room, tabs
<1>6. UNCHANGED <<log, tabs>> /\ faults' \in Nat BY <1>2 DEF BaseInv, TabTypes, tabs, room
<1> HIDE DEF x
<1> QED BY <1>3, <1>4, <1>5, <1>6, LogSame

(* The rows folded into a checkpoint hold known items.                     *)
LEMMA CheckpointDueBase ==
  ASSUME BaseInv, NEW w \in Workers, CheckpointDue(w)
  PROVE  BaseInv'
<1> DEFINE r == req[w]
           x == [r EXCEPT !.pc = "snapshot", !.doc = @ \cup Held(RowsAfter(checkpoint)), !.prev = checkpoint]
           y == [r EXCEPT !.pc = "read"]
<1>1. r \in Requests /\ RequestOK(r, Len(log), doc) BY RequestIs
<1>2. r.pc = "due" /\ Unchanging /\ (req' = [req EXCEPT ![w] = x] \/ req' = [req EXCEPT ![w] = y])
  <2> DEFINE due == req[w].seen >= Interval /\ Cardinality(RowsAfter(checkpoint)) >= Interval
  <2>1. r.pc = "due" /\ Unchanging /\ req' = [req EXCEPT ![w] = IF due THEN x ELSE y]
    BY DEF CheckpointDue, Unchanging
  <2> HIDE DEF due, x, y
  <2> QED BY <2>1
<1>3. RequestOK(y, Len(log), doc) BY <1>2, GoesOn DEF Pcs, Unmerged
<1>4. RequestOK(x, Len(log), doc)
  <2> DEFINE H == Held(RowsAfter(checkpoint))
  <2>1. H \in SUBSET Items /\ H \subseteq KnownIn(doc) BY HeldType, RowsAfterType
  <2>2. checkpoint \in Nat /\ checkpoint <= Len(log) BY DEF BaseInv, StoreOK
  <2> HIDE DEF H, r
  <2> DEFINE D == r.doc \cup H
  <2>3. x = [r EXCEPT !.pc = "snapshot", !.doc = D, !.prev = checkpoint] BY DEF H, r
  <2>3a. D \in SUBSET Items BY <1>1, <2>1 DEF Requests
  <2> HIDE DEF D
  <2>4. /\ x \in Requests /\ x.pc = "snapshot" /\ x.doc = D /\ x.prev = checkpoint
        /\ x.own = r.own /\ x.diffs = r.diffs /\ x.batch = r.batch /\ x.tab = r.tab
        /\ x.stamp = r.stamp /\ x.verdicts = r.verdicts
    BY <1>1, <2>3a, <2>2, <2>3 DEF Requests, Pcs
  <2> HIDE DEF x
  <2>5. D \subseteq KnownIn(doc) BY <1>1, <2>1 DEF D, RequestOK
  <2> QED BY <1>1, <1>2, <2>5, <2>2, <2>4 DEF RequestOK, Unmerged, Appending
<1> HIDE DEF x, y
<1> QED BY <1>2, <1>3, <1>4, RequestOnly DEF Unchanging

(* The steps that only move a request on and change the room meta.         *)
LEMMA MetaBase ==
  ASSUME BaseInv, NEW w \in Workers, NEW pc \in {"trim", "read", "birth", "pace"}, ~Unmerged(req[w]),
         pc \in {"trim", "pace"} => req[w].own > 0, pc = "trim" => req[w].prev > 0,
         req' = [req EXCEPT ![w].pc = pc], UNCHANGED <<log, hidden, tabs, faults>>,
         gone' \subseteq DOMAIN log, astray' \subseteq DOMAIN log, floor' \in Nat,
         checkpoint' \in {checkpoint, req[w].own},
         canon' \in {canon, [items |-> {Genesis}, cursor |-> 0]}
  PROVE  BaseInv'
<1> DEFINE x == [req[w] EXCEPT !.pc = pc]
<1>1. req[w] \in Requests /\ RequestOK(req[w], Len(log), doc) BY RequestIs
<1>2. req' = [req EXCEPT ![w] = x] BY <1>1 DEF BaseInv, Requests
<1>3. RequestOK(x, Len(log), doc) BY GoesOn DEF Pcs
<1>4. StoreOK'
  <2>1. checkpoint' \in Nat /\ checkpoint' <= Len(log)
    BY <1>1 DEF RequestOK, Requests, BaseInv, StoreOK
  <2>2. canon' \in [items : SUBSET Items, cursor : Nat] /\ canon'.cursor <= Len(log)
        /\ canon'.items \subseteq KnownIn(doc)
    <3>1. Genesis \in Items /\ {Genesis} \subseteq KnownIn(doc) BY DEF Items, KnownIn
    <3>2. Len(log) \in Nat BY LogType
    <3> QED BY <3>1, <3>2 DEF BaseInv, StoreOK
  <2> QED BY <2>1, <2>2 DEF BaseInv, StoreOK, tabs
<1>5. UNCHANGED <<log, tabs>> /\ faults' \in Nat BY DEF BaseInv, TabTypes, tabs
<1> HIDE DEF x
<1> QED BY <1>2, <1>3, <1>4, <1>5, LogSame

(* The steps that write a meta value or trim.                              *)
LEMMA MetaStepsBase ==
  ASSUME BaseInv, NEW w \in Workers,
         StampCheckpoint(w) \/ Trim(w) \/ Initialize(w) \/ SaveGenesis(w) \/ PaceGenesis(w)
  PROVE  BaseInv'
<1>1. req[w] \in Requests /\ RequestOK(req[w], Len(log), doc) BY RequestIs
<1>2. gone \subseteq DOMAIN log /\ astray \subseteq DOMAIN log /\ floor \in Nat BY DEF BaseInv, StoreOK
<1>3. CASE StampCheckpoint(w)
  <2> DEFINE pc == IF req[w].prev > 0 THEN "trim" ELSE "read"
  <2>1. req[w].pc = "stamp" /\ req' = [req EXCEPT ![w].pc = pc] /\ checkpoint' = req[w].own
        /\ UNCHANGED <<room, canon, floor, tabs, faults>>
    BY <1>3 DEF StampCheckpoint
  <2>2. req[w].own > 0 /\ (pc = "trim" => req[w].prev > 0) /\ ~Unmerged(req[w])
    BY <1>1, <2>1 DEF RequestOK, Unmerged
  <2> HIDE DEF pc
  <2>3. pc \in {"trim", "read"} BY DEF pc
  <2> QED BY <2>1, <2>2, <2>3, <1>2, MetaBase DEF room
<1>4. CASE Trim(w)
  <2>1. req[w].pc = "trim" /\ req' = [req EXCEPT ![w].pc = "read"] /\ floor' = req[w].prev
        /\ gone' \subseteq gone \cup Visible /\ astray' \subseteq astray \cup Visible
        /\ UNCHANGED <<log, hidden, canon, checkpoint, tabs, faults>>
    BY <1>4 DEF Trim, Unread
  <2>2. ~Unmerged(req[w]) /\ floor' \in Nat BY <1>1, <2>1 DEF Unmerged, Requests
  <2>3. gone' \subseteq DOMAIN log /\ astray' \subseteq DOMAIN log BY <1>2, <2>1 DEF Visible
  <2> QED BY <2>1, <2>2, <2>3, MetaBase
<1>5. CASE Initialize(w)
  <2>1. req[w].pc = "read" /\ req' = [req EXCEPT ![w].pc = "birth"] /\ Unchanging
    BY <1>5 DEF Initialize, Unchanging
  <2> QED BY <2>1, <1>2, MetaBase DEF Unmerged, Unchanging, room, meta
<1>6. CASE SaveGenesis(w)
  <2>1. req[w].pc = "born" /\ req' = [req EXCEPT ![w].pc = "pace"]
        /\ canon' = [items |-> {Genesis}, cursor |-> 0]
        /\ UNCHANGED <<room, checkpoint, floor, tabs, faults>>
    BY <1>6 DEF SaveGenesis
  <2>2. req[w].own > 0 /\ ~Unmerged(req[w]) BY <1>1, <2>1 DEF RequestOK, Unmerged
  <2> QED BY <2>1, <2>2, <1>2, MetaBase DEF room
<1>7. CASE PaceGenesis(w)
  <2>1. req[w].pc = "pace" /\ req' = [req EXCEPT ![w].pc = "read"] /\ checkpoint' = req[w].own
        /\ UNCHANGED <<room, canon, floor, tabs, faults>>
    BY <1>7 DEF PaceGenesis
  <2> QED BY <2>1, <1>2, MetaBase DEF room, Unmerged
<1> QED BY <1>3, <1>4, <1>5, <1>6, <1>7

(* Every step of a request but the answer.                                 *)
LEMMA HandleRestBase ==
  ASSUME BaseInv, NEW w \in Workers, Handle(w), ~Answer(w)
  PROVE  BaseInv'
  BY LoadMetaBase, LoadRowsBase, ReplayBase, StoreRowBase, CommitBase, SaveCanonicalBase,
     CheckpointDueBase, StoreSnapshotBase, StoreGenesisBase, MetaStepsBase, Zenon DEF Handle

(* A step of the tabs.                                                     *)
LEMMA TabsBase ==
  ASSUME BaseInv, UNCHANGED <<log, gone, meta>>, hidden' \subseteq hidden, astray' \subseteq astray \cup hidden, Grown(doc, doc'),
         TabTypes', \A t \in Tabs : TabOK(t)',
         NEW w \in Workers, NEW r, RequestOK(r, Len(log), doc'), req' = [req EXCEPT ![w] = r]
  PROVE  BaseInv'
<1>1. Len(log) \in Nat BY LogType
<1>2. req' \in [Workers -> Requests] /\ \A u \in Workers : RequestOK(req'[u], Len(log), doc')
  <2> DEFINE n == Len(log)
             e == doc'
  <2>1. n \in Nat /\ n <= n /\ Grown(doc, e) /\ RequestOK(r, n, e) /\ RequestsOK(n, doc)
        /\ req \in [Workers -> Requests]
    BY <1>1 DEF BaseInv
  <2> HIDE DEF n, e
  <2>2. req' \in [Workers -> Requests] /\ \A u \in Workers : RequestOK(req'[u], n, e)
    BY <2>1, Lane, Zenon
  <2> QED BY <2>2 DEF n, e
<1>3. KnownIn(doc) \subseteq KnownIn(doc') BY KnownStays
<1>4. StoreOK' BY <1>3 DEF BaseInv, StoreOK, InOrder, meta
<1>5. \A i \in DOMAIN log' : RowOK(log'[i], doc')
  <2> TAKE i \in DOMAIN log'
  <2>1. log' = log OBVIOUS
  <2>2. RowOK(log[i], doc) BY <2>1, Zenon DEF BaseInv
  <2> DEFINE e == doc'
             row == log[i]
  <2>3. Grown(doc, e) /\ RowOK(row, doc) BY <2>2
  <2> HIDE DEF e, row
  <2>4. RowOK(row, e) BY <2>3, RowStays, Zenon
  <2> QED BY <2>4, <2>1 DEF e, row
<1>6. RequestsOK(Len(log), doc)' BY <1>2 DEF RequestsOK
<1> QED BY <1>2, <1>4, <1>5, <1>6 DEF BaseInv

(* The assumptions about the constants that are used.                      *)
LEMMA ServerIs == Server \notin Tabs /\ MaxEdits \in Nat /\ MaxFaults \in Nat
  BY ServerIsNoTab, BoundsAreNat

(* An idle request is one in any state.                                    *)
LEMMA IdleOK ==
  ASSUME NEW n \in Nat, NEW d
  PROVE  RequestOK(Idle, n, d)
<1>1. Idle \in Requests
  BY DEF Idle, Requests, Pcs
<1> QED BY <1>1, ServerIs DEF RequestOK, Idle, Unmerged, Appending

(* Known items add nothing to the numbered ones.                           *)
LEMMA NumberedStays ==
  ASSUME NEW t \in Tabs, Numbered(t, doc), NEW d, NEW H, H \subseteq KnownIn(doc),
         doc[t] \subseteq d[t], d[t] \subseteq doc[t] \cup H
  PROVE  Numbered(t, d)
<1>1. PICK n \in 0..MaxEdits : \A x \in Items : x[1] = t => (x \in doc[t] <=> x[2] <= n)
  BY DEF Numbered
<1>2. ASSUME NEW x \in Items, x[1] = t PROVE x \in d[t] <=> x \in doc[t]
  <2>1. x # Genesis BY <1>2, ServerIs DEF Genesis
  <2>2. x \in H => x \in doc[t] BY <1>2, <2>1 DEF KnownIn
  <2> QED BY <2>2
<1> QED BY <1>1, <1>2 DEF Numbered

(* The tab receives known items of others, so its own stay numbered; its   *)
(* cursor stays within the log.                                            *)
LEMMA AnswerBase ==
  ASSUME BaseInv, NEW w \in Workers, Answer(w)
  PROVE  BaseInv'
<1> DEFINE t == req[w].tab
           from == IF 0 < cursor[t] /\ cursor[t] < floor THEN floor - 1 ELSE cursor[t]
           sent == {i \in RowsAfter(from) : ~(log[i].type = "update" /\ log[i].from = t)}
           merged == {k \in DOMAIN req[w].verdicts : req[w].verdicts[k] # "resync-required"}
           H == Held(sent)
           A == UNION {req[w].batch[k] : k \in merged}
<1>1. req[w] \in Requests /\ RequestOK(req[w], Len(log), doc) BY RequestIs
<1>2. /\ req[w].pc = "read" /\ req' = [req EXCEPT ![w] = Idle] /\ Visible # {}
      /\ IF req[w].heard
         THEN /\ doc' = [doc EXCEPT ![t] = @ \cup H]
              /\ cursor' = [cursor EXCEPT ![t] = Watermark]
              /\ acked' = acked \cup A
         ELSE UNCHANGED <<doc, cursor, acked>>
      /\ UNCHANGED <<room, meta, queue, needs, faults>>
  BY DEF Answer
<1>3. t \in Tabs /\ Len(log) \in Nat /\ TabTypes BY <1>1, <1>2, LogType DEF RequestOK, BaseInv
<1>4. H \subseteq KnownIn(doc) /\ H \in SUBSET Items
  <2>1. sent \in SUBSET DOMAIN log BY RowsAfterType
  <2> HIDE DEF sent
  <2> QED BY <2>1, HeldType
<1>5. A \subseteq Items
  <2>1. req[w].batch \in Seq(SUBSET Items) BY <1>1 DEF Requests
  <2>2. merged \subseteq DOMAIN req[w].batch BY <1>1, <1>2 DEF RequestOK, Unmerged
  <2> QED BY <2>1, <2>2
<1>6. Watermark \in Nat /\ Watermark <= Len(log) BY WatermarkIsLast, <1>3
<1> HIDE DEF H, A, t
<1>7. /\ TabTypes' /\ Grown(doc, doc')
      /\ \A u \in Tabs : doc'[u] \subseteq doc[u] \cup H /\ cursor'[u] <= Len(log)
  <2>0. \A u \in Tabs : cursor[u] <= Len(log) BY DEF BaseInv, TabOK
  <2>1. CASE req[w].heard
    BY <2>0, <2>1, <1>2, <1>3, <1>4, <1>5, <1>6, ZenonT(60) DEF TabTypes, Grown
  <2>2. CASE ~req[w].heard
    BY <2>0, <2>2, <1>2, <1>3 DEF TabTypes, Grown
  <2> QED BY <2>1, <2>2
<1>8. \A u \in Tabs : TabOK(u)'
  <2> TAKE u \in Tabs
  <2>1. TabOK(u) BY DEF BaseInv
  <2>2. KnownIn(doc) \subseteq KnownIn(doc') BY <1>7, KnownStays
  <2>3. doc[u] \subseteq doc'[u] /\ doc'[u] \subseteq doc[u] \cup H BY <1>7 DEF Grown
  <2>4. Numbered(u, doc') BY <2>1, <2>3, <1>4, NumberedStays DEF TabOK
  <2>5. doc'[u] \subseteq KnownIn(doc') BY <2>1, <2>2, <2>3, <1>4 DEF TabOK
  <2>6. \A k \in DOMAIN queue'[u] : queue'[u][k] \subseteq doc'[u] BY <2>1, <2>3, <1>2 DEF TabOK
  <2>7. cursor'[u] <= Len(log') BY <1>7, <1>2 DEF room
  <2> QED BY <2>4, <2>5, <2>6, <2>7 DEF TabOK
<1>9. RequestOK(Idle, Len(log), doc') BY IdleOK, <1>3
<1> QED BY <1>2, <1>7, <1>8, <1>9, TabsBase DEF room

(* The batch of a request is what its tab had queued.                      *)
LEMMA SendBase ==
  ASSUME BaseInv, NEW t \in Tabs, NEW w \in Workers, Send(t, w)
  PROVE  BaseInv'
<1> DEFINE pc == IF queue[t] = <<>> THEN "read" ELSE "meta"
           b == queue[t]
           x == [Idle EXCEPT !.pc = pc, !.tab = t, !.heard = TRUE, !.batch = b]
<1>1. req' = [req EXCEPT ![w] = x] /\ queue' = [queue EXCEPT ![t] = <<>>]
      /\ UNCHANGED <<room, meta, doc, cursor, needs, acked, faults>>
  BY DEF Send
<1>2. b \in Seq(SUBSET Items) /\ (\A k \in DOMAIN b : b[k] \subseteq doc[t]) /\ Len(log) \in Nat
      /\ (pc = "read" => b = <<>>) /\ pc \in {"read", "meta"}
  BY LogType DEF BaseInv, TabTypes, TabOK
<1> HIDE DEF pc, b
<1>3. /\ x \in Requests /\ x.pc = pc /\ x.doc = {} /\ x.prev = 0 /\ x.own = 0 /\ x.stamp = 0
      /\ x.diffs = <<>> /\ x.batch = b /\ x.tab = t /\ x.verdicts = <<>>
  <2>1. Idle \in Requests /\ Idle.doc = {} /\ Idle.prev = 0 /\ Idle.own = 0 /\ Idle.stamp = 0
        /\ Idle.diffs = <<>> /\ Idle.verdicts = <<>>
    BY DEF Idle, Requests, Pcs
  <2> QED BY <1>2, <2>1 DEF Requests, Pcs
<1> HIDE DEF x
<1>4. RequestOK(x, Len(log), doc) BY <1>2, <1>3 DEF RequestOK, Unmerged, Appending
<1>5. TabTypes' BY <1>1 DEF BaseInv, TabTypes
<1>6. \A u \in Tabs : TabOK(u)'
  <2> TAKE u \in Tabs
  <2>1. TabOK(u) BY DEF BaseInv
  <2>2. queue'[u] = <<>> \/ queue'[u] = queue[u] BY <1>1 DEF BaseInv, TabTypes
  <2> QED BY <1>1, <2>1, <2>2 DEF TabOK, room
<1>7. Grown(doc, doc') BY <1>1 DEF Grown
<1>8. RequestOK(x, Len(log), doc') BY <1>1, <1>4
<1> QED BY <1>1, <1>5, <1>6, <1>7, <1>8, TabsBase DEF room

(* The queue of a tab whose request failed.                                *)
Requeued(w) ==
  LET t == req[w].tab IN
  IF req[w].batch = <<>> THEN queue[t]
  ELSE IF cursor[t] > 0 THEN <<doc[t]>> ELSE req[w].batch \o queue[t]

(* What a failed request leaves in the queue is of its tab's document.     *)
LEMMA RequeuedType ==
  ASSUME BaseInv, NEW w \in Workers, req[w].tab \in Tabs
  PROVE  /\ Requeued(w) \in Seq(SUBSET Items)
         /\ \A k \in DOMAIN Requeued(w) : Requeued(w)[k] \subseteq doc[req[w].tab]
<1> DEFINE t == req[w].tab
           b == req[w].batch
           q == queue[t]
<1>1. req[w] \in Requests /\ RequestOK(req[w], Len(log), doc) BY RequestIs
<1>2. b \in Seq(SUBSET Items) /\ q \in Seq(SUBSET Items) /\ doc[t] \in SUBSET Items
  BY <1>1 DEF Requests, BaseInv, TabTypes
<1>3. \A k \in DOMAIN b : b[k] \subseteq doc[t] BY <1>1 DEF RequestOK
<1>4. \A k \in DOMAIN q : q[k] \subseteq doc[t] BY DEF BaseInv, TabOK
<1>5. Requeued(w) = IF b = <<>> THEN q ELSE IF cursor[t] > 0 THEN <<doc[t]>> ELSE b \o q
  BY DEF Requeued
<1> HIDE DEF b, q
<1>6. /\ b \o q \in Seq(SUBSET Items) /\ Len(b \o q) = Len(b) + Len(q)
      /\ \A k \in 1..Len(b) : (b \o q)[k] = b[k]
      /\ \A k \in 1..Len(q) : (b \o q)[Len(b) + k] = q[k]
  BY <1>2, Joined
<1> DEFINE j == b \o q
<1>7. ASSUME NEW k \in DOMAIN j PROVE j[k] \subseteq doc[t]
  <2>1. Len(b) \in Nat /\ Len(q) \in Nat /\ k \in 1..(Len(b) + Len(q)) BY <1>2, <1>6
  <2>2. CASE k \in 1..Len(b) BY <2>2, <1>2, <1>3, <1>6
  <2>3. CASE k \notin 1..Len(b)
    <3>1. k - Len(b) \in 1..Len(q) /\ Len(b) + (k - Len(b)) = k BY <2>1, <2>3
    <3>2. j[k] = q[k - Len(b)] BY <3>1, <1>6
    <3> QED BY <3>1, <3>2, <1>2, <1>4
  <2> QED BY <2>2, <2>3
<1>8. j \in Seq(SUBSET Items) /\ \A k \in DOMAIN j : j[k] \subseteq doc[t] BY <1>6, <1>7
<1> HIDE DEF j
<1>9. <<doc[t]>> \in Seq(SUBSET Items) /\ \A k \in DOMAIN <<doc[t]>> : <<doc[t]>>[k] \subseteq doc[t]
  BY <1>2
<1> DEFINE one == <<doc[t]>>
<1> HIDE DEF one
<1>10. one \in Seq(SUBSET Items) /\ \A k \in DOMAIN one : one[k] \subseteq doc[t] BY <1>9 DEF one
<1>11. Requeued(w) = q \/ Requeued(w) = one \/ Requeued(w) = j BY <1>5 DEF one, j
<1> HIDE DEF t
<1>12. Requeued(w) \in Seq(SUBSET Items) /\ \A k \in DOMAIN Requeued(w) : Requeued(w)[k] \subseteq doc[t]
  BY <1>2, <1>4, <1>8, <1>10, <1>11
<1> QED BY <1>12 DEF t

(* What a failed request does.                                             *)
LEMMA FailIs ==
  ASSUME BaseInv, NEW w \in Workers, Fail(w)
  PROVE  /\ req[w].heard /\ req[w].tab \in Tabs /\ req[w].pc # "idle"
         /\ hidden' = hidden \ {req[w].own} /\ astray' = astray \cup Late(req[w].own)
         /\ faults' = faults + 1
         /\ queue' = [queue EXCEPT ![req[w].tab] = Requeued(w)]
         /\ \/ req' = [req EXCEPT ![w] = Idle]
            \/ req' = [req EXCEPT ![w] = [req[w] EXCEPT !.heard = FALSE]]
         /\ UNCHANGED <<log, gone, meta, doc, cursor, needs, acked>>
<1>1. RequestOK(req[w], Len(log), doc) BY RequestIs
<1>2. req[w].heard BY DEF Fail
<1>3. req[w].pc # "idle" /\ req[w].tab \in Tabs BY <1>1, <1>2 DEF RequestOK
<1>4. queue' = [queue EXCEPT ![req[w].tab] = Requeued(w)]
  <2>1. queue \in [Tabs -> Seq(SUBSET Items)] BY DEF BaseInv, TabTypes
  <2> QED BY <2>1, <1>3 DEF Fail, Requeued
<1> QED BY <1>2, <1>3, <1>4 DEF Fail

(* A request whose tab no longer listens.                                  *)
LEMMA UnheardOK ==
  ASSUME NEW n, NEW d, NEW r, RequestOK(r, n, d)
  PROVE  RequestOK([r EXCEPT !.heard = FALSE], n, d)
<1> DEFINE x == [r EXCEPT !.heard = FALSE]
<1>1. r \in Requests BY DEF RequestOK
<1>2. /\ x \in Requests /\ x.pc = r.pc /\ x.then = r.then /\ x.heard = FALSE
      /\ x.own = r.own /\ x.diffs = r.diffs /\ x.batch = r.batch /\ x.tab = r.tab /\ x.doc = r.doc
      /\ x.stamp = r.stamp /\ x.prev = r.prev /\ x.verdicts = r.verdicts
  BY <1>1 DEF Requests
<1> HIDE DEF x
<1>3. RequestOK(x, n, d) BY <1>2 DEF RequestOK, Unmerged, Appending
<1> QED BY <1>3 DEF x

(* A failure: the request ends or goes on unheard, the queue is filled     *)
(* again.                                                                  *)
LEMMA FailBase ==
  ASSUME BaseInv, NEW w \in Workers, Fail(w)
  PROVE  BaseInv'
<1> DEFINE t == req[w].tab
<1>1. /\ t \in Tabs
      /\ hidden' = hidden \ {req[w].own} /\ astray' \subseteq astray \cup hidden /\ faults' = faults + 1
      /\ queue' = [queue EXCEPT ![t] = Requeued(w)]
      /\ \/ req' = [req EXCEPT ![w] = Idle]
         \/ req' = [req EXCEPT ![w] = [req[w] EXCEPT !.heard = FALSE]]
      /\ UNCHANGED <<log, gone, meta, doc, cursor, needs, acked>>
  BY FailIs DEF Late
<1>2. Requeued(w) \in Seq(SUBSET Items) /\ \A k \in DOMAIN Requeued(w) : Requeued(w)[k] \subseteq doc[t]
  BY <1>1, RequeuedType
<1>3. Len(log) \in Nat BY LogType
<1> DEFINE x == [req[w] EXCEPT !.heard = FALSE]
<1>4. RequestOK(Idle, Len(log), doc') BY IdleOK, <1>3
<1>5. RequestOK(x, Len(log), doc')
  <2>1. RequestOK(req[w], Len(log), doc) BY RequestIs
  <2>2. RequestOK(x, Len(log), doc) BY <2>1, UnheardOK
  <2> QED BY <2>2, <1>1
<1> HIDE DEF x, t
<1>6. TabTypes' BY <1>1, <1>2 DEF BaseInv, TabTypes
<1>7. \A u \in Tabs : TabOK(u)'
  <2> TAKE u \in Tabs
  <2>1. TabOK(u) BY DEF BaseInv
  <2>2. queue'[u] = IF u = t THEN Requeued(w) ELSE queue[u] BY <1>1 DEF BaseInv, TabTypes
  <2> QED BY <1>1, <1>2, <2>1, <2>2 DEF TabOK
<1>8. Grown(doc, doc') /\ hidden' \subseteq hidden /\ astray' \subseteq astray \cup hidden BY <1>1 DEF Grown
<1>9. CASE req' = [req EXCEPT ![w] = Idle] BY <1>9, <1>1, <1>4, <1>6, <1>7, <1>8, TabsBase
<1>10. CASE req' = [req EXCEPT ![w] = x] BY <1>10, <1>1, <1>5, <1>6, <1>7, <1>8, TabsBase
<1> QED BY <1>1, <1>9, <1>10 DEF x

(* The numbers of a tab's items are those of the items it has made.        *)
LEMMA OwnCount ==
  ASSUME BaseInv, NEW t \in Tabs
  PROVE  /\ Cardinality({i \in doc[t] : i[1] = t}) \in 0..MaxEdits
         /\ \A x \in Items : x[1] = t =>
              (x \in doc[t] <=> x[2] <= Cardinality({i \in doc[t] : i[1] = t}))
<1>1. PICK n \in 0..MaxEdits : \A x \in Items : x[1] = t => (x \in doc[t] <=> x[2] <= n)
  BY DEF BaseInv, TabOK, Numbered
<1> DEFINE mine == {i \in doc[t] : i[1] = t}
<1>2. MaxEdits \in Nat /\ n \in Nat /\ n <= MaxEdits BY ServerIs
<1>3. doc[t] \subseteq Items BY DEF BaseInv, TabTypes
<1>4. \A k \in 1..n : <<t, k>> \in mine
  <2> TAKE k \in 1..n
  <2>1. <<t, k>> \in Items /\ (<<t, k>>)[1] = t /\ (<<t, k>>)[2] = k /\ k <= n BY <1>2 DEF Items
  <2> QED BY <2>1, <1>1
<1>5. \A x \in mine : \E k \in 1..n : x = <<t, k>>
  <2> TAKE x \in mine
  <2>1. x \in doc[t] /\ x \in Items /\ x[1] = t BY <1>3
  <2>2. x # Genesis BY <2>1, ServerIs DEF Genesis
  <2>3. x = <<x[1], x[2]>> /\ x[2] \in 1..MaxEdits BY <2>1, <2>2 DEF Items
  <2>4. x[2] <= n BY <2>1, <1>1
  <2>5. x[2] \in 1..n BY <2>3, <2>4, <1>2
  <2> QED BY <2>1, <2>3, <2>5
<1>6. Cardinality(mine) = n
  <2>1. IsFiniteSet(1..n) /\ Cardinality(1..n) = n
    <3>1. ASSUME NEW m \in Nat PROVE IsFiniteSet(1..m) /\ Cardinality(1..m) = m
      BY FS_Interval
    <3> QED BY <1>2, <3>1
  <2> DEFINE f == [k \in 1..n |-> <<t, k>>]
  <2> HIDE DEF mine
  <2>2. f \in Bijection(1..n, mine)
    BY <1>4, <1>5 DEF Bijection, Injection, Surjection, IsInjective
  <2>3. ExistsBijection(1..n, mine) BY <2>2 DEF ExistsBijection
  <2> QED BY <2>1, <2>3, FS_Bijection
<1> QED BY <1>1, <1>6

(* An edit makes an item that did not exist and needs items its tab has.   *)
EditMakes(t, item, new) ==
  /\ item \in Items /\ item[1] = t /\ item # Genesis /\ item \notin doc[t]
  /\ new \subseteq doc[t]
  /\ Genesis \in doc[t]
  /\ needs' = [needs EXCEPT ![item] = new]
  /\ doc' = [doc EXCEPT ![t] = @ \cup {item}]
  /\ queue' = [queue EXCEPT ![t] = Append(@, {item})]
  /\ Numbered(t, doc')
  /\ UNCHANGED <<room, meta, req, cursor, acked, faults>>

(* Edit, its choices named: the number of the new item is the next one of  *)
(* its author.                                                             *)
LEMMA EditIs ==
  ASSUME BaseInv, NEW t \in Tabs, Edit(t)
  PROVE  \E item, new : EditMakes(t, item, new)
<1> DEFINE c == Cardinality({i \in doc[t] : i[1] = t})
           n == c + 1
           item == <<t, n>>
<1>1. c \in 0..MaxEdits /\ \A x \in Items : x[1] = t => (x \in doc[t] <=> x[2] <= c)
  BY OwnCount
<1>2. /\ n <= MaxEdits /\ Genesis \in doc[t]
      /\ \E origin \in Integrated(doc[t]) :
           needs' = [needs EXCEPT ![<<t, n>>] = {origin} \cup {<<t, k>> : k \in 1..(n - 1)}]
      /\ doc' = [doc EXCEPT ![t] = @ \cup {<<t, n>>}]
      /\ queue' = [queue EXCEPT ![t] = Append(@, {<<t, n>>})]
      /\ UNCHANGED <<room, meta, req, cursor, acked, faults>>
  BY DEF Edit
<1> HIDE DEF c
<1>3. c \in Nat /\ n \in 1..MaxEdits /\ n - 1 = c /\ MaxEdits \in Nat BY <1>1, <1>2, ServerIs
<1>4. PICK origin \in Integrated(doc[t]) :
        needs' = [needs EXCEPT ![<<t, n>>] = {origin} \cup {<<t, k>> : k \in 1..(n - 1)}]
  BY <1>2
<1> DEFINE new == {origin} \cup {<<t, k>> : k \in 1..(n - 1)}
<1>5. new \subseteq doc[t]
  <2>1. origin \in doc[t] BY <1>4, IntegratedIsPart
  <2>2. ASSUME NEW k \in 1..(n - 1) PROVE <<t, k>> \in doc[t]
    <3>1. <<t, k>> \in Items /\ (<<t, k>>)[1] = t /\ (<<t, k>>)[2] = k /\ k <= c
      BY <1>3 DEF Items
    <3> QED BY <3>1, <1>1
  <2> QED BY <2>1, <2>2
<1>6. item \in Items /\ item[1] = t /\ item[2] = n /\ item # Genesis /\ item \notin doc[t]
  <2>1. item \in Items /\ item[1] = t /\ item[2] = n BY <1>3 DEF Items
  <2>2. item # Genesis BY ServerIs DEF Genesis
  <2>3. ~(n <= c) BY <1>3
  <2> QED BY <2>1, <2>2, <2>3, <1>1
<1> HIDE DEF new
<1>7. Numbered(t, doc')
  <2>1. doc'[t] = doc[t] \cup {item} BY <1>2 DEF BaseInv, TabTypes
  <2>2. ASSUME NEW x \in Items, x[1] = t PROVE x \in doc'[t] <=> x[2] <= n
    <3>1. x # Genesis BY <2>2, ServerIs DEF Genesis
    <3>2. x = <<t, x[2]>> /\ x[2] \in 1..MaxEdits BY <3>1, <2>2 DEF Items
    <3>3. x \in doc[t] <=> x[2] <= c BY <2>2, <1>1
    <3>4. x[2] <= n <=> x[2] <= c \/ x[2] = n BY <3>2, <1>3
    <3>5. x = item <=> x[2] = n BY <3>2, <1>6
    <3> QED BY <2>1, <3>3, <3>4, <3>5
  <2> QED BY <2>2, <1>3 DEF Numbered
<1>8. EditMakes(t, item, new) BY <1>2, <1>4, <1>5, <1>6, <1>7 DEF EditMakes, new
<1> QED BY <1>8

(* The new item is of its author, known, and numbered.                     *)
LEMMA EditBase ==
  ASSUME BaseInv, NEW t \in Tabs, Edit(t)
  PROVE  BaseInv'
<1>1. PICK item, new : EditMakes(t, item, new) BY EditIs
<1>2. /\ item \in Items /\ item[1] = t /\ item # Genesis /\ item \notin doc[t]
      /\ new \subseteq doc[t]
      /\ needs' = [needs EXCEPT ![item] = new]
      /\ doc' = [doc EXCEPT ![t] = @ \cup {item}]
      /\ queue' = [queue EXCEPT ![t] = Append(@, {item})]
      /\ Numbered(t, doc')
      /\ UNCHANGED <<room, meta, req, cursor, acked, faults>>
  BY <1>1 DEF EditMakes
<1>3. Len(log) \in Nat /\ TabTypes BY LogType DEF BaseInv
<1>4. doc[t] \in SUBSET Items BY <1>3 DEF TabTypes
<1>5. TabTypes'
  <2>1. needs' \in [Items -> SUBSET Items] BY <1>2, <1>3, <1>4 DEF TabTypes
  <2>2. doc' \in [Tabs -> SUBSET Items] BY <1>2, <1>3, <1>4 DEF TabTypes
  <2>3. queue' \in [Tabs -> Seq(SUBSET Items)] BY <1>2, <1>3 DEF TabTypes
  <2> QED BY <2>1, <2>2, <2>3, <1>2, <1>3 DEF TabTypes
<1>6. Grown(doc, doc') BY <1>2, <1>3 DEF Grown, TabTypes
<1>7. KnownIn(doc) \subseteq KnownIn(doc') BY <1>6, KnownStays
<1>8. \A u \in Tabs : TabOK(u)'
  <2> TAKE u \in Tabs
  <2>1. TabOK(u) BY DEF BaseInv
  <2>2. CASE u # t
    <3>1. doc'[u] = doc[u] /\ queue'[u] = queue[u] BY <2>2, <1>2, <1>3 DEF TabTypes
    <3> QED BY <3>1, <2>1, <1>2, <1>7 DEF TabOK, Numbered, room
  <2>3. CASE u = t
    <3>1. doc'[t] = doc[t] \cup {item} /\ queue'[t] = Append(queue[t], {item})
      BY <1>2, <1>3 DEF TabTypes
    <3>2. item \in KnownIn(doc') BY <1>2, <3>1 DEF KnownIn
    <3>3. doc'[t] \subseteq KnownIn(doc') BY <2>1, <2>3, <3>1, <3>2, <1>7 DEF TabOK
    <3>4. \A k \in DOMAIN queue'[t] : queue'[t][k] \subseteq doc'[t]
      <4> DEFINE q == queue[t]
      <4>1. q \in Seq(SUBSET Items) BY <1>3 DEF TabTypes
      <4>2. \A k \in DOMAIN q : q[k] \subseteq doc[t] BY <2>1, <2>3 DEF TabOK
      <4>3. queue'[t] = Append(q, {item}) BY <3>1
      <4> HIDE DEF q
      <4> TAKE k \in DOMAIN queue'[t]
      <4>4. CASE k = Len(q) + 1 BY <4>4, <4>1, <4>3, <3>1
      <4>5. CASE k # Len(q) + 1
        <5>1. k \in DOMAIN q /\ queue'[t][k] = q[k] BY <4>5, <4>1, <4>3
        <5> QED BY <5>1, <4>2, <3>1
      <4> QED BY <4>4, <4>5
    <3>5. cursor'[t] <= Len(log') BY <2>1, <2>3, <1>2 DEF TabOK, room
    <3> QED BY <2>3, <3>3, <3>4, <3>5, <1>2 DEF TabOK
  <2> QED BY <2>2, <2>3
<1>9. RequestsOK(Len(log), doc)'
  <2> DEFINE n == Len(log)
             e == doc'
  <2>1. n \in Nat /\ n <= n /\ Grown(doc, e) /\ \A u \in Workers : RequestOK(req[u], n, doc)
    BY <1>3, <1>6 DEF BaseInv, RequestsOK
  <2> HIDE DEF n, e
  <2>2. \A u \in Workers : RequestOK(req[u], n, e) BY <2>1, RequestStays, Zenon
  <2> QED BY <2>2, <1>2 DEF n, e, RequestsOK, room
<1>10. StoreOK' BY <1>2, <1>7 DEF BaseInv, StoreOK, InOrder, meta, room
<1>11. \A i \in DOMAIN log' : RowOK(log'[i], doc')
  <2> TAKE i \in DOMAIN log'
  <2>1. log' = log BY <1>2 DEF room
  <2>2. RowOK(log[i], doc) BY <2>1, Zenon DEF BaseInv
  <2> DEFINE e == doc'
             row == log[i]
  <2>3. Grown(doc, e) /\ RowOK(row, doc) BY <2>2, <1>6
  <2> HIDE DEF e, row
  <2>4. RowOK(row, e) BY <2>3, RowStays, Zenon
  <2> QED BY <2>4, <2>1 DEF e, row
<1>12. req' \in [Workers -> Requests] BY <1>2 DEF BaseInv
<1> QED BY <1>5, <1>8, <1>9, <1>10, <1>11, <1>12 DEF BaseInv

(* The initial states.                                                     *)
LEMMA InitBase == ASSUME Init PROVE BaseInv
<1>1. StoreOK /\ \A i \in DOMAIN log : RowOK(log[i], doc)
  <2>1. Genesis \in Items /\ {Genesis} \subseteq KnownIn(doc) BY DEF Items, KnownIn
  <2>2. CASE Fresh
    <3>1. log = <<>> /\ canon = [items |-> {}, cursor |-> 0] /\ checkpoint = Len(log) BY <2>2 DEF Init
    <3>2. log \in Seq(Row) /\ Len(log) = 0 /\ DOMAIN log = {} BY <3>1
    <3> QED BY <3>1, <3>2 DEF Init, StoreOK
  <2>3. CASE ~Fresh
    <3> DEFINE row == [type |-> "snapshot", from |-> Server, items |-> {Genesis}]
    <3>1. log = <<row>> /\ canon = [items |-> {Genesis}, cursor |-> 0] /\ checkpoint = Len(log) BY <2>3 DEF Init
    <3>2. row \in Row /\ RowOK(row, doc) BY <2>1 DEF Row, RowOK
    <3> HIDE DEF row
    <3>3. log \in Seq(Row) /\ Len(log) = 1 /\ DOMAIN log = {1} /\ log[1] = row BY <3>1, <3>2
    <3>4. canon \in [items : SUBSET Items, cursor : Nat] /\ canon.cursor = 0 /\ canon.items = {Genesis}
      BY <2>1, <3>1
    <3>5. hidden = {} /\ gone = {} /\ astray = {} /\ floor = 0 BY DEF Init
    <3>6. StoreOK BY <2>1, <3>1, <3>3, <3>4, <3>5 DEF StoreOK
    <3> QED BY <3>6, <3>2, <3>3
  <2> QED BY <2>2, <2>3
<1>2. Len(log) \in Nat BY <1>1 DEF StoreOK
<1>3. TabTypes BY ServerIs DEF Init, TabTypes
<1>4. \A t \in Tabs : TabOK(t)
  <2> TAKE t \in Tabs
  <2>1. doc[t] = {} /\ queue[t] = <<>> /\ cursor[t] = 0 BY DEF Init
  <2>2. Numbered(t, doc)
    <3>1. ASSUME NEW x \in Items, x[1] = t PROVE ~(x[2] <= 0)
      <4>1. x # Genesis BY <3>1, ServerIs DEF Genesis
      <4>2. x[2] \in 1..MaxEdits BY <4>1 DEF Items
      <4> QED BY <4>2, ServerIs
    <3>2. 0 \in 0..MaxEdits BY ServerIs
    <3> QED BY <2>1, <3>1, <3>2 DEF Numbered
  <2> QED BY <2>1, <2>2, <1>2 DEF TabOK
<1>5. \A w \in Workers : RequestOK(req[w], Len(log), doc) /\ req[w] = Idle
  BY <1>2, IdleOK DEF Init
<1>6. req \in [Workers -> Requests]
  <2>1. \A w \in Workers : Idle \in Requests BY <1>5 DEF RequestOK
  <2> HIDE DEF Requests
  <2> QED BY <2>1 DEF Init
<1> QED BY <1>1, <1>3, <1>4, <1>5, <1>6 DEF BaseInv, RequestsOK

(* Stuttering.                                                             *)
LEMMA BaseSame == ASSUME BaseInv, UNCHANGED vars PROVE BaseInv'
<1>1. UNCHANGED <<log, hidden, gone, astray, canon, checkpoint, floor, req, doc, queue, cursor, needs, acked, faults>>
  BY DEF vars, room, meta, tabs
<1>2. StoreOK' /\ TabTypes' BY <1>1 DEF BaseInv, StoreOK, TabTypes, InOrder
<1>3. \A t \in Tabs : TabOK(t)' BY <1>1 DEF BaseInv, TabOK
<1>4. \A i \in DOMAIN log' : RowOK(log'[i], doc') BY <1>1 DEF BaseInv
<1>5. RequestsOK(Len(log), doc)' /\ req' \in [Workers -> Requests] BY <1>1 DEF BaseInv, RequestsOK
<1> QED BY <1>2, <1>3, <1>4, <1>5 DEF BaseInv

(* Every step keeps the base.                                              *)
LEMMA StepBase == ASSUME BaseInv, [Next]_vars PROVE BaseInv'
<1>1. ASSUME NEW t \in Tabs, Edit(t) PROVE BaseInv' BY <1>1, EditBase
<1>2. ASSUME NEW t \in Tabs, NEW w \in Workers, Send(t, w) PROVE BaseInv' BY <1>2, SendBase
<1>3. ASSUME NEW w \in Workers, Handle(w) PROVE BaseInv' BY <1>3, HandleRestBase, AnswerBase
<1>4. ASSUME NEW w \in Workers, Fail(w) PROVE BaseInv' BY <1>4, FailBase
<1>5. CASE UNCHANGED vars BY <1>5, BaseSame
<1> QED BY <1>1, <1>2, <1>3, <1>4, <1>5 DEF Next

(* The base is invariant.                                                  *)
THEOREM Base == Spec => []BaseInv
<1>1. Init => BaseInv BY InitBase
<1>2. BaseInv /\ [Next]_vars => BaseInv' BY StepBase
<1> QED BY <1>1, <1>2, PTL DEF Spec

(* Every variable keeps its shape, whatever the tabs, edits and requests.  *)
THEOREM Typed == Spec => []TypeOK
<1>1. BaseInv => TypeOK BY BaseIsTyped
<1> QED BY <1>1, Base, PTL
(***************************************************************************)
(* What each step makes of its request.                                    *)
(***************************************************************************)

(* What settling a request does.                                           *)
LEMMA SettledIs ==
  ASSUME NEW r \in Requests, NEW m, NEW before, NEW replayed \in BOOLEAN,
         m.doc \in SUBSET Items, m.diffs \in Seq(SUBSET Items), m.taken \in SUBSET (1..Len(m.diffs))
  PROVE  LET x == Settle(r, before, m, replayed) IN
         /\ x.pc = IF m.doc # before THEN "append" ELSE IF replayed THEN "resave" ELSE "read"
         /\ x.doc = m.doc /\ x.diffs = Kept(m.diffs, m.taken)
         /\ DOMAIN x.verdicts = 1..Len(m.diffs)
         /\ \A k \in 1..Len(m.diffs) : x.verdicts[k] # "resync-required" <=> k \in m.taken
         /\ x.tab = r.tab /\ x.heard = r.heard /\ x.batch = r.batch /\ x.stamp = r.stamp
         /\ x.prev = r.prev /\ x.own = r.own /\ x.then = r.then
<1> DEFINE x == Settle(r, before, m, replayed)
           q == Kept(m.diffs, m.taken)
           pc == IF m.doc # before THEN "append" ELSE IF replayed THEN "resave" ELSE "read"
           vs == [k \in DOMAIN m.diffs |-> IF k \notin m.taken THEN "resync-required"
                                           ELSE IF m.doc = before THEN "already-merged" ELSE "applied"]
<1>1. x = [r EXCEPT !.pc = pc, !.doc = m.doc, !.diffs = q, !.verdicts = vs] BY Zenon DEF Settle
<1>2. DOMAIN vs = 1..Len(m.diffs) /\ \A k \in 1..Len(m.diffs) : vs[k] # "resync-required" <=> k \in m.taken
  <2>1. DOMAIN m.diffs = 1..Len(m.diffs) OBVIOUS
  <2> QED BY <2>1
<1> HIDE DEF x, q, pc, vs
<1>3. /\ x.pc = pc /\ x.doc = m.doc /\ x.diffs = q /\ x.verdicts = vs
      /\ x.tab = r.tab /\ x.heard = r.heard /\ x.batch = r.batch /\ x.stamp = r.stamp
      /\ x.prev = r.prev /\ x.own = r.own /\ x.then = r.then
  BY <1>1 DEF Requests
<1> QED BY <1>2, <1>3 DEF x, pc, q

(* What the load of a request does: settle it, or have it replay the log.  *)
LoadedBy(w) == req[w].doc \cup Held(RowsAfter(req[w].stamp))

LoadSettles(w, r, m) ==
  /\ r.pc = IF m.doc # LoadedBy(w) THEN "append" ELSE "read"
  /\ r.doc = m.doc /\ r.diffs = Kept(m.diffs, m.taken)
  /\ m.taken = 1..Len(req[w].batch)
  /\ DOMAIN r.verdicts = 1..Len(req[w].batch)
  /\ \A k \in 1..Len(req[w].batch) : r.verdicts[k] # "resync-required"

LoadReplays(w, r, m) ==
  /\ r.pc = "replay" /\ r.doc = req[w].doc /\ r.verdicts = <<>>
  /\ r.diffs \in Seq(SUBSET Items) /\ Len(r.diffs) <= Len(req[w].batch)
  /\ 1..Len(r.diffs) \subseteq m.taken
  /\ \A k \in 1..Len(r.diffs) : r.diffs[k] = m.diffs[k]

(* LoadRows, its outcome named: the batch is taken, or what comes before   *)
(* the first refusal is kept for the rebuild.                              *)
LEMMA LoadRowsIs ==
  ASSUME BaseInv, NEW w \in Workers, LoadRows(w)
  PROVE  \E r : LET m == Merge(LoadedBy(w), req[w].batch) IN
           /\ req[w].pc = "rows" /\ req' = [req EXCEPT ![w] = r] /\ Unchanging
           /\ r.tab = req[w].tab /\ r.heard = req[w].heard /\ r.batch = req[w].batch
           /\ r.stamp = Watermark /\ r.prev = req[w].prev /\ r.own = req[w].own /\ r.then = req[w].then
           /\ LoadSettles(w, r, m) \/ LoadReplays(w, r, m)
<1> DEFINE loaded  == LoadedBy(w)
           r       == [req[w] EXCEPT !.stamp = Watermark, !.seen = Cardinality(Visible)]
           b       == req[w].batch
           m       == Merge(loaded, b)
           refused == DOMAIN b \ m.taken
           first   == CHOOSE k \in refused : \A j \in refused : k <= j
           q       == SubSeq(m.diffs, 1, first - 1)
           y       == [r EXCEPT !.pc = "replay", !.diffs = q]
           x       == IF refused = {} THEN Settle(r, loaded, m, FALSE) ELSE y
<1>1. req[w] \in Requests /\ RequestOK(req[w], Len(log), doc) BY RequestIs
<1>2. r \in Requests /\ r.batch = b /\ r.stamp = Watermark /\ r.tab = req[w].tab /\ r.heard = req[w].heard
      /\ r.prev = req[w].prev /\ r.own = req[w].own /\ r.then = req[w].then /\ r.doc = req[w].doc
      /\ r.verdicts = req[w].verdicts
  <2>1. Watermark \in Nat /\ Cardinality(Visible) \in Nat BY WatermarkIsLast, VisibleType, LogType
  <2> QED BY <1>1, <2>1 DEF Requests
<1>3. req[w].pc = "rows" /\ req' = [req EXCEPT ![w] = x] /\ Unchanging
  BY <1>2 DEF LoadRows, Unchanging, LoadedBy
<1>4. loaded \in SUBSET Items /\ b \in Seq(SUBSET Items)
  <2>1. Held(RowsAfter(req[w].stamp)) \in SUBSET Items BY HeldType, RowsAfterType
  <2> QED BY <1>1, <2>1 DEF Requests, LoadedBy
<1>5. req[w].verdicts = <<>>
  <2>1. req[w].verdicts \in Seq(Verdicts) /\ DOMAIN req[w].verdicts = {}
    BY <1>1, <1>3 DEF RequestOK, Requests, Unmerged
  <2> DEFINE vs == req[w].verdicts
  <2> HIDE DEF vs
  <2>2. vs \in Seq(Verdicts) /\ DOMAIN vs = {} BY <2>1 DEF vs
  <2>3. vs = <<>> BY <2>2
  <2> QED BY <2>3 DEF vs
<1> HIDE DEF loaded, r, b, m
<1>6. Merged(m, loaded, Len(b)) BY <1>4, MergeLosesNothing, Zenon DEF m
<1>7. m.doc \in SUBSET Items /\ m.diffs \in Seq(SUBSET Items) /\ Len(m.diffs) = Len(b)
      /\ m.taken \in SUBSET (1..Len(m.diffs)) /\ DOMAIN b = 1..Len(b) /\ Len(b) \in Nat
  BY <1>4, <1>6 DEF Merged
<1>8. ASSUME refused = {}
      PROVE  /\ x.pc = IF m.doc # loaded THEN "append" ELSE "read"
             /\ x.doc = m.doc /\ x.diffs = Kept(m.diffs, m.taken)
             /\ m.taken = 1..Len(b)
             /\ DOMAIN x.verdicts = 1..Len(b)
             /\ \A k \in 1..Len(b) : x.verdicts[k] # "resync-required"
             /\ x.tab = r.tab /\ x.heard = r.heard /\ x.batch = r.batch /\ x.stamp = r.stamp
             /\ x.prev = r.prev /\ x.own = r.own /\ x.then = r.then
  <2>1. m.taken = 1..Len(b) BY <1>7, <1>8
  <2> DEFINE z == Settle(r, loaded, m, FALSE)
  <2>2. x = z BY <1>8
  <2>3. /\ z.pc = IF m.doc # loaded THEN "append" ELSE "read"
        /\ z.doc = m.doc /\ z.diffs = Kept(m.diffs, m.taken)
        /\ DOMAIN z.verdicts = 1..Len(m.diffs)
        /\ \A k \in 1..Len(m.diffs) : z.verdicts[k] # "resync-required" <=> k \in m.taken
        /\ z.tab = r.tab /\ z.heard = r.heard /\ z.batch = r.batch /\ z.stamp = r.stamp
        /\ z.prev = r.prev /\ z.own = r.own /\ z.then = r.then
    <3> DEFINE f == FALSE
    <3>1. f \in BOOLEAN OBVIOUS
    <3> HIDE DEF f
    <3> DEFINE v == Settle(r, loaded, m, f)
    <3>2. /\ v.pc = IF m.doc # loaded THEN "append" ELSE IF f THEN "resave" ELSE "read"
          /\ v.doc = m.doc /\ v.diffs = Kept(m.diffs, m.taken)
          /\ DOMAIN v.verdicts = 1..Len(m.diffs)
          /\ \A k \in 1..Len(m.diffs) : v.verdicts[k] # "resync-required" <=> k \in m.taken
          /\ v.tab = r.tab /\ v.heard = r.heard /\ v.batch = r.batch /\ v.stamp = r.stamp
          /\ v.prev = r.prev /\ v.own = r.own /\ v.then = r.then
      BY <1>2, <1>7, <3>1, SettledIs
    <3> HIDE DEF v
    <3>3. z = v BY DEF v, f
    <3>4. z.pc = IF m.doc # loaded THEN "append" ELSE "read" BY <3>2, <3>3 DEF f
    <3> HIDE DEF z
    <3> QED BY <3>2, <3>3, <3>4
  <2> HIDE DEF z, x
  <2> QED BY <2>1, <2>2, <2>3, <1>7
<1>9. ASSUME refused # {}
      PROVE  /\ x.pc = "replay" /\ x.doc = r.doc /\ x.verdicts = r.verdicts
             /\ x.diffs \in Seq(SUBSET Items) /\ Len(x.diffs) <= Len(b)
             /\ 1..Len(x.diffs) \subseteq m.taken
             /\ \A k \in 1..Len(x.diffs) : x.diffs[k] = m.diffs[k]
             /\ x.tab = r.tab /\ x.heard = r.heard /\ x.batch = r.batch /\ x.stamp = r.stamp
             /\ x.prev = r.prev /\ x.own = r.own /\ x.then = r.then
  <2>1. first \in refused /\ \A j \in refused : first <= j
    <3>1. refused \in SUBSET Nat BY <1>7
    <3> QED BY <3>1, <1>9, FirstOf, Zenon
  <2>2. first \in 1..Len(b) BY <2>1, <1>7
  <2> HIDE DEF first
  <2>3. /\ q \in Seq(SUBSET Items) /\ Len(q) = first - 1
        /\ \A k \in 1..Len(q) : k \in 1..Len(b) /\ q[k] = m.diffs[k]
    BY <2>2, <1>7
  <2> HIDE DEF q
  <2>4. 1..Len(q) \subseteq m.taken
    <3> SUFFICES ASSUME NEW k \in 1..Len(q) PROVE k \in m.taken OBVIOUS
    <3>1. k \in 1..Len(b) /\ ~(first <= k) BY <2>2, <2>3, <1>7
    <3> QED BY <3>1, <2>1, <1>7
  <2>5. Len(q) <= Len(b) BY <2>2, <2>3, <1>7
  <2>6. x = y BY <1>9
  <2>7. /\ y.pc = "replay" /\ y.doc = r.doc /\ y.verdicts = r.verdicts /\ y.diffs = q
        /\ y.tab = r.tab /\ y.heard = r.heard /\ y.batch = r.batch /\ y.stamp = r.stamp
        /\ y.prev = r.prev /\ y.own = r.own /\ y.then = r.then
    BY <1>2 DEF Requests
  <2> HIDE DEF x, y
  <2> QED BY <2>3, <2>4, <2>5, <2>6, <2>7
<1> HIDE DEF x
<1>10. LoadSettles(w, x, m) \/ LoadReplays(w, x, m)
  BY <1>8, <1>9, <1>2, <1>5 DEF LoadSettles, LoadReplays, loaded, b
<1>11. x.tab = r.tab /\ x.heard = r.heard /\ x.batch = r.batch /\ x.stamp = r.stamp
       /\ x.prev = r.prev /\ x.own = r.own /\ x.then = r.then
  BY <1>8, <1>9
<1>12. m = Merge(LoadedBy(w), req[w].batch) BY DEF m, loaded, b
<1> QED BY <1>3, <1>10, <1>11, <1>12, <1>2 DEF b

SameTab(q, r) == r.tab = q.tab /\ r.heard = q.heard /\ r.batch = q.batch

Moved(q, r) ==
  /\ SameTab(q, r)
  /\ r.doc = q.doc /\ r.stamp = q.stamp /\ r.prev = q.prev /\ r.own = q.own
  /\ r.diffs = q.diffs /\ r.verdicts = q.verdicts /\ r.then = q.then

(* A request goes on with all it has.                                      *)
LEMMA MovesOn ==
  ASSUME BaseInv, NEW w \in Workers, NEW pc, req' = [req EXCEPT ![w].pc = pc]
  PROVE  \E r : req' = [req EXCEPT ![w] = r] /\ r.pc = pc /\ Moved(req[w], r)
<1> DEFINE r == [req[w] EXCEPT !.pc = pc]
<1>1. req[w] \in Requests BY RequestIs
<1>2. req' = [req EXCEPT ![w] = r] OBVIOUS
<1>3. r.pc = pc /\ Moved(req[w], r) BY <1>1 DEF Requests, Moved, SameTab
<1> QED BY <1>2, <1>3

(* A request loads the canonical document.                                 *)
LEMMA LoadMetaIs ==
  ASSUME BaseInv, NEW w \in Workers, LoadMeta(w)
  PROVE  \E r : /\ req[w].pc = "meta" /\ req' = [req EXCEPT ![w] = r] /\ Unchanging
                /\ r.pc = "rows" /\ r.doc = canon.items /\ r.stamp = canon.cursor
                /\ SameTab(req[w], r) /\ r.diffs = req[w].diffs /\ r.verdicts = req[w].verdicts
<1> DEFINE r == [req[w] EXCEPT !.pc = "rows", !.doc = canon.items, !.stamp = canon.cursor]
<1>1. req[w] \in Requests BY RequestIs
<1>2. req[w].pc = "meta" /\ req' = [req EXCEPT ![w] = r] /\ Unchanging BY DEF LoadMeta, Unchanging
<1>3. /\ r.pc = "rows" /\ r.doc = canon.items /\ r.stamp = canon.cursor
      /\ SameTab(req[w], r) /\ r.diffs = req[w].diffs /\ r.verdicts = req[w].verdicts
  BY <1>1 DEF Requests, SameTab
<1> QED BY <1>2, <1>3

(* A request replays the log.                                              *)
ReplayedBy(w) == MergeRest(Held(RowsAfter(0)), req[w])

(* Replay, its outcome named.                                              *)
LEMMA ReplayIs ==
  ASSUME BaseInv, NEW w \in Workers, Replay(w)
  PROVE  \E r : LET m == ReplayedBy(w) IN
           /\ req[w].pc = "replay" /\ req' = [req EXCEPT ![w] = r] /\ Unchanging
           /\ SameTab(req[w], r) /\ r.stamp = Watermark
           /\ r.pc = IF m.doc # Held(RowsAfter(0)) THEN "append" ELSE "resave"
           /\ r.doc = m.doc /\ r.diffs = Kept(m.diffs, m.taken)
           /\ Merged(m, Held(RowsAfter(0)), Len(req[w].batch))
           /\ DOMAIN r.verdicts = 1..Len(req[w].batch)
           /\ \A k \in 1..Len(req[w].batch) : r.verdicts[k] # "resync-required" <=> k \in m.taken
<1> DEFINE replayed == Held(RowsAfter(0))
           r == [req[w] EXCEPT !.stamp = Watermark, !.seen = Cardinality(Visible)]
           m == ReplayedBy(w)
           x == Settle(r, replayed, m, TRUE)
           b == req[w].batch
<1>1. req[w] \in Requests /\ RequestOK(req[w], Len(log), doc) BY RequestIs
<1>2. replayed \in SUBSET Items /\ replayed \subseteq KnownIn(doc) BY HeldType, RowsAfterType
<1>3. /\ r \in Requests /\ SameTab(req[w], r) /\ r.diffs = req[w].diffs /\ r.stamp = Watermark
  <2>1. Watermark \in Nat /\ Cardinality(Visible) \in Nat BY WatermarkIsLast, VisibleType, LogType
  <2> QED BY <1>1, <2>1 DEF Requests, SameTab
<1>4. req[w].pc = "replay" /\ req' = [req EXCEPT ![w] = Settle(r, replayed, MergeRest(replayed, r), TRUE)]
      /\ Unchanging
  BY DEF Replay, Unchanging
<1> HIDE DEF r, replayed
<1>5. MergeRest(replayed, r) = m
  <2>1. r.batch = req[w].batch /\ r.diffs = req[w].diffs BY <1>3 DEF SameTab
  <2> QED BY <2>1, Zenon DEF ReplayedBy, MergeRest, replayed
<1>6. req' = [req EXCEPT ![w] = x] BY <1>4, <1>5
<1>7. Merged(m, replayed, Len(b))
  <2>1. req[w].tab \in Tabs BY <1>1, <1>4 DEF RequestOK
  <2> DEFINE q == req[w]
  <2>2. q.tab \in Tabs /\ RequestOK(q, Len(log), doc) /\ q.pc = "replay" BY <1>1, <1>4, <2>1
  <2>3. m = MergeRest(replayed, q) BY DEF ReplayedBy, replayed
  <2> HIDE DEF q, m
  <2>4. Merged(MergeRest(replayed, q), replayed, Len(q.batch)) BY <1>2, <2>2, MergeRestIsMerge, Zenon
  <2> QED BY <2>3, <2>4 DEF q
<1> HIDE DEF m, b
<1>8. m.doc \in SUBSET Items /\ m.diffs \in Seq(SUBSET Items) /\ Len(m.diffs) = Len(b)
      /\ m.taken \in SUBSET (1..Len(m.diffs))
  BY <1>7 DEF Merged
<1>9. /\ x.pc = IF m.doc # replayed THEN "append" ELSE "resave"
      /\ x.doc = m.doc /\ x.diffs = Kept(m.diffs, m.taken)
      /\ DOMAIN x.verdicts = 1..Len(m.diffs)
      /\ \A k \in 1..Len(m.diffs) : x.verdicts[k] # "resync-required" <=> k \in m.taken
      /\ x.tab = r.tab /\ x.heard = r.heard /\ x.batch = r.batch /\ x.stamp = r.stamp
  <2> DEFINE f == TRUE
  <2>1. f \in BOOLEAN OBVIOUS
  <2> HIDE DEF f
  <2> DEFINE v == Settle(r, replayed, m, f)
  <2>2. /\ v.pc = IF m.doc # replayed THEN "append" ELSE IF f THEN "resave" ELSE "read"
        /\ v.doc = m.doc /\ v.diffs = Kept(m.diffs, m.taken)
        /\ DOMAIN v.verdicts = 1..Len(m.diffs)
        /\ \A k \in 1..Len(m.diffs) : v.verdicts[k] # "resync-required" <=> k \in m.taken
        /\ v.tab = r.tab /\ v.heard = r.heard /\ v.batch = r.batch /\ v.stamp = r.stamp
    BY <1>3, <1>8, <2>1, SettledIs
  <2> HIDE DEF v
  <2>3. x = v BY DEF v, f
  <2>4. x.pc = IF m.doc # replayed THEN "append" ELSE "resave" BY <2>2, <2>3 DEF f
  <2> HIDE DEF x
  <2> QED BY <2>2, <2>3, <2>4
<1> HIDE DEF x
<1>10. SameTab(req[w], x) /\ x.stamp = Watermark BY <1>3, <1>9 DEF SameTab
<1> QED BY <1>4, <1>6, <1>7, <1>8, <1>9, <1>10 DEF m, replayed, b

(* A request stores a row.                                                 *)
Stores(w, r, row) ==
  /\ row \in Row /\ log' = Append(log, row)
  /\ hidden' = IF LateRows THEN hidden \cup {Len(log) + 1} ELSE hidden
  /\ UNCHANGED <<gone, astray, meta, tabs, faults>>
  /\ req' = [req EXCEPT ![w] = r]
  /\ SameTab(req[w], r) /\ r.own = Len(log) + 1
  /\ r.doc = req[w].doc /\ r.stamp = req[w].stamp /\ r.prev = req[w].prev
  /\ r.verdicts = req[w].verdicts

NextPc(r, then) ==
  /\ r.pc = IF LateRows THEN "commit" ELSE then
  /\ r.then = IF LateRows THEN then ELSE "idle"

(* StoreRow, its outcome named.                                            *)
LEMMA StoreRowIs ==
  ASSUME BaseInv, NEW w \in Workers, StoreRow(w)
  PROVE  \E r, row :
           /\ req[w].pc = "append" /\ req[w].diffs \in Seq(SUBSET Items) /\ req[w].diffs # <<>>
           /\ Stores(w, r, row)
           /\ row.items = Head(req[w].diffs) /\ r.diffs = Tail(req[w].diffs)
           /\ NextPc(r, IF Len(req[w].diffs) = 1 THEN "save" ELSE "append")
<1> DEFINE q == req[w]
           then == IF Len(q.diffs) = 1 THEN "save" ELSE "append"
           y == [q EXCEPT !.diffs = Tail(@)]
           r == Inserting(y, then)
           row == [type |-> "update", from |-> q.tab, items |-> Head(q.diffs)]
<1>1. q \in Requests /\ RequestOK(q, Len(log), doc) BY RequestIs
<1>2. q.pc = "append" /\ AddRow(w, "update", q.tab, Head(q.diffs), then, y) BY DEF StoreRow
<1>3. q.diffs \in Seq(SUBSET Items) /\ q.diffs # <<>> /\ q.tab \in Tabs
  BY <1>1, <1>2 DEF RequestOK, Requests, Appending
<1> HIDE DEF q
<1>4. Head(q.diffs) \in SUBSET Items /\ Tail(q.diffs) \in Seq(SUBSET Items) BY <1>3, TailOf
<1>5. row \in Row /\ row.items = Head(q.diffs) BY <1>3, <1>4 DEF Row
<1>6. y \in Requests /\ SameTab(q, y) /\ y.diffs = Tail(q.diffs) /\ y.doc = q.doc /\ y.stamp = q.stamp
      /\ y.prev = q.prev /\ y.verdicts = q.verdicts
  <2> DEFINE t == Tail(q.diffs)
             z == [q EXCEPT !.diffs = t]
  <2>1. y = z /\ t \in Seq(SUBSET Items) BY <1>4
  <2> HIDE DEF t
  <2>2. z \in Requests /\ SameTab(q, z) /\ z.diffs = t /\ z.doc = q.doc /\ z.stamp = q.stamp
        /\ z.prev = q.prev /\ z.verdicts = q.verdicts
    BY <1>1, <2>1 DEF Requests, SameTab
  <2> HIDE DEF y, z
  <2> QED BY <2>1, <2>2 DEF t
<1>7. then \in {"append", "save", "stamp", "born"} OBVIOUS
<1>8. /\ log' = Append(log, row) /\ req' = [req EXCEPT ![w] = r]
      /\ hidden' = IF LateRows THEN hidden \cup {Len(log) + 1} ELSE hidden
      /\ UNCHANGED <<gone, astray, meta, tabs, faults>>
  BY <1>2 DEF AddRow, Inserting
<1> HIDE DEF y, then, row
<1>9. /\ r.pc = (IF LateRows THEN "commit" ELSE then) /\ r.then = (IF LateRows THEN then ELSE "idle")
      /\ r.own = Len(log) + 1 /\ r.diffs = y.diffs /\ r.batch = y.batch /\ r.tab = y.tab
      /\ r.doc = y.doc /\ r.stamp = y.stamp /\ r.prev = y.prev /\ r.verdicts = y.verdicts
      /\ r.heard = y.heard
  BY <1>6, <1>7, InsertingIs
<1> HIDE DEF r
<1>10. Stores(w, r, row) BY <1>5, <1>6, <1>8, <1>9 DEF Stores, SameTab, q
<1>11. NextPc(r, then) /\ r.diffs = Tail(q.diffs) BY <1>6, <1>9 DEF NextPc
<1>12. /\ q.pc = "append" /\ q.diffs \in Seq(SUBSET Items) /\ q.diffs # <<>>
       /\ Stores(w, r, row)
       /\ row.items = Head(q.diffs) /\ r.diffs = Tail(q.diffs)
       /\ NextPc(r, then)
  BY <1>2, <1>3, <1>5, <1>10, <1>11
<1> QED BY <1>12, Zenon DEF q, then

(* A request stores a snapshot.                                            *)
LEMMA SnapshotIs ==
  ASSUME BaseInv, NEW w \in Workers, NEW from \in Tabs \cup {Server}, NEW items \in SUBSET Items,
         NEW then \in {"stamp", "born"}, AddRow(w, "snapshot", from, items, then, req[w])
  PROVE  \E r, row : /\ Stores(w, r, row) /\ row.items = items /\ r.diffs = req[w].diffs
                     /\ NextPc(r, then)
<1> DEFINE q == req[w]
           r == Inserting(q, then)
           row == [type |-> "snapshot", from |-> from, items |-> items]
<1>1. q \in Requests BY RequestIs
<1>2. row \in Row /\ row.items = items BY DEF Row
<1>3. then \in {"append", "save", "stamp", "born"} OBVIOUS
<1>4. /\ log' = Append(log, row) /\ req' = [req EXCEPT ![w] = r]
      /\ hidden' = IF LateRows THEN hidden \cup {Len(log) + 1} ELSE hidden
      /\ UNCHANGED <<gone, astray, meta, tabs, faults>>
  BY DEF AddRow, Inserting
<1> HIDE DEF row, q
<1>5. /\ r.pc = (IF LateRows THEN "commit" ELSE then) /\ r.then = (IF LateRows THEN then ELSE "idle")
      /\ r.own = Len(log) + 1 /\ r.diffs = q.diffs /\ r.batch = q.batch /\ r.tab = q.tab
      /\ r.doc = q.doc /\ r.stamp = q.stamp /\ r.prev = q.prev /\ r.verdicts = q.verdicts
      /\ r.heard = q.heard
  BY <1>1, <1>3, InsertingIs
<1> HIDE DEF r
<1>6. Stores(w, r, row) BY <1>2, <1>4, <1>5 DEF Stores, SameTab, q
<1> QED BY <1>2, <1>5, <1>6 DEF NextPc, q

(* StoreSnapshot, its outcome named.                                       *)
LEMMA StoreSnapshotIs ==
  ASSUME BaseInv, NEW w \in Workers, StoreSnapshot(w)
  PROVE  \E r, row : /\ req[w].pc = "snapshot" /\ Stores(w, r, row) /\ row.items = req[w].doc
                     /\ r.diffs = req[w].diffs /\ NextPc(r, "stamp")
<1>1. req[w] \in Requests /\ RequestOK(req[w], Len(log), doc) BY RequestIs
<1>2. req[w].pc = "snapshot" /\ AddRow(w, "snapshot", req[w].tab, req[w].doc, "stamp", req[w])
  BY DEF StoreSnapshot
<1>3. req[w].tab \in Tabs /\ req[w].doc \in SUBSET Items BY <1>1, <1>2 DEF RequestOK, Requests
<1> QED BY <1>2, <1>3, SnapshotIs

(* StoreGenesis, its outcome named.                                        *)
LEMMA StoreGenesisIs ==
  ASSUME BaseInv, NEW w \in Workers, StoreGenesis(w)
  PROVE  \E r, row : /\ req[w].pc = "birth" /\ Stores(w, r, row) /\ row.items = {Genesis}
                     /\ r.diffs = req[w].diffs /\ NextPc(r, "born")
<1>1. req[w].pc = "birth" /\ AddRow(w, "snapshot", Server, {Genesis}, "born", req[w])
  BY DEF StoreGenesis
<1>2. {Genesis} \in SUBSET Items BY DEF Items
<1> QED BY <1>1, <1>2, SnapshotIs

(* The row of a request becomes visible.                                   *)
LEMMA CommitIs ==
  ASSUME BaseInv, NEW w \in Workers, Commit(w)
  PROVE  \E r : /\ req[w].pc = "commit" /\ req' = [req EXCEPT ![w] = r] /\ r.pc = req[w].then
                /\ hidden' = hidden \ {req[w].own} /\ astray' = astray \cup Late(req[w].own)
                /\ UNCHANGED <<log, gone, meta, tabs, faults>>
                /\ SameTab(req[w], r) /\ r.doc = req[w].doc /\ r.stamp = req[w].stamp
                /\ r.own = req[w].own /\ r.prev = req[w].prev
                /\ r.diffs = req[w].diffs /\ r.verdicts = req[w].verdicts /\ r.then = "idle"
<1> DEFINE q == req[w]
           x == [q EXCEPT !.pc = q.then, !.then = "idle"]
<1>1. q \in Requests BY RequestIs
<1>2. /\ q.pc = "commit" /\ hidden' = hidden \ {q.own} /\ astray' = astray \cup Late(q.own)
      /\ UNCHANGED <<log, gone, meta, tabs, faults>>
      /\ req' = [req EXCEPT ![w].pc = q.then, ![w].then = "idle"]
  BY DEF Commit
<1>3. req' = [req EXCEPT ![w] = x] BY <1>2, <1>1 DEF BaseInv, Requests
<1> HIDE DEF q
<1>4. /\ x.pc = q.then /\ SameTab(q, x) /\ x.doc = q.doc /\ x.stamp = q.stamp
      /\ x.own = q.own /\ x.prev = q.prev
      /\ x.diffs = q.diffs /\ x.verdicts = q.verdicts /\ x.then = "idle"
  BY <1>1 DEF Requests, SameTab
<1> HIDE DEF x
<1> QED BY <1>2, <1>3, <1>4 DEF q

(* A checkpoint is due: the request folds the rows since the last one.     *)
LEMMA CheckpointDueIs ==
  ASSUME BaseInv, NEW w \in Workers, CheckpointDue(w)
  PROVE  \E r : /\ req[w].pc = "due" /\ req' = [req EXCEPT ![w] = r] /\ Unchanging
                /\ SameTab(req[w], r) /\ r.verdicts = req[w].verdicts /\ r.diffs = req[w].diffs
                /\ r.stamp = req[w].stamp
                /\ \/ /\ r.pc = "snapshot" /\ r.doc = req[w].doc \cup Held(RowsAfter(checkpoint))
                      /\ r.prev = checkpoint
                   \/ r.pc = "read" /\ r.doc = req[w].doc
<1> DEFINE q == req[w]
           D == q.doc \cup Held(RowsAfter(checkpoint))
           x == [q EXCEPT !.pc = "snapshot", !.doc = D, !.prev = checkpoint]
           y == [q EXCEPT !.pc = "read"]
<1>1. q \in Requests BY RequestIs
<1>2. q.pc = "due" /\ Unchanging /\ (req' = [req EXCEPT ![w] = x] \/ req' = [req EXCEPT ![w] = y])
  <2> DEFINE due == req[w].seen >= Interval /\ Cardinality(RowsAfter(checkpoint)) >= Interval
  <2>1. q.pc = "due" /\ Unchanging /\ req' = [req EXCEPT ![w] = IF due THEN x ELSE y]
    BY DEF CheckpointDue, Unchanging
  <2> HIDE DEF due, x, y
  <2> QED BY <2>1
<1> HIDE DEF q, D
<1>3. x.pc = "snapshot" /\ x.doc = D /\ x.prev = checkpoint /\ SameTab(q, x)
      /\ x.verdicts = q.verdicts /\ x.diffs = q.diffs /\ x.stamp = q.stamp
  BY <1>1 DEF Requests, SameTab
<1>4. y.pc = "read" /\ y.doc = q.doc /\ SameTab(q, y) /\ y.verdicts = q.verdicts /\ y.diffs = q.diffs
      /\ y.stamp = q.stamp
  BY <1>1 DEF Requests, SameTab
<1> HIDE DEF x, y
<1> QED BY <1>2, <1>3, <1>4 DEF q, D

(* A tab sends its queue.                                                  *)
SendMakes(t, w, r) ==
  /\ req[w].pc = "idle" /\ ~Waiting(t) /\ req' = [req EXCEPT ![w] = r]
  /\ queue' = [queue EXCEPT ![t] = <<>>]
  /\ UNCHANGED <<room, meta, doc, cursor, needs, acked, faults>>
  /\ r.pc = (IF queue[t] = <<>> THEN "read" ELSE "meta")
  /\ r.tab = t /\ r.heard = TRUE /\ r.batch = queue[t] /\ r.doc = {}
  /\ r.diffs = <<>> /\ r.verdicts = <<>> /\ r.stamp = 0

(* Send, its outcome named.                                                *)
LEMMA SendIs ==
  ASSUME BaseInv, NEW t \in Tabs, NEW w \in Workers, Send(t, w)
  PROVE  \E r : SendMakes(t, w, r)
<1> DEFINE pc == IF queue[t] = <<>> THEN "read" ELSE "meta"
           b == queue[t]
           x == [Idle EXCEPT !.pc = pc, !.tab = t, !.heard = TRUE, !.batch = b]
<1>1. req[w].pc = "idle" /\ ~Waiting(t) /\ req' = [req EXCEPT ![w] = x] /\ queue' = [queue EXCEPT ![t] = <<>>]
      /\ UNCHANGED <<room, meta, doc, cursor, needs, acked, faults>>
  BY DEF Send
<1> HIDE DEF pc, b
<1>2. x.pc = pc /\ x.tab = t /\ x.heard = TRUE /\ x.batch = b /\ x.doc = {} /\ x.diffs = <<>> /\ x.verdicts = <<>>
      /\ x.stamp = 0
  BY DEF Idle
<1> HIDE DEF x
<1> QED BY <1>1, <1>2 DEF pc, b, SendMakes

(* A request nobody waits for any more.                                    *)
LEMMA UnheardIs ==
  ASSUME NEW q \in Requests
  PROVE  LET r == [q EXCEPT !.heard = FALSE] IN
         /\ r.pc = q.pc /\ r.tab = q.tab /\ r.heard = FALSE /\ r.batch = q.batch /\ r.doc = q.doc
         /\ r.stamp = q.stamp /\ r.prev = q.prev /\ r.own = q.own /\ r.diffs = q.diffs
         /\ r.verdicts = q.verdicts /\ r.then = q.then
  BY DEF Requests

(***************************************************************************)
(* What stamps, cursors and trims rely on.                                 *)
(***************************************************************************)

(* What the rows hold that a race may have taken, and what each committed  *)
(* row claims besides.                                                     *)
Lost   == Held(astray)
Claims == [i \in DOMAIN log \ hidden |-> log[i].items \ Lost]

(* n is no row, or a committed one.                                        *)
Mark(c, n) == n = 0 \/ n \in DOMAIN c

(* The document d has what the rows up to n claim, or what all claim.      *)
Knows(c, n, d) == \A i \in DOMAIN c : i <= n => c[i] \subseteq d
KnowsAll(c, d) == \A i \in DOMAIN c : c[i] \subseteq d

(* From claims c to claims e no row claims more, and one that comes behind *)
(* a committed one claims nothing.                                         *)
Widens(c, e) ==
  /\ DOMAIN c \subseteq DOMAIN e /\ DOMAIN e \subseteq Nat \ {0}
  /\ \A i \in DOMAIN c : e[i] \subseteq c[i]
  /\ \A i \in DOMAIN e \ DOMAIN c : e[i] = {} \/ \A j \in DOMAIN c : j < i

(* A request with a document stamped with the last row it knows; one that  *)
(* has stored its snapshot, of that document; one that has stored a row.   *)
Working(r)  == \/ r.pc \in {"rows", "append", "save", "resave", "due", "snapshot"}
               \/ r.pc = "commit" /\ r.then \in {"append", "save"}
Trimming(r) == r.pc \in {"stamp", "trim"} \/ (r.pc = "commit" /\ r.then = "stamp")
Placed(r)   == r.pc \in {"stamp", "trim", "born", "pace"}

Stands(r, c, l) ==
  /\ Mark(c, r.stamp)
  /\ Working(r) => Knows(c, r.stamp, r.doc)
  /\ Trimming(r) => r.prev < r.own /\ Knows(c, r.stamp, l[r.own].items)
  /\ r.pc = "snapshot" \/ Trimming(r) => Mark(c, r.prev)
  /\ Placed(r) => r.own \in DOMAIN c

(* The visible rows hold all claims, and all other rows before a trimmed   *)
(* one or before the floor are astray.                                     *)
TrimInv ==
  /\ KnowsAll(Claims, Held(Visible))
  /\ \A i \in Visible : \A g \in gone : i < g => i \in astray
  /\ \A i \in Visible : i < floor => i \in astray
  /\ gone \cap hidden = {}
  /\ InOrder => astray \subseteq gone

(* No stamp and no cursor is ahead of its document.                        *)
LoadInv ==
  /\ Mark(Claims, canon.cursor) /\ Knows(Claims, canon.cursor, canon.items)
  /\ Mark(Claims, checkpoint) /\ Mark(Claims, floor)
  /\ \A w \in Workers : Stands(req[w], Claims, log)
  /\ \A t \in Tabs : Mark(Claims, cursor[t]) /\ Knows(Claims, cursor[t], doc[t])

HistoryInv == TrimInv /\ LoadInv

LogInv == BaseInv /\ TrimInv /\ LoadInv

(* What was known stays known.                                             *)
LEMMA KnowsStays ==
  ASSUME NEW c, NEW e, NEW n, NEW d, NEW f, Widens(c, e), Mark(c, n), Knows(c, n, d), d \subseteq f
  PROVE  Knows(e, n, f)
<1> SUFFICES ASSUME NEW i \in DOMAIN e, i <= n PROVE e[i] \subseteq f
  BY DEF Knows
<1>1. CASE i \in DOMAIN c BY <1>1 DEF Widens, Knows
<1>2. CASE i \notin DOMAIN c
  <2>1. i \in Nat /\ i # 0 /\ (n = 0 \/ n \in DOMAIN c) /\ (n \in DOMAIN c => n \in Nat) BY DEF Widens, Mark
  <2>2. e[i] = {} \/ \A j \in DOMAIN c : j < i BY <1>2 DEF Widens
  <2>3. CASE e[i] = {} BY <2>3
  <2>4. CASE \A j \in DOMAIN c : j < i BY <2>1, <2>4
  <2> QED BY <2>2, <2>3, <2>4
<1> QED BY <1>1, <1>2

(* A row stays committed.                                                  *)
LEMMA MarkStays == ASSUME NEW c, NEW e, NEW n, Widens(c, e), Mark(c, n) PROVE Mark(e, n)
  BY DEF Widens, Mark

(* A request stands while the claims widen.                                *)
LEMMA StandsStays ==
  ASSUME NEW c, NEW e, NEW l, NEW k, NEW r, Stands(r, c, l), Widens(c, e),
         Trimming(r) => k[r.own] = l[r.own]
  PROVE  Stands(r, e, k)
<1>1. Mark(e, r.stamp) BY MarkStays DEF Stands
<1>2. Working(r) => Knows(e, r.stamp, r.doc) BY KnowsStays DEF Stands
<1>3. Trimming(r) => r.prev < r.own /\ Knows(e, r.stamp, k[r.own].items) BY KnowsStays DEF Stands
<1>4. r.pc = "snapshot" \/ Trimming(r) => Mark(e, r.prev) BY MarkStays DEF Stands
<1>5. Placed(r) => r.own \in DOMAIN e BY DEF Stands, Widens
<1> QED BY <1>1, <1>2, <1>3, <1>4, <1>5 DEF Stands

(* What is claimed of the log.                                             *)
LEMMA ClaimsAre ==
  ASSUME BaseInv
  PROVE  /\ DOMAIN Claims = DOMAIN log \ hidden /\ DOMAIN Claims \subseteq 1..Len(log)
         /\ DOMAIN Claims \subseteq Nat \ {0} /\ Visible \subseteq DOMAIN Claims
         /\ \A i \in DOMAIN Claims : Claims[i] = log[i].items \ Lost
<1>1. DOMAIN log = 1..Len(log) /\ Len(log) \in Nat BY LogType
<1> QED BY <1>1 DEF Claims, Visible

(* The rows a load reads past the stamp of a document are all it lacks.    *)
LEMMA LoadsAll ==
  ASSUME BaseInv, TrimInv, NEW n \in Nat, NEW d, Knows(Claims, n, d)
  PROVE  KnowsAll(Claims, d \cup Held(RowsAfter(n)))
<1> SUFFICES ASSUME NEW i \in DOMAIN Claims, NEW x \in Claims[i] PROVE x \in d \cup Held(RowsAfter(n))
  BY DEF KnowsAll
<1>1. x \in Held(Visible) BY DEF TrimInv, KnowsAll
<1>2. PICK v \in Visible : x \in log[v].items BY <1>1 DEF Held
<1>3. x \in Claims[v] /\ v \in DOMAIN Claims /\ v \in Nat BY <1>2, ClaimsAre
<1>4. CASE v <= n BY <1>3, <1>4 DEF Knows
<1>5. CASE ~(v <= n)
  <2>1. v \in RowsAfter(n) BY <1>2, <1>3, <1>5 DEF RowsAfter
  <2> QED BY <1>2, <2>1 DEF Held
<1> QED BY <1>4, <1>5

(* What has all claims has those up to the watermark, which is committed.  *)
LEMMA WatermarkKnows ==
  ASSUME BaseInv
  PROVE  /\ Mark(Claims, Watermark)
         /\ \A c, n, d : KnowsAll(c, d) => Knows(c, n, d)
<1>1. Watermark = 0 \/ Watermark \in Visible BY WatermarkIsLast DEF Watermark
<1> QED BY <1>1, ClaimsAre DEF Mark, Knows, KnowsAll

(***************************************************************************)
(* What a step does to the rows.                                           *)
(***************************************************************************)
RowsStay == \A i \in DOMAIN log : log'[i] = log[i]

(* A step that leaves the room alone.                                      *)
LEMMA RoomSame ==
  ASSUME BaseInv, UNCHANGED <<log, hidden, gone, astray>>
  PROVE  /\ Claims' = Claims /\ Widens(Claims, Claims') /\ RowsStay
         /\ TrimInv /\ floor' = floor => TrimInv'
<1>1. Visible' = Visible /\ Lost' = Lost /\ Held(Visible)' = Held(Visible) BY DEF Visible, Lost, Held
<1>2. Claims' = Claims BY <1>1 DEF Claims
<1>3. DOMAIN Claims \subseteq Nat \ {0} BY ClaimsAre
<1> DEFINE c == Claims
<1> HIDE DEF c
<1>4. DOMAIN c \subseteq Nat \ {0} => Widens(c, c) BY DEF Widens
<1>5. Widens(Claims, Claims') BY <1>2, <1>3, <1>4 DEF c
<1>6. TrimInv /\ floor' = floor => TrimInv'
  <2> SUFFICES ASSUME TrimInv, floor' = floor PROVE TrimInv' OBVIOUS
  <2>1. KnowsAll(Claims', Held(Visible)') BY <1>1, <1>2 DEF TrimInv
  <2> QED BY <1>1, <2>1 DEF TrimInv, InOrder
<1> QED BY <1>2, <1>5, <1>6 DEF RowsStay

(* A row is stored: behind every stamp, whether it is visible or not.      *)
LEMMA RowAdded ==
  ASSUME LogInv, BaseInv', NEW w \in Workers, NEW r, NEW row, Stores(w, r, row)
  PROVE  /\ Widens(Claims, Claims') /\ RowsStay /\ TrimInv'
         /\ log'[r.own] = row /\ r.own = Len(log) + 1
         /\ ~LateRows => r.own \in DOMAIN Claims'
<1> DEFINE n == Len(log) + 1
           k == log'
           h == hidden'
           e == Claims'
           lost == Lost'
           v == Visible'
           held == Held(Visible)'
<1>1. /\ row \in Row /\ log' = Append(log, row) /\ r.own = n
      /\ hidden' = (IF LateRows THEN hidden \cup {n} ELSE hidden)
      /\ UNCHANGED <<gone, astray, floor>>
  BY DEF Stores, meta
<1>2. /\ log \in Seq(Row) /\ Len(log) \in Nat /\ DOMAIN log = 1..Len(log)
      /\ gone \subseteq DOMAIN log /\ hidden \subseteq DOMAIN log /\ astray \subseteq DOMAIN log
  BY LogType DEF LogInv, BaseInv, StoreOK
<1>3. /\ DOMAIN k = (DOMAIN log) \cup {n} /\ n \notin DOMAIN log /\ k[n] = row /\ n \in Nat \ {0}
      /\ \A i \in DOMAIN log : k[i] = log[i] /\ i < n
  BY <1>1, <1>2
<1>4. /\ DOMAIN e = DOMAIN k \ h /\ DOMAIN e \subseteq Nat \ {0} /\ \A i \in DOMAIN e : e[i] = k[i].items \ lost
      /\ v = (DOMAIN k \ h) \ gone /\ lost = UNION {k[i].items : i \in astray}
      /\ held = UNION {k[i].items : i \in v}
  <2>1. DOMAIN k \subseteq Nat \ {0} BY <1>2, <1>3
  <2>2. DOMAIN e = DOMAIN k \ h /\ \A i \in DOMAIN e : e[i] = k[i].items \ lost BY DEF Claims
  <2>3. v = (DOMAIN k \ h) \ gone BY <1>1 DEF Visible
  <2>4. lost = UNION {k[i].items : i \in astray} BY <1>1 DEF Lost, Held
  <2>5. held = UNION {k[i].items : i \in v} BY DEF Held
  <2> QED BY <2>1, <2>2, <2>3, <2>4, <2>5
<1>5. /\ DOMAIN Claims = DOMAIN log \ hidden /\ Visible = (DOMAIN log \ hidden) \ gone
      /\ \A i \in DOMAIN Claims : Claims[i] = log[i].items \ Lost
  BY ClaimsAre DEF LogInv, Visible
<1>6. h = (IF LateRows THEN hidden \cup {n} ELSE hidden) BY <1>1
<1> HIDE DEF n, k, h, e, lost, v, held
<1>7. lost = Lost
  <2>1. \A i \in astray : k[i].items = log[i].items BY <1>2, <1>3
  <2> QED BY <1>4, <2>1 DEF Lost, Held
<1>8. DOMAIN Claims \subseteq DOMAIN e /\ DOMAIN e \subseteq DOMAIN Claims \cup {n}
      /\ \A i \in DOMAIN Claims : e[i] = Claims[i] /\ i < n
  <2>1. DOMAIN Claims \subseteq DOMAIN e /\ DOMAIN e \subseteq DOMAIN Claims \cup {n}
    BY <1>3, <1>4, <1>5, <1>6
  <2> QED BY <2>1, <1>3, <1>4, <1>5, <1>7
<1>9. Widens(Claims, e) BY <1>4, <1>8 DEF Widens
<1>10. Visible \subseteq v /\ v \subseteq Visible \cup {n} /\ (n \in DOMAIN e => n \in v)
  <2>1. n \notin gone BY <1>2, <1>3
  <2> QED BY <1>3, <1>4, <1>5, <1>6, <2>1
<1>11. TrimInv'
  <2>1. KnowsAll(e, held)
    <3> SUFFICES ASSUME NEW i \in DOMAIN e PROVE e[i] \subseteq held BY DEF KnowsAll
    <3>1. CASE i \in DOMAIN Claims
      <4>1. e[i] \subseteq Held(Visible) BY <1>8, <3>1 DEF LogInv, TrimInv, KnowsAll
      <4>2. \A j \in Visible : k[j].items = log[j].items /\ j \in v BY <1>3, <1>5, <1>10
      <4>3. Held(Visible) \subseteq held BY <1>4, <4>2 DEF Held
      <4> QED BY <4>1, <4>3
    <3>2. CASE i = n
      <4>1. n \in v BY <1>10, <3>2
      <4> QED BY <4>1, <3>2, <1>4
    <3> QED BY <1>8, <3>1, <3>2
  <2>2. \A i \in v : \A g \in gone' : i < g => i \in astray'
    <3> SUFFICES ASSUME NEW i \in v, NEW g \in gone, i < g PROVE i \in astray BY <1>1
    <3>1. g \in DOMAIN log /\ g < n /\ g \in Nat BY <1>2, <1>3
    <3>2. i # n BY <3>1, <1>3
    <3> QED BY <3>2, <1>10 DEF LogInv, TrimInv
  <2>3. \A i \in v : i < floor' => i \in astray'
    <3> SUFFICES ASSUME NEW i \in v, i < floor PROVE i \in astray BY <1>1
    <3>1. floor = 0 \/ floor \in DOMAIN log BY <1>5 DEF LogInv, LoadInv, Mark
    <3>2. floor < n /\ floor \in Nat BY <3>1, <1>2, <1>3
    <3>3. i # n BY <3>2, <1>3
    <3> QED BY <3>3, <1>10 DEF LogInv, TrimInv
  <2>4. gone' \cap h = {}
    <3>1. n \notin gone BY <1>2, <1>3
    <3> QED BY <3>1, <1>1, <1>6 DEF LogInv, TrimInv
  <2>5. InOrder' => astray' \subseteq gone' BY <1>1 DEF LogInv, TrimInv, InOrder
  <2> QED BY <2>1, <2>2, <2>3, <2>4, <2>5 DEF TrimInv, e, held, v, h
<1>12. ~LateRows => n \in DOMAIN e
  <2>1. ~LateRows => n \notin h BY <1>2, <1>3, <1>6
  <2> QED BY <2>1, <1>3, <1>4
<1>13. RowsStay BY <1>3 DEF RowsStay, k
<1> QED BY <1>1, <1>3, <1>9, <1>11, <1>12, <1>13 DEF e, n, k

(* A row is committed: behind a committed one it claims nothing.           *)
LEMMA RowCommitted ==
  ASSUME LogInv, NEW o, UNCHANGED <<log, gone, floor>>, hidden' = hidden \ {o},
         astray' = astray \cup Late(o)
  PROVE  /\ Widens(Claims, Claims') /\ RowsStay /\ TrimInv'
         /\ o \in DOMAIN log => o \in DOMAIN Claims'
<1> DEFINE h == hidden'
           a == astray'
           e == Claims'
           lost == Lost'
           v == Visible'
           held == Held(Visible)'
<1>1. /\ DOMAIN log = 1..Len(log) /\ Len(log) \in Nat
      /\ gone \subseteq DOMAIN log /\ hidden \subseteq DOMAIN log /\ astray \subseteq DOMAIN log
  BY LogType DEF LogInv, BaseInv, StoreOK
<1>2. /\ DOMAIN e = DOMAIN log \ h /\ \A i \in DOMAIN e : e[i] = log[i].items \ lost
      /\ v = (DOMAIN log \ h) \ gone /\ lost = UNION {log[i].items : i \in a}
      /\ held = UNION {log[i].items : i \in v}
  BY DEF Claims, Visible, Lost, Held, e, h, v, lost, held, a
<1>3. /\ DOMAIN Claims = DOMAIN log \ hidden /\ Visible = (DOMAIN log \ hidden) \ gone
      /\ \A i \in DOMAIN Claims : Claims[i] = log[i].items \ Lost
      /\ Lost = UNION {log[i].items : i \in astray}
  BY ClaimsAre DEF LogInv, Visible, Lost, Held
<1>4. h = hidden \ {o} /\ a = astray \cup Late(o) OBVIOUS
<1>5. \A j \in DOMAIN log \ hidden : o \in hidden /\ o < j => o \in a BY <1>4 DEF Late
<1> HIDE DEF h, a, e, lost, v, held
<1>6. Lost \subseteq lost BY <1>2, <1>3, <1>4
<1>7. DOMAIN Claims \subseteq DOMAIN e /\ DOMAIN e \subseteq Nat \ {0}
      /\ \A i \in DOMAIN e \ DOMAIN Claims : i = o /\ o \in hidden
  BY <1>1, <1>2, <1>3, <1>4
<1>8. \A i \in DOMAIN Claims : e[i] \subseteq Claims[i] BY <1>2, <1>3, <1>6, <1>7
<1>9. Widens(Claims, e)
  <2> SUFFICES ASSUME NEW i \in DOMAIN e \ DOMAIN Claims, NEW j \in DOMAIN Claims, ~(j < i)
               PROVE  e[i] = {}
    BY <1>7, <1>8 DEF Widens
  <2>1. i = o /\ o \in hidden /\ j \in DOMAIN log \ hidden BY <1>3, <1>7
  <2>2. o < j
    <3>1. o \in Nat /\ j \in Nat /\ o # j BY <2>1, <1>1
    <3> QED BY <3>1, <2>1
  <2>3. o \in a BY <2>1, <2>2, <1>5
  <2> QED BY <2>1, <2>3, <1>2
<1>10. TrimInv'
  <2>1. Visible \subseteq v /\ \A i \in v \ Visible : i = o /\ o \in hidden BY <1>2, <1>3, <1>4
  <2>2. KnowsAll(e, held)
    <3> SUFFICES ASSUME NEW i \in DOMAIN e PROVE e[i] \subseteq held BY DEF KnowsAll
    <3>1. CASE i \in DOMAIN Claims
      <4>1. e[i] \subseteq Held(Visible) BY <1>8, <3>1 DEF LogInv, TrimInv, KnowsAll
      <4>2. Held(Visible) \subseteq held BY <1>2, <2>1 DEF Held
      <4> QED BY <4>1, <4>2
    <3>2. CASE i \notin DOMAIN Claims
      <4>1. i \in hidden /\ i \in DOMAIN log \ h BY <1>2, <1>7, <3>2
      <4>2. i \in v BY <4>1, <1>2 DEF LogInv, TrimInv
      <4> QED BY <4>2, <1>2
    <3> QED BY <3>1, <3>2
  <2>3. ASSUME NEW i \in v, NEW j \in DOMAIN log \ hidden, i < j, i \in Visible => i \in astray
        PROVE  i \in a
    <3>1. CASE i \in Visible BY <3>1, <2>3, <1>4
    <3>2. CASE i \notin Visible BY <3>2, <2>1, <2>3, <1>5
    <3> QED BY <3>1, <3>2
  <2>4. \A i \in v : \A g \in gone' : i < g => i \in a
    <3> SUFFICES ASSUME NEW i \in v, NEW g \in gone, i < g PROVE i \in a OBVIOUS
    <3>1. g \in DOMAIN log \ hidden BY <1>1 DEF LogInv, TrimInv
    <3>2. i \in Visible => i \in astray BY DEF LogInv, TrimInv
    <3> QED BY <3>1, <3>2, <2>3
  <2>5. \A i \in v : i < floor' => i \in a
    <3> SUFFICES ASSUME NEW i \in v, i < floor PROVE i \in a OBVIOUS
    <3>1. floor = 0 \/ floor \in DOMAIN log \ hidden BY <1>3 DEF LogInv, LoadInv, Mark
    <3>2. i \in Nat BY <1>1, <1>2
    <3>3. floor # 0 BY <3>2
    <3>4. i \in Visible => i \in astray BY DEF LogInv, TrimInv
    <3> QED BY <3>1, <3>3, <3>4, <2>3
  <2>6. gone' \cap h = {} BY <1>4 DEF LogInv, TrimInv
  <2>7. InOrder' => a \subseteq gone'
    <3>1. InOrder => hidden = {} BY DEF LogInv, BaseInv, StoreOK
    <3> QED BY <3>1, <1>4 DEF LogInv, TrimInv, InOrder, Late
  <2> QED BY <2>2, <2>4, <2>5, <2>6, <2>7 DEF TrimInv, e, held, v, h, a
<1>11. o \in DOMAIN log => o \in DOMAIN e BY <1>2, <1>4
<1> QED BY <1>9, <1>10, <1>11 DEF e, RowsStay

(* A trim: what a row claims that goes, the trimming request has loaded,   *)
(* and its snapshot holds it, or the snapshot it trims behind holds it.    *)
LEMMA RowsTrimmed ==
  ASSUME LogInv, NEW w \in Workers, Trim(w)
  PROVE  Widens(Claims, Claims') /\ RowsStay /\ TrimInv'
<1> DEFINE q == req[w]
           a == astray'
           e == Claims'
           lost == Lost'
           v == Visible'
           held == Held(Visible)'
<1>1. /\ q.pc = "trim" /\ floor' = q.prev /\ UNCHANGED <<log, hidden>>
      /\ gone' = gone \cup {i \in Visible : i < q.prev}
      /\ astray \subseteq a /\ a \subseteq astray \cup {i \in Visible : i < q.prev}
      /\ \A i \in Visible \ a : q.stamp < i /\ i < q.prev =>
           q.prev \in Visible /\ log[i].items \subseteq log[q.prev].items
  BY DEF Trim, Unread
<1>2. /\ DOMAIN log = 1..Len(log) /\ Len(log) \in Nat
      /\ gone \subseteq DOMAIN log /\ hidden \subseteq DOMAIN log /\ astray \subseteq DOMAIN log
  BY LogType DEF LogInv, BaseInv, StoreOK
<1>3. /\ DOMAIN e = DOMAIN log \ hidden /\ \A i \in DOMAIN e : e[i] = log[i].items \ lost
      /\ v = (DOMAIN log \ hidden) \ gone' /\ lost = UNION {log[i].items : i \in a}
      /\ held = UNION {log[i].items : i \in v}
  BY <1>1 DEF Claims, Visible, Lost, Held, e, v, lost, held, a
<1>4. /\ DOMAIN Claims = DOMAIN log \ hidden /\ Visible = (DOMAIN log \ hidden) \ gone
      /\ \A i \in DOMAIN Claims : Claims[i] = log[i].items \ Lost
      /\ Lost = UNION {log[i].items : i \in astray}
  BY ClaimsAre DEF LogInv, Visible, Lost, Held
<1>5. q.stamp \in Nat /\ q.prev \in Nat /\ q.own \in Nat BY RequestIs DEF LogInv, Requests
<1>6. /\ Knows(Claims, q.stamp, log[q.own].items) /\ q.prev < q.own /\ q.own \in DOMAIN Claims
  BY <1>1 DEF LogInv, LoadInv, Stands, Trimming, Placed
<1> HIDE DEF q, a, e, lost, v, held
<1>7. v = {i \in Visible : ~(i < q.prev)} BY <1>1, <1>3, <1>4
<1>8. Lost \subseteq lost BY <1>1, <1>3, <1>4
<1>9. \A i \in DOMAIN Claims : e[i] \subseteq Claims[i] BY <1>3, <1>4, <1>8
<1>10. Widens(Claims, e) BY <1>2, <1>3, <1>4, <1>9 DEF Widens
<1>11. KnowsAll(e, held)
  <2> SUFFICES ASSUME NEW i \in DOMAIN e, NEW x \in e[i] PROVE x \in held BY DEF KnowsAll
  <2>1. x \in Claims[i] /\ i \in DOMAIN Claims /\ x \notin lost BY <1>3, <1>4, <1>9
  <2>2. x \in Held(Visible) BY <2>1 DEF LogInv, TrimInv, KnowsAll
  <2>3. PICK j \in Visible : x \in log[j].items BY <2>2 DEF Held
  <2>4. CASE j \in v BY <2>3, <2>4, <1>3
  <2>5. CASE j \notin v
    <3>1. j < q.prev /\ j \in DOMAIN Claims /\ j \in Nat BY <2>3, <2>5, <1>2, <1>4, <1>7
    <3>2. j \notin a BY <2>1, <2>3, <1>3
    <3>3. CASE q.stamp < j
      <4>1. q.prev \in Visible /\ x \in log[q.prev].items BY <2>3, <3>1, <3>2, <3>3, <1>1
      <4>2. q.prev \in v BY <4>1, <1>5, <1>7
      <4> QED BY <4>1, <4>2, <1>3
    <3>4. CASE ~(q.stamp < j)
      <4>1. x \in Claims[j] BY <2>1, <2>3, <3>1, <1>4, <1>8
      <4>2. x \in log[q.own].items BY <3>1, <3>4, <4>1, <1>5, <1>6 DEF Knows
      <4>3. q.own \notin gone
        <5>1. q.own \in gone => j \in astray BY <3>1, <1>5, <1>6 DEF LogInv, TrimInv
        <5> QED BY <5>1, <3>2, <1>1
      <4>4. q.own \in v BY <4>3, <1>4, <1>5, <1>6, <1>7
      <4> QED BY <4>2, <4>4, <1>3
    <3> QED BY <3>3, <3>4
  <2> QED BY <2>4, <2>5
<1>12. \A i \in v : \A g \in gone' : i < g => i \in a
  <2> SUFFICES ASSUME NEW i \in v, NEW g \in gone', i < g PROVE i \in a OBVIOUS
  <2>1. i \in Visible /\ ~(i < q.prev) /\ i \in Nat BY <1>2, <1>4, <1>7
  <2>2. CASE g \in gone BY <2>1, <2>2, <1>1 DEF LogInv, TrimInv
  <2>3. CASE g \notin gone
    <3>1. g < q.prev /\ g \in Nat BY <2>3, <1>1, <1>2, <1>4
    <3> QED BY <2>1, <3>1, <1>5
  <2> QED BY <2>2, <2>3
<1>13. \A i \in v : i < floor' => i \in a BY <1>1, <1>7
<1>14. gone' \cap hidden' = {} BY <1>1, <1>4 DEF LogInv, TrimInv
<1>15. InOrder' => a \subseteq gone' BY <1>1 DEF LogInv, TrimInv, InOrder
<1>16. TrimInv' BY <1>11, <1>12, <1>13, <1>14, <1>15 DEF TrimInv, e, held, v, a
<1> QED BY <1>1, <1>10, <1>16 DEF e, RowsStay

(***************************************************************************)
(* Every step keeps what stamps, cursors and trims rely on.                *)
(***************************************************************************)
ClaimsStep == Widens(Claims, Claims') /\ RowsStay

(* A step of one request.                                                  *)
LEMMA LoadLane ==
  ASSUME LogInv, ClaimsStep, NEW w \in Workers, NEW r, req' = [req EXCEPT ![w] = r],
         Stands(r, Claims', log'),
         Mark(Claims', canon'.cursor) /\ Knows(Claims', canon'.cursor, canon'.items),
         Mark(Claims', checkpoint') /\ Mark(Claims', floor'),
         \A t \in Tabs : Mark(Claims', cursor'[t]) /\ Knows(Claims', cursor'[t], doc'[t])
  PROVE  LoadInv'
<1>1. \A u \in Workers : req'[u] = IF u = w THEN r ELSE req[u] BY DEF LogInv, BaseInv
<1>2. \A u \in Workers : Stands(req[u], Claims', log')
  <2> TAKE u \in Workers
  <2> DEFINE q == req[u]
             c == Claims
             e == Claims'
             l == log
             k == log'
  <2>1. RequestOK(q, Len(log), doc) /\ q \in Requests BY RequestIs DEF LogInv
  <2>2. Trimming(q) => q.own \in DOMAIN log
    BY <2>1, LogType DEF LogInv, RequestOK, Requests, Trimming
  <2>3. Stands(q, c, l) /\ Widens(c, e) /\ (Trimming(q) => k[q.own] = l[q.own])
    BY <2>2 DEF LogInv, LoadInv, ClaimsStep, RowsStay
  <2> HIDE DEF q, c, e, l, k
  <2>4. Stands(q, e, k) BY <2>3, StandsStays
  <2> QED BY <2>4 DEF q, e, k
<1>3. \A u \in Workers : Stands(req'[u], Claims', log') BY <1>1, <1>2
<1> QED BY <1>3 DEF LoadInv

(* What the meta and the tabs know stays known.                            *)
LEMMA OthersKnow ==
  ASSUME LogInv, ClaimsStep
  PROVE  /\ Mark(Claims', canon.cursor) /\ Knows(Claims', canon.cursor, canon.items)
         /\ Mark(Claims', checkpoint) /\ Mark(Claims', floor)
         /\ Grown(doc, doc') => \A t \in Tabs : Mark(Claims', cursor[t]) /\ Knows(Claims', cursor[t], doc'[t])
         /\ \A n : Mark(Claims, n) => Mark(Claims', n)
         /\ \A n, d : Mark(Claims, n) /\ Knows(Claims, n, d) => Knows(Claims', n, d)
<1> DEFINE c == Claims
           e == Claims'
           s == canon
           f == doc'
<1>1. /\ Widens(c, e) /\ Mark(c, s.cursor) /\ Knows(c, s.cursor, s.items)
      /\ Mark(c, checkpoint) /\ Mark(c, floor)
      /\ \A t \in Tabs : Mark(c, cursor[t]) /\ Knows(c, cursor[t], doc[t])
  BY DEF LogInv, LoadInv, ClaimsStep
<1>2. Grown(doc, doc') => \A t \in Tabs : doc[t] \subseteq f[t] BY DEF Grown
<1> HIDE DEF c, e, s, f
<1>3. \A n : Mark(c, n) => Mark(e, n) BY <1>1, MarkStays
<1>4. \A n, d : Mark(c, n) /\ Knows(c, n, d) => Knows(e, n, d)
  <2> TAKE n, d
  <2>1. d \subseteq d OBVIOUS
  <2> QED BY <2>1, <1>1, KnowsStays
<1>5. Grown(doc, doc') => \A t \in Tabs : Mark(e, cursor[t]) /\ Knows(e, cursor[t], f[t])
  <2> SUFFICES ASSUME Grown(doc, doc'), NEW t \in Tabs PROVE Mark(e, cursor[t]) /\ Knows(e, cursor[t], f[t])
    OBVIOUS
  <2> DEFINE n == cursor[t]
             d == doc[t]
             g == f[t]
  <2>1. Mark(c, n) /\ Knows(c, n, d) /\ d \subseteq g BY <1>1, <1>2
  <2> HIDE DEF n, d, g
  <2>2. Mark(e, n) /\ Knows(e, n, g) BY <2>1, <1>1, MarkStays, KnowsStays
  <2> QED BY <2>2 DEF n, g
<1> QED BY <1>1, <1>3, <1>4, <1>5 DEF c, e, s, f

(* A request moves, the meta and the tabs stay.                            *)
LEMMA LoadSame ==
  ASSUME LogInv, ClaimsStep, UNCHANGED <<canon, checkpoint, floor, cursor, doc>>,
         NEW w \in Workers, NEW r, req' = [req EXCEPT ![w] = r], Stands(r, Claims', log')
  PROVE  LoadInv'
<1>1. Grown(doc, doc') BY DEF Grown
<1> QED BY <1>1, OthersKnow, LoadLane

(* The same, in a room left alone.                                         *)
LEMMA QuietKnows ==
  ASSUME LogInv, UNCHANGED <<log, hidden, gone, astray, floor>>
  PROVE  ClaimsStep /\ TrimInv' /\ Claims' = Claims
  BY RoomSame DEF LogInv, ClaimsStep

(* A request is one that stands.                                           *)
LEMMA RequestStands ==
  ASSUME LogInv, NEW w \in Workers
  PROVE  Stands(req[w], Claims, log) /\ req[w].stamp \in Nat
  BY RequestIs DEF LogInv, LoadInv, Requests

(* The canonical is loaded with its stamp.                                 *)
LEMMA LoadMetaHistory ==
  ASSUME LogInv, NEW w \in Workers, LoadMeta(w) PROVE HistoryInv'
<1>1. PICK r : /\ req' = [req EXCEPT ![w] = r] /\ Unchanging
               /\ r.pc = "rows" /\ r.doc = canon.items /\ r.stamp = canon.cursor
  BY LoadMetaIs DEF LogInv
<1>2. UNCHANGED <<log, hidden, gone, astray, canon, checkpoint, floor, cursor, doc>>
  BY <1>1 DEF Unchanging, room, meta, tabs
<1>3. ClaimsStep /\ TrimInv' /\ Claims' = Claims BY <1>2, QuietKnows
<1>4. Stands(r, Claims, log) BY <1>1 DEF Stands, Working, Trimming, Placed, LogInv, LoadInv
<1> QED BY <1>1, <1>2, <1>3, <1>4, LoadSame DEF HistoryInv

(* The rows read past the stamp give a document that misses no claim.      *)
LEMMA LoadRowsHistory ==
  ASSUME LogInv, NEW w \in Workers, LoadRows(w) PROVE HistoryInv'
<1> DEFINE s == LoadedBy(w)
           b == req[w].batch
           m == Merge(s, b)
<1>1. PICK r : /\ req[w].pc = "rows" /\ req' = [req EXCEPT ![w] = r] /\ Unchanging
               /\ r.stamp = Watermark /\ (LoadSettles(w, r, m) \/ LoadReplays(w, r, m))
  BY LoadRowsIs DEF LogInv
<1>2. UNCHANGED <<log, hidden, gone, astray, canon, checkpoint, floor, cursor, doc>>
  BY <1>1 DEF Unchanging, room, meta, tabs
<1>3. ClaimsStep /\ TrimInv' /\ Claims' = Claims BY <1>2, QuietKnows
<1>4. req[w] \in Requests BY RequestIs DEF LogInv
<1>5. s \in SUBSET Items /\ b \in Seq(SUBSET Items)
  BY <1>4, HeldType, RowsAfterType DEF Requests, LoadedBy, LogInv
<1>6. KnowsAll(Claims, s)
  <2>1. Knows(Claims, req[w].stamp, req[w].doc) /\ req[w].stamp \in Nat
    BY <1>1, RequestStands DEF Stands, Working
  <2> QED BY <2>1, LoadsAll DEF LoadedBy, LogInv
<1> HIDE DEF s, b
<1>7. s \subseteq m.doc BY <1>5, MergeLosesNothing, Zenon DEF Merged
<1>8. KnowsAll(Claims, m.doc) BY <1>6, <1>7 DEF KnowsAll
<1>9. Mark(Claims, Watermark) /\ Knows(Claims, Watermark, m.doc) BY <1>8, WatermarkKnows DEF LogInv
<1>10. (r.pc \in {"append", "read"} /\ r.doc = m.doc) \/ r.pc = "replay"
  BY <1>1 DEF LoadSettles, LoadReplays
<1> HIDE DEF m
<1>11. Stands(r, Claims, log) BY <1>1, <1>9, <1>10 DEF Stands, Working, Trimming, Placed
<1> QED BY <1>1, <1>2, <1>3, <1>11, LoadSame DEF HistoryInv

(* So do the rows that are left.                                           *)
LEMMA ReplayHistory ==
  ASSUME LogInv, NEW w \in Workers, Replay(w) PROVE HistoryInv'
<1> DEFINE m == ReplayedBy(w)
           V == Held(RowsAfter(0))
           size == Len(req[w].batch)
<1>1. PICK r : /\ req' = [req EXCEPT ![w] = r] /\ Unchanging /\ r.stamp = Watermark
               /\ r.pc = (IF m.doc # V THEN "append" ELSE "resave") /\ r.doc = m.doc
               /\ Merged(m, V, size)
  BY ReplayIs DEF LogInv
<1>2. UNCHANGED <<log, hidden, gone, astray, canon, checkpoint, floor, cursor, doc>>
  BY <1>1 DEF Unchanging, room, meta, tabs
<1>3. ClaimsStep /\ TrimInv' /\ Claims' = Claims BY <1>2, QuietKnows
<1>4. KnowsAll(Claims, V) BY VisibleType DEF LogInv, TrimInv
<1> HIDE DEF m, V, size
<1>5. V \subseteq m.doc BY <1>1 DEF Merged
<1>6. KnowsAll(Claims, m.doc) BY <1>4, <1>5 DEF KnowsAll
<1>7. Mark(Claims, Watermark) /\ Knows(Claims, Watermark, m.doc) BY <1>6, WatermarkKnows DEF LogInv
<1>8. r.pc \in {"append", "resave"} BY <1>1
<1>9. Stands(r, Claims, log) BY <1>1, <1>7, <1>8 DEF Stands, Working, Trimming, Placed
<1> QED BY <1>1, <1>2, <1>3, <1>9, LoadSame DEF HistoryInv

(* A request stores a row, and then goes on as its kind wants.             *)
Feeds(q, row, then) ==
  \/ then \in {"append", "save"} /\ Working(q)
  \/ then = "stamp" /\ q.pc = "snapshot" /\ row.items = q.doc
  \/ then = "born"

(* The room and the request of a step that stores a row.                   *)
LEMMA StoresHistory ==
  ASSUME LogInv, BaseInv', NEW w \in Workers, NEW r, NEW row, Stores(w, r, row),
         NEW then, NextPc(r, then), Feeds(req[w], row, then)
  PROVE  HistoryInv'
<1> DEFINE q == req[w]
           e == Claims'
           k == log'
<1>1. ClaimsStep /\ TrimInv' /\ k[r.own] = row /\ r.own = Len(log) + 1 /\ (~LateRows => r.own \in DOMAIN e)
  BY RowAdded DEF ClaimsStep
<1>2. /\ req' = [req EXCEPT ![w] = r] /\ UNCHANGED <<canon, checkpoint, floor, cursor, doc>>
      /\ r.doc = q.doc /\ r.stamp = q.stamp /\ r.prev = q.prev
  BY DEF Stores, meta, tabs
<1>3. Stands(q, Claims, log) BY RequestStands
<1>4. q.prev < r.own
  <2>1. RequestOK(q, Len(log), doc) /\ Len(log) \in Nat BY RequestIs, LogType DEF LogInv
  <2> QED BY <2>1, <1>1 DEF RequestOK, Requests
<1>5. Mark(e, q.stamp) /\ (Mark(Claims, q.prev) => Mark(e, q.prev)) BY <1>1, <1>3, OthersKnow DEF Stands
<1>6. Working(q) => Knows(e, q.stamp, q.doc) BY <1>1, <1>3, OthersKnow DEF Stands
<1>7. r.pc = (IF LateRows THEN "commit" ELSE then) /\ r.then = (IF LateRows THEN then ELSE "idle")
  BY DEF NextPc
<1> SUFFICES Stands(r, e, k) BY <1>1, <1>2, LoadSame DEF HistoryInv
<1> HIDE DEF q, e, k
<1>8. CASE then \in {"append", "save"} /\ Working(q)
  <2>1. ~Trimming(r) /\ ~Placed(r) /\ r.pc # "snapshot" BY <1>7, <1>8 DEF Trimming, Placed
  <2>2. Knows(e, r.stamp, r.doc) BY <1>2, <1>6, <1>8
  <2>3. Mark(e, r.stamp) BY <1>2, <1>5
  <2> QED BY <2>1, <2>2, <2>3 DEF Stands
<1>9. CASE then = "stamp" /\ q.pc = "snapshot" /\ row.items = q.doc
  <2>1. ~Working(r) /\ (Placed(r) => r.own \in DOMAIN e) BY <1>1, <1>7, <1>9 DEF Working, Placed
  <2>2. q.pc = "snapshot" /\ k[r.own].items = q.doc BY <1>1, <1>9
  <2>3. Mark(e, r.prev) BY <2>2, <1>2, <1>3, <1>5 DEF Stands
  <2>4. Knows(e, r.stamp, k[r.own].items) BY <2>2, <1>2, <1>6 DEF Working
  <2>5. Mark(e, r.stamp) /\ r.prev < r.own BY <1>2, <1>4, <1>5
  <2> QED BY <2>1, <2>3, <2>4, <2>5 DEF Stands
<1>10. CASE then = "born"
  <2>1. ~Working(r) /\ ~Trimming(r) /\ r.pc # "snapshot" /\ (Placed(r) => r.own \in DOMAIN e)
    BY <1>1, <1>7, <1>10 DEF Working, Trimming, Placed
  <2> QED BY <2>1, <1>2, <1>5 DEF Stands
<1> QED BY <1>8, <1>9, <1>10 DEF Feeds, q

(* One row more per accepted update.                                       *)
LEMMA StoreRowHistory ==
  ASSUME LogInv, BaseInv', NEW w \in Workers, StoreRow(w) PROVE HistoryInv'
<1>1. PICK r, row : /\ req[w].pc = "append" /\ Stores(w, r, row)
                    /\ NextPc(r, IF Len(req[w].diffs) = 1 THEN "save" ELSE "append")
  BY StoreRowIs DEF LogInv
<1> DEFINE then == IF Len(req[w].diffs) = 1 THEN "save" ELSE "append"
<1>2. then \in {"append", "save"} /\ NextPc(r, then) BY <1>1
<1> HIDE DEF then
<1>3. \A q, x : q.pc = "append" => Feeds(q, x, then) BY <1>2 DEF Working, Feeds
<1> QED BY <1>1, <1>2, <1>3, StoresHistory

(* The snapshot of a checkpoint holds the document of its request.         *)
LEMMA StoreSnapshotHistory ==
  ASSUME LogInv, BaseInv', NEW w \in Workers, StoreSnapshot(w) PROVE HistoryInv'
<1>1. PICK r, row : /\ req[w].pc = "snapshot" /\ Stores(w, r, row) /\ row.items = req[w].doc
                    /\ NextPc(r, "stamp")
  BY StoreSnapshotIs DEF LogInv
<1>2. Feeds(req[w], row, "stamp") BY <1>1 DEF Feeds
<1> QED BY <1>1, <1>2, StoresHistory

(* The genesis is a row like any other.                                    *)
LEMMA StoreGenesisHistory ==
  ASSUME LogInv, BaseInv', NEW w \in Workers, StoreGenesis(w) PROVE HistoryInv'
<1>1. PICK r, row : Stores(w, r, row) /\ NextPc(r, "born") BY StoreGenesisIs DEF LogInv
<1>2. Feeds(req[w], row, "born") BY DEF Feeds
<1> QED BY <1>1, <1>2, StoresHistory

(* A row is committed.                                                     *)
LEMMA CommitHistory ==
  ASSUME LogInv, NEW w \in Workers, Commit(w) PROVE HistoryInv'
<1> DEFINE q == req[w]
           e == Claims'
           k == log'
<1>1. PICK r : /\ q.pc = "commit" /\ req' = [req EXCEPT ![w] = r] /\ r.pc = q.then
               /\ hidden' = hidden \ {q.own} /\ astray' = astray \cup Late(q.own)
               /\ UNCHANGED <<log, gone, meta, tabs, faults>>
               /\ r.doc = q.doc /\ r.stamp = q.stamp /\ r.own = q.own /\ r.prev = q.prev
  BY CommitIs DEF LogInv
<1>2. UNCHANGED <<canon, checkpoint, floor, cursor, doc>> BY <1>1 DEF meta, tabs
<1>3. ClaimsStep /\ TrimInv' /\ (q.own \in DOMAIN log => q.own \in DOMAIN e)
  BY <1>1, <1>2, RowCommitted DEF ClaimsStep
<1>4. q.then \in {"append", "save", "stamp", "born"} /\ q.own \in DOMAIN log
  <2>1. RequestOK(q, Len(log), doc) /\ DOMAIN log = 1..Len(log) /\ Len(log) \in Nat
    BY RequestIs, LogType DEF LogInv
  <2> QED BY <2>1, <1>1 DEF RequestOK, Requests
<1>5. Stands(q, Claims, log) BY RequestStands
<1>6. k = log BY <1>1
<1>7. Mark(e, q.stamp) /\ (Mark(Claims, q.prev) => Mark(e, q.prev)) BY <1>3, <1>5, OthersKnow DEF Stands
<1>8. \A d : Knows(Claims, q.stamp, d) => Knows(e, q.stamp, d) BY <1>3, <1>5, OthersKnow DEF Stands
<1> HIDE DEF q, e, k
<1>9. Stands(r, e, k)
  <2>1. Working(r) => Knows(e, r.stamp, r.doc)
    <3>1. Working(r) => Working(q) BY <1>1, <1>4 DEF Working
    <3> QED BY <3>1, <1>1, <1>5, <1>8 DEF Stands
  <2>2. Trimming(r) => r.prev < r.own /\ Knows(e, r.stamp, k[r.own].items) /\ Mark(e, r.prev)
    <3>1. Trimming(r) => Trimming(q) BY <1>1, <1>4 DEF Trimming
    <3> QED BY <3>1, <1>1, <1>5, <1>6, <1>7, <1>8 DEF Stands
  <2>3. r.pc # "snapshot" BY <1>1, <1>4
  <2> QED BY <2>1, <2>2, <2>3, <1>1, <1>3, <1>4, <1>7 DEF Stands
<1> QED BY <1>1, <1>2, <1>3, <1>9, LoadSame DEF HistoryInv, e, k

(* The canonical is saved with the stamp of the document.                  *)
LEMMA SaveCanonicalHistory ==
  ASSUME LogInv, NEW w \in Workers, SaveCanonical(w) PROVE HistoryInv'
<1> DEFINE q == req[w]
           pc == IF q.pc = "save" THEN "due" ELSE "read"
<1>1. /\ q.pc \in {"save", "resave"} /\ req' = [req EXCEPT ![w].pc = pc]
      /\ canon' = [items |-> q.doc, cursor |-> q.stamp]
      /\ UNCHANGED <<room, checkpoint, floor, tabs, faults>>
  BY DEF SaveCanonical, LogInv, BaseInv
<1>2. PICK r : req' = [req EXCEPT ![w] = r] /\ r.pc = pc /\ Moved(q, r) BY <1>1, MovesOn DEF LogInv
<1>3. UNCHANGED <<log, hidden, gone, astray, checkpoint, floor, cursor, doc>>
  BY <1>1 DEF room, tabs
<1>4. ClaimsStep /\ TrimInv' /\ Claims' = Claims BY <1>3, QuietKnows
<1>5. Mark(Claims, q.stamp) /\ Knows(Claims, q.stamp, q.doc) BY <1>1, RequestStands DEF Stands, Working
<1>6. canon'.cursor = q.stamp /\ canon'.items = q.doc BY <1>1
<1>7. Stands(r, Claims, log)
  <2>1. r.pc \in {"due", "read"} /\ r.stamp = q.stamp /\ r.doc = q.doc BY <1>2 DEF Moved
  <2> QED BY <2>1, <1>5 DEF Stands, Working, Trimming, Placed
<1>8. /\ Mark(Claims', checkpoint') /\ Mark(Claims', floor')
      /\ \A t \in Tabs : Mark(Claims', cursor'[t]) /\ Knows(Claims', cursor'[t], doc'[t])
  BY <1>3, <1>4 DEF LogInv, LoadInv
<1>9. Mark(Claims', canon'.cursor) /\ Knows(Claims', canon'.cursor, canon'.items) BY <1>4, <1>5, <1>6
<1>10. Stands(r, Claims', log') BY <1>3, <1>4, <1>7
<1> QED BY <1>2, <1>4, <1>8, <1>9, <1>10, LoadLane DEF HistoryInv

(* A checkpoint folds more into the document, and remembers the last one.  *)
LEMMA CheckpointDueHistory ==
  ASSUME LogInv, NEW w \in Workers, CheckpointDue(w) PROVE HistoryInv'
<1> DEFINE H == Held(RowsAfter(checkpoint))
<1>1. PICK r : /\ req[w].pc = "due" /\ req' = [req EXCEPT ![w] = r] /\ Unchanging /\ r.stamp = req[w].stamp
               /\ \/ r.pc = "snapshot" /\ r.doc = req[w].doc \cup H /\ r.prev = checkpoint
                  \/ r.pc = "read" /\ r.doc = req[w].doc
  BY CheckpointDueIs DEF LogInv
<1>2. UNCHANGED <<log, hidden, gone, astray, canon, checkpoint, floor, cursor, doc>>
  BY <1>1 DEF Unchanging, room, meta, tabs
<1>3. ClaimsStep /\ TrimInv' /\ Claims' = Claims BY <1>2, QuietKnows
<1>4. Mark(Claims, req[w].stamp) /\ Knows(Claims, req[w].stamp, req[w].doc) /\ Mark(Claims, checkpoint)
  BY <1>1, RequestStands DEF Stands, Working, LogInv, LoadInv
<1> HIDE DEF H
<1>5. Knows(Claims, req[w].stamp, req[w].doc \cup H) BY <1>4 DEF Knows
<1>6. Stands(r, Claims, log) BY <1>1, <1>4, <1>5 DEF Stands, Working, Trimming, Placed
<1>7. Stands(r, Claims', log') BY <1>2, <1>3, <1>6
<1> QED BY <1>1, <1>2, <1>3, <1>7, LoadSame DEF HistoryInv

(* A request that goes on with less to stand for, in a room left alone.    *)
LEMMA MovesHistory ==
  ASSUME LogInv, NEW w \in Workers, NEW r, req' = [req EXCEPT ![w] = r], Moved(req[w], r),
         ~Working(r), r.pc # "snapshot", Trimming(r) => Trimming(req[w]), Placed(r) => Placed(req[w]),
         UNCHANGED <<log, hidden, gone, astray, floor, cursor, doc>>,
         Mark(Claims, checkpoint'), Mark(Claims, canon'.cursor), Knows(Claims, canon'.cursor, canon'.items)
  PROVE  HistoryInv'
<1>1. ClaimsStep /\ TrimInv' /\ Claims' = Claims BY QuietKnows
<1>2. Stands(req[w], Claims, log) BY RequestStands
<1>3. Stands(r, Claims, log) BY <1>2 DEF Stands, Moved
<1>4. Stands(r, Claims', log') BY <1>1, <1>3
<1>5. /\ Mark(Claims', checkpoint') /\ Mark(Claims', floor')
      /\ \A t \in Tabs : Mark(Claims', cursor'[t]) /\ Knows(Claims', cursor'[t], doc'[t])
  BY <1>1 DEF LogInv, LoadInv
<1>6. Mark(Claims', canon'.cursor) /\ Knows(Claims', canon'.cursor, canon'.items) BY <1>1
<1> QED BY <1>1, <1>4, <1>5, <1>6, LoadLane DEF HistoryInv

(* The room meta moves to a row that is committed, or stays.               *)
LEMMA MetaStepsHistory ==
  ASSUME LogInv, NEW w \in Workers,
         StampCheckpoint(w) \/ PaceGenesis(w) \/ SaveGenesis(w) \/ Initialize(w)
  PROVE  HistoryInv'
<1> DEFINE q == req[w]
<1>0. Stands(q, Claims, log) BY RequestStands
<1>1. Mark(Claims, checkpoint) /\ Mark(Claims, canon.cursor) /\ Knows(Claims, canon.cursor, canon.items)
  BY DEF LogInv, LoadInv
<1>2. \A d : Mark(Claims, 0) /\ Knows(Claims, 0, d)
  <2>1. DOMAIN Claims \subseteq Nat \ {0} BY ClaimsAre DEF LogInv
  <2> QED BY <2>1 DEF Mark, Knows
<1>3. CASE StampCheckpoint(w)
  <2> DEFINE pc == IF q.prev > 0 THEN "trim" ELSE "read"
  <2>1. q.pc = "stamp" /\ checkpoint' = q.own /\ req' = [req EXCEPT ![w].pc = pc]
        /\ UNCHANGED <<room, canon, floor, tabs, faults>>
    BY <1>3 DEF StampCheckpoint
  <2>2. PICK r : req' = [req EXCEPT ![w] = r] /\ r.pc = pc /\ Moved(q, r) BY <2>1, MovesOn DEF LogInv
  <2>3. Mark(Claims, checkpoint') BY <2>1, <1>0 DEF Stands, Placed, Mark
  <2>4. /\ ~Working(r) /\ r.pc # "snapshot" /\ (Trimming(r) => Trimming(q)) /\ (Placed(r) => Placed(q))
    BY <2>1, <2>2 DEF Working, Trimming, Placed
  <2>5. UNCHANGED <<log, hidden, gone, astray, canon, floor, cursor, doc>> BY <2>1 DEF room, tabs
  <2> QED BY <2>2, <2>3, <2>4, <2>5, <1>1, MovesHistory
<1>4. CASE PaceGenesis(w)
  <2>1. q.pc = "pace" /\ checkpoint' = q.own /\ req' = [req EXCEPT ![w].pc = "read"]
        /\ UNCHANGED <<room, canon, floor, tabs, faults>>
    BY <1>4 DEF PaceGenesis
  <2>2. PICK r : req' = [req EXCEPT ![w] = r] /\ r.pc = "read" /\ Moved(q, r) BY <2>1, MovesOn DEF LogInv
  <2>3. Mark(Claims, checkpoint') BY <2>1, <1>0 DEF Stands, Placed, Mark
  <2>4. /\ ~Working(r) /\ r.pc # "snapshot" /\ ~Trimming(r) /\ ~Placed(r)
    BY <2>2 DEF Working, Trimming, Placed
  <2>5. UNCHANGED <<log, hidden, gone, astray, canon, floor, cursor, doc>> BY <2>1 DEF room, tabs
  <2> QED BY <2>2, <2>3, <2>4, <2>5, <1>1, MovesHistory
<1>5. CASE SaveGenesis(w)
  <2>1. q.pc = "born" /\ canon' = [items |-> {Genesis}, cursor |-> 0] /\ req' = [req EXCEPT ![w].pc = "pace"]
        /\ UNCHANGED <<room, checkpoint, floor, tabs, faults>>
    BY <1>5 DEF SaveGenesis
  <2>2. PICK r : req' = [req EXCEPT ![w] = r] /\ r.pc = "pace" /\ Moved(q, r) BY <2>1, MovesOn DEF LogInv
  <2>3. Mark(Claims, canon'.cursor) /\ Knows(Claims, canon'.cursor, canon'.items) BY <2>1, <1>2
  <2>4. /\ ~Working(r) /\ r.pc # "snapshot" /\ ~Trimming(r) /\ Placed(q)
    BY <2>1, <2>2 DEF Working, Trimming, Placed
  <2>5. UNCHANGED <<log, hidden, gone, astray, checkpoint, floor, cursor, doc>> BY <2>1 DEF room, tabs
  <2> QED BY <2>2, <2>3, <2>4, <2>5, <1>1, MovesHistory
<1>6. CASE Initialize(w)
  <2>1. req' = [req EXCEPT ![w].pc = "birth"] /\ UNCHANGED <<room, meta, tabs, faults>>
    BY <1>6 DEF Initialize
  <2>2. PICK r : req' = [req EXCEPT ![w] = r] /\ r.pc = "birth" /\ Moved(q, r) BY <2>1, MovesOn DEF LogInv
  <2>4. /\ ~Working(r) /\ r.pc # "snapshot" /\ ~Trimming(r) /\ ~Placed(r)
    BY <2>2 DEF Working, Trimming, Placed
  <2>5. UNCHANGED <<log, hidden, gone, astray, canon, checkpoint, floor, cursor, doc>>
    BY <2>1 DEF room, meta, tabs
  <2> QED BY <2>2, <2>4, <2>5, <1>1, MovesHistory
<1> QED BY <1>3, <1>4, <1>5, <1>6

(* The floor is moved to a row that is committed.                          *)
LEMMA TrimHistory ==
  ASSUME LogInv, NEW w \in Workers, Trim(w) PROVE HistoryInv'
<1> DEFINE q == req[w]
<1>1. q.pc = "trim" /\ floor' = q.prev /\ req' = [req EXCEPT ![w].pc = "read"]
      /\ UNCHANGED <<log, hidden, canon, checkpoint, doc, cursor>>
  BY DEF Trim, tabs
<1>2. PICK r : req' = [req EXCEPT ![w] = r] /\ r.pc = "read" /\ Moved(q, r) BY <1>1, MovesOn DEF LogInv
<1>3. ClaimsStep /\ TrimInv' BY RowsTrimmed DEF ClaimsStep
<1>4. Stands(q, Claims, log) BY RequestStands
<1>5. /\ Mark(Claims', canon.cursor) /\ Knows(Claims', canon.cursor, canon.items)
      /\ Mark(Claims', checkpoint)
      /\ \A t \in Tabs : Mark(Claims', cursor[t]) /\ Knows(Claims', cursor[t], doc'[t])
      /\ \A n : Mark(Claims, n) => Mark(Claims', n)
  <2>1. Grown(doc, doc') BY <1>1 DEF Grown
  <2> QED BY <2>1, <1>3, OthersKnow
<1>6. Mark(Claims', floor') BY <1>1, <1>4, <1>5 DEF Stands, Trimming
<1>7. Stands(r, Claims', log')
  <2>1. Mark(Claims', r.stamp) BY <1>2, <1>4, <1>5 DEF Stands, Moved
  <2> QED BY <2>1, <1>2 DEF Stands, Working, Trimming, Placed
<1> QED BY <1>1, <1>2, <1>3, <1>5, <1>6, <1>7, LoadLane DEF HistoryInv

(* An answer leaves out no claim: the rows that are left are sent from the *)
(* cursor on, and the tab has its own updates.                             *)
LEMMA AnswerLeavesNoGap ==
  ASSUME LogInv, NEW t \in Tabs
  PROVE  LET from == IF 0 < cursor[t] /\ cursor[t] < floor THEN floor - 1 ELSE cursor[t]
             sent == {i \in RowsAfter(from) : ~(log[i].type = "update" /\ log[i].from = t)}
         IN KnowsAll(Claims, doc[t] \cup Held(sent))
<1> DEFINE from == IF 0 < cursor[t] /\ cursor[t] < floor THEN floor - 1 ELSE cursor[t]
           sent == {i \in RowsAfter(from) : ~(log[i].type = "update" /\ log[i].from = t)}
<1> SUFFICES ASSUME NEW i \in DOMAIN Claims, NEW x \in Claims[i] PROVE x \in doc[t] \cup Held(sent)
  BY DEF KnowsAll
<1>1. x \in Held(Visible) BY DEF LogInv, TrimInv, KnowsAll
<1>2. PICK v \in Visible : x \in log[v].items BY <1>1 DEF Held
<1>3. i \in DOMAIN log \ hidden /\ x \notin Lost BY ClaimsAre DEF LogInv
<1>4. v \notin astray BY <1>2, <1>3 DEF Lost, Held
<1>5. v \in DOMAIN Claims /\ x \in Claims[v] /\ v \in Nat /\ v \in DOMAIN log
  <2>1. Visible \subseteq DOMAIN log BY DEF Visible
  <2> QED BY <2>1, <1>2, <1>3, ClaimsAre DEF LogInv
<1>6. ~(v < floor) /\ floor \in Nat /\ cursor[t] \in Nat
  BY <1>2, <1>4 DEF LogInv, TrimInv, BaseInv, StoreOK, TabTypes
<1>7. CASE v <= cursor[t] BY <1>5, <1>7 DEF LogInv, LoadInv, Knows
<1>8. CASE ~(v <= cursor[t])
  <2>1. v > from BY <1>5, <1>6, <1>8
  <2>2. v \in RowsAfter(from) BY <1>2, <2>1 DEF RowsAfter
  <2> HIDE DEF from
  <2>3. CASE log[v].type = "update" /\ log[v].from = t
    <3>1. RowOK(log[v], doc) BY <1>5 DEF LogInv, BaseInv
    <3> QED BY <3>1, <2>3, <1>2 DEF RowOK
  <2>4. CASE ~(log[v].type = "update" /\ log[v].from = t)
    <3>1. v \in sent BY <2>2, <2>4
    <3> QED BY <3>1, <1>2 DEF Held
  <2> QED BY <2>3, <2>4
<1> QED BY <1>7, <1>8

(* A tab that is answered.                                                 *)
LEMMA AnswerHistory ==
  ASSUME LogInv, NEW w \in Workers, Answer(w) PROVE HistoryInv'
<1> DEFINE t == req[w].tab
           from == IF 0 < cursor[t] /\ cursor[t] < floor THEN floor - 1 ELSE cursor[t]
           sent == {i \in RowsAfter(from) : ~(log[i].type = "update" /\ log[i].from = t)}
           H == Held(sent)
<1>1. /\ req[w].pc = "read" /\ req' = [req EXCEPT ![w] = Idle]
      /\ \/ doc' = [doc EXCEPT ![t] = @ \cup H] /\ cursor' = [cursor EXCEPT ![t] = Watermark]
         \/ UNCHANGED <<doc, cursor>>
      /\ UNCHANGED <<room, meta>>
  BY DEF Answer
<1>2. t \in Tabs /\ doc \in [Tabs -> SUBSET Items] /\ cursor \in [Tabs -> Nat]
  <2>1. RequestOK(req[w], Len(log), doc) BY RequestIs DEF LogInv
  <2> QED BY <2>1, <1>1 DEF RequestOK, LogInv, BaseInv, TabTypes
<1>3. KnowsAll(Claims, doc[t] \cup H) BY <1>2, AnswerLeavesNoGap
<1>4. Mark(Claims, Watermark) /\ Knows(Claims, Watermark, doc[t] \cup H)
  BY <1>3, WatermarkKnows DEF LogInv
<1> HIDE DEF H, t
<1>5. UNCHANGED <<log, hidden, gone, astray, canon, checkpoint, floor>> BY <1>1 DEF room, meta
<1>6. ClaimsStep /\ TrimInv' /\ Claims' = Claims BY <1>5, QuietKnows
<1>7. \A u \in Tabs : Mark(Claims, cursor[u]) /\ Knows(Claims, cursor[u], doc[u]) BY DEF LogInv, LoadInv
<1>8. \A u \in Tabs : Mark(Claims, cursor'[u]) /\ Knows(Claims, cursor'[u], doc'[u])
  <2> TAKE u \in Tabs
  <2>1. CASE UNCHANGED <<doc, cursor>> BY <2>1, <1>7
  <2>2. CASE doc' = [doc EXCEPT ![t] = @ \cup H] /\ cursor' = [cursor EXCEPT ![t] = Watermark]
    <3>1. CASE u = t
      <4>1. doc'[u] = doc[t] \cup H /\ cursor'[u] = Watermark BY <2>2, <3>1, <1>2
      <4> QED BY <4>1, <1>4
    <3>2. CASE u # t
      <4>1. doc'[u] = doc[u] /\ cursor'[u] = cursor[u] BY <2>2, <3>2, <1>2
      <4> QED BY <4>1, <1>7
    <3> QED BY <3>1, <3>2
  <2> QED BY <2>1, <2>2, <1>1
<1>9. Stands(Idle, Claims, log) BY DEF Idle, Stands, Working, Trimming, Placed, Mark
<1>10. /\ Mark(Claims, canon'.cursor) /\ Knows(Claims, canon'.cursor, canon'.items)
       /\ Mark(Claims, checkpoint') /\ Mark(Claims, floor')
  BY <1>5 DEF LogInv, LoadInv
<1>11. Stands(Idle, Claims', log') BY <1>5, <1>6, <1>9
<1> QED BY <1>1, <1>6, <1>8, <1>10, <1>11, LoadLane DEF HistoryInv

(* A request starts from nothing.                                          *)
LEMMA SendHistory ==
  ASSUME LogInv, NEW t \in Tabs, NEW w \in Workers, Send(t, w) PROVE HistoryInv'
<1>1. PICK r : SendMakes(t, w, r) BY SendIs DEF LogInv
<1>2. UNCHANGED <<log, hidden, gone, astray, canon, checkpoint, floor, cursor, doc>>
  BY <1>1 DEF SendMakes, room, meta
<1>3. ClaimsStep /\ TrimInv' /\ Claims' = Claims BY <1>2, QuietKnows
<1>4. r.pc \in {"read", "meta"} /\ r.stamp = 0 /\ req' = [req EXCEPT ![w] = r] BY <1>1 DEF SendMakes
<1>5. Stands(r, Claims', log') BY <1>4 DEF Stands, Working, Trimming, Placed, Mark
<1> QED BY <1>2, <1>3, <1>4, <1>5, LoadSame DEF HistoryInv

(* A request fails: its row, if it was taking one, is committed.           *)
LEMMA FailHistory ==
  ASSUME LogInv, NEW w \in Workers, Fail(w) PROVE HistoryInv'
<1> DEFINE q == req[w]
           u == [q EXCEPT !.heard = FALSE]
<1>1. /\ hidden' = hidden \ {q.own} /\ astray' = astray \cup Late(q.own)
      /\ req' = [req EXCEPT ![w] = Idle] \/ req' = [req EXCEPT ![w] = u]
      /\ UNCHANGED <<log, gone, meta, doc, cursor>>
  BY FailIs DEF LogInv
<1>2. UNCHANGED <<canon, checkpoint, floor>> BY <1>1 DEF meta
<1>3. ClaimsStep /\ TrimInv' BY <1>1, <1>2, RowCommitted DEF ClaimsStep
<1>4. Widens(Claims, Claims') /\ Stands(q, Claims, log) /\ log' = log
  BY <1>1, <1>3, RequestStands DEF ClaimsStep
<1>5. q \in Requests BY RequestIs DEF LogInv
<1>6. u.pc = q.pc /\ u.doc = q.doc /\ u.stamp = q.stamp /\ u.prev = q.prev /\ u.own = q.own /\ u.then = q.then
  BY <1>5, UnheardIs
<1> HIDE DEF q, u
<1>7. Stands(q, Claims', log) BY <1>4, StandsStays
<1>8. Stands(u, Claims', log') BY <1>4, <1>6, <1>7 DEF Stands, Working, Trimming, Placed
<1>9. Stands(Idle, Claims', log') BY DEF Idle, Stands, Working, Trimming, Placed, Mark
<1> QED BY <1>1, <1>2, <1>3, <1>8, <1>9, LoadSame DEF HistoryInv

(* A tab edits, or nothing happens.                                        *)
LEMMA TabHistory ==
  ASSUME LogInv, Grown(doc, doc'),
         UNCHANGED <<log, hidden, gone, astray, canon, checkpoint, floor, req, cursor>>
  PROVE  HistoryInv'
<1>1. ClaimsStep /\ TrimInv' /\ Claims' = Claims BY QuietKnows
<1>2. \A w \in Workers : Stands(req'[w], Claims', log') BY <1>1 DEF LogInv, LoadInv
<1> QED BY <1>1, <1>2, OthersKnow DEF HistoryInv, LoadInv

(* At first all there is is the genesis, or nothing.                       *)
LEMMA InitHistory == ASSUME Init PROVE HistoryInv
<1>0. BaseInv BY InitBase
<1>1. /\ hidden = {} /\ gone = {} /\ astray = {} /\ floor = 0 /\ checkpoint = Len(log) /\ canon.cursor = 0
      /\ \A t \in Tabs : cursor[t] = 0
      /\ \A w \in Workers : req[w] = Idle
  BY DEF Init
<1>2. DOMAIN Claims = DOMAIN log /\ DOMAIN log = 1..Len(log) /\ Len(log) \in Nat /\ Visible = DOMAIN log
  BY <1>0, <1>1, ClaimsAre, LogType DEF Visible
<1>3. \A d : Mark(Claims, 0) /\ Knows(Claims, 0, d) BY <1>2 DEF Mark, Knows
<1>4. Mark(Claims, checkpoint) BY <1>1, <1>2 DEF Mark
<1>5. KnowsAll(Claims, Held(Visible))
  <2> SUFFICES ASSUME NEW i \in DOMAIN Claims PROVE Claims[i] \subseteq Held(Visible) BY DEF KnowsAll
  <2>1. Claims[i] \subseteq log[i].items BY <1>0, ClaimsAre
  <2> QED BY <2>1, <1>2 DEF Held
<1>6. TrimInv
  <2>1. \A i \in Visible : ~(i < floor) BY <1>1, <1>2
  <2> QED BY <2>1, <1>1, <1>5 DEF TrimInv
<1>7. Stands(Idle, Claims, log) BY DEF Idle, Stands, Working, Trimming, Placed, Mark
<1> QED BY <1>1, <1>3, <1>4, <1>6, <1>7 DEF HistoryInv, LoadInv

(* Every step of a request.                                                *)
LEMMA HandleHistory ==
  ASSUME LogInv, BaseInv', NEW w \in Workers, Handle(w) PROVE HistoryInv'
  BY LoadMetaHistory, LoadRowsHistory, ReplayHistory, StoreRowHistory, CommitHistory, SaveCanonicalHistory,
     CheckpointDueHistory, StoreSnapshotHistory, TrimHistory, StoreGenesisHistory, MetaStepsHistory,
     AnswerHistory
  DEF Handle

(* Every step.                                                             *)
LEMMA StepHistory == ASSUME LogInv, [Next]_vars PROVE HistoryInv'
<1>0. BaseInv' BY StepBase DEF LogInv
<1>1. ASSUME NEW t \in Tabs, Edit(t) PROVE HistoryInv'
  <2>1. PICK item, new : EditMakes(t, item, new) BY <1>1, EditIs DEF LogInv
  <2>2. doc' = [doc EXCEPT ![t] = @ \cup {item}] /\ UNCHANGED <<room, meta, req, cursor>>
    BY <2>1 DEF EditMakes
  <2>3. Grown(doc, doc') BY <2>2 DEF Grown, LogInv, BaseInv, TabTypes
  <2>4. UNCHANGED <<log, hidden, gone, astray, canon, checkpoint, floor, req, cursor>>
    BY <2>2 DEF room, meta
  <2> QED BY <2>3, <2>4, TabHistory
<1>2. ASSUME NEW t \in Tabs, NEW w \in Workers, Send(t, w) PROVE HistoryInv' BY <1>2, SendHistory
<1>3. ASSUME NEW w \in Workers, Handle(w) PROVE HistoryInv' BY <1>0, <1>3, HandleHistory
<1>4. ASSUME NEW w \in Workers, Fail(w) PROVE HistoryInv' BY <1>4, FailHistory
<1>5. CASE UNCHANGED vars
  <2>1. UNCHANGED <<log, hidden, gone, astray, canon, checkpoint, floor, req, doc, cursor>>
    BY <1>5 DEF vars, room, meta, tabs
  <2>2. Grown(doc, doc') BY <2>1 DEF Grown
  <2> QED BY <2>1, <2>2, TabHistory
<1> QED BY <1>1, <1>2, <1>3, <1>4, <1>5 DEF Next

(* No stamp, no cursor and no trim is ahead of what it stands for.         *)
THEOREM History == Spec => []LogInv
<1>1. Init => LogInv BY InitBase, InitHistory DEF LogInv, HistoryInv
<1>2. LogInv /\ [Next]_vars => LogInv' BY StepBase, StepHistory DEF LogInv, HistoryInv
<1> QED BY <1>1, <1>2, PTL DEF Spec

(* A tab has every committed row up to its cursor, the trimmed ones        *)
(* included, but for what the rows that went astray held.                  *)
THEOREM NoGaps ==
  Spec => [](\A t \in Tabs : Held((1..cursor[t]) \ hidden) \subseteq doc[t] \cup Held(astray))
<1>1. LogInv => \A t \in Tabs : Held((1..cursor[t]) \ hidden) \subseteq doc[t] \cup Held(astray)
  <2> SUFFICES ASSUME LogInv, NEW t \in Tabs, NEW i \in (1..cursor[t]) \ hidden, NEW x \in log[i].items
               PROVE  x \in doc[t] \cup Lost
    BY DEF Held, Lost
  <2>1. DOMAIN log = 1..Len(log) /\ Len(log) \in Nat /\ cursor[t] <= Len(log) /\ cursor[t] \in Nat
    BY LogType DEF LogInv, BaseInv, TabOK, TabTypes
  <2>2. i \in DOMAIN Claims /\ i <= cursor[t] /\ Claims[i] = log[i].items \ Lost
    BY <2>1, ClaimsAre DEF LogInv
  <2>3. Claims[i] \subseteq doc[t] BY <2>2 DEF LogInv, LoadInv, Knows
  <2> QED BY <2>2, <2>3
<1> QED BY <1>1, History, PTL
(***************************************************************************)
(* What was merged is stored: in a committed row, trimmed or not, or in    *)
(* what a request has still to store.                                      *)
(***************************************************************************)
Committed == DOMAIN log \ hidden
Stored    == Held(Committed)

Rest(r, l) ==
  (IF Appending(r) THEN UNION Range(r.diffs) ELSE {}) \cup (IF r.pc = "commit" THEN l[r.own].items ELSE {})

StoredOK(r, l, v) ==
  /\ r.pc \in {"rows", "replay"} => r.doc \subseteq v
  /\ r.doc \subseteq v \cup Rest(r, l)
  /\ \A k \in DOMAIN r.verdicts : r.verdicts[k] # "resync-required" => r.batch[k] \subseteq v \cup r.doc
  /\ r.pc = "replay" => \A k \in DOMAIN r.diffs : r.batch[k] \subseteq v \cup UNION Range(r.diffs)
  /\ r.pc = "born" => Genesis \in v
  /\ r.pc = "commit" /\ r.then = "born" => l[r.own].items = {Genesis}

StoreInv ==
  /\ canon.items \subseteq Stored /\ acked \subseteq Stored
  /\ \A w \in Workers : StoredOK(req[w], log, Stored)

RoomInv == LogInv /\ StoreInv

(* What a request stands for stays stored while the log grows.             *)
LEMMA StoredStays ==
  ASSUME NEW r, NEW l, NEW k, NEW v, NEW u, StoredOK(r, l, v), v \subseteq u,
         r.pc = "commit" => k[r.own] = l[r.own]
  PROVE  StoredOK(r, k, u)
<1>1. Rest(r, k) = Rest(r, l) BY DEF Rest
<1> QED BY <1>1 DEF StoredOK

(* The rows stay where they are and stay committed.                        *)
LogGrows ==
  /\ gone \subseteq gone'
  /\ \A i \in 1..Len(log) : log'[i] = log[i]
  /\ Stored \subseteq Stored'

(* What loads and rebuilds read is stored.                                 *)
LEMMA VisibleRows ==
  ASSUME BaseInv
  PROVE  /\ \A n : Held(RowsAfter(n)) \subseteq Stored
         /\ gone = {} => Held(RowsAfter(0)) = Stored
         /\ Stored \in SUBSET Items
<1>1. RowsAfter(0) = Visible BY VisibleType, LogType
<1>2. \A n : RowsAfter(n) \subseteq Committed BY DEF RowsAfter, Visible, Committed
<1>3. \A n : Held(RowsAfter(n)) \subseteq Held(Committed) BY <1>2 DEF Held
<1>4. Held(Committed) \in SUBSET Items
  <2>1. Committed \in SUBSET DOMAIN log BY DEF Committed
  <2> QED BY <2>1, HeldType
<1>5. gone = {} => Visible = Committed BY DEF Visible, Committed
<1> QED BY <1>1, <1>3, <1>4, <1>5 DEF Stored

(* Rows may become visible.                                                *)
LEMMA SameLogGrows ==
  ASSUME UNCHANGED <<log, gone>>, hidden' \subseteq hidden PROVE LogGrows
<1>1. Committed \subseteq Committed' BY DEF Committed
<1> QED BY <1>1 DEF LogGrows, Stored, Held

(* A stored row, visible at once if rows come in order.                    *)
LEMMA AddedRowGrows ==
  ASSUME BaseInv, NEW w \in Workers, NEW r, NEW row, Stores(w, r, row)
  PROVE  /\ LogGrows
         /\ log'[r.own] = row
         /\ InOrder => row.items \subseteq Stored'
<1>1. /\ row \in Row /\ log' = Append(log, row) /\ gone' = gone /\ r.own = Len(log) + 1
      /\ hidden' = IF LateRows THEN hidden \cup {Len(log) + 1} ELSE hidden
  BY DEF Stores
<1>2. log \in Seq(Row) /\ Len(log) \in Nat /\ DOMAIN log = 1..Len(log) /\ gone \subseteq DOMAIN log
      /\ hidden \subseteq DOMAIN log
  BY LogType DEF BaseInv, StoreOK
<1> DEFINE k == log'
           n == Len(log) + 1
<1>3. DOMAIN k = (DOMAIN log) \cup {n} /\ n \notin DOMAIN log /\ k[n] = row
      /\ \A i \in 1..Len(log) : k[i] = log[i]
  BY <1>1, <1>2
<1>4. n = Len(log) + 1 /\ hidden' = (IF LateRows THEN hidden \cup {n} ELSE hidden) BY <1>1
<1> HIDE DEF k, n
<1>5. Committed' = DOMAIN k \ hidden' BY DEF Committed, k
<1>6. Committed \subseteq Committed' BY <1>3, <1>4, <1>5 DEF Committed
<1>7. Stored' = UNION {k[i].items : i \in Committed'} BY DEF Stored, Held, k
<1>8. Stored \subseteq Stored'
  <2>1. \A i \in Committed : k[i] = log[i] /\ i \in Committed' BY <1>2, <1>3, <1>6 DEF Committed
  <2> QED BY <2>1, <1>7 DEF Stored, Held
<1>9. InOrder => row.items \subseteq Stored'
  <2>1. InOrder => n \in Committed' BY <1>2, <1>3, <1>4, <1>5 DEF InOrder
  <2> QED BY <2>1, <1>3, <1>7
<1>10. r.own = n BY <1>1, <1>4
<1> QED BY <1>1, <1>3, <1>8, <1>9, <1>10 DEF LogGrows, k

(* A step of one request that keeps the others' rows.                      *)
LEMMA StoreLane ==
  ASSUME RoomInv, LogGrows, NEW w \in Workers, NEW r, req' = [req EXCEPT ![w] = r],
         canon'.items \subseteq Stored', acked' \subseteq Stored', StoredOK(r, log', Stored')
  PROVE  StoreInv'
<1>2. Stored \subseteq Stored' BY DEF LogGrows
<1>3. \A u \in Workers : StoredOK(req[u], log, Stored) BY DEF RoomInv, StoreInv
<1>4. \A u \in Workers : req'[u] = IF u = w THEN r ELSE req[u] BY DEF RoomInv, LogInv, BaseInv
<1>5. \A u \in Workers : req[u].pc = "commit" => log'[req[u].own] = log[req[u].own]
  <2> TAKE u \in Workers
  <2>1. RequestOK(req[u], Len(log), doc) /\ req[u] \in Requests BY RequestIs DEF RoomInv, LogInv
  <2>2. req[u].pc = "commit" => req[u].own \in 1..Len(log)
    BY <2>1, LogType DEF RequestOK, Requests, RoomInv, LogInv
  <2> QED BY <2>2 DEF LogGrows
<1> DEFINE v == Stored
           x == Stored'
           l == log
           k == log'
<1>6. /\ \A u \in Workers : StoredOK(req[u], l, v) /\ v \subseteq x
      /\ \A u \in Workers : req[u].pc = "commit" => k[req[u].own] = l[req[u].own]
  BY <1>2, <1>3, <1>5
<1> HIDE DEF v, x, l, k
<1>7. \A u \in Workers : StoredOK(req[u], k, x)
  <2> TAKE u \in Workers
  <2> DEFINE q == req[u]
  <2>1. StoredOK(q, l, v) /\ v \subseteq x /\ (q.pc = "commit" => k[q.own] = l[q.own])
    BY <1>6
  <2> HIDE DEF q
  <2>2. StoredOK(q, k, x) BY <2>1, StoredStays
  <2> QED BY <2>2 DEF q
<1>8. \A u \in Workers : StoredOK(req'[u], log', Stored') BY <1>4, <1>7 DEF x, k
<1> QED BY <1>8 DEF StoreInv

(* A step that leaves the canonical document and the answers alone.        *)
LEMMA StoreSame ==
  ASSUME RoomInv, LogGrows, NEW w \in Workers, NEW r, req' = [req EXCEPT ![w] = r],
         canon' = canon, acked' = acked, StoredOK(r, log', Stored')
  PROVE  StoreInv'
<1>1. Stored \subseteq Stored' BY DEF LogGrows
<1>2. canon'.items \subseteq Stored' /\ acked' \subseteq Stored'
  BY <1>1 DEF RoomInv, StoreInv
<1> QED BY <1>2, StoreLane

(* A request that goes on past its rows.                                   *)
LEMMA StoredMoves ==
  ASSUME NEW q, NEW r, NEW l, NEW v, StoredOK(q, l, v), Moved(q, r), q.pc # "commit", q.pc # "append",
         r.pc \notin {"rows", "replay", "commit", "append"}, r.pc = "born" => q.pc = "born"
  PROVE  StoredOK(r, l, v) /\ q.doc \subseteq v
<1>1. Rest(q, l) = {} /\ Rest(r, l) = {} BY DEF Rest, Appending
<1> QED BY <1>1 DEF StoredOK, Moved, SameTab

(* An idle request stands for nothing.                                     *)
LEMMA IdleStored == ASSUME NEW l, NEW v PROVE StoredOK(Idle, l, v)
<1>1. Idle.pc = "idle" /\ Idle.doc = {} /\ DOMAIN Idle.verdicts = {} BY DEF Idle
<1> QED BY <1>1 DEF StoredOK

(* The updates a batch merges are in the document.                         *)
LEMMA MergeRestTakes ==
  ASSUME BaseInv, NEW r, r.tab \in Tabs, RequestOK(r, Len(log), doc), r.pc = "replay",
         NEW replayed \in SUBSET Items
  PROVE  LET m == MergeRest(replayed, r) IN
         /\ replayed \cup UNION Range(r.diffs) \subseteq m.doc
         /\ \A k \in m.taken : k \in DOMAIN r.diffs \/ r.batch[k] \subseteq m.doc
<1> DEFINE n == Len(r.diffs)
           b == r.batch
           rest == SubSeq(b, n + 1, Len(b))
           start == replayed \cup UNION Range(r.diffs)
           m == Merge(start, rest)
           x == MergeRest(replayed, r)
<1>1. /\ b \in Seq(SUBSET Items) /\ r.diffs \in Seq(SUBSET Items) /\ n <= Len(b)
      /\ n \in Nat /\ DOMAIN r.diffs = 1..n /\ Len(b) \in Nat
  BY DEF RequestOK, Requests
<1>2. start \in SUBSET Items BY <1>1 DEF Range
<1>3. x = [doc |-> m.doc, diffs |-> r.diffs \o m.diffs, taken |-> (1..n) \cup {n + k : k \in m.taken}]
  BY Zenon DEF MergeRest
<1> HIDE DEF n, b
<1>4. /\ rest \in Seq(SUBSET Items) /\ Len(rest) = Len(b) - n
      /\ \A k \in 1..(Len(b) - n) : n + k \in 1..Len(b) /\ rest[k] = b[n + k]
  <2>1. n \in 0..Len(b) BY <1>1
  <2> QED BY <1>1, <2>1, RestOf, Zenon
<1> HIDE DEF start, rest
<1>5. /\ Merged(m, start, Len(rest)) /\ \A k \in m.taken : rest[k] \subseteq m.doc
  BY <1>2, <1>4, MergeLosesNothing, Zenon
<1>6. start \subseteq m.doc /\ m.taken \subseteq 1..Len(rest) BY <1>5 DEF Merged
<1> HIDE DEF m, x
<1>7. x.doc = m.doc /\ x.taken = (1..n) \cup {n + k : k \in m.taken} BY <1>3
<1>8. \A k \in x.taken : k \in DOMAIN r.diffs \/ b[k] \subseteq x.doc
  <2> TAKE k \in x.taken
  <2>1. CASE k \in 1..n BY <2>1, <1>1
  <2>2. CASE k \notin 1..n
    <3>1. PICK j \in m.taken : k = n + j BY <2>2, <1>7
    <3>2. j \in 1..(Len(b) - n) BY <3>1, <1>4, <1>6
    <3>3. b[k] = rest[j] BY <3>1, <3>2, <1>4
    <3> QED BY <3>3, <1>5, <1>7
  <2> QED BY <2>1, <2>2
<1>9. replayed \cup UNION Range(r.diffs) \subseteq x.doc BY <1>6, <1>7 DEF start
<1> QED BY <1>8, <1>9 DEF x, b

(* A merged document is what it started from and what is to be stored.     *)
LEMMA MergedIsKept ==
  ASSUME NEW m, NEW start, NEW size \in Nat, Merged(m, start, size)
  PROVE  m.doc \subseteq start \cup UNION Range(Kept(m.diffs, m.taken))
<1>1. m.diffs \in Seq(SUBSET Items) /\ m.taken \in SUBSET (1..Len(m.diffs))
      /\ m.doc \subseteq start \cup UNION {m.diffs[k] : k \in m.taken}
  BY DEF Merged
<1> DEFINE s == m.diffs
           K == m.taken
           q == Kept(s, K)
<1>2. s \in Seq(SUBSET Items) /\ K \in SUBSET (1..Len(s)) BY <1>1
<1> HIDE DEF s, K
<1>3. q \in Seq(SUBSET Items) /\ \A k \in K : \E j \in 1..Len(q) : q[j] = s[k] BY <1>2, KeptAre
<1> HIDE DEF q
<1>4. \A k \in K : s[k] \subseteq UNION Range(q)
  <2> TAKE k \in K
  <2>1. PICK j \in 1..Len(q) : q[j] = s[k] BY <1>3
  <2> QED BY <2>1, <1>3 DEF Range
<1>5. UNION {s[k] : k \in K} \subseteq UNION Range(q) BY <1>4
<1> QED BY <1>1, <1>5 DEF s, K, q

(* A step that leaves the room alone.                                      *)
LEMMA QuietGrows == ASSUME Unchanging PROVE LogGrows
<1>1. UNCHANGED <<log, gone>> /\ hidden' \subseteq hidden BY DEF Unchanging, room
<1> QED BY <1>1, SameLogGrows

(* What such a step leaves unchanged.                                      *)
LEMMA QuietSame ==
  ASSUME Unchanging
  PROVE  /\ UNCHANGED <<log, hidden, gone, canon, checkpoint, floor, doc, queue, cursor, needs, acked>>
         /\ Stored' = Stored
<1>1. UNCHANGED <<log, hidden, gone, canon, checkpoint, floor, doc, queue, cursor, needs, acked>>
  BY DEF Unchanging, room, meta, tabs
<1>2. Committed' = Committed BY <1>1 DEF Committed
<1> QED BY <1>1, <1>2 DEF Stored, Held

(* The canonical is stored.                                                *)
LEMMA LoadMetaStored ==
  ASSUME RoomInv, NEW w \in Workers, LoadMeta(w) PROVE StoreInv'
<1>1. PICK r : /\ req[w].pc = "meta" /\ req' = [req EXCEPT ![w] = r] /\ Unchanging
               /\ r.pc = "rows" /\ r.doc = canon.items /\ r.stamp = canon.cursor
               /\ SameTab(req[w], r) /\ r.diffs = req[w].diffs /\ r.verdicts = req[w].verdicts
  BY LoadMetaIs DEF RoomInv, LogInv
<1>2. DOMAIN req[w].verdicts = {}
  <2>1. RequestOK(req[w], Len(log), doc) BY RequestIs DEF RoomInv, LogInv
  <2> QED BY <2>1, <1>1 DEF RequestOK, Unmerged
<1>3. StoredOK(r, log, Stored) BY <1>1, <1>2 DEF StoredOK, RoomInv, StoreInv
<1>4. canon' = canon /\ acked' = acked /\ log' = log /\ Stored' = Stored BY <1>1, QuietSame
<1> QED BY <1>1, <1>3, <1>4, QuietGrows, StoreSame

(* What the batch adds to what was loaded is still to be stored.           *)
LEMMA LoadRowsStored ==
  ASSUME RoomInv, NEW w \in Workers, LoadRows(w) PROVE StoreInv'
<1> DEFINE s == LoadedBy(w)
           b == req[w].batch
           m == Merge(s, b)
<1>1. PICK r : /\ req[w].pc = "rows" /\ req' = [req EXCEPT ![w] = r] /\ Unchanging
               /\ r.batch = b /\ (LoadSettles(w, r, m) \/ LoadReplays(w, r, m))
  BY LoadRowsIs DEF RoomInv, LogInv
<1>2. canon' = canon /\ acked' = acked /\ log' = log /\ Stored' = Stored BY <1>1, QuietSame
<1>3. req[w] \in Requests BY RequestIs DEF RoomInv, LogInv
<1>4. s \in SUBSET Items /\ b \in Seq(SUBSET Items)
  BY <1>3, HeldType, RowsAfterType DEF Requests, LoadedBy, RoomInv, LogInv
<1>5. s \subseteq Stored /\ req[w].doc \subseteq Stored
  <2>1. req[w].doc \subseteq Stored BY <1>1 DEF RoomInv, StoreInv, StoredOK
  <2> QED BY <2>1, VisibleRows DEF LoadedBy, RoomInv, LogInv
<1> HIDE DEF s, b
<1>6. Merged(m, s, Len(b)) /\ \A k \in m.taken : b[k] \subseteq m.doc
  BY <1>4, MergeLosesNothing, Zenon
<1>7. m.doc \subseteq s \cup UNION Range(Kept(m.diffs, m.taken)) BY <1>4, <1>6, MergedIsKept
<1>8. InTurn(m, s, b) BY <1>4, MergeInTurn, Zenon
<1>9. Len(b) \in Nat BY <1>4
<1> HIDE DEF m
<1>10. CASE LoadSettles(w, r, m)
  <2>1. /\ r.pc = (IF m.doc # s THEN "append" ELSE "read") /\ r.doc = m.doc
        /\ r.diffs = Kept(m.diffs, m.taken) /\ m.taken = 1..Len(b) /\ DOMAIN r.verdicts = 1..Len(b)
    BY <1>10 DEF LoadSettles, s, b
  <2>2. \A k \in DOMAIN r.verdicts : r.batch[k] \subseteq r.doc BY <1>1, <1>6, <2>1
  <2>3. r.doc \subseteq Stored \cup Rest(r, log)
    <3>1. CASE m.doc = s BY <3>1, <1>5, <2>1
    <3>2. CASE m.doc # s
      <4>1. Appending(r) BY <3>2, <2>1 DEF Appending
      <4> QED BY <4>1, <1>5, <1>7, <2>1 DEF Rest
    <3> QED BY <3>1, <3>2
  <2>4. StoredOK(r, log, Stored) BY <2>1, <2>2, <2>3 DEF StoredOK
  <2> QED BY <1>1, <1>2, <2>4, QuietGrows, StoreSame
<1>11. CASE LoadReplays(w, r, m)
  <2>1. /\ r.pc = "replay" /\ r.doc = req[w].doc /\ r.verdicts = <<>>
        /\ r.diffs \in Seq(SUBSET Items) /\ Len(r.diffs) <= Len(b)
        /\ 1..Len(r.diffs) \subseteq m.taken
        /\ \A k \in 1..Len(r.diffs) : r.diffs[k] = m.diffs[k]
    BY <1>11 DEF LoadReplays, b
  <2> DEFINE n == Len(r.diffs)
             U == UNION Range(r.diffs)
  <2>2. n \in 0..Len(b) /\ DOMAIN r.diffs = 1..n BY <2>1, <1>9
  <2>3. \A k \in 1..n : m.diffs[k] \subseteq U BY <2>1, <2>2 DEF Range
  <2> HIDE DEF n, U
  <2>4. \A k \in 1..n : b[k] \subseteq s \cup U
    <3> TAKE k \in 1..n
    <3>1. b[k] \subseteq s \cup UpToHere(m.diffs, k) BY <1>8, <2>1, <2>2 DEF InTurn, n
    <3>2. \A j \in 1..k : j \in 1..n BY <2>2
    <3>3. UpToHere(m.diffs, k) \subseteq U BY <2>3, <3>2 DEF UpToHere
    <3> QED BY <3>1, <3>3
  <2>5. \A k \in DOMAIN r.diffs : r.batch[k] \subseteq Stored \cup UNION Range(r.diffs)
    BY <1>1, <1>5, <2>2, <2>4 DEF U
  <2>6. DOMAIN r.verdicts = {} BY <2>1
  <2>7. StoredOK(r, log, Stored) BY <1>5, <2>1, <2>5, <2>6 DEF StoredOK
  <2> QED BY <1>1, <1>2, <2>7, QuietGrows, StoreSame
<1> QED BY <1>1, <1>10, <1>11

(* The same of a rebuild, which keeps what was accepted before it.         *)
LEMMA ReplayStored ==
  ASSUME RoomInv, NEW w \in Workers, Replay(w) PROVE StoreInv'
<1> DEFINE m == ReplayedBy(w)
           V == Held(RowsAfter(0))
           q == req[w]
           b == q.batch
<1>1. PICK r : /\ q.pc = "replay" /\ req' = [req EXCEPT ![w] = r] /\ Unchanging
               /\ SameTab(q, r)
               /\ r.pc = (IF m.doc # V THEN "append" ELSE "resave")
               /\ r.doc = m.doc /\ r.diffs = Kept(m.diffs, m.taken) /\ Merged(m, V, Len(b))
               /\ DOMAIN r.verdicts = 1..Len(b)
               /\ \A k \in 1..Len(b) : r.verdicts[k] # "resync-required" <=> k \in m.taken
  BY ReplayIs DEF RoomInv, LogInv
<1>2. canon' = canon /\ acked' = acked /\ log' = log /\ Stored' = Stored BY <1>1, QuietSame
<1>3. V \subseteq Stored /\ V \in SUBSET Items BY VisibleRows DEF RoomInv, LogInv
<1>4. q \in Requests /\ RequestOK(q, Len(log), doc) /\ q.tab \in Tabs
  <2>1. q \in Requests /\ RequestOK(q, Len(log), doc) BY RequestIs DEF RoomInv, LogInv
  <2> QED BY <1>1, <2>1 DEF RequestOK
<1>5. Len(b) \in Nat BY <1>4 DEF Requests
<1>6. \A k \in DOMAIN q.diffs : b[k] \subseteq Stored \cup UNION Range(q.diffs)
  BY <1>1 DEF RoomInv, StoreInv, StoredOK
<1>7. /\ V \cup UNION Range(q.diffs) \subseteq m.doc
      /\ \A k \in m.taken : k \in DOMAIN q.diffs \/ b[k] \subseteq m.doc
  <2>1. BaseInv BY DEF RoomInv, LogInv
  <2>2. m = MergeRest(V, q) BY DEF ReplayedBy
  <2> HIDE DEF m, V, q
  <2>3. /\ V \cup UNION Range(q.diffs) \subseteq MergeRest(V, q).doc
        /\ \A k \in MergeRest(V, q).taken : k \in DOMAIN q.diffs \/ q.batch[k] \subseteq MergeRest(V, q).doc
    BY <1>1, <1>3, <1>4, <2>1, MergeRestTakes, Zenon
  <2> QED BY <2>2, <2>3
<1> HIDE DEF m, V, q, b
<1>8. m.doc \subseteq V \cup UNION Range(Kept(m.diffs, m.taken)) BY <1>1, <1>5, MergedIsKept
<1>9. \A k \in DOMAIN r.verdicts : r.verdicts[k] # "resync-required" => r.batch[k] \subseteq Stored \cup r.doc
  <2> SUFFICES ASSUME NEW k \in DOMAIN r.verdicts, r.verdicts[k] # "resync-required"
               PROVE  b[k] \subseteq Stored \cup m.doc
    BY <1>1 DEF SameTab, b
  <2>1. k \in m.taken BY <1>1
  <2> QED BY <2>1, <1>3, <1>6, <1>7
<1>10. r.doc \subseteq Stored \cup Rest(r, log)
  <2>1. CASE m.doc = V BY <2>1, <1>1, <1>3
  <2>2. CASE m.doc # V
    <3>1. Appending(r) BY <2>2, <1>1 DEF Appending
    <3> QED BY <3>1, <1>1, <1>3, <1>8 DEF Rest
  <2> QED BY <2>1, <2>2
<1>11. StoredOK(r, log, Stored) BY <1>1, <1>9, <1>10 DEF StoredOK
<1> QED BY <1>1, <1>2, <1>11, QuietGrows, StoreSame

(* One of the rows to be stored is in hand or in the log.                  *)
LEMMA StoreRowStored ==
  ASSUME RoomInv, NEW w \in Workers, StoreRow(w) PROVE StoreInv'
<1> DEFINE s == req[w].diffs
           then == IF Len(s) = 1 THEN "save" ELSE "append"
<1>1. PICK r, row : /\ req[w].pc = "append" /\ s \in Seq(SUBSET Items) /\ s # <<>>
                    /\ Stores(w, r, row) /\ row.items = Head(s) /\ r.diffs = Tail(s) /\ NextPc(r, then)
  BY StoreRowIs DEF RoomInv, LogInv
<1>2. /\ LogGrows /\ log'[r.own] = row /\ (InOrder => row.items \subseteq Stored')
  BY <1>1, AddedRowGrows DEF RoomInv, LogInv
<1>3. /\ req' = [req EXCEPT ![w] = r] /\ SameTab(req[w], r) /\ r.doc = req[w].doc
      /\ r.verdicts = req[w].verdicts /\ canon' = canon /\ acked' = acked
  BY <1>1 DEF Stores, meta, tabs
<1>4. /\ req[w].doc \subseteq Stored \cup UNION Range(s)
      /\ \A k \in DOMAIN req[w].verdicts :
           req[w].verdicts[k] # "resync-required" => req[w].batch[k] \subseteq Stored \cup req[w].doc
  BY <1>1 DEF RoomInv, StoreInv, StoredOK, Rest, Appending
<1> HIDE DEF s
<1>5. UNION Range(s) \subseteq Head(s) \cup UNION Range(Tail(s))
  <2> SUFFICES ASSUME NEW k \in DOMAIN s PROVE s[k] \subseteq Head(s) \cup UNION Range(Tail(s))
    BY DEF Range
  <2> DEFINE t == Tail(s)
  <2>1. /\ Head(s) = s[1] /\ (\A j \in DOMAIN t : t[j] = s[j + 1])
        /\ (k # 1 => k - 1 \in DOMAIN t /\ k = (k - 1) + 1)
    BY <1>1, TailOf
  <2> HIDE DEF t
  <2>2. CASE k = 1 BY <2>1, <2>2
  <2>3. CASE k # 1
    <3>1. t[k - 1] = s[k] BY <2>1, <2>3
    <3>2. s[k] \subseteq UNION Range(t) BY <2>1, <2>3, <3>1 DEF Range
    <3> QED BY <3>2 DEF t
  <2> QED BY <2>2, <2>3
<1>6. then = "save" => UNION Range(Tail(s)) = {}
  <2>1. then = "save" => Tail(s) = <<>> BY <1>1, TailOf
  <2> QED BY <2>1 DEF Range
<1>7. then \in {"save", "append"} OBVIOUS
<1> DEFINE T == UNION Range(Tail(s))
<1> HIDE DEF then, T
<1>8. /\ r.pc = (IF LateRows THEN "commit" ELSE then) /\ r.then = (IF LateRows THEN then ELSE "idle")
      /\ UNION Range(r.diffs) = T
  BY <1>1 DEF NextPc, T
<1>9. /\ UNION Range(s) \subseteq row.items \cup T /\ (then = "save" => T = {})
  BY <1>1, <1>5, <1>6 DEF T
<1>10. r.doc \subseteq Stored' \cup Rest(r, log')
  <2> SUFFICES req[w].doc \subseteq Stored' \cup Rest(r, log') BY <1>3
  <2>1. req[w].doc \subseteq Stored' \cup row.items \cup T BY <1>2, <1>4, <1>9 DEF LogGrows
  <2>2. CASE LateRows
    <3>1. r.pc = "commit" /\ r.then = then BY <1>8, <2>2
    <3>2. row.items \subseteq Rest(r, log') BY <3>1, <1>2 DEF Rest
    <3>3. T \subseteq Rest(r, log')
      <4>1. CASE then = "append" BY <4>1, <3>1, <1>8 DEF Rest, Appending
      <4>2. CASE then = "save" BY <4>2, <1>9
      <4> QED BY <4>1, <4>2, <1>7
    <3> QED BY <2>1, <3>2, <3>3
  <2>3. CASE ~LateRows
    <3>1. r.pc = then /\ row.items \subseteq Stored' BY <1>2, <1>8, <2>3 DEF InOrder
    <3>2. T \subseteq Rest(r, log')
      <4>1. CASE then = "append" BY <4>1, <3>1, <1>8 DEF Rest, Appending
      <4>2. CASE then = "save" BY <4>2, <1>9
      <4> QED BY <4>1, <4>2, <1>7
    <3> QED BY <2>1, <3>1, <3>2
  <2> QED BY <2>2, <2>3
<1>11. StoredOK(r, log', Stored')
  BY <1>2, <1>3, <1>4, <1>7, <1>8, <1>10 DEF StoredOK, SameTab, LogGrows
<1> QED BY <1>2, <1>3, <1>11, StoreSame

(* A snapshot adds nothing.                                                *)
LEMMA StoreSnapshotStored ==
  ASSUME RoomInv, NEW w \in Workers, StoreSnapshot(w) PROVE StoreInv'
<1>1. PICK r, row : /\ req[w].pc = "snapshot" /\ Stores(w, r, row) /\ row.items = req[w].doc
                    /\ r.diffs = req[w].diffs /\ NextPc(r, "stamp")
  BY StoreSnapshotIs DEF RoomInv, LogInv
<1>2. LogGrows BY <1>1, AddedRowGrows DEF RoomInv, LogInv
<1>3. /\ req' = [req EXCEPT ![w] = r] /\ SameTab(req[w], r) /\ r.doc = req[w].doc
      /\ r.verdicts = req[w].verdicts /\ canon' = canon /\ acked' = acked
  BY <1>1 DEF Stores, meta, tabs
<1>4. /\ req[w].doc \subseteq Stored
      /\ \A k \in DOMAIN req[w].verdicts :
           req[w].verdicts[k] # "resync-required" => req[w].batch[k] \subseteq Stored \cup req[w].doc
  BY <1>1 DEF RoomInv, StoreInv, StoredOK, Rest, Appending
<1>5. r.pc \in {"commit", "stamp"} /\ r.then \in {"stamp", "idle"} BY <1>1 DEF NextPc
<1>6. StoredOK(r, log', Stored') BY <1>2, <1>3, <1>4, <1>5 DEF StoredOK, SameTab, LogGrows
<1> QED BY <1>2, <1>3, <1>6, StoreSame

(* A genesis is in hand or in the log.                                     *)
LEMMA StoreGenesisStored ==
  ASSUME RoomInv, NEW w \in Workers, StoreGenesis(w) PROVE StoreInv'
<1>1. PICK r, row : /\ req[w].pc = "birth" /\ Stores(w, r, row) /\ row.items = {Genesis}
                    /\ r.diffs = req[w].diffs /\ NextPc(r, "born")
  BY StoreGenesisIs DEF RoomInv, LogInv
<1>2. /\ LogGrows /\ log'[r.own] = row /\ (InOrder => row.items \subseteq Stored')
  BY <1>1, AddedRowGrows DEF RoomInv, LogInv
<1>3. /\ req' = [req EXCEPT ![w] = r] /\ SameTab(req[w], r) /\ r.doc = req[w].doc
      /\ r.verdicts = req[w].verdicts /\ canon' = canon /\ acked' = acked
  BY <1>1 DEF Stores, meta, tabs
<1>4. /\ req[w].doc \subseteq Stored
      /\ \A k \in DOMAIN req[w].verdicts :
           req[w].verdicts[k] # "resync-required" => req[w].batch[k] \subseteq Stored \cup req[w].doc
  BY <1>1 DEF RoomInv, StoreInv, StoredOK, Rest, Appending
<1>5. r.pc \in {"commit", "born"} /\ (r.pc = "born" => InOrder) BY <1>1 DEF NextPc, InOrder
<1>6. r.pc = "born" => Genesis \in Stored' BY <1>1, <1>2, <1>5
<1>7. log'[r.own].items = {Genesis} BY <1>1, <1>2
<1>8. StoredOK(r, log', Stored')
  BY <1>2, <1>3, <1>4, <1>5, <1>6, <1>7 DEF StoredOK, SameTab, LogGrows
<1> QED BY <1>2, <1>3, <1>8, StoreSame

(* A row that becomes visible is stored.                                   *)
LEMMA CommitStored ==
  ASSUME RoomInv, NEW w \in Workers, Commit(w) PROVE StoreInv'
<1> DEFINE q == req[w]
<1>1. PICK r : /\ q.pc = "commit" /\ req' = [req EXCEPT ![w] = r] /\ r.pc = q.then
               /\ hidden' = hidden \ {q.own} /\ UNCHANGED <<log, gone, meta, tabs, faults>>
               /\ SameTab(q, r) /\ r.doc = q.doc /\ r.stamp = q.stamp
               /\ r.own = q.own /\ r.prev = q.prev
               /\ r.diffs = q.diffs /\ r.verdicts = q.verdicts /\ r.then = "idle"
  BY CommitIs DEF RoomInv, LogInv
<1>2. LogGrows
  <2>1. UNCHANGED <<log, gone>> /\ hidden' \subseteq hidden BY <1>1
  <2> QED BY <2>1, SameLogGrows
<1>3. canon' = canon /\ acked' = acked /\ log' = log /\ gone' = gone BY <1>1 DEF meta, tabs
<1>4. q \in Requests /\ RequestOK(q, Len(log), doc) BY RequestIs DEF RoomInv, LogInv
<1>5. q.then \in {"append", "save", "stamp", "born"} /\ LateRows /\ q.own \in DOMAIN log
  BY <1>1, <1>4, LogType DEF RequestOK, Requests, RoomInv, LogInv
<1>6. log[q.own].items \subseteq Stored'
  <2>1. q.own \in Committed' BY <1>1, <1>3, <1>5 DEF Committed
  <2> QED BY <2>1, <1>3 DEF Stored, Held
<1>7. StoredOK(q, log, Stored) BY DEF RoomInv, StoreInv
<1> HIDE DEF q
<1> DEFINE A == IF q.then = "append" THEN UNION Range(q.diffs) ELSE {}
<1>8. /\ q.doc \subseteq Stored \cup A \cup log[q.own].items
      /\ (\A k \in DOMAIN q.verdicts : q.verdicts[k] # "resync-required" => q.batch[k] \subseteq Stored \cup q.doc)
      /\ (q.then = "born" => log[q.own].items = {Genesis})
  BY <1>1, <1>7 DEF StoredOK, Rest, Appending
<1>9. Rest(r, log) = A BY <1>1, <1>5 DEF Rest, Appending
<1> HIDE DEF A
<1>10. r.doc \subseteq Stored' \cup Rest(r, log)
  BY <1>1, <1>2, <1>6, <1>8, <1>9 DEF LogGrows
<1>11. StoredOK(r, log, Stored')
  BY <1>1, <1>2, <1>5, <1>6, <1>8, <1>10 DEF StoredOK, SameTab, LogGrows
<1> QED BY <1>1, <1>2, <1>3, <1>11, StoreSame

(* A canonical is saved after its rows were stored.                        *)
LEMMA SaveCanonicalStored ==
  ASSUME RoomInv, NEW w \in Workers, SaveCanonical(w) PROVE StoreInv'
<1> DEFINE pc == IF req[w].pc = "save" THEN "due" ELSE "read"
<1>1. /\ req[w].pc \in {"save", "resave"} /\ canon'.items = req[w].doc
      /\ UNCHANGED <<log, hidden, gone, acked>> /\ req' = [req EXCEPT ![w].pc = pc]
  <2>1. req' = [req EXCEPT ![w].pc = IF @ = "save" THEN "due" ELSE "read"] BY DEF SaveCanonical
  <2> QED BY <2>1 DEF SaveCanonical, RoomInv, LogInv, BaseInv, room, tabs
<1>2. pc \in {"due", "read"} OBVIOUS
<1> HIDE DEF pc
<1>3. PICK r : req' = [req EXCEPT ![w] = r] /\ r.pc = pc /\ Moved(req[w], r)
  BY <1>1, MovesOn DEF RoomInv, LogInv
<1>4. LogGrows
  <2>1. UNCHANGED <<log, gone>> /\ hidden' \subseteq hidden BY <1>1
  <2> QED BY <2>1, SameLogGrows
<1>5. Stored' = Stored
  <2>1. Committed' = Committed BY <1>1 DEF Committed
  <2> QED BY <1>1, <2>1 DEF Stored, Held
<1>6. StoredOK(req[w], log, Stored) /\ acked \subseteq Stored BY DEF RoomInv, StoreInv
<1>7. StoredOK(r, log, Stored) /\ req[w].doc \subseteq Stored
  BY <1>1, <1>2, <1>3, <1>6, StoredMoves
<1> QED BY <1>1, <1>3, <1>4, <1>5, <1>6, <1>7, StoreLane

(* What is folded into a checkpoint was read from the log.                 *)
LEMMA CheckpointDueStored ==
  ASSUME RoomInv, NEW w \in Workers, CheckpointDue(w) PROVE StoreInv'
<1>1. PICK r : /\ req[w].pc = "due" /\ req' = [req EXCEPT ![w] = r] /\ Unchanging
               /\ SameTab(req[w], r) /\ r.verdicts = req[w].verdicts /\ r.diffs = req[w].diffs
               /\ \/ /\ r.pc = "snapshot" /\ r.doc = req[w].doc \cup Held(RowsAfter(checkpoint))
                     /\ r.prev = checkpoint
                  \/ r.pc = "read" /\ r.doc = req[w].doc
  BY CheckpointDueIs DEF RoomInv, LogInv
<1>2. canon' = canon /\ acked' = acked /\ log' = log /\ Stored' = Stored BY <1>1, QuietSame
<1>3. /\ req[w].doc \subseteq Stored
      /\ \A k \in DOMAIN req[w].verdicts :
           req[w].verdicts[k] # "resync-required" => req[w].batch[k] \subseteq Stored \cup req[w].doc
  BY <1>1 DEF RoomInv, StoreInv, StoredOK, Rest, Appending
<1>4. Held(RowsAfter(checkpoint)) \subseteq Stored BY VisibleRows DEF RoomInv, LogInv
<1>5. req[w].doc \subseteq r.doc /\ (r.doc \subseteq Stored) /\ r.pc \in {"snapshot", "read"}
  BY <1>1, <1>3, <1>4
<1>6. StoredOK(r, log, Stored) BY <1>1, <1>3, <1>5 DEF StoredOK, SameTab
<1> QED BY <1>1, <1>2, <1>6, QuietGrows, StoreSame

(* The steps that only move a request on.                                  *)
LEMMA MovesStored ==
  ASSUME RoomInv, LogGrows, NEW w \in Workers, NEW pc, req' = [req EXCEPT ![w].pc = pc],
         log' = log, canon' = canon, acked' = acked, req[w].pc \notin {"commit", "append", "born"},
         pc \notin {"rows", "replay", "commit", "append", "born"}
  PROVE  StoreInv'
<1>1. PICK r : req' = [req EXCEPT ![w] = r] /\ r.pc = pc /\ Moved(req[w], r)
  BY MovesOn DEF RoomInv, LogInv
<1>2. StoredOK(req[w], log, Stored) BY DEF RoomInv, StoreInv
<1>3. StoredOK(r, log, Stored) BY <1>1, <1>2, StoredMoves
<1> DEFINE u == Stored
           v == Stored'
           l == log
<1>4. StoredOK(r, l, u) /\ u \subseteq v BY <1>3 DEF LogGrows
<1> HIDE DEF u, v, l
<1>5. StoredOK(r, l, v) BY <1>4, StoredStays
<1> QED BY <1>1, <1>5, StoreSame DEF v, l

(* A trimmed row was committed all the same.                               *)
LEMMA TrimGrows == ASSUME NEW w \in Workers, Trim(w) PROVE LogGrows
<1>1. UNCHANGED <<log, hidden>> /\ gone \subseteq gone' BY DEF Trim
<1>2. Committed' = Committed BY <1>1 DEF Committed
<1> QED BY <1>1, <1>2 DEF LogGrows, Stored, Held

(* The steps that write a meta value or trim.                              *)
LEMMA MetaStepsStored ==
  ASSUME RoomInv, NEW w \in Workers,
         StampCheckpoint(w) \/ Trim(w) \/ Initialize(w) \/ PaceGenesis(w)
  PROVE  StoreInv'
<1>1. CASE Trim(w)
  <2> DEFINE pc == "read"
  <2>1. req[w].pc = "trim" /\ req' = [req EXCEPT ![w].pc = pc] /\ UNCHANGED <<log, canon, acked>>
        /\ pc \in {"trim", "read"}
    BY <1>1 DEF Trim, tabs
  <2>2. LogGrows BY <1>1, TrimGrows
  <2> HIDE DEF pc
  <2> QED BY <2>1, <2>2, MovesStored
<1>2. ASSUME UNCHANGED <<log, hidden, gone>> PROVE LogGrows
  <2>1. UNCHANGED <<log, gone>> /\ hidden' \subseteq hidden BY <1>2
  <2> QED BY <2>1, SameLogGrows
<1>3. CASE StampCheckpoint(w)
  <2> DEFINE pc == IF req[w].prev > 0 THEN "trim" ELSE "read"
  <2>1. req[w].pc = "stamp" /\ req' = [req EXCEPT ![w].pc = pc]
        /\ UNCHANGED <<log, hidden, gone, canon, acked>>
    BY <1>3 DEF StampCheckpoint, room, tabs
  <2>2. pc \in {"trim", "read"} OBVIOUS
  <2> HIDE DEF pc
  <2> QED BY <2>1, <2>2, <1>2, MovesStored
<1>4. CASE Initialize(w)
  <2> DEFINE pc == "birth"
  <2>1. req[w].pc = "read" /\ req' = [req EXCEPT ![w].pc = pc] /\ pc \in {"read", "birth"}
        /\ UNCHANGED <<log, hidden, gone, canon, acked>>
    BY <1>4 DEF Initialize, room, meta, tabs
  <2> HIDE DEF pc
  <2> QED BY <2>1, <1>2, MovesStored
<1>5. CASE PaceGenesis(w)
  <2> DEFINE pc == "read"
  <2>1. req[w].pc = "pace" /\ req' = [req EXCEPT ![w].pc = pc] /\ pc \in {"read", "birth"}
        /\ UNCHANGED <<log, hidden, gone, canon, acked>>
    BY <1>5 DEF PaceGenesis, room, tabs
  <2> HIDE DEF pc
  <2> QED BY <2>1, <1>2, MovesStored
<1> QED BY <1>1, <1>3, <1>4, <1>5

(* The genesis is saved after its row was stored.                          *)
LEMMA SaveGenesisStored ==
  ASSUME RoomInv, NEW w \in Workers, SaveGenesis(w) PROVE StoreInv'
<1>1. req[w].pc = "born" /\ req' = [req EXCEPT ![w].pc = "pace"]
      /\ canon'.items = {Genesis} /\ UNCHANGED <<log, hidden, gone, acked>>
  BY DEF SaveGenesis, room, tabs
<1>2. PICK r : req' = [req EXCEPT ![w] = r] /\ r.pc = "pace" /\ Moved(req[w], r)
  BY <1>1, MovesOn DEF RoomInv, LogInv
<1>3. LogGrows
  <2>1. UNCHANGED <<log, gone>> /\ hidden' \subseteq hidden BY <1>1
  <2> QED BY <2>1, SameLogGrows
<1>4. Stored' = Stored
  <2>1. Committed' = Committed BY <1>1 DEF Committed
  <2> QED BY <1>1, <2>1 DEF Stored, Held
<1>5. StoredOK(req[w], log, Stored) /\ acked \subseteq Stored BY DEF RoomInv, StoreInv
<1>6. StoredOK(r, log, Stored) BY <1>1, <1>2, <1>5, StoredMoves
<1>7. Genesis \in Stored BY <1>1, <1>5 DEF StoredOK
<1> QED BY <1>1, <1>2, <1>3, <1>4, <1>5, <1>6, <1>7, StoreLane

(* What is acknowledged has been stored.                                   *)
LEMMA AnswerStored ==
  ASSUME RoomInv, NEW w \in Workers, Answer(w) PROVE StoreInv'
<1> DEFINE merged == {k \in DOMAIN req[w].verdicts : req[w].verdicts[k] # "resync-required"}
           A == UNION {req[w].batch[k] : k \in merged}
<1>1. /\ req[w].pc = "read" /\ req' = [req EXCEPT ![w] = Idle]
      /\ acked' \subseteq acked \cup A /\ UNCHANGED <<log, hidden, gone, canon>>
  BY DEF Answer, room, meta
<1>2. LogGrows
  <2>1. UNCHANGED <<log, gone>> /\ hidden' \subseteq hidden BY <1>1
  <2> QED BY <2>1, SameLogGrows
<1>3. Stored' = Stored
  <2>1. Committed' = Committed BY <1>1 DEF Committed
  <2> QED BY <1>1, <2>1 DEF Stored, Held
<1>4. /\ StoredOK(req[w], log, Stored) /\ acked \subseteq Stored
      /\ canon.items \subseteq Stored
  BY DEF RoomInv, StoreInv
<1>5. A \subseteq Stored
  <2>1. Rest(req[w], log) = {} BY <1>1 DEF Rest, Appending
  <2>2. req[w].doc \subseteq Stored BY <1>4, <2>1 DEF StoredOK
  <2>3. \A k \in merged : req[w].batch[k] \subseteq Stored \cup req[w].doc BY <1>4 DEF StoredOK
  <2> QED BY <2>2, <2>3
<1>6. StoredOK(Idle, log, Stored) BY IdleStored
<1> QED BY <1>1, <1>2, <1>3, <1>4, <1>5, <1>6, StoreLane

(* A new request stands for nothing.                                       *)
LEMMA SendStored ==
  ASSUME RoomInv, NEW t \in Tabs, NEW w \in Workers, Send(t, w) PROVE StoreInv'
<1>1. PICK r : SendMakes(t, w, r) BY SendIs DEF RoomInv, LogInv
<1>2. /\ req' = [req EXCEPT ![w] = r] /\ UNCHANGED <<log, hidden, gone, canon, acked>>
      /\ r.pc \in {"read", "meta"} /\ r.doc = {} /\ r.verdicts = <<>>
  BY <1>1 DEF SendMakes, room, meta
<1>3. LogGrows
  <2>1. UNCHANGED <<log, gone>> /\ hidden' \subseteq hidden BY <1>2
  <2> QED BY <2>1, SameLogGrows
<1>4. StoredOK(r, log', Stored')
  <2>1. DOMAIN r.verdicts = {} BY <1>2
  <2> QED BY <1>2, <2>1 DEF StoredOK
<1> QED BY <1>2, <1>3, <1>4, StoreSame

(* A request that fails promised nothing.                                  *)
LEMMA FailStored ==
  ASSUME RoomInv, NEW w \in Workers, Fail(w) PROVE StoreInv'
<1>1. /\ hidden' = hidden \ {req[w].own}
      /\ \/ req' = [req EXCEPT ![w] = Idle]
         \/ req' = [req EXCEPT ![w] = [req[w] EXCEPT !.heard = FALSE]]
      /\ UNCHANGED <<log, gone, meta, doc, cursor, needs, acked>>
  BY FailIs DEF RoomInv, LogInv
<1>2. log' = log /\ canon' = canon /\ acked' = acked BY <1>1 DEF meta
<1>3. LogGrows
  <2>1. UNCHANGED <<log, gone>> /\ hidden' \subseteq hidden BY <1>1
  <2> QED BY <2>1, SameLogGrows
<1>4. CASE req' = [req EXCEPT ![w] = Idle]
  <2>1. StoredOK(Idle, log', Stored') BY IdleStored
  <2> QED BY <1>2, <1>3, <1>4, <2>1, StoreSame
<1>5. CASE req' = [req EXCEPT ![w] = [req[w] EXCEPT !.heard = FALSE]]
  <2> DEFINE q == req[w]
             r == [q EXCEPT !.heard = FALSE]
  <2>1. q \in Requests BY RequestIs DEF RoomInv, LogInv
  <2>2. req' = [req EXCEPT ![w] = r] BY <1>5
  <2>3. /\ r.pc = q.pc /\ r.batch = q.batch /\ r.doc = q.doc /\ r.own = q.own /\ r.diffs = q.diffs
        /\ r.verdicts = q.verdicts /\ r.then = q.then
    BY <2>1, UnheardIs
  <2>4. StoredOK(q, log, Stored) BY DEF RoomInv, StoreInv
  <2> HIDE DEF q, r
  <2>5. StoredOK(r, log, Stored)
    <3>1. Rest(r, log) = Rest(q, log) BY <2>3 DEF Rest, Appending
    <3> QED BY <2>3, <2>4, <3>1 DEF StoredOK
  <2> DEFINE u == Stored
             v == Stored'
             l == log
  <2>6. StoredOK(r, l, u) /\ u \subseteq v BY <2>5, <1>3 DEF LogGrows
  <2> HIDE DEF u, v, l
  <2>7. StoredOK(r, l, v) BY <2>6, StoredStays
  <2> QED BY <1>2, <1>3, <2>2, <2>7, StoreSame DEF v, l
<1> QED BY <1>1, <1>4, <1>5

(* Every step of a request.                                                *)
LEMMA HandleStored ==
  ASSUME RoomInv, NEW w \in Workers, Handle(w) PROVE StoreInv'
  BY LoadMetaStored, LoadRowsStored, ReplayStored, StoreRowStored, CommitStored,
     SaveCanonicalStored, CheckpointDueStored, StoreSnapshotStored, MetaStepsStored,
     StoreGenesisStored, SaveGenesisStored, AnswerStored
     DEF Handle

(* Every step keeps what is stored.                                        *)
LEMMA StepStored == ASSUME RoomInv, [Next]_vars PROVE StoreInv'
<1>2. ASSUME UNCHANGED <<room, meta, req, acked>> PROVE StoreInv'
  <2>1. UNCHANGED <<log, hidden, gone, canon>> BY <1>2 DEF room, meta
  <2>2. Stored' = Stored
    <3>1. Committed' = Committed BY <2>1 DEF Committed
    <3> QED BY <2>1, <3>1 DEF Stored, Held
  <2> QED BY <1>2, <2>1, <2>2 DEF RoomInv, StoreInv
<1>3. ASSUME NEW t \in Tabs, Edit(t) PROVE StoreInv' BY <1>2, <1>3 DEF Edit
<1>4. CASE UNCHANGED vars BY <1>2, <1>4 DEF vars, tabs
<1> QED BY <1>3, <1>4, HandleStored, SendStored, FailStored DEF Next

(* The initial states.                                                     *)
LEMMA InitStored == ASSUME Init PROVE StoreInv
<1>1. /\ gone = {} /\ hidden = {} /\ acked = {} /\ req = [w \in Workers |-> Idle]
      /\ log = IF Fresh THEN <<>> ELSE <<[type |-> "snapshot", from |-> Server, items |-> {Genesis}]>>
      /\ canon = [items |-> IF Fresh THEN {} ELSE {Genesis}, cursor |-> 0]
  BY DEF Init
<1>2. canon.items \subseteq Stored
  <2>1. CASE Fresh BY <1>1, <2>1
  <2>2. CASE ~Fresh
    <3> DEFINE row == [type |-> "snapshot", from |-> Server, items |-> {Genesis}]
    <3>1. log = <<row>> /\ row.items = {Genesis} BY <1>1, <2>2
    <3> HIDE DEF row
    <3>2. DOMAIN log = {1} /\ log[1] = row BY <3>1
    <3>3. 1 \in Committed BY <1>1, <3>2 DEF Committed
    <3>4. log[1].items \subseteq Stored BY <3>3 DEF Stored, Held
    <3>5. canon.items = {Genesis} BY <1>1, <2>2
    <3> QED BY <3>1, <3>2, <3>4, <3>5
  <2> QED BY <2>1, <2>2
<1>3. \A w \in Workers : StoredOK(req[w], log, Stored) BY <1>1, IdleStored
<1> QED BY <1>1, <1>2, <1>3 DEF StoreInv

(* The log keeps what the room was told.                                   *)
THEOREM Storing == Spec => []RoomInv
<1>1. Init => RoomInv BY InitBase, InitHistory, InitStored DEF RoomInv, LogInv, HistoryInv
<1>2. RoomInv /\ [Next]_vars => RoomInv'
  BY StepBase, StepHistory, StepStored DEF RoomInv, LogInv, HistoryInv
<1> QED BY <1>1, <1>2, PTL DEF Spec

(* What is acknowledged is in the retained rows, the lost items aside: a   *)
(* committed row that did not go astray claims what it holds.              *)
LEMMA StoredIsReplayed ==
  ASSUME RoomInv PROVE Stored \subseteq Replayed \cup Lost
<1> SUFFICES ASSUME NEW x \in Stored, x \notin Lost PROVE x \in Replayed OBVIOUS
<1>1. PICK i \in Committed : x \in log[i].items BY DEF Stored, Held
<1>2. i \in DOMAIN Claims /\ x \in Claims[i] BY <1>1, ClaimsAre DEF RoomInv, LogInv, Committed
<1>3. x \in Held(Visible) BY <1>2 DEF RoomInv, LogInv, TrimInv, KnowsAll
<1>4. RowsAfter(0) = Visible BY VisibleType DEF RoomInv, LogInv
<1> QED BY <1>3, <1>4 DEF Replayed

(* And so in the canonical with the rows past its cursor, which knows the  *)
(* claims of all rows up to it.                                            *)
LEMMA StoredIsLoaded ==
  ASSUME RoomInv PROVE Stored \subseteq Loaded \cup Lost
<1> SUFFICES ASSUME NEW x \in Stored, x \notin Lost PROVE x \in Loaded OBVIOUS
<1>1. PICK i \in Committed : x \in log[i].items BY DEF Stored, Held
<1>2. i \in DOMAIN Claims /\ x \in Claims[i] BY <1>1, ClaimsAre DEF RoomInv, LogInv, Committed
<1>3. Knows(Claims, canon.cursor, canon.items) /\ canon.cursor \in Nat
  BY DEF RoomInv, LogInv, LoadInv, BaseInv, StoreOK
<1>4. KnowsAll(Claims, canon.items \cup Held(RowsAfter(canon.cursor)))
  BY <1>3, LoadsAll DEF RoomInv, LogInv
<1> QED BY <1>2, <1>4 DEF KnowsAll, Loaded

(* However many requests race and whenever their rows are committed, all   *)
(* that was acknowledged is in the retained rows ...                       *)
THEOREM Replays == Spec => [](acked \subseteq Replayed \cup Held(astray))
<1>1. RoomInv => acked \subseteq Replayed \cup Held(astray)
  BY StoredIsReplayed DEF RoomInv, StoreInv, Lost
<1> QED BY <1>1, Storing, PTL

(* ... and in the document the next request loads, but for what the rows   *)
(* that went astray held.                                                  *)
THEOREM Loads == Spec => [](acked \subseteq Loaded \cup Held(astray))
<1>1. RoomInv => acked \subseteq Loaded \cup Held(astray)
  BY StoredIsLoaded DEF RoomInv, StoreInv, Lost
<1> QED BY <1>1, Storing, PTL

(* Until something is trimmed, both hold for any number of requests, and   *)
(* late rows only put the document the next request loads at risk.         *)
THEOREM UntilTrimmed ==
  Spec => [](gone = {} => /\ AckedIsReplayed
                          /\ InOrder => AckedIsLoaded /\ CursorIsHonest)
<1>1. RoomInv => (gone = {} => /\ AckedIsReplayed
                               /\ InOrder => AckedIsLoaded /\ CursorIsHonest)
  <2> SUFFICES ASSUME RoomInv, gone = {} PROVE AckedIsReplayed /\ (InOrder => AckedIsLoaded /\ CursorIsHonest)
    OBVIOUS
  <2>1. acked \subseteq Stored BY DEF RoomInv, StoreInv
  <2>2. Replayed = Stored BY VisibleRows DEF RoomInv, LogInv, Replayed
  <2>3. InOrder => astray = {} /\ hidden = {} BY DEF RoomInv, LogInv, TrimInv, BaseInv, StoreOK
  <2>4. InOrder => Lost = {} BY <2>3 DEF Lost, Held
  <2>5. InOrder => AckedIsLoaded BY <2>1, <2>4, StoredIsLoaded DEF AckedIsLoaded
  <2>6. ASSUME InOrder, NEW t \in Tabs PROVE Held((1..cursor[t])) \subseteq doc[t]
    <3> SUFFICES ASSUME NEW i \in 1..cursor[t] PROVE log[i].items \subseteq doc[t] BY DEF Held
    <3>1. DOMAIN log = 1..Len(log) /\ Len(log) \in Nat /\ cursor[t] <= Len(log) /\ cursor[t] \in Nat
      BY LogType DEF RoomInv, LogInv, BaseInv, TabOK, TabTypes
    <3>2. i \in DOMAIN Claims /\ i <= cursor[t] /\ Claims[i] = log[i].items
      <4>1. i \in DOMAIN log /\ i <= cursor[t] BY <3>1
      <4>2. i \in DOMAIN Claims BY <4>1, <2>3, <2>6, ClaimsAre DEF RoomInv, LogInv
      <4>3. Claims[i] = log[i].items \ Lost BY <4>2, ClaimsAre DEF RoomInv, LogInv
      <4>4. Claims[i] = log[i].items BY <4>3, <2>4, <2>6
      <4> QED BY <4>1, <4>2, <4>4
    <3>3. Knows(Claims, cursor[t], doc[t]) BY DEF RoomInv, LogInv, LoadInv
    <3> QED BY <3>2, <3>3 DEF Knows
  <2> QED BY <2>1, <2>2, <2>5, <2>6 DEF AckedIsReplayed, CursorIsHonest
<1> QED BY <1>1, Storing, PTL

-----------------------------------------------------------------------------
(***************************************************************************)
(* Until something is trimmed, whatever an update under way needs is in    *)
(* the log, or in a request or a queue of its tab before it: a rebuild     *)
(* from the log refuses nothing.  It is a statement about needs, n, the    *)
(* log, l, and what its committed rows hold, v.                            *)
(***************************************************************************)

(* The items have what they need in d.                                     *)
ClosedIn(n, items, d) == \A x \in items : n[x] \subseteq d

(* What a tab wrote, and what of it is with a request it waits for.        *)
OwnOf(t, d)     == {x \in d : x[1] = t}
InFlight(rq, t) == UNION {UNION Range(rq[w].batch) : w \in {w \in Workers : rq[w].heard /\ rq[w].tab = t}}

RowClosed(n, row, v) == ClosedIn(n, row.items, v \cup row.items)

(* A batch, and the rows that are to be stored of it, refer to the log and *)
(* to what comes before in the same request.                               *)
BatchClosed(n, r, v) == r.pc # "idle" => \A k \in DOMAIN r.batch : ClosedIn(n, r.batch[k], v \cup UpToHere(r.batch, k))
InHand(r, l)         == IF r.pc = "commit" THEN l[r.own].items ELSE {}
DiffsClosed(n, r, l, v) ==
  Appending(r) \/ r.pc = "replay" =>
    \A k \in DOMAIN r.diffs : ClosedIn(n, r.diffs[k], v \cup InHand(r, l) \cup UpToHere(r.diffs, k))
Answered(r) == \A k \in DOMAIN r.verdicts : r.verdicts[k] # "resync-required"

RequestClosed(n, r, l, v) == BatchClosed(n, r, v) /\ DiffsClosed(n, r, l, v) /\ Answered(r)

(* A document has what its items need, of others only what the log has; a  *)
(* queue refers to the log, the requests of its tab and itself; what a tab *)
(* wrote is in one of these three.                                         *)
DocClosed(n, t, d, v)    == d \subseteq v \cup OwnOf(t, d) /\ ClosedIn(n, d, v \cup OwnOf(t, d))
QueueClosed(n, q, f)     == \A k \in DOMAIN q : ClosedIn(n, q[k], f \cup UpToHere(q, k))
WorkIsKept(own, q, f)    == own \subseteq f \cup UNION Range(q)
TabClosed(n, t, d, q, v, f) ==
  DocClosed(n, t, d, v) /\ QueueClosed(n, q, v \cup f) /\ WorkIsKept(OwnOf(t, d), q, v \cup f)

CloseInv ==
  gone = {} =>
    /\ needs[Genesis] = {}
    /\ \A i \in DOMAIN log : RowClosed(needs, log[i], Stored)
    /\ \A w \in Workers : RequestClosed(needs, req[w], log, Stored)
    /\ \A t \in Tabs : TabClosed(needs, t, doc[t], queue[t], Stored, InFlight(req, t))

(* More of what may be referred to.                                        *)
LEMMA ClosedMore ==
  ASSUME NEW n, NEW items, NEW d, NEW e, ClosedIn(n, items, d), d \subseteq e
  PROVE  ClosedIn(n, items, e)
  BY DEF ClosedIn

(* Fewer items, or more of both.                                           *)
LEMMA ClosedParts ==
  ASSUME NEW n, NEW d
  PROVE  /\ \A a, b : ClosedIn(n, a \cup b, d) <=> ClosedIn(n, a, d) /\ ClosedIn(n, b, d)
         /\ \A a, b : a \subseteq b /\ ClosedIn(n, b, d) => ClosedIn(n, a, d)
  BY DEF ClosedIn

(* The log of a later state serves as well.                                *)
LEMMA RequestClosedStays ==
  ASSUME NEW n, NEW r, NEW l, NEW k, NEW v, NEW u, RequestClosed(n, r, l, v), v \subseteq u,
         r.pc = "commit" => k[r.own] = l[r.own]
  PROVE  RequestClosed(n, r, k, u)
<1>1. BatchClosed(n, r, u)
  <2> SUFFICES ASSUME r.pc # "idle", NEW j \in DOMAIN r.batch
               PROVE  ClosedIn(n, r.batch[j], u \cup UpToHere(r.batch, j))
    BY DEF BatchClosed
  <2>1. ClosedIn(n, r.batch[j], v \cup UpToHere(r.batch, j)) BY DEF RequestClosed, BatchClosed
  <2> QED BY <2>1, ClosedMore
<1>2. DiffsClosed(n, r, k, u)
  <2> SUFFICES ASSUME Appending(r) \/ r.pc = "replay", NEW j \in DOMAIN r.diffs
               PROVE  ClosedIn(n, r.diffs[j], u \cup InHand(r, k) \cup UpToHere(r.diffs, j))
    BY DEF DiffsClosed
  <2>1. ClosedIn(n, r.diffs[j], v \cup InHand(r, l) \cup UpToHere(r.diffs, j))
    BY DEF RequestClosed, DiffsClosed
  <2>2. InHand(r, k) = InHand(r, l) BY DEF InHand
  <2> QED BY <2>1, <2>2, ClosedMore
<1> QED BY <1>1, <1>2 DEF RequestClosed

(* The same, and more in flight, for a tab.                                *)
LEMMA TabClosedStays ==
  ASSUME NEW n, NEW t, NEW d, NEW q, NEW v, NEW f, NEW u, NEW g, TabClosed(n, t, d, q, v, f),
         v \subseteq u, f \subseteq u \cup g
  PROVE  TabClosed(n, t, d, q, u, g)
<1>1. DocClosed(n, t, d, u)
  <2>1. ClosedIn(n, d, v \cup OwnOf(t, d)) /\ d \subseteq v \cup OwnOf(t, d) BY DEF TabClosed, DocClosed
  <2> QED BY <2>1, ClosedMore DEF DocClosed
<1>2. QueueClosed(n, q, u \cup g)
  <2> SUFFICES ASSUME NEW k \in DOMAIN q PROVE ClosedIn(n, q[k], (u \cup g) \cup UpToHere(q, k))
    BY DEF QueueClosed
  <2>1. ClosedIn(n, q[k], (v \cup f) \cup UpToHere(q, k)) BY DEF TabClosed, QueueClosed
  <2> QED BY <2>1, ClosedMore
<1>3. WorkIsKept(OwnOf(t, d), q, u \cup g) BY DEF TabClosed, WorkIsKept
<1> QED BY <1>1, <1>2, <1>3 DEF TabClosed

(* The rows of a log that nothing was trimmed from have what they need.    *)
LEMMA StoredIsClosed ==
  ASSUME BaseInv, CloseInv, gone = {}
  PROVE  ClosedIn(needs, Stored, Stored)
<1> SUFFICES ASSUME NEW x \in Stored PROVE needs[x] \subseteq Stored
  BY DEF ClosedIn
<1>1. PICK i \in Committed : x \in log[i].items BY DEF Stored, Held
<1>2. i \in DOMAIN log /\ log[i].items \subseteq Stored BY <1>1 DEF Committed, Stored, Held
<1>3. RowClosed(needs, log[i], Stored) BY <1>2 DEF CloseInv
<1> QED BY <1>1, <1>2, <1>3 DEF RowClosed, ClosedIn

(* A request that leaves what it carries alone.                            *)
LEMMA FlightSame ==
  ASSUME BaseInv, NEW w \in Workers, NEW r, req' = [req EXCEPT ![w] = r], SameTab(req[w], r), NEW t
  PROVE  InFlight(req', t) = InFlight(req, t)
<1>1. \A u \in Workers : /\ req'[u].heard = req[u].heard /\ req'[u].tab = req[u].tab
                         /\ req'[u].batch = req[u].batch
  BY DEF SameTab, BaseInv
<1> QED BY <1>1 DEF InFlight

(* A request nobody waits for any more.                                    *)
LEMMA FlightLoses ==
  ASSUME BaseInv, NEW w \in Workers, NEW r, req' = [req EXCEPT ![w] = r], ~r.heard, NEW t
  PROVE  /\ req[w].tab # t \/ ~req[w].heard => InFlight(req, t) \subseteq InFlight(req', t)
         /\ InFlight(req, t) \subseteq InFlight(req', t) \cup UNION Range(req[w].batch)
<1>1. \A u \in Workers : u # w => req'[u] = req[u] BY DEF BaseInv
<1> QED BY <1>1 DEF InFlight

(* One request moves, keeping what it carries, and the log may grow.       *)
LEMMA CloseLane ==
  ASSUME BaseInv, CloseInv, LogGrows, NEW w \in Workers, NEW r, req' = [req EXCEPT ![w] = r],
         SameTab(req[w], r), UNCHANGED <<doc, queue, needs>>,
         \A i \in DOMAIN log' : i \in DOMAIN log \/ (gone = {} => RowClosed(needs, log'[i], Stored')),
         gone = {} /\ gone' = {} => RequestClosed(needs, r, log', Stored')
  PROVE  CloseInv'
<1> SUFFICES ASSUME gone' = {} PROVE
      /\ needs[Genesis] = {}
      /\ \A i \in DOMAIN log' : RowClosed(needs, log'[i], Stored')
      /\ \A u \in Workers : RequestClosed(needs, req'[u], log', Stored')
      /\ \A t \in Tabs : TabClosed(needs, t, doc[t], queue[t], Stored', InFlight(req', t))
  BY DEF CloseInv
<1>1. gone = {} BY DEF LogGrows
<1>2. Stored \subseteq Stored' BY <1>1 DEF LogGrows
<1>3. DOMAIN log = 1..Len(log) /\ \A i \in DOMAIN log : log'[i] = log[i] BY LogType DEF LogGrows
<1>4. ASSUME NEW i \in DOMAIN log' PROVE RowClosed(needs, log'[i], Stored')
  <2>1. CASE i \in DOMAIN log
    <3>1. RowClosed(needs, log[i], Stored) BY <1>1, <2>1 DEF CloseInv
    <3> QED BY <1>2, <1>3, <2>1, <3>1, ClosedMore DEF RowClosed
  <2> QED BY <1>1, <2>1
<1>5. ASSUME NEW u \in Workers PROVE RequestClosed(needs, req'[u], log', Stored')
  <2>1. CASE u = w BY <1>1, <2>1 DEF BaseInv
  <2>2. CASE u # w
    <3>1. req'[u] = req[u] BY <2>2 DEF BaseInv
    <3>2. RequestClosed(needs, req[u], log, Stored) BY <1>1 DEF CloseInv
    <3>3. req[u].pc = "commit" => log'[req[u].own] = log[req[u].own]
      <4>1. RequestOK(req[u], Len(log), doc) /\ req[u] \in Requests BY RequestIs
      <4>2. req[u].pc = "commit" => req[u].own \in 1..Len(log) BY <4>1, LogType DEF RequestOK, Requests
      <4> QED BY <1>3, <4>2
    <3> QED BY <1>2, <3>1, <3>2, <3>3, RequestClosedStays
  <2> QED BY <2>1, <2>2
<1>6. ASSUME NEW t \in Tabs PROVE TabClosed(needs, t, doc[t], queue[t], Stored', InFlight(req', t))
  <2>1. TabClosed(needs, t, doc[t], queue[t], Stored, InFlight(req, t)) BY <1>1 DEF CloseInv
  <2>2. InFlight(req', t) = InFlight(req, t) BY FlightSame
  <2> QED BY <1>2, <2>1, <2>2, TabClosedStays
<1> QED BY <1>1, <1>4, <1>5, <1>6 DEF CloseInv

(* A request that has nothing to store moves on.                           *)
LEMMA CloseMoves ==
  ASSUME BaseInv, CloseInv, LogGrows, log' = log, NEW w \in Workers, NEW r, req' = [req EXCEPT ![w] = r],
         SameTab(req[w], r), UNCHANGED <<doc, queue, needs>>, r.verdicts = req[w].verdicts,
         ~Appending(r), r.pc # "replay", req[w].pc # "idle"
  PROVE  CloseInv'
<1>1. gone = {} /\ gone' = {} => RequestClosed(needs, r, log', Stored')
  <2> SUFFICES ASSUME gone = {}, gone' = {} PROVE RequestClosed(needs, r, log, Stored')
    OBVIOUS
  <2>1. Stored \subseteq Stored' BY DEF LogGrows
  <2>2. BatchClosed(needs, req[w], Stored) /\ Answered(req[w]) BY DEF CloseInv, RequestClosed
  <2>3. BatchClosed(needs, r, Stored')
    <3> SUFFICES ASSUME NEW j \in DOMAIN r.batch
                 PROVE  ClosedIn(needs, r.batch[j], Stored' \cup UpToHere(r.batch, j))
      BY DEF BatchClosed
    <3>1. ClosedIn(needs, r.batch[j], Stored \cup UpToHere(r.batch, j))
      BY <2>2 DEF BatchClosed, SameTab
    <3> QED BY <2>1, <3>1, ClosedMore
  <2> QED BY <2>2, <2>3 DEF RequestClosed, DiffsClosed, Answered
<1> QED BY <1>1, CloseLane

(* A load of the canonical settles nothing.                                *)
LEMMA LoadMetaClosed ==
  ASSUME RoomInv, CloseInv, NEW w \in Workers, LoadMeta(w) PROVE CloseInv'
<1>1. PICK r : /\ req[w].pc = "meta" /\ req' = [req EXCEPT ![w] = r] /\ Unchanging
               /\ r.pc = "rows" /\ SameTab(req[w], r) /\ r.verdicts = req[w].verdicts
  BY LoadMetaIs DEF RoomInv, LogInv
<1>2. LogGrows /\ log' = log /\ UNCHANGED <<doc, queue, needs>> BY <1>1, QuietGrows, QuietSame
<1>3. BaseInv /\ ~Appending(r) BY <1>1 DEF RoomInv, LogInv, Appending
<1> QED BY <1>1, <1>2, <1>3, CloseMoves

(* Nor does a checkpoint.                                                  *)
LEMMA CheckpointDueClosed ==
  ASSUME RoomInv, CloseInv, NEW w \in Workers, CheckpointDue(w) PROVE CloseInv'
<1>1. PICK r : /\ req[w].pc = "due" /\ req' = [req EXCEPT ![w] = r] /\ Unchanging
               /\ SameTab(req[w], r) /\ r.verdicts = req[w].verdicts /\ r.pc \in {"snapshot", "read"}
  BY CheckpointDueIs DEF RoomInv, LogInv
<1>2. LogGrows /\ log' = log /\ UNCHANGED <<doc, queue, needs>> BY <1>1, QuietGrows, QuietSame
<1>3. BaseInv /\ ~Appending(r) BY <1>1 DEF RoomInv, LogInv, Appending
<1> QED BY <1>1, <1>2, <1>3, CloseMoves

(* The steps that only move a request on.                                  *)
LEMMA MovesClosed ==
  ASSUME RoomInv, CloseInv, LogGrows, NEW w \in Workers, NEW pc, req' = [req EXCEPT ![w].pc = pc],
         log' = log, UNCHANGED <<doc, queue, needs>>, req[w].pc # "idle",
         pc \notin {"replay", "commit", "append"}
  PROVE  CloseInv'
<1>1. PICK r : req' = [req EXCEPT ![w] = r] /\ r.pc = pc /\ Moved(req[w], r)
  BY MovesOn DEF RoomInv, LogInv
<1>2. BaseInv /\ ~Appending(r) /\ SameTab(req[w], r) /\ r.verdicts = req[w].verdicts
  BY <1>1 DEF RoomInv, LogInv, Appending, Moved
<1> QED BY <1>1, <1>2, CloseMoves

(* The steps that write a meta value or trim.                              *)
LEMMA MetaStepsClosed ==
  ASSUME RoomInv, CloseInv, HistoryInv', NEW w \in Workers,
         \/ SaveCanonical(w) \/ StampCheckpoint(w) \/ Trim(w)
         \/ Initialize(w) \/ SaveGenesis(w) \/ PaceGenesis(w)
  PROVE  CloseInv'
<1>1. CASE Trim(w)
  <2> DEFINE pc == "read"
  <2>1. req[w].pc = "trim" /\ req' = [req EXCEPT ![w].pc = pc] /\ UNCHANGED <<log, doc, queue, needs>>
        /\ pc \in {"trim", "read"}
    BY <1>1 DEF Trim, tabs
  <2>2. LogGrows BY <1>1, TrimGrows
  <2> HIDE DEF pc
  <2> QED BY <2>1, <2>2, MovesClosed
<1>2. ASSUME UNCHANGED <<log, hidden, gone>> PROVE LogGrows
  <2>1. UNCHANGED <<log, gone>> /\ hidden' \subseteq hidden BY <1>2
  <2> QED BY <2>1, SameLogGrows
<1>3. CASE StampCheckpoint(w)
  <2> DEFINE pc == IF req[w].prev > 0 THEN "trim" ELSE "read"
  <2>1. req[w].pc = "stamp" /\ req' = [req EXCEPT ![w].pc = pc]
        /\ UNCHANGED <<log, hidden, gone, doc, queue, needs>>
    BY <1>3 DEF StampCheckpoint, room, tabs
  <2>2. pc \in {"trim", "read"} OBVIOUS
  <2> HIDE DEF pc
  <2> QED BY <2>1, <2>2, <1>2, MovesClosed
<1>4. CASE Initialize(w)
  <2> DEFINE pc == "birth"
  <2>1. req[w].pc = "read" /\ req' = [req EXCEPT ![w].pc = pc] /\ pc \in {"read", "birth"}
        /\ UNCHANGED <<log, hidden, gone, doc, queue, needs>>
    BY <1>4 DEF Initialize, room, meta, tabs
  <2> HIDE DEF pc
  <2> QED BY <2>1, <1>2, MovesClosed
<1>5. CASE PaceGenesis(w)
  <2> DEFINE pc == "read"
  <2>1. req[w].pc = "pace" /\ req' = [req EXCEPT ![w].pc = pc] /\ pc \in {"read", "birth"}
        /\ UNCHANGED <<log, hidden, gone, doc, queue, needs>>
    BY <1>5 DEF PaceGenesis, room, tabs
  <2> HIDE DEF pc
  <2> QED BY <2>1, <1>2, MovesClosed
<1>6. CASE SaveGenesis(w)
  <2> DEFINE pc == "pace"
  <2>1. req[w].pc = "born" /\ req' = [req EXCEPT ![w].pc = pc] /\ pc \in {"pace", "birth"}
        /\ UNCHANGED <<log, hidden, gone, doc, queue, needs>>
    BY <1>6 DEF SaveGenesis, room, tabs
  <2> HIDE DEF pc
  <2> QED BY <2>1, <1>2, MovesClosed
<1>7. CASE SaveCanonical(w)
  <2> DEFINE pc == IF req[w].pc = "save" THEN "due" ELSE "read"
  <2>1. /\ req[w].pc \in {"save", "resave"} /\ UNCHANGED <<log, hidden, gone, doc, queue, needs>>
        /\ req' = [req EXCEPT ![w].pc = pc]
    <3>1. req' = [req EXCEPT ![w].pc = IF @ = "save" THEN "due" ELSE "read"] BY <1>7 DEF SaveCanonical
    <3> QED BY <1>7, <3>1 DEF SaveCanonical, RoomInv, LogInv, BaseInv, room, tabs
  <2>2. pc \in {"due", "read"} OBVIOUS
  <2> HIDE DEF pc
  <2> QED BY <2>1, <2>2, <1>2, MovesClosed
<1> QED BY <1>1, <1>3, <1>4, <1>5, <1>6, <1>7

(* A row is stored: it has what it needs, and so has what is still to be   *)
(* stored.                                                                 *)
LEMMA StoresClosed ==
  ASSUME RoomInv, CloseInv, NEW w \in Workers, NEW r, NEW row, Stores(w, r, row), req[w].pc # "idle",
         gone = {} => RowClosed(needs, row, Stored),
         gone = {} /\ Stored \subseteq Stored' => DiffsClosed(needs, r, log', Stored')
  PROVE  CloseInv'
<1>1. LogGrows /\ log'[r.own] = row BY AddedRowGrows DEF RoomInv, LogInv
<1>2. /\ req' = [req EXCEPT ![w] = r] /\ SameTab(req[w], r) /\ r.own = Len(log) + 1
      /\ r.verdicts = req[w].verdicts /\ log' = Append(log, row) /\ row \in Row
      /\ UNCHANGED <<gone, doc, queue, needs>>
  BY DEF Stores, meta, tabs
<1>3. BaseInv /\ log \in Seq(Row) BY DEF RoomInv, LogInv, BaseInv, StoreOK
<1>4. gone = {} => Stored \subseteq Stored' BY <1>1, <1>2 DEF LogGrows
<1>5. \A i \in DOMAIN log' : i \in DOMAIN log \/ (gone = {} => RowClosed(needs, log'[i], Stored'))
  <2> SUFFICES ASSUME NEW i \in DOMAIN log', i \notin DOMAIN log, gone = {}
               PROVE  RowClosed(needs, log'[i], Stored')
    OBVIOUS
  <2>1. i = r.own BY <1>2, <1>3
  <2> QED BY <1>1, <1>4, <2>1, ClosedMore DEF RowClosed
<1>6. gone = {} /\ gone' = {} => RequestClosed(needs, r, log', Stored')
  <2> SUFFICES ASSUME gone = {} PROVE RequestClosed(needs, r, log', Stored')
    OBVIOUS
  <2>1. BatchClosed(needs, req[w], Stored) /\ Answered(req[w]) BY DEF CloseInv, RequestClosed
  <2>2. BatchClosed(needs, r, Stored')
    <3> SUFFICES ASSUME NEW j \in DOMAIN r.batch
                 PROVE  ClosedIn(needs, r.batch[j], Stored' \cup UpToHere(r.batch, j))
      BY DEF BatchClosed
    <3>1. ClosedIn(needs, r.batch[j], Stored \cup UpToHere(r.batch, j))
      BY <1>2, <2>1 DEF BatchClosed, SameTab
    <3> QED BY <1>4, <3>1, ClosedMore
  <2> QED BY <1>2, <1>4, <2>1, <2>2 DEF RequestClosed, Answered
<1> QED BY <1>1, <1>2, <1>3, <1>5, <1>6, CloseLane

(* A snapshot is of stored items, and these have what they need.           *)
LEMMA StoreSnapshotClosed ==
  ASSUME RoomInv, CloseInv, NEW w \in Workers, StoreSnapshot(w) PROVE CloseInv'
<1>1. PICK r, row : /\ req[w].pc = "snapshot" /\ Stores(w, r, row) /\ row.items = req[w].doc
                    /\ NextPc(r, "stamp")
  BY StoreSnapshotIs DEF RoomInv, LogInv
<1>2. gone = {} => RowClosed(needs, row, Stored)
  <2> SUFFICES ASSUME gone = {} PROVE ClosedIn(needs, req[w].doc, Stored \cup req[w].doc)
    BY <1>1 DEF RowClosed
  <2>1. req[w].doc \subseteq Stored BY <1>1 DEF RoomInv, StoreInv, StoredOK, Rest, Appending
  <2>2. ClosedIn(needs, Stored, Stored) BY StoredIsClosed DEF RoomInv, LogInv
  <2> QED BY <2>1, <2>2 DEF ClosedIn
<1>3. ~Appending(r) /\ r.pc # "replay" BY <1>1 DEF NextPc, Appending
<1>4. DiffsClosed(needs, r, log', Stored') BY <1>3 DEF DiffsClosed
<1> QED BY <1>1, <1>2, <1>4, StoresClosed

(* The genesis needs nothing.                                              *)
LEMMA StoreGenesisClosed ==
  ASSUME RoomInv, CloseInv, NEW w \in Workers, StoreGenesis(w) PROVE CloseInv'
<1>1. PICK r, row : /\ req[w].pc = "birth" /\ Stores(w, r, row) /\ row.items = {Genesis}
                    /\ NextPc(r, "born")
  BY StoreGenesisIs DEF RoomInv, LogInv
<1>2. gone = {} => RowClosed(needs, row, Stored) BY <1>1 DEF RowClosed, ClosedIn, CloseInv
<1>3. ~Appending(r) /\ r.pc # "replay" BY <1>1 DEF NextPc, Appending
<1>4. DiffsClosed(needs, r, log', Stored') BY <1>3 DEF DiffsClosed
<1> QED BY <1>1, <1>2, <1>4, StoresClosed

(* The row stored is the first of those that were to be stored.            *)
LEMMA StoreRowClosed ==
  ASSUME RoomInv, CloseInv, NEW w \in Workers, StoreRow(w) PROVE CloseInv'
<1> DEFINE s == req[w].diffs
           then == IF Len(s) = 1 THEN "save" ELSE "append"
<1>1. PICK r, row : /\ req[w].pc = "append" /\ s \in Seq(SUBSET Items) /\ s # <<>>
                    /\ Stores(w, r, row) /\ row.items = Head(s) /\ r.diffs = Tail(s) /\ NextPc(r, then)
  BY StoreRowIs DEF RoomInv, LogInv
<1>2. /\ log'[r.own] = row /\ (InOrder => row.items \subseteq Stored')
  BY <1>1, AddedRowGrows DEF RoomInv, LogInv
<1>3. gone = {} => \A k \in DOMAIN s : ClosedIn(needs, s[k], Stored \cup UpToHere(s, k))
  <2> SUFFICES ASSUME gone = {}, NEW k \in DOMAIN s
               PROVE ClosedIn(needs, s[k], Stored \cup UpToHere(s, k))
    OBVIOUS
  <2>1. DiffsClosed(needs, req[w], log, Stored) BY DEF CloseInv, RequestClosed
  <2>2. Appending(req[w]) /\ InHand(req[w], log) = {} BY <1>1 DEF Appending, InHand
  <2> QED BY <2>1, <2>2 DEF DiffsClosed
<1> HIDE DEF s
<1> DEFINE t == Tail(s)
<1>4. /\ Head(s) = s[1] /\ 1 \in DOMAIN s /\ Len(s) \in Nat /\ DOMAIN s = 1..Len(s) /\ DOMAIN t = 1..(Len(s) - 1)
      /\ \A k \in DOMAIN t : k \in Nat /\ k + 1 \in DOMAIN s /\ t[k] = s[k + 1]
  <2>1. s \in Seq(SUBSET Items) /\ s # <<>> BY <1>1
  <2>2. t \in Seq(SUBSET Items) /\ Len(t) = Len(s) - 1 BY <2>1, TailOf
  <2> QED BY <2>1, <2>2, TailOf
<1>5. gone = {} => RowClosed(needs, row, Stored)
  <2> SUFFICES ASSUME gone = {} PROVE ClosedIn(needs, s[1], Stored \cup s[1])
    BY <1>1, <1>4 DEF RowClosed
  <2>1. ClosedIn(needs, s[1], Stored \cup UpToHere(s, 1)) BY <1>3, <1>4
  <2>2. UpToHere(s, 1) = s[1] BY DEF UpToHere
  <2> QED BY <2>1, <2>2
<1>6. ASSUME gone = {}, Stored \subseteq Stored' PROVE DiffsClosed(needs, r, log', Stored')
  <2> SUFFICES ASSUME Appending(r), NEW k \in DOMAIN t
               PROVE  ClosedIn(needs, t[k], Stored' \cup InHand(r, log') \cup UpToHere(t, k))
    <3>1. r.pc # "replay" BY <1>1 DEF NextPc
    <3> QED BY <1>1, <3>1 DEF DiffsClosed
  <2>1. ClosedIn(needs, t[k], Stored \cup UpToHere(s, k + 1)) BY <1>3, <1>4, <1>6
  <2>2. UpToHere(s, k + 1) \subseteq s[1] \cup UpToHere(t, k)
    <3> HIDE DEF t
    <3> SUFFICES ASSUME NEW j \in 1..(k + 1), j # 1 PROVE s[j] \subseteq UpToHere(t, k)
      BY DEF UpToHere
    <3>1. k \in 1..(Len(s) - 1) BY <1>4
    <3>2. j - 1 \in 1..k /\ j - 1 \in DOMAIN t /\ (j - 1) + 1 = j BY <1>4, <3>1
    <3>3. t[j - 1] = s[j] BY <1>4, <3>2
    <3> QED BY <3>2, <3>3 DEF UpToHere
  <2>3. row.items \subseteq Stored' \cup InHand(r, log')
    <3>1. CASE LateRows
      <4>1. r.pc = "commit" BY <1>1, <3>1 DEF NextPc
      <4> QED BY <1>2, <4>1 DEF InHand
    <3>2. CASE ~LateRows BY <1>2, <3>2 DEF InOrder
    <3> QED BY <3>1, <3>2
  <2>4. s[1] = row.items BY <1>1, <1>4
  <2> QED BY <1>6, <2>1, <2>2, <2>3, <2>4, ClosedMore
<1>7. req[w].pc # "idle" BY <1>1
<1> QED BY <1>1, <1>5, <1>6, <1>7, StoresClosed

(* What was in hand is in the log.                                         *)
LEMMA CommitClosed ==
  ASSUME RoomInv, CloseInv, NEW w \in Workers, Commit(w) PROVE CloseInv'
<1> DEFINE q == req[w]
<1>1. PICK r : /\ q.pc = "commit" /\ req' = [req EXCEPT ![w] = r] /\ r.pc = q.then
               /\ hidden' = hidden \ {q.own} /\ UNCHANGED <<log, gone, meta, tabs, faults>>
               /\ SameTab(q, r) /\ r.diffs = q.diffs /\ r.verdicts = q.verdicts
  BY CommitIs DEF RoomInv, LogInv
<1>2. LogGrows
  <2>1. UNCHANGED <<log, gone>> /\ hidden' \subseteq hidden BY <1>1
  <2> QED BY <2>1, SameLogGrows
<1>3. UNCHANGED <<doc, queue, needs, log, gone>> BY <1>1 DEF tabs
<1>4. q \in Requests /\ RequestOK(q, Len(log), doc) BY RequestIs DEF RoomInv, LogInv
<1>5. q.then \in {"append", "save", "stamp", "born"} /\ q.own \in DOMAIN log
  BY <1>1, <1>4, LogType DEF RequestOK, Requests, RoomInv, LogInv
<1>6. gone = {} => log[q.own].items \subseteq Stored'
  <2>1. q.own \in Committed' BY <1>1, <1>3, <1>5 DEF Committed
  <2> QED BY <2>1, <1>3 DEF Stored, Held
<1>7. gone = {} => RequestClosed(needs, q, log, Stored) /\ Stored \subseteq Stored'
  BY <1>2, <1>3 DEF CloseInv, LogGrows
<1> HIDE DEF q
<1>8. ASSUME gone = {} PROVE RequestClosed(needs, r, log, Stored')
  <2>1. BatchClosed(needs, r, Stored')
    <3> SUFFICES ASSUME NEW j \in DOMAIN r.batch
                 PROVE  ClosedIn(needs, r.batch[j], Stored' \cup UpToHere(r.batch, j))
      BY DEF BatchClosed
    <3>1. ClosedIn(needs, r.batch[j], Stored \cup UpToHere(r.batch, j))
      BY <1>1, <1>7, <1>8 DEF RequestClosed, BatchClosed, SameTab
    <3> QED BY <1>7, <1>8, <3>1, ClosedMore
  <2>2. DiffsClosed(needs, r, log, Stored')
    <3> SUFFICES ASSUME Appending(r), NEW j \in DOMAIN r.diffs
                 PROVE  ClosedIn(needs, r.diffs[j], Stored' \cup InHand(r, log) \cup UpToHere(r.diffs, j))
      BY <1>1, <1>5 DEF DiffsClosed
    <3>1. Appending(q) /\ InHand(q, log) = log[q.own].items BY <1>1, <1>5 DEF Appending, InHand
    <3>2. ClosedIn(needs, r.diffs[j], Stored \cup log[q.own].items \cup UpToHere(r.diffs, j))
      BY <1>1, <1>7, <1>8, <3>1 DEF RequestClosed, DiffsClosed
    <3> QED BY <1>6, <1>7, <1>8, <3>2, ClosedMore
  <2> QED BY <1>1, <1>7, <1>8, <2>1, <2>2 DEF RequestClosed, Answered
<1> QED BY <1>1, <1>2, <1>3, <1>8, CloseLane DEF RoomInv, LogInv, q

(* A batch stays a batch.                                                  *)
LEMMA BatchSame ==
  ASSUME NEW n, NEW q, NEW r, NEW v, NEW u, BatchClosed(n, q, v), q.pc # "idle", SameTab(q, r), v \subseteq u
  PROVE  BatchClosed(n, r, u)
<1> SUFFICES ASSUME NEW j \in DOMAIN r.batch
             PROVE  ClosedIn(n, r.batch[j], u \cup UpToHere(r.batch, j))
  BY DEF BatchClosed
<1>1. ClosedIn(n, r.batch[j], v \cup UpToHere(r.batch, j)) BY DEF BatchClosed, SameTab
<1> QED BY <1>1, ClosedMore

(* What accepted updates bring has what it needs in turn.                  *)
LEMMA DiffsInTurn ==
  ASSUME NEW start \in SUBSET Items, NEW b \in Seq(SUBSET Items), NEW n \in 0..Len(b),
         1..n \subseteq Merge(start, b).taken, NEW k \in 1..n
  PROVE  ClosedIn(needs, Merge(start, b).diffs[k], start \cup UpToHere(Merge(start, b).diffs, k))
<1> DEFINE m == Merge(start, b)
<1>1. InTurn(m, start, b) BY MergeInTurn
<1>2. k \in 1..Len(b) OBVIOUS
<1>3. m.diffs[k] \subseteq b[k] BY <1>2, MergeLosesNothing
<1> HIDE DEF m
<1>4. 1..n \subseteq m.taken BY DEF m
<1>5. Closed(b[k], start \cup UpToHere(m.diffs, k)) BY <1>1, <1>4 DEF InTurn
<1>6. ClosedIn(needs, m.diffs[k], start \cup UpToHere(m.diffs, k)) BY <1>3, <1>5 DEF Closed, ClosedIn
<1> QED BY <1>6 DEF m

(* Rows that need no row in hand.                                          *)
LEMMA NothingInHand ==
  ASSUME NEW n, NEW r, NEW l, NEW v,
         \A k \in DOMAIN r.diffs : ClosedIn(n, r.diffs[k], v \cup UpToHere(r.diffs, k))
  PROVE  DiffsClosed(n, r, l, v)
<1> SUFFICES ASSUME NEW k \in DOMAIN r.diffs
             PROVE  ClosedIn(n, r.diffs[k], v \cup InHand(r, l) \cup UpToHere(r.diffs, k))
  BY DEF DiffsClosed
<1>1. ClosedIn(n, r.diffs[k], v \cup UpToHere(r.diffs, k)) OBVIOUS
<1> QED BY <1>1, ClosedMore

(* A load refuses nothing for good: it takes the batch or asks for a       *)
(* rebuild, and what it accepted has what it needs.                        *)
LEMMA LoadRowsClosed ==
  ASSUME RoomInv, CloseInv, NEW w \in Workers, LoadRows(w) PROVE CloseInv'
<1> DEFINE s == LoadedBy(w)
           b == req[w].batch
           m == Merge(s, b)
<1>1. PICK r : /\ req[w].pc = "rows" /\ req' = [req EXCEPT ![w] = r] /\ Unchanging
               /\ r.tab = req[w].tab /\ r.heard = req[w].heard /\ r.batch = b
               /\ (LoadSettles(w, r, m) \/ LoadReplays(w, r, m))
  BY LoadRowsIs DEF RoomInv, LogInv
<1>2. SameTab(req[w], r) BY <1>1 DEF SameTab
<1>3. /\ UNCHANGED <<log, gone, doc, queue, needs>> /\ Stored' = Stored /\ LogGrows
  BY <1>1, QuietSame, QuietGrows
<1>4. s \in SUBSET Items /\ b \in Seq(SUBSET Items) /\ Len(b) \in Nat
  <2>1. req[w] \in Requests BY RequestIs DEF RoomInv, LogInv
  <2> QED BY <2>1, HeldType, RowsAfterType DEF Requests, LoadedBy, RoomInv, LogInv
<1>5. gone = {} => s \subseteq Stored
  <2>1. gone = {} => req[w].doc \subseteq Stored BY <1>1 DEF RoomInv, StoreInv, StoredOK
  <2> QED BY <2>1, VisibleRows DEF LoadedBy, RoomInv, LogInv
<1>6. gone = {} => BatchClosed(needs, r, Stored)
  <2>1. gone = {} => BatchClosed(needs, req[w], Stored) BY DEF CloseInv, RequestClosed
  <2> QED BY <1>1, <1>2, <2>1, BatchSame
<1> HIDE DEF s, b
<1>7. /\ m.diffs \in Seq(SUBSET Items) /\ Len(m.diffs) = Len(b) BY <1>4, MergeLosesNothing DEF Merged
<1>8. ASSUME NEW n \in 0..Len(b), 1..n \subseteq m.taken, NEW k \in 1..n, gone = {}
      PROVE  ClosedIn(needs, m.diffs[k], Stored \cup UpToHere(m.diffs, k))
  <2>1. ClosedIn(needs, m.diffs[k], s \cup UpToHere(m.diffs, k)) BY <1>4, <1>8, DiffsInTurn
  <2> HIDE DEF m
  <2> QED BY <1>5, <1>8, <2>1, ClosedMore
<1> HIDE DEF m
<1>9. gone = {} => DiffsClosed(needs, r, log, Stored) /\ Answered(r)
  <2> SUFFICES ASSUME gone = {} PROVE DiffsClosed(needs, r, log, Stored) /\ Answered(r)
    OBVIOUS
  <2>1. CASE LoadSettles(w, r, m)
    <3>1. /\ r.pc \in {"append", "read"} /\ r.diffs = Kept(m.diffs, m.taken) /\ m.taken = 1..Len(b)
          /\ DOMAIN r.verdicts = 1..Len(b)
          /\ \A k \in 1..Len(b) : r.verdicts[k] # "resync-required"
      BY <2>1 DEF LoadSettles, b
    <3>2. r.diffs = m.diffs BY <1>7, <3>1, KeptEverything
    <3>3. ASSUME NEW k \in DOMAIN m.diffs
          PROVE  ClosedIn(needs, m.diffs[k], Stored \cup UpToHere(m.diffs, k))
      <4>1. Len(b) \in 0..Len(b) /\ 1..Len(b) \subseteq m.taken /\ k \in 1..Len(b)
        BY <1>4, <1>7, <3>1
      <4> QED BY <1>8, <4>1
    <3>4. DiffsClosed(needs, r, log, Stored) BY <3>2, <3>3, NothingInHand
    <3> QED BY <3>1, <3>4 DEF Answered
  <2>2. CASE LoadReplays(w, r, m)
    <3> DEFINE d == r.diffs
               n == Len(d)
    <3>1. /\ r.pc = "replay" /\ r.verdicts = <<>> /\ d \in Seq(SUBSET Items) /\ n <= Len(b)
          /\ 1..n \subseteq m.taken /\ \A k \in 1..n : d[k] = m.diffs[k]
      BY <2>2 DEF LoadReplays, b
    <3>2. n \in 0..Len(b) /\ DOMAIN d = 1..n BY <1>4, <3>1
    <3>3. Answered(r) /\ r.pc # "commit" BY <3>1 DEF Answered
    <3> HIDE DEF d, n
    <3>4. ASSUME NEW k \in DOMAIN d PROVE ClosedIn(needs, d[k], Stored \cup UpToHere(d, k))
      <4>1. ClosedIn(needs, m.diffs[k], Stored \cup UpToHere(m.diffs, k)) BY <1>8, <3>1, <3>2
      <4>2. \A j \in 1..k : j \in 1..n BY <3>2
      <4>3. UpToHere(m.diffs, k) \subseteq UpToHere(d, k) BY <3>1, <4>2 DEF UpToHere
      <4>4. d[k] = m.diffs[k] BY <3>1, <3>2
      <4> QED BY <4>1, <4>3, <4>4, ClosedMore
    <3>5. \A k \in DOMAIN r.diffs : ClosedIn(needs, r.diffs[k], Stored \cup UpToHere(r.diffs, k))
      BY <3>4 DEF d
    <3> QED BY <3>3, <3>5, NothingInHand
  <2> QED BY <1>1, <2>1, <2>2
<1>10. gone = {} => RequestClosed(needs, r, log', Stored') BY <1>3, <1>6, <1>9 DEF RequestClosed
<1> QED BY <1>1, <1>2, <1>3, <1>10, CloseLane DEF RoomInv, LogInv

(* A replay of a log that nothing was trimmed from takes the whole batch.  *)
LEMMA RestTakesAll ==
  ASSUME BaseInv, NEW r, r.tab \in Tabs, RequestOK(r, Len(log), doc), r.pc = "replay",
         NEW v \in SUBSET Items, ClosedIn(needs, v, v), BatchClosed(needs, r, v),
         DiffsClosed(needs, r, log, v),
         \A k \in DOMAIN r.diffs : r.batch[k] \subseteq v \cup UNION Range(r.diffs)
  PROVE  LET m == MergeRest(v, r) IN
         /\ m.taken = 1..Len(r.batch)
         /\ m.diffs \in Seq(SUBSET Items) /\ Len(m.diffs) = Len(r.batch)
         /\ \A k \in 1..Len(r.batch) : ClosedIn(needs, m.diffs[k], v \cup UpToHere(m.diffs, k))
<1> DEFINE d == r.diffs
           n == Len(d)
           b == r.batch
           rest == SubSeq(b, n + 1, Len(b))
           start == v \cup UNION Range(d)
           m == Merge(start, rest)
           x == MergeRest(v, r)
<1>1. /\ b \in Seq(SUBSET Items) /\ d \in Seq(SUBSET Items) /\ n <= Len(b)
      /\ n \in Nat /\ DOMAIN d = 1..n /\ Len(b) \in Nat /\ DOMAIN b = 1..Len(b)
  BY DEF RequestOK, Requests
<1>2. start \in SUBSET Items BY <1>1 DEF Range
<1>3. x = [doc |-> m.doc, diffs |-> d \o m.diffs, taken |-> (1..n) \cup {n + k : k \in m.taken}]
  BY Zenon DEF MergeRest
<1>4. \A k \in DOMAIN b : ClosedIn(needs, b[k], v \cup UpToHere(b, k)) BY DEF BatchClosed
<1>5. \A k \in DOMAIN d : ClosedIn(needs, d[k], v \cup UpToHere(d, k))
  <2>1. InHand(r, log) = {} BY DEF InHand
  <2> QED BY <2>1 DEF DiffsClosed
<1>6. \A k \in DOMAIN d : b[k] \subseteq start OBVIOUS
<1> HIDE DEF n, b, d
<1>7. /\ rest \in Seq(SUBSET Items) /\ Len(rest) = Len(b) - n
      /\ \A k \in 1..(Len(b) - n) : n + k \in 1..Len(b) /\ rest[k] = b[n + k]
  <2>1. n \in 0..Len(b) BY <1>1
  <2> QED BY <1>1, <2>1, RestOf, Zenon
<1> HIDE DEF rest
<1>8. Whole(start)
  <2>1. \A k \in DOMAIN d : UpToHere(d, k) \subseteq UNION Range(d) BY <1>1 DEF UpToHere, Range
  <2>2. \A k \in DOMAIN d : ClosedIn(needs, d[k], start) BY <1>5, <2>1, ClosedMore
  <2>3. ClosedIn(needs, v, start) BY ClosedMore
  <2>4. \A y \in UNION Range(d) : needs[y] \subseteq start BY <2>2 DEF ClosedIn, Range
  <2> QED BY <2>3, <2>4 DEF Whole, ClosedIn
<1> HIDE DEF start
<1>9. v \subseteq start BY DEF start
<1>10. \A k \in 1..Len(rest) : Closed(rest[k], start \cup UpToHere(rest, k))
  <2> TAKE k \in 1..Len(rest)
  <2>1. n + k \in 1..Len(b) /\ rest[k] = b[n + k] /\ k \in Nat BY <1>7
  <2>2. UpToHere(b, n + k) \subseteq start \cup UpToHere(rest, k)
    <3> SUFFICES ASSUME NEW j \in 1..(n + k) PROVE b[j] \subseteq start \cup UpToHere(rest, k)
      BY DEF UpToHere
    <3>1. CASE j \in 1..n BY <3>1, <1>1, <1>6
    <3>2. CASE j \notin 1..n
      <4>1. j - n \in 1..k /\ j - n \in 1..(Len(b) - n) /\ n + (j - n) = j
        BY <3>2, <1>1, <1>7, <2>1
      <4>2. rest[j - n] = b[j] BY <4>1, <1>7
      <4> QED BY <4>1, <4>2 DEF UpToHere
    <3> QED BY <3>1, <3>2
  <2>3. ClosedIn(needs, b[n + k], v \cup UpToHere(b, n + k)) BY <1>1, <1>4, <2>1
  <2>4. ClosedIn(needs, rest[k], start \cup UpToHere(rest, k)) BY <1>9, <2>1, <2>2, <2>3, ClosedMore
  <2> QED BY <2>4 DEF ClosedIn, Closed
<1>11. m.taken = 1..Len(rest) BY <1>2, <1>7, <1>8, <1>10, MergeTakesAll
<1>12. /\ m.diffs \in Seq(SUBSET Items) /\ Len(m.diffs) = Len(rest)
  BY <1>2, <1>7, MergeLosesNothing DEF Merged
<1>13. \A k \in 1..Len(rest) : ClosedIn(needs, m.diffs[k], start \cup UpToHere(m.diffs, k))
  <2>1. Len(rest) \in 0..Len(rest) BY <1>7
  <2> QED BY <1>2, <1>7, <1>11, <2>1, DiffsInTurn
<1> HIDE DEF m, x
<1>14. x.diffs = d \o m.diffs /\ x.taken = (1..n) \cup {n + k : k \in m.taken} BY <1>3
<1> DEFINE e == m.diffs
           f == d \o e
<1> HIDE DEF e
<1>15. e \in Seq(SUBSET Items) /\ Len(e) = Len(rest) BY <1>12 DEF e
<1>16. /\ f \in Seq(SUBSET Items) /\ Len(f) = Len(d) + Len(e)
       /\ (\A k \in 1..Len(d) : f[k] = d[k])
       /\ (\A k \in 1..Len(e) : f[Len(d) + k] = e[k])
  <2>1. d \in Seq(SUBSET Items) /\ e \in Seq(SUBSET Items) BY <1>1, <1>15
  <2>2. /\ d \o e \in Seq(SUBSET Items) /\ Len(d \o e) = Len(d) + Len(e)
        /\ \A k \in 1..Len(d) : (d \o e)[k] = d[k]
        /\ \A k \in 1..Len(e) : (d \o e)[Len(d) + k] = e[k]
    BY <2>1, Joined
  <2> QED BY <2>2
<1>17. x.diffs = f BY <1>14 DEF e
<1> HIDE DEF f
<1>18. /\ x.diffs \in Seq(SUBSET Items) /\ Len(x.diffs) = n + Len(e)
       /\ (\A k \in 1..n : x.diffs[k] = d[k])
       /\ (\A k \in 1..Len(e) : x.diffs[n + k] = e[k])
  BY <1>16, <1>17 DEF n
<1> DEFINE y == x.diffs
<1>19. e \in Seq(SUBSET Items) /\ Len(e) = Len(b) - n /\ Len(y) = Len(b) /\ n \in Nat /\ Len(b) \in Nat
  BY <1>1, <1>7, <1>15, <1>18
<1>20. x.taken = 1..Len(b)
  <2>1. m.taken = 1..(Len(b) - n) BY <1>7, <1>11
  <2>2. \A k \in 1..Len(b) : k \in 1..n \/ (k - n \in 1..(Len(b) - n) /\ k = n + (k - n)) BY <1>19
  <2>3. \A k \in 1..(Len(b) - n) : n + k \in 1..Len(b) BY <1>19
  <2>4. 1..n \subseteq 1..Len(b) BY <1>1
  <2> QED BY <1>14, <2>1, <2>2, <2>3, <2>4
<1>21. \A k \in 1..Len(e) : ClosedIn(needs, e[k], start \cup UpToHere(e, k)) BY <1>12, <1>13 DEF e
<1> HIDE DEF e, y
<1>22. (\A k \in 1..n : y[k] = d[k]) /\ (\A k \in 1..Len(e) : y[n + k] = e[k]) BY <1>18 DEF e, y
<1>23. ASSUME NEW k \in 1..Len(b) PROVE ClosedIn(needs, y[k], v \cup UpToHere(y, k))
  <2>1. ASSUME NEW i \in 1..n, i <= k PROVE UpToHere(d, i) \subseteq UpToHere(y, k)
    <3>1. \A j \in 1..i : j \in 1..n /\ j \in 1..k BY <2>1, <1>1
    <3> QED BY <3>1, <1>22 DEF UpToHere
  <2>2. CASE k \in 1..n
    <3>1. ClosedIn(needs, d[k], v \cup UpToHere(d, k)) BY <1>1, <1>5, <2>2
    <3> QED BY <1>22, <2>1, <2>2, <3>1, ClosedMore
  <2>3. CASE k \notin 1..n
    <3> DEFINE j == k - n
    <3>1. j \in 1..Len(e) /\ k = n + j /\ j \in Nat BY <2>3, <1>19
    <3> HIDE DEF j
    <3>2. ClosedIn(needs, e[j], start \cup UpToHere(e, j)) BY <1>21, <3>1
    <3>3. UpToHere(e, j) \subseteq UpToHere(y, k)
      <4> SUFFICES ASSUME NEW i \in 1..j PROVE e[i] \subseteq UpToHere(y, k)
        BY DEF UpToHere
      <4>1. i \in 1..Len(e) /\ n + i \in 1..k BY <3>1, <1>19
      <4>2. y[n + i] = e[i] BY <1>22, <4>1
      <4> QED BY <4>1, <4>2 DEF UpToHere
    <3>4. UNION Range(d) \subseteq UpToHere(y, k)
      <4> SUFFICES ASSUME NEW i \in 1..n PROVE d[i] \subseteq UpToHere(y, k)
        BY <1>1 DEF Range
      <4>1. i \in 1..k BY <3>1, <1>19
      <4> QED BY <4>1, <1>22 DEF UpToHere
    <3>5. start \cup UpToHere(e, j) \subseteq v \cup UpToHere(y, k) BY <3>3, <3>4 DEF start
    <3>6. y[k] = e[j] BY <1>22, <3>1
    <3> QED BY <3>2, <3>5, <3>6, ClosedMore
  <2> QED BY <2>2, <2>3
<1>24. y \in Seq(SUBSET Items) BY <1>18 DEF y
<1> QED BY <1>19, <1>20, <1>23, <1>24 DEF x, b, y

(* A rebuild takes the whole batch.                                        *)
LEMMA ReplayClosed ==
  ASSUME RoomInv, CloseInv, NEW w \in Workers, Replay(w) PROVE CloseInv'
<1> DEFINE m == ReplayedBy(w)
           V == Held(RowsAfter(0))
           q == req[w]
           b == q.batch
<1>1. PICK r : /\ q.pc = "replay" /\ req' = [req EXCEPT ![w] = r] /\ Unchanging
               /\ SameTab(q, r)
               /\ r.pc = (IF m.doc # V THEN "append" ELSE "resave")
               /\ r.diffs = Kept(m.diffs, m.taken)
               /\ DOMAIN r.verdicts = 1..Len(b)
               /\ \A k \in 1..Len(b) : r.verdicts[k] # "resync-required" <=> k \in m.taken
  BY ReplayIs DEF RoomInv, LogInv
<1>2. /\ UNCHANGED <<log, gone, doc, queue, needs>> /\ Stored' = Stored /\ LogGrows
  BY <1>1, QuietSame, QuietGrows
<1>3. BaseInv /\ (gone = {} => V = Stored) /\ V \in SUBSET Items BY VisibleRows DEF RoomInv, LogInv
<1>4. q \in Requests /\ RequestOK(q, Len(log), doc) /\ q.tab \in Tabs
  <2>1. q \in Requests /\ RequestOK(q, Len(log), doc) BY <1>3, RequestIs
  <2> QED BY <1>1, <2>1 DEF RequestOK
<1>5. gone = {} => RequestClosed(needs, q, log, V) /\ ClosedIn(needs, V, V)
  BY <1>3, StoredIsClosed DEF CloseInv
<1>6. gone = {} => \A k \in DOMAIN q.diffs : q.batch[k] \subseteq V \cup UNION Range(q.diffs)
  BY <1>1, <1>3 DEF RoomInv, StoreInv, StoredOK
<1>7. m = MergeRest(V, q) BY DEF ReplayedBy
<1> HIDE DEF m, V, q
<1>8. ASSUME gone = {}
      PROVE  /\ m.taken = 1..Len(b) /\ m.diffs \in Seq(SUBSET Items) /\ Len(m.diffs) = Len(b)
             /\ \A k \in 1..Len(b) : ClosedIn(needs, m.diffs[k], V \cup UpToHere(m.diffs, k))
  <2>1. /\ MergeRest(V, q).taken = 1..Len(q.batch)
        /\ MergeRest(V, q).diffs \in Seq(SUBSET Items) /\ Len(MergeRest(V, q).diffs) = Len(q.batch)
        /\ \A k \in 1..Len(q.batch) :
             ClosedIn(needs, MergeRest(V, q).diffs[k], V \cup UpToHere(MergeRest(V, q).diffs, k))
    BY <1>1, <1>3, <1>4, <1>5, <1>6, <1>8, RestTakesAll DEF RequestClosed
  <2> QED BY <1>7, <2>1
<1> HIDE DEF b
<1>9. ASSUME gone = {} PROVE RequestClosed(needs, r, log, Stored)
  <2>1. r.diffs = m.diffs BY <1>1, <1>8, <1>9, KeptEverything
  <2>2. Answered(r) BY <1>1, <1>8, <1>9 DEF Answered
  <2>3. \A k \in DOMAIN r.diffs : ClosedIn(needs, r.diffs[k], Stored \cup UpToHere(r.diffs, k))
    <3>1. DOMAIN m.diffs = 1..Len(b) BY <1>8, <1>9
    <3> QED BY <1>3, <1>8, <1>9, <2>1, <3>1
  <2>4. DiffsClosed(needs, r, log, Stored) BY <2>3, NothingInHand
  <2>5. BatchClosed(needs, r, Stored)
    <3>1. BatchClosed(needs, q, V) /\ q.pc # "idle" BY <1>1, <1>5, <1>9 DEF RequestClosed
    <3>2. V = Stored BY <1>3, <1>9
    <3> QED BY <1>1, <3>1, <3>2, BatchSame
  <2> QED BY <2>2, <2>4, <2>5 DEF RequestClosed
<1>10. gone = {} /\ gone' = {} => RequestClosed(needs, r, log', Stored') BY <1>2, <1>9
<1>11. req' = [req EXCEPT ![w] = r] /\ SameTab(req[w], r) BY <1>1 DEF q
<1> QED BY <1>2, <1>3, <1>10, <1>11, CloseLane

(* An idle request carries nothing.                                        *)
LEMMA IdleClosed == ASSUME NEW n, NEW l, NEW v PROVE RequestClosed(n, Idle, l, v)
<1>1. Idle.pc = "idle" /\ Idle.verdicts = <<>> BY DEF Idle
<1> HIDE DEF Idle
<1>2. ~Appending(Idle) /\ DOMAIN Idle.verdicts = {} BY <1>1 DEF Appending
<1> QED BY <1>1, <1>2 DEF RequestClosed, BatchClosed, DiffsClosed, Answered

(* Steps that leave the log and change one request and the tabs.           *)
LEMMA CloseTabs ==
  ASSUME BaseInv, CloseInv, LogGrows, UNCHANGED <<log, needs>>, NEW w \in Workers, NEW r,
         req' = [req EXCEPT ![w] = r],
         gone = {} /\ gone' = {} => /\ RequestClosed(needs, r, log, Stored')
                      /\ \A t \in Tabs : TabClosed(needs, t, doc'[t], queue'[t], Stored', InFlight(req', t))
  PROVE  CloseInv'
<1> SUFFICES ASSUME gone' = {} PROVE
      /\ needs[Genesis] = {}
      /\ \A i \in DOMAIN log : RowClosed(needs, log[i], Stored')
      /\ \A u \in Workers : RequestClosed(needs, req'[u], log, Stored')
      /\ \A t \in Tabs : TabClosed(needs, t, doc'[t], queue'[t], Stored', InFlight(req', t))
  BY DEF CloseInv
<1>1. gone = {} BY DEF LogGrows
<1>2. Stored \subseteq Stored' BY <1>1 DEF LogGrows
<1>3. ASSUME NEW i \in DOMAIN log PROVE RowClosed(needs, log[i], Stored')
  <2>1. RowClosed(needs, log[i], Stored) BY <1>1 DEF CloseInv
  <2> QED BY <1>2, <2>1, ClosedMore DEF RowClosed
<1>4. ASSUME NEW u \in Workers PROVE RequestClosed(needs, req'[u], log, Stored')
  <2>1. CASE u = w BY <1>1, <2>1 DEF BaseInv
  <2>2. CASE u # w
    <3>1. req'[u] = req[u] BY <2>2 DEF BaseInv
    <3>2. RequestClosed(needs, req[u], log, Stored) BY <1>1 DEF CloseInv
    <3> QED BY <1>2, <3>1, <3>2, RequestClosedStays
  <2> QED BY <2>1, <2>2
<1> QED BY <1>1, <1>3, <1>4 DEF CloseInv

(* A document receives rows of the log.                                    *)
LEMMA DocReceives ==
  ASSUME NEW n, NEW t, NEW d, NEW q, NEW v, NEW f, TabClosed(n, t, d, q, v, f), ClosedIn(n, v, v),
         NEW h, h \subseteq v
  PROVE  TabClosed(n, t, d \cup h, q, v, f)
<1> DEFINE own == OwnOf(t, d)
           all == OwnOf(t, d \cup h)
<1>1. own \subseteq all /\ all \subseteq own \cup v BY DEF OwnOf
<1>2. d \subseteq v \cup own /\ ClosedIn(n, d, v \cup own) /\ own \subseteq (v \cup f) \cup UNION Range(q)
      /\ QueueClosed(n, q, v \cup f)
  BY DEF TabClosed, DocClosed, WorkIsKept
<1> HIDE DEF own, all
<1>3. DocClosed(n, t, d \cup h, v)
  <2>1. ClosedIn(n, d, v \cup all) BY <1>1, <1>2, ClosedMore
  <2>2. ClosedIn(n, h, v \cup all)
    <3>1. ClosedIn(n, h, v) BY ClosedParts
    <3> QED BY <3>1, ClosedMore
  <2>3. ClosedIn(n, d \cup h, v \cup all) BY <2>1, <2>2, ClosedParts
  <2>4. d \cup h \subseteq v \cup all BY <1>1, <1>2
  <2> QED BY <2>3, <2>4 DEF DocClosed, all
<1>4. WorkIsKept(OwnOf(t, d \cup h), q, v \cup f) BY <1>1, <1>2 DEF WorkIsKept, all
<1> QED BY <1>2, <1>3, <1>4 DEF TabClosed

(* A request at its end has stored its batch: a tab that forgets it has    *)
(* everything in the log.                                                  *)
LEMMA AnswerClosed ==
  ASSUME RoomInv, CloseInv, NEW w \in Workers, Answer(w) PROVE CloseInv'
<1> DEFINE q == req[w]
<1>1. PICK H : /\ H \subseteq Stored /\ q.pc = "read" /\ req' = [req EXCEPT ![w] = Idle]
               /\ UNCHANGED <<log, hidden, gone, queue, needs>>
               /\ doc' = doc \/ (q.heard /\ doc' = [doc EXCEPT ![q.tab] = @ \cup H])
  <2> DEFINE t == q.tab
             from == IF 0 < cursor[t] /\ cursor[t] < floor THEN floor - 1 ELSE cursor[t]
             sent == {i \in RowsAfter(from) : ~(log[i].type = "update" /\ log[i].from = t)}
  <2>1. Held(sent) \subseteq Stored
    <3>1. Held(RowsAfter(from)) \subseteq Stored BY VisibleRows DEF RoomInv, LogInv
    <3> QED BY <3>1 DEF Held
  <2>2. /\ q.pc = "read" /\ req' = [req EXCEPT ![w] = Idle]
        /\ UNCHANGED <<log, hidden, gone, queue, needs>>
        /\ doc' = doc \/ (q.heard /\ doc' = [doc EXCEPT ![t] = @ \cup Held(sent)])
    BY DEF Answer, room
  <2> HIDE DEF sent
  <2> QED BY <2>1, <2>2
<1>2. LogGrows /\ Stored' = Stored
  <2>1. UNCHANGED <<log, gone>> /\ hidden' \subseteq hidden BY <1>1
  <2>2. Committed' = Committed BY <1>1 DEF Committed
  <2> QED BY <1>1, <2>1, <2>2, SameLogGrows DEF Stored, Held
<1>3. BaseInv /\ RequestOK(q, Len(log), doc) /\ q \in Requests BY RequestIs DEF RoomInv, LogInv
<1>4. gone = {} => UNION Range(q.batch) \subseteq Stored
  <2>1. gone = {} => StoredOK(q, log, Stored) /\ Answered(q)
    BY DEF RoomInv, StoreInv, CloseInv, RequestClosed
  <2>2. DOMAIN q.verdicts = DOMAIN q.batch BY <1>1, <1>3 DEF RequestOK, Unmerged
  <2>3. Rest(q, log) = {} BY <1>1 DEF Rest, Appending
  <2>4. gone = {} => \A k \in DOMAIN q.batch : q.batch[k] \subseteq Stored
    BY <2>1, <2>2, <2>3 DEF StoredOK, Answered
  <2> QED BY <2>4 DEF Range
<1>5. Idle.heard = FALSE BY DEF Idle
<1>6. ASSUME gone = {}, NEW t \in Tabs PROVE TabClosed(needs, t, doc'[t], queue'[t], Stored', InFlight(req', t))
  <2>1. TabClosed(needs, t, doc[t], queue[t], Stored, InFlight(req, t)) BY <1>6 DEF CloseInv
  <2>2. InFlight(req, t) \subseteq InFlight(req', t) \cup UNION Range(q.batch)
    BY <1>1, <1>3, <1>5, FlightLoses
  <2>3. TabClosed(needs, t, doc[t], queue[t], Stored, InFlight(req', t))
    BY <1>4, <1>6, <2>1, <2>2, TabClosedStays
  <2>4. ClosedIn(needs, Stored, Stored) BY <1>3, <1>6, StoredIsClosed
  <2>5. doc'[t] = doc[t] \/ doc'[t] = doc[t] \cup H BY <1>1, <1>3 DEF BaseInv, TabTypes
  <2>6. TabClosed(needs, t, doc[t] \cup H, queue[t], Stored, InFlight(req', t))
    BY <1>1, <2>3, <2>4, DocReceives
  <2> QED BY <1>1, <1>2, <2>3, <2>5, <2>6
<1>7. RequestClosed(needs, Idle, log, Stored') BY IdleClosed
<1> QED BY <1>1, <1>2, <1>3, <1>6, <1>7, CloseTabs

(* A queue becomes the batch of a request, when nothing else of the tab is *)
(* in flight.                                                              *)
LEMMA SendClosed ==
  ASSUME RoomInv, CloseInv, NEW t \in Tabs, NEW w \in Workers, Send(t, w) PROVE CloseInv'
<1>1. PICK r : SendMakes(t, w, r) BY SendIs DEF RoomInv, LogInv
<1>2. /\ req[w].pc = "idle" /\ ~Waiting(t) /\ req' = [req EXCEPT ![w] = r]
      /\ queue' = [queue EXCEPT ![t] = <<>>]
      /\ UNCHANGED <<log, hidden, gone, doc, needs>>
      /\ r.pc \in {"read", "meta"} /\ r.verdicts = <<>>
      /\ r.tab = t /\ r.heard = TRUE /\ r.batch = queue[t]
  BY <1>1 DEF SendMakes, room
<1>3. LogGrows /\ Stored' = Stored
  <2>1. UNCHANGED <<log, gone>> /\ hidden' \subseteq hidden BY <1>2
  <2>2. Committed' = Committed BY <1>2 DEF Committed
  <2> QED BY <1>2, <2>1, <2>2, SameLogGrows DEF Stored, Held
<1>4. BaseInv /\ TabTypes /\ RequestOK(req[w], Len(log), doc) BY RequestIs DEF RoomInv, LogInv, BaseInv
<1>5. ~req[w].heard BY <1>2, <1>4 DEF RequestOK
<1>6. InFlight(req, t) = {}
  <2>1. \A u \in Workers : ~(req[u].heard /\ req[u].tab = t) BY <1>2 DEF Waiting
  <2> QED BY <2>1 DEF InFlight
<1>7. \A u \in Workers : req'[u] = IF u = w THEN r ELSE req[u] BY <1>2, <1>4 DEF BaseInv
<1>8. gone = {} => TabClosed(needs, t, doc[t], queue[t], Stored, {}) BY <1>6 DEF CloseInv
<1>9. gone = {} => RequestClosed(needs, r, log, Stored')
  <2>1. gone = {} => BatchClosed(needs, r, Stored)
    <3> SUFFICES ASSUME gone = {}, NEW k \in DOMAIN queue[t]
                 PROVE  ClosedIn(needs, queue[t][k], Stored \cup UpToHere(queue[t], k))
      BY <1>2 DEF BatchClosed
    <3>1. ClosedIn(needs, queue[t][k], (Stored \cup {}) \cup UpToHere(queue[t], k))
      BY <1>8 DEF TabClosed, QueueClosed
    <3> QED BY <3>1, ClosedMore
  <2>2. ~Appending(r) /\ r.pc # "replay" /\ DOMAIN r.verdicts = {} BY <1>2 DEF Appending
  <2> QED BY <1>3, <2>1, <2>2 DEF RequestClosed, DiffsClosed, Answered
<1>10. ASSUME gone = {}, NEW u \in Tabs PROVE TabClosed(needs, u, doc'[u], queue'[u], Stored', InFlight(req', u))
  <2>1. CASE u = t
    <3>1. queue'[t] = <<>> BY <1>2, <1>4 DEF TabTypes
    <3>2. UNION Range(queue[t]) \subseteq InFlight(req', t) BY <1>2, <1>7 DEF InFlight
    <3>3. DocClosed(needs, t, doc[t], Stored) /\ WorkIsKept(OwnOf(t, doc[t]), queue[t], Stored \cup {})
      BY <1>8, <1>10 DEF TabClosed
    <3>4. WorkIsKept(OwnOf(t, doc[t]), <<>>, Stored \cup InFlight(req', t))
      BY <3>2, <3>3 DEF WorkIsKept
    <3>5. QueueClosed(needs, <<>>, Stored \cup InFlight(req', t)) BY DEF QueueClosed
    <3> QED BY <1>2, <1>3, <2>1, <3>1, <3>3, <3>4, <3>5 DEF TabClosed
  <2>2. CASE u # t
    <3>1. queue'[u] = queue[u] BY <1>2, <1>4, <2>2 DEF TabTypes
    <3>2. InFlight(req, u) \subseteq InFlight(req', u) BY <1>5, <1>7 DEF InFlight
    <3>3. TabClosed(needs, u, doc[u], queue[u], Stored, InFlight(req, u)) BY <1>10 DEF CloseInv
    <3>4. TabClosed(needs, u, doc[u], queue[u], Stored, InFlight(req', u))
      BY <3>2, <3>3, TabClosedStays
    <3> QED BY <1>2, <1>3, <3>1, <3>4
  <2> QED BY <2>1, <2>2
<1> QED BY <1>2, <1>3, <1>4, <1>9, <1>10, CloseTabs

(* What a failed request carried goes back into the queue, before what is  *)
(* there, or the whole document does.                                      *)
LEMMA RequeueKeeps ==
  ASSUME NEW n, NEW t, NEW d, NEW q \in Seq(SUBSET Items), NEW v, NEW f, NEW g,
         TabClosed(n, t, d, q, v, f), NEW b \in Seq(SUBSET Items), f \subseteq g \cup UNION Range(b),
         \A k \in DOMAIN b : ClosedIn(n, b[k], v \cup UpToHere(b, k))
  PROVE  /\ TabClosed(n, t, d, <<d>>, v, g)
         /\ TabClosed(n, t, d, b \o q, v, g)
<1> DEFINE U == UNION Range(b)
           c == b \o q
<1>1. /\ DocClosed(n, t, d, v) /\ QueueClosed(n, q, v \cup f)
      /\ OwnOf(t, d) \subseteq (v \cup f) \cup UNION Range(q)
  BY DEF TabClosed, WorkIsKept
<1>2. TabClosed(n, t, d, <<d>>, v, g)
  <2>1. OwnOf(t, d) \subseteq d BY DEF OwnOf
  <2>2. UpToHere(<<d>>, 1) = d BY DEF UpToHere
  <2>3. ClosedIn(n, d, (v \cup g) \cup d)
    <3>1. ClosedIn(n, d, v \cup OwnOf(t, d)) BY <1>1 DEF DocClosed
    <3> QED BY <2>1, <3>1, ClosedMore
  <2>4. QueueClosed(n, <<d>>, v \cup g)
    <3> DEFINE s == <<d>>
    <3>1. DOMAIN s = {1} /\ s[1] = d /\ UpToHere(s, 1) = d BY <2>2
    <3> HIDE DEF s
    <3>2. QueueClosed(n, s, v \cup g) BY <2>3, <3>1 DEF QueueClosed
    <3> QED BY <3>2 DEF s
  <2>5. WorkIsKept(OwnOf(t, d), <<d>>, v \cup g)
    <3>1. UNION Range(<<d>>) = d BY DEF Range
    <3> QED BY <2>1, <3>1 DEF WorkIsKept
  <2> QED BY <1>1, <2>4, <2>5 DEF TabClosed
<1>3. /\ c \in Seq(SUBSET Items) /\ Len(c) = Len(b) + Len(q)
      /\ (\A k \in 1..Len(b) : c[k] = b[k])
      /\ (\A k \in 1..Len(q) : c[Len(b) + k] = q[k])
  <2>1. /\ b \o q \in Seq(SUBSET Items) /\ Len(b \o q) = Len(b) + Len(q)
        /\ \A k \in 1..Len(b) : (b \o q)[k] = b[k]
        /\ \A k \in 1..Len(q) : (b \o q)[Len(b) + k] = q[k]
    BY Joined
  <2> QED BY <2>1
<1>4. /\ Len(b) \in Nat /\ Len(q) \in Nat /\ DOMAIN b = 1..Len(b) /\ DOMAIN q = 1..Len(q)
      /\ DOMAIN c = 1..(Len(b) + Len(q))
  BY <1>3
<1> HIDE DEF c
<1>5. U \subseteq UNION Range(c) /\ UNION Range(q) \subseteq UNION Range(c)
  <2>1. \A k \in DOMAIN b : k \in DOMAIN c /\ c[k] = b[k] BY <1>3, <1>4
  <2>2. \A k \in DOMAIN q : Len(b) + k \in DOMAIN c /\ c[Len(b) + k] = q[k] BY <1>3, <1>4
  <2>3. \A k \in DOMAIN b : b[k] \subseteq UNION Range(c) BY <2>1 DEF Range
  <2>4. \A k \in DOMAIN q : q[k] \subseteq UNION Range(c) BY <2>2 DEF Range
  <2> QED BY <2>3, <2>4 DEF Range
<1>6. ASSUME NEW k \in DOMAIN c PROVE ClosedIn(n, c[k], (v \cup g) \cup UpToHere(c, k))
  <2>1. CASE k \in 1..Len(b)
    <3>1. ClosedIn(n, b[k], v \cup UpToHere(b, k)) BY <1>4, <2>1
    <3>2. \A i \in 1..k : i \in 1..Len(b) BY <1>4, <2>1
    <3>3. UpToHere(b, k) \subseteq UpToHere(c, k) BY <1>3, <3>2 DEF UpToHere
    <3> QED BY <1>3, <2>1, <3>1, <3>3, ClosedMore
  <2>2. CASE k \notin 1..Len(b)
    <3> DEFINE j == k - Len(b)
    <3>1. j \in 1..Len(q) /\ k = Len(b) + j /\ j \in Nat BY <1>4, <2>2
    <3> HIDE DEF j
    <3>2. ClosedIn(n, q[j], (v \cup f) \cup UpToHere(q, j)) BY <1>1, <1>4, <3>1 DEF QueueClosed
    <3>3. UpToHere(q, j) \subseteq UpToHere(c, k)
      <4> SUFFICES ASSUME NEW i \in 1..j PROVE q[i] \subseteq UpToHere(c, k)
        BY DEF UpToHere
      <4>1. i \in 1..Len(q) /\ Len(b) + i \in 1..k BY <3>1, <1>4
      <4>2. c[Len(b) + i] = q[i] BY <1>3, <4>1
      <4> QED BY <4>1, <4>2 DEF UpToHere
    <3>4. U \subseteq UpToHere(c, k)
      <4> SUFFICES ASSUME NEW i \in DOMAIN b PROVE b[i] \subseteq UpToHere(c, k)
        BY DEF Range
      <4>1. i \in 1..k /\ i \in 1..Len(b) BY <3>1, <1>4
      <4>2. c[i] = b[i] BY <1>3, <4>1
      <4> QED BY <4>1, <4>2 DEF UpToHere
    <3>5. (v \cup f) \cup UpToHere(q, j) \subseteq (v \cup g) \cup UpToHere(c, k) BY <3>3, <3>4
    <3>6. c[k] = q[j] BY <1>3, <3>1
    <3> QED BY <3>2, <3>5, <3>6, ClosedMore
  <2> QED BY <2>1, <2>2
<1>7. WorkIsKept(OwnOf(t, d), c, v \cup g) BY <1>1, <1>5 DEF WorkIsKept
<1>8. TabClosed(n, t, d, c, v, g) BY <1>1, <1>6, <1>7 DEF TabClosed, QueueClosed
<1> QED BY <1>2, <1>8 DEF c

(* A request that is not heard is like it was.                             *)
LEMMA UnheardClosed ==
  ASSUME NEW q \in Requests, NEW n, NEW l, NEW v, RequestClosed(n, q, l, v)
  PROVE  RequestClosed(n, [q EXCEPT !.heard = FALSE], l, v)
<1> DEFINE r == [q EXCEPT !.heard = FALSE]
<1>1. /\ r.pc = q.pc /\ r.batch = q.batch /\ r.own = q.own /\ r.diffs = q.diffs
      /\ r.verdicts = q.verdicts /\ r.then = q.then
  BY UnheardIs
<1> HIDE DEF r
<1>2. (Appending(r) <=> Appending(q)) /\ InHand(r, l) = InHand(q, l) BY <1>1 DEF Appending, InHand
<1>3. RequestClosed(n, r, l, v)
  BY <1>1, <1>2 DEF RequestClosed, BatchClosed, DiffsClosed, Answered
<1> QED BY <1>3 DEF r

(* A request fails for its tab.                                            *)
LEMMA FailClosed ==
  ASSUME RoomInv, CloseInv, NEW w \in Workers, Fail(w) PROVE CloseInv'
<1> DEFINE q == req[w]
           t == q.tab
<1>1. /\ q.heard /\ t \in Tabs /\ q.pc # "idle"
      /\ hidden' = hidden \ {q.own} /\ queue' = [queue EXCEPT ![t] = Requeued(w)]
      /\ \/ req' = [req EXCEPT ![w] = Idle]
         \/ req' = [req EXCEPT ![w] = [q EXCEPT !.heard = FALSE]]
      /\ UNCHANGED <<log, gone, doc, needs>>
  BY FailIs DEF RoomInv, LogInv
<1>2. LogGrows /\ (gone = {} => Stored \subseteq Stored')
  <2>1. UNCHANGED <<log, gone>> /\ hidden' \subseteq hidden BY <1>1
  <2>2. LogGrows BY <2>1, SameLogGrows
  <2> QED BY <2>1, <2>2 DEF LogGrows
<1>3. BaseInv /\ TabTypes /\ q \in Requests /\ RequestOK(q, Len(log), doc)
  BY RequestIs DEF RoomInv, LogInv, BaseInv
<1>4. Idle.heard = FALSE BY DEF Idle
<1>5. PICK r : /\ req' = [req EXCEPT ![w] = r] /\ r.heard = FALSE
               /\ gone = {} => RequestClosed(needs, r, log, Stored')
  <2>1. CASE req' = [req EXCEPT ![w] = Idle]
    <3>1. RequestClosed(needs, Idle, log, Stored') BY IdleClosed
    <3> QED BY <1>4, <2>1, <3>1
  <2>2. CASE req' = [req EXCEPT ![w] = [q EXCEPT !.heard = FALSE]]
    <3>1. gone = {} => RequestClosed(needs, q, log, Stored) BY DEF CloseInv
    <3> DEFINE r == [q EXCEPT !.heard = FALSE]
    <3>2. r.heard = FALSE BY <1>3, UnheardIs
    <3>3. gone = {} => RequestClosed(needs, r, log, Stored) BY <1>3, <3>1, UnheardClosed
    <3>4. req' = [req EXCEPT ![w] = r] BY <2>2
    <3> HIDE DEF r
    <3>5. gone = {} => RequestClosed(needs, r, log, Stored') BY <1>2, <3>3, RequestClosedStays
    <3> QED BY <3>2, <3>4, <3>5
  <2> QED BY <1>1, <2>1, <2>2
<1> DEFINE b == q.batch
<1>6. /\ b \in Seq(SUBSET Items) /\ queue[t] \in Seq(SUBSET Items) BY <1>1, <1>3 DEF Requests, TabTypes
<1>7. gone = {} => \A k \in DOMAIN b : ClosedIn(needs, b[k], Stored \cup UpToHere(b, k))
  BY <1>1 DEF CloseInv, RequestClosed, BatchClosed
<1>8. ASSUME gone = {}, NEW u \in Tabs PROVE TabClosed(needs, u, doc'[u], queue'[u], Stored', InFlight(req', u))
  <2> DEFINE f == InFlight(req, u)
             g == InFlight(req', u)
  <2>1. TabClosed(needs, u, doc[u], queue[u], Stored, f) BY <1>8 DEF CloseInv
  <2>2. /\ t # u => f \subseteq g
        /\ f \subseteq g \cup UNION Range(b)
    BY <1>3, <1>5, FlightLoses
  <2> HIDE DEF f, g, b
  <2>3. CASE u # t
    <3>1. queue'[u] = queue[u] BY <1>1, <1>3, <2>3 DEF TabTypes
    <3>2. TabClosed(needs, u, doc[u], queue[u], Stored', g) BY <1>2, <1>8, <2>1, <2>2, <2>3, TabClosedStays
    <3> QED BY <1>1, <3>1, <3>2 DEF g
  <2>4. CASE u = t
    <3>1. queue'[u] = Requeued(w) BY <1>1, <1>3, <2>4 DEF TabTypes
    <3>2. /\ TabClosed(needs, u, doc[u], <<doc[u]>>, Stored, g)
          /\ TabClosed(needs, u, doc[u], b \o queue[u], Stored, g)
      BY <1>6, <1>7, <1>8, <2>1, <2>2, <2>4, RequeueKeeps
    <3>3. b = <<>> => f \subseteq g
      <4>1. b = <<>> => UNION Range(b) = {} BY DEF Range
      <4> QED BY <2>2, <4>1
    <3>4. b = <<>> => TabClosed(needs, u, doc[u], queue[u], Stored, g) BY <2>1, <3>3, TabClosedStays
    <3>5. TabClosed(needs, u, doc[u], Requeued(w), Stored, g)
      <4>1. CASE b = <<>>
        <5>1. Requeued(w) = queue[u] BY <2>4, <4>1 DEF Requeued, b
        <5> QED BY <3>4, <4>1, <5>1
      <4>2. CASE b # <<>>
        <5>1. Requeued(w) \in {<<doc[u]>>, b \o queue[u]} BY <2>4, <4>2 DEF Requeued, b
        <5> QED BY <3>2, <5>1
      <4> QED BY <4>1, <4>2
    <3>6. TabClosed(needs, u, doc[u], Requeued(w), Stored', g) BY <1>2, <1>8, <3>5, TabClosedStays
    <3> QED BY <1>1, <3>1, <3>6 DEF g
  <2> QED BY <2>3, <2>4
<1> QED BY <1>1, <1>2, <1>3, <1>5, <1>8, CloseTabs


(* An edit gives needs to an item nobody had.                              *)
LEMMA KnownNeedsStay ==
  ASSUME BaseInv, NEW t, NEW item, NEW new, EditMakes(t, item, new), NEW items, items \subseteq KnownIn(doc),
         NEW d, ClosedIn(needs, items, d)
  PROVE  ClosedIn(needs', items, d)
<1>1. item \notin KnownIn(doc) BY DEF EditMakes, KnownIn
<1>2. \A x \in KnownIn(doc) : needs'[x] = needs[x]
  BY <1>1 DEF EditMakes, KnownIn, BaseInv, TabTypes
<1> QED BY <1>2 DEF ClosedIn

(* It disturbs no row and no request.                                      *)
LEMMA RoomKeepsNeeds ==
  ASSUME BaseInv, CloseInv, gone = {}, NEW t, NEW item, NEW new, EditMakes(t, item, new)
  PROVE  /\ \A i \in DOMAIN log : RowClosed(needs', log[i], Stored)
         /\ \A w \in Workers : RequestClosed(needs', req[w], log, Stored)
<1>1. ASSUME NEW i \in DOMAIN log PROVE RowClosed(needs', log[i], Stored)
  <2>1. ClosedIn(needs, log[i].items, Stored \cup log[i].items) BY DEF CloseInv, RowClosed
  <2>2. log[i].items \subseteq KnownIn(doc)
    <3>1. RowOK(log[i], doc) BY Zenon DEF BaseInv
    <3> QED BY <3>1 DEF RowOK
  <2> QED BY <2>1, <2>2, KnownNeedsStay DEF RowClosed
<1>2. ASSUME NEW w \in Workers PROVE RequestClosed(needs', req[w], log, Stored)
  <2> DEFINE r == req[w]
  <2>1. RequestClosed(needs, r, log, Stored) /\ RequestOK(r, Len(log), doc)
    BY RequestIs DEF CloseInv
  <2>2. r.pc # "idle" => /\ \A k \in DOMAIN r.batch : r.batch[k] \subseteq KnownIn(doc)
                         /\ \A k \in DOMAIN r.diffs : r.diffs[k] \subseteq KnownIn(doc)
    <3>1. r.pc # "idle" => doc[r.tab] \subseteq KnownIn(doc) BY <2>1 DEF RequestOK, BaseInv, TabOK
    <3> QED BY <2>1, <3>1 DEF RequestOK
  <2> HIDE DEF r
  <2>3. BatchClosed(needs', r, Stored)
    <3> SUFFICES ASSUME r.pc # "idle", NEW k \in DOMAIN r.batch
                 PROVE  ClosedIn(needs', r.batch[k], Stored \cup UpToHere(r.batch, k))
      BY DEF BatchClosed
    <3>1. ClosedIn(needs, r.batch[k], Stored \cup UpToHere(r.batch, k))
      BY <2>1 DEF RequestClosed, BatchClosed
    <3> QED BY <2>2, <3>1, KnownNeedsStay
  <2>4. DiffsClosed(needs', r, log, Stored)
    <3> SUFFICES ASSUME Appending(r) \/ r.pc = "replay", NEW k \in DOMAIN r.diffs
                 PROVE  ClosedIn(needs', r.diffs[k], Stored \cup InHand(r, log) \cup UpToHere(r.diffs, k))
      BY DEF DiffsClosed
    <3>1. ClosedIn(needs, r.diffs[k], Stored \cup InHand(r, log) \cup UpToHere(r.diffs, k))
      BY <2>1 DEF RequestClosed, DiffsClosed
    <3>2. r.pc # "idle" BY DEF Appending
    <3> QED BY <2>2, <3>1, <3>2, KnownNeedsStay
  <2> QED BY <2>1, <2>3, <2>4 DEF RequestClosed, r
<1> QED BY <1>1, <1>2

(* Nor what a tab has.                                                     *)
LEMMA TabKeepsNeeds ==
  ASSUME BaseInv, NEW t, NEW item, NEW new, EditMakes(t, item, new), NEW u \in Tabs, NEW v, NEW f,
         TabClosed(needs, u, doc[u], queue[u], v, f)
  PROVE  TabClosed(needs', u, doc[u], queue[u], v, f)
<1>1. doc[u] \subseteq KnownIn(doc) /\ \A k \in DOMAIN queue[u] : queue[u][k] \subseteq doc[u]
  BY DEF BaseInv, TabOK
<1>2. DocClosed(needs', u, doc[u], v)
  <2>1. ClosedIn(needs, doc[u], v \cup OwnOf(u, doc[u])) /\ doc[u] \subseteq v \cup OwnOf(u, doc[u])
    BY DEF TabClosed, DocClosed
  <2> QED BY <1>1, <2>1, KnownNeedsStay DEF DocClosed
<1>3. QueueClosed(needs', queue[u], v \cup f)
  <2> SUFFICES ASSUME NEW k \in DOMAIN queue[u]
               PROVE  ClosedIn(needs', queue[u][k], (v \cup f) \cup UpToHere(queue[u], k))
    BY DEF QueueClosed
  <2>1. ClosedIn(needs, queue[u][k], (v \cup f) \cup UpToHere(queue[u], k)) BY DEF TabClosed, QueueClosed
  <2> QED BY <1>1, <2>1, KnownNeedsStay
<1> QED BY <1>2, <1>3 DEF TabClosed

(* The new item is in the document and at the end of the queue.            *)
LEMMA ItemIsQueued ==
  ASSUME NEW n, NEW t, NEW d, NEW q \in Seq(SUBSET Items), NEW v, NEW f, TabClosed(n, t, d, q, v, f),
         NEW item \in Items, item[1] = t, n[item] \subseteq d
  PROVE  TabClosed(n, t, d \cup {item}, Append(q, {item}), v, f)
<1> DEFINE c == Append(q, {item})
           e == d \cup {item}
           own == OwnOf(t, d)
<1>1. /\ d \subseteq v \cup own /\ ClosedIn(n, d, v \cup own)
      /\ QueueClosed(n, q, v \cup f) /\ own \subseteq (v \cup f) \cup UNION Range(q)
  BY DEF TabClosed, DocClosed, WorkIsKept
<1>2. /\ Len(q) \in Nat /\ DOMAIN q = 1..Len(q) /\ DOMAIN c = 1..(Len(q) + 1)
      /\ (\A k \in 1..Len(q) : c[k] = q[k]) /\ c[Len(q) + 1] = {item}
  OBVIOUS
<1>3. OwnOf(t, e) = own \cup {item} BY DEF OwnOf
<1> HIDE DEF own, c
<1>4. DocClosed(n, t, e, v)
  <2>1. ClosedIn(n, d, v \cup OwnOf(t, e)) BY <1>1, <1>3, ClosedMore
  <2>2. ClosedIn(n, {item}, v \cup OwnOf(t, e)) BY <1>1, <1>3 DEF ClosedIn
  <2>3. ClosedIn(n, e, v \cup OwnOf(t, e)) BY <2>1, <2>2, ClosedParts
  <2> QED BY <1>1, <1>3, <2>3 DEF DocClosed
<1>5. UNION Range(q) \subseteq UpToHere(c, Len(q) + 1)
  <2> SUFFICES ASSUME NEW k \in DOMAIN q PROVE q[k] \subseteq UpToHere(c, Len(q) + 1)
    BY DEF Range
  <2>1. k \in 1..(Len(q) + 1) /\ c[k] = q[k] BY <1>2
  <2> QED BY <2>1 DEF UpToHere
<1>6. ASSUME NEW k \in DOMAIN c PROVE ClosedIn(n, c[k], (v \cup f) \cup UpToHere(c, k))
  <2>1. CASE k \in 1..Len(q)
    <3>1. ClosedIn(n, q[k], (v \cup f) \cup UpToHere(q, k)) BY <1>1, <1>2, <2>1 DEF QueueClosed
    <3>2. \A i \in 1..k : i \in 1..Len(q) BY <1>2, <2>1
    <3>3. UpToHere(q, k) \subseteq UpToHere(c, k) BY <1>2, <3>2 DEF UpToHere
    <3> QED BY <1>2, <2>1, <3>1, <3>3, ClosedMore
  <2>2. CASE k = Len(q) + 1
    <3>1. n[item] \subseteq (v \cup f) \cup UpToHere(c, k) BY <1>1, <1>5, <2>2
    <3> QED BY <1>2, <2>2, <3>1 DEF ClosedIn
  <2> QED BY <1>2, <2>1, <2>2
<1>7. WorkIsKept(OwnOf(t, e), c, v \cup f)
  <2>1. {item} \cup UNION Range(q) \subseteq UNION Range(c)
    <3>1. \A k \in DOMAIN q : k \in DOMAIN c /\ c[k] = q[k] BY <1>2
    <3>2. Len(q) + 1 \in DOMAIN c BY <1>2
    <3>3. \A k \in DOMAIN q : q[k] \subseteq UNION Range(c) BY <3>1 DEF Range
    <3>4. {item} \subseteq UNION Range(c) BY <1>2, <3>2 DEF Range
    <3> QED BY <3>3, <3>4 DEF Range
  <2> QED BY <1>1, <1>3, <2>1 DEF WorkIsKept
<1>8. TabClosed(n, t, e, c, v, f) BY <1>4, <1>6, <1>7 DEF TabClosed, QueueClosed
<1> QED BY <1>8 DEF c

(* A new item needs what its tab has, which is in the log, in flight or    *)
(* queued before it.                                                       *)
LEMMA EditClosed ==
  ASSUME RoomInv, CloseInv, NEW t \in Tabs, Edit(t) PROVE CloseInv'
<1>1. BaseInv /\ TabTypes BY DEF RoomInv, LogInv, BaseInv
<1>2. PICK item, new : EditMakes(t, item, new) BY <1>1, EditIs
<1>3. /\ item \in Items /\ item[1] = t /\ item # Genesis /\ new \subseteq doc[t]
      /\ needs' = [needs EXCEPT ![item] = new]
      /\ doc' = [doc EXCEPT ![t] = @ \cup {item}] /\ queue' = [queue EXCEPT ![t] = Append(@, {item})]
      /\ UNCHANGED <<log, hidden, gone, req>>
  BY <1>2 DEF EditMakes, room
<1>4. Stored' = Stored
  <2>1. Committed' = Committed BY <1>3 DEF Committed
  <2> QED BY <1>3, <2>1 DEF Stored, Held
<1>5. needs'[item] = new /\ needs'[Genesis] = needs[Genesis] BY <1>1, <1>3 DEF TabTypes, Items
<1> SUFFICES ASSUME gone = {} PROVE
      /\ needs'[Genesis] = {}
      /\ \A i \in DOMAIN log : RowClosed(needs', log[i], Stored)
      /\ \A w \in Workers : RequestClosed(needs', req[w], log, Stored)
      /\ \A u \in Tabs : TabClosed(needs', u, doc'[u], queue'[u], Stored, InFlight(req, u))
  BY <1>3, <1>4 DEF CloseInv
<1>6. needs'[Genesis] = {} BY <1>5 DEF CloseInv
<1>7. ASSUME NEW u \in Tabs PROVE TabClosed(needs', u, doc'[u], queue'[u], Stored, InFlight(req, u))
  <2>1. TabClosed(needs, u, doc[u], queue[u], Stored, InFlight(req, u)) BY DEF CloseInv
  <2>2. TabClosed(needs', u, doc[u], queue[u], Stored, InFlight(req, u))
    BY <1>1, <1>2, <2>1, TabKeepsNeeds
  <2>3. CASE u # t
    <3>1. doc'[u] = doc[u] /\ queue'[u] = queue[u] BY <1>1, <1>3, <2>3 DEF TabTypes
    <3> QED BY <2>2, <3>1
  <2>4. CASE u = t
    <3> DEFINE n == needs'
               q == queue[t]
    <3>1. doc'[t] = doc[t] \cup {item} /\ queue'[t] = Append(q, {item}) /\ q \in Seq(SUBSET Items)
      BY <1>1, <1>3 DEF TabTypes
    <3>2. n[item] \subseteq doc[t] BY <1>3, <1>5
    <3>3. TabClosed(n, t, doc[t], q, Stored, InFlight(req, t)) BY <2>2, <2>4
    <3> HIDE DEF n, q
    <3>4. TabClosed(n, t, doc[t] \cup {item}, Append(q, {item}), Stored, InFlight(req, t))
      BY <1>3, <3>1, <3>2, <3>3, ItemIsQueued
    <3> QED BY <2>4, <3>1, <3>4 DEF n
  <2> QED BY <2>3, <2>4
<1> QED BY <1>1, <1>2, <1>6, <1>7, RoomKeepsNeeds

(* The initial states.                                                     *)
LEMMA InitClosed == ASSUME Init PROVE CloseInv
<1>1. /\ gone = {} /\ hidden = {} /\ req = [w \in Workers |-> Idle]
      /\ needs = [i \in Items |-> {}] /\ doc = [t \in Tabs |-> {}] /\ queue = [t \in Tabs |-> <<>>]
  BY DEF Init
<1>2. BaseInv BY InitBase
<1>3. \A w \in Workers : RequestClosed(needs, req[w], log, Stored) BY <1>1, IdleClosed
<1>4. \A x \in Items : needs[x] = {} BY <1>1
<1>5. \A i \in DOMAIN log : RowClosed(needs, log[i], Stored)
  <2> TAKE i \in DOMAIN log
  <2>1. log[i].items \subseteq Items
    <3>1. RowOK(log[i], doc) BY <1>2, Zenon DEF BaseInv
    <3> QED BY <3>1 DEF RowOK, KnownIn
  <2> QED BY <1>4, <2>1 DEF RowClosed, ClosedIn
<1>6. \A t \in Tabs : TabClosed(needs, t, doc[t], queue[t], Stored, InFlight(req, t))
  <2> TAKE t \in Tabs
  <2>1. doc[t] = {} /\ queue[t] = <<>> BY <1>1
  <2>2. OwnOf(t, {}) = {} BY DEF OwnOf
  <2> QED BY <2>1, <2>2 DEF TabClosed, DocClosed, QueueClosed, WorkIsKept, ClosedIn
<1>7. needs[Genesis] = {} BY <1>4 DEF Items
<1> QED BY <1>3, <1>5, <1>6, <1>7 DEF CloseInv

(* Every step keeps needs within reach.                                    *)
LEMMA StepClosed == ASSUME RoomInv, CloseInv, [Next]_vars PROVE CloseInv'
<1>1. HistoryInv' BY StepHistory DEF RoomInv
<1>2. CASE UNCHANGED vars
  <2>1. UNCHANGED <<log, hidden, gone, req, doc, queue, needs>> BY <1>2 DEF vars, room, tabs
  <2>2. Stored' = Stored
    <3>1. Committed' = Committed BY <2>1 DEF Committed
    <3> QED BY <2>1, <3>1 DEF Stored, Held
  <2> QED BY <2>1, <2>2 DEF CloseInv
<1>3. ASSUME NEW w \in Workers, Handle(w) PROVE CloseInv'
  BY <1>1, <1>3, LoadMetaClosed, LoadRowsClosed, ReplayClosed, StoreRowClosed, CommitClosed,
     CheckpointDueClosed, StoreSnapshotClosed, StoreGenesisClosed, MetaStepsClosed, AnswerClosed
     DEF Handle
<1> QED BY <1>2, <1>3, EditClosed, SendClosed, FailClosed DEF Next

(* RepairFromLog: as long as nothing was trimmed, whatever rows are late,  *)
(* saves race and requests die, the log repairs every refusal.             *)
THEOREM Repairs == Spec => []RepairFromLog
<1>1. Init => RoomInv /\ CloseInv
  BY InitBase, InitHistory, InitStored, InitClosed DEF RoomInv, LogInv, HistoryInv
<1>2. RoomInv /\ CloseInv /\ [Next]_vars => (RoomInv /\ CloseInv)'
  <2>1. RoomInv /\ [Next]_vars => RoomInv'
    BY StepBase, StepHistory, StepStored DEF RoomInv, LogInv, HistoryInv
  <2> QED BY <2>1, StepClosed
<1>3. CloseInv => RepairFromLog
  BY DEF CloseInv, RequestClosed, Answered, RepairFromLog, Range
<1> QED BY <1>1, <1>2, <1>3, PTL DEF Spec
=============================================================================

