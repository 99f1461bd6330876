-------------------------- MODULE RoomLifetimeProofs --------------------------
(***************************************************************************)
(* The lifetime of a room, for any tabs, bounds and edits, and whether or  *)
(* not presence accesses of requests interleave: types; no tab that is     *)
(* sure of the room resets it or loses it to another's reset; and a tab    *)
(* settles no edit of the room it knows before it has the row.  What a     *)
(* lost join or a reset under a request at work takes away is named by     *)
(* the history variables attending and struck.                             *)
(***************************************************************************)
EXTENDS RoomLifetime, SelectionProofs, FiniteSetTheorems, TLAPS

(* Types.                                                                  *)

Marks  == {"none", "seen", "joined"}
Phases == {"idle", "note", "wipe-rows", "wipe-meta", "ingest", "read", "generation", "mint", "answer"}
Lowest == -(4 * Cardinality(Tabs) + 2)

TailType == [end : Nat, batch : SUBSET Edits]

TabType == [open : BOOLEAN, view : SUBSET Nat, cursor : Nat, gen : Int, written : SUBSET Edits,
            queue : SUBSET Edits, settled : SUBSET Edits, tails : Seq(TailType)]

RequestType == [pc : Phases, batch : SUBSET Edits, after : Nat, rows : SUBSET Nat, end : Nat,
                gen : Int, first : BOOLEAN]

(* What a tab and its requests hold is about the first n rows, and what a  *)
(* tab has queued, held or settled are edits made in it.                   *)
TabFits(tb, n) ==
  /\ tb \in TabType
  /\ tb.view \subseteq 1..n /\ tb.cursor <= n /\ tb.gen \in Lowest..n
  /\ tb.queue \cup tb.settled \subseteq tb.written
  /\ \A k \in 1..Len(tb.tails) : tb.tails[k].batch \subseteq tb.written

RequestFits(tb, r, n) ==
  /\ r \in RequestType
  /\ r.rows \subseteq 1..n /\ r.end <= n /\ r.gen \in Lowest..n
  /\ tb.open => r.batch \subseteq tb.written

TypeInv ==
  /\ log \in Seq(Edits \cup {Genesis}) /\ cut \in 0..Len(log) /\ generation \in Lowest..Len(log)
  /\ tokens \in [Tabs -> Marks] /\ awareness \subseteq Tabs /\ attending \subseteq Tabs /\ struck \subseteq Edits
  /\ beat \in [Tabs -> Seq([Tabs -> Marks])]
  /\ spent \in [edits : [Tabs -> Nat], opens : Nat, troubles : Nat]
  /\ tab \in [Tabs -> TabType] /\ req \in [Tabs -> [Lanes -> RequestType]]
  /\ \A t \in Tabs : /\ TabFits(tab[t], Len(log))
                     /\ \A l \in Lanes : RequestFits(tab[t], req[t][l], Len(log))

(* The least token a room can have.                                        *)
LEMMA LowestType == Cardinality(Tabs) \in Nat /\ Lowest \in Int /\ Lowest <= -2
BY Kinds, FS_CardinalityType DEF Lowest

(* A finite set of integers that is not empty has a greatest member.       *)
LEMMA MaxIsGreatest ==
  ASSUME NEW S \in SUBSET Int, NEW b \in Int, S # {}, \A x \in S : x <= b
  PROVE  Max(S) \in S /\ \A x \in S : Max(S) >= x
<1> DEFINE T == {n \in Nat : b - n \in S}
<1>1. PICK s \in S : TRUE
  OBVIOUS
<1>2. \A x \in S : b - x \in T
  <2> TAKE x \in S
  <2>1. x \in Int /\ x <= b /\ b - (b - x) = x
    OBVIOUS
  <2> QED
    BY <2>1
<1>3. PICK n \in T : \A m \in T : ~(m < n)
  <2>1. T \in SUBSET Nat /\ T # {}
    BY <1>1, <1>2
  <2> HIDE DEF T
  <2> QED
    BY <2>1, LeastNumber
<1>4. b - n \in S /\ n \in Nat
  OBVIOUS
<1>5. \A x \in S : b - n >= x
  <2> TAKE x \in S
  <2>1. b - x \in T /\ x \in Int
    BY <1>2
  <2>2. ~(b - x < n)
    BY <1>3, <2>1
  <2> QED
    BY <1>4, <2>1, <2>2
<1>6. \E x \in S : \A y \in S : x >= y
  BY <1>4, <1>5
<1> QED
  BY <1>6 DEF Max

(* The image of a finite set under a function.                             *)
LEMMA ImageIsSmall ==
  ASSUME NEW S, IsFiniteSet(S), NEW f
  PROVE  IsFiniteSet({f[x] : x \in S}) /\ Cardinality({f[x] : x \in S}) <= Cardinality(S)
<1> DEFINE g == [x \in S |-> f[x]]
           T == {f[x] : x \in S}
<1>1. g \in Surjection(S, T)
  BY DEF Surjection
<1> HIDE DEF g, T
<1>2. IsFiniteSet(T) /\ Cardinality(T) <= Cardinality(S)
  BY <1>1, FS_Surjection
<1> QED
  BY <1>2 DEF T

(* A union is no larger than its parts together.                           *)
LEMMA UnionIsSmall ==
  ASSUME NEW S, IsFiniteSet(S), NEW T, IsFiniteSet(T)
  PROVE  IsFiniteSet(S \cup T) /\ Cardinality(S \cup T) <= Cardinality(S) + Cardinality(T)
<1>1. IsFiniteSet(S \cup T) /\ Cardinality(S \cup T) = Cardinality(S) + Cardinality(T) - Cardinality(S \cap T)
  BY FS_Union
<1>2. IsFiniteSet(S \cap T)
  BY FS_Intersection
<1>3. Cardinality(S \cap T) \in Nat /\ Cardinality(S) \in Nat /\ Cardinality(T) \in Nat
  BY <1>2, FS_CardinalityType
<1> QED
  BY <1>1, <1>3

(* The tokens somebody holds are few: one of the room, one per tab and one *)
(* per request.                                                            *)
LEMMA HeldIsSmall ==
  IsFiniteSet(Held) /\ Cardinality(Held) \in Nat /\ Cardinality(Held) <= 4 * Cardinality(Tabs) + 1
<1> DEFINE ofTab == [t \in Tabs |-> tab[t].gen]
           ofReq == [r \in Tabs \X Lanes |-> req[r[1]][r[2]].gen]
           A == {ofTab[t] : t \in Tabs}
           B == {ofReq[r] : r \in Tabs \X Lanes}
<1>1. Held = ({generation} \cup A) \cup B
  BY DEF Held
<1>2. IsFiniteSet(Tabs) /\ Cardinality(Tabs) \in Nat
  BY Kinds, FS_CardinalityType
<1>3. IsFiniteSet(Lanes) /\ Cardinality(Lanes) <= 3 /\ Cardinality(Lanes) \in Nat
  <2>1. IsFiniteSet({"receive"}) /\ Cardinality({"receive"}) = 1
    BY FS_Singleton
  <2>2. IsFiniteSet({"send"}) /\ Cardinality({"send"}) = 1
    BY FS_Singleton
  <2>3. IsFiniteSet({"beacon"}) /\ Cardinality({"beacon"}) = 1
    BY FS_Singleton
  <2>4. IsFiniteSet({"receive"} \cup {"send"}) /\ Cardinality({"receive"} \cup {"send"}) <= 2
    BY <2>1, <2>2, UnionIsSmall
  <2>5. Cardinality({"receive"} \cup {"send"}) \in Nat
    BY <2>4, FS_CardinalityType
  <2>6. /\ IsFiniteSet(({"receive"} \cup {"send"}) \cup {"beacon"})
        /\ Cardinality(({"receive"} \cup {"send"}) \cup {"beacon"}) <=
             Cardinality({"receive"} \cup {"send"}) + Cardinality({"beacon"})
    BY <2>3, <2>4, UnionIsSmall
  <2>7. Lanes = ({"receive"} \cup {"send"}) \cup {"beacon"}
    BY DEF Lanes
  <2>8. Cardinality(Lanes) \in Nat
    BY <2>6, <2>7, FS_CardinalityType
  <2> QED
    BY <2>3, <2>4, <2>5, <2>6, <2>7, <2>8
<1>4. IsFiniteSet(Tabs \X Lanes) /\ Cardinality(Tabs \X Lanes) = Cardinality(Tabs) * Cardinality(Lanes)
  BY <1>2, <1>3, FS_Product
<1>5. Cardinality(Tabs) * Cardinality(Lanes) <= 3 * Cardinality(Tabs)
  BY <1>2, <1>3
<1>6. IsFiniteSet(A) /\ Cardinality(A) <= Cardinality(Tabs)
  <2> HIDE DEF ofTab
  <2> QED
    BY <1>2, ImageIsSmall
<1>7. IsFiniteSet(B) /\ Cardinality(B) <= Cardinality(Tabs \X Lanes)
  <2> HIDE DEF ofReq
  <2> QED
    BY <1>4, ImageIsSmall
<1> HIDE DEF A, B
<1>8. IsFiniteSet({generation}) /\ Cardinality({generation}) = 1
  BY FS_Singleton
<1>9. IsFiniteSet({generation} \cup A) /\ Cardinality({generation} \cup A) <= 1 + Cardinality(A)
  BY <1>6, <1>8, UnionIsSmall
<1>10. IsFiniteSet(Held) /\ Cardinality(Held) <= Cardinality({generation} \cup A) + Cardinality(B)
  BY <1>1, <1>7, <1>9, UnionIsSmall
<1>11. {Cardinality(Held), Cardinality({generation} \cup A), Cardinality(A), Cardinality(B)} \subseteq Nat
  BY <1>6, <1>7, <1>9, <1>10, FS_CardinalityType
<1>12. Cardinality(B) <= 3 * Cardinality(Tabs)
  <2> DEFINE n == Cardinality(Tabs \X Lanes)
  <2>1. n \in Nat /\ n <= 3 * Cardinality(Tabs)
    BY <1>4, <1>5, FS_CardinalityType
  <2> HIDE DEF n
  <2>2. Cardinality(B) <= n
    BY <1>7 DEF n
  <2> QED
    BY <1>2, <1>11, <2>1, <2>2
<1> QED
  BY <1>2, <1>6, <1>9, <1>10, <1>11, <1>12

(* A random token is a number below zero that nobody holds.                *)
LEMMA RandomIsFree == Random \in Lowest..(-1) /\ Random \notin Held
<1> DEFINE c == Cardinality(Held)
           N == {-n : n \in 1..(c + 1)}
           neg == [n \in 1..(c + 1) |-> -n]
<1>1. IsFiniteSet(Held) /\ c \in Nat /\ c <= 4 * Cardinality(Tabs) + 1
  BY HeldIsSmall
<1> HIDE DEF c
<1>2. N \ Held # {}
  <2> SUFFICES ASSUME N \subseteq Held PROVE FALSE
    OBVIOUS
  <2>1. neg \in [1..(c + 1) -> Held]
    OBVIOUS
  <2>2. IsFiniteSet(1..(c + 1)) /\ Cardinality(1..(c + 1)) = c + 1
    BY <1>1, FS_Interval
  <2>3. \A x, y \in 1..(c + 1) : neg[x] = neg[y] => x = y
    BY <1>1
  <2> HIDE DEF neg
  <2>4. Cardinality(Held) < Cardinality(1..(c + 1))
    BY <1>1, <2>2 DEF c
  <2>5. \E x, y \in 1..(c + 1) : x # y /\ neg[x] = neg[y]
    BY <1>1, <2>1, <2>2, <2>4, FS_PigeonHole
  <2> QED
    BY <2>3, <2>5
<1> DEFINE M == N \ Held
<1>3. M \in SUBSET Int /\ \A x \in M : x <= 0
  BY <1>1
<1>4. M # {}
  BY <1>2
<1>5. Random = Max(M)
  BY DEF Random, c
<1>6. M \subseteq N /\ M \cap Held = {}
  OBVIOUS
<1> HIDE DEF M
<1>7. Max(M) \in M
  BY <1>3, <1>4, MaxIsGreatest
<1>8. Random \in N /\ Random \notin Held
  BY <1>5, <1>6, <1>7
<1>9. PICK n \in 1..(c + 1) : Random = -n
  BY <1>8
<1> QED
  BY <1>1, <1>8, <1>9, LowestType DEF Lowest

(* What fits a room fits a longer one.                                     *)
LEMMA FitsGrow ==
  ASSUME NEW n \in Nat, NEW m \in Nat, n <= m, NEW tb, NEW r
  PROVE  /\ TabFits(tb, n) => TabFits(tb, m)
         /\ RequestFits(tb, r, n) => RequestFits(tb, r, m)
<1>1. 1..n \subseteq 1..m
  OBVIOUS
<1>2. Lowest..n \subseteq Lowest..m
  BY LowestType
<1>3. ASSUME TabFits(tb, n) PROVE TabFits(tb, m)
  <2>1. tb.cursor \in Nat
    BY <1>3 DEF TabFits, TabType
  <2> QED
    BY <1>1, <1>2, <1>3, <2>1 DEF TabFits
<1>4. ASSUME RequestFits(tb, r, n) PROVE RequestFits(tb, r, m)
  <2>1. r.end \in Nat
    BY <1>4 DEF RequestFits, RequestType
  <2> QED
    BY <1>1, <1>2, <1>4, <2>1 DEF RequestFits
<1> QED
  BY <1>3, <1>4

(* A step of one tab, with what it stores and announces.                   *)
LEMMA TypeMove ==
  ASSUME TypeInv, NEW t \in Tabs, NEW tb, NEW rq \in [Lanes -> RequestType],
         log' \in Seq(Edits \cup {Genesis}), Len(log) <= Len(log'),
         cut' \in 0..Len(log'), generation' \in Lowest..Len(log'),
         tokens' \in [Tabs -> Marks], awareness' \subseteq Tabs, attending' \subseteq Tabs /\ struck' \subseteq Edits,
         beat' \in [Tabs -> Seq([Tabs -> Marks])],
         spent' \in [edits : [Tabs -> Nat], opens : Nat, troubles : Nat],
         tab' = [tab EXCEPT ![t] = tb], req' = [req EXCEPT ![t] = rq],
         TabFits(tb, Len(log')), \A l \in Lanes : RequestFits(tb, rq[l], Len(log'))
  PROVE  TypeInv'
<1>1. tb \in TabType
  BY DEF TabFits
<1>2. tab' \in [Tabs -> TabType] /\ req' \in [Tabs -> [Lanes -> RequestType]]
  BY <1>1 DEF TypeInv
<1>3. Len(log) \in Nat /\ Len(log') \in Nat
  BY DEF TypeInv
<1>4. ASSUME NEW u \in Tabs
      PROVE  TabFits(tab'[u], Len(log')) /\ \A l \in Lanes : RequestFits(tab'[u], req'[u][l], Len(log'))
  <2>1. CASE u = t
    <3>1. tab'[u] = tb /\ req'[u] = rq
      BY <2>1 DEF TypeInv
    <3> QED
      BY <3>1
  <2>2. CASE u # t
    <3>1. tab'[u] = tab[u] /\ req'[u] = req[u]
      BY <2>2 DEF TypeInv
    <3>2. TabFits(tab[u], Len(log)) /\ \A l \in Lanes : RequestFits(tab[u], req[u][l], Len(log))
      BY DEF TypeInv
    <3> QED
      BY <1>3, <3>1, <3>2, FitsGrow
  <2> QED
    BY <2>1, <2>2
<1> QED
  BY <1>2, <1>4 DEF TypeInv

(* A step of one request, which leaves the tab as it is.                   *)
LEMMA TypeServe ==
  ASSUME TypeInv, NEW t \in Tabs, NEW l \in Lanes, NEW r,
         log' \in Seq(Edits \cup {Genesis}), Len(log) <= Len(log'),
         cut' \in 0..Len(log'), generation' \in Lowest..Len(log'),
         tokens' \in [Tabs -> Marks], awareness' \subseteq Tabs, attending' \subseteq Tabs /\ struck' \subseteq Edits,
         UNCHANGED <<tab, beat, spent>>, req' = [req EXCEPT ![t][l] = r],
         RequestFits(tab[t], r, Len(log'))
  PROVE  TypeInv'
<1> DEFINE rq == [req[t] EXCEPT ![l] = r]
<1>1. r \in RequestType
  BY DEF RequestFits
<1>2. req[t] \in [Lanes -> RequestType] /\ Len(log) \in Nat /\ Len(log') \in Nat
  BY DEF TypeInv
<1>3. rq \in [Lanes -> RequestType] /\ rq[l] = r /\ \A m \in Lanes \ {l} : rq[m] = req[t][m]
  BY <1>1, <1>2
<1>4. tab' = [tab EXCEPT ![t] = tab[t]] /\ req' = [req EXCEPT ![t] = rq]
  BY DEF TypeInv
<1>5. TabFits(tab[t], Len(log)) /\ \A m \in Lanes : RequestFits(tab[t], req[t][m], Len(log))
  BY DEF TypeInv
<1> HIDE DEF rq
<1>6. TabFits(tab[t], Len(log'))
  BY <1>2, <1>5, FitsGrow
<1>7. ASSUME NEW m \in Lanes PROVE RequestFits(tab[t], rq[m], Len(log'))
  <2>1. CASE m = l
    BY <1>3, <2>1
  <2>2. CASE m # l
    <3>1. RequestFits(tab[t], req[t][m], Len(log'))
      BY <1>2, <1>5, FitsGrow
    <3> QED
      BY <1>3, <2>2, <3>1
  <2> QED
    BY <2>1, <2>2
<1>8. beat' \in [Tabs -> Seq([Tabs -> Marks])] /\ spent' \in [edits : [Tabs -> Nat], opens : Nat, troubles : Nat]
  BY DEF TypeInv
<1> QED
  BY <1>3, <1>4, <1>6, <1>7, <1>8, TypeMove

(* A step of a tab that leaves the room and its presence alone.            *)
LEMMA TypeTab ==
  ASSUME TypeInv, NEW t \in Tabs, NEW tb, NEW rq \in [Lanes -> RequestType],
         UNCHANGED <<log, cut, generation, beat>>,
         tokens' \in [Tabs -> Marks], awareness' \subseteq Tabs, attending' \subseteq Tabs /\ struck' \subseteq Edits,
         spent' \in [edits : [Tabs -> Nat], opens : Nat, troubles : Nat],
         tab' = [tab EXCEPT ![t] = tb], req' = [req EXCEPT ![t] = rq],
         TabFits(tb, Len(log)), \A l \in Lanes : RequestFits(tb, rq[l], Len(log))
  PROVE  TypeInv'
<1>1. log' \in Seq(Edits \cup {Genesis}) /\ Len(log) <= Len(log') /\ cut' \in 0..Len(log')
      /\ generation' \in Lowest..Len(log') /\ beat' \in [Tabs -> Seq([Tabs -> Marks])]
  BY DEF TypeInv
<1>2. TabFits(tb, Len(log')) /\ \A l \in Lanes : RequestFits(tb, rq[l], Len(log'))
  OBVIOUS
<1> QED
  BY <1>1, <1>2, TypeMove

(* An idle request and a closed tab fit any room.                          *)
LEMMA IdleFits ==
  ASSUME NEW tb, NEW n \in Nat
  PROVE  /\ RequestFits(tb, Idle, n) /\ TabFits(Closed, n)
         /\ Idle.pc = "idle" /\ Idle.batch = {} /\ ~Closed.open /\ Closed.settled = {}
<1>1. Idle \in RequestType
  BY DEF Idle, RequestType, Phases
<1>2. Closed \in TabType
  BY DEF Closed, TabType
<1>3. 0 \in Lowest..n
  BY LowestType
<1>4. RequestFits(tb, Idle, n)
  BY <1>1, <1>3 DEF RequestFits, Idle
<1>5. TabFits(Closed, n)
  BY <1>2, <1>3 DEF TabFits, Closed
<1> QED
  BY <1>4, <1>5 DEF Idle, Closed

-----------------------------------------------------------------------------

(* What draining does: the oldest tails whose end the cursor has reached.  *)
Drains(tb, n) ==
  /\ n \in 0..Len(tb.tails) /\ \A k \in 1..n : tb.tails[k].end <= tb.cursor
  /\ Drained(tb) = [tb EXCEPT !.settled = @ \cup UNION {tb.tails[i].batch : i \in 1..n},
                              !.tails = SubSeq(@, n + 1, Len(@))]

(* The tails that drain are a prefix.                                      *)
LEMMA DrainedIs ==
  ASSUME NEW tb \in TabType
  PROVE  \E n : Drains(tb, n)
<1> DEFINE S == {0} \cup {i \in DOMAIN tb.tails : \A j \in 1..i : tb.tails[j].end <= tb.cursor}
<1>1. tb.tails \in Seq(TailType)
  BY DEF TabType
<1>2. DOMAIN tb.tails = 1..Len(tb.tails) /\ Len(tb.tails) \in Nat
  BY <1>1
<1>3. S \in SUBSET Int /\ S # {} /\ \A x \in S : x <= Len(tb.tails)
  BY <1>2
<1>4. \A x \in S : x \in 0..Len(tb.tails) /\ \A k \in 1..x : tb.tails[k].end <= tb.cursor
  BY <1>2
<1>5. Drained(tb) = [tb EXCEPT !.settled = @ \cup UNION {tb.tails[i].batch : i \in 1..Max(S)},
                               !.tails = SubSeq(@, Max(S) + 1, Len(@))]
  BY DEF Drained
<1> HIDE DEF S
<1>6. Max(S) \in S
  <2>1. Len(tb.tails) \in Int
    BY <1>2
  <2> QED
    BY <1>3, <2>1, MaxIsGreatest, Zenon
<1> QED
  BY <1>4, <1>5, <1>6 DEF Drains

(* The fields of the drained tab.                                          *)
LEMMA DrainedFields ==
  ASSUME NEW tb \in TabType, NEW n, Drains(tb, n)
  PROVE  LET db == Drained(tb) IN
         /\ db \in TabType
         /\ db.open = tb.open /\ db.view = tb.view /\ db.cursor = tb.cursor /\ db.gen = tb.gen
         /\ db.written = tb.written /\ db.queue = tb.queue
         /\ db.settled = tb.settled \cup UNION {tb.tails[i].batch : i \in 1..n}
         /\ Len(db.tails) = Len(tb.tails) - n
         /\ \A k \in 1..Len(db.tails) : k + n \in 1..Len(tb.tails) /\ db.tails[k] = tb.tails[k + n]
<1> DEFINE rest == SubSeq(tb.tails, n + 1, Len(tb.tails))
           more == UNION {tb.tails[i].batch : i \in 1..n}
<1>1. tb.tails \in Seq(TailType) /\ n \in 0..Len(tb.tails) /\ Len(tb.tails) \in Nat
  BY DEF TabType, Drains
<1>2. rest \in Seq(TailType)
  BY <1>1
<1>3. /\ Len(rest) = Len(tb.tails) - n
      /\ \A k \in 1..Len(rest) : k + n \in 1..Len(tb.tails) /\ rest[k] = tb.tails[k + n]
  <2>1. CASE n = Len(tb.tails)
    BY <1>1, <2>1
  <2>2. CASE n < Len(tb.tails)
    BY <1>1, <2>2
  <2> QED
    BY <1>1, <2>1, <2>2, SMTT(30)
<1>4. more \subseteq Edits
  <2>1. \A i \in 1..n : tb.tails[i] \in TailType
    BY <1>1
  <2> QED
    BY <2>1 DEF TailType
<1>5. Drained(tb) = [tb EXCEPT !.settled = @ \cup more, !.tails = rest]
  BY DEF Drains
<1> HIDE DEF rest, more
<1>6. Drained(tb) \in TabType
  BY <1>2, <1>4, <1>5 DEF TabType
<1>7. Drained(tb).tails = rest /\ Drained(tb).settled = tb.settled \cup more
  BY <1>5 DEF TabType
<1>8. LET db == Drained(tb) IN
      /\ db.open = tb.open /\ db.view = tb.view /\ db.cursor = tb.cursor /\ db.gen = tb.gen
      /\ db.written = tb.written /\ db.queue = tb.queue
  BY <1>5 DEF TabType
<1> QED
  BY <1>3, <1>6, <1>7, <1>8 DEF more

-----------------------------------------------------------------------------

(* The types, step by step.                                                *)
LEMMA InitTypes == Init => TypeInv
<1> SUFFICES ASSUME Init PROVE TypeInv
  OBVIOUS
<1>1. log \in Seq(Edits \cup {Genesis}) /\ Len(log) = 1
  BY DEF Init
<1>2. cut \in 0..Len(log) /\ generation \in Lowest..Len(log)
  BY <1>1, LowestType DEF Init
<1>3. tokens \in [Tabs -> Marks] /\ awareness \subseteq Tabs /\ attending \subseteq Tabs /\ struck \subseteq Edits
  BY DEF Init, Marks
<1>4. beat \in [Tabs -> Seq([Tabs -> Marks])]
  BY DEF Init
<1>5. spent \in [edits : [Tabs -> Nat], opens : Nat, troubles : Nat]
  BY DEF Init
<1>6. \A t \in Tabs : tab[t] = Closed /\ \A l \in Lanes : req[t][l] = Idle
  BY DEF Init
<1>7. tab \in [Tabs -> TabType] /\ req \in [Tabs -> [Lanes -> RequestType]]
  <2>1. Closed \in TabType /\ Idle \in RequestType
    BY IdleFits DEF TabFits, RequestFits
  <2> QED
    BY <2>1 DEF Init
<1>8. Len(log) \in Nat
  BY <1>1
<1>9. TabFits(Closed, Len(log)) /\ \A tb : RequestFits(tb, Idle, Len(log))
  BY <1>8, IdleFits
<1> QED
  BY <1>1, <1>2, <1>3, <1>4, <1>5, <1>6, <1>7, <1>9 DEF TypeInv

(* What TypeInv says of one tab and one of its requests.                   *)
LEMMA TypesOf ==
  ASSUME TypeInv, NEW t \in Tabs, NEW l \in Lanes
  PROVE  /\ TabFits(tab[t], Len(log)) /\ tab[t] \in TabType
         /\ RequestFits(tab[t], req[t][l], Len(log)) /\ req[t][l] \in RequestType
         /\ req[t] \in [Lanes -> RequestType] /\ Len(log) \in Nat
         /\ log \in Seq(Edits \cup {Genesis}) /\ cut \in 0..Len(log) /\ generation \in Lowest..Len(log)
         /\ tokens \in [Tabs -> Marks] /\ awareness \subseteq Tabs /\ attending \subseteq Tabs /\ struck \subseteq Edits
         /\ spent \in [edits : [Tabs -> Nat], opens : Nat, troubles : Nat]
BY DEF TypeInv

(* A request that goes on with other values in some of its fields.         *)
LEMMA FitsPhase ==
  ASSUME NEW tb, NEW n \in Nat, NEW r, RequestFits(tb, r, n), NEW pc \in Phases, NEW first \in BOOLEAN
  PROVE  /\ RequestFits(tb, [r EXCEPT !.pc = pc], n)
         /\ RequestFits(tb, [r EXCEPT !.pc = pc, !.first = first], n)
BY DEF RequestFits, RequestType

(* The presence access of a request sends it on to the ingest, or to the   *)
(* reset if its tab has not joined and nobody else is there.               *)
LEMMA NoteGives ==
  ASSUME TypeInv, NEW t \in Tabs, NEW l \in Lanes, Note(t, l)
  PROVE  \E r :
           /\ req' = [req EXCEPT ![t][l] = r] /\ RequestFits(tab[t], r, Len(log))
           /\ r.pc \in {"ingest", "wipe-rows"} /\ r.batch = req[t][l].batch /\ r.after = req[t][l].after
           /\ r.pc = "wipe-rows" =>
                tokens[t] # "joined" /\ ~OthersPresent(t) /\ r.first = (t \notin attending)
<1> DEFINE serves == tokens[t] = "joined" \/ OthersPresent(t) \/ ~RoomExists
           first == t \notin attending
<1>1. req[t][l] \in RequestType /\ RequestFits(tab[t], req[t][l], Len(log))
  BY TypesOf
<1>2. {"ingest", "wipe-rows"} \subseteq Phases /\ first \in BOOLEAN
  BY DEF Phases
<1>3. CASE serves
  <2> DEFINE r == [req[t][l] EXCEPT !.pc = "ingest"]
  <2>1. req' = [req EXCEPT ![t][l] = r]
    BY <1>3 DEF Note
  <2>2. RequestFits(tab[t], r, Len(log))
    BY <1>1, <1>2, TypesOf, FitsPhase
  <2>3. r.pc = "ingest" /\ r.batch = req[t][l].batch /\ r.after = req[t][l].after
    BY <1>1 DEF RequestType
  <2> HIDE DEF r
  <2> QED
    BY <2>1, <2>2, <2>3
<1>4. CASE ~serves
  <2> DEFINE r == [req[t][l] EXCEPT !.pc = "wipe-rows", !.first = first]
  <2>1. req' = [req EXCEPT ![t][l] = r]
    <3>1. req' = [req EXCEPT ![t][l].pc = "wipe-rows", ![t][l].first = first]
      BY <1>4 DEF Note
    <3> HIDE DEF first
    <3> QED
      BY <3>1 DEF TypeInv
  <2> HIDE DEF first
  <2>2. RequestFits(tab[t], r, Len(log))
    BY <1>1, <1>2, TypesOf, FitsPhase
  <2>3. /\ r.pc = "wipe-rows" /\ r.batch = req[t][l].batch /\ r.after = req[t][l].after
        /\ r.first = first
    BY <1>1 DEF RequestType
  <2> HIDE DEF r
  <2> QED
    BY <1>4, <2>1, <2>2, <2>3 DEF first
<1> QED
  BY <1>3, <1>4

(* It leaves the request one, and marks its tab.                           *)
LEMMA TypeNote ==
  ASSUME TypeInv, NEW t \in Tabs, NEW l \in Lanes, Note(t, l)
  PROVE  TypeInv'
<1>1. PICK r : req' = [req EXCEPT ![t][l] = r] /\ RequestFits(tab[t], r, Len(log))
  BY NoteGives
<1>2. tokens' \in [Tabs -> Marks]
  BY TypesOf DEF Note, Marks
<1>3. UNCHANGED <<tab, beat, spent, log, cut, generation, awareness, struck>>
      /\ attending' \subseteq Tabs
  BY TypesOf DEF Note, room
<1>4. log' \in Seq(Edits \cup {Genesis}) /\ Len(log) <= Len(log') /\ cut' \in 0..Len(log')
      /\ generation' \in Lowest..Len(log') /\ awareness' \subseteq Tabs /\ struck' \subseteq Edits
      /\ RequestFits(tab[t], r, Len(log'))
  BY <1>1, <1>3 DEF TypeInv
<1> QED
  BY <1>1, <1>2, <1>3, <1>4, TypeServe

(* Deleting the rows of an abandoned room moves the cut to the end of the  *)
(* table.                                                                  *)
LEMMA TypeWipeRows ==
  ASSUME TypeInv, NEW t \in Tabs, NEW l \in Lanes, WipeRows(t, l)
  PROVE  TypeInv'
<1> DEFINE r == [req[t][l] EXCEPT !.pc = "wipe-meta"]
<1>1. req' = [req EXCEPT ![t][l] = r] /\ UNCHANGED <<tab, beat, spent, log, tokens, awareness, attending, generation>>
      /\ struck' = struck \cup UnderWork /\ cut' = Len(log)
  BY DEF WipeRows, presence
<1>2. RequestFits(tab[t], r, Len(log))
  <2>1. "wipe-meta" \in Phases
    BY DEF Phases
  <2> QED
    BY <2>1, TypesOf, FitsPhase
<1> HIDE DEF r
<1>3. UnderWork \subseteq Edits
  <2> SUFFICES ASSUME NEW x \in Tabs \X Lanes, NEW e \in req[x[1]][x[2]].batch PROVE e \in Edits
    BY DEF UnderWork
  <2> QED
    BY DEF TypeInv, RequestType
<1>4. log' \in Seq(Edits \cup {Genesis}) /\ Len(log) <= Len(log') /\ cut' \in 0..Len(log')
      /\ generation' \in Lowest..Len(log') /\ RequestFits(tab[t], r, Len(log'))
      /\ tokens' \in [Tabs -> Marks] /\ awareness' \subseteq Tabs
      /\ attending' \subseteq Tabs /\ struck' \subseteq Edits
  BY <1>1, <1>2, <1>3 DEF TypeInv
<1> QED
  BY <1>1, <1>4, TypeServe

(* Deleting its meta values: no token is stored, and zero is one.          *)
LEMMA TypeWipeMeta ==
  ASSUME TypeInv, NEW t \in Tabs, NEW l \in Lanes, WipeMeta(t, l)
  PROVE  TypeInv'
<1> DEFINE r == IF l = "beacon" THEN Idle ELSE [req[t][l] EXCEPT !.pc = "ingest", !.first = FALSE]
<1>1. req' = [req EXCEPT ![t][l] = r] /\ UNCHANGED <<tab, beat, spent, log, cut, tokens, attending, struck>>
      /\ generation' = 0 /\ awareness' = {}
  BY DEF WipeMeta, history
<1>2. RequestFits(tab[t], r, Len(log))
  <2>1. "ingest" \in Phases
    BY DEF Phases
  <2> QED
    BY <2>1, TypesOf, FitsPhase, IdleFits
<1> HIDE DEF r
<1>3. log' \in Seq(Edits \cup {Genesis}) /\ Len(log) <= Len(log') /\ cut' \in 0..Len(log')
      /\ RequestFits(tab[t], r, Len(log')) /\ tokens' \in [Tabs -> Marks] /\ attending' \subseteq Tabs /\ struck' \subseteq Edits
  BY <1>1, <1>2 DEF TypeInv
<1>4. generation' \in Lowest..Len(log') /\ awareness' \subseteq Tabs
  BY <1>1, LowestType, TypesOf
<1> QED
  BY <1>1, <1>3, <1>4, TypeServe

(* What the rows of the room become: a genesis in an empty room, then the  *)
(* new updates of a batch.                                                 *)
LEMMA GenesisGrows ==
  ASSUME TypeInv
  PROVE  /\ WithGenesis \in Seq(Edits \cup {Genesis}) /\ Len(WithGenesis) \in Nat
         /\ Len(log) <= Len(WithGenesis) /\ Len(WithGenesis) > cut
         /\ \A i \in 1..Len(log) : WithGenesis[i] = log[i]
         /\ \A i \in (Len(log) + 1)..Len(WithGenesis) : WithGenesis[i] = Genesis
<1>1. log \in Seq(Edits \cup {Genesis}) /\ cut \in 0..Len(log) /\ Len(log) \in Nat
  BY DEF TypeInv
<1>2. CASE Present = {}
  <2>1. WithGenesis = Append(log, Genesis)
    BY <1>2 DEF WithGenesis
  <2> HIDE DEF Genesis
  <2> QED
    BY <1>1, <2>1
<1>3. CASE Present # {}
  <2>1. WithGenesis = log
    BY <1>3 DEF WithGenesis
  <2>2. cut < Len(log)
    BY <1>1, <1>3 DEF Present
  <2> QED
    BY <1>1, <2>1, <2>2
<1> QED
  BY <1>2, <1>3

(* The new updates of a batch follow, each once.                           *)
LEMMA IngestGrows ==
  ASSUME TypeInv, NEW t \in Tabs, NEW l \in Lanes, Ingest(t, l)
  PROVE  LET batch == req[t][l].batch IN
         /\ log' \in Seq(Edits \cup {Genesis}) /\ Len(log') \in Nat /\ Len(log) <= Len(log')
         /\ \A i \in 1..Len(log) : log'[i] = log[i]
         /\ \A i \in (Len(log) + 1)..Len(log') : log'[i] \in Fresh(batch) \cup {Genesis}
         /\ \A i, j \in (Len(log) + 1)..Len(log') : log'[i] = log'[j] /\ log'[i] # Genesis => i = j
         /\ \A e \in Fresh(batch) : \E i \in (Len(log) + 1)..Len(log') : log'[i] = e
<1> DEFINE batch == req[t][l].batch
           fresh == Fresh(batch)
<1>1. PICK rows \in InOrder(fresh) : log' = IF batch = {} THEN log ELSE WithGenesis \o rows
  BY DEF Ingest
<1>2. fresh \subseteq batch /\ batch \subseteq Edits
  BY TypesOf DEF Fresh, RequestType
<1>3. log \in Seq(Edits \cup {Genesis}) /\ Len(log) \in Nat
  BY DEF TypeInv
<1>4. CASE batch = {}
  <2>1. log' = log /\ fresh = {}
    BY <1>1, <1>2, <1>4
  <2>2. (Len(log) + 1)..Len(log) = {}
    BY <1>3
  <2> QED
    BY <1>3, <2>1, <2>2
<1>5. CASE batch # {}
  <2> DEFINE W == WithGenesis
  <2>1. /\ W \in Seq(Edits \cup {Genesis}) /\ Len(W) \in Nat /\ Len(log) <= Len(W)
        /\ \A i \in 1..Len(log) : W[i] = log[i]
        /\ \A i \in (Len(log) + 1)..Len(W) : W[i] = Genesis
    BY GenesisGrows
  <2>2. /\ rows \in [1..Cardinality(fresh) -> fresh] /\ Range(rows) = fresh
        /\ \A i, j \in DOMAIN rows : i < j => rows[i][2] < rows[j][2]
    BY DEF InOrder
  <2>3. log' = W \o rows
    BY <1>1, <1>5
  <2>4. Cardinality(fresh) \in Nat
    <3>1. IsFiniteSet(1..MaxEdits) /\ IsFiniteSet(Tabs)
      BY Bounds, Kinds, FS_Interval
    <3>2. IsFiniteSet(Edits)
      BY <3>1, FS_Product DEF Edits
    <3>3. IsFiniteSet(fresh)
      BY <1>2, <3>2, FS_Subset
    <3> QED
      BY <3>3, FS_CardinalityType
  <2> HIDE DEF W, fresh
  <2>5. rows \in Seq(Edits) /\ Len(rows) = Cardinality(fresh)
    <3>1. fresh \subseteq Edits
      BY <1>2
    <3> QED
      BY <2>2, <2>4, <3>1
  <2>6. \A i, j \in 1..Len(rows) : rows[i] = rows[j] => i = j
    <3> TAKE i, j \in 1..Len(rows)
    <3>1. rows[i][2] \in Int /\ rows[j][2] \in Int
      BY <2>5, Bounds DEF Edits
    <3>2. i < j => rows[i][2] < rows[j][2]
      BY <2>2, <2>5
    <3>3. j < i => rows[j][2] < rows[i][2]
      BY <2>2, <2>5
    <3> HIDE DEF Edits
    <3>4. rows[i] = rows[j] => ~(i < j) /\ ~(j < i)
      BY <3>1, <3>2, <3>3
    <3> QED
      BY <2>4, <2>5, <3>4
  <2>7. /\ log' \in Seq(Edits \cup {Genesis}) /\ Len(log') = Len(W) + Len(rows)
        /\ \A i \in 1..Len(W) : log'[i] = W[i]
        /\ \A i \in 1..Len(rows) : log'[Len(W) + i] = rows[i]
    <3>1. rows \in Seq(Edits \cup {Genesis})
      BY <2>5
    <3> HIDE DEF Genesis
    <3> QED
      BY <2>1, <2>3, <3>1
  <2>8. Len(rows) \in Nat
    BY <2>4, <2>5
  <2>9. \A i \in 1..Len(log) : log'[i] = log[i]
    BY <1>3, <2>1, <2>7
  <2>10. \A i \in (Len(log) + 1)..Len(log') :
           \/ i \in (Len(log) + 1)..Len(W) /\ log'[i] = Genesis
           \/ i - Len(W) \in 1..Len(rows) /\ log'[i] = rows[i - Len(W)] /\ log'[i] \in fresh
    <3> TAKE i \in (Len(log) + 1)..Len(log')
    <3>1. CASE i <= Len(W)
      <4>1. i \in (Len(log) + 1)..Len(W) /\ i \in 1..Len(W)
        BY <1>3, <2>1, <3>1
      <4> QED
        BY <2>1, <2>7, <4>1
    <3>2. CASE i > Len(W)
      <4>1. i - Len(W) \in 1..Len(rows) /\ Len(W) + (i - Len(W)) = i
        BY <1>3, <2>1, <2>7, <2>8, <3>2
      <4>2. rows[i - Len(W)] \in fresh
        BY <2>2, <2>5, <4>1
      <4> QED
        BY <2>7, <4>1, <4>2
    <3> QED
      BY <1>3, <2>1, <3>1, <3>2
  <2>11. \A i, j \in (Len(log) + 1)..Len(log') : log'[i] = log'[j] /\ log'[i] # Genesis => i = j
    <3> TAKE i, j \in (Len(log) + 1)..Len(log')
    <3>1. ASSUME log'[i] = log'[j], log'[i] # Genesis PROVE i = j
      <4>1. i - Len(W) \in 1..Len(rows) /\ log'[i] = rows[i - Len(W)]
        BY <2>10, <3>1
      <4>2. j - Len(W) \in 1..Len(rows) /\ log'[j] = rows[j - Len(W)]
        BY <2>10, <3>1
      <4>3. i - Len(W) = j - Len(W)
        BY <2>6, <3>1, <4>1, <4>2
      <4> QED
        BY <1>3, <2>1, <2>7, <2>8, <4>3
    <3> QED
      BY <3>1
  <2>12. \A e \in fresh : \E i \in (Len(log) + 1)..Len(log') : log'[i] = e
    <3> TAKE e \in fresh
    <3>1. PICK k \in 1..Len(rows) : rows[k] = e
      BY <2>2, <2>5 DEF Range
    <3>2. Len(W) + k \in (Len(log) + 1)..Len(log')
      BY <1>3, <2>1, <2>7, <2>8
    <3> QED
      BY <2>7, <3>1, <3>2
  <2> QED
    BY <1>3, <2>1, <2>7, <2>8, <2>9, <2>10, <2>11, <2>12 DEF fresh
<1> QED
  BY <1>4, <1>5

(* Rows of new updates: ids grow by one, and every view and cursor stays   *)
(* within the table.                                                       *)
LEMMA TypeIngest ==
  ASSUME TypeInv, NEW t \in Tabs, NEW l \in Lanes, Ingest(t, l)
  PROVE  TypeInv'
<1> DEFINE r == [req[t][l] EXCEPT !.pc = "read"]
<1>1. req' = [req EXCEPT ![t][l] = r] /\ UNCHANGED <<tab, beat, spent, cut, tokens, attending, struck, generation>>
      /\ awareness' = awareness \cup {t}
  BY DEF Ingest, history
<1>2. log' \in Seq(Edits \cup {Genesis}) /\ Len(log') \in Nat /\ Len(log) <= Len(log')
  BY IngestGrows
<1>3. RequestFits(tab[t], r, Len(log))
  <2>1. "read" \in Phases
    BY DEF Phases
  <2> QED
    BY <2>1, TypesOf, FitsPhase
<1> HIDE DEF r
<1>4. RequestFits(tab[t], r, Len(log'))
  BY <1>2, <1>3, TypesOf, FitsGrow
<1>5. cut' \in 0..Len(log') /\ generation' \in Lowest..Len(log') /\ tokens' \in [Tabs -> Marks]
      /\ awareness' \subseteq Tabs /\ attending' \subseteq Tabs /\ struck' \subseteq Edits
  <2>1. cut \in 0..Len(log) /\ generation \in Lowest..Len(log) /\ Len(log) \in Nat
        /\ tokens \in [Tabs -> Marks] /\ awareness \subseteq Tabs /\ attending \subseteq Tabs /\ struck \subseteq Edits
    BY TypesOf
  <2> QED
    BY <1>1, <1>2, <2>1, LowestType
<1> QED
  BY <1>1, <1>2, <1>4, <1>5, TypeServe

(* The request after a read.                                               *)
LEMMA ReadGives ==
  ASSUME TypeInv, NEW t \in Tabs, NEW l \in Lanes, Read(t, l)
  PROVE  \E r \in RequestType :
           /\ req' = [req EXCEPT ![t][l] = r]
           /\ r.pc = "generation" /\ r.end = Len(log') /\ r.batch = req[t][l].batch
           /\ r.after = req[t][l].after /\ r.gen = req[t][l].gen
           /\ r.rows \subseteq (cut + 1)..Len(log')
           /\ l = "receive" => r.rows = {i \in (cut + 1)..Len(log') : i > req[t][l].after}
<1> DEFINE after == IF l = "send" THEN Len(log) + 1 ELSE req[t][l].after
           new == {i \in (cut + 1)..Len(log') : i > after}
           r == [req[t][l] EXCEPT !.pc = "generation", !.end = Len(log'), !.rows = new]
<1>1. req' = [req EXCEPT ![t][l] = r]
  <2>1. req' = [req EXCEPT ![t][l].pc = "generation", ![t][l].end = Len(log'), ![t][l].rows = new]
    BY DEF Read
  <2> HIDE DEF new
  <2> QED
    BY <2>1 DEF TypeInv
<1>2. new \subseteq (cut + 1)..Len(log') /\ (l = "receive" => new = {i \in (cut + 1)..Len(log') : i > req[t][l].after})
  OBVIOUS
<1>3. new \in SUBSET Nat
  BY TypesOf
<1>4. Len(log') \in Nat
  BY GenesisGrows DEF Read
<1>5. req[t][l] \in RequestType /\ "generation" \in Phases
  BY TypesOf DEF Phases
<1> HIDE DEF new
<1>6. /\ r \in RequestType /\ r.pc = "generation" /\ r.end = Len(log') /\ r.batch = req[t][l].batch
      /\ r.after = req[t][l].after /\ r.gen = req[t][l].gen /\ r.rows = new
  BY <1>3, <1>4, <1>5 DEF RequestType
<1> HIDE DEF r
<1> QED
  BY <1>1, <1>2, <1>6

(* Reading the rows past a cursor, after a first row in an empty room.     *)
LEMMA TypeRead ==
  ASSUME TypeInv, NEW t \in Tabs, NEW l \in Lanes, Read(t, l)
  PROVE  TypeInv'
<1>1. PICK r \in RequestType :
        /\ req' = [req EXCEPT ![t][l] = r]
        /\ r.end = Len(log') /\ r.batch = req[t][l].batch /\ r.gen = req[t][l].gen
        /\ r.rows \subseteq (cut + 1)..Len(log')
  BY ReadGives
<1>2. log' \in Seq(Edits \cup {Genesis}) /\ Len(log') \in Nat /\ Len(log) <= Len(log')
  BY GenesisGrows DEF Read
<1>3. UNCHANGED <<tab, beat, spent, cut, tokens, awareness, attending, struck, generation>>
  BY DEF Read, presence, history
<1>4. cut \in 0..Len(log) /\ generation \in Lowest..Len(log) /\ Len(log) \in Nat
      /\ tokens \in [Tabs -> Marks] /\ awareness \subseteq Tabs /\ attending \subseteq Tabs /\ struck \subseteq Edits
      /\ RequestFits(tab[t], req[t][l], Len(log))
  BY TypesOf
<1>5. RequestFits(tab[t], r, Len(log'))
  <2>1. r.rows \subseteq 1..Len(log')
    BY <1>1, <1>4
  <2>2. r.gen \in Lowest..Len(log')
    BY <1>1, <1>2, <1>4, LowestType DEF RequestFits
  <2> QED
    BY <1>1, <1>2, <1>4, <2>1, <2>2 DEF RequestFits
<1>6. cut' \in 0..Len(log') /\ generation' \in Lowest..Len(log') /\ tokens' \in [Tabs -> Marks]
      /\ awareness' \subseteq Tabs /\ attending' \subseteq Tabs /\ struck' \subseteq Edits
  BY <1>2, <1>3, <1>4, LowestType
<1> QED
  BY <1>1, <1>2, <1>3, <1>5, <1>6, TypeServe

(* A derived token is one of the room, or a new one.                       *)
LEMMA DerivedFits ==
  ASSUME TypeInv
  PROVE  Derived \in Lowest..Len(log) /\ Derived # 0
<1>1. cut \in 0..Len(log) /\ Len(log) \in Nat
  BY DEF TypeInv
<1>2. CASE Present # {}
  <2>1. Derived = cut + 1 /\ cut < Len(log)
    BY <1>1, <1>2 DEF Derived, Present
  <2> QED
    BY <1>1, <2>1, LowestType
<1>3. CASE Present = {}
  <2>1. Derived = Random
    BY <1>3 DEF Derived
  <2> QED
    BY <1>1, <2>1, RandomIsFree, LowestType
<1> QED
  BY <1>2, <1>3

(* Looking for the generation token: the stored one, or one derived from   *)
(* the first row or from nothing.                                          *)
LEMMA TypeGeneration ==
  ASSUME TypeInv, NEW t \in Tabs, NEW l \in Lanes, Generation(t, l)
  PROVE  TypeInv'
<1> DEFINE g == IF generation # 0 THEN generation ELSE Derived
           pc == IF generation # 0 THEN "answer" ELSE "mint"
           r == [req[t][l] EXCEPT !.gen = g, !.pc = pc]
<1>1. req' = [req EXCEPT ![t][l] = r]
  BY DEF Generation, TypeInv
<1>2. g \in Lowest..Len(log) /\ g \in Int
  BY DerivedFits, LowestType DEF TypeInv
<1>3. pc \in Phases
  BY DEF Phases
<1>4. RequestFits(tab[t], r, Len(log))
  <2> HIDE DEF g, pc
  <2>1. RequestFits(tab[t], req[t][l], Len(log))
    BY TypesOf
  <2> QED
    BY <1>2, <1>3, <2>1 DEF RequestFits, RequestType
<1> HIDE DEF r
<1>5. UNCHANGED <<tab, beat, spent, log, cut, tokens, awareness, attending, struck, generation>>
  BY DEF Generation, room, presence, history
<1>6. /\ log' \in Seq(Edits \cup {Genesis}) /\ Len(log) <= Len(log') /\ cut' \in 0..Len(log')
      /\ generation' \in Lowest..Len(log') /\ RequestFits(tab[t], r, Len(log'))
      /\ tokens' \in [Tabs -> Marks] /\ awareness' \subseteq Tabs /\ attending' \subseteq Tabs /\ struck' \subseteq Edits
  BY <1>4, <1>5 DEF TypeInv
<1> QED
  BY <1>1, <1>5, <1>6, TypeServe

(* Storing that token; a random one is new.                                *)
LEMMA TypeStore ==
  ASSUME TypeInv, NEW t \in Tabs, NEW l \in Lanes, StoreGeneration(t, l)
  PROVE  TypeInv'
<1> DEFINE r == [req[t][l] EXCEPT !.pc = "answer"]
<1>1. req' = [req EXCEPT ![t][l] = r] /\ generation' = req[t][l].gen
      /\ UNCHANGED <<tab, beat, spent, log, cut, tokens, awareness, attending, struck>>
  BY DEF StoreGeneration, presence, history
<1>2. RequestFits(tab[t], r, Len(log)) /\ req[t][l].gen \in Lowest..Len(log)
  <2>1. "answer" \in Phases
    BY DEF Phases
  <2>2. RequestFits(tab[t], req[t][l], Len(log)) /\ Len(log) \in Nat
    BY TypesOf
  <2>3. RequestFits(tab[t], r, Len(log))
    BY <2>1, <2>2, FitsPhase
  <2> QED
    BY <2>2, <2>3 DEF RequestFits
<1> HIDE DEF r
<1>3. /\ log' \in Seq(Edits \cup {Genesis}) /\ Len(log) <= Len(log') /\ cut' \in 0..Len(log')
      /\ generation' \in Lowest..Len(log') /\ RequestFits(tab[t], r, Len(log'))
      /\ tokens' \in [Tabs -> Marks] /\ awareness' \subseteq Tabs /\ attending' \subseteq Tabs /\ struck' \subseteq Edits
  BY <1>1, <1>2 DEF TypeInv
<1> QED
  BY <1>1, <1>3, TypeServe

(* A step of a tab and one of its requests: the tab keeps what was written *)
(* in it as long as it is open.                                            *)
LEMMA TypeLane ==
  ASSUME TypeInv, NEW t \in Tabs, NEW l \in Lanes, NEW tb, NEW r,
         UNCHANGED <<log, cut, generation, beat>>,
         tokens' \in [Tabs -> Marks], awareness' \subseteq Tabs, attending' \subseteq Tabs /\ struck' \subseteq Edits,
         spent' \in [edits : [Tabs -> Nat], opens : Nat, troubles : Nat],
         tab' = [tab EXCEPT ![t] = tb], req' = [req EXCEPT ![t][l] = r],
         TabFits(tb, Len(log)), RequestFits(tb, r, Len(log)),
         tb.open => tab[t].open /\ tab[t].written \subseteq tb.written
  PROVE  TypeInv'
<1> DEFINE rq == [req[t] EXCEPT ![l] = r]
<1>1. r \in RequestType /\ req[t] \in [Lanes -> RequestType]
  BY TypesOf DEF RequestFits
<1>2. rq \in [Lanes -> RequestType] /\ rq[l] = r /\ \A m \in Lanes \ {l} : rq[m] = req[t][m]
  BY <1>1
<1>3. req' = [req EXCEPT ![t] = rq]
  OBVIOUS
<1> HIDE DEF rq
<1>4. ASSUME NEW m \in Lanes PROVE RequestFits(tb, rq[m], Len(log))
  <2>1. CASE m = l
    BY <1>2, <2>1
  <2>2. CASE m # l
    <3>1. RequestFits(tab[t], req[t][m], Len(log))
      BY TypesOf
    <3> QED
      BY <1>2, <2>2, <3>1 DEF RequestFits
  <2> QED
    BY <2>1, <2>2
<1> QED
  BY <1>2, <1>3, <1>4, TypeTab

(* The bounds stay counters.                                               *)
LEMMA SpentType ==
  ASSUME TypeInv, NEW t \in Tabs
  PROVE  /\ [spent EXCEPT !.opens = @ + 1] \in [edits : [Tabs -> Nat], opens : Nat, troubles : Nat]
         /\ [spent EXCEPT !.troubles = @ + 1] \in [edits : [Tabs -> Nat], opens : Nat, troubles : Nat]
         /\ [spent EXCEPT !.edits[t] = @ + 1] \in [edits : [Tabs -> Nat], opens : Nat, troubles : Nat]
<1>1. spent \in [edits : [Tabs -> Nat], opens : Nat, troubles : Nat]
  BY DEF TypeInv
<1> QED
  BY <1>1

(* A request as it is sent.                                                *)
Starts(r, pc, batch, after) ==
  \/ r = [Idle EXCEPT !.pc = pc, !.batch = batch, !.after = after]
  \/ r = [Idle EXCEPT !.pc = pc, !.batch = batch] /\ after = 0

Started(r, pc, batch, after) ==
  /\ r \in RequestType
  /\ r.pc = pc /\ r.batch = batch /\ r.after = after /\ r.rows = {} /\ r.end = 0 /\ r.gen = 0

(* A request as a lane sends it.                                           *)
LEMMA SentRequest ==
  ASSUME NEW r, NEW pc, NEW batch, NEW after,
         pc \in Phases, batch \subseteq Edits, after \in Nat, Starts(r, pc, batch, after)
  PROVE  Started(r, pc, batch, after)
<1>1. Idle \in RequestType /\ Idle.rows = {} /\ Idle.end = 0 /\ Idle.gen = 0 /\ Idle.after = 0
  BY DEF Idle, RequestType, Phases
<1> HIDE DEF Idle
<1> QED
  BY <1>1 DEF RequestType, Starts, Started

(* What a receive takes along, and what it leaves queued.                  *)
LEMMA ReceiveGives ==
  ASSUME TypeInv, NEW t \in Tabs, Receive(t)
  PROVE  \E takes \in {{}, tab[t].queue} : \E tb \in TabType, r \in RequestType :
           /\ tab[t].open /\ tab' = [tab EXCEPT ![t] = tb] /\ req' = [req EXCEPT ![t]["receive"] = r]
           /\ tb = [tab[t] EXCEPT !.queue = @ \ takes]
           /\ r.batch = takes /\ r.after = tab[t].cursor /\ r.pc \in {"note", "read"}
           /\ r.rows = {} /\ r.end = 0 /\ r.gen = 0
           /\ r.pc = "read" => takes = {} /\ tab[t].cursor > 0
           /\ req[t]["receive"] = Idle
<1>1. PICK streams \in {FALSE, (t \in Streaming)}, pc \in {"note", "read"} :
        LET takes == IF streams \/ req[t]["send"] # Idle THEN {} ELSE tab[t].queue IN
        /\ tab[t].open /\ req[t]["receive"] = Idle
        /\ pc = "read" => streams /\ tab[t].cursor > 0
        /\ req' = [req EXCEPT ![t]["receive"] = [Idle EXCEPT !.pc = pc, !.batch = takes, !.after = tab[t].cursor]]
        /\ tab' = [tab EXCEPT ![t].queue = @ \ takes]
  BY DEF Receive
<1> DEFINE takes == IF streams \/ req[t]["send"] # Idle THEN {} ELSE tab[t].queue
           tb == [tab[t] EXCEPT !.queue = @ \ takes]
           r == [Idle EXCEPT !.pc = pc, !.batch = takes, !.after = tab[t].cursor]
<1>2. tab[t] \in TabType
  BY TypesOf, "receive" \in Lanes DEF Lanes
<1>3. takes \in {{}, tab[t].queue} /\ (pc = "read" => takes = {})
  BY <1>1
<1>4. tab' = [tab EXCEPT ![t] = tb] /\ req' = [req EXCEPT ![t]["receive"] = r]
  BY <1>1
<1>5. tab[t].open /\ req[t]["receive"] = Idle /\ (pc = "read" => tab[t].cursor > 0) /\ pc \in {"note", "read"}
  BY <1>1
<1> HIDE DEF takes
<1>6. tb \in TabType
  BY <1>2, <1>3 DEF TabType
<1>7. /\ r \in RequestType /\ r.batch = takes /\ r.after = tab[t].cursor /\ r.pc = pc
      /\ r.rows = {} /\ r.end = 0 /\ r.gen = 0
  <2>1. pc \in Phases /\ takes \subseteq Edits /\ tab[t].cursor \in Nat
    BY <1>2, <1>3 DEF TabType, Phases
  <2> DEFINE after == tab[t].cursor
  <2>2. Starts(r, pc, takes, after)
    BY DEF Starts
  <2>3. after \in Nat
    BY <2>1
  <2> HIDE DEF r, after
  <2>4. Started(r, pc, takes, after)
    BY <2>1, <2>2, <2>3, SentRequest
  <2> QED
    BY <2>4 DEF after, Started
<1> HIDE DEF r
<1> QED
  BY <1>3, <1>4, <1>5, <1>6, <1>7

(* The receive lane sends the queue.                                       *)
LEMMA TypeReceive ==
  ASSUME TypeInv, NEW t \in Tabs, Receive(t)
  PROVE  TypeInv'
<1>1. PICK takes \in {{}, tab[t].queue}, tb \in TabType, r \in RequestType :
        /\ tab' = [tab EXCEPT ![t] = tb] /\ req' = [req EXCEPT ![t]["receive"] = r]
        /\ tab[t].open /\ tb = [tab[t] EXCEPT !.queue = @ \ takes]
        /\ r.batch = takes /\ r.rows = {} /\ r.end = 0 /\ r.gen = 0
  BY ReceiveGives, SMTT(30)
<1>2. "receive" \in Lanes
  BY DEF Lanes
<1>3. TabFits(tab[t], Len(log)) /\ Len(log) \in Nat /\ tab[t] \in TabType
  BY <1>2, TypesOf
<1>4. TabFits(tb, Len(log)) /\ tb.open = tab[t].open /\ tb.written = tab[t].written
  BY <1>1, <1>3 DEF TabFits, TabType
<1>5. RequestFits(tb, r, Len(log))
  <2>1. 0 \in Lowest..Len(log)
    BY <1>3, LowestType
  <2>2. takes \subseteq tb.written
    BY <1>3, <1>4 DEF TabFits
  <2> QED
    BY <1>1, <1>3, <2>1, <2>2 DEF RequestFits
<1>6. UNCHANGED <<log, cut, generation, beat, tokens, awareness, attending, struck, spent>>
  BY DEF Receive, room, presence, history
<1>7. tokens' \in [Tabs -> Marks] /\ awareness' \subseteq Tabs /\ attending' \subseteq Tabs /\ struck' \subseteq Edits
      /\ spent' \in [edits : [Tabs -> Nat], opens : Nat, troubles : Nat]
  BY <1>6 DEF TypeInv
<1> QED
  BY <1>1, <1>2, <1>4, <1>5, <1>6, <1>7, TypeLane

(* A send takes the whole queue.                                           *)
LEMMA SendGives ==
  ASSUME TypeInv, NEW t \in Tabs, SendNow(t)
  PROVE  \E tb \in TabType, r \in RequestType :
           /\ tab[t].open /\ tab' = [tab EXCEPT ![t] = tb] /\ req' = [req EXCEPT ![t]["send"] = r]
           /\ tb = [tab[t] EXCEPT !.queue = {}] /\ tab[t].queue # {}
           /\ r.batch = tab[t].queue /\ r.pc = "note" /\ r.rows = {} /\ r.end = 0 /\ r.gen = 0
<1> DEFINE tb == [tab[t] EXCEPT !.queue = {}]
           r == [Idle EXCEPT !.pc = "note", !.batch = tab[t].queue]
<1>1. tab[t] \in TabType
  BY TypesOf, "send" \in Lanes DEF Lanes
<1>2. tb \in TabType
  BY <1>1 DEF TabType
<1>3. r \in RequestType /\ r.batch = tab[t].queue /\ r.pc = "note" /\ r.rows = {} /\ r.end = 0 /\ r.gen = 0
  <2>1. "note" \in Phases /\ tab[t].queue \in SUBSET Edits
    BY <1>1 DEF TabType, Phases
  <2> DEFINE pc == "note"
             batch == tab[t].queue
             after == 0
  <2>2. Starts(r, pc, batch, after)
    BY DEF Starts
  <2>3. pc \in Phases /\ batch \subseteq Edits /\ after \in Nat
    BY <2>1
  <2> HIDE DEF r, pc, batch, after
  <2>4. Started(r, pc, batch, after)
    BY <2>2, <2>3, SentRequest
  <2> QED
    BY <2>4 DEF pc, batch, Started
<1>4. tab[t].open /\ tab[t].queue # {} /\ tab' = [tab EXCEPT ![t] = tb] /\ req' = [req EXCEPT ![t]["send"] = r]
  BY DEF SendNow
<1> HIDE DEF r
<1> QED
  BY <1>2, <1>3, <1>4

(* The send lane sends the queue beside a stream.                          *)
LEMMA TypeSend ==
  ASSUME TypeInv, NEW t \in Tabs, SendNow(t)
  PROVE  TypeInv'
<1>1. PICK tb \in TabType, r \in RequestType :
        /\ tab[t].open /\ tab' = [tab EXCEPT ![t] = tb] /\ req' = [req EXCEPT ![t]["send"] = r]
        /\ tb = [tab[t] EXCEPT !.queue = {}]
        /\ r.batch = tab[t].queue /\ r.rows = {} /\ r.end = 0 /\ r.gen = 0
  BY SendGives
<1>2. "send" \in Lanes
  BY DEF Lanes
<1>3. TabFits(tab[t], Len(log)) /\ Len(log) \in Nat /\ tab[t] \in TabType
  BY <1>2, TypesOf
<1>4. TabFits(tb, Len(log)) /\ tb.open = tab[t].open /\ tb.written = tab[t].written
  BY <1>1, <1>3 DEF TabFits, TabType
<1>5. RequestFits(tb, r, Len(log))
  <2>1. 0 \in Lowest..Len(log)
    BY <1>3, LowestType
  <2> QED
    BY <1>1, <1>3, <1>4, <2>1 DEF RequestFits, TabFits
<1>6. UNCHANGED <<log, cut, generation, beat, tokens, awareness, attending, struck, spent>>
  BY DEF SendNow, room, presence, history
<1>7. tokens' \in [Tabs -> Marks] /\ awareness' \subseteq Tabs /\ attending' \subseteq Tabs /\ struck' \subseteq Edits
      /\ spent' \in [edits : [Tabs -> Nat], opens : Nat, troubles : Nat]
  BY <1>6 DEF TypeInv
<1> QED
  BY <1>1, <1>2, <1>4, <1>5, <1>6, <1>7, TypeLane

(* An edit queues one more update of the tab.                              *)
LEMMA TypeEdit ==
  ASSUME TypeInv, NEW t \in Tabs, Edit(t)
  PROVE  TypeInv'
<1> DEFINE e == <<t, spent.edits[t] + 1>>
           tb == [tab[t] EXCEPT !.written = @ \cup {e}, !.queue = @ \cup {e}]
<1>1. "send" \in Lanes
  BY DEF Lanes
<1>2. TabFits(tab[t], Len(log)) /\ Len(log) \in Nat /\ tab[t] \in TabType
      /\ req[t]["send"] \in RequestType /\ RequestFits(tab[t], req[t]["send"], Len(log))
  BY <1>1, TypesOf
<1>3. e \in Edits
  <2>1. spent.edits[t] \in Nat /\ spent.edits[t] < MaxEdits /\ MaxEdits \in Nat
    BY <1>1, TypesOf, Bounds DEF Edit
  <2> QED
    BY <2>1 DEF Edits
<1>4. tab' = [tab EXCEPT ![t] = tb] /\ tab[t].open
  <2>1. tab' = [tab EXCEPT ![t].written = @ \cup {e}, ![t].queue = @ \cup {e}] /\ tab[t].open
    BY DEF Edit
  <2> HIDE DEF e
  <2> QED
    BY <2>1 DEF TypeInv
<1>5. req' = [req EXCEPT ![t]["send"] = req[t]["send"]]
  BY DEF Edit, TypeInv
<1> HIDE DEF e
<1>6. TabFits(tb, Len(log)) /\ tb.open = tab[t].open /\ tab[t].written \subseteq tb.written
  BY <1>2, <1>3 DEF TabFits, TabType
<1>7. RequestFits(tb, req[t]["send"], Len(log))
  BY <1>2, <1>6 DEF RequestFits
<1>8. UNCHANGED <<log, cut, generation, beat, tokens, awareness, attending, struck>>
      /\ spent' = [spent EXCEPT !.edits[t] = @ + 1]
  BY DEF Edit, room, presence, history
<1>9. tokens' \in [Tabs -> Marks] /\ awareness' \subseteq Tabs /\ attending' \subseteq Tabs /\ struck' \subseteq Edits
      /\ spent' \in [edits : [Tabs -> Nat], opens : Nat, troubles : Nat]
  BY <1>8, SpentType DEF TypeInv
<1> HIDE DEF tb
<1> QED
  BY <1>1, <1>4, <1>5, <1>6, <1>7, <1>8, <1>9, TypeLane

(* A tab closes: its state is that of a closed tab, and its beacon may go  *)
(* out to reset the room.                                                  *)
LEMMA TypeLeave ==
  ASSUME TypeInv, NEW t \in Tabs, Leave(t)
  PROVE  TypeInv'
<1> DEFINE r == IF OthersPresent(t) \/ ~RoomExists THEN req[t]["beacon"]
                ELSE [req[t]["beacon"] EXCEPT !.pc = "wipe-rows"]
<1>1. "beacon" \in Lanes
  BY DEF Lanes
<1>2. Len(log) \in Nat /\ RequestFits(tab[t], req[t]["beacon"], Len(log))
  BY <1>1, TypesOf
<1>3. req' = [req EXCEPT ![t]["beacon"] = r]
  <2>1. CASE OthersPresent(t) \/ ~RoomExists
    BY <1>1, <2>1 DEF Leave, TypeInv
  <2>2. CASE ~(OthersPresent(t) \/ ~RoomExists)
    BY <2>2 DEF Leave
  <2> QED
    BY <2>1, <2>2
<1>4. RequestFits(tab[t], r, Len(log))
  <2>1. "wipe-rows" \in Phases
    BY DEF Phases
  <2> QED
    BY <1>2, <2>1, FitsPhase
<1> HIDE DEF r
<1>5. RequestFits(Closed, r, Len(log)) /\ TabFits(Closed, Len(log)) /\ ~Closed.open
  BY <1>2, <1>4, IdleFits DEF RequestFits
<1>6. tab' = [tab EXCEPT ![t] = Closed] /\ UNCHANGED <<log, cut, generation, beat, spent>>
      /\ tokens' = [tokens EXCEPT ![t] = "none"] /\ awareness' = awareness \ {t} /\ attending' = attending \ {t}
      /\ struck' = struck
  BY DEF Leave, room
<1>7. tokens' \in [Tabs -> Marks] /\ awareness' \subseteq Tabs /\ attending' \subseteq Tabs /\ struck' \subseteq Edits
      /\ spent' \in [edits : [Tabs -> Nat], opens : Nat, troubles : Nat]
  BY <1>6 DEF TypeInv, Marks
<1> QED
  BY <1>1, <1>3, <1>5, <1>6, <1>7, TypeLane

(* A tab opens anew, without a view or a cursor.                           *)
LEMMA TypeOpen ==
  ASSUME TypeInv, NEW t \in Tabs, Open(t)
  PROVE  TypeInv'
<1> DEFINE tb == [Closed EXCEPT !.open = TRUE]
<1>1. Len(log) \in Nat /\ req[t] \in [Lanes -> RequestType]
  BY DEF TypeInv
<1>2. TabFits(Closed, Len(log))
  BY <1>1, IdleFits
<1>3. TabFits(tb, Len(log))
  BY <1>2 DEF TabFits, Closed, TabType
<1>4. \A l \in Lanes : RequestFits(tb, req[t][l], Len(log))
  <2> TAKE l \in Lanes
  <2>1. req[t][l] = Idle
    BY DEF Open
  <2> QED
    BY <1>1, <2>1, IdleFits
<1>5. tab' = [tab EXCEPT ![t] = tb] /\ UNCHANGED <<log, cut, generation, beat, awareness, attending, struck, req>>
      /\ tokens' = [tokens EXCEPT ![t] = "seen"] /\ spent' = [spent EXCEPT !.opens = @ + 1]
  BY DEF Open, room, history
<1>6. req' = [req EXCEPT ![t] = req[t]]
  BY <1>5 DEF TypeInv
<1> HIDE DEF tb
<1>7. tokens' \in [Tabs -> Marks] /\ awareness' \subseteq Tabs /\ attending' \subseteq Tabs /\ struck' \subseteq Edits
      /\ spent' \in [edits : [Tabs -> Nat], opens : Nat, troubles : Nat]
  BY <1>5, SpentType DEF TypeInv, Marks
<1> QED
  BY <1>1, <1>3, <1>4, <1>5, <1>6, <1>7, TypeTab

(* Some of the tails, and an edit of one the cursor has reached.           *)
SomeOf(some, tails) == \A k \in 1..Len(some) : \E j \in 1..Len(tails) : some[k] = tails[j]
Reached(e, tails, cursor) == \E k \in 1..Len(tails) : e \in tails[k].batch /\ tails[k].end <= cursor

(* Draining settles what a tail is about that ends within the cursor.      *)
LEMMA DrainedGives ==
  ASSUME NEW tb \in TabType
  PROVE  LET db == Drained(tb) IN
         /\ db \in TabType
         /\ db.open = tb.open /\ db.view = tb.view /\ db.cursor = tb.cursor /\ db.gen = tb.gen
         /\ db.written = tb.written /\ db.queue = tb.queue
         /\ SomeOf(db.tails, tb.tails)
         /\ \A e \in db.settled : e \in tb.settled \/ Reached(e, tb.tails, tb.cursor)
<1>1. PICK n : Drains(tb, n)
  BY DrainedIs
<1> DEFINE db == Drained(tb)
<1>2. /\ db \in TabType
      /\ db.open = tb.open /\ db.view = tb.view /\ db.cursor = tb.cursor /\ db.gen = tb.gen
      /\ db.written = tb.written /\ db.queue = tb.queue
      /\ db.settled = tb.settled \cup UNION {tb.tails[i].batch : i \in 1..n}
      /\ \A k \in 1..Len(db.tails) : k + n \in 1..Len(tb.tails) /\ db.tails[k] = tb.tails[k + n]
  BY <1>1, DrainedFields
<1> HIDE DEF db
<1>3. SomeOf(db.tails, tb.tails)
  BY <1>2 DEF SomeOf
<1>4. \A k \in 1..n : k \in 1..Len(tb.tails) /\ tb.tails[k].end <= tb.cursor
  <2>1. n \in 0..Len(tb.tails) /\ Len(tb.tails) \in Nat
    BY <1>1 DEF Drains, TabType
  <2> QED
    BY <1>1, <2>1 DEF Drains
<1>5. \A e \in db.settled : e \in tb.settled \/ Reached(e, tb.tails, tb.cursor)
  BY <1>2, <1>4 DEF Reached
<1> QED
  BY <1>2, <1>3, <1>5 DEF db

(* What a receive makes of a tab.                                          *)
LEMMA ReceivedGives ==
  ASSUME NEW tb \in TabType, NEW r \in RequestType, r.batch \subseteq tb.written
  PROVE  LET db == Received(tb, r) IN
         /\ db \in TabType /\ db.open = tb.open /\ db.written = tb.written /\ db.queue = tb.queue
         /\ db.view = tb.view \cup r.rows /\ db.cursor = r.end /\ db.gen = r.gen
         /\ SomeOf(db.tails, tb.tails)
         /\ \A e \in db.settled :
              \/ e \in tb.settled \/ e \in r.batch
              \/ e \in tb.written /\ \E i \in r.rows : log[i] = e
              \/ Reached(e, tb.tails, r.end)
<1> DEFINE own == r.batch \cup (tb.written \cap {log[i] : i \in r.rows})
           kept == IF r.end < tb.cursor THEN <<>> ELSE tb.tails
           mb == [tb EXCEPT !.gen = r.gen, !.tails = kept, !.cursor = r.end, !.view = @ \cup r.rows,
                            !.settled = @ \cup own]
           db == Received(tb, r)
<1>1. db = Drained(mb)
  <2>1. tb.settled \cup r.batch \cup (tb.written \cap {log[i] : i \in r.rows}) = tb.settled \cup own
    OBVIOUS
  <2> HIDE DEF own
  <2> QED
    BY <2>1 DEF Received
<1>2. own \subseteq Edits /\ kept \in Seq(TailType) /\ SomeOf(kept, tb.tails)
      /\ \A e \in own : e \in r.batch \/ (e \in tb.written /\ \E i \in r.rows : log[i] = e)
  BY DEF TabType, SomeOf
<1>3. r.rows \subseteq Nat /\ r.end \in Nat /\ r.gen \in Int
  BY DEF RequestType
<1> HIDE DEF own, kept
<1>4. /\ mb \in TabType /\ mb.open = tb.open /\ mb.written = tb.written /\ mb.queue = tb.queue
      /\ mb.view = tb.view \cup r.rows /\ mb.cursor = r.end /\ mb.gen = r.gen
      /\ mb.tails = kept /\ mb.settled = tb.settled \cup own
  BY <1>2, <1>3 DEF TabType
<1> HIDE DEF mb, db
<1>5. /\ db \in TabType
      /\ db.open = mb.open /\ db.view = mb.view /\ db.cursor = mb.cursor /\ db.gen = mb.gen
      /\ db.written = mb.written /\ db.queue = mb.queue
      /\ SomeOf(db.tails, mb.tails)
      /\ \A e \in db.settled : e \in mb.settled \/ Reached(e, mb.tails, mb.cursor)
  BY <1>1, <1>4, DrainedGives
<1>6. SomeOf(db.tails, tb.tails)
  BY <1>2, <1>4, <1>5 DEF SomeOf
<1>7. \A e : Reached(e, kept, r.end) => Reached(e, tb.tails, r.end)
  BY <1>2 DEF SomeOf, Reached
<1>8. \A e \in db.settled :
        \/ e \in tb.settled \/ e \in r.batch
        \/ e \in tb.written /\ \E i \in r.rows : log[i] = e
        \/ Reached(e, tb.tails, r.end)
  BY <1>2, <1>4, <1>5, <1>7
<1> QED
  BY <1>4, <1>5, <1>6, <1>8 DEF db

(* The tail a send leaves, beside those there are.                         *)
TailOf(r) == [end |-> r.end, batch |-> r.batch]

(* What a send makes of a tab.                                             *)
LEMMA SentGives ==
  ASSUME NEW tb \in TabType, NEW r \in RequestType, r.batch \subseteq tb.written
  PROVE  LET db == Sent(tb, r) IN
         /\ db \in TabType /\ db.open = tb.open /\ db.written = tb.written /\ db.queue = tb.queue
         /\ db.view = tb.view /\ db.cursor = tb.cursor /\ db.gen = tb.gen
         /\ \A k \in 1..Len(db.tails) :
              \/ \E j \in 1..Len(tb.tails) : db.tails[k] = tb.tails[j]
              \/ tb.gen \in {0, r.gen} /\ db.tails[k] = TailOf(r)
         /\ \A e \in db.settled :
              \/ e \in tb.settled \/ Reached(e, tb.tails, tb.cursor)
              \/ tb.gen \in {0, r.gen} /\ e \in r.batch /\ r.end <= tb.cursor
<1> DEFINE db == Sent(tb, r)
<1>1. CASE tb.gen \notin {0, r.gen}
  <2>1. db = tb
    BY <1>1 DEF Sent
  <2> QED
    BY <2>1
<1>2. CASE tb.gen \in {0, r.gen}
  <2> DEFINE x == TailOf(r)
             more == Append(tb.tails, x)
             mb == [tb EXCEPT !.tails = more]
  <2>1. db = Drained(mb)
    BY <1>2 DEF Sent, TailOf
  <2>2. x \in TailType /\ x.end = r.end /\ x.batch = r.batch
    BY DEF TailOf, TailType, RequestType
  <2>3. tb.tails \in Seq(TailType)
    BY DEF TabType
  <2> HIDE DEF x
  <2>4. more \in Seq(TailType) /\ \A k \in 1..Len(more) : more[k] = x \/ \E j \in 1..Len(tb.tails) : more[k] = tb.tails[j]
    BY <2>2, <2>3
  <2> HIDE DEF more
  <2>5. /\ mb \in TabType /\ mb.open = tb.open /\ mb.written = tb.written /\ mb.queue = tb.queue
        /\ mb.view = tb.view /\ mb.cursor = tb.cursor /\ mb.gen = tb.gen
        /\ mb.tails = more /\ mb.settled = tb.settled
    BY <2>4 DEF TabType
  <2> HIDE DEF mb, db
  <2>6. /\ db \in TabType
        /\ db.open = mb.open /\ db.view = mb.view /\ db.cursor = mb.cursor /\ db.gen = mb.gen
        /\ db.written = mb.written /\ db.queue = mb.queue
        /\ SomeOf(db.tails, mb.tails)
        /\ \A e \in db.settled : e \in mb.settled \/ Reached(e, mb.tails, mb.cursor)
    BY <2>1, <2>5, DrainedGives
  <2>7. \A k \in 1..Len(db.tails) : db.tails[k] = x \/ \E j \in 1..Len(tb.tails) : db.tails[k] = tb.tails[j]
    BY <2>4, <2>5, <2>6 DEF SomeOf
  <2>8. \A e : Reached(e, more, tb.cursor) =>
          Reached(e, tb.tails, tb.cursor) \/ (e \in r.batch /\ r.end <= tb.cursor)
    BY <2>2, <2>4 DEF Reached
  <2>9. \A e \in db.settled : \/ e \in tb.settled \/ Reached(e, tb.tails, tb.cursor)
                              \/ tb.gen \in {0, r.gen} /\ e \in r.batch /\ r.end <= tb.cursor
    BY <1>2, <2>5, <2>6, <2>8
  <2> QED
    BY <1>2, <2>5, <2>6, <2>7, <2>9 DEF db, x
<1> QED
  BY <1>1, <1>2

(* A tab after another room answered it: closed, or started again.         *)
LEMMA RestartGives ==
  ASSUME NEW tb \in TabType, NEW g \in Int, NEW db \in Restarts(tb, g)
  PROVE  \/ db = Closed
         \/ /\ db \in TabType /\ db.open = tb.open /\ db.written = tb.written
            /\ db.queue = tb.written \ tb.settled /\ db.settled = tb.settled
            /\ db.view = {} /\ db.cursor = 0 /\ db.gen = g /\ db.tails = <<>>
<1> DEFINE left == tb.written \ tb.settled
           mb == [tb EXCEPT !.gen = g, !.cursor = 0, !.view = {}, !.tails = <<>>, !.queue = left]
<1>1. db = Closed \/ db = mb
  BY DEF Restarts
<1>2. left \subseteq Edits /\ <<>> \in Seq(TailType)
  BY DEF TabType
<1> HIDE DEF left
<1>3. /\ mb \in TabType /\ mb.open = tb.open /\ mb.written = tb.written
      /\ mb.queue = left /\ mb.settled = tb.settled
      /\ mb.view = {} /\ mb.cursor = 0 /\ mb.gen = g /\ mb.tails = <<>>
  BY <1>2 DEF TabType
<1> QED
  BY <1>1, <1>3 DEF left

(* What a tab and its requests fit, the tab still fits after an answer.    *)
LEMMA AnswerFits ==
  ASSUME TypeInv, NEW t \in Tabs, NEW l \in Lanes, tab[t].open, NEW db,
         \/ db = Received(tab[t], req[t][l]) \/ db = Sent(tab[t], req[t][l])
         \/ db \in Restarts(tab[t], req[t][l].gen)
  PROVE  TabFits(db, Len(log)) /\ (db.open => db.written = tab[t].written)
<1> DEFINE tb == tab[t]
           r == req[t][l]
           n == Len(log)
<1>1. TabFits(tb, n) /\ tb \in TabType /\ r \in RequestType /\ n \in Nat
      /\ r.rows \subseteq 1..n /\ r.end <= n /\ r.gen \in Lowest..n /\ r.batch \subseteq tb.written
  BY TypesOf DEF RequestFits
<1>2. r.end \in Nat /\ r.gen \in Int
  BY <1>1 DEF RequestType
<1> HIDE DEF tb, r
<1>3. \A k \in 1..Len(tb.tails) : tb.tails[k].batch \subseteq tb.written
  BY <1>1 DEF TabFits
<1>4. ASSUME NEW e, NEW c, Reached(e, tb.tails, c) PROVE e \in tb.written
  BY <1>3, <1>4 DEF Reached
<1>5. CASE db = Received(tb, r)
  <2>1. /\ db \in TabType /\ db.open = tb.open /\ db.written = tb.written /\ db.queue = tb.queue
        /\ db.view = tb.view \cup r.rows /\ db.cursor = r.end /\ db.gen = r.gen
        /\ SomeOf(db.tails, tb.tails)
        /\ \A e \in db.settled :
             \/ e \in tb.settled \/ e \in r.batch
             \/ e \in tb.written /\ \E i \in r.rows : log[i] = e
             \/ Reached(e, tb.tails, r.end)
    BY <1>1, <1>5, ReceivedGives
  <2>2. db.settled \subseteq tb.written
    BY <1>1, <1>4, <2>1 DEF TabFits
  <2>3. \A k \in 1..Len(db.tails) : db.tails[k].batch \subseteq db.written
    BY <1>3, <2>1 DEF SomeOf
  <2> QED
    BY <1>1, <2>1, <2>2, <2>3 DEF TabFits, n, tb
<1>6. CASE db = Sent(tb, r)
  <2>1. /\ db \in TabType /\ db.open = tb.open /\ db.written = tb.written /\ db.queue = tb.queue
        /\ db.view = tb.view /\ db.cursor = tb.cursor /\ db.gen = tb.gen
        /\ \A k \in 1..Len(db.tails) :
             \/ \E j \in 1..Len(tb.tails) : db.tails[k] = tb.tails[j]
             \/ tb.gen \in {0, r.gen} /\ db.tails[k] = TailOf(r)
        /\ \A e \in db.settled :
             \/ e \in tb.settled \/ Reached(e, tb.tails, tb.cursor)
             \/ tb.gen \in {0, r.gen} /\ e \in r.batch /\ r.end <= tb.cursor
    BY <1>1, <1>6, SentGives
  <2>2. db.settled \subseteq tb.written
    BY <1>1, <1>4, <2>1 DEF TabFits
  <2>3. TailOf(r).batch = r.batch
    BY DEF TailOf
  <2>4. \A k \in 1..Len(db.tails) : db.tails[k].batch \subseteq db.written
    BY <1>1, <1>3, <2>1, <2>3
  <2> QED
    BY <1>1, <2>1, <2>2, <2>4 DEF TabFits, n, tb
<1>7. CASE db \in Restarts(tb, r.gen)
  <2>1. \/ db = Closed
        \/ /\ db \in TabType /\ db.open = tb.open /\ db.written = tb.written
           /\ db.queue = tb.written \ tb.settled /\ db.settled = tb.settled
           /\ db.view = {} /\ db.cursor = 0 /\ db.gen = r.gen /\ db.tails = <<>>
    BY <1>1, <1>2, <1>7, RestartGives
  <2>2. CASE db = Closed
    BY <1>1, <2>2, IdleFits DEF n
  <2>3. CASE db # Closed
    <3>1. TabFits(db, n)
      BY <1>1, <2>1, <2>3 DEF TabFits
    <3> QED
      BY <2>1, <2>3, <3>1 DEF n, tb
  <2> QED
    BY <2>2, <2>3
<1> QED
  BY <1>5, <1>6, <1>7 DEF tb, r

(* What an answer makes of its tab.                                        *)
LEMMA AnswerGives ==
  ASSUME TypeInv, NEW t \in Tabs, NEW l \in Lanes, Answer(t, l)
  PROVE  \E db :
    /\ tab' = [tab EXCEPT ![t] = db] /\ req' = [req EXCEPT ![t][l] = Idle]
    /\ attending' = IF db.open THEN attending ELSE attending \ {t}
    /\ \/ ~tab[t].open /\ db = tab[t]
       \/ tab[t].open /\ l = "send" /\ db = Sent(tab[t], req[t][l])
       \/ tab[t].open /\ l # "send" /\ tab[t].gen \in {0, req[t][l].gen} /\ db = Received(tab[t], req[t][l])
       \/ tab[t].open /\ l # "send" /\ tab[t].gen \notin {0, req[t][l].gen} /\ db \in Restarts(tab[t], req[t][l].gen)
<1> DEFINE S == IF ~tab[t].open THEN {tab[t]}
               ELSE IF l = "send" THEN {Sent(tab[t], req[t][l])}
               ELSE IF tab[t].gen \in {0, req[t][l].gen} THEN {Received(tab[t], req[t][l])}
               ELSE Restarts(tab[t], req[t][l].gen)
<1>1. req' = [req EXCEPT ![t][l] = Idle]
  BY DEF Answer
<1>2. \E db \in S : /\ tab' = [tab EXCEPT ![t] = db]
                    /\ attending' = IF db.open THEN attending ELSE attending \ {t}
  BY DEF Answer
<1>3. PICK db \in S : /\ tab' = [tab EXCEPT ![t] = db]
                      /\ attending' = IF db.open THEN attending ELSE attending \ {t}
  BY <1>2
<1>4. \/ ~tab[t].open /\ db = tab[t]
      \/ tab[t].open /\ l = "send" /\ db = Sent(tab[t], req[t][l])
      \/ tab[t].open /\ l # "send" /\ tab[t].gen \in {0, req[t][l].gen} /\ db = Received(tab[t], req[t][l])
      \/ tab[t].open /\ l # "send" /\ tab[t].gen \notin {0, req[t][l].gen} /\ db \in Restarts(tab[t], req[t][l].gen)
  <2>1. CASE ~tab[t].open
    BY <2>1
  <2>2. CASE tab[t].open /\ l = "send"
    BY <2>2
  <2>3. CASE tab[t].open /\ l # "send" /\ tab[t].gen \in {0, req[t][l].gen}
    BY <2>3
  <2>4. CASE tab[t].open /\ l # "send" /\ tab[t].gen \notin {0, req[t][l].gen}
    BY <2>4
  <2> QED
    BY <2>1, <2>2, <2>3, <2>4
<1> HIDE DEF S
<1> QED
  BY <1>1, <1>3, <1>4

(* An answer moves the view, the cursor and the settled edits, or          *)
(* restarts the tab on a new token.                                        *)
LEMMA TypeAnswer ==
  ASSUME TypeInv, NEW t \in Tabs, NEW l \in Lanes, Answer(t, l)
  PROVE  TypeInv'
<1>1. PICK db :
    /\ tab' = [tab EXCEPT ![t] = db] /\ req' = [req EXCEPT ![t][l] = Idle]
    /\ attending' = IF db.open THEN attending ELSE attending \ {t}
    /\ \/ ~tab[t].open /\ db = tab[t]
       \/ tab[t].open /\ l = "send" /\ db = Sent(tab[t], req[t][l])
       \/ tab[t].open /\ l # "send" /\ tab[t].gen \in {0, req[t][l].gen} /\ db = Received(tab[t], req[t][l])
       \/ tab[t].open /\ l # "send" /\ tab[t].gen \notin {0, req[t][l].gen} /\ db \in Restarts(tab[t], req[t][l].gen)
  BY AnswerGives
<1>2. Len(log) \in Nat /\ TabFits(tab[t], Len(log))
  BY TypesOf
<1>3. TabFits(db, Len(log)) /\ (db.open => tab[t].open /\ tab[t].written \subseteq db.written)
  <2>1. CASE ~tab[t].open
    BY <1>1, <1>2, <2>1
  <2>2. CASE tab[t].open
    BY <1>1, <2>2, AnswerFits
  <2> QED
    BY <2>1, <2>2
<1>4. RequestFits(db, Idle, Len(log))
  BY <1>2, IdleFits
<1>5. UNCHANGED <<log, cut, generation, beat, tokens, awareness, struck, spent>>
  BY DEF Answer, room, presence
<1>6. tokens' \in [Tabs -> Marks] /\ awareness' \subseteq Tabs /\ attending' \subseteq Tabs /\ struck' \subseteq Edits
      /\ spent' \in [edits : [Tabs -> Nat], opens : Nat, troubles : Nat]
  BY <1>1, <1>5 DEF TypeInv
<1> QED
  BY <1>1, <1>3, <1>4, <1>5, <1>6, TypeLane

(* A lost answer puts the batch back into the queue.                       *)
LEMMA TypeLose ==
  ASSUME TypeInv, NEW t \in Tabs, NEW l \in Lanes, LoseAnswer(t, l)
  PROVE  TypeInv'
<1> DEFINE tb == [tab[t] EXCEPT !.queue = @ \cup req[t][l].batch]
<1>1. tab' = [tab EXCEPT ![t] = tb] /\ req' = [req EXCEPT ![t][l] = Idle] /\ tab[t].open
      /\ UNCHANGED <<log, cut, generation, beat, tokens, awareness, attending, struck>>
      /\ spent' = [spent EXCEPT !.troubles = @ + 1]
  BY DEF LoseAnswer, room, presence, history
<1>2. Len(log) \in Nat /\ TabFits(tab[t], Len(log)) /\ RequestFits(tab[t], req[t][l], Len(log)) /\ tab[t] \in TabType
      /\ req[t][l] \in RequestType
  BY TypesOf
<1>3. TabFits(tb, Len(log)) /\ tb.open = tab[t].open /\ tb.written = tab[t].written
  BY <1>1, <1>2 DEF TabFits, TabType, RequestFits, RequestType
<1> HIDE DEF tb
<1>4. RequestFits(tb, Idle, Len(log))
  BY <1>2, IdleFits
<1>5. tokens' \in [Tabs -> Marks] /\ awareness' \subseteq Tabs /\ attending' \subseteq Tabs /\ struck' \subseteq Edits
      /\ spent' \in [edits : [Tabs -> Nat], opens : Nat, troubles : Nat]
  BY <1>1, SpentType DEF TypeInv
<1> QED
  BY <1>1, <1>3, <1>4, <1>5, TypeLane

(* Beats and expiries touch the presence list only.                        *)
LEMMA TypePresence ==
  ASSUME TypeInv, NEW t \in Tabs, BeatRead(t) \/ BeatWrite(t) \/ Expire(t)
  PROVE  TypeInv'
<1>1. UNCHANGED <<log, cut, generation, tab, req>>
  BY DEF BeatRead, BeatWrite, Expire, room
<1>2. /\ tokens' \in [Tabs -> Marks] /\ awareness' \subseteq Tabs /\ attending' \subseteq Tabs /\ struck' \subseteq Edits
      /\ beat' \in [Tabs -> Seq([Tabs -> Marks])]
      /\ spent' \in [edits : [Tabs -> Nat], opens : Nat, troubles : Nat]
  <2>1. CASE BeatRead(t)
    <3>1. <<tokens>> \in Seq([Tabs -> Marks])
      BY DEF TypeInv
    <3>2. beat' = [beat EXCEPT ![t] = <<tokens>>] /\ UNCHANGED <<tokens, awareness, attending, struck>>
          /\ spent' = [spent EXCEPT !.troubles = @ + 1]
      BY <2>1 DEF BeatRead, history
    <3> QED
      BY <3>1, <3>2, SpentType DEF TypeInv
  <2>2. CASE BeatWrite(t)
    <3>1. beat[t] \in Seq([Tabs -> Marks]) /\ beat[t] # <<>>
      BY <2>2 DEF BeatWrite, TypeInv
    <3>2. beat[t][1] \in [Tabs -> Marks]
      BY <3>1
    <3>3. Beaten(beat[t][1], t) \in [Tabs -> Marks]
      BY <3>2 DEF Beaten, Marks
    <3>4. beat' = [beat EXCEPT ![t] = <<>>] /\ UNCHANGED <<awareness, struck, spent>>
          /\ tokens' = Beaten(beat[t][1], t) /\ attending' \subseteq attending
      BY <2>2 DEF BeatWrite
    <3>5. <<>> \in Seq([Tabs -> Marks])
      OBVIOUS
    <3> QED
      BY <3>3, <3>4, <3>5 DEF TypeInv
  <2>3. CASE Expire(t)
    <3>1. /\ tokens' = [tokens EXCEPT ![t] = "none"] /\ awareness' = awareness \ {t}
          /\ attending' = attending \ {t} /\ UNCHANGED <<beat, struck>>
          /\ spent' = spent \/ spent' = [spent EXCEPT !.troubles = @ + 1]
      BY <2>3 DEF Expire
    <3> QED
      BY <3>1, SpentType DEF TypeInv, Marks
  <2> QED
    BY <2>1, <2>2, <2>3
<1> QED
  BY <1>1, <1>2 DEF TypeInv

(* TypeInv is inductive.                                                   *)
LEMMA NextTypes == TypeInv /\ [Next]_vars => TypeInv'
<1> SUFFICES ASSUME TypeInv, [Next]_vars PROVE TypeInv'
  OBVIOUS
<1>1. CASE UNCHANGED vars
  BY <1>1 DEF vars, room, presence, TypeInv, history
<1>2. ASSUME NEW t \in Tabs, Open(t) \/ BeatRead(t) \/ BeatWrite(t) \/ Expire(t) \/ Leave(t)
                            \/ Edit(t) \/ Receive(t) \/ SendNow(t)
      PROVE  TypeInv'
  BY <1>2, TypeOpen, TypePresence, TypeLeave, TypeEdit, TypeReceive, TypeSend
<1>3. ASSUME NEW t \in Tabs, NEW l \in Lanes, Serve(t, l) \/ LoseAnswer(t, l)
      PROVE  TypeInv'
  BY <1>3, TypeNote, TypeWipeRows, TypeWipeMeta, TypeIngest, TypeRead, TypeGeneration, TypeStore,
     TypeAnswer, TypeLose DEF Serve
<1> QED
  BY <1>1, <1>2, <1>3 DEF Next

(* It contains the type invariant.                                         *)
LEMMA TypeInvGivesTypeOK == TypeInv => TypeOK
<1> SUFFICES ASSUME TypeInv PROVE TypeOK
  OBVIOUS
<1>1. \A t \in Tabs :
       /\ tab[t].open \in BOOLEAN /\ tab[t].view \subseteq Ids /\ tab[t].cursor \in 0..Len(log)
       /\ tab[t].queue \cup tab[t].settled \subseteq tab[t].written /\ tab[t].written \subseteq Edits
       /\ \A l \in Lanes : req[t][l].pc \in Phases
  <2> TAKE t \in Tabs
  <2>1. "send" \in Lanes
    BY DEF Lanes
  <2>2. TabFits(tab[t], Len(log)) /\ tab[t] \in TabType /\ Len(log) \in Nat
    BY <2>1, TypesOf
  <2>3. \A l \in Lanes : req[t][l].pc \in Phases
    BY TypesOf DEF RequestType
  <2> QED
    BY <2>2, <2>3 DEF TabFits, TabType, Ids
<1> QED
  BY <1>1 DEF TypeOK, TypeInv, Phases, Marks, Lowest

(* Rows, presence, tabs and requests keep their types, whatever races: in  *)
(* particular a view and a cursor never point past the last row, and what  *)
(* is queued or settled was written by the tab.                            *)
THEOREM Typed == Spec => []TypeOK
<1> QED
  BY InitTypes, NextTypes, TypeInvGivesTypeOK, PTL DEF Spec

-----------------------------------------------------------------------------
(* Presence.                                                               *)

Wiping(r) == r.pc \in {"wipe-rows", "wipe-meta"}

AttendingJoined == \A t \in attending : tokens[t] = "joined"

(* A request that has decided to delete the rows is alone with its tab,    *)
(* and unless it is a leave beacon, it is one with which its tab joins.    *)
WipesAlone == \A t \in Tabs, l \in Lanes :
  /\ req[t][l].pc = "wipe-rows" => attending \subseteq {t}
  /\ Wiping(req[t][l]) /\ l # "beacon" => req[t][l].first

PresenceInv == AttendingJoined /\ WipesAlone

(* At first nobody attends, and no request is at work.                     *)
LEMMA InitPresence == Init => PresenceInv
<1> SUFFICES ASSUME Init PROVE PresenceInv
  OBVIOUS
<1>1. attending = {} /\ \A t \in Tabs, l \in Lanes : req[t][l].pc = "idle"
  BY DEF Init, Idle
<1> QED
  BY <1>1 DEF PresenceInv, AttendingJoined, WipesAlone, Wiping

(* A step that starts no wipe, and after which whoever is still sure of    *)
(* the room has joined.                                                    *)
LEMMA StartsNoWipe ==
  ASSUME PresenceInv, attending' \subseteq attending, \A u \in attending' : tokens'[u] = "joined",
         \A u \in Tabs, m \in Lanes : Wiping(req'[u][m]) =>
           /\ Wiping(req[u][m]) /\ req'[u][m].first = req[u][m].first
           /\ req'[u][m].pc = "wipe-rows" => req[u][m].pc = "wipe-rows"
  PROVE  PresenceInv'
<1>1. AttendingJoined'
  BY DEF AttendingJoined
<1>2. WipesAlone'
  BY DEF PresenceInv, WipesAlone, Wiping
<1> QED
  BY <1>1, <1>2 DEF PresenceInv

(* A step of one request, which is not one of a reset afterwards.          *)
LEMMA RequestStep ==
  ASSUME TypeInv, PresenceInv, NEW t \in Tabs, NEW l \in Lanes, NEW r, ~Wiping(r),
         req' = [req EXCEPT ![t][l] = r], tokens' = tokens, attending' \subseteq attending
  PROVE  PresenceInv'
<1>1. req'[t][l] = r /\ \A u \in Tabs, m \in Lanes : (u = t /\ m = l) \/ req'[u][m] = req[u][m]
  BY DEF TypeInv
<1>2. \A u \in attending' : tokens'[u] = "joined"
  BY DEF PresenceInv, AttendingJoined
<1> QED
  BY <1>1, <1>2, StartsNoWipe

(* The steps of the engine and the tab's own requests.                     *)
LEMMA PresenceServe ==
  ASSUME TypeInv, PresenceInv, NEW t \in Tabs, NEW l \in Lanes,
         \/ WipeMeta(t, l) \/ Ingest(t, l) \/ Read(t, l) \/ Generation(t, l)
         \/ StoreGeneration(t, l) \/ Answer(t, l) \/ LoseAnswer(t, l)
  PROVE  PresenceInv'
<1>1. req[t][l] \in RequestType
  BY TypesOf
<1>2. CASE WipeMeta(t, l)
  <2> DEFINE r == IF l = "beacon" THEN Idle ELSE [req[t][l] EXCEPT !.pc = "ingest", !.first = FALSE]
  <2>1. ~Wiping(r)
    BY <1>1 DEF Wiping, RequestType, Idle
  <2>2. req' = [req EXCEPT ![t][l] = r] /\ UNCHANGED <<tokens, attending>>
    BY <1>2 DEF WipeMeta, history
  <2> HIDE DEF r
  <2> QED
    BY <2>1, <2>2, RequestStep
<1>3. CASE Ingest(t, l) \/ StoreGeneration(t, l)
  <2>1. PICK pc \in {"read", "answer"} : req' = [req EXCEPT ![t][l].pc = pc]
    BY <1>3 DEF Ingest, StoreGeneration
  <2> DEFINE r == [req[t][l] EXCEPT !.pc = pc]
  <2>2. ~Wiping(r)
    BY <1>1 DEF Wiping, RequestType
  <2>3. req' = [req EXCEPT ![t][l] = r] /\ UNCHANGED <<tokens, attending>>
    BY <1>3, <2>1 DEF Ingest, StoreGeneration, presence, history
  <2> HIDE DEF r
  <2> QED
    BY <2>2, <2>3, RequestStep
<1>4. CASE Read(t, l)
  <2>1. PICK r \in RequestType : req' = [req EXCEPT ![t][l] = r] /\ r.pc = "generation"
    BY <1>4, ReadGives
  <2>2. UNCHANGED <<tokens, attending>> /\ ~Wiping(r)
    BY <1>4, <2>1 DEF Read, presence, history, Wiping
  <2> QED
    BY <2>1, <2>2, RequestStep
<1>5. CASE Generation(t, l)
  <2> DEFINE g == IF generation # 0 THEN generation ELSE Derived
             pc == IF generation # 0 THEN "answer" ELSE "mint"
             r == [req[t][l] EXCEPT !.gen = g, !.pc = pc]
  <2>1. req' = [req EXCEPT ![t][l] = r]
    BY <1>5 DEF Generation, TypeInv
  <2>2. ~Wiping(r)
    <3> HIDE DEF g
    <3> QED
      BY <1>1 DEF Wiping, RequestType
  <2>3. UNCHANGED <<tokens, attending>>
    BY <1>5 DEF Generation, presence, history
  <2> HIDE DEF r
  <2> QED
    BY <2>1, <2>2, <2>3, RequestStep
<1>6. CASE Answer(t, l)
  <2>1. req' = [req EXCEPT ![t][l] = Idle] /\ attending' \subseteq attending
    BY <1>6, AnswerGives
  <2>2. tokens' = tokens /\ ~Wiping(Idle)
    BY <1>6 DEF Answer, presence, Wiping, Idle
  <2> QED
    BY <2>1, <2>2, RequestStep
<1>7. CASE LoseAnswer(t, l)
  <2>1. req' = [req EXCEPT ![t][l] = Idle] /\ UNCHANGED <<tokens, attending>> /\ ~Wiping(Idle)
    BY <1>7 DEF LoseAnswer, presence, history, Wiping, Idle
  <2> QED
    BY <2>1, RequestStep
<1> QED
  BY <1>2, <1>3, <1>4, <1>5, <1>6, <1>7

(* The reset goes on to the meta values.                                   *)
LEMMA PresenceWipe ==
  ASSUME TypeInv, PresenceInv, NEW t \in Tabs, NEW l \in Lanes, WipeRows(t, l)
  PROVE  /\ PresenceInv'
         /\ req[t][l].pc = "wipe-rows" /\ req'[t][l].pc # "wipe-rows" /\ attending \subseteq {t}
<1>1. req[t][l].pc = "wipe-rows" /\ UNCHANGED <<tokens, attending>> /\ req' = [req EXCEPT ![t][l].pc = "wipe-meta"]
  BY DEF WipeRows, presence
<1>2. req'[t][l].pc = "wipe-meta" /\ req'[t][l].first = req[t][l].first
      /\ \A u \in Tabs, m \in Lanes : (u = t /\ m = l) \/ req'[u][m] = req[u][m]
  BY <1>1 DEF TypeInv, RequestType
<1>3. \A u \in attending' : tokens'[u] = "joined"
  BY <1>1 DEF PresenceInv, AttendingJoined
<1>4. \A u \in Tabs, m \in Lanes : Wiping(req'[u][m]) =>
           /\ Wiping(req[u][m]) /\ req'[u][m].first = req[u][m].first
           /\ req'[u][m].pc = "wipe-rows" => req[u][m].pc = "wipe-rows"
  BY <1>1, <1>2 DEF Wiping
<1>5. PresenceInv'
  BY <1>1, <1>3, <1>4, StartsNoWipe
<1> QED
  BY <1>1, <1>2, <1>5 DEF PresenceInv, WipesAlone

(* A tab whose join starts a reset was sure of nothing, and whoever else   *)
(* is sure of the room would be present; a tab that joins while another's  *)
(* reset is decided does not become sure of it.                            *)
LEMMA PresenceNote ==
  ASSUME TypeInv, PresenceInv, NEW t \in Tabs, NEW l \in Lanes, Note(t, l)
  PROVE  PresenceInv'
<1>1. PICK r : /\ req' = [req EXCEPT ![t][l] = r] /\ r.pc \in {"ingest", "wipe-rows"}
               /\ r.pc = "wipe-rows" =>
                    tokens[t] # "joined" /\ ~OthersPresent(t) /\ r.first = (t \notin attending)
  BY NoteGives
<1>2. req'[t][l] = r /\ \A u \in Tabs, m \in Lanes : (u = t /\ m = l) \/ req'[u][m] = req[u][m]
  BY <1>1 DEF TypeInv
<1>3. /\ tokens' = [tokens EXCEPT ![t] = "joined"] /\ attending' \subseteq attending \cup {t}
      /\ Condemned(t) => attending' = attending
  BY DEF Note
<1>4. tokens'[t] = "joined" /\ \A u \in Tabs \ {t} : tokens'[u] = tokens[u]
  BY <1>3 DEF TypeInv
<1>5. AttendingJoined'
  BY <1>3, <1>4 DEF PresenceInv, AttendingJoined, TypeInv
<1>6. ASSUME NEW u \in Tabs, NEW m \in Lanes
      PROVE  /\ req'[u][m].pc = "wipe-rows" => attending' \subseteq {u}
             /\ Wiping(req'[u][m]) /\ m # "beacon" => req'[u][m].first
  <2>1. CASE u = t /\ m = l
    <3>1. Wiping(r) => r.pc = "wipe-rows"
      BY <1>1 DEF Wiping
    <3>2. ASSUME r.pc = "wipe-rows" PROVE attending' \subseteq {t} /\ r.first
      <4>1. tokens[t] # "joined" /\ \A v \in Tabs \ {t} : tokens[v] = "none"
        BY <1>1, <3>2 DEF OthersPresent
      <4>2. attending = {}
        BY <4>1 DEF PresenceInv, AttendingJoined, TypeInv
      <4> QED
        BY <1>1, <1>3, <3>2, <4>2
    <3> QED
      BY <1>2, <2>1, <3>1, <3>2
  <2>2. CASE ~(u = t /\ m = l)
    <3>1. req'[u][m] = req[u][m]
      BY <1>2, <2>2
    <3>2. ASSUME req[u][m].pc = "wipe-rows" PROVE attending' \subseteq {u}
      <4>1. attending \subseteq {u}
        BY <3>2 DEF PresenceInv, WipesAlone
      <4>2. u # t => Condemned(t)
        BY <3>2 DEF Condemned
      <4> QED
        BY <1>3, <4>1, <4>2
    <3> QED
      BY <3>1, <3>2 DEF PresenceInv, WipesAlone
  <2> QED
    BY <2>1, <2>2
<1> QED
  BY <1>5, <1>6 DEF PresenceInv, WipesAlone

(* A leave resets only if nobody else is there.                            *)
LEMMA PresenceLeave ==
  ASSUME TypeInv, PresenceInv, NEW t \in Tabs, Leave(t)
  PROVE  PresenceInv'
<1>1. /\ tokens' = [tokens EXCEPT ![t] = "none"] /\ attending' = attending \ {t}
      /\ req' = IF OthersPresent(t) \/ ~RoomExists THEN req ELSE [req EXCEPT ![t]["beacon"].pc = "wipe-rows"]
      /\ req[t]["beacon"] = Idle /\ "beacon" \in Lanes
  BY DEF Leave, Lanes
<1>2. \A u \in attending' : tokens'[u] = "joined"
  BY <1>1 DEF PresenceInv, AttendingJoined, TypeInv
<1>3. CASE req' = req
  BY <1>1, <1>2, <1>3, StartsNoWipe
<1>4. CASE ~OthersPresent(t) /\ req' = [req EXCEPT ![t]["beacon"].pc = "wipe-rows"]
  <2>1. attending' = {}
    BY <1>1, <1>4 DEF PresenceInv, AttendingJoined, OthersPresent, TypeInv
  <2>2. \A u \in Tabs, m \in Lanes : (u = t /\ m = "beacon") \/ req'[u][m] = req[u][m]
    BY <1>1, <1>4 DEF TypeInv
  <2>3. WipesAlone'
    BY <2>1, <2>2 DEF PresenceInv, WipesAlone
  <2> QED
    BY <1>2, <2>3 DEF PresenceInv, AttendingJoined
<1> QED
  BY <1>1, <1>3, <1>4

(* A beat that writes an older list drops the joins it has not seen, and a *)
(* tab whose join it dropped is not sure of the room any more.             *)
LEMMA PresenceBeat ==
  ASSUME TypeInv, PresenceInv, NEW t \in Tabs, BeatRead(t) \/ BeatWrite(t) \/ Expire(t)
  PROVE  PresenceInv'
<1>1. req' = req /\ attending' \subseteq attending
  BY DEF BeatRead, BeatWrite, Expire, history
<1>2. \A u \in attending' : tokens'[u] = "joined"
  <2>1. CASE BeatRead(t)
    BY <2>1 DEF BeatRead, history, PresenceInv, AttendingJoined
  <2>2. CASE BeatWrite(t)
    <3>1. beat[t] \in Seq([Tabs -> Marks]) /\ beat[t] # <<>>
      BY <2>2 DEF BeatWrite, TypeInv
    <3>2. beat[t][1] \in [Tabs -> Marks] /\ attending \subseteq Tabs
      BY <3>1 DEF TypeInv
    <3>3. tokens' = Beaten(beat[t][1], t) /\ \A u \in attending' : u \in attending /\ beat[t][1][u] = "joined"
      BY <2>2 DEF BeatWrite
    <3> QED
      BY <3>2, <3>3 DEF Beaten
  <2>3. CASE Expire(t)
    <3>1. tokens' = [tokens EXCEPT ![t] = "none"] /\ attending' = attending \ {t}
      BY <2>3 DEF Expire
    <3> QED
      BY <3>1 DEF PresenceInv, AttendingJoined, TypeInv
  <2> QED
    BY <2>1, <2>2, <2>3
<1> QED
  BY <1>1, <1>2, StartsNoWipe

(* A tab that opens has not joined, and a request that is sent resets      *)
(* nothing yet.                                                            *)
LEMMA PresenceTab ==
  ASSUME TypeInv, PresenceInv, NEW t \in Tabs, Open(t) \/ Edit(t) \/ Receive(t) \/ SendNow(t)
  PROVE  PresenceInv'
<1>1. CASE Open(t)
  <2>1. /\ tokens[t] = "none" /\ tokens' = [tokens EXCEPT ![t] = "seen"]
        /\ UNCHANGED <<req, attending>>
    BY <1>1 DEF Open, history
  <2>2. \A u \in attending' : tokens'[u] = "joined"
    BY <2>1 DEF PresenceInv, AttendingJoined, TypeInv
  <2> QED
    BY <2>1, <2>2, StartsNoWipe
<1>2. CASE Edit(t)
  <2>1. UNCHANGED <<tokens, req, attending>>
    BY <1>2 DEF Edit, presence, history
  <2> QED
    BY <2>1, StartsNoWipe DEF PresenceInv, AttendingJoined
<1>3. CASE Receive(t)
  <2>1. PICK r : req' = [req EXCEPT ![t]["receive"] = r] /\ r.pc \in {"note", "read"}
    <3>1. \E takes \in {{}, tab[t].queue}, tb \in TabType, r \in RequestType :
            req' = [req EXCEPT ![t]["receive"] = r] /\ r.pc \in {"note", "read"}
      BY <1>3, ReceiveGives, SMTT(30)
    <3> QED
      BY <3>1
  <2>2. UNCHANGED <<tokens, attending>> /\ ~Wiping(r) /\ "receive" \in Lanes
    BY <1>3, <2>1 DEF Receive, presence, history, Wiping, Lanes
  <2> QED
    BY <2>1, <2>2, RequestStep
<1>4. CASE SendNow(t)
  <2>1. PICK r \in RequestType : req' = [req EXCEPT ![t]["send"] = r] /\ r.pc = "note"
    BY <1>4, SendGives
  <2>2. UNCHANGED <<tokens, attending>> /\ ~Wiping(r) /\ "send" \in Lanes
    BY <1>4, <2>1 DEF SendNow, presence, history, Wiping, Lanes
  <2> QED
    BY <2>1, <2>2, RequestStep
<1> QED
  BY <1>1, <1>2, <1>3, <1>4

(* PresenceInv is inductive.                                               *)
LEMMA NextPresence == TypeInv /\ PresenceInv /\ [Next]_vars => PresenceInv'
<1> SUFFICES ASSUME TypeInv, PresenceInv, [Next]_vars PROVE PresenceInv'
  OBVIOUS
<1>1. CASE UNCHANGED vars
  <2>1. UNCHANGED <<tokens, req, attending>>
    BY <1>1 DEF vars, presence, history
  <2> QED
    BY <2>1, StartsNoWipe DEF PresenceInv, AttendingJoined
<1>2. ASSUME NEW t \in Tabs, Open(t) \/ BeatRead(t) \/ BeatWrite(t) \/ Expire(t) \/ Leave(t)
                            \/ Edit(t) \/ Receive(t) \/ SendNow(t)
      PROVE  PresenceInv'
  BY <1>2, PresenceBeat, PresenceLeave, PresenceTab
<1>3. ASSUME NEW t \in Tabs, NEW l \in Lanes, Serve(t, l) \/ LoseAnswer(t, l)
      PROVE  PresenceInv'
  BY <1>3, PresenceNote, PresenceWipe, PresenceServe DEF Serve
<1> QED
  BY <1>1, <1>2, <1>3 DEF Next

(* Only a reset deletes rows.                                              *)
LEMMA OnlyWipeRowsCuts ==
  ASSUME NEW t \in Tabs, cut' # cut,
         \/ Open(t) \/ BeatRead(t) \/ BeatWrite(t) \/ Expire(t) \/ Leave(t)
         \/ Edit(t) \/ Receive(t) \/ SendNow(t)
         \/ \E l \in Lanes : Serve(t, l) \/ LoseAnswer(t, l)
  PROVE  \E l \in Lanes : WipeRows(t, l)
BY DEF Open, BeatRead, BeatWrite, Expire, Leave, Edit, Receive, SendNow, Serve, LoseAnswer,
       Note, WipeMeta, Ingest, Read, Generation, StoreGeneration, Answer, room

(* However the presence accesses of requests interleave, a reset is never  *)
(* started by a request of a tab that is sure of the room: one whose join  *)
(* is stored, was not overwritten by the list of an older beat, and did    *)
(* not come between the decision of another's reset and its deletion.      *)
THEOREM OnlyJoinsReset == Spec => []LaterRequestsNeverReset
<1>1. PresenceInv => LaterRequestsNeverReset
  BY DEF PresenceInv, WipesAlone, LaterRequestsNeverReset, Wiping, Lanes
<1> QED
  BY InitTypes, NextTypes, InitPresence, NextPresence, <1>1, PTL DEF Spec

(* No tab that is sure of the room loses its rows to another tab's join or *)
(* leave: a request that deletes rows is of the only tab that is.          *)
THEOREM ParticipantsAreSafe == Spec => ParticipantKeepsRoom
<1>1. TypeInv /\ PresenceInv /\ [Next]_vars =>
        (cut' # cut => \E t \in Tabs, l \in Lanes :
           req[t][l].pc = "wipe-rows" /\ req'[t][l].pc # "wipe-rows" /\ attending \subseteq {t})
  <2> SUFFICES ASSUME TypeInv, PresenceInv, [Next]_vars, cut' # cut
               PROVE  \E t \in Tabs, l \in Lanes :
                        req[t][l].pc = "wipe-rows" /\ req'[t][l].pc # "wipe-rows" /\ attending \subseteq {t}
    OBVIOUS
  <2>1. PICK t \in Tabs, l \in Lanes : WipeRows(t, l)
    BY OnlyWipeRowsCuts, SMTT(30) DEF Next, vars, room
  <2> QED
    BY <2>1, PresenceWipe
<1> QED
  BY InitTypes, NextTypes, InitPresence, NextPresence, <1>1, PTL DEF Spec, ParticipantKeepsRoom

-----------------------------------------------------------------------------
(* Rows before verdicts.                                                   *)

Rows(lg, ct)           == (ct + 1)..Len(lg)
Stored(e, lg, ct)      == \E i \in Rows(lg, ct) : lg[i] = e
AllStored(b, lg, ct)   == \A e \in b : Stored(e, lg, ct)
Within(b, n, lg, ct)     == \A i \in Rows(lg, ct) : lg[i] \in b => i <= n
RowsOnce(lg, ct)       == \A i, j \in Rows(lg, ct) : lg[i] = lg[j] /\ lg[i] # Genesis => i = j

Behind == {"generation", "mint", "answer"}

(* An open tab that was never answered has nothing; one that knows the     *)
(* present room has its rows up to the cursor, and the tails it holds      *)
(* end at or behind the rows they are about, but for the edits sk.         *)
TabRows(tb, lg, ct, sk) == tb.open =>
  /\ tb.gen = 0 => tb.cursor = 0 /\ tb.written = {}
  /\ tb.gen > ct =>
       /\ \A i \in Rows(lg, ct) : i <= tb.cursor => i \in tb.view
       /\ \A k \in 1..Len(tb.tails) : /\ AllStored(tb.tails[k].batch \ sk, lg, ct)
                                      /\ Within(tb.tails[k].batch \ sk, tb.tails[k].end, lg, ct)

(* A request of an open tab: once ingested, its updates have rows, which   *)
(* lie within what is read afterwards, but for those a reset deleted under *)
(* it; and a receive goes on where the tab's cursor is, with rows of the   *)
(* room the tab knows.                                                     *)
LaneRows(tb, l, r, lg, ct, sk) ==
  /\ r.pc \in {"mint", "answer"} => r.gen # 0
  /\ l = "beacon" => r.pc \in {"idle", "wipe-rows", "wipe-meta"}
  /\ tb.open =>
       /\ r.pc \in Behind \cup {"read"} => AllStored(r.batch \ sk, lg, ct)
       /\ r.pc \in Behind => Within(r.batch \ sk, r.end, lg, ct)
       /\ l = "receive" /\ r.pc # "idle" => r.after = tb.cursor
       /\ l = "receive" /\ r.pc \in Behind =>
            /\ \A i \in Rows(lg, ct) : r.after < i /\ i <= r.end => i \in r.rows
            /\ tb.gen > ct => r.rows \subseteq Rows(lg, ct)

RowInv ==
  /\ RowsOnce(log, cut)
  /\ \A t \in Tabs : /\ TabRows(tab[t], log, cut, struck)
                     /\ \A l \in Lanes : LaneRows(tab[t], l, req[t][l], log, cut, struck)

(* A genesis row is no edit.                                               *)
LEMMA GenesisIsNoEdit == Genesis \notin Edits
<1> SUFFICES ASSUME Genesis \in Edits PROVE FALSE
  OBVIOUS
<1>1. PICK t \in Tabs, n \in 1..MaxEdits : Genesis = <<t, n>>
  BY DEF Edits
<1>2. Len(<<t, n>>) = 2 /\ Len(<<>>) = 0
  OBVIOUS
<1> QED
  BY <1>1, <1>2 DEF Genesis

(* At first no tab is open.                                                *)
LEMMA InitRows == Init => RowInv
<1> SUFFICES ASSUME Init PROVE RowInv
  OBVIOUS
<1>1. \A t \in Tabs : tab[t] = Closed /\ \A l \in Lanes : req[t][l] = Idle
  BY DEF Init
<1>2. ~Closed.open /\ Idle.pc = "idle"
  BY DEF Closed, Idle
<1>3. RowsOnce(log, cut)
  <2>1. Len(log) = 1 /\ cut = 0
    BY DEF Init
  <2> QED
    BY <2>1 DEF RowsOnce, Rows
<1>4. TabRows(Closed, log, cut, struck) /\ \A l \in Lanes : LaneRows(Closed, l, Idle, log, cut, struck)
  BY <1>2 DEF TabRows, LaneRows
<1> QED
  BY <1>1, <1>3, <1>4 DEF RowInv

(* The log grows by rows that repeat no present one, a genesis apart.      *)
Grows(lg, lh, ct) ==
  /\ Len(lg) \in Nat /\ Len(lh) \in Nat /\ ct \in Nat /\ Len(lg) <= Len(lh)
  /\ \A i \in 1..Len(lg) : lh[i] = lg[i]
  /\ \A i \in (Len(lg) + 1)..Len(lh) : lh[i] = Genesis \/ \A j \in Rows(lg, ct) : lg[j] # lh[i]

(* The rows of a room that grows stay.                                     *)
LEMMA GrowRows ==
  ASSUME NEW lg, NEW lh, NEW ct, Grows(lg, lh, ct)
  PROVE  /\ \A i \in Rows(lg, ct) : i \in Rows(lh, ct) /\ lh[i] = lg[i] /\ i <= Len(lg)
         /\ \A i \in Rows(lh, ct) : i \in Rows(lg, ct) \/ i \in (Len(lg) + 1)..Len(lh)
         /\ \A e : Stored(e, lg, ct) => Stored(e, lh, ct)
<1>1. \A i \in Rows(lg, ct) : i \in Rows(lh, ct) /\ lh[i] = lg[i] /\ i <= Len(lg)
  BY DEF Rows, Grows
<1>2. \A i \in Rows(lh, ct) : i \in Rows(lg, ct) \/ i \in (Len(lg) + 1)..Len(lh)
  BY DEF Rows, Grows
<1>3. \A e : Stored(e, lg, ct) => Stored(e, lh, ct)
  BY <1>1 DEF Stored
<1> QED
  BY <1>1, <1>2, <1>3

(* What has rows gets no second ones.                                      *)
LEMMA GrowWithin ==
  ASSUME NEW lg, NEW lh, NEW ct, Grows(lg, lh, ct), NEW b, b \subseteq Edits, NEW n,
         AllStored(b, lg, ct), Within(b, n, lg, ct)
  PROVE  AllStored(b, lh, ct) /\ Within(b, n, lh, ct)
<1>1. AllStored(b, lh, ct)
  BY GrowRows DEF AllStored
<1>2. ASSUME NEW i \in Rows(lh, ct), lh[i] \in b
      PROVE  i <= n
  <2>1. CASE i \in Rows(lg, ct)
    BY <1>2, <2>1, GrowRows DEF Within
  <2>2. CASE i \in (Len(lg) + 1)..Len(lh)
    <3>1. lh[i] # Genesis
      BY <1>2, GenesisIsNoEdit
    <3>2. \E j \in Rows(lg, ct) : lg[j] = lh[i]
      BY <1>2 DEF AllStored, Stored
    <3> QED
      BY <2>2, <3>1, <3>2 DEF Grows
  <2> QED
    BY <2>1, <2>2, GrowRows
<1> QED
  BY <1>1, <1>2 DEF Within

(* What a tab knows of the room holds in the longer room.                  *)
LEMMA GrowTab ==
  ASSUME NEW lg, NEW lh, NEW ct, NEW sk, Grows(lg, lh, ct), NEW tb, TabFits(tb, Len(lg)),
         TabRows(tb, lg, ct, sk)
  PROVE  TabRows(tb, lh, ct, sk)
<1> SUFFICES ASSUME tb.open, tb.gen > ct
             PROVE  /\ \A i \in Rows(lh, ct) : i <= tb.cursor => i \in tb.view
                    /\ \A k \in 1..Len(tb.tails) : /\ AllStored(tb.tails[k].batch \ sk, lh, ct)
                                                   /\ Within(tb.tails[k].batch \ sk, tb.tails[k].end, lh, ct)
  BY DEF TabRows
<1>1. tb.cursor \in Nat /\ tb.cursor <= Len(lg) /\ Len(lg) \in Nat
  BY DEF TabFits, TabType, Grows
<1>2. ASSUME NEW i \in Rows(lh, ct), i <= tb.cursor PROVE i \in tb.view
  <2>1. i \in Rows(lg, ct)
    BY <1>1, <1>2, GrowRows
  <2> QED
    BY <1>2, <2>1 DEF TabRows
<1>3. ASSUME NEW k \in 1..Len(tb.tails)
      PROVE  /\ AllStored(tb.tails[k].batch \ sk, lh, ct)
             /\ Within(tb.tails[k].batch \ sk, tb.tails[k].end, lh, ct)
  <2>1. tb.tails[k].batch \ sk \subseteq Edits
    BY DEF TabFits, TabType
  <2>2. AllStored(tb.tails[k].batch \ sk, lg, ct) /\ Within(tb.tails[k].batch \ sk, tb.tails[k].end, lg, ct)
    BY DEF TabRows
  <2> QED
    BY <2>1, <2>2, GrowWithin
<1> QED
  BY <1>2, <1>3

(* What a request holds of the room holds in the longer room.              *)
LEMMA GrowLane ==
  ASSUME NEW lg, NEW lh, NEW ct, NEW sk, Grows(lg, lh, ct), NEW tb, NEW l, NEW r,
         RequestFits(tb, r, Len(lg)), LaneRows(tb, l, r, lg, ct, sk)
  PROVE  LaneRows(tb, l, r, lh, ct, sk)
<1> SUFFICES ASSUME tb.open
             PROVE  /\ r.pc \in Behind \cup {"read"} => AllStored(r.batch \ sk, lh, ct)
                    /\ r.pc \in Behind => Within(r.batch \ sk, r.end, lh, ct)
                    /\ l = "receive" /\ r.pc \in Behind =>
                         /\ \A i \in Rows(lh, ct) : r.after < i /\ i <= r.end => i \in r.rows
                         /\ tb.gen > ct => r.rows \subseteq Rows(lh, ct)
  BY DEF LaneRows
<1>1. r.batch \ sk \subseteq Edits /\ r.end \in Nat /\ r.end <= Len(lg) /\ Len(lg) \in Nat
  BY DEF RequestFits, RequestType, Grows
<1>2. r.pc \in Behind \cup {"read"} => AllStored(r.batch \ sk, lh, ct)
  BY GrowRows DEF LaneRows, AllStored
<1>3. r.pc \in Behind => Within(r.batch \ sk, r.end, lh, ct)
  <2>1. r.pc \in Behind => AllStored(r.batch \ sk, lg, ct) /\ Within(r.batch \ sk, r.end, lg, ct)
    BY DEF LaneRows
  <2> QED
    BY <1>1, <2>1, GrowWithin
<1>4. ASSUME l = "receive", r.pc \in Behind
      PROVE  /\ \A i \in Rows(lh, ct) : r.after < i /\ i <= r.end => i \in r.rows
             /\ tb.gen > ct => r.rows \subseteq Rows(lh, ct)
  <2>1. \A i \in Rows(lh, ct) : i <= r.end => i \in Rows(lg, ct)
    BY <1>1, GrowRows
  <2>2. Rows(lg, ct) \subseteq Rows(lh, ct)
    BY GrowRows
  <2> QED
    BY <1>4, <2>1, <2>2 DEF LaneRows
<1> QED
  BY <1>2, <1>3, <1>4

(* A reset of the room leaves no tab that knows it.                        *)
LEMMA WipedTab ==
  ASSUME NEW lg, NEW ct \in Nat, NEW sk, NEW sl, Len(lg) \in Nat, NEW tb, TabFits(tb, Len(lg)),
         TabRows(tb, lg, ct, sk)
  PROVE  TabRows(tb, lg, Len(lg), sl)
<1>1. tb.gen \in Int /\ tb.gen <= Len(lg)
  BY LowestType DEF TabFits
<1> QED
  BY <1>1 DEF TabRows

(* A request loses to a reset what it has stored and not answered yet.     *)
LEMMA WipedLane ==
  ASSUME NEW lg, NEW ct \in Nat, NEW sk, NEW sl, Len(lg) \in Nat, NEW tb, NEW l, NEW r, TabFits(tb, Len(lg)),
         LaneRows(tb, l, r, lg, ct, sk),
         tb.open /\ r.pc \in Behind \cup {"read"} => r.batch \subseteq sl
  PROVE  LaneRows(tb, l, r, lg, Len(lg), sl)
<1>1. tb.gen \in Int /\ ~(tb.gen > Len(lg))
  BY LowestType DEF TabFits
<1>2. Rows(lg, Len(lg)) = {}
  BY DEF Rows
<1>3. Within(r.batch \ sl, r.end, lg, Len(lg))
  BY <1>2 DEF Within
<1>4. tb.open /\ r.pc \in Behind \cup {"read"} => AllStored(r.batch \ sl, lg, Len(lg))
  BY DEF AllStored
<1> QED
  BY <1>1, <1>2, <1>3, <1>4 DEF LaneRows

(* Another lane of a tab that goes on, or leaves.                          *)
LEMMA LaneStays ==
  ASSUME NEW lg, NEW ct, NEW sk, NEW tb, NEW db, NEW l, NEW r, LaneRows(tb, l, r, lg, ct, sk),
         db.open => tb.open /\ (l # "receive" \/ (db.cursor = tb.cursor /\ db.gen = tb.gen))
  PROVE  LaneRows(db, l, r, lg, ct, sk)
BY DEF LaneRows

(* A step of one lane of a tab, in the room as it is.                      *)
LEMMA RowLane ==
  ASSUME TypeInv, RowInv, NEW t \in Tabs, NEW l \in Lanes, NEW tb, NEW r,
         UNCHANGED <<log, cut, struck>>, tab' = [tab EXCEPT ![t] = tb], req' = [req EXCEPT ![t][l] = r],
         TabRows(tb, log, cut, struck), LaneRows(tb, l, r, log, cut, struck),
         \A m \in Lanes \ {l} : LaneRows(tb, m, req[t][m], log, cut, struck)
  PROVE  RowInv'
<1>1. RowsOnce(log', cut')
  BY DEF RowInv
<1>2. tab'[t] = tb /\ \A u \in Tabs \ {t} : tab'[u] = tab[u]
  BY DEF TypeInv
<1>3. req'[t][l] = r /\ (\A m \in Lanes \ {l} : req'[t][m] = req[t][m])
      /\ \A u \in Tabs \ {t} : req'[u] = req[u]
  BY DEF TypeInv
<1>4. ASSUME NEW u \in Tabs
      PROVE  TabRows(tab'[u], log', cut', struck') /\ \A m \in Lanes : LaneRows(tab'[u], m, req'[u][m], log', cut', struck')
  <2>1. CASE u = t
    <3>1. \A m \in Lanes : LaneRows(tb, m, req'[t][m], log, cut, struck)
      <4> TAKE m \in Lanes
      <4>1. CASE m = l
        BY <1>3, <4>1
      <4>2. CASE m # l
        BY <1>3, <4>2
      <4> QED
        BY <4>1, <4>2
    <3> QED
      BY <1>2, <2>1, <3>1
  <2>2. CASE u # t
    BY <1>2, <1>3, <2>2 DEF RowInv
  <2> QED
    BY <2>1, <2>2
<1> QED
  BY <1>1, <1>4 DEF RowInv

(* A step of one request that may grow the room.                           *)
LEMMA RowGrow ==
  ASSUME TypeInv, RowInv, NEW t \in Tabs, NEW l \in Lanes, NEW r,
         Grows(log, log', cut), RowsOnce(log', cut),
         UNCHANGED <<cut, tab, struck>>, req' = [req EXCEPT ![t][l] = r],
         LaneRows(tab[t], l, r, log', cut, struck)
  PROVE  RowInv'
<1>1. req'[t][l] = r /\ (\A m \in Lanes \ {l} : req'[t][m] = req[t][m])
      /\ \A u \in Tabs \ {t} : req'[u] = req[u]
  BY DEF TypeInv
<1>2. ASSUME NEW u \in Tabs
      PROVE  TabRows(tab[u], log', cut, struck) /\ \A m \in Lanes : LaneRows(tab[u], m, req'[u][m], log', cut, struck)
  <2>1. TabRows(tab[u], log', cut, struck)
    <3>1. TabRows(tab[u], log, cut, struck) /\ TabFits(tab[u], Len(log))
      BY DEF RowInv, TypeInv
    <3> QED
      BY <3>1, GrowTab
  <2>2. ASSUME NEW m \in Lanes PROVE LaneRows(tab[u], m, req'[u][m], log', cut, struck)
    <3>1. LaneRows(tab[u], m, req[u][m], log, cut, struck) /\ RequestFits(tab[u], req[u][m], Len(log))
      BY DEF RowInv, TypeInv
    <3>2. LaneRows(tab[u], m, req[u][m], log', cut, struck)
      BY <3>1, GrowLane
    <3> QED
      BY <1>1, <3>2
  <2> QED
    BY <2>1, <2>2
<1> QED
  BY <1>2 DEF RowInv

(* A reset deletes every row; the edits it takes from a request at work    *)
(* are struck.                                                             *)
LEMMA RowsWipe ==
  ASSUME TypeInv, RowInv, NEW t \in Tabs, NEW l \in Lanes, WipeRows(t, l)
  PROVE  RowInv'
<1>1. req[t][l].pc = "wipe-rows" /\ cut' = Len(log) /\ UNCHANGED <<log, tab>>
      /\ struck' = struck \cup UnderWork /\ req' = [req EXCEPT ![t][l].pc = "wipe-meta"]
  BY DEF WipeRows
<1> DEFINE r == [req[t][l] EXCEPT !.pc = "wipe-meta"]
<1>2. req'[t][l] = r /\ (\A m \in Lanes \ {l} : req'[t][m] = req[t][m])
      /\ \A u \in Tabs \ {t} : req'[u] = req[u]
  BY <1>1 DEF TypeInv
<1>3. r.pc = "wipe-meta" /\ r.batch = req[t][l].batch /\ r.after = req[t][l].after
  <2>1. req[t][l] \in RequestType
    BY TypesOf
  <2> QED
    BY <2>1 DEF RequestType
<1> HIDE DEF r
<1>4. Len(log) \in Nat /\ cut \in Nat
  BY DEF TypeInv
<1>5. RowsOnce(log, Len(log))
  BY <1>4 DEF RowsOnce, Rows
<1>6. ASSUME NEW u \in Tabs, NEW m \in Lanes, tab[u].open, req[u][m].pc \in Behind \cup {"read"}
      PROVE  req[u][m].batch \subseteq struck'
  <2>1. <<u, m>> \in {x \in Tabs \X Lanes :
          tab[x[1]].open /\ req[x[1]][x[2]].pc \in {"read", "generation", "mint", "answer"}}
    BY <1>6 DEF Behind
  <2> QED
    BY <1>1, <2>1 DEF UnderWork
<1>7. ASSUME NEW u \in Tabs
      PROVE  /\ TabRows(tab[u], log, Len(log), struck')
             /\ \A m \in Lanes : LaneRows(tab[u], m, req'[u][m], log, Len(log), struck')
  <2>1. TabRows(tab[u], log, cut, struck) /\ TabFits(tab[u], Len(log))
    BY DEF RowInv, TypeInv
  <2>2. TabRows(tab[u], log, Len(log), struck')
    BY <1>4, <2>1, WipedTab
  <2>3. ASSUME NEW m \in Lanes PROVE LaneRows(tab[u], m, req'[u][m], log, Len(log), struck')
    <3>1. LaneRows(tab[u], m, req[u][m], log, cut, struck)
      BY DEF RowInv
    <3>2. CASE u = t /\ m = l
      BY <1>1, <1>2, <1>3, <3>1, <3>2 DEF LaneRows, Behind
    <3>3. CASE ~(u = t /\ m = l)
      <4>1. req'[u][m] = req[u][m]
        BY <1>2, <3>3
      <4>2. LaneRows(tab[u], m, req[u][m], log, Len(log), struck')
        BY <1>4, <1>6, <2>1, <3>1, WipedLane
      <4> QED
        BY <4>1, <4>2
    <3> QED
      BY <3>2, <3>3
  <2> QED
    BY <2>2, <2>3
<1> QED
  BY <1>1, <1>5, <1>7 DEF RowInv

(* A step of one request in the room as it is.                             *)
LEMMA RowsServe ==
  ASSUME TypeInv, RowInv, NEW t \in Tabs, NEW l \in Lanes, NEW r,
         UNCHANGED <<log, cut, tab, struck>>, req' = [req EXCEPT ![t][l] = r],
         LaneRows(tab[t], l, r, log, cut, struck)
  PROVE  RowInv'
<1>1. Grows(log, log', cut)
  BY DEF Grows, TypeInv
<1>2. RowsOnce(log', cut')
  BY DEF RowInv
<1> QED
  BY <1>1, <1>2, RowGrow

(* The check of presence touches neither rows nor cursors.                 *)
LEMMA RowsNote ==
  ASSUME TypeInv, RowInv, NEW t \in Tabs, NEW l \in Lanes, Note(t, l)
  PROVE  RowInv'
<1>1. PICK r : /\ req' = [req EXCEPT ![t][l] = r] /\ r.pc \in {"ingest", "wipe-rows"}
               /\ r.batch = req[t][l].batch /\ r.after = req[t][l].after
  BY NoteGives
<1>2. UNCHANGED <<log, cut, tab, struck>> /\ req[t][l].pc = "note"
  BY DEF Note, room
<1>3. LaneRows(tab[t], l, req[t][l], log, cut, struck)
  BY DEF RowInv
<1>4. LaneRows(tab[t], l, r, log, cut, struck)
  BY <1>1, <1>2, <1>3 DEF LaneRows, Behind
<1> QED
  BY <1>1, <1>2, <1>4, RowsServe

(* The end of a reset: the request goes on to its ingest, in a new         *)
(* generation.                                                             *)
LEMMA RowsWipeMeta ==
  ASSUME TypeInv, RowInv, NEW t \in Tabs, NEW l \in Lanes, WipeMeta(t, l)
  PROVE  RowInv'
<1> DEFINE r == IF l = "beacon" THEN Idle ELSE [req[t][l] EXCEPT !.pc = "ingest", !.first = FALSE]
<1>1. req' = [req EXCEPT ![t][l] = r] /\ UNCHANGED <<tab, log, cut, struck>> /\ req[t][l].pc = "wipe-meta"
  BY DEF WipeMeta, history
<1>2. \/ r.pc = "idle"
      \/ r.pc = "ingest" /\ r.batch = req[t][l].batch /\ r.after = req[t][l].after /\ l # "beacon"
  <2>1. req[t][l] \in RequestType
    BY TypesOf
  <2> QED
    BY <2>1 DEF RequestType, Idle
<1> HIDE DEF r
<1>3. LaneRows(tab[t], l, req[t][l], log, cut, struck)
  BY DEF RowInv
<1>4. LaneRows(tab[t], l, r, log, cut, struck)
  BY <1>1, <1>2, <1>3 DEF LaneRows, Behind
<1> QED
  BY <1>1, <1>4, RowsServe

(* After ingest every update of the batch has exactly one row.             *)
LEMMA RowsIngest ==
  ASSUME TypeInv, RowInv, NEW t \in Tabs, NEW l \in Lanes, Ingest(t, l)
  PROVE  RowInv'
<1> DEFINE batch == req[t][l].batch
           r == [req[t][l] EXCEPT !.pc = "read"]
<1>1. req' = [req EXCEPT ![t][l] = r] /\ UNCHANGED <<tab, cut, struck>> /\ req[t][l].pc = "ingest"
  BY DEF Ingest, history
<1>2. r.pc = "read" /\ r.batch = batch /\ r.after = req[t][l].after
  <2>1. req[t][l] \in RequestType
    BY TypesOf
  <2> QED
    BY <2>1 DEF RequestType
<1> HIDE DEF r
<1>3. /\ Len(log') \in Nat /\ Len(log) <= Len(log')
      /\ \A i \in 1..Len(log) : log'[i] = log[i]
      /\ \A i \in (Len(log) + 1)..Len(log') : log'[i] \in Fresh(batch) \cup {Genesis}
      /\ \A i, j \in (Len(log) + 1)..Len(log') : log'[i] = log'[j] /\ log'[i] # Genesis => i = j
      /\ \A e \in Fresh(batch) : \E i \in (Len(log) + 1)..Len(log') : log'[i] = e
  BY IngestGrows
<1>4. Len(log) \in Nat /\ cut \in Nat /\ cut <= Len(log) /\ Rows(log, cut) = Present
  BY DEF TypeInv, Rows, Present
<1>5. \A e \in Fresh(batch) : e \in batch /\ \A i \in Rows(log, cut) : log[i] # e
  BY <1>4 DEF Fresh
<1>6. \A e \in batch : e \in Fresh(batch) \/ Stored(e, log, cut)
  BY <1>4 DEF Fresh, Stored
<1> HIDE DEF batch
<1>7. Grows(log, log', cut)
  BY <1>3, <1>4, <1>5 DEF Grows
<1>8. RowsOnce(log', cut)
  <2> SUFFICES ASSUME NEW i \in Rows(log', cut), NEW j \in Rows(log', cut), log'[i] = log'[j], log'[i] # Genesis
               PROVE  i = j
    BY DEF RowsOnce
  <2>1. i \in Rows(log, cut) \/ i \in (Len(log) + 1)..Len(log')
    BY <1>7, GrowRows
  <2>2. j \in Rows(log, cut) \/ j \in (Len(log) + 1)..Len(log')
    BY <1>7, GrowRows
  <2>3. \A k \in Rows(log, cut) : log'[k] = log[k]
    BY <1>7, GrowRows
  <2>4. CASE i \in Rows(log, cut) /\ j \in Rows(log, cut)
    BY <2>3, <2>4 DEF RowInv, RowsOnce
  <2>5. CASE i \in (Len(log) + 1)..Len(log') /\ j \in (Len(log) + 1)..Len(log')
    BY <1>3, <2>5
  <2>6. CASE i \in Rows(log, cut) /\ j \in (Len(log) + 1)..Len(log')
    BY <1>3, <1>5, <2>3, <2>6
  <2>7. CASE j \in Rows(log, cut) /\ i \in (Len(log) + 1)..Len(log')
    BY <1>3, <1>5, <2>3, <2>7
  <2> QED
    BY <2>1, <2>2, <2>4, <2>5, <2>6, <2>7
<1>9. AllStored(batch, log', cut)
  <2> SUFFICES ASSUME NEW e \in batch PROVE Stored(e, log', cut)
    BY DEF AllStored
  <2>1. CASE Stored(e, log, cut)
    BY <1>7, <2>1, GrowRows
  <2>2. CASE e \in Fresh(batch)
    <3>1. PICK i \in (Len(log) + 1)..Len(log') : log'[i] = e
      BY <1>3, <2>2
    <3>2. i \in Rows(log', cut)
      BY <1>3, <1>4 DEF Rows
    <3> QED
      BY <3>1, <3>2 DEF Stored
  <2> QED
    BY <1>6, <2>1, <2>2
<1>10. LaneRows(tab[t], l, r, log', cut, struck)
  <2>1. LaneRows(tab[t], l, req[t][l], log, cut, struck)
    BY DEF RowInv
  <2>2. AllStored(r.batch \ struck, log', cut)
    BY <1>2, <1>9 DEF AllStored
  <2> QED
    BY <1>1, <1>2, <2>1, <2>2 DEF LaneRows, Behind
<1> QED
  BY <1>1, <1>7, <1>8, <1>10, RowGrow

(* What is read ends behind every row of the batch, and starts behind the  *)
(* cursor.                                                                 *)
LEMMA RowsRead ==
  ASSUME TypeInv, RowInv, NEW t \in Tabs, NEW l \in Lanes, Read(t, l)
  PROVE  RowInv'
<1>1. PICK r \in RequestType :
        /\ req' = [req EXCEPT ![t][l] = r]
        /\ r.pc = "generation" /\ r.end = Len(log') /\ r.batch = req[t][l].batch
        /\ r.after = req[t][l].after
        /\ l = "receive" => r.rows = {i \in (cut + 1)..Len(log') : i > req[t][l].after}
  BY ReadGives
<1>2. UNCHANGED <<tab, cut, struck>> /\ req[t][l].pc = "read" /\ log' = WithGenesis
  BY DEF Read, history
<1>3. /\ Len(log') \in Nat /\ Len(log) <= Len(log')
      /\ \A i \in 1..Len(log) : log'[i] = log[i]
      /\ \A i \in (Len(log) + 1)..Len(log') : log'[i] = Genesis
  BY <1>2, GenesisGrows
<1>4. Len(log) \in Nat /\ cut \in Nat /\ cut <= Len(log)
  BY DEF TypeInv
<1>5. Grows(log, log', cut)
  BY <1>3, <1>4 DEF Grows
<1>6. RowsOnce(log', cut)
  <2> SUFFICES ASSUME NEW i \in Rows(log', cut), NEW j \in Rows(log', cut), log'[i] = log'[j], log'[i] # Genesis
               PROVE  i = j
    BY DEF RowsOnce
  <2>1. i \in Rows(log, cut) /\ j \in Rows(log, cut)
    BY <1>3, <1>5, GrowRows
  <2>2. log'[i] = log[i] /\ log'[j] = log[j]
    BY <1>5, <2>1, GrowRows
  <2> QED
    BY <2>1, <2>2 DEF RowInv, RowsOnce
<1>7. LaneRows(tab[t], l, req[t][l], log, cut, struck)
  BY DEF RowInv
<1>8. LaneRows(tab[t], l, r, log', cut, struck)
  <2>1. tab[t].open => AllStored(r.batch \ struck, log', cut)
    BY <1>1, <1>2, <1>5, <1>7, GrowRows DEF LaneRows, AllStored
  <2>2. Within(r.batch \ struck, r.end, log', cut)
    BY <1>1 DEF Within, Rows
  <2>3. l = "receive" => /\ \A i \in Rows(log', cut) : r.after < i /\ i <= r.end => i \in r.rows
                         /\ r.rows \subseteq Rows(log', cut)
    BY <1>1 DEF Rows
  <2>4. l # "beacon" /\ (tab[t].open /\ l = "receive" => r.after = tab[t].cursor)
    BY <1>1, <1>2, <1>7 DEF LaneRows
  <2>5. r.pc \notin {"mint", "answer", "idle"}
    BY <1>1
  <2> QED
    BY <2>1, <2>2, <2>3, <2>4, <2>5 DEF LaneRows
<1> QED
  BY <1>1, <1>2, <1>5, <1>6, <1>8, RowGrow

(* Looking for the token moves neither rows nor cursors.                   *)
LEMMA RowsGeneration ==
  ASSUME TypeInv, RowInv, NEW t \in Tabs, NEW l \in Lanes, Generation(t, l)
  PROVE  RowInv'
<1> DEFINE g == IF generation # 0 THEN generation ELSE Derived
           r == [req[t][l] EXCEPT !.gen = g, !.pc = IF generation # 0 THEN "answer" ELSE "mint"]
<1>1. req' = [req EXCEPT ![t][l] = r] /\ UNCHANGED <<tab, log, cut, struck>> /\ req[t][l].pc = "generation"
  BY DEF Generation, TypeInv, room, history
<1>2. g # 0
  BY DerivedFits
<1> HIDE DEF g
<1>3. /\ r.pc \in {"mint", "answer"} /\ r.gen = g /\ r.batch = req[t][l].batch
      /\ r.after = req[t][l].after /\ r.end = req[t][l].end /\ r.rows = req[t][l].rows
  <2>1. req[t][l] \in RequestType
    BY TypesOf
  <2> QED
    BY <2>1 DEF RequestType
<1> HIDE DEF r
<1>4. LaneRows(tab[t], l, req[t][l], log, cut, struck)
  BY DEF RowInv
<1>5. LaneRows(tab[t], l, r, log, cut, struck)
  BY <1>1, <1>2, <1>3, <1>4 DEF LaneRows, Behind
<1> QED
  BY <1>1, <1>5, RowsServe

(* Nor does storing it.                                                    *)
LEMMA RowsStore ==
  ASSUME TypeInv, RowInv, NEW t \in Tabs, NEW l \in Lanes, StoreGeneration(t, l)
  PROVE  RowInv'
<1> DEFINE r == [req[t][l] EXCEPT !.pc = "answer"]
<1>1. req' = [req EXCEPT ![t][l] = r] /\ UNCHANGED <<tab, log, cut, struck>> /\ req[t][l].pc = "mint"
  BY DEF StoreGeneration, history
<1>2. /\ r.pc = "answer" /\ r.gen = req[t][l].gen /\ r.batch = req[t][l].batch
      /\ r.after = req[t][l].after /\ r.end = req[t][l].end /\ r.rows = req[t][l].rows
  <2>1. req[t][l] \in RequestType
    BY TypesOf
  <2> QED
    BY <2>1 DEF RequestType
<1> HIDE DEF r
<1>3. LaneRows(tab[t], l, req[t][l], log, cut, struck)
  BY DEF RowInv
<1>4. LaneRows(tab[t], l, r, log, cut, struck)
  BY <1>1, <1>2, <1>3 DEF LaneRows, Behind
<1> QED
  BY <1>1, <1>4, RowsServe

(* An idle lane holds nothing.                                             *)
LEMMA IdleRows ==
  ASSUME NEW tb, NEW l, NEW lg, NEW ct, NEW sk
  PROVE  LaneRows(tb, l, Idle, lg, ct, sk)
<1>1. Idle.pc = "idle"
  BY DEF Idle
<1> QED
  BY <1>1 DEF LaneRows, Behind

(* The queue, and what the tab wrote, are all that changes.                *)
LEMMA SameRows ==
  ASSUME NEW lg, NEW ct, NEW sk, NEW tb, NEW db, TabRows(tb, lg, ct, sk),
         db.open = tb.open, db.cursor = tb.cursor, db.gen = tb.gen, db.view = tb.view,
         db.tails = tb.tails, db.written = tb.written \/ tb.cursor # 0
  PROVE  /\ TabRows(db, lg, ct, sk)
         /\ \A l, r : LaneRows(tb, l, r, lg, ct, sk) => LaneRows(db, l, r, lg, ct, sk)
<1>1. TabRows(db, lg, ct, sk)
  BY DEF TabRows
<1>2. \A l, r : LaneRows(tb, l, r, lg, ct, sk) => LaneRows(db, l, r, lg, ct, sk)
  BY LaneStays
<1> QED
  BY <1>1, <1>2

(* A receive starts at the cursor of its tab.                              *)
LEMMA RowsReceive ==
  ASSUME TypeInv, RowInv, NEW t \in Tabs, Receive(t)
  PROVE  RowInv'
<1>1. PICK takes \in {{}, tab[t].queue}, tb \in TabType, r \in RequestType :
        /\ tab[t].open /\ tab' = [tab EXCEPT ![t] = tb] /\ req' = [req EXCEPT ![t]["receive"] = r]
        /\ tb = [tab[t] EXCEPT !.queue = @ \ takes]
        /\ r.batch = takes /\ r.after = tab[t].cursor /\ r.pc \in {"note", "read"}
        /\ r.pc = "read" => takes = {} /\ tab[t].cursor > 0
  BY ReceiveGives, SMTT(30)
<1>2. "receive" \in Lanes /\ UNCHANGED <<log, cut, struck>>
  BY DEF Lanes, Receive, room, history
<1>3. tab[t] \in TabType
  BY <1>2, TypesOf
<1>4. /\ tb.open = tab[t].open /\ tb.cursor = tab[t].cursor /\ tb.gen = tab[t].gen /\ tb.view = tab[t].view
      /\ tb.tails = tab[t].tails /\ tb.written = tab[t].written
  BY <1>1, <1>3 DEF TabType
<1>5. TabRows(tab[t], log, cut, struck) /\ \A m \in Lanes : LaneRows(tab[t], m, req[t][m], log, cut, struck)
  BY DEF RowInv
<1>6. /\ TabRows(tb, log, cut, struck)
      /\ \A m \in Lanes : LaneRows(tb, m, req[t][m], log, cut, struck)
  BY <1>4, <1>5, SameRows
<1>7. LaneRows(tb, "receive", r, log, cut, struck)
  BY <1>1, <1>4 DEF LaneRows, Behind, AllStored
<1> QED
  BY <1>1, <1>2, <1>6, <1>7, RowLane

(* A send takes updates out of the queue.                                  *)
LEMMA RowsSend ==
  ASSUME TypeInv, RowInv, NEW t \in Tabs, SendNow(t)
  PROVE  RowInv'
<1>1. PICK tb \in TabType, r \in RequestType :
        /\ tab[t].open /\ tab' = [tab EXCEPT ![t] = tb] /\ req' = [req EXCEPT ![t]["send"] = r]
        /\ tb = [tab[t] EXCEPT !.queue = {}] /\ r.pc = "note"
  BY SendGives
<1>2. "send" \in Lanes /\ UNCHANGED <<log, cut, struck>>
  BY DEF Lanes, SendNow, room, history
<1>3. tab[t] \in TabType
  BY <1>2, TypesOf
<1>4. /\ tb.open = tab[t].open /\ tb.cursor = tab[t].cursor /\ tb.gen = tab[t].gen /\ tb.view = tab[t].view
      /\ tb.tails = tab[t].tails /\ tb.written = tab[t].written
  BY <1>1, <1>3 DEF TabType
<1>5. TabRows(tab[t], log, cut, struck) /\ \A m \in Lanes : LaneRows(tab[t], m, req[t][m], log, cut, struck)
  BY DEF RowInv
<1>6. /\ TabRows(tb, log, cut, struck)
      /\ \A m \in Lanes : LaneRows(tb, m, req[t][m], log, cut, struck)
  BY <1>4, <1>5, SameRows
<1>7. LaneRows(tb, "send", r, log, cut, struck)
  BY <1>1 DEF LaneRows, Behind
<1> QED
  BY <1>1, <1>2, <1>6, <1>7, RowLane

(* A new update has no row yet.                                            *)
LEMMA RowsEdit ==
  ASSUME TypeInv, RowInv, NEW t \in Tabs, Edit(t)
  PROVE  RowInv'
<1> DEFINE e == <<t, spent.edits[t] + 1>>
           tb == [tab[t] EXCEPT !.written = @ \cup {e}, !.queue = @ \cup {e}]
           r == req[t]["send"]
<1>1. "send" \in Lanes /\ UNCHANGED <<log, cut, struck, req>> /\ tab[t].cursor > 0
  BY DEF Lanes, Edit, room, history
<1>2. tab[t] \in TabType /\ tab[t].cursor # 0
  BY <1>1, TypesOf DEF TabType
<1>3. tab' = [tab EXCEPT ![t] = tb]
  <2>1. tab' = [tab EXCEPT ![t].written = @ \cup {e}, ![t].queue = @ \cup {e}]
    BY DEF Edit
  <2> HIDE DEF e
  <2> QED
    BY <2>1 DEF TypeInv
<1>4. req' = [req EXCEPT ![t]["send"] = r]
  BY <1>1 DEF TypeInv
<1> HIDE DEF e
<1>5. /\ tb.open = tab[t].open /\ tb.cursor = tab[t].cursor /\ tb.gen = tab[t].gen /\ tb.view = tab[t].view
      /\ tb.tails = tab[t].tails
  BY <1>2 DEF TabType
<1> HIDE DEF tb
<1>6. TabRows(tab[t], log, cut, struck) /\ \A m \in Lanes : LaneRows(tab[t], m, req[t][m], log, cut, struck)
  BY DEF RowInv
<1>7. /\ TabRows(tb, log, cut, struck)
      /\ \A m \in Lanes : LaneRows(tb, m, req[t][m], log, cut, struck)
  BY <1>2, <1>5, <1>6, SameRows
<1>8. LaneRows(tb, "send", r, log, cut, struck)
  BY <1>1, <1>7
<1> HIDE DEF r
<1> QED
  BY <1>1, <1>3, <1>4, <1>7, <1>8, RowLane

(* A closed tab claims nothing.                                            *)
LEMMA ClosedRows ==
  ASSUME NEW lg, NEW ct, NEW sk, NEW db, ~db.open
  PROVE  /\ TabRows(db, lg, ct, sk)
         /\ \A tb, l, r : LaneRows(tb, l, r, lg, ct, sk) => LaneRows(db, l, r, lg, ct, sk)
BY DEF TabRows, LaneRows

(* A tab that closes claims nothing any more.                              *)
LEMMA RowsLeave ==
  ASSUME TypeInv, RowInv, NEW t \in Tabs, Leave(t)
  PROVE  RowInv'
<1> DEFINE r == IF OthersPresent(t) \/ ~RoomExists THEN req[t]["beacon"]
                ELSE [req[t]["beacon"] EXCEPT !.pc = "wipe-rows"]
<1>1. "beacon" \in Lanes /\ UNCHANGED <<log, cut, struck>>
      /\ tab' = [tab EXCEPT ![t] = Closed] /\ req[t]["beacon"] = Idle
  BY DEF Lanes, Leave, room
<1>2. req' = [req EXCEPT ![t]["beacon"] = r]
  <2>1. CASE OthersPresent(t) \/ ~RoomExists
    BY <1>1, <2>1 DEF Leave, TypeInv
  <2>2. CASE ~(OthersPresent(t) \/ ~RoomExists)
    BY <2>2 DEF Leave
  <2> QED
    BY <2>1, <2>2
<1>3. r.pc \in {"idle", "wipe-rows"}
  BY <1>1 DEF Idle
<1> HIDE DEF r
<1>4. ~Closed.open
  BY DEF Closed
<1>5. LaneRows(Closed, "beacon", r, log, cut, struck)
  BY <1>3, <1>4 DEF LaneRows
<1>6. \A m \in Lanes : LaneRows(tab[t], m, req[t][m], log, cut, struck)
  BY DEF RowInv
<1>7. /\ TabRows(Closed, log, cut, struck)
      /\ \A m \in Lanes : LaneRows(Closed, m, req[t][m], log, cut, struck)
  BY <1>4, <1>6, ClosedRows
<1> QED
  BY <1>1, <1>2, <1>4, <1>5, <1>7, RowLane

(* Nor has one that just opened.                                           *)
LEMMA RowsOpen ==
  ASSUME TypeInv, RowInv, NEW t \in Tabs, Open(t)
  PROVE  RowInv'
<1> DEFINE tb == [Closed EXCEPT !.open = TRUE]
<1>1. "send" \in Lanes /\ UNCHANGED <<log, cut, struck, req>> /\ tab' = [tab EXCEPT ![t] = tb]
      /\ req[t] = [l \in Lanes |-> Idle]
  BY DEF Lanes, Open, room, history
<1>2. \A m \in Lanes : req[t][m] = Idle
  BY <1>1
<1>3. req' = [req EXCEPT ![t]["send"] = Idle]
  BY <1>1, <1>2 DEF TypeInv
<1>4. tb.gen = 0 /\ tb.cursor = 0 /\ tb.written = {} /\ cut \in Nat
  BY DEF Closed, TypeInv
<1>5. TabRows(tb, log, cut, struck)
  BY <1>4 DEF TabRows
<1> HIDE DEF tb
<1>6. /\ LaneRows(tb, "send", Idle, log, cut, struck)
      /\ \A m \in Lanes : LaneRows(tb, m, req[t][m], log, cut, struck)
  BY <1>2, IdleRows
<1> QED
  BY <1>1, <1>3, <1>5, <1>6, RowLane

(* An update whose answer is lost is queued again and has at most one row  *)
(* still.                                                                  *)
LEMMA RowsLose ==
  ASSUME TypeInv, RowInv, NEW t \in Tabs, NEW l \in Lanes, LoseAnswer(t, l)
  PROVE  RowInv'
<1> DEFINE tb == [tab[t] EXCEPT !.queue = @ \cup req[t][l].batch]
<1>1. tab' = [tab EXCEPT ![t] = tb] /\ req' = [req EXCEPT ![t][l] = Idle]
      /\ UNCHANGED <<log, cut, struck>>
  BY DEF LoseAnswer, room, history
<1>2. tab[t] \in TabType
  BY TypesOf
<1>3. /\ tb.open = tab[t].open /\ tb.cursor = tab[t].cursor /\ tb.gen = tab[t].gen /\ tb.view = tab[t].view
      /\ tb.tails = tab[t].tails /\ tb.written = tab[t].written
  BY <1>2 DEF TabType
<1> HIDE DEF tb
<1>4. TabRows(tab[t], log, cut, struck) /\ \A m \in Lanes : LaneRows(tab[t], m, req[t][m], log, cut, struck)
  BY DEF RowInv
<1>5. /\ TabRows(tb, log, cut, struck)
      /\ \A m \in Lanes : LaneRows(tb, m, req[t][m], log, cut, struck)
  BY <1>3, <1>4, SameRows
<1>6. LaneRows(tb, l, Idle, log, cut, struck)
  BY IdleRows
<1> QED
  BY <1>1, <1>5, <1>6, RowLane

(* Beats and expiries leave tabs, requests and rows alone.                 *)
LEMMA RowsPresence ==
  ASSUME TypeInv, RowInv, NEW t \in Tabs, BeatRead(t) \/ BeatWrite(t) \/ Expire(t)
  PROVE  RowInv'
<1>1. UNCHANGED <<log, cut, tab, req, struck>>
  BY DEF BeatRead, BeatWrite, Expire, room, history
<1> QED
  BY <1>1 DEF RowInv

(* An answer: a receive extends the view to the new cursor, over rows that *)
(* were ingested within it; a send adds a tail that ends behind its rows.  *)
LEMMA ReceivedRows ==
  ASSUME TypeInv, RowInv, NEW t \in Tabs, tab[t].open, req[t]["receive"].pc = "answer",
         tab[t].gen \in {0, req[t]["receive"].gen}, NEW db, db = Received(tab[t], req[t]["receive"])
  PROVE  /\ TabRows(db, log, cut, struck) /\ db.open /\ db.gen # 0 /\ db.gen = req[t]["receive"].gen
         /\ db.gen > cut =>
              /\ \A e \in db.settled :
                   \/ e \in tab[t].settled \/ e \in req[t]["receive"].batch
                   \/ e \in tab[t].written /\ \E i \in req[t]["receive"].rows : log[i] = e
                   \/ /\ tab[t].gen > cut
                      /\ Reached(e, tab[t].tails, req[t]["receive"].end)
              /\ tab[t].gen > cut => req[t]["receive"].rows \subseteq Rows(log, cut)
              /\ req[t]["receive"].rows \subseteq db.view
              /\ db.cursor = req[t]["receive"].end
<1> DEFINE tb == tab[t]
           r == req[t]["receive"]
<1>1. "receive" \in Lanes
  BY DEF Lanes
<1>2. TabFits(tb, Len(log)) /\ tb \in TabType /\ r \in RequestType /\ r.batch \subseteq tb.written
      /\ Len(log) \in Nat /\ cut \in 0..Len(log)
  BY <1>1, TypesOf DEF RequestFits
<1>3. TabRows(tb, log, cut, struck) /\ LaneRows(tb, "receive", r, log, cut, struck)
  BY <1>1 DEF RowInv
<1>4. tb.open /\ r.pc = "answer" /\ tb.gen \in {0, r.gen}
  OBVIOUS
<1> HIDE DEF tb, r
<1>5. /\ db \in TabType /\ db.open = tb.open /\ db.written = tb.written
      /\ db.view = tb.view \cup r.rows /\ db.cursor = r.end /\ db.gen = r.gen
      /\ SomeOf(db.tails, tb.tails)
      /\ \A e \in db.settled :
           \/ e \in tb.settled \/ e \in r.batch
           \/ e \in tb.written /\ \E i \in r.rows : log[i] = e
           \/ Reached(e, tb.tails, r.end)
  <2>1. db = Received(tb, r)
    BY DEF tb, r
  <2> QED
    BY <1>2, <2>1, ReceivedGives
<1>6. /\ r.gen # 0 /\ r.after = tb.cursor
      /\ \A i \in Rows(log, cut) : r.after < i /\ i <= r.end => i \in r.rows
      /\ tb.gen > cut => r.rows \subseteq Rows(log, cut)
  BY <1>3, <1>4 DEF LaneRows, Behind
<1>7. tb.gen = 0 => tb.cursor = 0 /\ tb.written = {}
  BY <1>3, <1>4 DEF TabRows
<1>8. ASSUME tb.gen = 0 PROVE \A k \in 1..Len(tb.tails) : tb.tails[k].batch = {}
  BY <1>2, <1>7, <1>8 DEF TabFits
<1>9. \A i \in Rows(log, cut) : i \in Nat /\ i > 0
  BY <1>2 DEF Rows
<1>10. TabRows(db, log, cut, struck)
  <2> SUFFICES ASSUME r.gen > cut
               PROVE  /\ \A i \in Rows(log, cut) : i <= r.end => i \in db.view
                      /\ \A k \in 1..Len(db.tails) : /\ AllStored(db.tails[k].batch \ struck, log, cut)
                                                     /\ Within(db.tails[k].batch \ struck, db.tails[k].end, log, cut)
    BY <1>5, <1>6 DEF TabRows
  <2>1. ASSUME NEW i \in Rows(log, cut), i <= r.end PROVE i \in db.view
    <3>1. r.after \in Nat
      BY <1>2 DEF RequestType
    <3>2. CASE r.after < i
      BY <1>5, <1>6, <2>1, <3>2
    <3>3. CASE ~(r.after < i)
      <4>1. tb.cursor # 0 /\ i <= tb.cursor
        BY <1>6, <1>9, <3>1, <3>3
      <4>2. tb.gen > cut
        BY <1>4, <1>7, <4>1
      <4> QED
        BY <1>3, <1>4, <1>5, <4>1, <4>2 DEF TabRows
    <3> QED
      BY <3>2, <3>3
  <2>2. ASSUME NEW k \in 1..Len(db.tails)
        PROVE  /\ AllStored(db.tails[k].batch \ struck, log, cut)
               /\ Within(db.tails[k].batch \ struck, db.tails[k].end, log, cut)
    <3>1. PICK j \in 1..Len(tb.tails) : db.tails[k] = tb.tails[j]
      BY <1>5, <2>2 DEF SomeOf
    <3>2. CASE tb.gen = 0
      BY <1>8, <3>1, <3>2 DEF AllStored, Within
    <3>3. CASE tb.gen # 0
      <4>1. tb.gen > cut
        BY <1>4, <3>3
      <4> QED
        BY <1>3, <1>4, <3>1, <4>1 DEF TabRows
    <3> QED
      BY <3>2, <3>3
  <2> QED
    BY <2>1, <2>2
<1>11. ASSUME r.gen > cut, NEW e, Reached(e, tb.tails, r.end) PROVE tb.gen > cut
  BY <1>4, <1>8, <1>11 DEF Reached
<1> QED
  BY <1>4, <1>5, <1>6, <1>10, <1>11 DEF tb, r

(* A tail ends behind the rows it is about.                                *)
LEMMA SentRows ==
  ASSUME TypeInv, RowInv, NEW t \in Tabs, tab[t].open, req[t]["send"].pc = "answer",
         NEW db, db = Sent(tab[t], req[t]["send"])
  PROVE  /\ TabRows(db, log, cut, struck) /\ db.open = tab[t].open /\ db.cursor = tab[t].cursor /\ db.gen = tab[t].gen
<1> DEFINE tb == tab[t]
           r == req[t]["send"]
<1>1. "send" \in Lanes
  BY DEF Lanes
<1>2. tb \in TabType /\ r \in RequestType /\ r.batch \subseteq tb.written
  BY <1>1, TypesOf DEF RequestFits
<1>3. TabRows(tb, log, cut, struck) /\ LaneRows(tb, "send", r, log, cut, struck)
  BY <1>1 DEF RowInv
<1>4. tb.open /\ r.pc = "answer"
  OBVIOUS
<1> HIDE DEF tb, r
<1>5. /\ db.open = tb.open /\ db.written = tb.written
      /\ db.view = tb.view /\ db.cursor = tb.cursor /\ db.gen = tb.gen
      /\ \A k \in 1..Len(db.tails) :
           \/ \E j \in 1..Len(tb.tails) : db.tails[k] = tb.tails[j]
           \/ tb.gen \in {0, r.gen} /\ db.tails[k] = TailOf(r)
  <2>1. db = Sent(tb, r)
    BY DEF tb, r
  <2> QED
    BY <1>2, <2>1, SentGives
<1>6. AllStored(r.batch \ struck, log, cut) /\ Within(r.batch \ struck, r.end, log, cut)
  BY <1>3, <1>4 DEF LaneRows, Behind
<1>7. TailOf(r).batch = r.batch /\ TailOf(r).end = r.end
  BY DEF TailOf
<1>8. ASSUME tb.gen > cut, NEW k \in 1..Len(db.tails)
      PROVE  /\ AllStored(db.tails[k].batch \ struck, log, cut)
             /\ Within(db.tails[k].batch \ struck, db.tails[k].end, log, cut)
  <2>1. CASE \E j \in 1..Len(tb.tails) : db.tails[k] = tb.tails[j]
    BY <1>3, <1>4, <1>8, <2>1 DEF TabRows
  <2>2. CASE db.tails[k] = TailOf(r)
    BY <1>6, <1>7, <2>2
  <2> QED
    BY <1>5, <2>1, <2>2
<1>9. TabRows(db, log, cut, struck)
  BY <1>3, <1>4, <1>5, <1>8 DEF TabRows
<1> QED
  BY <1>5, <1>9 DEF tb

(* An answer of another room restarts the tab, and one of its own extends  *)
(* the view.                                                               *)
LEMMA RowsAnswer ==
  ASSUME TypeInv, RowInv, NEW t \in Tabs, NEW l \in Lanes, Answer(t, l)
  PROVE  RowInv'
<1> DEFINE tb == tab[t]
           r == req[t][l]
<1>1. PICK db :
    /\ tab' = [tab EXCEPT ![t] = db] /\ req' = [req EXCEPT ![t][l] = Idle]
    /\ attending' = IF db.open THEN attending ELSE attending \ {t}
    /\ \/ ~tb.open /\ db = tb
       \/ tb.open /\ l = "send" /\ db = Sent(tb, r)
       \/ tb.open /\ l # "send" /\ tb.gen \in {0, r.gen} /\ db = Received(tb, r)
       \/ tb.open /\ l # "send" /\ tb.gen \notin {0, r.gen} /\ db \in Restarts(tb, r.gen)
  BY AnswerGives
<1>2. UNCHANGED <<log, cut, struck>> /\ r.pc = "answer"
  BY DEF Answer, room
<1>3. tb \in TabType /\ r \in RequestType /\ cut \in Nat
  BY TypesOf DEF TypeInv
<1>4. TabRows(tb, log, cut, struck) /\ \A m \in Lanes : LaneRows(tb, m, req[t][m], log, cut, struck)
  BY DEF RowInv
<1>5. l # "beacon" /\ r.gen # 0
  BY <1>2, <1>4 DEF LaneRows
<1>6. l # "send" => l = "receive"
  BY <1>5 DEF Lanes
<1> DEFINE Goal == /\ TabRows(db, log, cut, struck)
                   /\ \A m \in Lanes \ {l} : LaneRows(db, m, req[t][m], log, cut, struck)
<1>7. ASSUME ~tb.open /\ db = tb PROVE Goal
  BY <1>4, <1>7
<1>8. ASSUME ~db.open PROVE Goal
  BY <1>4, <1>8, ClosedRows
<1>9. ASSUME tb.open /\ l = "send" /\ db = Sent(tb, r) PROVE Goal
  <2>1. TabRows(db, log, cut, struck) /\ db.open = tb.open /\ db.cursor = tb.cursor /\ db.gen = tb.gen
    BY <1>2, <1>9, SentRows
  <2>2. \A m \in Lanes : LaneRows(db, m, req[t][m], log, cut, struck)
    BY <1>4, <2>1, LaneStays
  <2> QED
    BY <2>1, <2>2
<1>10. ASSUME tb.open, l = "receive", db.gen # 0, TabRows(db, log, cut, struck) PROVE Goal
  <2>1. \A m \in Lanes \ {l} : LaneRows(db, m, req[t][m], log, cut, struck)
    BY <1>4, <1>10, LaneStays
  <2> QED
    BY <1>10, <2>1
<1>11. ASSUME tb.open /\ l # "send" /\ tb.gen \in {0, r.gen} /\ db = Received(tb, r) PROVE Goal
  <2>1. TabRows(db, log, cut, struck) /\ db.gen # 0
    BY <1>2, <1>6, <1>11, ReceivedRows
  <2> QED
    BY <1>6, <1>10, <1>11, <2>1
<1>12. ASSUME tb.open /\ l # "send" /\ db \in Restarts(tb, r.gen) /\ db.open PROVE Goal
  <2>1. r.gen \in Int
    BY <1>3 DEF RequestType
  <2>2. ~Closed.open
    BY DEF Closed
  <2>3. db.cursor = 0 /\ db.gen = r.gen /\ db.tails = <<>>
    <3> HIDE DEF tb, r
    <3> QED
      BY <1>3, <1>12, <2>1, <2>2, RestartGives
  <2>4. \A i \in Rows(log, cut) : ~(i <= 0)
    BY <1>3 DEF Rows
  <2>5. TabRows(db, log, cut, struck)
    BY <1>5, <2>3, <2>4 DEF TabRows
  <2> QED
    BY <1>5, <1>6, <1>10, <1>12, <2>3, <2>5
<1>13. Goal
  BY <1>1, <1>7, <1>8, <1>9, <1>11, <1>12
<1>14. LaneRows(db, l, Idle, log, cut, struck)
  BY IdleRows
<1> QED
  BY <1>1, <1>2, <1>13, <1>14, RowLane

(* No step puts a verdict before its rows.                                 *)
LEMMA NextRows == TypeInv /\ RowInv /\ [Next]_vars => RowInv'
<1> SUFFICES ASSUME TypeInv, RowInv, [Next]_vars PROVE RowInv'
  OBVIOUS
<1>1. CASE UNCHANGED vars
  BY <1>1 DEF vars, room, history, RowInv
<1>2. ASSUME NEW t \in Tabs, Open(t) \/ BeatRead(t) \/ BeatWrite(t) \/ Expire(t) \/ Leave(t)
                            \/ Edit(t) \/ Receive(t) \/ SendNow(t)
      PROVE  RowInv'
  BY <1>2, RowsOpen, RowsPresence, RowsLeave, RowsEdit, RowsReceive, RowsSend
<1>3. ASSUME NEW t \in Tabs, NEW l \in Lanes, Serve(t, l) \/ LoseAnswer(t, l)
      PROVE  RowInv'
  BY <1>3, RowsNote, RowsWipe, RowsWipeMeta, RowsIngest, RowsRead, RowsGeneration, RowsStore,
     RowsAnswer, RowsLose DEF Serve
<1> QED
  BY <1>1, <1>2, <1>3 DEF Next

(* What settles in a tab that knows the room has been delivered to it.     *)
Delivers(tb, db) == \A i \in Rows(log, cut) :
  log[i] \in (db.settled \ tb.settled) \ struck /\ db.gen > cut => i \in db.view

(* A receive delivers the rows of what it settles.                         *)
LEMMA ReceiveDelivers ==
  ASSUME TypeInv, RowInv, NEW t \in Tabs, tab[t].open, req[t]["receive"].pc = "answer",
         tab[t].gen \in {0, req[t]["receive"].gen}, NEW db, db = Received(tab[t], req[t]["receive"])
  PROVE  Delivers(tab[t], db)
<1> DEFINE tb == tab[t]
           r == req[t]["receive"]
<1>1. "receive" \in Lanes
  BY DEF Lanes
<1>2. /\ TabRows(db, log, cut, struck) /\ db.open /\ db.gen = r.gen
      /\ db.gen > cut =>
           /\ \A e \in db.settled :
                \/ e \in tb.settled \/ e \in r.batch
                \/ e \in tb.written /\ \E i \in r.rows : log[i] = e
                \/ tb.gen > cut /\ Reached(e, tb.tails, r.end)
           /\ tb.gen > cut => r.rows \subseteq Rows(log, cut)
           /\ r.rows \subseteq db.view /\ db.cursor = r.end
  BY ReceivedRows
<1>3. TabRows(tb, log, cut, struck) /\ LaneRows(tb, "receive", r, log, cut, struck) /\ RowsOnce(log, cut)
  BY <1>1 DEF RowInv
<1>4. tb.open /\ r.pc = "answer" /\ tb.gen \in {0, r.gen}
  OBVIOUS
<1>5. tb \in TabType /\ r.end \in Nat /\ cut \in Nat
  BY <1>1, TypesOf DEF RequestType
<1> HIDE DEF tb, r
<1> SUFFICES ASSUME NEW i \in Rows(log, cut), log[i] \in db.settled, log[i] \notin tb.settled, log[i] \notin struck,
                    db.gen > cut
             PROVE  i \in db.view
  BY DEF Delivers, tb
<1>6. i \in Nat
  BY <1>5 DEF Rows
<1>7. i <= db.cursor => i \in db.view
  BY <1>2 DEF TabRows
<1>8. CASE log[i] \in r.batch
  <2>1. i <= r.end
    BY <1>3, <1>4, <1>8 DEF LaneRows, Behind, Within
  <2> QED
    BY <1>2, <1>7, <2>1
<1>9. CASE log[i] \in tb.written /\ \E j \in r.rows : log[j] = log[i]
  <2>1. PICK j \in r.rows : log[j] = log[i]
    BY <1>9
  <2>2. log[i] # Genesis
    BY <1>5, <1>9, GenesisIsNoEdit DEF TabType
  <2>3. tb.gen > cut
    BY <1>2, <1>3, <1>4, <1>9 DEF TabRows
  <2>4. i = j
    BY <1>2, <1>3, <2>1, <2>2, <2>3 DEF RowsOnce
  <2> QED
    BY <1>2, <2>1, <2>4
<1>10. CASE tb.gen > cut /\ Reached(log[i], tb.tails, r.end)
  <2>1. PICK k \in 1..Len(tb.tails) : log[i] \in tb.tails[k].batch /\ tb.tails[k].end <= r.end
    BY <1>10 DEF Reached
  <2>2. i <= tb.tails[k].end
    BY <1>3, <1>4, <1>10, <2>1 DEF TabRows, Within
  <2>3. tb.tails[k].end \in Nat
    <3>1. tb.tails \in Seq(TailType)
      BY <1>5 DEF TabType
    <3>2. tb.tails[k] \in TailType
      BY <2>1, <3>1
    <3> QED
      BY <3>2 DEF TailType
  <2>4. i <= r.end
    BY <1>5, <1>6, <2>1, <2>2, <2>3
  <2> QED
    BY <1>2, <1>7, <2>4
<1> QED
  BY <1>2, <1>8, <1>9, <1>10

(* A verdict of the send lane settles once the cursor has passed its rows. *)
LEMMA SendDelivers ==
  ASSUME TypeInv, RowInv, NEW t \in Tabs, tab[t].open, req[t]["send"].pc = "answer",
         NEW db, db = Sent(tab[t], req[t]["send"])
  PROVE  Delivers(tab[t], db)
<1> DEFINE tb == tab[t]
           r == req[t]["send"]
<1>1. "send" \in Lanes
  BY DEF Lanes
<1>2. tb \in TabType /\ r \in RequestType /\ r.batch \subseteq tb.written /\ cut \in Nat
  BY <1>1, TypesOf DEF RequestFits
<1>3. TabRows(tb, log, cut, struck) /\ LaneRows(tb, "send", r, log, cut, struck)
  BY <1>1 DEF RowInv
<1>4. tb.open /\ r.pc = "answer"
  OBVIOUS
<1> HIDE DEF tb, r
<1>5. /\ db.view = tb.view /\ db.gen = tb.gen
      /\ \A e \in db.settled :
           \/ e \in tb.settled \/ Reached(e, tb.tails, tb.cursor)
           \/ tb.gen \in {0, r.gen} /\ e \in r.batch /\ r.end <= tb.cursor
  <2>1. db = Sent(tb, r)
    BY DEF tb, r
  <2> QED
    BY <1>2, <2>1, SentGives
<1> SUFFICES ASSUME NEW i \in Rows(log, cut), log[i] \in db.settled, log[i] \notin tb.settled, log[i] \notin struck,
                    db.gen > cut
             PROVE  i \in db.view
  BY DEF Delivers, tb
<1>6. i \in Nat /\ tb.cursor \in Nat /\ r.end \in Nat
  BY <1>2 DEF Rows, TabType, RequestType
<1>7. i <= tb.cursor => i \in db.view
  BY <1>3, <1>4, <1>5 DEF TabRows
<1>8. CASE Reached(log[i], tb.tails, tb.cursor)
  <2>1. PICK k \in 1..Len(tb.tails) : log[i] \in tb.tails[k].batch /\ tb.tails[k].end <= tb.cursor
    BY <1>8 DEF Reached
  <2>2. i <= tb.tails[k].end
    BY <1>3, <1>4, <1>5, <2>1 DEF TabRows, Within
  <2>3. tb.tails[k].end \in Nat
    <3>1. tb.tails \in Seq(TailType)
      BY <1>2 DEF TabType
    <3>2. tb.tails[k] \in TailType
      BY <2>1, <3>1
    <3> QED
      BY <3>2 DEF TailType
  <2>4. i <= tb.cursor
    BY <1>6, <2>1, <2>2, <2>3
  <2> QED
    BY <1>7, <2>4
<1>9. CASE log[i] \in r.batch /\ r.end <= tb.cursor
  <2>1. i <= r.end
    BY <1>3, <1>4, <1>9 DEF LaneRows, Behind, Within
  <2> QED
    BY <1>6, <1>7, <1>9, <2>1
<1> QED
  BY <1>5, <1>8, <1>9

(* A step that settles nothing delivers enough.                            *)
LEMMA NothingSettles ==
  ASSUME NEW tb, NEW db, db.settled \subseteq tb.settled
  PROVE  Delivers(tb, db)
BY DEF Delivers

(* Either lane, or a restart.                                              *)
LEMMA AnswerDelivers ==
  ASSUME TypeInv, RowInv, NEW t \in Tabs, NEW l \in Lanes, Answer(t, l)
  PROVE  \A u \in Tabs : Delivers(tab[u], tab'[u])
<1> DEFINE tb == tab[t]
           r == req[t][l]
<1>1. PICK db :
    /\ tab' = [tab EXCEPT ![t] = db]
    /\ \/ ~tb.open /\ db = tb
       \/ tb.open /\ l = "send" /\ db = Sent(tb, r)
       \/ tb.open /\ l # "send" /\ tb.gen \in {0, r.gen} /\ db = Received(tb, r)
       \/ tb.open /\ l # "send" /\ tb.gen \notin {0, r.gen} /\ db \in Restarts(tb, r.gen)
  BY AnswerGives
<1>2. r.pc = "answer"
  BY DEF Answer
<1>3. tb \in TabType /\ r \in RequestType
  BY TypesOf
<1>4. l # "send" => l = "receive"
  <2>1. LaneRows(tb, l, r, log, cut, struck)
    BY DEF RowInv
  <2> QED
    BY <1>2, <2>1 DEF LaneRows, Lanes
<1>5. ASSUME db.settled \subseteq tb.settled PROVE Delivers(tb, db)
  BY <1>5, NothingSettles
<1>6. Delivers(tb, db)
  <2>1. CASE ~tb.open /\ db = tb
    BY <1>5, <2>1
  <2>2. CASE tb.open /\ l = "send" /\ db = Sent(tb, r)
    BY <1>2, <2>2, SendDelivers
  <2>3. CASE tb.open /\ l # "send" /\ tb.gen \in {0, r.gen} /\ db = Received(tb, r)
    BY <1>2, <1>4, <2>3, ReceiveDelivers
  <2>4. CASE tb.open /\ l # "send" /\ tb.gen \notin {0, r.gen} /\ db \in Restarts(tb, r.gen)
    <3>1. r.gen \in Int
      BY <1>3 DEF RequestType
    <3>2. Closed.settled = {}
      BY DEF Closed
    <3>3. db = Closed \/ db.settled = tb.settled
      <4> HIDE DEF tb, r
      <4> QED
        BY <1>3, <2>4, <3>1, RestartGives
    <3> QED
      BY <1>5, <3>2, <3>3
  <2> QED
    BY <1>1, <2>1, <2>2, <2>3, <2>4
<1>7. tab'[t] = db /\ \A u \in Tabs \ {t} : tab'[u] = tab[u]
  BY <1>1 DEF TypeInv
<1> QED
  BY <1>6, <1>7, NothingSettles

(* Nothing else settles an edit.                                           *)
LEMMA OthersSettleNothing ==
  ASSUME TypeInv, NEW t \in Tabs, NEW l \in Lanes,
         \/ Open(t) \/ BeatRead(t) \/ BeatWrite(t) \/ Expire(t) \/ Leave(t)
         \/ Edit(t) \/ Receive(t) \/ SendNow(t) \/ LoseAnswer(t, l)
         \/ Note(t, l) \/ WipeRows(t, l) \/ WipeMeta(t, l) \/ Ingest(t, l) \/ Read(t, l)
         \/ Generation(t, l) \/ StoreGeneration(t, l)
  PROVE  \A u \in Tabs : tab'[u].settled \subseteq tab[u].settled
<1>1. CASE BeatRead(t) \/ BeatWrite(t) \/ Expire(t) \/ Note(t, l) \/ WipeRows(t, l) \/ WipeMeta(t, l)
           \/ Ingest(t, l) \/ Read(t, l) \/ Generation(t, l) \/ StoreGeneration(t, l)
  BY <1>1 DEF BeatRead, BeatWrite, Expire, Note, WipeRows, WipeMeta, Ingest, Read, Generation, StoreGeneration
<1>2. CASE Open(t) \/ Leave(t)
  <2>1. PICK tb \in {[Closed EXCEPT !.open = TRUE], Closed} : tab' = [tab EXCEPT ![t] = tb]
    BY <1>2 DEF Open, Leave
  <2>2. tb.settled = {}
    BY DEF Closed
  <2>3. tab'[t] = tb /\ \A u \in Tabs \ {t} : tab'[u] = tab[u]
    BY <2>1 DEF TypeInv
  <2> QED
    BY <2>2, <2>3
<1>3. CASE Edit(t) \/ Receive(t) \/ SendNow(t) \/ LoseAnswer(t, l)
  <2>1. tab[t] \in TabType
    BY TypesOf
  <2>2. CASE Edit(t)
    <3> DEFINE e == <<t, spent.edits[t] + 1>>
    <3>1. tab' = [tab EXCEPT ![t].written = @ \cup {e}, ![t].queue = @ \cup {e}]
      BY <2>2 DEF Edit
    <3> HIDE DEF e
    <3>2. tab' = [tab EXCEPT ![t] = [tab[t] EXCEPT !.written = @ \cup {e}, !.queue = @ \cup {e}]]
      BY <3>1 DEF TypeInv
    <3> QED
      BY <2>1, <3>2 DEF TypeInv, TabType
  <2>3. CASE Receive(t) \/ SendNow(t) \/ LoseAnswer(t, l)
    <3>1. \E q : tab' = [tab EXCEPT ![t].queue = q]
      BY <2>3 DEF Receive, SendNow, LoseAnswer
    <3> QED
      BY <2>1, <3>1 DEF TypeInv, TabType
  <2> QED
    BY <1>3, <2>2, <2>3
<1> QED
  BY <1>1, <1>2, <1>3

(* An edit settles, in a tab that knows the room as it is now, only with   *)
(* its row in the view.                                                    *)
LEMMA StepDelivers ==
  ASSUME TypeInv, RowInv, [Next]_vars
  PROVE  \A t \in Tabs, i \in Present :
           log[i] \in (tab'[t].settled \ tab[t].settled) \ struck /\ tab'[t].gen > cut => i \in tab'[t].view
<1> SUFFICES \A u \in Tabs : Delivers(tab[u], tab'[u])
  BY DEF Delivers, Rows, Present
<1>1. CASE UNCHANGED vars
  BY <1>1, NothingSettles DEF vars
<1>2. ASSUME NEW t \in Tabs, Open(t) \/ BeatRead(t) \/ BeatWrite(t) \/ Expire(t) \/ Leave(t)
                            \/ Edit(t) \/ Receive(t) \/ SendNow(t)
      PROVE  \A u \in Tabs : Delivers(tab[u], tab'[u])
  <2>1. "send" \in Lanes
    BY DEF Lanes
  <2>2. \A u \in Tabs : tab'[u].settled \subseteq tab[u].settled
    BY <1>2, <2>1, OthersSettleNothing
  <2> QED
    BY <2>2, NothingSettles
<1>3. ASSUME NEW t \in Tabs, NEW l \in Lanes, Serve(t, l) \/ LoseAnswer(t, l)
      PROVE  \A u \in Tabs : Delivers(tab[u], tab'[u])
  <2>1. CASE Answer(t, l)
    BY <2>1, AnswerDelivers
  <2>2. CASE ~Answer(t, l)
    <3>1. \A u \in Tabs : tab'[u].settled \subseteq tab[u].settled
      BY <1>3, <2>2, OthersSettleNothing DEF Serve
    <3> QED
      BY <3>1, NothingSettles
  <2> QED
    BY <2>1, <2>2
<1> QED
  BY <1>1, <1>2, <1>3 DEF Next

(* Rows first, verdicts after, for any tabs, lanes, edits and bounds: a    *)
(* verdict that comes on the send lane before its row waits, whatever was  *)
(* reset, restarted, lost or slept through in between, and however the     *)
(* presence accesses of requests interleave.  Only an edit whose row a     *)
(* reset deleted under the request that stored it may settle before the    *)
(* row of a later resend is there.                                         *)
THEOREM RowsComeFirst == Spec => RowsBeforeVerdicts
<1>1. TypeInv /\ RowInv /\ [Next]_vars =>
        \A t \in Tabs, i \in Present :
          log[i] \in (tab'[t].settled \ tab[t].settled) \ struck /\ tab'[t].gen > cut => i \in tab'[t].view
  BY StepDelivers
<1>2. TypeInv /\ [Next]_vars => TypeInv'
  BY NextTypes
<1>3. TypeInv /\ RowInv /\ [Next]_vars => RowInv'
  BY NextRows
<1> QED
  BY InitTypes, InitRows, <1>1, <1>2, <1>3, PTL DEF Spec, RowsBeforeVerdicts
=============================================================================
