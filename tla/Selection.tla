------------------------------ MODULE Selection ------------------------------
(***************************************************************************)
(* The elements of a sequence at some of its places, and those that pass a *)
(* test, in order, and the fold of a sequence.  Recursive functions, which *)
(* a proof can unfold; SelectSeq is primitive to the provers.              *)
(***************************************************************************)
EXTENDS Integers, Sequences

Kept(s, places) ==
  LET upTo[k \in 0..Len(s)] ==
        IF k = 0 THEN <<>>
        ELSE IF k \in places THEN Append(upTo[k - 1], s[k]) ELSE upTo[k - 1]
  IN  upTo[Len(s)]

(* Applying a function makes TLC compute s once.                           *)
Where(s, Test(_)) ==
  [t \in {s} |-> Kept(t, {k \in DOMAIN t : Test(t[k])})][s]

(* The elements of s taken into x one after the other.                     *)
Folded(Op(_, _), x, s) ==
  LET upTo[k \in 0..Len(s)] == IF k = 0 THEN x ELSE Op(upTo[k - 1], s[k])
  IN  upTo[Len(s)]

=============================================================================
