--------------------------- MODULE MCDeRtcSession ---------------------------
(***************************************************************************)
(* Scenes for TLC: two tabs in a room of two blocks.                       *)
(***************************************************************************)
EXTENDS DeRtcSession, TLC

CONSTANTS t1, t2, b1, b2

Scene(edits1, edits2, block2, failures, losses, window) ==
  [edits |-> t1 :> edits1 @@ t2 :> edits2,
   on |-> t1 :> {b1} @@ t2 :> {block2},
   failures |-> failures, losses |-> losses, window |-> window]

MCScenes ==
  {Scene(1, 1, b2, 0, 0, 20), \* both type, in blocks of their own
   Scene(1, 1, b1, 0, 0, 1),  \* both type in one block, and bases age out
   Scene(2, 1, b1, 0, 0, 20), \* both type in one block, one goes on typing
   Scene(1, 0, b1, 1, 1, 20), \* one types while requests of both kinds fail
   Scene(2, 0, b1, 1, 0, 20)} \* one types on while a commit fails

(* Both type in blocks of their own, one of them twice.                    *)
MCRollback == {Scene(2, 1, b2, 0, 0, 20)}

=============================================================================
