--------------------------- MODULE MCIntentEditing ---------------------------
(***************************************************************************)
(* Two tabs on two short blocks, for TLC.                                  *)
(***************************************************************************)
EXTENDS IntentEditing

CONSTANTS t1, t2

Block(n, content, caption) ==
  [id |-> <<None, n>>, attr |-> None,
   text |-> ("content" :> content) @@ ("caption" :> caption)]

OneBlock  == <<Block(5, <<<<None, 1>>, <<None, 2>>>>, <<>>)>>
TwoBlocks == <<Block(5, <<<<None, 1>>, <<None, 2>>>>, <<<<None, 3>>>>),
               Block(6, <<<<None, 4>>>>, <<>>)>>

TextKinds  == {"insert_text", "delete_text", "replace_text"}
Flat == TextKinds \cup {"replace_attr_content", "insert_block", "remove_block", "set_attr"}
AllKinds == Flat \cup {"split_block", "merge_blocks"}

MCScenes ==
  {[genesis |-> TwoBlocks, menu |-> (t1 :> <<AllKinds>>) @@ (t2 :> <<AllKinds>>)],
   [genesis |-> OneBlock,  menu |-> (t1 :> <<Flat, TextKinds \cup {"set_attr"}>>) @@ (t2 :> <<Flat>>)]}

=============================================================================
