------------------------------- MODULE MCUiTree -------------------------------
(* Every dump of up to four nodes over two texts, and a selector of each kind. *)
EXTENDS UiTree
MCSelectors == {
    [text |-> "b", clickable |-> FALSE], [clickable |-> TRUE], [text |-> "a", nth_match |-> 1],
    [text |-> "b", sibling_text |-> "a"], [ancestor_text |-> "a"] }
=============================================================================
