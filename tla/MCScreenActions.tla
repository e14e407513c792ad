--------------------------- MODULE MCScreenActions ---------------------------
(* A TLC instance of ScreenActions over AdbLink: three screens, of which two    *)
(* have the same texts in other places and one shows the target, and a phone   *)
(* that moves between two hosts.                                              *)
EXTENDS ScreenActions
Node(text, point, clickable, native) ==
    [text |-> text, point |-> point, clickable |-> clickable, native |-> native]
MCScreens == {
    <<Node("", 1, FALSE, FALSE), Node("a", 1, TRUE, FALSE), Node("b", 2, FALSE, FALSE)>>,
    <<Node("a", 2, TRUE, FALSE), Node("b", 1, FALSE, FALSE)>>,
    <<Node("t", 1, FALSE, FALSE), Node("t", 2, TRUE, TRUE)>> }
Address(h, p) == [host |-> h, port |-> p]
MCFirst == Address("home", 1)
MCPlaces == {Address("home", 1), Address("home", 2)}
MCElsewhere == {Address("other", 1)}
MCProbe == <<2>>
=============================================================================
