---------------------------- MODULE MCCheckout -----------------------------
(* Small instances of Checkout.                                             *)
EXTENDS Checkout

CONSTANTS fileA, fileB, none

Has(x, y) == [n \in Name |-> IF n = fileA THEN x ELSE y]
At(v, br, files) == [parent |-> v, branch |-> br, files |-> files]

(* A file on trunk, and a branch that changes it while trunk adds another.  *)
Forked == <<At(0, "trunk", Has("1", Gone)), At(1, "trunk", Has("2", "1")),
            At(1, "side", Has("3", Gone))>>

(* Both branches add the second file; the tip is behind on trunk.           *)
BothAdd == <<At(0, "trunk", Has("1", Gone)), At(1, "side", Has("1", "2")),
             At(1, "trunk", Has("1", "3")), At(3, "trunk", Has("2", "3"))>>

Starts == {<<>>, Forked, BothAdd}
=============================================================================
