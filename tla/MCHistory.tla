----------------------------- MODULE MCHistory -----------------------------
(* Small instances of History.                                              *)
EXTENDS History

CONSTANTS main, note

(* All texts of two lines over two letters, and longer ones whose changes   *)
(* are apart, overlap or are ambiguous.                                     *)
Short == UNION {[1..len -> {"p", "q"}] : len \in 0..2}
Some == Short \cup {<<"p", "q", "r">>, <<"q", "q", "r">>, <<"p", "q", "p">>, <<"p", "r">>, <<"p", "p", "q", "r">>}

With(text) == [n \in Name |-> IF n = main THEN text ELSE <<"p">>]
At(ps, br, text) == [parents |-> ps, branch |-> br, files |-> With(text)]

Roots == {<<At(<<>>, "trunk", text)>> : text \in {<<"p", "q", "r">>, <<"p", "q">>, <<"q">>}}

(* A line of versions that a branch leaves and merges into, for bisection.  *)
Long == <<At(<<>>, "trunk", <<"p">>), At(<<1>>, "trunk", <<"p">>), At(<<2>>, "trunk", <<"p">>),
          At(<<2>>, "side", <<"q">>), At(<<3, 4>>, "trunk", <<"q">>), At(<<5>>, "trunk", <<"q">>),
          At(<<6>>, "trunk", <<"q">>), At(<<7>>, "trunk", <<"q">>)>>

RootsAndLong == Roots \cup {Long}
=============================================================================
