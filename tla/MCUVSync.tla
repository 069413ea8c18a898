------------------------------ MODULE MCUVSync ------------------------------
(* Small instances of UVSync.                                               *)
EXTENDS UVSync, TLC

CONSTANTS x, y

At(t, h) == [mtime |-> t, hash |-> h]

(* x differs in the same second, y is at the server only.                   *)
Apart == [s \in Side |-> [n \in Name |->
            CASE n = x /\ s = "client" -> At(1, 1)
              [] n = x /\ s = "server" -> At(1, 2)
              [] n = y /\ s = "server" -> At(1, 1)
              [] OTHER -> NoRow]]
=============================================================================
