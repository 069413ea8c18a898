---------------------------- MODULE MCTableSync ----------------------------
(* Small instances of TableSync.                                            *)
EXTENDS TableSync

CONSTANTS x, y

At(t, v) == [mtime |-> t, val |-> v, owner |-> Nobody]

(* Only one side knows the table: the client, with y deleted; the server,   *)
(* without x.                                                               *)
Empty == [k \in Key |-> NoRow]
AtClient == [rows |-> [s \in Side |-> IF s = "server" THEN Empty
                                      ELSE [k \in Key |-> IF k = x THEN At(1, 1) ELSE At(1, 0)]],
             registered |-> {"client"}, now |-> 1]
AtServer == [rows |-> [s \in Side |-> IF s = "client" THEN Empty
                                      ELSE [Empty EXCEPT ![y] = At(1, 1)]],
             registered |-> {"server"}, now |-> 1]
OneSide == {AtClient, AtServer}

BothModes == {[push |-> TRUE, pull |-> TRUE]}
=============================================================================
