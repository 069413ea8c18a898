------------------------------ MODULE MCClone ------------------------------
(* Small instances of Clone.                                                *)
EXTENDS Clone

CONSTANTS a, b, c, d, e, f, g

NoClusters == [x \in Artifact |-> {}]
ClusterOfDE == [x \in Artifact |-> IF x = b THEN {d, e} ELSE {}]

(* A hub with a private row, a phantom row and more rows than a batch, which *)
(* is written to.  The cluster b lists d; e is a delta of d, which the hub   *)
(* may not have yet.                                                         *)
BusyHub ==
    [rows |-> <<a, b, c, d, e>>, phantom |-> {d}, private |-> {c}, late |-> {f, g},
     members |-> ClusterOfDE,
     source |-> [x \in Artifact |-> IF x = e THEN d ELSE NoArtifact],
     batch |-> 1]

(* A hub that stores versions as deltas: a is a delta of c and b one of d,   *)
(* and each arrives before its source.                                       *)
NewestInFull ==
    [rows |-> <<a, b, c, d>>, phantom |-> {}, private |-> {}, late |-> {e},
     members |-> NoClusters,
     source |-> [x \in Artifact |-> CASE x = a -> c [] x = b -> d [] OTHER -> NoArtifact],
     batch |-> 2]

(* The busy hub as this handler serves it, every file in full, in batches    *)
(* that let the rounds suffice whatever is written to it.                    *)
AllInFull ==
    [BusyHub EXCEPT !.source = [x \in Artifact |-> NoArtifact], !.batch = 2]

ThreeHubs == {BusyHub, NewestInFull, AllInFull}
=============================================================================
