---------------------------- MODULE MCBlobStore ----------------------------
(* Small instances of BlobStore: a repository file with a delta chain, and  *)
(* an empty one that meets clusters.                                        *)
EXTENDS BlobStore, TLC

CONSTANTS a, b, c, k, m

NoClusters == [x \in Artifact |-> {}]

(* k is the cluster generated here, m one that another repository made.     *)
TwoClusters ==
    [x \in Artifact |-> CASE x = k -> {a, b} [] x = m -> {c} [] OTHER -> {}]

(* Fossil stores an older version as a delta of a newer one: row 1 is a     *)
(* delta of row 2, which is a delta of row 3.                               *)
ChainUuid == <<a, b, c>>
ChainSrc == <<2, 3, 0>>

NoRows == << >>
=============================================================================
