-------------------------- MODULE BlobStoreProofs --------------------------
(***************************************************************************)
(* Theorems about BlobStore for every set of artifacts, every bound on rids *)
(* and every imported repository file.                                      *)
(***************************************************************************)
EXTENDS BlobStore, TLAPS

(* A rid has content exactly when it has a row.                             *)
RowsHaveBodies == \A r \in Rid : body[r] = "none" <=> uuid[r] = NoArtifact

(* blob.uuid is UNIQUE: an artifact has at most one row.                    *)
UniqueUuids ==
    \A r, q \in Rid : uuid[r] = uuid[q] /\ uuid[r] # NoArtifact => r = q

(* Every row without content is listed in the phantom table, even when the  *)
(* table lists other rids too.                                              *)
NullRowsListed == \A r \in Rid : body[r] = "null" => r \in phantom

(* The inductive invariant.                                                 *)
TableInv ==
    /\ TypeOK
    /\ RowsHaveBodies
    /\ UniqueUuids
    /\ NullRowsListed
    /\ DeltaBaseIntact
    /\ PrivacyFollowsArtifact

(* The private artifacts stay the same when no private row changes.         *)
LEMMA PrivateImage ==
    ASSUME private' = private, \A r \in private : uuid'[r] = uuid[r]
    PROVE  {uuid'[r] : r \in private'} = {uuid[r] : r \in private}
  OBVIOUS

(* Facts about a row that is about to be inserted: it carries no delta row, *)
(* no delta depends on it and it is not private.                            *)
LEMMA FreshRow ==
    ASSUME TableInv, NEW R \in SUBSET Rid, Fresh(R), NEW r \in R
    PROVE  /\ r \in Rid /\ uuid[r] = NoArtifact /\ body[r] = "none"
           /\ srcid[r] = 0 /\ r \notin private
           /\ \A q \in Rid : srcid[q] # r
  BY DEF TableInv, TypeOK, RowsHaveBodies, DeltaBaseIntact,
         PrivacyFollowsArtifact, Fresh, Rows, RealRows, Rid

(* The repository file that is opened satisfies the invariant.              *)
LEMMA InitTableInv == Init => TableInv
  <1> SUFFICES ASSUME Init PROVE TableInv
    OBVIOUS
  <1> USE ConstantsAssumption, ImportAssumption
  <1>1. TypeOK
    <2>1. /\ uuid \in [Rid -> Artifact \cup {NoArtifact}]
          /\ srcid \in [Rid -> {0} \cup Rid]
      BY DEF Init
    <2>2. body \in [Rid -> Body]
      BY DEF Init, Body
    <2>3. base \in [Rid -> Artifact \cup {NoArtifact}]
      BY <2>1 DEF Init
    <2>4. unclustered \subseteq Rid
      BY DEF Init
    <2> QED
      BY <2>1, <2>2, <2>3, <2>4 DEF Init, TypeOK
  <1>2. RowsHaveBodies
    BY DEF Init, RowsHaveBodies
  <1>3. UniqueUuids
    BY DEF Init, UniqueUuids
  <1>4. NullRowsListed
    BY DEF Init, NullRowsListed
  <1>5. DeltaBaseIntact
    <2> SUFFICES ASSUME NEW r \in Rid, srcid[r] # 0
                 PROVE  /\ r \in RealRows
                        /\ srcid[r] \in RealRows
                        /\ uuid[srcid[r]] = base[r]
      BY DEF DeltaBaseIntact
    <2>1. r \in DOMAIN ImportUuid /\ ImportSrc[r] # 0 /\ srcid[r] = ImportSrc[r]
      BY DEF Init
    <2>2. srcid[r] \in DOMAIN ImportUuid /\ srcid[r] \in Rid
      BY <2>1 DEF Rid
    <2>3. body[r] = "delta"
      BY <2>1 DEF Init
    <2>4. body[srcid[r]] \in {"full", "delta"}
      BY <2>2 DEF Init
    <2> QED
      BY <2>2, <2>3, <2>4 DEF Init, RealRows
  <1>6. PrivacyFollowsArtifact
    BY DEF Init, PrivacyFollowsArtifact
  <1> QED
    BY <1>1, <1>2, <1>3, <1>4, <1>5, <1>6 DEF TableInv

(* Adding rows at fresh rids, full ones or phantoms that are listed, for    *)
(* artifacts without a row keeps the invariant.  blob.Store, StorePhantom,  *)
(* the receipt of files and both cluster operations insert this way.        *)
LEMMA InsertRows ==
    ASSUME TableInv, TypeOK',
           NEW R \in SUBSET Rid, Fresh(R),
           NEW ins \in [R -> Artifact],
           \A r, q \in R : ins[r] = ins[q] => r = q,
           \A r \in R : ins[r] \notin Known,
           uuid' = [r \in Rid |-> IF r \in R THEN ins[r] ELSE uuid[r]],
           \A r \in R : body'[r] \in {"full", "null"},
           \A r \in R : body'[r] = "null" => r \in phantom',
           \A r \in Rid \ R : body'[r] = body[r],
           phantom \subseteq phantom',
           UNCHANGED <<srcid, private, base, hidden>>
    PROVE  TableInv'
  <1> USE ConstantsAssumption
  <1>1. \A r \in R : /\ uuid[r] = NoArtifact /\ body[r] = "none"
                     /\ srcid[r] = 0 /\ r \notin private
                     /\ \A q \in Rid : srcid[q] # r
    BY FreshRow
  <1>2. RowsHaveBodies'
    BY <1>1 DEF TableInv, RowsHaveBodies
  <1>3. UniqueUuids'
    <2> SUFFICES ASSUME NEW r \in Rid, NEW q \in Rid,
                        uuid'[r] = uuid'[q], uuid'[r] # NoArtifact
                 PROVE  r = q
      BY DEF UniqueUuids
    <2>1. CASE r \in R /\ q \in R
      BY <2>1
    <2>2. CASE r \notin R /\ q \notin R
      BY <2>2 DEF TableInv, UniqueUuids
    <2>3. \A x \in Rid \ R, y \in R : uuid'[x] # NoArtifact => uuid'[x] # uuid'[y]
      BY DEF Known, Rows
    <2> QED
      BY <2>1, <2>2, <2>3
  <1>4. NullRowsListed'
    BY DEF TableInv, NullRowsListed
  <1>5. DeltaBaseIntact'
    <2> SUFFICES ASSUME NEW r \in Rid, srcid'[r] # 0
                 PROVE  /\ r \in RealRows'
                        /\ srcid'[r] \in RealRows'
                        /\ uuid'[srcid'[r]] = base'[r]
      BY DEF DeltaBaseIntact
    <2>1. r \notin R /\ srcid[r] \notin R
      BY <1>1
    <2> QED
      BY <2>1 DEF TableInv, DeltaBaseIntact, RealRows
  <1>6. PrivacyFollowsArtifact'
    <2>1. \A r \in private : r \in Rid /\ r \notin R /\ uuid'[r] = uuid[r]
                            /\ uuid[r] # NoArtifact
      BY <1>1 DEF TableInv, PrivacyFollowsArtifact, Rows
    <2>2. private' \subseteq Rows'
      BY <2>1 DEF Rows
    <2>3. {uuid'[r] : r \in private'} = {uuid[r] : r \in private}
      <3>1. private' = private
        OBVIOUS
      <3>2. \A r \in private : uuid'[r] = uuid[r]
        BY <2>1
      <3> QED
        BY <3>1, <3>2, PrivateImage, Zenon
    <2> QED
      BY <2>2, <2>3 DEF TableInv, PrivacyFollowsArtifact
  <1> QED
    BY <1>2, <1>3, <1>4, <1>5, <1>6 DEF TableInv

(* Steps that leave blob, delta, phantom and private alone keep the         *)
(* invariant: the shun list, the cluster tags and unclustered play no part  *)
(* in it.                                                                   *)
LEMMA Bystanders ==
    ASSUME TableInv, TypeOK',
           UNCHANGED <<uuid, body, srcid, phantom, private, base, hidden>>
    PROVE  TableInv'
  BY DEF TableInv, RowsHaveBodies, UniqueUuids, NullRowsListed,
         DeltaBaseIntact, PrivacyFollowsArtifact, RealRows, Rows

(* Storing content in full or finding the artifact already there.           *)
LEMMA StoreKeeps ==
    ASSUME TableInv, NEW a \in Artifact, Store(a) PROVE TableInv'
  <1> USE DEF TableInv
  <1>1. acked' \subseteq Artifact /\ UNCHANGED <<srcid, phantom, private, clusterTag,
                                                 shun, base, hidden>>
    BY DEF Store, TypeOK
  <1>2. CASE AlreadyKnown(a)
    <2>1. TypeOK'
      BY <1>1, <1>2 DEF TypeOK, AlreadyKnown
    <2> QED
      BY <1>1, <1>2, <2>1, Bystanders DEF AlreadyKnown
  <1>3. CASE InsertFull(a)
    <2>1. PICK r \in Rid : /\ Fresh({r})
                          /\ uuid' = [uuid EXCEPT ![r] = a]
                          /\ body' = [body EXCEPT ![r] = "full"]
                          /\ unclustered' = unclustered \cup {r}
      BY <1>3 DEF InsertFull
    <2>2. TypeOK'
      BY <1>1, <2>1 DEF TypeOK, Body
    <2> DEFINE ins == [x \in {r} |-> a]
    <2>3. uuid' = [x \in Rid |-> IF x \in {r} THEN ins[x] ELSE uuid[x]]
      BY <2>1 DEF TypeOK
    <2>4. /\ \A x \in {r} : body'[x] \in {"full", "null"}
          /\ \A x \in {r} : body'[x] = "null" => x \in phantom'
          /\ \A x \in Rid \ {r} : body'[x] = body[x]
      BY <2>1 DEF TypeOK
    <2>5. \A x \in {r} : ins[x] \notin Known
      BY <1>3 DEF InsertFull
    <2>6. ins \in [{r} -> Artifact] /\ {r} \in SUBSET Rid
      OBVIOUS
    <2>7. \A x, y \in {r} : ins[x] = ins[y] => x = y
      OBVIOUS
    <2> HIDE DEF ins, TableInv
    <2> QED
      BY <1>1, <2>1, <2>2, <2>3, <2>4, <2>5, <2>6, <2>7, InsertRows
  <1> QED
    BY <1>2, <1>3 DEF Store

(* A new delta row names a source row that has content and keeps it.        *)
LEMMA StoreDeltaKeeps ==
    ASSUME TableInv, NEW a \in Artifact, NEW q \in Rid, StoreDelta(a, q)
    PROVE  TableInv'
  <1> USE DEF TableInv
  <1>1. acked' \subseteq Artifact
        /\ UNCHANGED <<phantom, private, clusterTag, shun, hidden>>
    BY DEF StoreDelta, TypeOK
  <1>2. CASE AlreadyKnown(a) /\ UNCHANGED <<srcid, base>>
    <2>1. TypeOK'
      BY <1>1, <1>2 DEF TypeOK, AlreadyKnown
    <2> QED
      BY <1>1, <1>2, <2>1, Bystanders DEF AlreadyKnown
  <1>3. CASE InsertDelta(a, q)
    <2> USE ConstantsAssumption
    <2>1. PICK r \in Rid, form \in {"delta", "misbased"} :
            /\ Fresh({r})
            /\ uuid' = [uuid EXCEPT ![r] = a]
            /\ body' = [body EXCEPT ![r] = form]
            /\ srcid' = [srcid EXCEPT ![r] = q]
            /\ base' = [base EXCEPT ![r] = uuid[q]]
            /\ unclustered' = unclustered \cup {r}
      BY <1>3 DEF InsertDelta
    <2>2. /\ uuid[r] = NoArtifact /\ body[r] = "none" /\ srcid[r] = 0
          /\ r \notin private /\ \A x \in Rid : srcid[x] # r
      BY <2>1, FreshRow
    <2>3. a \notin Known /\ q \in RealRows /\ q # r
      BY <1>3, <2>2 DEF InsertDelta, RealRows
    <2>4. TypeOK'
      <3>1. uuid' \in [Rid -> Artifact \cup {NoArtifact}]
        BY <2>1 DEF TypeOK
      <3>2. body' \in [Rid -> Body]
        BY <2>1 DEF TypeOK, Body
      <3>3. srcid' \in [Rid -> {0} \cup Rid]
        BY <2>1 DEF TypeOK
      <3>4. base' \in [Rid -> Artifact \cup {NoArtifact}]
        BY <2>1 DEF TypeOK
      <3> QED
        BY <1>1, <2>1, <3>1, <3>2, <3>3, <3>4 DEF TypeOK
    <2>5. RowsHaveBodies'
      BY <2>1, <2>2 DEF TypeOK, RowsHaveBodies
    <2>6. UniqueUuids'
      BY <2>1, <2>3 DEF TypeOK, UniqueUuids, Known, Rows
    <2>7. NullRowsListed'
      BY <1>1, <2>1 DEF TypeOK, NullRowsListed
    <2>8. DeltaBaseIntact'
      <3> SUFFICES ASSUME NEW x \in Rid, srcid'[x] # 0
                   PROVE  /\ x \in RealRows'
                          /\ srcid'[x] \in RealRows'
                          /\ uuid'[srcid'[x]] = base'[x]
        BY DEF DeltaBaseIntact
      <3>1. CASE x = r
        BY <3>1, <2>1, <2>3 DEF TypeOK, RealRows
      <3>2. CASE x # r
        BY <3>2, <2>1, <2>2 DEF TypeOK, DeltaBaseIntact, RealRows
      <3> QED
        BY <3>1, <3>2
    <2>9. PrivacyFollowsArtifact'
      <3>1. \A x \in private : x # r /\ x \in Rid /\ uuid'[x] = uuid[x]
                              /\ uuid[x] # NoArtifact
        BY <2>1, <2>2 DEF TypeOK, PrivacyFollowsArtifact, Rows
      <3>2. {uuid'[x] : x \in private'} = {uuid[x] : x \in private}
        BY <1>1, <3>1
      <3>3. private' \subseteq Rows'
        BY <1>1, <3>1 DEF Rows
      <3> QED
        BY <1>1, <3>2, <3>3 DEF PrivacyFollowsArtifact
    <2> QED
      BY <2>4, <2>5, <2>6, <2>7, <2>8, <2>9
  <1> QED
    BY <1>2, <1>3 DEF StoreDelta

(* A phantom row is inserted and listed together.                           *)
LEMMA StorePhantomKeeps ==
    ASSUME TableInv, NEW a \in Artifact, StorePhantom(a) PROVE TableInv'
  <1>1. TypeOK'
    BY DEF TableInv, TypeOK, StorePhantom, Body
  <1>2. PICK r \in Rid : /\ Fresh({r})
                        /\ uuid' = [uuid EXCEPT ![r] = a]
                        /\ body' = [body EXCEPT ![r] = "null"]
                        /\ phantom' = phantom \cup {r}
    BY DEF StorePhantom
  <1> DEFINE ins == [x \in {r} |-> a]
  <1>3. uuid' = [x \in Rid |-> IF x \in {r} THEN ins[x] ELSE uuid[x]]
    BY <1>2 DEF TableInv, TypeOK
  <1>4. body'[r] = "null" /\ \A x \in Rid \ {r} : body'[x] = body[x]
    BY <1>2 DEF TableInv, TypeOK
  <1>5. a \notin Known /\ UNCHANGED <<srcid, private, base, hidden>>
    BY DEF StorePhantom
  <1>6. ins \in [{r} -> Artifact]
    OBVIOUS
  <1> QED
    BY <1>1, <1>2, <1>3, <1>4, <1>5, <1>6, InsertRows

(* Filling a phantom gives the row content; no delta depends on it yet.     *)
LEMMA FillPhantomKeeps ==
    ASSUME TableInv, NEW a \in Artifact, FillPhantom(a) PROVE TableInv'
  <1> USE ConstantsAssumption DEF TableInv
  <1>1. PICK r \in Rid : uuid[r] = a /\ body[r] = "null"
    BY DEF FillPhantom, FillWith, NullRow
  <1>2. NullRow(a) = {r}
    BY <1>1 DEF NullRow, UniqueUuids
  <1>3. /\ body' = [body EXCEPT ![r] = "full"]
        /\ phantom' = phantom \ {r}
        /\ unclustered' = unclustered \cup {r}
    BY <1>2 DEF FillPhantom, FillWith, TypeOK
  <1>4. acked' \subseteq Artifact
        /\ UNCHANGED <<uuid, srcid, private, clusterTag, shun, base, hidden>>
    BY DEF FillPhantom, FillWith, TypeOK
  <1>5. TypeOK'
    BY <1>1, <1>3, <1>4 DEF TypeOK, Body
  <1>6. RowsHaveBodies' /\ UniqueUuids' /\ NullRowsListed'
    BY <1>1, <1>3, <1>4 DEF TypeOK, RowsHaveBodies, UniqueUuids, NullRowsListed
  <1>7. DeltaBaseIntact'
    BY <1>1, <1>3, <1>4 DEF TypeOK, DeltaBaseIntact, RealRows
  <1>8. PrivacyFollowsArtifact'
    BY <1>4 DEF PrivacyFollowsArtifact, Rows
  <1> QED
    BY <1>5, <1>6, <1>7, <1>8

(* A received file and the phantoms of a received cluster are fresh rows.   *)
LEMMA ReceiveNewKeeps ==
    ASSUME TableInv, NEW a \in Artifact, ReceiveNew(a) PROVE TableInv'
  <1> USE ConstantsAssumption
  <1> DEFINE S == {a} \cup (Members[a] \ Known)
  <1>0. PICK R \in SUBSET Rid : Fresh(R) /\ \E ins \in [R -> S] :
          /\ Inserts(ins, S)
          /\ uuid' = WithRows(ins)
          /\ body' = [r \in Rid |-> IF r \notin R THEN body[r]
                                    ELSE IF ins[r] = a THEN "full" ELSE "null"]
          /\ phantom' = phantom \cup {r \in R : ins[r] # a}
          /\ unclustered' = (unclustered \cup {r \in R : ins[r] = a})
                              \ {r \in Rows : uuid[r] \in Members[a]}
          /\ clusterTag' = clusterTag \cup {r \in R : ins[r] = a /\ Members[a] # {}}
    BY DEF ReceiveNew, ReceiveWith
  <1>1. PICK ins \in [R -> S] :
          /\ Inserts(ins, S)
          /\ uuid' = WithRows(ins)
          /\ body' = [r \in Rid |-> IF r \notin R THEN body[r]
                                    ELSE IF ins[r] = a THEN "full" ELSE "null"]
          /\ phantom' = phantom \cup {r \in R : ins[r] # a}
          /\ unclustered' = (unclustered \cup {r \in R : ins[r] = a})
                              \ {r \in Rows : uuid[r] \in Members[a]}
          /\ clusterTag' = clusterTag \cup {r \in R : ins[r] = a /\ Members[a] # {}}
    BY <1>0
  <1>2. a \notin Known /\ acked' = acked \cup {a}
        /\ UNCHANGED <<srcid, private, shun, base, hidden>>
    BY DEF ReceiveNew, ReceiveWith
  <1>3. S \subseteq Artifact /\ \A x \in S : x \notin Known
    BY <1>2
  <1>4. uuid' = [r \in Rid |-> IF r \in R THEN ins[r] ELSE uuid[r]]
        /\ \A r, q \in R : ins[r] = ins[q] => r = q
    BY <1>1 DEF WithRows, Inserts
  <1>5. ins \in [R -> Artifact] /\ \A r \in R : ins[r] \notin Known
    BY <1>1, <1>3
  <1>6. TypeOK'
    <2>1. uuid' \in [Rid -> Artifact \cup {NoArtifact}]
      BY <1>4, <1>5 DEF TableInv, TypeOK
    <2>2. body' \in [Rid -> Body]
      BY <1>1 DEF TableInv, TypeOK, Body
    <2> QED
      BY <1>1, <1>2, <2>1, <2>2 DEF TableInv, TypeOK
  <1>7. /\ \A r \in R : body'[r] \in {"full", "null"}
        /\ \A r \in R : body'[r] = "null" => r \in phantom'
        /\ \A r \in Rid \ R : body'[r] = body[r]
        /\ phantom \subseteq phantom'
    BY <1>1
  <1> HIDE DEF S
  <1> QED
    BY <1>0, <1>1, <1>2, <1>4, <1>5, <1>6, <1>7, InsertRows

(* The Crosslink sweep inserts listed phantoms, whether or not it completes. *)
LEMMA CrosslinkClusterKeeps ==
    ASSUME TableInv, NEW c \in Rid, CrosslinkCluster(c) PROVE TableInv'
  <1> USE ConstantsAssumption
  <1>1. PICK done \in SUBSET Members[uuid[c]], R \in SUBSET Rid :
          /\ Fresh(R)
          /\ \E ins \in [R -> done \ Known] :
                Inserts(ins, done \ Known) /\ uuid' = WithRows(ins)
          /\ body' = [r \in Rid |-> IF r \in R THEN "null" ELSE body[r]]
          /\ phantom' = phantom \cup R
          /\ unclustered' = unclustered \ {r \in Rows : uuid[r] \in done}
    BY DEF CrosslinkCluster
  <1>2. PICK ins \in [R -> done \ Known] :
          Inserts(ins, done \ Known) /\ uuid' = WithRows(ins)
    BY <1>1
  <1>3. clusterTag' = clusterTag \cup {c}
        /\ UNCHANGED <<srcid, private, shun, base, hidden, acked>>
    BY DEF CrosslinkCluster
  <1>4. uuid[c] \in Artifact
    BY DEF CrosslinkCluster, TableInv, TypeOK, RowsHaveBodies, RealRows
  <1>5. uuid' = [r \in Rid |-> IF r \in R THEN ins[r] ELSE uuid[r]]
        /\ \A r, q \in R : ins[r] = ins[q] => r = q
    BY <1>2 DEF WithRows, Inserts
  <1>6. ins \in [R -> Artifact] /\ \A r \in R : ins[r] \notin Known
    BY <1>2, <1>4
  <1>7. TypeOK'
    <2>1. uuid' \in [Rid -> Artifact \cup {NoArtifact}]
      BY <1>5, <1>6 DEF TableInv, TypeOK
    <2>2. body' \in [Rid -> Body]
      BY <1>1 DEF TableInv, TypeOK, Body
    <2> QED
      BY <1>1, <1>3, <2>1, <2>2 DEF TableInv, TypeOK
  <1>8. /\ \A r \in R : body'[r] \in {"full", "null"}
        /\ \A r \in R : body'[r] = "null" => r \in phantom'
        /\ \A r \in Rid \ R : body'[r] = body[r]
        /\ phantom \subseteq phantom'
    BY <1>1
  <1> QED
    BY <1>1, <1>3, <1>5, <1>6, <1>7, <1>8, InsertRows

(* The clusters that are made are fresh rows stored in full.                *)
LEMMA GenerateClustersKeeps ==
    ASSUME TableInv, GenerateClusters PROVE TableInv'
  <1> USE ConstantsAssumption
  <1>1. PICK made \in SUBSET {a \in Artifact : Members[a] # {}} :
          \E R \in SUBSET Rid :
            /\ Fresh(R)
            /\ \E ins \in [R -> made \ Known] :
                  Inserts(ins, made \ Known) /\ uuid' = WithRows(ins)
            /\ body' = [r \in Rid |-> IF r \in R THEN "full" ELSE body[r]]
            /\ clusterTag' = clusterTag \cup {r \in Rid : uuid'[r] \in made}
            /\ unclustered' \subseteq unclustered \cup R
    BY DEF GenerateClusters
  <1>2. PICK R \in SUBSET Rid :
            /\ Fresh(R)
            /\ \E ins \in [R -> made \ Known] :
                  Inserts(ins, made \ Known) /\ uuid' = WithRows(ins)
            /\ body' = [r \in Rid |-> IF r \in R THEN "full" ELSE body[r]]
            /\ clusterTag' = clusterTag \cup {r \in Rid : uuid'[r] \in made}
            /\ unclustered' \subseteq unclustered \cup R
    BY <1>1
  <1>3. PICK ins \in [R -> made \ Known] :
          Inserts(ins, made \ Known) /\ uuid' = WithRows(ins)
    BY <1>2
  <1>4. UNCHANGED <<srcid, phantom, private, shun, base, hidden, acked>>
    BY DEF GenerateClusters
  <1>5. uuid' = [r \in Rid |-> IF r \in R THEN ins[r] ELSE uuid[r]]
        /\ \A r, q \in R : ins[r] = ins[q] => r = q
    BY <1>3 DEF WithRows, Inserts
  <1>6. ins \in [R -> Artifact] /\ \A r \in R : ins[r] \notin Known
    BY <1>3
  <1>7. TypeOK'
    <2>1. uuid' \in [Rid -> Artifact \cup {NoArtifact}]
      BY <1>5, <1>6 DEF TableInv, TypeOK
    <2>2. body' \in [Rid -> Body]
      BY <1>2 DEF TableInv, TypeOK, Body
    <2> QED
      BY <1>2, <1>4, <2>1, <2>2 DEF TableInv, TypeOK
  <1>8. /\ \A r \in R : body'[r] \in {"full", "null"}
        /\ \A r \in R : body'[r] = "null" => r \in phantom'
        /\ \A r \in Rid \ R : body'[r] = body[r]
        /\ phantom \subseteq phantom'
    BY <1>2, <1>4
  <1> QED
    BY <1>2, <1>4, <1>5, <1>6, <1>7, <1>8, InsertRows

(* Marking a row private and public again is symmetric because an artifact  *)
(* has one row.                                                             *)
LEMMA PrivateKeeps ==
    ASSUME TableInv, NEW r \in Rid, MakePrivate(r) \/ MakePublic(r)
    PROVE  TableInv'
  <1> USE DEF TableInv
  <1>1. r \in Rows /\ UNCHANGED <<uuid, body, srcid, phantom, unclustered,
                                   clusterTag, shun, base, acked>>
    BY DEF MakePrivate, MakePublic
  <1>2. uuid[r] \in Artifact
    BY <1>1 DEF TypeOK, Rows
  <1>3. TypeOK'
    BY <1>1, <1>2 DEF TypeOK, MakePrivate, MakePublic
  <1>4. RowsHaveBodies' /\ UniqueUuids' /\ NullRowsListed' /\ DeltaBaseIntact'
    BY <1>1 DEF RowsHaveBodies, UniqueUuids, NullRowsListed, DeltaBaseIntact,
                RealRows
  <1>5. CASE MakePrivate(r)
    BY <1>1, <1>3, <1>4, <1>5 DEF MakePrivate, PrivacyFollowsArtifact, Rows
  <1>6. CASE MakePublic(r)
    <2>1. \A q \in private : q \in Rid /\ (uuid[q] = uuid[r] => q = r)
      BY <1>1 DEF UniqueUuids, Rows, PrivacyFollowsArtifact
    <2>2. {uuid[q] : q \in private \ {r}} = hidden \ {uuid[r]}
      BY <2>1 DEF PrivacyFollowsArtifact
    <2> QED
      BY <1>1, <1>3, <1>4, <1>6, <2>2 DEF MakePublic, PrivacyFollowsArtifact, Rows
  <1> QED
    BY <1>5, <1>6

(* A purge rewrites the dependents of the rows it removes, so no delta is   *)
(* left without its source, and frees no rid that is still private.         *)
LEMMA PurgeKeeps ==
    ASSUME TableInv, Purge PROVE TableInv'
  <1> USE ConstantsAssumption DEF TableInv
  <1> DEFINE gone == ShunnedRows
             rewritten == Dependents(ShunnedRows)
  <1>1. /\ uuid' = [r \in Rid |-> IF r \in gone THEN NoArtifact ELSE uuid[r]]
        /\ body' = [r \in Rid |-> IF r \in gone THEN "none"
                                 ELSE IF r \in rewritten THEN "full" ELSE body[r]]
        /\ srcid' = [r \in Rid |-> IF r \in gone \cup rewritten THEN 0 ELSE srcid[r]]
        /\ base' = [r \in Rid |->
                        IF r \in gone \cup rewritten THEN NoArtifact ELSE base[r]]
        /\ hidden' = hidden \ shun
        /\ acked' = acked \ shun
        /\ private' = private \ gone
        /\ UNCHANGED <<phantom, unclustered, clusterTag, shun>>
    BY DEF Purge, DropRows
  <1>2. /\ gone \subseteq Rid
        /\ \A r \in Rid : r \in gone <=> uuid[r] # NoArtifact /\ uuid[r] \in shun
    BY DEF ShunnedRows, Rows
  <1>3. /\ rewritten \subseteq Rid
        /\ \A r \in Rid : r \in rewritten <=> srcid[r] \in gone
    BY DEF Dependents
  <1>4. \A r \in rewritten : body[r] \in {"full", "delta", "misbased"}
    BY <1>2, <1>3 DEF DeltaBaseIntact, RealRows, Rid
  <1> HIDE DEF gone, rewritten
  <1>5. TypeOK'
    <2>1. uuid' \in [Rid -> Artifact \cup {NoArtifact}]
      BY <1>1 DEF TypeOK
    <2>2. body' \in [Rid -> Body]
      BY <1>1 DEF TypeOK, Body
    <2>3. srcid' \in [Rid -> {0} \cup Rid]
      BY <1>1 DEF TypeOK
    <2>4. base' \in [Rid -> Artifact \cup {NoArtifact}]
      BY <1>1 DEF TypeOK
    <2> QED
      BY <1>1, <2>1, <2>2, <2>3, <2>4 DEF TypeOK
  <1>6. RowsHaveBodies'
    BY <1>1, <1>3, <1>4 DEF RowsHaveBodies
  <1>7. UniqueUuids'
    BY <1>1 DEF UniqueUuids
  <1>8. NullRowsListed'
    BY <1>1 DEF NullRowsListed
  <1>9. DeltaBaseIntact'
    <2> SUFFICES ASSUME NEW r \in Rid, srcid'[r] # 0
                 PROVE  /\ r \in RealRows'
                        /\ srcid'[r] \in RealRows'
                        /\ uuid'[srcid'[r]] = base'[r]
      BY DEF DeltaBaseIntact
    <2>1. r \notin gone /\ r \notin rewritten /\ srcid'[r] = srcid[r]
          /\ base'[r] = base[r]
      BY <1>1
    <2>2. srcid[r] \in Rid /\ srcid[r] \notin gone
      BY <1>3, <2>1 DEF TypeOK
    <2>3. r \in RealRows /\ srcid[r] \in RealRows /\ uuid[srcid[r]] = base[r]
      BY <2>1 DEF DeltaBaseIntact
    <2> QED
      BY <1>1, <2>1, <2>2, <2>3 DEF RealRows
  <1>10. PrivacyFollowsArtifact'
    <2>1. \A r \in private : r \in Rid /\ uuid[r] # NoArtifact /\ uuid[r] \in hidden
      BY DEF PrivacyFollowsArtifact, Rows
    <2>2. \A r \in private' : uuid'[r] = uuid[r] /\ uuid[r] \notin shun
      BY <1>1, <1>2, <2>1
    <2>3. private' \subseteq Rows'
      BY <1>1, <2>1, <2>2 DEF Rows
    <2>4. {uuid'[r] : r \in private'} = {uuid[r] : r \in private'}
      BY <2>2
    <2>5. {uuid[r] : r \in private'} = hidden'
      BY <1>1, <1>2, <2>1 DEF PrivacyFollowsArtifact
    <2> QED
      BY <2>3, <2>4, <2>5 DEF PrivacyFollowsArtifact
  <1> QED
    BY <1>5, <1>6, <1>7, <1>8, <1>9, <1>10

(* Every step keeps the invariant.                                          *)
LEMMA NextTableInv == TableInv /\ [Next]_vars => TableInv'
  <1> SUFFICES ASSUME TableInv, [Next]_vars PROVE TableInv'
    OBVIOUS
  <1>1. ASSUME NEW a \in Artifact, Store(a) PROVE TableInv'
    BY <1>1, StoreKeeps
  <1>2. ASSUME NEW a \in Artifact, FillPhantom(a) PROVE TableInv'
    BY <1>2, FillPhantomKeeps
  <1>3. ASSUME NEW a \in Artifact, ReceiveNew(a) PROVE TableInv'
    BY <1>3, ReceiveNewKeeps
  <1>4. ASSUME NEW a \in Artifact, ShunAdd(a) \/ ShunRemove(a) PROVE TableInv'
    <2>1. TypeOK'
      BY <1>4 DEF TableInv, TypeOK, ShunAdd, ShunRemove
    <2>2. UNCHANGED <<uuid, body, srcid, phantom, private, base, hidden>>
      BY <1>4 DEF ShunAdd, ShunRemove
    <2> QED
      BY <2>1, <2>2, Bystanders
  <1>5. ASSUME NEW a \in Artifact, NEW q \in Rid, StoreDelta(a, q) PROVE TableInv'
    BY <1>5, StoreDeltaKeeps
  <1>6. ASSUME NEW a \in Wanted, StorePhantom(a) PROVE TableInv'
    BY <1>6, StorePhantomKeeps, ConstantsAssumption
  <1>7. ASSUME NEW r \in Rid, CrosslinkCluster(r) PROVE TableInv'
    BY <1>7, CrosslinkClusterKeeps
  <1>8. ASSUME NEW r \in Rid, MakePrivate(r) \/ MakePublic(r) PROVE TableInv'
    BY <1>8, PrivateKeeps
  <1>9. CASE GenerateClusters
    BY <1>9, GenerateClustersKeeps
  <1>10. CASE Purge
    BY <1>10, PurgeKeeps
  <1>11. CASE Rebuild
    <2>1. TypeOK'
      BY <1>11 DEF TableInv, TypeOK, Rebuild, RealRows
    <2> QED
      BY <1>11, <2>1, Bystanders DEF Rebuild
  <1>12. CASE UNCHANGED vars
    <2>1. TypeOK'
      BY <1>12 DEF TableInv, TypeOK, vars
    <2> QED
      BY <1>12, <2>1, Bystanders DEF vars
  <1> QED
    BY <1>1, <1>2, <1>3, <1>4, <1>5, <1>6, <1>7, <1>8, <1>9, <1>10, <1>11, <1>12
       DEF Next

(* The artifact tables always satisfy the inductive invariant, whatever the *)
(* order of stores, receipts, purges, rebuilds and cluster operations.      *)
THEOREM TableInvariant == Spec => []TableInv
  BY InitTableInv, NextTableInv, PTL DEF Spec

(* Type correctness of the artifact tables.                                 *)
THEOREM TypeCorrect == Spec => []TypeOK
  <1>1. TableInv => TypeOK
    BY DEF TableInv
  <1> QED
    BY <1>1, TableInvariant, PTL

(* No delta ever outlives, or is applied to anything but, the artifact it   *)
(* was made from: shun.Purge rewrites dependents before it frees a rid that *)
(* blob.Store will hand out again.                                          *)
THEOREM DeltaBases == Spec => []DeltaBaseIntact
  <1>1. TableInv => DeltaBaseIntact
    BY DEF TableInv
  <1> QED
    BY <1>1, TableInvariant, PTL

(* The private table follows artifacts and not rids.                        *)
THEOREM Privacy == Spec => []PrivacyFollowsArtifact
  <1>1. TableInv => PrivacyFollowsArtifact
    BY DEF TableInv
  <1> QED
    BY <1>1, TableInvariant, PTL

-----------------------------------------------------------------------------
(***************************************************************************)
(* What can be read: delta chains and the abstract store.                   *)
(***************************************************************************)

(* Expandable is the least set that is closed along delta chains.           *)
LEMMA ExpandableLeast ==
    /\ Expandable \subseteq Rid
    /\ ChainClosed(Expandable)
    /\ \A S \in SUBSET Rid : ChainClosed(S) => Expandable \subseteq S
  BY DEF Expandable, ChainClosed

(* Only rows with content expand.                                           *)
LEMMA ExpandableIsReal == Expandable \subseteq RealRows
  <1>1. RealRows \in SUBSET Rid /\ ChainClosed(RealRows)
    BY DEF RealRows, ChainClosed
  <1> QED
    BY <1>1, ExpandableLeast

(* A row that expands belongs to an artifact.                               *)
LEMMA ExpandableHasUuid ==
    ASSUME TableInv, NEW r \in Expandable
    PROVE  r \in Rid /\ r \in Rows /\ uuid[r] \in Artifact /\ uuid[r] # NoArtifact
  BY ExpandableIsReal, ConstantsAssumption
     DEF TableInv, TypeOK, RowsHaveBodies, RealRows, Rows

(* The artifacts a phantom row may be made for: those callers ask for and   *)
(* those a cluster lists.                                                   *)
Promised == Wanted \cup UNION {Members[a] : a \in Artifact}

(* A step that loses nothing: rows keep their artifact, full text stays     *)
(* full, a delta stays a delta of the same row; a new delta is one that     *)
(* StoreDelta's callers may ask for, a new phantom one that was promised,   *)
(* and an artifact that is acknowledged has a row.                          *)
Growing ==
    /\ \A r \in Rid : uuid[r] # NoArtifact => uuid'[r] = uuid[r]
    /\ \A r \in Rid : body[r] = "full" => body'[r] = "full"
    /\ \A r \in Rid : body[r] \in {"delta", "misbased"} =>
                        body'[r] = body[r] /\ srcid'[r] = srcid[r]
    /\ \A r \in Rid : body'[r] \in {"delta", "misbased"} =>
        \/ body'[r] = body[r]
        \/ \E q \in RealRows : /\ srcid'[r] = q /\ body[q] \in DeltaSources
                               /\ body'[r] = "misbased" => body[q] # "full"
    /\ \A r \in Rid : body'[r] = "null" => body[r] = "null" \/ uuid'[r] \in Promised
    /\ \A a \in acked' \ acked : \E r \in Rid : uuid'[r] = a

(* After a step that loses nothing whatever expanded still expands.         *)
LEMMA GrowingExpands ==
    ASSUME Growing PROVE Expandable \subseteq Expandable'
  <1>1. SUFFICES ASSUME NEW r \in Expandable, NEW S \in SUBSET Rid, ChainClosed(S)'
                 PROVE  r \in S
    BY DEF Expandable
  <1>2. ChainClosed(S)
    BY <1>1 DEF ChainClosed, Growing
  <1> QED
    BY <1>2, ExpandableLeast

(* Every step but a purge loses nothing.                                    *)
LEMMA NextGrows ==
    ASSUME TableInv, [Next]_vars PROVE Growing \/ Purge
  <1> USE DEF Growing
  <1>0. \A R \in SUBSET Rid : Fresh(R) =>
            \A r \in R : uuid[r] = NoArtifact /\ body[r] = "none"
    BY FreshRow
  <1>a. uuid \in [Rid -> Artifact \cup {NoArtifact}] /\ body \in [Rid -> Body]
        /\ srcid \in [Rid -> {0} \cup Rid]
    BY DEF TableInv, TypeOK
  <1>b. \A r \in Rid : Fresh({r}) => uuid[r] = NoArtifact /\ body[r] = "none"
    BY <1>0
  <1>1. ASSUME NEW a \in Artifact, Store(a) PROVE Growing
    <2>1. acked' = acked \cup {a} /\ srcid' = srcid
      BY <1>1 DEF Store
    <2>2. CASE AlreadyKnown(a)
      BY <2>1, <2>2 DEF AlreadyKnown, Known, Rows
    <2>3. CASE InsertFull(a)
      <3>1. PICK r \in Rid : /\ Fresh({r})
                            /\ uuid' = [uuid EXCEPT ![r] = a]
                            /\ body' = [body EXCEPT ![r] = "full"]
        BY <2>3 DEF InsertFull
      <3> QED
        BY <1>a, <1>b, <2>1, <3>1
    <2> QED
      BY <1>1, <2>2, <2>3 DEF Store
  <1>2. ASSUME NEW a \in Artifact, FillPhantom(a) PROVE Growing
    BY <1>2 DEF FillPhantom, FillWith, NullRow
  <1>3. ASSUME NEW a \in Artifact, ReceiveNew(a) PROVE Growing
    <2> DEFINE S == {a} \cup (Members[a] \ Known)
    <2>0. PICK R \in SUBSET Rid : Fresh(R) /\ \E ins \in [R -> S] :
            /\ Inserts(ins, S)
            /\ uuid' = WithRows(ins)
            /\ body' = [r \in Rid |-> IF r \notin R THEN body[r]
                                    ELSE IF ins[r] = a THEN "full" ELSE "null"]
      BY <1>3 DEF ReceiveNew, ReceiveWith
    <2>1. PICK ins \in [R -> S] :
            /\ Inserts(ins, S)
            /\ uuid' = WithRows(ins)
            /\ body' = [r \in Rid |-> IF r \notin R THEN body[r]
                                    ELSE IF ins[r] = a THEN "full" ELSE "null"]
      BY <2>0
    <2>2. \A r \in Rid : IF r \in R THEN uuid'[r] = ins[r]
                         ELSE uuid'[r] = uuid[r] /\ body'[r] = body[r]
      BY <2>1 DEF WithRows
    <2>3. srcid' = srcid /\ acked' = acked \cup {a}
      BY <1>3 DEF ReceiveNew, ReceiveWith
    <2>4. \E r \in R : ins[r] = a
      BY <2>1 DEF Inserts
    <2>5. \A r \in R : ins[r] = a \/ ins[r] \in Promised
      BY DEF Promised
    <2> QED
      BY <1>0, <2>0, <2>1, <2>2, <2>3, <2>4, <2>5
  <1>4. ASSUME NEW a \in Artifact, ShunAdd(a) \/ ShunRemove(a) PROVE Growing
    BY <1>4 DEF ShunAdd, ShunRemove
  <1>5. ASSUME NEW a \in Artifact, NEW q \in Rid, StoreDelta(a, q) PROVE Growing
    BY <1>a, <1>b, <1>5 DEF StoreDelta, InsertDelta, AlreadyKnown, Known, Rows
  <1>6. ASSUME NEW a \in Wanted, StorePhantom(a) PROVE Growing
    BY <1>a, <1>b, <1>6 DEF StorePhantom, Promised
  <1>7. ASSUME NEW c \in Rid, CrosslinkCluster(c) PROVE Growing
    <2>1. PICK done \in SUBSET Members[uuid[c]], R \in SUBSET Rid :
            /\ Fresh(R)
            /\ \E ins \in [R -> done \ Known] : uuid' = WithRows(ins)
            /\ body' = [r \in Rid |-> IF r \in R THEN "null" ELSE body[r]]
      BY <1>7 DEF CrosslinkCluster
    <2>2. \A r \in Rid : IF r \in R THEN uuid'[r] \in Members[uuid[c]]
                         ELSE uuid'[r] = uuid[r] /\ body'[r] = body[r]
      BY <2>1 DEF WithRows
    <2>3. srcid' = srcid /\ acked' = acked
      BY <1>7 DEF CrosslinkCluster
    <2>4. uuid[c] \in Artifact
      BY <1>7 DEF CrosslinkCluster, TableInv, TypeOK, RowsHaveBodies, RealRows
    <2>5. Members[uuid[c]] \subseteq Promised
      BY <2>4 DEF Promised
    <2> QED
      BY <1>0, <2>1, <2>2, <2>3, <2>5
  <1>8. ASSUME NEW r \in Rid, MakePrivate(r) \/ MakePublic(r) PROVE Growing
    BY <1>8 DEF MakePrivate, MakePublic
  <1>9. CASE GenerateClusters
    <2>1. PICK made \in SUBSET {a \in Artifact : Members[a] # {}}, R \in SUBSET Rid :
            /\ Fresh(R)
            /\ \E ins \in [R -> made \ Known] : uuid' = WithRows(ins)
            /\ body' = [r \in Rid |-> IF r \in R THEN "full" ELSE body[r]]
      BY <1>9 DEF GenerateClusters
    <2>2. \A r \in Rid \ R : uuid'[r] = uuid[r] /\ body'[r] = body[r]
      BY <2>1 DEF WithRows
    <2>3. srcid' = srcid /\ acked' = acked
      BY <1>9 DEF GenerateClusters
    <2> QED
      BY <1>0, <2>1, <2>2, <2>3
  <1>10. CASE Rebuild
    BY <1>10 DEF Rebuild
  <1>11. CASE UNCHANGED vars
    BY <1>11 DEF vars
  <1> QED
    BY <1>1, <1>2, <1>3, <1>4, <1>5, <1>6, <1>7, <1>8, <1>9, <1>10, <1>11 DEF Next

(* A purge leaves exactly the rows that expanded and are not shunned: the   *)
(* chains that ran through a shunned row now start at a rewritten row.      *)
LEMMA PurgeExpands ==
    ASSUME TableInv, Purge
    PROVE  /\ Expandable' = Expandable \ ShunnedRows
           /\ uuid' = [r \in Rid |-> IF r \in ShunnedRows THEN NoArtifact ELSE uuid[r]]
  <1> DEFINE gone == ShunnedRows
             rewritten == Dependents(ShunnedRows)
  <1>1. /\ rewritten \subseteq Expandable
        /\ uuid' = [r \in Rid |-> IF r \in gone THEN NoArtifact ELSE uuid[r]]
        /\ body' = [r \in Rid |-> IF r \in gone THEN "none"
                                 ELSE IF r \in rewritten THEN "full" ELSE body[r]]
        /\ srcid' = [r \in Rid |-> IF r \in gone \cup rewritten THEN 0 ELSE srcid[r]]
    BY DEF Purge, DropRows
  <1>2. gone \subseteq Rid /\ rewritten = {r \in Rid : srcid[r] \in gone}
    BY DEF ShunnedRows, Rows, Dependents
  <1> HIDE DEF gone, rewritten
  <1>3. Expandable \ gone \subseteq Expandable'
    <2>1. SUFFICES ASSUME NEW r \in Expandable \ gone,
                          NEW S \in SUBSET Rid, ChainClosed(S)'
                   PROVE  r \in S
      BY DEF Expandable
    <2>2. ChainClosed(S \cup gone)
      BY <1>1, <1>2, <2>1 DEF ChainClosed
    <2> QED
      BY <1>2, <2>2, ExpandableLeast
  <1>4. Expandable' \subseteq Expandable \ gone
    <2>0. PICK T \in SUBSET Rid : T = Expandable \ gone
      BY ExpandableLeast
    <2>1. ChainClosed(T)'
      <3>1. ASSUME NEW r \in Rid, body'[r] = "full" PROVE r \in Expandable \ gone
        BY <1>1, <3>1, ExpandableLeast DEF ChainClosed
      <3>2. ASSUME NEW r \in Rid, body'[r] = "delta",
                   srcid'[r] \in Expandable \ gone
            PROVE  r \in Expandable \ gone
        <4>1. r \notin gone /\ body[r] \in {"full", "delta"}
          BY <1>1, <3>2
        <4>2. 0 \notin Rid
          BY DEF Rid
        <4>3. srcid[r] \in Expandable /\ body[r] = "delta"
          BY <1>1, <3>2, <4>1, <4>2, ExpandableLeast
        <4> QED
          BY <4>1, <4>3, ExpandableLeast DEF ChainClosed
      <3> QED
        BY <2>0, <3>1, <3>2 DEF ChainClosed
    <2> QED
      BY <2>0, <2>1 DEF Expandable
  <1> QED
    BY <1>1, <1>3, <1>4 DEF gone

(* The callers of StoreDelta name no row that is itself stored as a delta.  *)
SoundSources == "delta" \notin DeltaSources

LEMMA InitIntegrity == ASSUME Init PROVE BlobIntegrity
  <1> USE ImportAssumption
  <1>1. SUFFICES ASSUME NEW r \in RealRows, NEW S \in SUBSET Rid, ChainClosed(S)
                 PROVE  r \in S
    BY DEF BlobIntegrity, Expandable, RealRows
  <1>2. r \in DOMAIN ImportUuid
    BY DEF RealRows, Init
  <1> DEFINE T == S \cap DOMAIN ImportUuid
  <1>3. ASSUME NEW q \in DOMAIN ImportUuid, ImportSrc[q] = 0 \/ ImportSrc[q] \in T
        PROVE  q \in T
    <2>1. q \in Rid /\ srcid[q] = ImportSrc[q]
          /\ body[q] = (IF ImportSrc[q] = 0 THEN "full" ELSE "delta")
      BY DEF Init
    <2> QED
      BY <1>1, <1>3, <2>1 DEF ChainClosed
  <1>4. T = DOMAIN ImportUuid
    BY <1>3, ImportChainsAssumption
  <1> QED
    BY <1>2, <1>4

(* A new delta is made from full text, so it expands; everything else that  *)
(* has content had it before or is stored in full.                          *)
LEMMA NextIntegrity ==
    ASSUME SoundSources, TableInv, BlobIntegrity, [Next]_vars PROVE BlobIntegrity'
  <1>1. CASE Growing
    <2>1. SUFFICES ASSUME NEW r \in RealRows' PROVE r \in Expandable'
      BY DEF BlobIntegrity
    <2>2. r \in Rid /\ body'[r] \in {"full", "delta", "misbased"}
      BY <2>1 DEF RealRows
    <2>3. Expandable \subseteq Expandable' /\ ChainClosed(Expandable)'
      <3>1. ChainClosed(Expandable)'
        BY ExpandableLeast, PTL
      <3> QED
        BY <1>1, <3>1, GrowingExpands
    <2>4. \A q \in RealRows : body[q] # "misbased"
      <3> DEFINE T == {q \in Rid : body[q] # "misbased"}
      <3>1. T \in SUBSET Rid /\ ChainClosed(T)
        BY DEF ChainClosed
      <3>2. Expandable \subseteq T
        BY <3>1, ExpandableLeast
      <3> QED
        BY <3>2 DEF BlobIntegrity
    <2>5. CASE body'[r] = "full"
      BY <2>2, <2>3, <2>5 DEF ChainClosed
    <2>6. CASE body'[r] = body[r]
      BY <2>2, <2>3, <2>6 DEF BlobIntegrity, RealRows
    <2>7. CASE body'[r] # "full" /\ body'[r] # body[r]
      <3>1. PICK q \in RealRows : /\ srcid'[r] = q /\ body[q] \in DeltaSources
                                  /\ body'[r] = "misbased" => body[q] # "full"
        BY <1>1, <2>2, <2>7 DEF Growing
      <3>2. body[q] = "full" /\ body'[r] = "delta"
        BY <2>2, <2>4, <2>7, <3>1 DEF SoundSources, RealRows
      <3>3. q \in Expandable'
        BY <2>3, <3>1 DEF BlobIntegrity
      <3> QED
        BY <2>2, <2>3, <3>1, <3>2, <3>3 DEF ChainClosed
    <2> QED
      BY <2>5, <2>6, <2>7
  <1>2. CASE Purge
    <2>1. body' = [r \in Rid |-> IF r \in ShunnedRows THEN "none"
                                 ELSE IF r \in Dependents(ShunnedRows) THEN "full"
                                 ELSE body[r]]
          /\ Dependents(ShunnedRows) \subseteq Expandable
      BY <1>2 DEF Purge, DropRows
    <2>2. RealRows' \subseteq RealRows \ ShunnedRows
      BY <2>1, ExpandableIsReal DEF RealRows
    <2>3. Expandable' = Expandable \ ShunnedRows
      BY <1>2, PurgeExpands
    <2> QED
      BY <2>2, <2>3 DEF BlobIntegrity
  <1> QED
    BY <1>1, <1>2, NextGrows

(* Every row that claims content expands to it, whatever is purged under    *)
(* it, as long as no delta is made from the stored bytes of another delta.  *)
THEOREM BlobsExpand ==
    ASSUME SoundSources PROVE Spec => []BlobIntegrity
  <1>1. TableInv /\ BlobIntegrity /\ [Next]_vars => BlobIntegrity'
    BY NextIntegrity
  <1> QED
    BY <1>1, InitIntegrity, TableInvariant, PTL DEF Spec

(* What is readable, known and shunned are artifacts.                       *)
LEMMA ArtifactsOnly ==
    TableInv => /\ Readable \subseteq Artifact
                /\ Known \subseteq Artifact
                /\ shun \subseteq Artifact
  BY ExpandableHasUuid DEF Readable, Known, Rows, TableInv, TypeOK

(* Every operation of the blob, content and shun packages is a step of the  *)
(* abstract store or none at all.                                           *)
LEMMA StepsImplement ==
    ASSUME TableInv, TableInv', [Next]_vars PROVE [Abstract!Next]_(Abstract!vars)
  <1> USE DEF Abstract!Next, Abstract!vars
  <1>a. Readable \subseteq Artifact /\ Known \subseteq Artifact
        /\ Readable' \subseteq Artifact /\ Known' \subseteq Artifact
        /\ shun' \subseteq Artifact
    <2>1. (/\ Readable \subseteq Artifact
           /\ Known \subseteq Artifact
           /\ shun \subseteq Artifact)'
      BY ArtifactsOnly, PTL
    <2> QED
      BY <2>1, ArtifactsOnly
  <1>1. CASE Growing /\ shun' = shun
    <2>1. Readable \subseteq Readable'
      BY <1>1, GrowingExpands, ExpandableHasUuid DEF Readable, Growing
    <2>2. Known \subseteq Known'
      BY <1>1 DEF Known, Rows, Growing
    <2>3. Abstract!Advance
      BY <1>1, <1>a, <2>1, <2>2 DEF Abstract!Advance, Abstract!TypeOK
    <2> QED
      BY <2>3
  <1>2. ASSUME NEW a \in Artifact, ShunAdd(a) \/ ShunRemove(a)
        PROVE  Abstract!EditBanned
    <2>1. Readable' = Readable /\ Known' = Known
      BY <1>2 DEF ShunAdd, ShunRemove, Readable, Expandable, ChainClosed, Known, Rows
    <2> QED
      BY <1>a, <2>1 DEF Abstract!EditBanned
  <1>3. CASE Purge
    <2>1. \A r \in Rid : r \in ShunnedRows <=> r \in Rows /\ uuid[r] \in shun
      BY DEF ShunnedRows, Rows
    <2>2. /\ Expandable' = Expandable \ ShunnedRows
          /\ uuid' = [r \in Rid |-> IF r \in ShunnedRows THEN NoArtifact ELSE uuid[r]]
          /\ shun' = shun
      BY <1>3, PurgeExpands DEF Purge, DropRows
    <2>3. Readable' = Readable \ shun
      BY <2>1, <2>2, ExpandableHasUuid DEF Readable
    <2>4. Known' = Known \ shun
      BY <2>1, <2>2 DEF Known, Rows
    <2> QED
      BY <2>2, <2>3, <2>4 DEF Abstract!Purge
  <1>4. shun' = shun \/ \E a \in Artifact : ShunAdd(a) \/ ShunRemove(a)
    BY DEF Next, vars, Store, FillPhantom, FillWith, ReceiveNew, ReceiveWith,
           StoreDelta, StorePhantom, CrosslinkCluster, MakePrivate, MakePublic,
           GenerateClusters, Purge, DropRows, Rebuild
  <1> QED
    BY <1>1, <1>2, <1>3, <1>4, NextGrows

(* The repository implements the abstract artifact store: rids, chains and  *)
(* phantoms never show as content lost or brought back.                     *)
THEOREM StoreImplements == Spec => ImplementsArtifactStore
  <1>1. Init => Abstract!Init
    <2> SUFFICES ASSUME Init PROVE Abstract!Init
      OBVIOUS
    <2>1. TableInv /\ BlobIntegrity
      BY InitTableInv, InitIntegrity
    <2>2. Rows \subseteq RealRows /\ shun = {}
      BY ImportAssumption DEF Init, Rows, RealRows
    <2>3. Known \subseteq Readable
      BY <2>1, <2>2 DEF Known, Readable, BlobIntegrity
    <2>4. Readable \subseteq Artifact
      BY <2>1, ExpandableHasUuid DEF Readable
    <2> QED
      BY <2>2, <2>3, <2>4 DEF Abstract!Init, Abstract!TypeOK
  <1>2. TableInv /\ TableInv' /\ [Next]_vars => [Abstract!Next]_(Abstract!vars)
    BY StepsImplement
  <1> QED
    BY <1>1, <1>2, TableInvariant, PTL DEF Spec, ImplementsArtifactStore, Abstract!Spec

(* Phantom rows are for promised artifacts only, and whatever was           *)
(* acknowledged and never promised has a row with content.                  *)
AckedStored ==
    /\ \A r \in Rid : body[r] = "null" => uuid[r] \in Promised
    /\ \A a \in acked \ Promised : \E r \in RealRows : uuid[r] = a

LEMMA NextAckedStored ==
    ASSUME TableInv, TableInv', AckedStored, [Next]_vars PROVE AckedStored'
  <1> USE ConstantsAssumption
  <1>1. CASE Growing
    <2>1. \A r \in Rid : body'[r] = "null" => uuid'[r] \in Promised
      BY <1>1 DEF Growing, AckedStored, TableInv, TypeOK, RowsHaveBodies
    <2>2. ASSUME NEW a \in acked' \ Promised PROVE \E r \in RealRows' : uuid'[r] = a
      <3>1. CASE a \in acked
        <4>1. PICK r \in RealRows : uuid[r] = a
          BY <2>2, <3>1 DEF AckedStored
        <4>2. uuid'[r] = a /\ r \in RealRows'
          BY <1>1, <4>1 DEF Growing, RealRows, TableInv, RowsHaveBodies
        <4> QED
          BY <4>2
      <3>2. CASE a \notin acked
        <4>1. PICK r \in Rid : uuid'[r] = a
          BY <1>1, <2>2, <3>2 DEF Growing
        <4>2. a # NoArtifact
          BY <2>2 DEF TableInv, TypeOK
        <4>3. body'[r] \in Body /\ body'[r] # "none" /\ body'[r] # "null"
          BY <2>1, <2>2, <4>1, <4>2 DEF TableInv, TypeOK, RowsHaveBodies
        <4> QED
          BY <4>1, <4>3 DEF RealRows, Body
      <3> QED
        BY <3>1, <3>2
    <2> QED
      BY <2>1, <2>2 DEF AckedStored
  <1>2. CASE Purge
    <2>1. /\ uuid' = [r \in Rid |-> IF r \in ShunnedRows THEN NoArtifact ELSE uuid[r]]
          /\ body' = [r \in Rid |-> IF r \in ShunnedRows THEN "none"
                                 ELSE IF r \in Dependents(ShunnedRows) THEN "full"
                                 ELSE body[r]]
          /\ acked' = acked \ shun
      BY <1>2 DEF Purge, DropRows
    <2>2. \A r \in ShunnedRows : uuid[r] \in shun
      BY DEF ShunnedRows
    <2>3. \A r \in Rid : body'[r] = "null" => uuid'[r] \in Promised
      BY <2>1 DEF AckedStored
    <2>4. ASSUME NEW a \in acked' \ Promised PROVE \E r \in RealRows' : uuid'[r] = a
      <3>1. PICK r \in RealRows : uuid[r] = a
        BY <2>1, <2>4 DEF AckedStored
      <3>2. r \notin ShunnedRows
        BY <2>1, <2>2, <2>4, <3>1
      <3> QED
        BY <2>1, <3>1, <3>2 DEF RealRows
    <2> QED
      BY <2>3, <2>4 DEF AckedStored
  <1> QED
    BY <1>1, <1>2, NextGrows

(* Where no phantom is ever asked for, content that a caller was told is    *)
(* stored can be read back until it is purged.                              *)
THEOREM StoredIsReadable ==
    ASSUME SoundSources, Promised = {} PROVE Spec => []AckedIsReadable
  <1>1. Init => AckedStored
    BY DEF Init, AckedStored
  <1>2. TableInv /\ TableInv' /\ AckedStored /\ [Next]_vars => AckedStored'
    BY NextAckedStored
  <1>3. AckedStored /\ BlobIntegrity => AckedIsReadable
    BY DEF AckedStored, BlobIntegrity, AckedIsReadable, Readable
  <1> QED
    BY <1>1, <1>2, <1>3, TableInvariant, BlobsExpand, PTL DEF Spec

(***************************************************************************)
(* The phantom table and the announcement of artifacts, where nothing is    *)
(* shunned and so no rid is ever used twice.                                *)
(***************************************************************************)

NothingShunned == shun = {} /\ PhantomTableExact

LEMMA NextNothingShunned ==
    ASSUME Shunnable = {}, TableInv, NothingShunned, [Next]_vars
    PROVE  NothingShunned'
  <1> USE DEF NothingShunned, PhantomTableExact
  <1>a. \A R \in SUBSET Rid : Fresh(R) => \A r \in R : r \notin phantom
    BY FreshRow
  <1>b. \A r \in Rid : Fresh({r}) => r \notin phantom
    BY <1>a
  <1>c. body \in [Rid -> Body] /\ phantom \subseteq Rid
    BY DEF TableInv, TypeOK
  <1>1. ASSUME NEW a \in Artifact, Store(a) PROVE NothingShunned'
    BY <1>b, <1>c, <1>1 DEF Store, InsertFull, AlreadyKnown
  <1>2. ASSUME NEW a \in Artifact, FillPhantom(a) PROVE NothingShunned'
    BY <1>c, <1>2 DEF FillPhantom, FillWith, NullRow
  <1>3. ASSUME NEW a \in Artifact, ReceiveNew(a) PROVE NothingShunned'
    <2>1. PICK R \in SUBSET Rid :
            Fresh(R) /\ \E ins \in [R -> {a} \cup (Members[a] \ Known)] :
            /\ body' = [r \in Rid |-> IF r \notin R THEN body[r]
                                    ELSE IF ins[r] = a THEN "full" ELSE "null"]
            /\ phantom' = phantom \cup {r \in R : ins[r] # a}
      BY <1>3 DEF ReceiveNew, ReceiveWith
    <2>2. shun' = shun
      BY <1>3 DEF ReceiveNew, ReceiveWith
    <2> QED
      BY <1>a, <1>c, <2>1, <2>2
  <1>4. ASSUME NEW a \in Artifact, ShunAdd(a) \/ ShunRemove(a) PROVE NothingShunned'
    BY <1>4 DEF ShunAdd, ShunRemove
  <1>5. ASSUME NEW a \in Artifact, NEW q \in Rid, StoreDelta(a, q)
        PROVE  NothingShunned'
    BY <1>b, <1>c, <1>5 DEF StoreDelta, InsertDelta, AlreadyKnown
  <1>6. ASSUME NEW a \in Wanted, StorePhantom(a) PROVE NothingShunned'
    BY <1>b, <1>c, <1>6 DEF StorePhantom
  <1>7. ASSUME NEW c \in Rid, CrosslinkCluster(c) PROVE NothingShunned'
    <2>1. PICK R \in SUBSET Rid :
            /\ Fresh(R)
            /\ body' = [r \in Rid |-> IF r \in R THEN "null" ELSE body[r]]
            /\ phantom' = phantom \cup R
      BY <1>7 DEF CrosslinkCluster
    <2>2. shun' = shun
      BY <1>7 DEF CrosslinkCluster
    <2> QED
      BY <1>a, <1>c, <2>1, <2>2
  <1>8. ASSUME NEW r \in Rid, MakePrivate(r) \/ MakePublic(r) PROVE NothingShunned'
    BY <1>8 DEF MakePrivate, MakePublic
  <1>9. CASE GenerateClusters
    <2>1. PICK R \in SUBSET Rid :
            /\ Fresh(R)
            /\ body' = [r \in Rid |-> IF r \in R THEN "full" ELSE body[r]]
      BY <1>9 DEF GenerateClusters
    <2>2. shun' = shun /\ phantom' = phantom
      BY <1>9 DEF GenerateClusters
    <2> QED
      BY <1>a, <1>c, <2>1, <2>2
  <1>10. CASE Purge
    BY <1>10 DEF Purge, DropRows, ShunnedRows
  <1>11. CASE Rebuild
    BY <1>11 DEF Rebuild
  <1>12. CASE UNCHANGED vars
    BY <1>12 DEF vars
  <1> QED
    BY <1>1, <1>2, <1>3, <1>4, <1>5, <1>6, <1>7, <1>8, <1>9, <1>10, <1>11, <1>12
       DEF Next

(* The phantom table lists exactly the rows without content as long as      *)
(* nothing is shunned: blob.StorePhantom, storeReceivedFile and the cluster *)
(* crosslinking keep the table and the rows in step.                        *)
THEOREM PhantomsListed ==
    ASSUME Shunnable = {} PROVE Spec => []PhantomTableExact
  <1>1. Init => NothingShunned
    BY DEF Init, NothingShunned, PhantomTableExact
  <1>2. TableInv /\ NothingShunned /\ [Next]_vars => NothingShunned'
    BY NextNothingShunned
  <1>3. NothingShunned => PhantomTableExact
    BY DEF NothingShunned
  <1> QED
    BY <1>1, <1>2, <1>3, TableInvariant, PTL DEF Spec

(* The clusters content.GenerateClusters may build.                         *)
MadeHere ==
    {a \in Artifact :
        /\ Members[a] # {}
        /\ Cardinality(Members[a]) \in
             ClusterThreshold..(ClusterMaxSize + ClusterThreshold - 1)}

(* Row r can be found by a peer: it is announced itself, or through a       *)
(* crosslinked cluster with content.                                        *)
Announced(r) ==
    \/ r \in unclustered
    \/ \E c \in clusterTag \cap RealRows : uuid[r] \in Members[uuid[c]]

(* What announcing rests on.  A private row is announced too, in case it    *)
(* becomes public.                                                          *)
AnnounceInv ==
    /\ NothingShunned
    /\ AckedStored
    /\ \A r \in RealRows : Announced(r)
    /\ \A c \in clusterTag : /\ c \in Rows
                             /\ Members[uuid[c]] # {}
                             /\ Members[uuid[c]] \subseteq Known

(* A step that only adds rows, tags and entries of unclustered keeps every  *)
(* row announced, except for the rows it takes out of unclustered.          *)
LEMMA GrowingAnnounces ==
    ASSUME TableInv, AnnounceInv, Growing, clusterTag \subseteq clusterTag'
    PROVE  /\ RealRows \subseteq RealRows'
           /\ \A r \in RealRows : r \notin unclustered => Announced(r)'
           /\ \A c \in clusterTag : /\ c \in Rows'
                                    /\ Members[uuid'[c]] # {}
                                    /\ Members[uuid'[c]] \subseteq Known'
  <1>1. \A r \in RealRows : r \in RealRows' /\ uuid'[r] = uuid[r]
    BY DEF Growing, RealRows, TableInv, RowsHaveBodies
  <1>2. ASSUME NEW r \in RealRows, r \notin unclustered PROVE Announced(r)'
    <2>1. PICK c \in clusterTag \cap RealRows : uuid[r] \in Members[uuid[c]]
      BY <1>2 DEF AnnounceInv, Announced
    <2> QED
      BY <1>1, <2>1 DEF Announced
  <1>3. \A c \in Rows : c \in Rows' /\ uuid'[c] = uuid[c]
    BY DEF Growing, Rows
  <1>4. Known \subseteq Known'
    BY <1>3 DEF Known
  <1> QED
    BY <1>1, <1>2, <1>3, <1>4 DEF AnnounceInv

(* Steps that mark every new row with content as unclustered and touch no   *)
(* cluster.                                                                 *)
LEMMA MarkedAnnounces ==
    ASSUME TableInv, AnnounceInv, Growing, NothingShunned', AckedStored',
           unclustered \subseteq unclustered', clusterTag' = clusterTag,
           \A r \in RealRows' : r \in RealRows \/ r \in unclustered'
    PROVE  AnnounceInv'
  <1>1. \A r \in RealRows' : Announced(r)'
    <2> SUFFICES ASSUME NEW r \in RealRows', r \notin unclustered'
                 PROVE  Announced(r)'
      BY DEF Announced
    <2> QED
      BY GrowingAnnounces
  <1> QED
    BY <1>1, GrowingAnnounces DEF AnnounceInv

(* A received cluster takes its members out of unclustered and lists them.  *)
LEMMA ReceiveAnnounces ==
    ASSUME TableInv, AnnounceInv, Growing, NothingShunned', AckedStored',
           NEW a \in Artifact, ReceiveNew(a)
    PROVE  AnnounceInv'
  <1> USE ConstantsAssumption
  <1> DEFINE S == {a} \cup (Members[a] \ Known)
  <1>0. PICK R \in SUBSET Rid : Fresh(R) /\ \E ins \in [R -> S] :
          /\ Inserts(ins, S)
          /\ uuid' = WithRows(ins)
          /\ body' = [r \in Rid |-> IF r \notin R THEN body[r]
                                    ELSE IF ins[r] = a THEN "full" ELSE "null"]
          /\ unclustered' = (unclustered \cup {r \in R : ins[r] = a})
                              \ {r \in Rows : uuid[r] \in Members[a]}
          /\ clusterTag' = clusterTag \cup {r \in R : ins[r] = a /\ Members[a] # {}}
    BY DEF ReceiveNew, ReceiveWith
  <1>1. PICK ins \in [R -> S] :
          /\ Inserts(ins, S)
          /\ uuid' = WithRows(ins)
          /\ body' = [r \in Rid |-> IF r \notin R THEN body[r]
                                    ELSE IF ins[r] = a THEN "full" ELSE "null"]
          /\ unclustered' = (unclustered \cup {r \in R : ins[r] = a})
                              \ {r \in Rows : uuid[r] \in Members[a]}
          /\ clusterTag' = clusterTag \cup {r \in R : ins[r] = a /\ Members[a] # {}}
    BY <1>0
  <1>2. \A r \in Rid : uuid'[r] = IF r \in R THEN ins[r] ELSE uuid[r]
    BY <1>1 DEF WithRows
  <1>3. PICK ra \in R : ins[ra] = a
    BY <1>1 DEF Inserts
  <1>4. \A r \in R : r \notin Rows
    BY <1>0 DEF Fresh
  <1>5. ra \in RealRows' /\ uuid'[ra] = a /\ (Members[a] # {} => ra \in clusterTag')
    BY <1>1, <1>2, <1>3 DEF RealRows
  <1>6. ASSUME NEW r \in RealRows' PROVE Announced(r)'
    <2>1. CASE r \in R
      <3>1. ins[r] = a
        BY <1>1, <1>6, <2>1 DEF RealRows
      <3>2. r \in unclustered'
        BY <1>1, <1>4, <2>1, <3>1
      <3> QED
        BY <3>2 DEF Announced
    <2>2. CASE r \notin R /\ r \in Rows /\ uuid[r] \in Members[a]
      BY <1>2, <1>5, <2>2 DEF Announced, Rows
    <2>3. CASE r \notin R /\ ~(r \in Rows /\ uuid[r] \in Members[a])
      <3>1. r \in RealRows
        BY <1>1, <1>6, <2>3 DEF RealRows
      <3>2. CASE r \in unclustered
        BY <1>1, <2>3, <3>2 DEF Announced
      <3>3. CASE r \notin unclustered
        BY <1>1, <3>1, <3>3, GrowingAnnounces
      <3> QED
        BY <3>2, <3>3
    <2> QED
      BY <2>1, <2>2, <2>3
  <1>7. ASSUME NEW c \in clusterTag'
        PROVE  c \in Rows' /\ Members[uuid'[c]] # {} /\ Members[uuid'[c]] \subseteq Known'
    <2>1. CASE c \in clusterTag
      BY <1>1, <2>1, GrowingAnnounces
    <2>2. CASE c \notin clusterTag
      <3>1. c \in R /\ ins[c] = a /\ Members[a] # {} /\ uuid'[c] = a
        BY <1>1, <1>2, <1>7, <2>2
      <3>2. Known \subseteq Known'
        BY DEF Known, Rows, Growing
      <3>3. Members[a] \ Known \subseteq Known'
        <4>1. ASSUME NEW x \in Members[a] \ Known PROVE x \in Known'
          <5>1. PICK r \in R : ins[r] = x
            BY <1>1 DEF Inserts
          <5>2. uuid'[r] = x /\ x # NoArtifact
            BY <1>2, <5>1
          <5> QED
            BY <5>2 DEF Known, Rows
        <4> QED
          BY <4>1
      <3>4. c \in Rows'
        BY <3>1 DEF Rows
      <3> QED
        BY <3>1, <3>2, <3>3, <3>4
    <2> QED
      BY <2>1, <2>2
  <1> QED
    BY <1>6, <1>7 DEF AnnounceInv

(* The Crosslink sweep finishes a cluster: without reused rids none of its  *)
(* phantoms can clash with an old entry of the phantom table.               *)
LEMMA CrosslinkAnnounces ==
    ASSUME TableInv, AnnounceInv, Growing, NothingShunned', AckedStored',
           NEW c \in Rid, CrosslinkCluster(c)
    PROVE  AnnounceInv'
  <1> USE ConstantsAssumption
  <1>0. PICK done \in SUBSET Members[uuid[c]], R \in SUBSET Rid :
          /\ Fresh(R)
          /\ \/ done = Members[uuid[c]] /\ R \cap phantom = {}
             \/ R \cap phantom # {}
          /\ \E ins \in [R -> done \ Known] :
                Inserts(ins, done \ Known) /\ uuid' = WithRows(ins)
          /\ body' = [r \in Rid |-> IF r \in R THEN "null" ELSE body[r]]
          /\ unclustered' = unclustered \ {r \in Rows : uuid[r] \in done}
    BY DEF CrosslinkCluster
  <1>1. PICK ins \in [R -> done \ Known] :
          Inserts(ins, done \ Known) /\ uuid' = WithRows(ins)
    BY <1>0
  <1>2. \A r \in R : r \notin phantom /\ r \notin Rows
    BY <1>0, FreshRow DEF AnnounceInv, NothingShunned, PhantomTableExact, Fresh
  <1>3. done = Members[uuid[c]]
    BY <1>0, <1>2
  <1>4. /\ clusterTag' = clusterTag \cup {c} /\ c \in RealRows
        /\ Members[uuid[c]] # {}
    BY DEF CrosslinkCluster
  <1>5. uuid[c] \in Artifact /\ c \in Rows
    BY <1>4 DEF TableInv, TypeOK, RowsHaveBodies, RealRows, Rows
  <1>6. c \in RealRows' /\ uuid'[c] = uuid[c] /\ c \in Rows'
    BY <1>4, <1>5, GrowingAnnounces DEF Growing, Rows
  <1>7. ASSUME NEW r \in RealRows' PROVE Announced(r)'
    <2>1. r \in RealRows /\ r \notin R /\ uuid'[r] = uuid[r]
      BY <1>0, <1>1, <1>7 DEF RealRows, WithRows
    <2>2. CASE r \in Rows /\ uuid[r] \in done
      BY <1>3, <1>4, <1>6, <2>1, <2>2 DEF Announced
    <2>3. CASE ~(r \in Rows /\ uuid[r] \in done) /\ r \in unclustered
      BY <1>0, <2>3 DEF Announced
    <2>4. CASE r \notin unclustered
      BY <1>4, <2>1, <2>4, GrowingAnnounces
    <2> QED
      BY <2>2, <2>3, <2>4
  <1>8. Members[uuid[c]] \subseteq Known'
    <2>1. Known \subseteq Known'
      BY DEF Known, Rows, Growing
    <2>2. ASSUME NEW x \in done \ Known PROVE x \in Known'
      <3>1. PICK r \in R : ins[r] = x
        BY <1>1 DEF Inserts
      <3>2. uuid'[r] = x /\ x # NoArtifact
        BY <1>1, <1>5, <3>1 DEF WithRows
      <3> QED
        BY <3>2 DEF Known, Rows
    <2> QED
      BY <1>3, <2>1, <2>2
  <1> QED
    BY <1>4, <1>6, <1>7, <1>8, GrowingAnnounces DEF AnnounceInv

(* The clusters that are generated are stored with content, since no        *)
(* phantom was waiting for them, and list every row they take out.          *)
LEMMA GenerateAnnounces ==
    ASSUME MadeHere \cap Promised = {},
           TableInv, AnnounceInv, Growing, NothingShunned', AckedStored', TableInv',
           GenerateClusters
    PROVE  AnnounceInv'
  <1> USE ConstantsAssumption
  <1>0. PICK made \in SUBSET {a \in Artifact : Members[a] # {}} :
          /\ IsBatching({Members[a] : a \in made}, {uuid[r] : r \in Clusterable})
          /\ \E R \in SUBSET Rid :
              /\ Fresh(R)
              /\ \E ins \in [R -> made \ Known] :
                  Inserts(ins, made \ Known) /\ uuid' = WithRows(ins)
              /\ body' = [r \in Rid |-> IF r \in R THEN "full" ELSE body[r]]
              /\ clusterTag' = clusterTag \cup {r \in Rid : uuid'[r] \in made}
              /\ unclustered' = {r \in unclustered \cup R :
                                    \/ uuid'[r] \in made
                                    \/ r \in phantom
                                    \/ uuid'[r] \in shun
                                    \/ r \in private}
    BY DEF GenerateClusters
  <1>1. PICK R \in SUBSET Rid :
              /\ Fresh(R)
              /\ \E ins \in [R -> made \ Known] :
                  Inserts(ins, made \ Known) /\ uuid' = WithRows(ins)
              /\ body' = [r \in Rid |-> IF r \in R THEN "full" ELSE body[r]]
              /\ clusterTag' = clusterTag \cup {r \in Rid : uuid'[r] \in made}
              /\ unclustered' = {r \in unclustered \cup R :
                                    \/ uuid'[r] \in made
                                    \/ r \in phantom
                                    \/ uuid'[r] \in shun
                                    \/ r \in private}
    BY <1>0
  <1>2. PICK ins \in [R -> made \ Known] :
          Inserts(ins, made \ Known) /\ uuid' = WithRows(ins)
    BY <1>1
  <1>3. \A r \in Rid : uuid'[r] = IF r \in R THEN ins[r] ELSE uuid[r]
    BY <1>2 DEF WithRows
  <1>4. made \subseteq MadeHere
    <2>1. ASSUME NEW a \in made PROVE a \in MadeHere
      <3>1. Cardinality(Members[a]) = ClusterMaxSize \/
            Cardinality(Members[a]) \in
              ClusterThreshold..(ClusterMaxSize + ClusterThreshold - 1)
        BY <1>0 DEF IsBatching
      <3>2. ClusterMaxSize \in
              ClusterThreshold..(ClusterMaxSize + ClusterThreshold - 1)
        OBVIOUS
      <3> QED
        BY <3>1, <3>2 DEF MadeHere
    <2> QED
      BY <2>1
  <1>5. ASSUME NEW a \in made
        PROVE  \E c \in clusterTag' \cap RealRows' : uuid'[c] = a
    <2>1. a \in Artifact /\ a # NoArtifact /\ a \notin Promised
      BY <1>4, <1>5
    <2>2. PICK c \in Rid : uuid'[c] = a
      <3>1. CASE a \in Known
        <4>1. PICK c \in Rows : uuid[c] = a
          BY <3>1 DEF Known
        <4> QED
          BY <4>1 DEF Growing, Rows
      <3>2. CASE a \notin Known
        <4>1. PICK c \in R : ins[c] = a
          BY <1>2, <1>5, <3>2 DEF Inserts
        <4> QED
          BY <1>3, <4>1
      <3> QED
        BY <3>1, <3>2
    <2>3. body'[c] \in Body /\ body'[c] # "none" /\ body'[c] # "null"
      BY <2>1, <2>2 DEF TableInv, TypeOK, RowsHaveBodies, AckedStored
    <2> QED
      BY <1>1, <1>5, <2>2, <2>3 DEF RealRows, Body
  <1>6. UNION {Members[a] : a \in made} = {uuid[r] : r \in Clusterable}
    BY <1>0 DEF IsBatching
  <1>7. ASSUME NEW r \in RealRows' PROVE Announced(r)'
    <2>1. CASE r \in R
      <3>1. uuid'[r] \in made
        BY <1>3, <2>1
      <3> QED
        BY <1>1, <2>1, <3>1 DEF Announced
    <2>2. CASE r \notin R /\ r \in unclustered
      <3>1. r \in RealRows /\ uuid'[r] = uuid[r] /\ r \in Rows
        BY <1>1, <1>3, <1>7, <2>2 DEF RealRows, Rows, TableInv, RowsHaveBodies
      <3>2. CASE r \in Clusterable
        <4>1. PICK a \in made : uuid[r] \in Members[a]
          BY <1>6, <3>2
        <4>2. PICK c \in clusterTag' \cap RealRows' : uuid'[c] = a
          BY <1>5
        <4> QED
          BY <3>1, <4>1, <4>2 DEF Announced
      <3>3. CASE r \notin Clusterable
        <4>1. r \in phantom \/ uuid'[r] \in shun \/ r \in private
          BY <2>2, <3>1, <3>3 DEF Clusterable
        <4>2. r \in unclustered'
          BY <1>1, <2>2, <4>1
        <4> QED
          BY <4>2 DEF Announced
      <3> QED
        BY <3>2, <3>3
    <2>3. CASE r \notin R /\ r \notin unclustered
      <3>1. r \in RealRows
        BY <1>1, <1>7, <2>3 DEF RealRows
      <3> QED
        BY <1>1, <2>3, <3>1, GrowingAnnounces
    <2> QED
      BY <2>1, <2>2, <2>3
  <1>8. ASSUME NEW c \in clusterTag'
        PROVE  c \in Rows' /\ Members[uuid'[c]] # {} /\ Members[uuid'[c]] \subseteq Known'
    <2>1. CASE c \in clusterTag
      BY <1>1, <2>1, GrowingAnnounces
    <2>2. CASE c \notin clusterTag
      <3>1. c \in Rid /\ uuid'[c] \in made
        BY <1>1, <1>8, <2>2
      <3>2. Members[uuid'[c]] \subseteq Known
        BY <1>6, <3>1 DEF Clusterable, Known
      <3>3. Known \subseteq Known'
        BY DEF Known, Rows, Growing
      <3> QED
        BY <3>1, <3>2, <3>3 DEF Rows
    <2> QED
      BY <2>1, <2>2
  <1> QED
    BY <1>7, <1>8 DEF AnnounceInv

LEMMA NextAnnounceInv ==
    ASSUME Shunnable = {}, MadeHere \cap Promised = {},
           TableInv, TableInv', AnnounceInv, [Next]_vars
    PROVE  AnnounceInv'
  <1>a. NothingShunned' /\ AckedStored'
    BY NextNothingShunned, NextAckedStored DEF AnnounceInv
  <1>b. ~Purge
    BY DEF Purge, DropRows, ShunnedRows, AnnounceInv, NothingShunned
  <1>c. Growing
    BY <1>b, NextGrows
  <1> DEFINE Marks == /\ unclustered \subseteq unclustered' /\ clusterTag' = clusterTag
                      /\ \A r \in RealRows' : r \in RealRows \/ r \in unclustered'
  <1>d. Marks => AnnounceInv'
    BY <1>a, <1>c, MarkedAnnounces
  <1>e. body \in [Rid -> Body]
    BY DEF TableInv, TypeOK
  <1> HIDE DEF Marks
  <1>1. ASSUME NEW a \in Artifact, Store(a) PROVE Marks
    BY <1>e, <1>1 DEF Store, InsertFull, AlreadyKnown, RealRows, Marks
  <1>2. ASSUME NEW a \in Artifact, FillPhantom(a) PROVE Marks
    BY <1>2 DEF FillPhantom, FillWith, NullRow, RealRows, Marks
  <1>3. ASSUME NEW a \in Artifact, ReceiveNew(a) PROVE AnnounceInv'
    BY <1>a, <1>c, <1>3, ReceiveAnnounces
  <1>4. ASSUME NEW a \in Artifact, ShunAdd(a) \/ ShunRemove(a) PROVE Marks
    BY <1>4 DEF ShunAdd, ShunRemove, RealRows, Marks
  <1>5. ASSUME NEW a \in Artifact, NEW q \in Rid, StoreDelta(a, q) PROVE Marks
    BY <1>e, <1>5 DEF StoreDelta, InsertDelta, AlreadyKnown, RealRows, Marks
  <1>6. ASSUME NEW a \in Wanted, StorePhantom(a) PROVE Marks
    BY <1>e, <1>6 DEF StorePhantom, RealRows, Marks
  <1>7. ASSUME NEW c \in Rid, CrosslinkCluster(c) PROVE AnnounceInv'
    BY <1>a, <1>c, <1>7, CrosslinkAnnounces
  <1>8. ASSUME NEW r \in Rid, MakePrivate(r) \/ MakePublic(r) PROVE Marks
    BY <1>8 DEF MakePrivate, MakePublic, RealRows, Marks
  <1>9. CASE GenerateClusters
    BY <1>a, <1>c, <1>9, GenerateAnnounces
  <1>10. CASE Rebuild
    <2>1. RealRows' = RealRows /\ unclustered' = RealRows /\ clusterTag' = {}
      BY <1>10 DEF Rebuild, RealRows
    <2> QED
      BY <1>a, <2>1 DEF AnnounceInv, Announced
  <1>11. CASE UNCHANGED vars
    BY <1>d, <1>11 DEF vars, RealRows, Marks
  <1> QED
    BY <1>b, <1>d, <1>1, <1>2, <1>3, <1>4, <1>5, <1>6, <1>7, <1>8, <1>9, <1>10, <1>11
       DEF Next

(* Every artifact can be announced by a push and clusters list only known   *)
(* artifacts, where nothing is shunned and no phantom waits for a cluster   *)
(* that content.GenerateClusters builds here.                               *)
THEOREM ArtifactsAnnounceable ==
    ASSUME Shunnable = {}, MadeHere \cap Promised = {}
    PROVE  Spec => []EveryArtifactAnnounceable
  <1>1. Init => AnnounceInv
    <2> SUFFICES ASSUME Init PROVE AnnounceInv
      OBVIOUS
    <2>1. NothingShunned /\ AckedStored
      BY DEF Init, NothingShunned, PhantomTableExact, AckedStored
    <2>2. RealRows \subseteq unclustered /\ clusterTag = {}
      BY DEF Init, RealRows
    <2> QED
      BY <2>1, <2>2 DEF AnnounceInv, Announced
  <1>2. TableInv /\ TableInv' /\ AnnounceInv /\ [Next]_vars => AnnounceInv'
    BY NextAnnounceInv
  <1>3. AnnounceInv => EveryArtifactAnnounceable
    BY DEF AnnounceInv, Announced, EveryArtifactAnnounceable
  <1> QED
    BY <1>1, <1>2, <1>3, TableInvariant, PTL DEF Spec
=============================================================================
