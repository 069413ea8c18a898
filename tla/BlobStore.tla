----------------------------- MODULE BlobStore -----------------------------
(***************************************************************************)
(* The artifact tables of one repository at the level of rids: blob, delta, *)
(* phantom, unclustered, private, shun and the cluster rows of tagxref,     *)
(* with every operation of internal/blob, internal/content, internal/shun   *)
(* and the sync and verify packages that writes them.                       *)
(*                                                                         *)
(* blob.rid is an INTEGER PRIMARY KEY without AUTOINCREMENT, so SQLite      *)
(* hands a new row the rid after the highest one in use: once the top row   *)
(* is purged its rid is used again, while other tables may still name it.   *)
(***************************************************************************)
EXTENDS Integers, FiniteSets

CONSTANTS
    Artifact,          \* artifacts, named by their hash (uuid)
    NoArtifact,        \* what a rid without a row holds
    Members,           \* Members[a]: the M-cards of a; {} when a is no cluster
    MaxRid,            \* bound: rids are 1..MaxRid
    ClusterThreshold,  \* content.ClusterThreshold
    ClusterMaxSize,    \* content.ClusterMaxSize
    Wanted,            \* artifacts callers may ask StorePhantom for
    Shunnable,         \* artifacts the administrator may shun
    Privatable,        \* artifacts that may be marked private
    DeltaSources,      \* how the rows StoreDelta's callers name may be stored
    ImportUuid,        \* rows of the repository file that is opened,
    ImportSrc          \* and the source rid of each (0: stored in full)

Rid == 1..MaxRid

ASSUME ConstantsAssumption ==
    /\ NoArtifact \notin Artifact
    /\ MaxRid \in Nat \ {0}
    /\ Members \in [Artifact -> SUBSET Artifact]
    /\ \A a \in Artifact : a \notin Members[a]
    /\ ClusterThreshold \in Nat \ {0}
    /\ ClusterMaxSize \in Nat \ {0}
    /\ ClusterThreshold <= ClusterMaxSize
    /\ Wanted \subseteq Artifact
    /\ Shunnable \subseteq Artifact
    /\ Privatable \subseteq Artifact
    /\ DeltaSources \subseteq {"full", "delta", "misbased"}

ASSUME ImportAssumption ==
    /\ DOMAIN ImportUuid \subseteq Rid
    /\ ImportUuid \in [DOMAIN ImportUuid -> Artifact]
    /\ \A r, q \in DOMAIN ImportUuid : ImportUuid[r] = ImportUuid[q] => r = q
    /\ ImportSrc \in [DOMAIN ImportUuid -> {0} \cup DOMAIN ImportUuid]

(* In a file Fossil wrote every delta chain ends in full text: whatever     *)
(* holds the full rows and, with a row, the deltas made from it, holds all. *)
ASSUME ImportChainsAssumption ==
    \A S \in SUBSET DOMAIN ImportUuid :
        (\A r \in DOMAIN ImportUuid :
            ImportSrc[r] = 0 \/ ImportSrc[r] \in S => r \in S)
        => S = DOMAIN ImportUuid

VARIABLES
    uuid,         \* blob.uuid by rid; NoArtifact where there is no row
    body,         \* blob.content by rid, see Body
    srcid,        \* delta.srcid by rid; 0 where there is no delta row
    phantom,      \* rids in the phantom table
    unclustered,  \* rids in the unclustered table
    private,      \* rids in the private table
    clusterTag,   \* rids with a tagxref row of tagid 7
    shun,         \* artifacts in the shun table
    base,         \* observer: the artifact whose bytes a delta was made from
    hidden,       \* observer: the artifacts callers last asked to keep private
    acked         \* observer: artifacts whose content a caller handed over and
                  \* was told is stored, until they are purged

vars == <<uuid, body, srcid, phantom, unclustered, private, clusterTag, shun,
          base, hidden, acked>>

(***************************************************************************)
(* "null" is a phantom row (size -1), "delta" a delta made from its         *)
(* source's expanded bytes, "misbased" a delta made from the raw delta      *)
(* bytes of its source, which expansion cannot rebuild.                     *)
(***************************************************************************)
Body == {"none", "null", "full", "delta", "misbased"}

Rows == {r \in Rid : uuid[r] # NoArtifact}
RealRows == {r \in Rid : body[r] \in {"full", "delta", "misbased"}}
Known == {uuid[r] : r \in Rows}

(* Mutants of Dependents: none found, or only those stored after their source. *)
DependentsMissed(S) == {}
DependentsNewerOnly(S) == {r \in Rid : srcid[r] \in S /\ r > srcid[r]}

Dependents(S) == {r \in Rid : srcid[r] \in S}
ShunnedRows == {r \in Rows : uuid[r] \in shun}

(* content.Expand: the rows whose delta chain ends in full text, that is    *)
(* the smallest set that has every full row and the deltas made from its    *)
(* rows.  A cycle never enters it, as walkDeltaChain reports it.            *)
ChainClosed(S) ==
    \A r \in Rid :
        body[r] = "full" \/ (body[r] = "delta" /\ srcid[r] \in S) => r \in S

Expandable == {r \in Rid : \A S \in SUBSET Rid : ChainClosed(S) => r \in S}

Readable == {uuid[r] : r \in Expandable}

(* The rids SQLite gives the next rows: directly above every row in use.    *)
Fresh(R) ==
    /\ R \cap Rows = {}
    /\ \A r \in R : /\ \A q \in Rows : q < r
                    /\ r = 1 \/ r - 1 \in Rows \cup R

(* The rows ins adds, one per artifact of S.                                *)
Inserts(ins, S) ==
    /\ \A r, q \in DOMAIN ins : ins[r] = ins[q] => r = q
    /\ {ins[r] : r \in DOMAIN ins} = S

WithRows(ins) ==
    [r \in Rid |-> IF r \in DOMAIN ins THEN ins[r] ELSE uuid[r]]

(***************************************************************************)
(* TypeOK and Init.                                                         *)
(***************************************************************************)
TypeOK ==
    /\ uuid \in [Rid -> Artifact \cup {NoArtifact}]
    /\ body \in [Rid -> Body]
    /\ srcid \in [Rid -> {0} \cup Rid]
    /\ phantom \subseteq Rid
    /\ unclustered \subseteq Rid
    /\ private \subseteq Rid
    /\ clusterTag \subseteq Rid
    /\ shun \subseteq Artifact
    /\ base \in [Rid -> Artifact \cup {NoArtifact}]
    /\ hidden \subseteq Artifact
    /\ acked \subseteq Artifact

(* An opened repository file: empty, or written earlier by Fossil itself,   *)
(* whose delta chains run in either rid direction.                          *)
Init ==
    /\ uuid = [r \in Rid |-> IF r \in DOMAIN ImportUuid
                             THEN ImportUuid[r] ELSE NoArtifact]
    /\ srcid = [r \in Rid |-> IF r \in DOMAIN ImportUuid THEN ImportSrc[r] ELSE 0]
    /\ body = [r \in Rid |-> IF r \notin DOMAIN ImportUuid THEN "none"
                             ELSE IF ImportSrc[r] = 0 THEN "full" ELSE "delta"]
    /\ base = [r \in Rid |-> IF srcid[r] = 0 THEN NoArtifact ELSE uuid[srcid[r]]]
    /\ unclustered = DOMAIN ImportUuid
    /\ phantom = {} /\ private = {} /\ clusterTag = {}
    /\ shun = {} /\ hidden = {} /\ acked = {}

(***************************************************************************)
(* blob.Store.  An existing row ends the call, a phantom row included: the  *)
(* caller gets its rid and the content is dropped.                          *)
(***************************************************************************)
(* Mutant: the rid of the new row is used before it is known.               *)
InsertFullRidZero(a) ==
    /\ a \notin Known
    /\ \E r \in Rid :
        /\ Fresh({r})
        /\ uuid' = [uuid EXCEPT ![r] = a]
        /\ body' = [body EXCEPT ![r] = "full"]
        /\ unclustered' = unclustered \cup {0}

InsertFull(a) ==
    /\ a \notin Known
    /\ \E r \in Rid :
        /\ Fresh({r})
        /\ uuid' = [uuid EXCEPT ![r] = a]
        /\ body' = [body EXCEPT ![r] = "full"]
        /\ unclustered' = unclustered \cup {r}

AlreadyKnown(a) == a \in Known /\ UNCHANGED <<uuid, body, unclustered>>

Store(a) ==
    /\ InsertFull(a) \/ AlreadyKnown(a)
    /\ acked' = acked \cup {a}
    /\ UNCHANGED <<srcid, phantom, private, clusterTag, shun, base, hidden>>

(***************************************************************************)
(* blob.StoreDelta against row q.  blob.Load returns q's stored bytes, so a *)
(* delta onto a delta-stored row is made from delta bytes.  It still        *)
(* expands when it copies nothing from its source.                          *)
(***************************************************************************)
InsertDelta(a, q) ==
    /\ a \notin Known
    /\ q \in RealRows
    /\ \E r \in Rid, form \in {"delta", "misbased"} :
        /\ Fresh({r})
        /\ form = "misbased" => body[q] # "full"
        /\ uuid' = [uuid EXCEPT ![r] = a]
        /\ body' = [body EXCEPT ![r] = form]
        /\ srcid' = [srcid EXCEPT ![r] = q]
        /\ base' = [base EXCEPT ![r] = uuid[q]]
        /\ unclustered' = unclustered \cup {r}

StoreDelta(a, q) ==
    /\ body[q] \in DeltaSources
    /\ \/ InsertDelta(a, q)
       \/ AlreadyKnown(a) /\ UNCHANGED <<srcid, base>>
    /\ acked' = acked \cup {a}
    /\ UNCHANGED <<phantom, private, clusterTag, shun, hidden>>

(* blob.StorePhantom.  If the phantom table still names the reused rid the  *)
(* second INSERT fails, and the row and the old entry are both there.       *)
StorePhantom(a) ==
    /\ a \notin Known
    /\ \E r \in Rid :
        /\ Fresh({r})
        /\ uuid' = [uuid EXCEPT ![r] = a]
        /\ body' = [body EXCEPT ![r] = "null"]
        /\ phantom' = phantom \cup {r}
    /\ UNCHANGED <<srcid, unclustered, private, clusterTag, shun, base, hidden, acked>>

(***************************************************************************)
(* storeReceivedFile, content hash already checked.                         *)
(***************************************************************************)
NullRow(a) == {r \in Rid : uuid[r] = a /\ body[r] = "null"}

FillWith(a, freed, marked) ==
    /\ NullRow(a) # {}
    /\ body' = [r \in Rid |-> IF r \in NullRow(a) THEN "full" ELSE body[r]]
    /\ phantom' = phantom \ freed
    /\ unclustered' = unclustered \cup marked
    /\ acked' = acked \cup {a}
    /\ UNCHANGED <<uuid, srcid, private, clusterTag, shun, base, hidden>>

(* Mutants: the phantom entry stays, or the row is not marked unclustered.  *)
FillPhantomKeepsEntry(a) == FillWith(a, {}, NullRow(a))
FillPhantomUnmarked(a) == FillWith(a, NullRow(a), {})

FillPhantom(a) == FillWith(a, NullRow(a), NullRow(a))

(* A new row; a cluster is crosslinked in the same transaction, which is    *)
(* rolled back when one of its phantoms cannot be inserted.                 *)
ReceiveWith(a, missing) ==
    /\ a \notin Known
    /\ \E R \in SUBSET Rid :
        /\ Fresh(R)
        /\ \E ins \in [R -> {a} \cup missing] :
            /\ Inserts(ins, {a} \cup missing)
            /\ \A r, q \in R : ins[r] = a => r <= q
            /\ \A r \in R : ins[r] # a => r \notin phantom
            /\ uuid' = WithRows(ins)
            /\ body' = [r \in Rid |-> IF r \notin R THEN body[r]
                                      ELSE IF ins[r] = a THEN "full" ELSE "null"]
            /\ phantom' = phantom \cup {r \in R : ins[r] # a}
            /\ unclustered' = (unclustered \cup {r \in R : ins[r] = a})
                                \ {r \in Rows : uuid[r] \in Members[a]}
            /\ clusterTag' = clusterTag \cup
                                {r \in R : ins[r] = a /\ Members[a] # {}}
    /\ acked' = acked \cup {a}
    /\ UNCHANGED <<srcid, private, shun, base, hidden>>

ReceiveNew(a) == ReceiveWith(a, Members[a] \ Known)

(***************************************************************************)
(* manifest.CrosslinkCluster from the Crosslink sweep, for a cluster that   *)
(* arrived without being crosslinked (as a filled phantom, or before a      *)
(* rebuild).  The sweep runs outside a transaction: if a phantom row cannot *)
(* be inserted it stops there, with the tag and the members before it done. *)
(***************************************************************************)
CrosslinkCluster(c) ==
    /\ c \in RealRows \ clusterTag
    /\ c \in Expandable
    /\ Members[uuid[c]] # {}
    /\ \E done \in SUBSET Members[uuid[c]], R \in SUBSET Rid :
        /\ Fresh(R)
        /\ \/ done = Members[uuid[c]] /\ R \cap phantom = {}
           \/ \E clash \in R \cap phantom :
                R \cap phantom = {clash} /\ \A r \in R : r <= clash
        /\ \E ins \in [R -> done \ Known] :
            /\ Inserts(ins, done \ Known)
            /\ uuid' = WithRows(ins)
        /\ body' = [r \in Rid |-> IF r \in R THEN "null" ELSE body[r]]
        /\ phantom' = phantom \cup R
        /\ unclustered' = unclustered \ {r \in Rows : uuid[r] \in done}
    /\ clusterTag' = clusterTag \cup {c}
    /\ UNCHANGED <<srcid, private, shun, base, hidden, acked>>

(***************************************************************************)
(* content.GenerateClusters.                                                *)
(***************************************************************************)
Clusterable ==
    {r \in unclustered \cap Rows :
        r \notin phantom /\ uuid[r] \notin shun /\ r \notin private}

(* buildClusters' batches, in any hash order: all have ClusterMaxSize       *)
(* members except the last, which also takes a remainder that is too small. *)
IsBatching(batches, S) ==
    /\ UNION batches = S
    /\ \A b, c \in batches : b # c => b \cap c = {}
    /\ \E last \in batches :
        /\ Cardinality(last) \in
             ClusterThreshold..(ClusterMaxSize + ClusterThreshold - 1)
        /\ \A b \in batches \ {last} : Cardinality(b) = ClusterMaxSize

GenerateClusters ==
    /\ Cardinality(Clusterable) >= ClusterThreshold
    /\ \E made \in SUBSET {a \in Artifact : Members[a] # {}} :
        /\ IsBatching({Members[a] : a \in made}, {uuid[r] : r \in Clusterable})
        /\ \A a, b \in made : Members[a] = Members[b] => a = b
        /\ \E R \in SUBSET Rid :
            /\ Fresh(R)
            /\ \E ins \in [R -> made \ Known] :
                /\ Inserts(ins, made \ Known)
                /\ uuid' = WithRows(ins)
            /\ body' = [r \in Rid |-> IF r \in R THEN "full" ELSE body[r]]
            /\ clusterTag' = clusterTag \cup {r \in Rid : uuid'[r] \in made}
            /\ unclustered' =
                 {r \in unclustered \cup R :
                    \/ uuid'[r] \in made
                    \/ r \in phantom
                    \/ uuid'[r] \in shun
                    \/ r \in private}
    /\ UNCHANGED <<srcid, phantom, private, shun, base, hidden, acked>>

(* content.MakePrivate and content.MakePublic.                              *)
MakePrivate(r) ==
    /\ r \in Rows \ private
    /\ uuid[r] \in Privatable
    /\ private' = private \cup {r}
    /\ hidden' = hidden \cup {uuid[r]}
    /\ UNCHANGED <<uuid, body, srcid, phantom, unclustered, clusterTag, shun, base, acked>>

MakePublic(r) ==
    /\ r \in Rows \cap private
    /\ private' = private \ {r}
    /\ hidden' = hidden \ {uuid[r]}
    /\ UNCHANGED <<uuid, body, srcid, phantom, unclustered, clusterTag, shun, base, acked>>

(* shun.Add and shun.Remove.                                                *)
ShunAdd(a) ==
    /\ a \in Shunnable \ shun
    /\ shun' = shun \cup {a}
    /\ UNCHANGED <<uuid, body, srcid, phantom, unclustered, private, clusterTag,
                   base, hidden, acked>>

ShunRemove(a) ==
    /\ a \in shun
    /\ shun' = shun \ {a}
    /\ UNCHANGED <<uuid, body, srcid, phantom, unclustered, private, clusterTag,
                   base, hidden, acked>>

(***************************************************************************)
(* shun.Purge, one transaction: rows that are deltas of a shunned row are   *)
(* rewritten in full, then the shunned rows go; of the tables that may      *)
(* name a deleted rid only delta and private are cleaned.  The transaction  *)
(* is rolled back if a dependent cannot be expanded.                        *)
(***************************************************************************)
DropRows(gone, rewritten) ==
    /\ gone # {}
    /\ rewritten \subseteq Expandable
    /\ uuid' = [r \in Rid |-> IF r \in gone THEN NoArtifact ELSE uuid[r]]
    /\ body' = [r \in Rid |-> IF r \in gone THEN "none"
                             ELSE IF r \in rewritten THEN "full" ELSE body[r]]
    /\ srcid' = [r \in Rid |-> IF r \in gone \cup rewritten THEN 0 ELSE srcid[r]]
    /\ base' = [r \in Rid |->
                    IF r \in gone \cup rewritten THEN NoArtifact ELSE base[r]]
    /\ hidden' = hidden \ shun
    /\ acked' = acked \ shun
    /\ UNCHANGED <<phantom, unclustered, clusterTag, shun>>

(* Mutants: dependents are deleted too, are left as they are, or the        *)
(* private table is not cleaned.                                            *)
PurgeCascades ==
    /\ DropRows(ShunnedRows \cup Dependents(ShunnedRows), {})
    /\ private' = private \ (ShunnedRows \cup Dependents(ShunnedRows))
PurgeLeavesDependents ==
    /\ DropRows(ShunnedRows, {})
    /\ private' = private \ ShunnedRows
PurgeKeepsPrivate ==
    /\ DropRows(ShunnedRows, Dependents(ShunnedRows))
    /\ private' = private

Purge ==
    /\ DropRows(ShunnedRows, Dependents(ShunnedRows))
    /\ private' = private \ ShunnedRows

(* verify.Rebuild on these tables: rebuildBookkeeping marks every row with  *)
(* content as unclustered and the cluster tags are dropped.                 *)
Rebuild ==
    /\ unclustered' = RealRows
    /\ clusterTag' = {}
    /\ UNCHANGED <<uuid, body, srcid, phantom, private, shun, base, hidden, acked>>

Next ==
    \/ \E a \in Artifact : \/ Store(a)
                           \/ FillPhantom(a)
                           \/ ReceiveNew(a)
                           \/ ShunAdd(a)
                           \/ ShunRemove(a)
    \/ \E a \in Artifact, q \in Rid : StoreDelta(a, q)
    \/ \E a \in Wanted : StorePhantom(a)
    \/ \E r \in Rid : \/ CrosslinkCluster(r)
                      \/ MakePrivate(r)
                      \/ MakePublic(r)
    \/ GenerateClusters
    \/ Purge
    \/ Rebuild

Spec == Init /\ [][Next]_vars

-----------------------------------------------------------------------------
(***************************************************************************)
(* Properties.                                                              *)
(***************************************************************************)

(* dst.CheckBlobIntegrity and verify.checkBlobs: every row that claims to   *)
(* hold content expands to it.  Purging shunned rows under their dependents *)
(* (shun.Purge step 2) and rid reuse are what can break it.                 *)
BlobIntegrity == RealRows \subseteq Expandable

(* A delta row's source still holds the artifact the delta was made from.   *)
(* Were a dependent left behind by shun.Purge, the next blob.Store would    *)
(* reuse the rid and the delta would be applied to unrelated content.       *)
DeltaBaseIntact ==
    \A r \in Rid : srcid[r] # 0 =>
        /\ r \in RealRows
        /\ srcid[r] \in RealRows
        /\ uuid[srcid[r]] = base[r]

(* The private table names exactly the artifacts callers asked to keep      *)
(* private: no artifact inherits privacy through a rid that shun.Purge      *)
(* freed, and none becomes public without content.MakePublic.               *)
PrivacyFollowsArtifact ==
    /\ private \subseteq Rows
    /\ {uuid[r] : r \in private} = hidden

(* Content a caller handed to blob.Store, blob.StoreDelta or                *)
(* storeReceivedFile and was told is stored can be read back until it is    *)
(* purged, whatever else happens to the rows it is encoded against.         *)
AckedIsReadable == acked \subseteq Readable

(* The phantom table lists exactly the rows without content, across         *)
(* StorePhantom, the filling of phantoms and cluster crosslinking.          *)
PhantomTableExact == phantom = {r \in Rid : body[r] = "null"}

(* Every public artifact that is not shunned can be announced by a push:    *)
(* its row is in unclustered or a crosslinked cluster with content lists    *)
(* it, and nothing a crosslinked cluster lists is unknown to the            *)
(* repository.  GenerateClusters, CrosslinkCluster, Rebuild and the filling *)
(* of phantoms all edit unclustered and the cluster tags.                   *)
EveryArtifactAnnounceable ==
    /\ \A r \in RealRows :
        \/ r \in unclustered \/ r \in private \/ uuid[r] \in shun
        \/ \E c \in clusterTag \cap RealRows : uuid[r] \in Members[uuid[c]]
    /\ \A c \in clusterTag : /\ c \in Rows
                             /\ Members[uuid[c]] # {}
                             /\ Members[uuid[c]] \subseteq Known

Abstract == INSTANCE ArtifactStore
                WITH readable <- Readable, named <- Known \ Readable,
                     banned <- shun

(* Every operation of the blob, content and shun packages either moves      *)
(* artifacts towards readable, edits the shun list, or purges exactly the   *)
(* shunned artifacts.                                                       *)
ImplementsArtifactStore == Abstract!Spec
=============================================================================
