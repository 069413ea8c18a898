------------------------------- MODULE Clone -------------------------------
(***************************************************************************)
(* Cloning a hub that is being written to: the clone session                *)
(* (internal/sync/clone.go) and the part of the handler that serves it      *)
(* (emitCloneBatch, handleGimme in internal/sync/handler.go).               *)
(*                                                                         *)
(* The hub sends its rows in rid order, a batch a round.  It keeps nothing  *)
(* between rounds: the client returns the cursor, and a cookie with the     *)
(* highest rid of the hub when the clone began.                             *)
(***************************************************************************)
EXTENDS Integers, Sequences, FiniteSets, FiniteSetsExt

CONSTANTS
    Artifact,
    NoArtifact,
    Hubs,         \* the hubs of which a behaviour has one, see Hub
    MaxRounds,
    MaxFailures   \* bound: how many clones are interrupted

Hub ==
    [rows: Seq(Artifact),         \* in rid order, before the clone
     phantom: SUBSET Artifact,    \* those of its artifacts it has no content for
     private: SUBSET Artifact,    \* those it keeps private
     late: SUBSET Artifact,       \* artifacts that others may write to it meanwhile
     members: [Artifact -> SUBSET Artifact],  \* the M-cards; {} for no cluster
     source: [Artifact -> Artifact \cup {NoArtifact}],
                                  \* what a delta is made from, NoArtifact for a
                                  \* file sent in full, as this handler always does
     batch: Nat \ {0}]            \* DefaultCloneBatchSize; the simulator makes it 1

ASSUME ConstantsAssumption ==
    /\ NoArtifact \notin Artifact
    /\ \A h \in Hubs :
        /\ h \in Hub /\ h.phantom \subseteq {h.rows[i] : i \in DOMAIN h.rows}
        /\ \A i, j \in DOMAIN h.rows : h.rows[i] = h.rows[j] => i = j
    /\ MaxRounds \in Nat \ {0} /\ MaxFailures \in Nat

VARIABLES
    world,        \* the hub as it was in the beginning
    hub,          \* the hub's rows: uuid by rid
    hubPhantom,   \* the artifacts among them without content
    st,           \* where the clone is, see State
    cycle,        \* rounds begun before this one
    seqno,        \* cloneSession.seqno: the cursor; 0 when the hub has finished
    cookie,       \* the cap on rids; 0 before the first answer
    store, phantomRows,  \* the new repository: artifacts with and without content
    phantoms,     \* cloneSession.phantoms
    prevPhantomCount,
    asked,        \* the gimme cards of the request
    files,        \* file cards still to be processed, in order
    nextSeqno,    \* the clone_seqno card after them
    filesRecvd,
    failures,     \* interrupted clones so far
    snapshot      \* observer: what the hub had to offer when the cap was taken

hubVars == <<world, hub, hubPhantom>>
newRepo == <<store, phantomRows, phantoms, files, asked>>
vars == <<world, hub, hubPhantom, st, cycle, seqno, cookie, store, phantomRows, phantoms,
          prevPhantomCount, asked, files, nextSeqno, filesRecvd, failures, snapshot>>

State == {"ready", "serving", "receiving", "done", "failed", "exceeded"}
Card == [uuid: Artifact, src: Artifact \cup {NoArtifact}]

TypeOK ==
    /\ world \in Hubs /\ hub \in Seq(Artifact) /\ hubPhantom \subseteq Artifact
    /\ st \in State
    /\ cycle \in 0..MaxRounds
    /\ seqno \in Nat /\ cookie \in Nat /\ nextSeqno \in Nat
    /\ store \subseteq Artifact /\ phantomRows \subseteq Artifact \ store
    /\ phantoms \subseteq Artifact
    /\ prevPhantomCount \in Nat \cup {-1}
    /\ asked \subseteq Artifact
    /\ files \in Seq(Card)
    /\ filesRecvd \in Nat
    /\ failures \in 0..MaxFailures
    /\ snapshot \subseteq Artifact

(***************************************************************************)
(* The hub: other writers, and HandleSync on one clone request.             *)
(***************************************************************************)
Real(rid) == hub[rid] \notin hubPhantom
Offered == {hub[rid] : rid \in {r \in DOMAIN hub : Real(r)}} \ world.private

HubWrite(a) ==
    /\ a \in world.late
    /\ \A rid \in DOMAIN hub : hub[rid] # a
    /\ hub' = Append(hub, a)
    /\ UNCHANGED <<world, hubPhantom, st, cycle, seqno, cookie, store, phantomRows,
                   phantoms, prevPhantomCount, asked, files, nextSeqno, filesRecvd,
                   failures, snapshot>>

HubFill(a) ==
    /\ a \in hubPhantom
    /\ hubPhantom' = hubPhantom \ {a}
    /\ UNCHANGED <<world, hub, st, cycle, seqno, cookie, store, phantomRows, phantoms,
                   prevPhantomCount, asked, files, nextSeqno, filesRecvd, failures,
                   snapshot>>

(* MUTANT: every batch is cut off at the hub's newest row.                  *)
CapMoves == Max({0} \cup {rid \in DOMAIN hub : Real(rid)})

(* The cap is taken in the first round; a cap of 0 is taken again.          *)
Cap == IF cookie = 0 THEN Max({0} \cup {rid \in DOMAIN hub : Real(rid)}) ELSE cookie

(* MUTANT: the clone card is sent without the cursor.                       *)
CursorLost == 0

(* The first round carries no cursor.                                       *)
Cursor == IF cycle = 0 THEN 0 ELSE seqno

(* MUTANT: private rows are sent with the others.                           *)
EligibleAll == {rid \in DOMAIN hub : rid > Cursor /\ rid <= Cap /\ Real(rid)}

(* The rows emitCloneBatch may send: private ones are passed over.          *)
Eligible == {rid \in DOMAIN hub : /\ rid > Cursor /\ rid <= Cap
                                  /\ Real(rid) /\ hub[rid] \notin world.private}

RankOf(rid) == Cardinality({r \in Eligible : r <= rid})
Batch == {rid \in Eligible : RankOf(rid) <= world.batch}
More == Eligible # Batch

(* MUTANT: the cursor is the next rid to send, not the last one sent.       *)
NextCursorAfter == IF More THEN Max(Batch) + 1 ELSE 0

(* The clone_seqno card.                                                    *)
NextCursor == IF More THEN Max(Batch) ELSE 0

(* handleGimme serves what the hub has, in the order of the request: any    *)
(* order, since the client iterates over a map.  The batch follows.         *)
Gimmed == asked \cap Offered
InSomeOrder(s) ==
    {q \in [1..Cardinality(s) -> s] : \A i, j \in DOMAIN q : q[i] = q[j] => i = j}
Whole(a) == [uuid |-> a, src |-> NoArtifact]
AsSent(a) == [uuid |-> a, src |-> world.source[a]]
InRidOrder(rids) ==
    [i \in 1..Cardinality(rids) |->
        AsSent(hub[CHOOSE r \in rids : Cardinality({x \in rids : x <= r}) = i])]

Serve ==
    /\ st = "serving"
    /\ \E order \in InSomeOrder(Gimmed) :
        LET gimmed == [i \in DOMAIN order |-> Whole(order[i])] IN
        files' = IF seqno > 0 THEN gimmed \o InRidOrder(Batch) ELSE gimmed
    /\ IF seqno > 0
       THEN /\ nextSeqno' = NextCursor
            /\ cookie' = Cap
            /\ snapshot' = IF cookie = 0 THEN Offered ELSE snapshot
       ELSE nextSeqno' = 0 /\ UNCHANGED <<cookie, snapshot>>
    /\ st' = "receiving"
    /\ UNCHANGED <<hubVars, cycle, seqno, store, phantomRows, phantoms,
                   prevPhantomCount, asked, filesRecvd, failures>>

(***************************************************************************)
(* The client.                                                              *)
(***************************************************************************)
(* buildRequest: phantoms are asked for once the main transfer is over.     *)
BuildRequest ==
    /\ st = "ready"
    /\ asked' = IF seqno <= 1 THEN phantoms ELSE {}
    /\ filesRecvd' = 0
    /\ st' = "serving"
    /\ UNCHANGED <<hubVars, cycle, seqno, cookie, store, phantomRows, phantoms,
                   prevPhantomCount, files, nextSeqno, failures, snapshot>>

(* Clone removes the repository file when it returns an error.              *)
Abort(how) ==
    /\ st' = how
    /\ store' = {} /\ phantomRows' = {} /\ phantoms' = {}
    /\ files' = << >> /\ asked' = {}

(* storeReceivedFile: a new cluster leaves phantom rows for its members.    *)
Stored(a) ==
    /\ store' = store \cup {a}
    /\ phantomRows' = IF a \in store \cup phantomRows
                      THEN phantomRows \ {a}
                      ELSE phantomRows \cup (world.members[a] \ (store \cup {a}))
    /\ phantoms' = phantoms \ {a}

(* resolveFileContent.                                                      *)
Resolvable(src) == src \in store \cup {NoArtifact}

(* ErrDeltaSourceMissing.                                                   *)
SourceMissing(src) == src \notin store \cup phantomRows \cup {NoArtifact}

(* handleFile.  A delta whose source has no row leaves a phantom for the    *)
(* target; one whose source is itself a phantom cannot be expanded, and the *)
(* clone fails.                                                             *)
HandleFile ==
    /\ st = "receiving"
    /\ files # << >>
    /\ LET got == Head(files).uuid
           src == Head(files).src
       IN \/ /\ Resolvable(src)
             /\ Stored(got)
             /\ files' = Tail(files) /\ UNCHANGED <<st, asked>>
          \/ /\ SourceMissing(src)
             /\ phantomRows' = phantomRows \cup ({got} \ store)
             /\ phantoms' = phantoms \cup {got, src}
             /\ files' = Tail(files) /\ UNCHANGED <<st, asked, store>>
          \/ /\ ~Resolvable(src) /\ ~SourceMissing(src)
             /\ Abort("failed")
    /\ filesRecvd' = filesRecvd + 1
    /\ UNCHANGED <<hubVars, cycle, seqno, cookie, prevPhantomCount, nextSeqno,
                   failures, snapshot>>

(* run: the hub has finished, nothing came in this round, and nothing is    *)
(* missing or nothing is gained by asking again.                            *)
Finished ==
    LET n == Cardinality(phantoms) IN
    /\ cycle >= 1 /\ filesRecvd = 0 /\ nextSeqno = 0
    /\ n = 0 \/ n >= prevPhantomCount

EndRound ==
    /\ st = "receiving"
    /\ files = << >>
    /\ seqno' = nextSeqno
    /\ prevPhantomCount' = IF cycle >= 1 THEN Cardinality(phantoms)
                           ELSE prevPhantomCount
    /\ cycle' = cycle + 1
    /\ \/ Finished /\ st' = "done" /\ UNCHANGED newRepo
       \/ ~Finished /\ cycle + 1 < MaxRounds /\ st' = "ready" /\ UNCHANGED newRepo
       \/ ~Finished /\ cycle + 1 >= MaxRounds /\ Abort("exceeded")
    /\ UNCHANGED <<hubVars, cookie, nextSeqno, filesRecvd, failures, snapshot>>

(* A cancelled context or a failing exchange.                               *)
Interrupt ==
    /\ st \in {"ready", "serving", "receiving"}
    /\ failures < MaxFailures
    /\ failures' = failures + 1
    /\ Abort("failed")
    /\ UNCHANGED <<hubVars, cycle, seqno, cookie, prevPhantomCount, nextSeqno,
                   filesRecvd, snapshot>>

(* The caller clones again after an error.                                  *)
Restart ==
    /\ st \in {"failed", "exceeded"}
    /\ st' = "ready" /\ cycle' = 0 /\ seqno' = 1 /\ cookie' = 0
    /\ prevPhantomCount' = -1 /\ nextSeqno' = 0 /\ filesRecvd' = 0
    /\ snapshot' = {}
    /\ UNCHANGED <<hubVars, newRepo, failures>>

Init ==
    /\ world \in Hubs /\ hub = world.rows /\ hubPhantom = world.phantom
    /\ st = "ready" /\ cycle = 0 /\ seqno = 1 /\ cookie = 0
    /\ store = {} /\ phantomRows = {} /\ phantoms = {}
    /\ prevPhantomCount = -1
    /\ asked = {} /\ files = << >> /\ nextSeqno = 0 /\ filesRecvd = 0
    /\ failures = 0 /\ snapshot = {}

Step == BuildRequest \/ Serve \/ HandleFile \/ EndRound

Next ==
    \/ Step
    \/ Interrupt
    \/ Restart
    \/ \E a \in Artifact : HubWrite(a) \/ HubFill(a)

Spec == Init /\ [][Next]_vars

(* Clone runs its loop to the end unless it is interrupted; its caller      *)
(* tries again.                                                             *)
FairSpec == Spec /\ WF_vars(Step) /\ WF_vars(Restart)

(***************************************************************************)
(* Properties.                                                              *)
(***************************************************************************)
(* A clone that succeeds holds everything the hub had to offer when the     *)
(* clone began, whatever is written to the hub meanwhile and however the    *)
(* rows fall into batches (emitCloneBatch, run); nothing it has stored is   *)
(* still listed as a phantom, and all variables keep their types.           *)
CloneComplete ==
    /\ TypeOK
    /\ st = "done" => snapshot \subseteq store

(* Writers cannot keep a clone from ending: it exceeds MaxRounds only if    *)
(* what the hub held when it began, phantoms that may be filled included,   *)
(* does not fit into one batch less than that (emitCloneBatch's cap).  A    *)
(* hub that sends deltas ahead of their sources takes rounds to repeat      *)
(* them, for which these hubs leave room; this handler sends none.          *)
CloneConverges ==
    st = "exceeded" =>
        Cardinality(snapshot) + Cardinality(world.phantom) > world.batch * (MaxRounds - 1)

(* A private artifact of the hub is never cloned (emitCloneBatch,           *)
(* handleGimme).                                                            *)
PrivateNotCloned == store \cap world.private = {}

Offers(a) == /\ \E rid \in DOMAIN world.rows : world.rows[rid] = a
             /\ a \notin world.phantom \cup world.private
SourcesOffered == \A a \in Artifact : world.source[a] # NoArtifact => Offers(world.source[a])

(* If every delta is made from an artifact that the hub had to offer in the *)
(* beginning, interrupted clones are followed by one that succeeds: files   *)
(* that arrive before the source of their delta are asked for again, and    *)
(* the cursor moves past every batch (handleFile, buildRequest).            *)
EventuallyCloned == SourcesOffered => <>(st = "done")
=============================================================================
