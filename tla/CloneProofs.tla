---------------------------- MODULE CloneProofs ----------------------------
(***************************************************************************)
(* A clone that succeeds is complete and holds nothing private, and one     *)
(* that runs out of rounds had too many rows to send, for every hub, every  *)
(* batch size, every writer at the hub and every interruption.              *)
(***************************************************************************)
EXTENDS Clone, FiniteSetTheorems, TLAPS

Running == {"ready", "serving", "receiving"}

(* The artifacts of the rows a batch behind cursor c may still send; c = 0  *)
(* means that the hub has finished.                                         *)
MayFollow(rid, c) ==
    /\ rid > c /\ rid <= cookie
    /\ Real(rid) /\ hub[rid] \notin world.private
Ahead(c) == IF c = 0 THEN {} ELSE {hub[rid] : rid \in {r \in DOMAIN hub : MayFollow(r, c)}}
Uuids(q) == {q[i].uuid : i \in DOMAIN q}
InFiles == Uuids(files)

(* Which variables are at rest in which state.                              *)
Stages ==
    /\ st \in Running => cycle < MaxRounds
    /\ st # "receiving" => files = << >>
    /\ st = "serving" => filesRecvd = 0 /\ asked = IF seqno <= 1 THEN phantoms ELSE {}
    /\ IsFiniteSet(phantoms)
    /\ IsFiniteSet(asked)

(* The cap is taken with the snapshot, and a cursor is only handed out      *)
(* while rows remain behind it.                                             *)
CursorLive ==
    /\ cookie = 0 => snapshot = {}
    /\ snapshot \subseteq Offered
    /\ st \in {"ready", "serving"} =>
        /\ cycle = 0 => seqno = 1
        /\ cycle > 0 /\ seqno # 0 => Ahead(seqno) # {}
    /\ st = "receiving" /\ nextSeqno # 0 => Ahead(nextSeqno) # {}

(* Nothing of the snapshot is lost: it is stored, noted as missing, in the  *)
(* answer being processed or still ahead of the cursor.                     *)
Accounted ==
    /\ st \in {"ready", "serving"} => snapshot \subseteq store \cup phantoms \cup Ahead(seqno)
    /\ st = "receiving" =>
        /\ snapshot \subseteq store \cup phantoms \cup InFiles \cup Ahead(nextSeqno)
        /\ filesRecvd = 0 /\ files = << >> => phantoms \cap snapshot = {}
    /\ st = "done" => snapshot \subseteq store

CloneInv == TypeOK /\ Stages /\ CursorLive /\ Accounted

(* No file card is about a private artifact.                                *)
NothingPrivate == PrivateNotCloned /\ InFiles \cap world.private = {}

-----------------------------------------------------------------------------
(* Numbers: least elements and maxima.                                      *)
LessThan == {p \in Nat \X Nat : p[1] < p[2]}

LEMMA LeastElement ==
    ASSUME NEW T \in SUBSET Nat, T # {}
    PROVE  \E x \in T : \A y \in T : x <= y
  <1>1. IsWellFoundedOn(OpToRel(<, Nat), Nat)
    BY NatLessThanWellFounded
  <1>2. OpToRel(<, Nat) = LessThan
    BY DEF OpToRel, LessThan
  <1>3. IsWellFoundedOn(LessThan, Nat)
    BY <1>1, <1>2
  <1>4. PICK x \in T : \A y \in T : ~ (<<y, x>> \in LessThan)
    BY <1>3, WFMin
  <1>5. ASSUME NEW y \in T PROVE x <= y
    <2>1. ~ (<<y, x>> \in LessThan) BY <1>4
    <2>2. ~ (y < x) BY <2>1 DEF LessThan
    <2> QED BY <2>2
  <1> QED BY <1>5

LEMMA MaxElement ==
    ASSUME NEW n \in Nat, NEW S \in SUBSET (0..n), S # {}
    PROVE  Max(S) \in S /\ \A y \in S : Max(S) >= y
  <1> DEFINE bounds == {m \in Nat : \A y \in S : y <= m}
  <1>1. bounds \in SUBSET Nat /\ n \in bounds
    OBVIOUS
  <1>2. PICK m \in bounds : \A k \in bounds : m <= k
    <2> HIDE DEF bounds
    <2> QED BY <1>1, LeastElement
  <1>3. m \in S
    <2> SUFFICES ASSUME m \notin S PROVE FALSE
      OBVIOUS
    <2>1. \A y \in S : y < m
      OBVIOUS
    <2>2. m - 1 \in Nat /\ \A y \in S : y \in Nat
      <3>1. PICK y \in S : TRUE
        OBVIOUS
      <3>2. y \in Nat /\ m \in Nat /\ y < m
        BY <2>1
      <3> QED BY <3>2
    <2>3. \A y \in S : y <= m - 1
      BY <2>1, <2>2
    <2>4. m - 1 \in bounds
      BY <2>2, <2>3
    <2> QED BY <1>2, <2>2, <2>4
  <1>4. \A y \in S : m >= y
    OBVIOUS
  <1> HIDE DEF bounds
  <1>5. \E x \in S : \A y \in S : x >= y
    BY <1>3, <1>4
  <1> QED BY <1>5 DEF Max

(* The rank of a number in a set of numbers, as RankOf and InRidOrder count *)
(* it.                                                                      *)
Rank(S, r) == Cardinality({x \in S : x <= r})

LEMMA RankBounds ==
    ASSUME NEW S \in SUBSET Nat, IsFiniteSet(S), NEW r \in S
    PROVE  Rank(S, r) \in 1..Cardinality(S)
  <1> DEFINE below == {x \in S : x <= r}
  <1>1. below \in SUBSET S /\ r \in below
    OBVIOUS
  <1> HIDE DEF below
  <1>2. /\ IsFiniteSet(below) /\ Cardinality(below) \in Nat
        /\ Cardinality(below) <= Cardinality(S) /\ Cardinality(S) \in Nat
    BY <1>1, FS_Subset, FS_CardinalityType
  <1>3. Cardinality(below) # 0
    BY <1>1, <1>2, FS_EmptySet
  <1> QED BY <1>2, <1>3 DEF Rank, below

LEMMA RankMonotone ==
    ASSUME NEW S \in SUBSET Nat, IsFiniteSet(S), NEW r \in S, NEW q \in S, r < q
    PROVE  Rank(S, r) < Rank(S, q)
  <1> DEFINE small == {x \in S : x <= r}
             large == {x \in S : x <= q}
  <1>1. large \in SUBSET S /\ small \in SUBSET large /\ small # large
    <2>1. q \in large /\ q \notin small
      OBVIOUS
    <2>2. ASSUME NEW x \in small PROVE x \in large
      <3>1. x \in Nat /\ r \in Nat /\ q \in Nat /\ x <= r
        OBVIOUS
      <3> QED BY <3>1
    <2> QED BY <2>1, <2>2
  <1> HIDE DEF small, large
  <1>2. IsFiniteSet(large) /\ IsFiniteSet(small)
    BY <1>1, FS_Subset
  <1>3. Cardinality(small) \in Nat /\ Cardinality(large) \in Nat
    BY <1>2, FS_CardinalityType
  <1>4. Cardinality(small) <= Cardinality(large) /\ Cardinality(small) # Cardinality(large)
    BY <1>1, <1>2, FS_Subset
  <1> QED BY <1>3, <1>4 DEF Rank, small, large

LEMMA RankInjective ==
    ASSUME NEW S \in SUBSET Nat, IsFiniteSet(S), NEW r \in S, NEW q \in S,
           Rank(S, r) = Rank(S, q)
    PROVE  r = q
  <1>1. Rank(S, r) \in Int /\ Rank(S, q) \in Int
    BY RankBounds
  <1>2. ~ (r < q)
    BY <1>1, RankMonotone
  <1>3. ~ (q < r)
    BY <1>1, RankMonotone
  <1> QED BY <1>2, <1>3

(* Every rank up to the size of the set is taken.                           *)
LEMMA RankOnto ==
    ASSUME NEW S \in SUBSET Nat, IsFiniteSet(S), NEW i \in 1..Cardinality(S)
    PROVE  \E r \in S : Rank(S, r) = i
  <1> DEFINE f == [r \in S |-> Rank(S, r)]
             ranks == 1..Cardinality(S)
  <1>1. Cardinality(S) \in Nat
    BY FS_CardinalityType
  <1>2. IsFiniteSet(ranks) /\ Cardinality(ranks) = Cardinality(S)
    BY <1>1, FS_Interval
  <1>3. f \in [S -> ranks]
    BY RankBounds
  <1>4. \A r, q \in S : f[r] = f[q] => r = q
    BY RankInjective
  <1> HIDE DEF ranks
  <1>5. f \in Injection(S, ranks)
    <2> HIDE DEF f
    <2> QED BY <1>3, <1>4 DEF Injection, IsInjective
  <1>6. f \in Surjection(S, ranks)
    <2> HIDE DEF f
    <2> QED BY <1>2, <1>5, FS_Injection
  <1>7. \E r \in S : f[r] = i
    <2> HIDE DEF f
    <2> QED BY <1>6 DEF Surjection, ranks
  <1> QED BY <1>7

-----------------------------------------------------------------------------
(* The hub's rows and the batch it sends.                                   *)
LEMMA HubFacts ==
    ASSUME TypeOK
    PROVE  /\ Len(hub) \in Nat /\ DOMAIN hub = 1..Len(hub)
           /\ \A r \in DOMAIN hub : r \in Nat \ {0} /\ hub[r] \in Artifact
           /\ world \in Hub
           /\ IsFiniteSet(DOMAIN hub)
  <1>1. Len(hub) \in Nat /\ DOMAIN hub = 1..Len(hub)
    BY DEF TypeOK
  <1>2. IsFiniteSet(1..Len(hub))
    BY <1>1, FS_Interval
  <1>3. \A r \in DOMAIN hub : r \in Nat \ {0} /\ hub[r] \in Artifact
    BY <1>1 DEF TypeOK
  <1>4. world \in Hub
    BY ConstantsAssumption DEF TypeOK
  <1> QED BY <1>1, <1>2, <1>3, <1>4

LEMMA CapFacts ==
    ASSUME TypeOK
    PROVE  /\ Cap \in Nat
           /\ cookie # 0 => Cap = cookie
           /\ cookie = 0 => \A r \in DOMAIN hub : Real(r) => r <= Cap
  <1>1. CASE cookie # 0
    BY <1>1 DEF Cap, TypeOK
  <1>2. CASE cookie = 0
    <2> DEFINE rids == {0} \cup {rid \in DOMAIN hub : Real(rid)}
    <2>1. rids \in SUBSET (0..Len(hub)) /\ rids # {}
      BY HubFacts
    <2>2. Cap = Max(rids)
      BY <1>2 DEF Cap
    <2>3. \A r \in DOMAIN hub : Real(r) => r \in rids
      OBVIOUS
    <2> HIDE DEF rids
    <2>4. Len(hub) \in Nat
      BY HubFacts
    <2>5. Max(rids) \in rids /\ \A y \in rids : Max(rids) >= y
      BY <2>1, <2>4, MaxElement
    <2>6. Cap \in Nat
      <3>1. Max(rids) \in 0..Len(hub) BY <2>1, <2>5
      <3> QED BY <2>2, <2>4, <3>1
    <2>7. ASSUME NEW r \in DOMAIN hub, Real(r) PROVE r <= Cap
      <3>1. r \in rids BY <2>3, <2>7
      <3>2. Cap >= r BY <2>2, <2>5, <3>1
      <3>3. r \in Nat BY HubFacts
      <3> QED BY <2>6, <3>2, <3>3
    <2> QED BY <1>2, <2>6, <2>7
  <1> QED BY <1>1, <1>2

LEMMA EligibleFacts ==
    ASSUME TypeOK
    PROVE  /\ Eligible \subseteq DOMAIN hub
           /\ Eligible \in SUBSET Nat /\ IsFiniteSet(Eligible)
           /\ Batch \subseteq Eligible
           /\ Batch \in SUBSET Nat /\ IsFiniteSet(Batch)
  <1>1. Eligible \subseteq DOMAIN hub /\ Batch \subseteq Eligible
    BY DEF Eligible, Batch
  <1>2. Eligible \in SUBSET Nat /\ Batch \in SUBSET Nat
    BY <1>1, HubFacts
  <1>3. IsFiniteSet(Eligible)
    BY <1>1, HubFacts, FS_Subset
  <1>4. IsFiniteSet(Batch)
    BY <1>1, <1>3, FS_Subset
  <1> QED BY <1>1, <1>2, <1>3, <1>4

(* A batch holds the first of the eligible rows, and at least one.          *)
LEMMA BatchFacts ==
    ASSUME TypeOK
    PROVE  /\ Eligible # {} => Batch # {}
           /\ \A r \in Eligible \ Batch, q \in Batch : q < r
  <1>0. world.batch \in Nat \ {0}
    BY HubFacts DEF Hub
  <1>1. \A r : RankOf(r) = Rank(Eligible, r)
    BY DEF RankOf, Rank
  <1>2. ASSUME Eligible # {} PROVE Batch # {}
    <2>1. PICK m \in Eligible : \A y \in Eligible : m <= y
      <3>1. Eligible \in SUBSET Nat BY EligibleFacts
      <3> QED BY <1>2, <3>1, LeastElement
    <2>2. m \in Nat /\ Eligible \in SUBSET Nat
      BY EligibleFacts
    <2>3. {x \in Eligible : x <= m} = {m}
      <3>1. ASSUME NEW x \in Eligible, x <= m PROVE x = m
        <4>1. x \in Nat /\ m <= x BY <2>1, <2>2
        <4> QED BY <2>2, <3>1, <4>1
      <3>2. m <= m BY <2>2
      <3> QED BY <3>1, <3>2
    <2>4. Rank(Eligible, m) = 1
      BY <2>3, FS_Singleton DEF Rank
    <2>5. m \in Batch
      BY <1>0, <1>1, <2>4 DEF Batch
    <2> QED BY <2>5
  <1>3. ASSUME NEW r \in Eligible \ Batch, NEW q \in Batch PROVE q < r
    <2>1. r \in Nat /\ q \in Nat /\ q \in Eligible /\ r # q
      BY EligibleFacts
    <2>2. Rank(Eligible, r) \in Nat /\ Rank(Eligible, q) \in Nat
      BY <2>1, EligibleFacts, RankBounds
    <2>3. Rank(Eligible, q) <= world.batch /\ ~ (Rank(Eligible, r) <= world.batch)
      BY <1>1 DEF Batch
    <2>4. r < q => Rank(Eligible, r) < Rank(Eligible, q)
      BY <2>1, EligibleFacts, RankMonotone
    <2>5. ~ (r < q)
      BY <1>0, <2>2, <2>3, <2>4
    <2> QED BY <2>1, <2>5
  <1> QED BY <1>2, <1>3

(* The cursor separates what has been sent from what has not.               *)
LEMMA CursorFacts ==
    ASSUME TypeOK
    PROVE  /\ NextCursor \in Nat
           /\ ~More => Eligible = Batch /\ NextCursor = 0
           /\ More => /\ NextCursor # 0
                      /\ Eligible \ Batch # {}
                      /\ \A r \in Eligible \ Batch : r > NextCursor
  <1>1. CASE ~More
    BY <1>1 DEF More, NextCursor
  <1>2. CASE More
    <2>1. Eligible \ Batch # {} /\ Batch # {}
      BY <1>2, EligibleFacts, BatchFacts DEF More
    <2>2. Len(hub) \in Nat /\ Batch \in SUBSET (0..Len(hub))
      <3>1. Batch \subseteq DOMAIN hub BY EligibleFacts
      <3>2. Len(hub) \in Nat /\ DOMAIN hub = 1..Len(hub) BY HubFacts
      <3> QED BY <3>1, <3>2
    <2>3. Max(Batch) \in Batch
      BY <2>1, <2>2, MaxElement
    <2>4. NextCursor \in Batch
      BY <1>2, <2>3 DEF NextCursor
    <2>5. NextCursor \in Nat \ {0}
      BY <2>4, EligibleFacts, HubFacts
    <2>6. ASSUME NEW r \in Eligible \ Batch PROVE r > NextCursor
      <3>1. r \in Nat BY EligibleFacts
      <3>2. NextCursor < r BY <2>4, BatchFacts
      <3> QED BY <2>5, <3>1, <3>2
    <2> QED BY <1>2, <2>1, <2>5, <2>6
  <1> QED BY <1>1, <1>2

LEMMA InRidOrderFacts ==
    ASSUME TypeOK
    PROVE  /\ InRidOrder(Batch) \in Seq(Card)
           /\ Uuids(InRidOrder(Batch)) = {hub[r] : r \in Batch}
  <1> DEFINE n == Cardinality(Batch)
             row(i) == CHOOSE r \in Batch : Cardinality({x \in Batch : x <= r}) = i
             q == InRidOrder(Batch)
  <1>0. n \in Nat
    BY EligibleFacts, FS_CardinalityType
  <1>1. ASSUME NEW i \in 1..n PROVE row(i) \in Batch /\ Rank(Batch, row(i)) = i
    <2>1. \E r \in Batch : Rank(Batch, r) = i
      BY EligibleFacts, RankOnto
    <2> QED BY <2>1 DEF Rank
  <1>2. \A a \in Artifact : AsSent(a) \in Card /\ AsSent(a).uuid = a
    BY HubFacts DEF AsSent, Card, Hub
  <1>3. q = [i \in 1..n |-> AsSent(hub[row(i)])]
    BY DEF InRidOrder
  <1> HIDE DEF row, n, q
  <1>4. \A i \in 1..n : hub[row(i)] \in Artifact
    BY <1>1, EligibleFacts, HubFacts
  <1>5. q \in [1..n -> Card]
    BY <1>2, <1>3, <1>4
  <1>6. \A i \in 1..n : q[i].uuid = hub[row(i)]
    BY <1>2, <1>3, <1>4
  <1>7. ASSUME NEW r \in Batch PROVE \E i \in 1..n : row(i) = r
    <2>1. Rank(Batch, r) \in 1..n
      BY EligibleFacts, RankBounds DEF n
    <2>2. row(Rank(Batch, r)) \in Batch /\ Rank(Batch, row(Rank(Batch, r))) = Rank(Batch, r)
      BY <1>1, <2>1
    <2>3. row(Rank(Batch, r)) = r
      BY <2>2, EligibleFacts, RankInjective
    <2> QED BY <2>1, <2>3
  <1>8. DOMAIN q = 1..n
    BY <1>5
  <1>9. Uuids(q) = {hub[r] : r \in Batch}
    <2>1. ASSUME NEW a \in Uuids(q) PROVE a \in {hub[r] : r \in Batch}
      <3>1. PICK i \in 1..n : a = q[i].uuid BY <1>8, <2>1 DEF Uuids
      <3> QED BY <1>1, <1>6, <3>1
    <2>2. ASSUME NEW r \in Batch PROVE hub[r] \in Uuids(q)
      <3>1. PICK i \in 1..n : row(i) = r BY <1>7
      <3>2. q[i].uuid = hub[r] BY <1>6, <3>1
      <3> QED BY <1>8, <3>2 DEF Uuids
    <2> QED BY <2>1, <2>2
  <1> QED BY <1>0, <1>5, <1>9 DEF q

LEMMA InSomeOrderFacts ==
    ASSUME NEW s \in SUBSET Artifact, IsFiniteSet(s), NEW order \in InSomeOrder(s)
    PROVE  LET q == [i \in DOMAIN order |-> Whole(order[i])] IN
           q \in Seq(Card) /\ Uuids(q) = s
  <1> DEFINE q == [i \in DOMAIN order |-> Whole(order[i])]
             n == Cardinality(s)
             places == 1..n
  <1>1. n \in Nat
    BY FS_CardinalityType
  <1>2. order \in [places -> s] /\ \A i, j \in places : order[i] = order[j] => i = j
    BY DEF InSomeOrder
  <1>3. IsFiniteSet(places) /\ Cardinality(places) = n
    BY <1>1, FS_Interval
  <1> HIDE DEF n
  <1>4. \A i \in places : q[i] = Whole(order[i]) /\ q[i].uuid = order[i]
    BY <1>2 DEF Whole
  <1>5. q \in [places -> Card]
    BY <1>2 DEF Whole, Card
  <1> HIDE DEF places, q
  <1>6. order \in Injection(places, s)
    BY <1>2 DEF Injection, IsInjective
  <1>7. order \in Surjection(places, s)
    BY <1>3, <1>6, FS_Injection DEF n
  <1>8. \A a \in s : \E i \in places : order[i] = a
    BY <1>7 DEF Surjection
  <1>9. Uuids(q) = s
    <2>1. DOMAIN q = places BY <1>5
    <2>2. ASSUME NEW a \in Uuids(q) PROVE a \in s
      BY <1>2, <1>4, <2>1, <2>2 DEF Uuids
    <2>3. ASSUME NEW a \in s PROVE a \in Uuids(q)
      BY <1>4, <1>8, <2>1 DEF Uuids
    <2> QED BY <2>2, <2>3
  <1>10. q \in Seq(Card)
    BY <1>1, <1>5 DEF places
  <1> QED BY <1>9, <1>10 DEF q

LEMMA UuidsConcat ==
    ASSUME NEW q \in Seq(Card), NEW z \in Seq(Card)
    PROVE  q \o z \in Seq(Card) /\ Uuids(q \o z) = Uuids(q) \cup Uuids(z)
  <1> DEFINE m == Len(q)
             n == Len(z)
             both == q \o z
  <1>1. m \in Nat /\ n \in Nat /\ DOMAIN q = 1..m /\ DOMAIN z = 1..n
    OBVIOUS
  <1>2. /\ both \in Seq(Card) /\ DOMAIN both = 1..m + n
        /\ \A i \in 1..m : both[i] = q[i]
        /\ \A i \in 1..n : both[m + i] = z[i]
    OBVIOUS
  <1>3. \A i \in 1..m + n : i \in 1..m \/ (i - m \in 1..n /\ i = m + (i - m))
    BY <1>1
  <1>4. \A i \in 1..n : m + i \in 1..m + n
    BY <1>1
  <1>5. 1..m \subseteq 1..m + n
    BY <1>1
  <1> HIDE DEF m, n, both
  <1>6. ASSUME NEW a \in Uuids(both) PROVE a \in Uuids(q) \cup Uuids(z)
    <2>1. PICK i \in 1..m + n : a = both[i].uuid BY <1>2, <1>6 DEF Uuids
    <2>2. CASE i \in 1..m BY <1>1, <1>2, <2>1, <2>2 DEF Uuids
    <2>3. CASE i - m \in 1..n /\ i = m + (i - m)
      <3>1. both[i] = z[i - m] BY <1>2, <2>3
      <3> QED BY <1>1, <2>1, <2>3, <3>1 DEF Uuids
    <2> QED BY <1>3, <2>2, <2>3
  <1>7. ASSUME NEW a \in Uuids(q) PROVE a \in Uuids(both)
    <2>1. PICK i \in 1..m : a = q[i].uuid BY <1>1, <1>7 DEF Uuids
    <2> QED BY <1>2, <1>5, <2>1 DEF Uuids
  <1>8. ASSUME NEW a \in Uuids(z) PROVE a \in Uuids(both)
    <2>1. PICK i \in 1..n : a = z[i].uuid BY <1>1, <1>8 DEF Uuids
    <2>2. a = both[m + i].uuid BY <1>2, <2>1
    <2> QED BY <1>2, <1>4, <2>2 DEF Uuids
  <1> QED BY <1>2, <1>6, <1>7, <1>8 DEF both

LEMMA UuidsTail ==
    ASSUME NEW q \in Seq(Card), q # << >>
    PROVE  /\ Head(q) \in Card /\ Tail(q) \in Seq(Card)
           /\ Uuids(q) = {Head(q).uuid} \cup Uuids(Tail(q))
  <1> DEFINE n == Len(q)
  <1>1. n \in Nat /\ n > 0 /\ DOMAIN q = 1..n
    OBVIOUS
  <1>2. /\ Head(q) = q[1] /\ Head(q) \in Card
        /\ Tail(q) \in Seq(Card) /\ DOMAIN Tail(q) = 1..n - 1
        /\ \A i \in 1..n - 1 : Tail(q)[i] = q[i + 1]
    OBVIOUS
  <1>3. \A i \in 1..n : i = 1 \/ (i - 1 \in 1..n - 1 /\ i = (i - 1) + 1)
    BY <1>1
  <1>4. 1 \in 1..n /\ \A i \in 1..n - 1 : i + 1 \in 1..n
    BY <1>1
  <1> HIDE DEF n
  <1>5. ASSUME NEW a \in Uuids(q) PROVE a \in {Head(q).uuid} \cup Uuids(Tail(q))
    <2>1. PICK i \in 1..n : a = q[i].uuid BY <1>1, <1>5 DEF Uuids
    <2>2. CASE i = 1 BY <1>2, <2>1, <2>2
    <2>3. CASE i - 1 \in 1..n - 1 /\ i = (i - 1) + 1
      <3>1. Tail(q)[i - 1] = q[i] BY <1>2, <2>3
      <3> QED BY <1>2, <2>1, <2>3, <3>1 DEF Uuids
    <2> QED BY <1>3, <2>2, <2>3
  <1>6. Head(q).uuid \in Uuids(q)
    BY <1>1, <1>2, <1>4 DEF Uuids
  <1>7. ASSUME NEW a \in Uuids(Tail(q)) PROVE a \in Uuids(q)
    <2>1. PICK i \in 1..n - 1 : a = Tail(q)[i].uuid BY <1>2, <1>7 DEF Uuids
    <2>2. a = q[i + 1].uuid BY <1>2, <2>1
    <2> QED BY <1>1, <1>4, <2>2 DEF Uuids
  <1> QED BY <1>2, <1>5, <1>6, <1>7

(* The file cards of an answer are those of the artifacts asked for that    *)
(* the hub offers and, while the main transfer lasts, of the batch.         *)
LEMMA ServeEffect ==
    ASSUME TypeOK, Stages, Serve
    PROVE  /\ files' \in Seq(Card)
           /\ InFiles' = Gimmed \cup (IF seqno > 0 THEN {hub[r] : r \in Batch} ELSE {})
  <1>1. PICK order \in InSomeOrder(Gimmed) :
          files' = LET gimmed == [i \in DOMAIN order |-> Whole(order[i])] IN
                   IF seqno > 0 THEN gimmed \o InRidOrder(Batch) ELSE gimmed
    BY DEF Serve
  <1> DEFINE gimmed == [i \in DOMAIN order |-> Whole(order[i])]
  <1>2. Gimmed \in SUBSET Artifact /\ IsFiniteSet(Gimmed)
    BY FS_Subset DEF Gimmed, TypeOK, Stages
  <1>3. gimmed \in Seq(Card) /\ Uuids(gimmed) = Gimmed
    BY <1>2, InSomeOrderFacts
  <1>4. files' = IF seqno > 0 THEN gimmed \o InRidOrder(Batch) ELSE gimmed
    BY <1>1
  <1> HIDE DEF gimmed
  <1>5. InRidOrder(Batch) \in Seq(Card) /\ Uuids(InRidOrder(Batch)) = {hub[r] : r \in Batch}
    BY InRidOrderFacts
  <1>6. /\ gimmed \o InRidOrder(Batch) \in Seq(Card)
        /\ Uuids(gimmed \o InRidOrder(Batch)) = Uuids(gimmed) \cup Uuids(InRidOrder(Batch))
    BY <1>3, <1>5, UuidsConcat
  <1>7. InFiles' = Uuids(files')
    BY DEF InFiles
  <1>8. CASE seqno > 0
    BY <1>3, <1>4, <1>5, <1>6, <1>7, <1>8
  <1>9. CASE ~ (seqno > 0)
    BY <1>3, <1>4, <1>7, <1>9
  <1> QED BY <1>8, <1>9

-----------------------------------------------------------------------------
(* Writers at the hub take nothing away.                                    *)
LEMMA HubGrows ==
    ASSUME TypeOK, NEW a \in Artifact, HubWrite(a) \/ HubFill(a)
    PROVE  /\ Offered \subseteq Offered'
           /\ \A c \in Nat : Ahead(c) \subseteq Ahead(c)'
  <1>1. /\ world' = world /\ cookie' = cookie
        /\ \A r \in DOMAIN hub : r \in DOMAIN hub' /\ hub'[r] = hub[r]
        /\ hubPhantom' \subseteq hubPhantom
    <2>1. CASE HubWrite(a)
      BY <2>1, HubFacts DEF HubWrite, TypeOK
    <2>2. CASE HubFill(a)
      BY <2>2 DEF HubFill
    <2> QED BY <2>1, <2>2
  <1>2. \A r \in DOMAIN hub : Real(r) => Real(r)'
    BY <1>1 DEF Real
  <1>3. Offered \subseteq Offered'
    BY <1>1, <1>2 DEF Offered
  <1>4. ASSUME NEW c \in Nat PROVE Ahead(c) \subseteq Ahead(c)'
    BY <1>1, <1>2 DEF Ahead, MayFollow
  <1> QED BY <1>3, <1>4

(* Every other step that keeps the cap keeps what is ahead of a cursor.     *)
LEMMA HubStable ==
    ASSUME UNCHANGED <<hubVars, cookie>>
    PROVE  Offered' = Offered /\ \A c \in Nat : Ahead(c)' = Ahead(c)
  BY DEF hubVars, Offered, Real, Ahead, MayFollow

-----------------------------------------------------------------------------
LEMMA InitClone == Init => CloneInv /\ NothingPrivate
  <1> SUFFICES ASSUME Init PROVE CloneInv /\ NothingPrivate
    OBVIOUS
  <1>1. world \in Hub
    BY ConstantsAssumption DEF Init
  <1>2. /\ hub \in Seq(Artifact) /\ hubPhantom \subseteq Artifact
    BY <1>1 DEF Init, Hub
  <1>3. TypeOK
    BY <1>2, ConstantsAssumption DEF Init, TypeOK, State
  <1>4. Stages
    BY ConstantsAssumption, FS_EmptySet DEF Init, Stages, Running
  <1>5. CursorLive
    BY DEF Init, CursorLive
  <1>6. Accounted
    BY DEF Init, Accounted
  <1>7. NothingPrivate
    BY DEF Init, NothingPrivate, PrivateNotCloned, InFiles, Uuids
  <1> QED BY <1>3, <1>4, <1>5, <1>6, <1>7 DEF CloneInv

(* What one file card does.                                                 *)
LEMMA HandleFileEffect ==
    ASSUME TypeOK, Stages, HandleFile
    PROVE  LET got == Head(files).uuid IN
           /\ got \in InFiles
           /\ store' \subseteq Artifact /\ phantomRows' \subseteq Artifact \ store'
           /\ phantoms' \subseteq Artifact /\ IsFiniteSet(phantoms')
           /\ files' \in Seq(Card)
           /\ \/ /\ st' = "receiving" /\ asked' = asked /\ files' = Tail(files)
                 /\ InFiles = {got} \cup InFiles'
                 /\ store \subseteq store' /\ store' \subseteq store \cup {got}
                 /\ phantoms \subseteq phantoms' \cup store'
                 /\ got \in phantoms' \cup store'
              \/ /\ st' = "failed" /\ asked' = {} /\ files' = << >>
                 /\ store' = {} /\ InFiles' = {}
  <1> DEFINE got == Head(files).uuid
             src == Head(files).src
  <1>1. /\ files \in Seq(Card) /\ files # << >> /\ st = "receiving"
    BY DEF HandleFile, TypeOK
  <1>2. /\ Head(files) \in Card /\ Tail(files) \in Seq(Card)
        /\ InFiles = {got} \cup Uuids(Tail(files))
    BY <1>1, UuidsTail DEF InFiles
  <1>3. got \in Artifact /\ src \in Artifact \cup {NoArtifact}
    BY <1>2 DEF Card
  <1>4. InFiles' = Uuids(files')
    BY DEF InFiles
  <1>5. \A a \in Artifact : world.members[a] \subseteq Artifact
    BY HubFacts DEF Hub
  <1>6. IsFiniteSet(phantoms)
    BY DEF Stages
  <1> HIDE DEF got, src
  <1>7. CASE /\ Resolvable(src) /\ Stored(got)
             /\ files' = Tail(files) /\ UNCHANGED <<st, asked>>
    <2>1. store' \subseteq Artifact /\ phantomRows' \subseteq Artifact \ store'
      BY <1>3, <1>5, <1>7 DEF Stored, TypeOK
    <2>2. phantoms' = phantoms \ {got} /\ store' = store \cup {got}
      BY <1>7 DEF Stored
    <2>3. IsFiniteSet(phantoms')
      BY <1>6, <2>2, FS_RemoveElement
    <2> QED BY <1>1, <1>2, <1>4, <1>7, <2>1, <2>2, <2>3 DEF TypeOK, got
  <1>8. CASE /\ SourceMissing(src)
             /\ phantomRows' = phantomRows \cup ({got} \ store)
             /\ phantoms' = phantoms \cup {got, src}
             /\ files' = Tail(files) /\ UNCHANGED <<st, asked, store>>
    <2>1. src \in Artifact
      BY <1>3, <1>8 DEF SourceMissing
    <2>2. phantoms' = (phantoms \cup {got}) \cup {src}
      BY <1>8
    <2>3. IsFiniteSet(phantoms')
      BY <1>6, <2>2, FS_AddElement
    <2> QED BY <1>1, <1>2, <1>3, <1>4, <1>8, <2>1, <2>3 DEF TypeOK, got
  <1>9. CASE Abort("failed")
    <2>1. /\ st' = "failed" /\ asked' = {} /\ files' = << >>
          /\ store' = {} /\ phantomRows' = {} /\ phantoms' = {}
      BY <1>9 DEF Abort
    <2>2. Uuids(<< >>) = {}
      BY DEF Uuids
    <2> QED BY <1>2, <1>4, <2>1, <2>2, FS_EmptySet DEF got
  <1> QED BY <1>7, <1>8, <1>9 DEF HandleFile, got, src

LEMMA NextStages ==
    ASSUME TypeOK, Stages, [Next]_vars
    PROVE  TypeOK' /\ Stages'
  <1> USE DEF hubVars, newRepo
  <1>1. CASE BuildRequest
    <2>1. asked' \subseteq Artifact /\ IsFiniteSet(asked')
      BY <1>1, FS_EmptySet DEF BuildRequest, TypeOK, Stages
    <2>2. TypeOK'
      BY <1>1, <2>1 DEF BuildRequest, TypeOK, State
    <2>3. Stages'
      BY <1>1, <2>1 DEF BuildRequest, Stages, Running
    <2> QED BY <2>2, <2>3
  <1>2. CASE Serve
    <2>1. files' \in Seq(Card)
      BY <1>2, ServeEffect
    <2>2. nextSeqno' \in Nat /\ cookie' \in Nat
      BY <1>2, CursorFacts, CapFacts DEF Serve, TypeOK
    <2>3. snapshot' \subseteq Artifact
      <3>1. Offered \subseteq Artifact
        BY HubFacts DEF Offered
      <3> QED BY <1>2, <3>1 DEF Serve, TypeOK
    <2>4. TypeOK'
      BY <1>2, <2>1, <2>2, <2>3 DEF Serve, TypeOK, State
    <2>5. Stages'
      BY <1>2 DEF Serve, Stages, Running
    <2> QED BY <2>4, <2>5
  <1>3. CASE HandleFile
    <2>1. filesRecvd' \in Nat
      BY <1>3 DEF HandleFile, TypeOK
    <2>2. TypeOK'
      BY <1>3, <2>1, HandleFileEffect DEF HandleFile, TypeOK, State
    <2>3. Stages'
      BY <1>3, FS_EmptySet, HandleFileEffect DEF HandleFile, Stages, Running
    <2> QED BY <2>2, <2>3
  <1>4. CASE EndRound
    <2>1. cycle \in Nat /\ MaxRounds \in Nat /\ cycle < MaxRounds /\ cycle' = cycle + 1
      BY <1>4, ConstantsAssumption DEF EndRound, TypeOK, Stages, Running
    <2>2. cycle' \in 0..MaxRounds
      BY <2>1
    <2>3. prevPhantomCount' \in Nat \cup {-1}
      BY <1>4, FS_CardinalityType DEF EndRound, TypeOK, Stages
    <2>4. \/ st' = "done" /\ UNCHANGED newRepo
          \/ st' = "ready" /\ cycle + 1 < MaxRounds /\ UNCHANGED newRepo
          \/ Abort("exceeded")
      BY <1>4 DEF EndRound
    <2>5. TypeOK'
      BY <1>4, <2>2, <2>3, <2>4 DEF EndRound, TypeOK, State, Abort
    <2>6. Stages'
      BY <1>4, <2>1, <2>4, FS_EmptySet DEF EndRound, Stages, Running, Abort
    <2> QED BY <2>5, <2>6
  <1>5. CASE Interrupt
    <2>1. failures' \in 0..MaxFailures
      BY <1>5, ConstantsAssumption DEF Interrupt, TypeOK
    <2>2. TypeOK'
      BY <1>5, <2>1 DEF Interrupt, TypeOK, State, Abort
    <2>3. Stages'
      BY <1>5, FS_EmptySet DEF Interrupt, Stages, Running, Abort
    <2> QED BY <2>2, <2>3
  <1>6. CASE Restart
    <2>1. TypeOK'
      BY <1>6, ConstantsAssumption DEF Restart, TypeOK, State
    <2>2. Stages'
      BY <1>6, ConstantsAssumption DEF Restart, Stages, Running
    <2> QED BY <2>1, <2>2
  <1>7. ASSUME NEW a \in Artifact, HubWrite(a) PROVE TypeOK' /\ Stages'
    <2>1. hub' \in Seq(Artifact)
      BY <1>7 DEF HubWrite, TypeOK
    <2> QED BY <1>7, <2>1 DEF HubWrite, TypeOK, Stages, Running
  <1>8. ASSUME NEW a \in Artifact, HubFill(a) PROVE TypeOK' /\ Stages'
    BY <1>8 DEF HubFill, TypeOK, Stages, Running
  <1>9. CASE UNCHANGED vars
    BY <1>9 DEF vars, TypeOK, Stages, Running
  <1> QED BY <1>1, <1>2, <1>3, <1>4, <1>5, <1>6, <1>7, <1>8, <1>9 DEF Next, Step

(* Every eligible row is in the batch or ahead of the new cursor.           *)
LEMMA BatchOrAhead ==
    ASSUME TypeOK, Serve, seqno > 0
    PROVE  /\ {hub[r] : r \in Eligible} \subseteq
                {hub[r] : r \in Batch} \cup Ahead(nextSeqno)'
           /\ nextSeqno' # 0 => Ahead(nextSeqno)' # {}
  <1>1. /\ world' = world /\ hub' = hub /\ hubPhantom' = hubPhantom
        /\ cookie' = Cap /\ nextSeqno' = NextCursor
    BY DEF Serve, hubVars
  <1>2. \A r \in Eligible : /\ r \in DOMAIN hub /\ r <= Cap /\ Real(r)
                            /\ hub[r] \notin world.private
    BY DEF Eligible
  <1>3. ASSUME NEW r \in Eligible \ Batch
        PROVE  nextSeqno' # 0 /\ hub[r] \in Ahead(nextSeqno)'
    <2>1. More /\ NextCursor # 0 /\ r > NextCursor
      BY CursorFacts DEF More
    <2> QED BY <1>1, <1>2, <2>1 DEF Ahead, MayFollow, Real
  <1>4. nextSeqno' # 0 => Eligible \ Batch # {}
    BY <1>1, CursorFacts
  <1> QED BY <1>3, <1>4

(* What the old cursor had ahead of it is what the hub now chooses from.    *)
LEMMA AheadIsEligible ==
    ASSUME TypeOK, CursorLive, st = "serving", seqno > 0
    PROVE  /\ Ahead(seqno) \subseteq {hub[r] : r \in Eligible}
           /\ cookie = 0 => Offered \subseteq {hub[r] : r \in Eligible}
           /\ seqno > 1 => Eligible # {}
  <1>1. cookie = 0 => Ahead(seqno) = {}
    <2> SUFFICES ASSUME cookie = 0, NEW r \in DOMAIN hub, MayFollow(r, seqno)
                 PROVE  FALSE
      BY DEF Ahead
    <2>1. r \in Nat /\ seqno \in Nat /\ r > seqno /\ r <= 0
      BY HubFacts DEF MayFollow, TypeOK
    <2> QED BY <2>1
  <1>2. Cursor \in Nat /\ Cursor <= seqno
    BY DEF Cursor, TypeOK
  <1>3. ASSUME NEW r \in DOMAIN hub, MayFollow(r, seqno), cookie # 0 PROVE r \in Eligible
    <2>1. r \in Nat /\ r > seqno /\ seqno \in Nat
      BY <1>3, HubFacts DEF MayFollow, TypeOK
    <2>2. r > Cursor
      BY <1>2, <2>1
    <2> QED BY <1>3, <2>2, CapFacts DEF Eligible, MayFollow
  <1>4. Ahead(seqno) \subseteq {hub[r] : r \in Eligible}
    BY <1>1, <1>3 DEF Ahead
  <1>5. ASSUME cookie = 0 PROVE Offered \subseteq {hub[r] : r \in Eligible}
    <2>1. cycle = 0
      BY <1>1, <1>5 DEF CursorLive, TypeOK
    <2>2. Cursor = 0
      BY <2>1 DEF Cursor
    <2>3. ASSUME NEW r \in DOMAIN hub, Real(r), hub[r] \notin world.private
          PROVE  r \in Eligible
      BY <1>5, <2>2, <2>3, HubFacts, CapFacts DEF Eligible
    <2> QED BY <2>3 DEF Offered
  <1>6. ASSUME seqno > 1 PROVE Eligible # {}
    <2>1. cycle > 0 /\ seqno # 0
      BY <1>6 DEF CursorLive, TypeOK
    <2> QED BY <1>4, <2>1 DEF CursorLive
  <1> QED BY <1>4, <1>5, <1>6

LEMMA NextCursorLive ==
    ASSUME TypeOK, Stages, CursorLive, [Next]_vars
    PROVE  CursorLive'
  <1> USE DEF hubVars, newRepo
  <1>1. CASE BuildRequest
    BY <1>1, HubStable DEF BuildRequest, CursorLive, TypeOK
  <1>2. CASE Serve
    <2>0. st = "serving" /\ st' = "receiving" /\ UNCHANGED hubVars
      BY <1>2 DEF Serve
    <2>1. CASE seqno > 0
      <3>1. cookie' = Cap /\ snapshot' = IF cookie = 0 THEN Offered ELSE snapshot
        BY <1>2, <2>1 DEF Serve
      <3>2. Offered' = Offered
        BY <2>0 DEF Offered, Real
      <3>3. cookie' = 0 => snapshot' = {}
        <4> SUFFICES ASSUME cookie' = 0 PROVE snapshot' = {}
          OBVIOUS
        <4>1. cookie = 0
          BY <3>1, CapFacts
        <4>2. \A r \in DOMAIN hub : ~Real(r)
          BY <3>1, <4>1, CapFacts, HubFacts
        <4> QED BY <3>1, <4>1, <4>2 DEF Offered
      <3>4. nextSeqno' # 0 => Ahead(nextSeqno)' # {}
        BY <1>2, <2>1, BatchOrAhead
      <3> QED BY <2>0, <3>1, <3>2, <3>3, <3>4 DEF CursorLive
    <2>2. CASE ~ (seqno > 0)
      <3>1. nextSeqno' = 0 /\ cookie' = cookie /\ snapshot' = snapshot
        BY <1>2, <2>2 DEF Serve
      <3> QED BY <2>0, <3>1, HubStable DEF CursorLive
    <2> QED BY <2>1, <2>2
  <1>3. CASE HandleFile
    <2>1. st = "receiving" /\ st' \in {"receiving", "failed"}
      BY <1>3, HandleFileEffect DEF HandleFile
    <2> QED BY <1>3, <2>1, HubStable DEF HandleFile, CursorLive, TypeOK
  <1>4. CASE EndRound
    <2>1. cycle' > 0 /\ st = "receiving" /\ st' # "receiving" /\ seqno' = nextSeqno
      BY <1>4 DEF EndRound, TypeOK, Abort
    <2>2. Offered' = Offered /\ Ahead(seqno)' = Ahead(nextSeqno)
      BY <1>4, HubStable DEF EndRound, TypeOK
    <2> QED BY <1>4, <2>1, <2>2 DEF EndRound, CursorLive
  <1>5. CASE Interrupt
    BY <1>5, HubStable DEF Interrupt, Abort, CursorLive
  <1>6. CASE Restart
    BY <1>6 DEF Restart, CursorLive
  <1>7. ASSUME NEW a \in Artifact, HubWrite(a) \/ HubFill(a) PROVE CursorLive'
    <2>1. UNCHANGED <<st, cycle, seqno, cookie, nextSeqno, snapshot>>
      BY <1>7 DEF HubWrite, HubFill
    <2>2. Offered \subseteq Offered' /\ \A c \in Nat : Ahead(c) \subseteq Ahead(c)'
      BY <1>7, HubGrows
    <2>3. Ahead(seqno) \subseteq Ahead(seqno)' /\ Ahead(nextSeqno) \subseteq Ahead(nextSeqno)'
      BY <2>1, <2>2 DEF TypeOK
    <2> QED BY <2>1, <2>2, <2>3 DEF CursorLive
  <1>8. CASE UNCHANGED vars
    BY <1>8, HubStable DEF vars, CursorLive, TypeOK
  <1> QED BY <1>1, <1>2, <1>3, <1>4, <1>5, <1>6, <1>7, <1>8 DEF Next, Step

LEMMA NextAccounted ==
    ASSUME TypeOK, Stages, CursorLive, Accounted, [Next]_vars
    PROVE  Accounted'
  <1> USE DEF hubVars, newRepo
  <1>0. seqno \in Nat /\ nextSeqno \in Nat
    BY DEF TypeOK
  <1>1. CASE BuildRequest
    <2>1. Ahead(seqno)' = Ahead(seqno)
      BY <1>0, <1>1, HubStable DEF BuildRequest
    <2> QED BY <1>1, <2>1 DEF BuildRequest, Accounted
  <1>2. CASE Serve
    <2>0. /\ st = "serving" /\ st' = "receiving" /\ filesRecvd = 0
          /\ UNCHANGED <<hubVars, store, phantoms, filesRecvd>>
      BY <1>2 DEF Serve, Stages
    <2>1. InFiles' = Gimmed \cup (IF seqno > 0 THEN {hub[r] : r \in Batch} ELSE {})
      BY <1>2, ServeEffect
    <2>2. files' = << >> => InFiles' = {}
      BY DEF InFiles, Uuids
    <2>3. snapshot' \subseteq store \cup phantoms \cup InFiles' \cup Ahead(nextSeqno)'
      <3>1. CASE seqno > 0
        <4>1. {hub[r] : r \in Eligible} \subseteq InFiles' \cup Ahead(nextSeqno)'
          BY <1>2, <2>1, <3>1, BatchOrAhead
        <4>2. snapshot' = IF cookie = 0 THEN Offered ELSE snapshot
          BY <1>2, <3>1 DEF Serve
        <4>3. Ahead(seqno) \subseteq {hub[r] : r \in Eligible}
          BY <2>0, <3>1, AheadIsEligible
        <4>4. cookie = 0 => Offered \subseteq {hub[r] : r \in Eligible}
          BY <2>0, <3>1, AheadIsEligible
        <4> QED BY <2>0, <4>1, <4>2, <4>3, <4>4 DEF Accounted
      <3>2. CASE ~ (seqno > 0)
        <4>1. seqno = 0 /\ snapshot' = snapshot
          BY <1>0, <1>2, <3>2 DEF Serve
        <4>2. Ahead(seqno) = {}
          BY <4>1 DEF Ahead
        <4> QED BY <2>0, <4>1, <4>2 DEF Accounted
      <3> QED BY <3>1, <3>2
    <2>4. snapshot' \subseteq Offered
      BY <1>2 DEF Serve, CursorLive
    <2>5. ASSUME files' = << >> PROVE phantoms \cap snapshot' = {}
      <3>1. seqno <= 1
        <4> SUFFICES ASSUME seqno > 1 PROVE FALSE
          BY <1>0
        <4>1. Eligible # {}
          BY <1>0, <2>0, AheadIsEligible
        <4>2. Batch # {}
          BY <4>1, BatchFacts
        <4> QED BY <1>0, <2>1, <2>2, <2>5, <4>2
      <3>2. asked = phantoms
        BY <2>0, <3>1 DEF Stages
      <3> QED BY <2>1, <2>2, <2>4, <2>5, <3>2 DEF Gimmed
    <2> QED BY <2>0, <2>3, <2>5 DEF Accounted
  <1>3. CASE HandleFile
    <2>1. st = "receiving" /\ UNCHANGED <<nextSeqno, snapshot>>
      BY <1>3 DEF HandleFile
    <2>2. filesRecvd' # 0
      BY <1>3 DEF HandleFile, TypeOK
    <2>3. Ahead(nextSeqno)' = Ahead(nextSeqno)
      BY <1>0, <1>3, HubStable DEF HandleFile
    <2>4. CASE st' = "receiving"
      <3>1. InFiles \cup store \cup phantoms \subseteq InFiles' \cup store' \cup phantoms'
        BY <1>3, <2>4, HandleFileEffect
      <3> QED BY <2>1, <2>2, <2>3, <2>4, <3>1 DEF Accounted
    <2>5. CASE st' = "failed"
      BY <2>5 DEF Accounted
    <2> QED BY <1>3, <2>4, <2>5, HandleFileEffect
  <1>4. CASE EndRound
    <2>1. /\ st = "receiving" /\ files = << >>
          /\ UNCHANGED snapshot /\ seqno' = nextSeqno
      BY <1>4 DEF EndRound
    <2>2. InFiles = {}
      BY <2>1 DEF InFiles, Uuids
    <2>3. snapshot \subseteq store \cup phantoms \cup Ahead(nextSeqno)
      BY <2>1, <2>2 DEF Accounted
    <2>4. CASE Finished /\ st' = "done" /\ UNCHANGED newRepo
      <3>1. filesRecvd = 0 /\ nextSeqno = 0
        BY <2>4 DEF Finished
      <3>2. Ahead(nextSeqno) = {}
        BY <3>1 DEF Ahead
      <3>3. phantoms \cap snapshot = {}
        BY <2>1, <3>1 DEF Accounted
      <3> QED BY <2>1, <2>3, <2>4, <3>2, <3>3 DEF Accounted
    <2>5. CASE st' = "ready" /\ UNCHANGED newRepo
      <3>1. Ahead(seqno)' = Ahead(nextSeqno)
        BY <1>0, <1>4, HubStable DEF EndRound
      <3> QED BY <2>1, <2>3, <2>5, <3>1 DEF Accounted
    <2>6. CASE st' = "exceeded"
      BY <2>6 DEF Accounted
    <2> QED BY <1>4, <2>4, <2>5, <2>6 DEF EndRound, Abort
  <1>5. CASE Interrupt
    BY <1>5 DEF Interrupt, Abort, Accounted
  <1>6. CASE Restart
    BY <1>6 DEF Restart, Accounted
  <1>7. ASSUME NEW a \in Artifact, HubWrite(a) \/ HubFill(a) PROVE Accounted'
    <2>1. UNCHANGED <<st, seqno, nextSeqno, snapshot, store, phantoms, files, filesRecvd>>
      BY <1>7 DEF HubWrite, HubFill
    <2>2. Ahead(seqno) \subseteq Ahead(seqno)' /\ Ahead(nextSeqno) \subseteq Ahead(nextSeqno)'
      BY <1>0, <1>7, <2>1, HubGrows
    <2>3. InFiles' = InFiles
      BY <2>1 DEF InFiles
    <2> QED BY <2>1, <2>2, <2>3 DEF Accounted
  <1>8. CASE UNCHANGED vars
    <2>1. Ahead(seqno)' = Ahead(seqno) /\ Ahead(nextSeqno)' = Ahead(nextSeqno)
      BY <1>0, <1>8, HubStable DEF vars
    <2>2. InFiles' = InFiles
      BY <1>8 DEF InFiles, vars
    <2> QED BY <1>8, <2>1, <2>2 DEF vars, Accounted
  <1> QED BY <1>1, <1>2, <1>3, <1>4, <1>5, <1>6, <1>7, <1>8 DEF Next, Step

LEMMA NextPrivate ==
    ASSUME TypeOK, Stages, NothingPrivate, [Next]_vars
    PROVE  NothingPrivate'
  <1> USE DEF hubVars, newRepo, NothingPrivate, PrivateNotCloned
  <1>0. Uuids(<< >>) = {} /\ InFiles' = Uuids(files')
    BY DEF Uuids, InFiles
  <1>1. world' = world
    BY DEF Next, Step, BuildRequest, Serve, HandleFile, EndRound, Interrupt, Restart,
           HubWrite, HubFill, vars
  <1>2. CASE Serve
    <2>1. Gimmed \cap world.private = {}
      BY DEF Gimmed, Offered
    <2>2. \A r \in Batch : hub[r] \notin world.private
      BY DEF Batch, Eligible
    <2>3. store' = store
      BY <1>2 DEF Serve
    <2>4. InFiles' \cap world.private = {}
      BY <1>2, <2>1, <2>2, ServeEffect
    <2> QED BY <1>1, <2>3, <2>4
  <1>3. CASE HandleFile
    BY <1>1, <1>3, HandleFileEffect
  <1>4. CASE UNCHANGED <<store, files>>
    BY <1>1, <1>4 DEF InFiles
  <1>5. CASE store' = {} /\ files' = << >>
    BY <1>0, <1>5
  <1> QED BY <1>2, <1>3, <1>4, <1>5
      DEF Next, Step, BuildRequest, EndRound, Interrupt, Restart, HubWrite, HubFill,
          Abort, vars

(* Whatever is written to the hub meanwhile, however its rows fall into     *)
(* batches and whichever deltas arrive before their source, a clone that    *)
(* succeeds holds everything the hub had to offer when the cap was taken    *)
(* (emitCloneBatch, run).                                                   *)
THEOREM CloneIsComplete == Spec => []CloneComplete
  <1>1. Init => CloneInv BY InitClone
  <1>2. CloneInv /\ [Next]_vars => CloneInv'
    BY NextStages, NextCursorLive, NextAccounted DEF CloneInv
  <1>3. CloneInv => CloneComplete BY DEF CloneInv, Accounted, CloneComplete
  <1> QED BY <1>1, <1>2, <1>3, PTL DEF Spec

(* No private artifact of any hub is ever cloned, in a batch or on request  *)
(* (emitCloneBatch, handleGimme).                                           *)
THEOREM CloneTakesNothingPrivate == Spec => []PrivateNotCloned
  <1> DEFINE Inv == TypeOK /\ Stages /\ NothingPrivate
  <1>1. Init => Inv BY InitClone DEF CloneInv
  <1>2. Inv /\ [Next]_vars => Inv' BY NextStages, NextPrivate
  <1>3. Inv => PrivateNotCloned BY DEF NothingPrivate
  <1> QED BY <1>1, <1>2, <1>3, PTL DEF Spec

-----------------------------------------------------------------------------
(* How long a clone takes.  This handler sends every file in full.          *)
SentWhole == \A a \in Artifact : world.source[a] = NoArtifact

(* The rows up to cursor c that a batch may have sent.                      *)
Passed(c) == {rid \in DOMAIN hub : rid <= c /\ Real(rid) /\ hub[rid] \notin world.private}

(* The rows the cap leaves in are those of the snapshot, those that were    *)
(* phantoms in the beginning and the private ones: what is written          *)
(* meanwhile comes behind the cap.                                          *)
RowsCapped ==
    /\ \A i, j \in DOMAIN hub : hub[i] = hub[j] => i = j
    /\ hubPhantom \subseteq world.phantom
    /\ cookie <= Len(hub)
    /\ \A rid \in DOMAIN hub :
        rid <= cookie => hub[rid] \in snapshot \cup world.phantom \cup world.private

(* Without deltas nothing is ever noted as missing.                         *)
NothingMissing ==
    /\ phantoms = {} /\ asked = {}
    /\ \A i \in DOMAIN files : files[i].src = NoArtifact

(* As long as the hub has more to send, every batch before was full; a      *)
(* round that received anything received rows behind all of those.          *)
FullBatches ==
    /\ st \in {"ready", "serving"} /\ seqno > 0 =>
        Cardinality(Passed(Cursor)) >= world.batch * cycle
    /\ st = "receiving" =>
        /\ nextSeqno > 0 => Cardinality(Passed(nextSeqno)) >= world.batch * (cycle + 1)
        /\ nextSeqno > 0 \/ files # << >> \/ filesRecvd > 0 =>
            Cardinality(Passed(cookie)) > world.batch * cycle

InTime == NothingMissing /\ FullBatches /\ CloneConverges

-----------------------------------------------------------------------------
LEMMA FiniteRange ==
    ASSUME NEW q \in Seq(Artifact), NEW T \in SUBSET {q[i] : i \in DOMAIN q}
    PROVE  IsFiniteSet(T)
  <1> DEFINE place == [a \in T |-> CHOOSE i \in DOMAIN q : q[i] = a]
             D == DOMAIN q
  <1>1. IsFiniteSet(D)
    <2>1. Len(q) \in Nat /\ DOMAIN q = 1..Len(q) OBVIOUS
    <2> QED BY <2>1, FS_Interval
  <1>2. \A a \in T : place[a] \in D /\ q[place[a]] = a
    OBVIOUS
  <1>3. place \in [T -> D]
    BY <1>2
  <1> HIDE DEF place, D
  <1>4. place \in Injection(T, D)
    BY <1>2, <1>3 DEF Injection, IsInjective
  <1> QED BY <1>1, <1>4, FS_Injection

LEMMA PassedFacts ==
    ASSUME TypeOK, NEW c \in Nat
    PROVE  /\ Passed(c) \subseteq DOMAIN hub
           /\ IsFiniteSet(Passed(c)) /\ Cardinality(Passed(c)) \in Nat
  <1>1. Passed(c) \subseteq DOMAIN hub
    BY DEF Passed
  <1>2. IsFiniteSet(Passed(c))
    BY <1>1, HubFacts, FS_Subset
  <1> QED BY <1>1, <1>2, FS_CardinalityType

(* The rows up to the cap fit into the snapshot and the former phantoms.    *)
LEMMA PassedBound ==
    ASSUME TypeOK, CursorLive, RowsCapped
    PROVE  /\ Cardinality(snapshot) \in Nat /\ Cardinality(world.phantom) \in Nat
           /\ Cardinality(Passed(cookie)) <= Cardinality(snapshot) + Cardinality(world.phantom)
  <1> DEFINE P == Passed(cookie)
             T == snapshot \cup world.phantom
             f == [rid \in P |-> hub[rid]]
  <1>1. IsFiniteSet(snapshot)
    <2>1. snapshot \in SUBSET {hub[i] : i \in DOMAIN hub}
      BY DEF CursorLive, Offered
    <2> QED BY <2>1, FiniteRange DEF TypeOK
  <1>2. IsFiniteSet(world.phantom)
    <2>1. world \in Hubs /\ world.rows \in Seq(Artifact)
      BY HubFacts DEF TypeOK, Hub
    <2>2. world.phantom \in SUBSET {world.rows[i] : i \in DOMAIN world.rows}
      BY <2>1, ConstantsAssumption
    <2> QED BY <2>1, <2>2, FiniteRange
  <1>3. /\ Cardinality(snapshot) \in Nat /\ Cardinality(world.phantom) \in Nat
        /\ IsFiniteSet(T)
        /\ Cardinality(T) = Cardinality(snapshot) + Cardinality(world.phantom)
                              - Cardinality(snapshot \cap world.phantom)
    BY <1>1, <1>2, FS_CardinalityType, FS_Union
  <1>4. IsFiniteSet(snapshot \cap world.phantom)
    <2>1. snapshot \cap world.phantom \in SUBSET snapshot OBVIOUS
    <2> QED BY <1>1, <2>1, FS_Subset
  <1>5. Cardinality(snapshot \cap world.phantom) \in Nat
    BY <1>4, FS_CardinalityType
  <1>6. f \in [P -> T] /\ \A r, q \in P : f[r] = f[q] => r = q
    BY DEF Passed, RowsCapped
  <1>7. IsFiniteSet(P) /\ Cardinality(P) \in Nat
    BY PassedFacts DEF TypeOK
  <1> HIDE DEF P, T, f
  <1>8. f \in Injection(P, T)
    BY <1>6 DEF Injection, IsInjective
  <1>9. Cardinality(P) <= Cardinality(T)
    BY <1>3, <1>8, FS_Injection
  <1>10. Cardinality(T) \in Nat
    BY <1>3, FS_CardinalityType
  <1> QED BY <1>3, <1>5, <1>7, <1>9, <1>10 DEF P

(* A batch after which more follows is full.                                *)
LEMMA BatchFull ==
    ASSUME TypeOK, More
    PROVE  Cardinality(Batch) >= world.batch
  <1> DEFINE n == world.batch
             places == 1..n
             E == Eligible
             f == [i \in places |-> CHOOSE r \in E : Rank(E, r) = i]
  <1>1. n \in Nat \ {0}
    BY HubFacts DEF Hub
  <1>2. E \in SUBSET Nat /\ IsFiniteSet(E) /\ Cardinality(E) \in Nat
    BY EligibleFacts, FS_CardinalityType
  <1>3. \A r : RankOf(r) = Rank(E, r)
    BY DEF RankOf, Rank
  <1>4. PICK r \in E : ~ (Rank(E, r) <= n)
    BY <1>3 DEF More, Batch
  <1>5. Rank(E, r) \in 1..Cardinality(E)
    <2> HIDE DEF E
    <2> QED BY <1>2, RankBounds
  <1>6. n <= Cardinality(E)
    BY <1>1, <1>2, <1>4, <1>5
  <1>7. ASSUME NEW i \in places PROVE f[i] \in E /\ Rank(E, f[i]) = i
    <2>1. i \in 1..Cardinality(E)
      BY <1>1, <1>2, <1>6
    <2>2. \E x \in E : Rank(E, x) = i
      <3> HIDE DEF E
      <3> QED BY <1>2, <2>1, RankOnto
    <2> QED BY <2>2
  <1>8. ASSUME NEW i \in places PROVE f[i] \in Batch
    <2>1. i <= n BY <1>1
    <2> QED BY <1>3, <1>7, <2>1 DEF Batch
  <1>9. DOMAIN f = places
    OBVIOUS
  <1>10. IsFiniteSet(places) /\ Cardinality(places) = n
    BY <1>1, FS_Interval
  <1> HIDE DEF f, E, places, n
  <1>11. f \in [places -> Batch]
    <2>1. f = [i \in places |-> f[i]] BY <1>9 DEF f
    <2> QED BY <1>8, <2>1
  <1>12. f \in Injection(places, Batch)
    BY <1>7, <1>11 DEF Injection, IsInjective
  <1>13. Cardinality(places) <= Cardinality(Batch)
    BY <1>12, EligibleFacts, FS_Injection
  <1>14. Cardinality(Batch) \in Nat
    BY EligibleFacts, FS_CardinalityType
  <1> QED BY <1>1, <1>10, <1>13, <1>14 DEF n

(* A batch lies behind the rows already passed.                             *)
LEMMA PassedWithBatch ==
    ASSUME TypeOK, NEW c \in Nat, Batch # {}, \A r \in Batch : r <= c
    PROVE  Cardinality(Passed(c)) >= Cardinality(Passed(Cursor)) + Cardinality(Batch)
  <1> DEFINE P == Passed(Cursor)
  <1>0. Cursor \in Nat
    BY DEF Cursor, TypeOK
  <1>1. \A r \in Batch : /\ r \in Nat /\ r > Cursor /\ r \in DOMAIN hub
                         /\ Real(r) /\ hub[r] \notin world.private
    BY EligibleFacts DEF Batch, Eligible
  <1>2. Cursor <= c
    BY <1>0, <1>1
  <1>3. Batch \subseteq Passed(c)
    BY <1>1 DEF Passed
  <1>4. P \subseteq Passed(c)
    <2> SUFFICES ASSUME NEW r \in DOMAIN hub, r <= Cursor PROVE r <= c
      BY DEF Passed
    <2> QED BY <1>0, <1>2, HubFacts
  <1>5. P \cap Batch = {}
    <2> SUFFICES ASSUME NEW r \in Batch, r \in P PROVE FALSE
      OBVIOUS
    <2>1. r <= Cursor BY DEF Passed
    <2> QED BY <1>0, <1>1, <2>1
  <1>6. IsFiniteSet(P) /\ IsFiniteSet(Batch) /\ IsFiniteSet(Passed(c))
    BY <1>0, PassedFacts, EligibleFacts
  <1>7. P \cup Batch \in SUBSET Passed(c)
    BY <1>3, <1>4
  <1> HIDE DEF P
  <1>8. Cardinality(P \cup Batch) <= Cardinality(Passed(c))
    BY <1>6, <1>7, FS_Subset
  <1>9. Cardinality(P \cup Batch) = Cardinality(P) + Cardinality(Batch) - Cardinality(P \cap Batch)
    BY <1>6, FS_Union
  <1>10. Cardinality(P \cap Batch) = 0
    BY <1>5, FS_EmptySet
  <1>11. Cardinality(P) \in Nat /\ Cardinality(Batch) \in Nat /\ Cardinality(Passed(c)) \in Nat
    BY <1>6, FS_CardinalityType
  <1> QED BY <1>8, <1>9, <1>10, <1>11 DEF P

-----------------------------------------------------------------------------
LEMMA WorldKept ==
    ASSUME [Next]_vars
    PROVE  world' = world
  BY DEF Next, Step, BuildRequest, Serve, HandleFile, EndRound, Interrupt, Restart,
         HubWrite, HubFill, hubVars, vars

LEMMA CapInHub ==
    ASSUME TypeOK, RowsCapped
    PROVE  Cap <= Len(hub)
  <1>1. CASE cookie # 0
    BY <1>1 DEF Cap, RowsCapped
  <1>2. CASE cookie = 0
    <2> DEFINE rids == {0} \cup {rid \in DOMAIN hub : Real(rid)}
    <2>1. rids \in SUBSET (0..Len(hub)) /\ rids # {} /\ Len(hub) \in Nat
      BY HubFacts
    <2>2. Cap = Max(rids)
      BY <1>2 DEF Cap
    <2> HIDE DEF rids
    <2>3. Max(rids) \in 0..Len(hub)
      BY <2>1, MaxElement
    <2> QED BY <2>1, <2>2, <2>3
  <1> QED BY <1>1, <1>2

LEMMA InitRowsCapped == Init => RowsCapped
  <1> SUFFICES ASSUME Init PROVE RowsCapped
    OBVIOUS
  <1>1. world \in Hubs /\ world \in Hub /\ hub = world.rows /\ hub \in Seq(Artifact)
    BY ConstantsAssumption DEF Init, Hub
  <1>2. \A i, j \in DOMAIN hub : hub[i] = hub[j] => i = j
    BY <1>1, ConstantsAssumption
  <1>3. \A rid \in DOMAIN hub : ~ (rid <= 0)
    BY <1>1
  <1>4. 0 <= Len(hub)
    BY <1>1
  <1> QED BY <1>2, <1>3, <1>4 DEF Init, RowsCapped

LEMMA NextRowsCapped ==
    ASSUME TypeOK, RowsCapped, [Next]_vars
    PROVE  RowsCapped'
  <1> USE DEF hubVars
  <1>0. \A r \in DOMAIN hub : r \in Nat \ {0}
    BY HubFacts
  <1>1. CASE Serve /\ seqno > 0
    <2>1. /\ UNCHANGED hubVars /\ cookie' = Cap
          /\ snapshot' = IF cookie = 0 THEN Offered ELSE snapshot
      BY <1>1 DEF Serve
    <2>2. Cap <= Len(hub)
      BY CapInHub
    <2>3. ASSUME NEW r \in DOMAIN hub, r <= Cap
          PROVE  hub[r] \in snapshot' \cup world.phantom \cup world.private
      <3>1. CASE cookie = 0
        BY <2>1, <3>1 DEF Offered, Real, RowsCapped
      <3>2. CASE cookie # 0
        BY <2>1, <2>3, <3>2, CapFacts DEF RowsCapped
      <3> QED BY <3>1, <3>2
    <2> QED BY <2>1, <2>2, <2>3 DEF RowsCapped
  <1>2. CASE UNCHANGED <<hubVars, cookie, snapshot>>
    BY <1>2 DEF RowsCapped
  <1>3. CASE Restart
    <2>1. UNCHANGED hubVars /\ cookie' = 0
      BY <1>3 DEF Restart
    <2>2. 0 <= Len(hub) /\ \A r \in DOMAIN hub : ~ (r <= 0)
      BY HubFacts
    <2> QED BY <2>1, <2>2 DEF RowsCapped
  <1>4. ASSUME NEW a \in Artifact, HubWrite(a) PROVE RowsCapped'
    <2>1. /\ hub' = Append(hub, a) /\ UNCHANGED <<world, hubPhantom, cookie, snapshot>>
          /\ \A rid \in DOMAIN hub : hub[rid] # a
      BY <1>4 DEF HubWrite
    <2> DEFINE n == Len(hub)
    <2>2. /\ n \in Nat /\ DOMAIN hub = 1..n /\ cookie \in Nat /\ cookie <= n
          /\ Len(hub') = n + 1 /\ DOMAIN hub' = 1..n + 1
          /\ hub'[n + 1] = a /\ \A i \in 1..n : hub'[i] = hub[i]
      BY <2>1 DEF TypeOK, RowsCapped
    <2> HIDE DEF n
    <2>3. \A i \in DOMAIN hub' : i \in DOMAIN hub \/ i = n + 1
      BY <2>2
    <2>4. \A i, j \in DOMAIN hub' : hub'[i] = hub'[j] => i = j
      BY <2>1, <2>2, <2>3 DEF RowsCapped
    <2>5. ASSUME NEW r \in DOMAIN hub', r <= cookie
          PROVE  r \in DOMAIN hub
      BY <2>2, <2>3, <2>5
    <2>6. cookie <= Len(hub')
      BY <2>2
    <2> QED BY <2>1, <2>2, <2>4, <2>5, <2>6 DEF RowsCapped
  <1>5. ASSUME NEW a \in Artifact, HubFill(a) PROVE RowsCapped'
    BY <1>5 DEF HubFill, RowsCapped
  <1>6. Serve /\ ~ (seqno > 0) => UNCHANGED <<hubVars, cookie, snapshot>>
    BY DEF Serve
  <1> QED BY <1>1, <1>2, <1>3, <1>4, <1>5, <1>6
      DEF Next, Step, BuildRequest, HandleFile, EndRound, Interrupt, vars

LEMMA NextNothingMissing ==
    ASSUME TypeOK, Stages, SentWhole, NothingMissing, [Next]_vars
    PROVE  NothingMissing'
  <1> USE DEF hubVars, newRepo
  <1>1. CASE BuildRequest
    BY <1>1 DEF BuildRequest, NothingMissing
  <1>2. CASE Serve
    <2>1. PICK order \in InSomeOrder(Gimmed) :
            files' = LET gimmed == [i \in DOMAIN order |-> Whole(order[i])] IN
                     IF seqno > 0 THEN gimmed \o InRidOrder(Batch) ELSE gimmed
      BY <1>2 DEF Serve
    <2> DEFINE gimmed == [i \in DOMAIN order |-> Whole(order[i])]
               batch == InRidOrder(Batch)
    <2>2. Gimmed = {}
      BY DEF Gimmed, NothingMissing
    <2>3. gimmed \in Seq(Card) /\ Uuids(gimmed) = {}
      <3>1. Gimmed \in SUBSET Artifact /\ IsFiniteSet(Gimmed)
        BY <2>2, FS_EmptySet
      <3> QED BY <2>2, <3>1, InSomeOrderFacts
    <2>4. batch \in Seq(Card) /\ Uuids(batch) = {hub[r] : r \in Batch}
      BY InRidOrderFacts
    <2>5. \A i \in DOMAIN batch : batch[i].src = NoArtifact
      <3> DEFINE row(i) == CHOOSE r \in Batch : Cardinality({x \in Batch : x <= r}) = i
      <3>1. \A i \in DOMAIN batch : batch[i] = AsSent(hub[row(i)])
        BY DEF InRidOrder
      <3>2. ASSUME NEW i \in DOMAIN batch PROVE batch[i].src = NoArtifact
        <4>1. batch[i] = AsSent(hub[row(i)]) BY <3>1
        <4>2. batch[i] \in Card
          <5> HIDE DEF batch
          <5> QED BY <2>4
        <4> HIDE DEF row, batch
        <4>3. batch[i].uuid = hub[row(i)] /\ batch[i].uuid \in Artifact
          BY <4>1, <4>2 DEF AsSent, Card
        <4> QED BY <4>1, <4>3 DEF AsSent, SentWhole
      <3> QED BY <3>2
    <2>6. gimmed = << >>
      <3> HIDE DEF gimmed
      <3>1. \A i \in DOMAIN gimmed : gimmed[i].uuid \in Uuids(gimmed)
        BY DEF Uuids
      <3>2. DOMAIN gimmed = {}
        BY <2>3, <3>1
      <3> QED BY <2>3, <3>2
    <2>7. files' = IF seqno > 0 THEN gimmed \o batch ELSE gimmed
      BY <2>1
    <2> HIDE DEF gimmed, batch
    <2>8. << >> \o batch = batch
      BY <2>4
    <2>9. files' \in {<< >>, batch}
      BY <2>6, <2>7, <2>8
    <2>10. \A i \in DOMAIN files' : files'[i].src = NoArtifact
      BY <2>5, <2>9
    <2> QED BY <1>2, <2>10 DEF Serve, NothingMissing
  <1>3. CASE HandleFile
    <2>1. files \in Seq(Card) /\ files # << >>
      BY <1>3 DEF HandleFile, TypeOK
    <2>2. Head(files).src = NoArtifact
      BY <2>1 DEF NothingMissing
    <2>3. /\ DOMAIN files = 1..Len(files) /\ Len(files) \in Nat
          /\ DOMAIN Tail(files) = 1..Len(files) - 1
          /\ \A i \in 1..Len(files) - 1 : Tail(files)[i] = files[i + 1]
      BY <2>1
    <2>4. \A i \in DOMAIN Tail(files) : Tail(files)[i].src = NoArtifact
      BY <2>3 DEF NothingMissing
    <2>5. Resolvable(NoArtifact) /\ ~SourceMissing(NoArtifact)
      BY DEF Resolvable, SourceMissing
    <2>6. Stored(Head(files).uuid) /\ files' = Tail(files) /\ asked' = asked
      BY <1>3, <2>2, <2>5 DEF HandleFile
    <2>7. phantoms' = {} /\ asked' = {}
      BY <2>6 DEF Stored, NothingMissing
    <2> QED BY <2>4, <2>6, <2>7 DEF NothingMissing
  <1>4. CASE UNCHANGED newRepo
    BY <1>4 DEF NothingMissing
  <1>5. ASSUME NEW how, Abort(how) PROVE NothingMissing'
    BY <1>5 DEF Abort, NothingMissing
  <1> QED BY <1>1, <1>2, <1>3, <1>4, <1>5
      DEF Next, Step, EndRound, Interrupt, Restart, HubWrite, HubFill, vars

(* Writers only add to the rows passed; other steps leave them.             *)
LEMMA PassedKept ==
    ASSUME TypeOK, NEW c \in Nat, TypeOK',
           UNCHANGED hubVars \/ \E a \in Artifact : HubWrite(a) \/ HubFill(a)
    PROVE  \A k \in Int : Cardinality(Passed(c)) >= k => Cardinality(Passed(c)') >= k
  <1> DEFINE S == Passed(c)
             T == Passed(c)'
  <1>1. S \subseteq T
    <2>1. CASE UNCHANGED hubVars
      BY <2>1 DEF hubVars, Passed, Real
    <2>2. ASSUME NEW a \in Artifact, HubWrite(a) PROVE S \subseteq T
      <3>1. /\ world' = world /\ hubPhantom' = hubPhantom
            /\ \A r \in DOMAIN hub : r \in DOMAIN hub' /\ hub'[r] = hub[r]
        BY <2>2, HubFacts DEF HubWrite, TypeOK
      <3> QED BY <3>1 DEF Passed, Real
    <2>3. ASSUME NEW a \in Artifact, HubFill(a) PROVE S \subseteq T
      BY <2>3 DEF HubFill, Passed, Real
    <2> QED BY <2>1, <2>2, <2>3
  <1>2. IsFiniteSet(T)
    <2>1. T \in SUBSET DOMAIN hub'
      BY DEF Passed
    <2>2. IsFiniteSet(DOMAIN hub')
      <3>1. Len(hub') \in Nat /\ DOMAIN hub' = 1..Len(hub')
        BY DEF TypeOK
      <3> QED BY <3>1, FS_Interval
    <2> QED BY <2>1, <2>2, FS_Subset
  <1>3. Cardinality(S) \in Nat
    BY PassedFacts
  <1> HIDE DEF S, T
  <1>4. Cardinality(S) <= Cardinality(T) /\ Cardinality(T) \in Nat
    BY <1>1, <1>2, FS_Subset, FS_CardinalityType
  <1> QED BY <1>3, <1>4 DEF S, T

(* One answer of the hub: what it sends lies behind everything sent before, *)
(* and if more follows it is a full batch.                                  *)
LEMMA ServeBatches ==
    ASSUME TypeOK, Stages, NothingMissing, FullBatches, Serve
    PROVE  FullBatches'
  <1> DEFINE b == world.batch
  <1>0. /\ b \in Nat \ {0} /\ cycle \in Nat /\ Cap \in Nat /\ NextCursor \in Nat
        /\ cookie \in Nat /\ seqno \in Nat
    BY HubFacts, CapFacts, CursorFacts DEF Hub, TypeOK
  <1>1. /\ st = "serving" /\ st' = "receiving" /\ UNCHANGED <<world, hub, hubPhantom, cycle>>
        /\ filesRecvd' = 0
    BY DEF Serve, Stages, hubVars
  <1>2. \A c : Passed(c)' = Passed(c')
    BY <1>1 DEF Passed, Real
  <1>3. InFiles' = IF seqno > 0 THEN {hub[r] : r \in Batch} ELSE {}
    <2>1. Gimmed = {} BY DEF Gimmed, NothingMissing
    <2> QED BY <2>1, ServeEffect
  <1>4. files' # << >> => InFiles' # {}
    <2>1. files' \in Seq(Card) BY ServeEffect
    <2>2. files' # << >> => 1 \in DOMAIN files' BY <2>1
    <2> QED BY <2>2 DEF InFiles, Uuids
  <1>5. CASE seqno > 0
    <2>1. nextSeqno' = NextCursor /\ cookie' = Cap
      BY <1>5 DEF Serve
    <2>2. Cardinality(Passed(Cursor)) >= b * cycle
      BY <1>1, <1>5 DEF FullBatches
    <2>3. /\ Cardinality(Passed(Cursor)) \in Nat /\ Cardinality(Passed(Cap)) \in Nat
          /\ Cardinality(Passed(NextCursor)) \in Nat
          /\ Cardinality(Batch) \in Nat /\ b * cycle \in Nat
      <3>1. Cursor \in Nat BY DEF Cursor, TypeOK
      <3>2. b * cycle \in Nat BY <1>0
      <3>3. Cardinality(Batch) \in Nat BY EligibleFacts, FS_CardinalityType
      <3> QED BY <1>0, <3>1, <3>2, <3>3, PassedFacts
    <2>4. ASSUME Batch # {} PROVE Cardinality(Passed(Cap)) > b * cycle
      <3>1. \A r \in Batch : r <= Cap
        BY DEF Batch, Eligible
      <3>2. Cardinality(Batch) # 0
        BY <2>4, EligibleFacts, FS_EmptySet
      <3>3. Cardinality(Passed(Cap)) >= Cardinality(Passed(Cursor)) + Cardinality(Batch)
        BY <1>0, <2>4, <3>1, PassedWithBatch
      <3> QED BY <2>2, <2>3, <3>2, <3>3
    <2>5. ASSUME More
          PROVE  Batch # {} /\ Cardinality(Passed(NextCursor)) >= b * (cycle + 1)
      <3>1. Batch # {}
        BY <2>5, EligibleFacts, BatchFacts DEF More
      <3>2. Len(hub) \in Nat /\ Batch \in SUBSET (0..Len(hub))
        BY HubFacts, EligibleFacts
      <3>3. \A r \in Batch : r <= NextCursor
        <4>1. NextCursor = Max(Batch) BY <2>5 DEF NextCursor
        <4>2. \A r \in Batch : Max(Batch) >= r BY <3>1, <3>2, MaxElement
        <4>3. \A r \in Batch : r \in Nat BY EligibleFacts
        <4> QED BY <1>0, <4>1, <4>2, <4>3
      <3>4. Cardinality(Passed(NextCursor))
              >= Cardinality(Passed(Cursor)) + Cardinality(Batch)
        BY <1>0, <3>1, <3>3, PassedWithBatch
      <3>5. Cardinality(Batch) >= b
        BY <2>5, BatchFull
      <3>6. b * (cycle + 1) = b * cycle + b
        BY <1>0
      <3>7. Cardinality(Passed(NextCursor)) >= b * cycle + b
        BY <1>0, <2>2, <2>3, <3>4, <3>5
      <3> QED BY <3>1, <3>6, <3>7
    <2>6. NextCursor > 0 => More
      BY DEF NextCursor
    <2>7. files' # << >> => Batch # {}
      BY <1>3, <1>4, <1>5
    <2>8. /\ nextSeqno' > 0 => Cardinality(Passed(nextSeqno)') >= b * (cycle + 1)
          /\ nextSeqno' > 0 \/ files' # << >> => Cardinality(Passed(cookie)') > b * cycle
      BY <1>2, <2>1, <2>4, <2>5, <2>6, <2>7
    <2> QED BY <1>1, <2>8 DEF FullBatches
  <1>6. CASE ~ (seqno > 0)
    <2>1. nextSeqno' = 0 /\ files' = << >>
      BY <1>3, <1>4, <1>6 DEF Serve
    <2> QED BY <1>1, <2>1 DEF FullBatches
  <1> QED BY <1>5, <1>6

LEMMA NextInTime ==
    ASSUME MaxRounds >= 2, CloneInv, RowsCapped, SentWhole, InTime, [Next]_vars, TypeOK'
    PROVE  InTime'
  <1> USE DEF hubVars, newRepo
  <1>0. /\ world.batch \in Nat \ {0} /\ cycle \in Nat /\ seqno \in Nat /\ cookie \in Nat
        /\ nextSeqno \in Nat /\ filesRecvd \in Nat /\ MaxRounds \in Nat
        /\ world' = world
    BY HubFacts, ConstantsAssumption, WorldKept DEF CloneInv, Hub, TypeOK
  <1>1. NothingMissing'
    BY NextNothingMissing DEF CloneInv, InTime
  <1>2. CASE BuildRequest
    <2>1. UNCHANGED <<world, hub, hubPhantom, cycle, seqno>> /\ st = "ready" /\ st' = "serving"
      BY <1>2 DEF BuildRequest
    <2>2. Passed(Cursor)' = Passed(Cursor)
      BY <2>1 DEF Passed, Real, Cursor
    <2> QED BY <1>1, <2>1, <2>2 DEF InTime, FullBatches, CloneConverges
  <1>3. CASE Serve
    <2>1. FullBatches'
      BY <1>3, ServeBatches DEF CloneInv, InTime
    <2>2. st' = "receiving"
      BY <1>3 DEF Serve
    <2> QED BY <1>1, <2>1, <2>2 DEF InTime, CloneConverges
  <1>4. CASE HandleFile
    <2>1. /\ UNCHANGED <<world, hub, hubPhantom, cycle, cookie, nextSeqno>>
          /\ st = "receiving" /\ files # << >> /\ st' \in {"receiving", "failed"}
      BY <1>4, HandleFileEffect DEF HandleFile, CloneInv
    <2>2. Passed(nextSeqno)' = Passed(nextSeqno) /\ Passed(cookie)' = Passed(cookie)
      BY <2>1 DEF Passed, Real
    <2> QED BY <1>1, <2>1, <2>2 DEF InTime, FullBatches, CloneConverges
  <1>5. CASE EndRound
    <2>1. /\ UNCHANGED <<world, hub, hubPhantom, cookie, snapshot>>
          /\ st = "receiving" /\ seqno' = nextSeqno /\ cycle' = cycle + 1
      BY <1>5 DEF EndRound
    <2>2. CASE st' = "done"
      BY <1>1, <2>2 DEF InTime, FullBatches, CloneConverges
    <2>3. CASE st' = "ready"
      <3>1. Cursor' = nextSeqno
        BY <1>0, <2>1 DEF Cursor
      <3>2. Passed(Cursor)' = Passed(nextSeqno)
        BY <2>1, <3>1 DEF Passed, Real
      <3>3. seqno' > 0 => Cardinality(Passed(Cursor)') >= world.batch * cycle'
        BY <2>1, <3>2 DEF InTime, FullBatches
      <3> QED BY <1>0, <1>1, <2>3, <3>3 DEF InTime, FullBatches, CloneConverges
    <2>4. CASE ~Finished /\ cycle + 1 >= MaxRounds /\ Abort("exceeded")
      <3>1. st' = "exceeded"
        BY <2>4 DEF Abort
      <3>2. cycle = MaxRounds - 1 /\ cycle >= 1
        <4>1. cycle < MaxRounds BY <2>1 DEF CloneInv, Stages, Running
        <4> QED BY <1>0, <2>4, <4>1
      <3>3. Cardinality(phantoms) = 0
        BY FS_EmptySet DEF InTime, NothingMissing
      <3>4. filesRecvd > 0 \/ nextSeqno > 0
        BY <1>0, <2>4, <3>2, <3>3 DEF Finished
      <3>5. Cardinality(Passed(cookie)) > world.batch * (MaxRounds - 1)
        BY <2>1, <3>2, <3>4 DEF InTime, FullBatches
      <3>6. /\ Cardinality(snapshot) \in Nat /\ Cardinality(world.phantom) \in Nat
            /\ Cardinality(Passed(cookie)) <= Cardinality(snapshot) + Cardinality(world.phantom)
        BY PassedBound DEF CloneInv
      <3>7. Cardinality(Passed(cookie)) \in Nat /\ world.batch * (MaxRounds - 1) \in Int
        BY <1>0, PassedFacts DEF CloneInv
      <3>8. Cardinality(snapshot) + Cardinality(world.phantom) > world.batch * (MaxRounds - 1)
        BY <3>5, <3>6, <3>7
      <3> QED BY <1>1, <2>1, <3>1, <3>8 DEF InTime, FullBatches, CloneConverges
    <2> QED BY <1>5, <2>2, <2>3, <2>4 DEF EndRound
  <1>6. CASE Interrupt
    BY <1>1, <1>6 DEF Interrupt, Abort, InTime, FullBatches, CloneConverges
  <1>7. CASE Restart
    <2>1. st' = "ready" /\ cycle' = 0 /\ Cursor' = 0 /\ world.batch * 0 = 0
      BY <1>0, <1>7 DEF Restart, Cursor
    <2>2. Cardinality(Passed(Cursor)') \in Nat
      <3>1. Passed(Cursor)' = Passed(0)
        BY <1>7, <2>1 DEF Restart, Passed, Real
      <3> QED BY <3>1, PassedFacts DEF CloneInv
    <2> QED BY <1>0, <1>1, <2>1, <2>2 DEF InTime, FullBatches, CloneConverges
  <1>8. ASSUME NEW a \in Artifact, HubWrite(a) \/ HubFill(a) PROVE InTime'
    <2>1. UNCHANGED <<world, st, cycle, seqno, cookie, files, nextSeqno, filesRecvd, snapshot>>
      BY <1>8 DEF HubWrite, HubFill
    <2>2. Cursor' = Cursor /\ Cursor \in Nat
      BY <1>0, <2>1 DEF Cursor
    <2>3. ASSUME NEW c \in Nat, NEW k \in Int, Cardinality(Passed(c)) >= k
          PROVE  Cardinality(Passed(c)') >= k
      BY <1>8, <2>3, PassedKept DEF CloneInv
    <2>4. /\ Passed(Cursor)' = {rid \in DOMAIN hub' : /\ rid <= Cursor /\ Real(rid)'
                                                     /\ hub'[rid] \notin world.private'}
          /\ Passed(nextSeqno)' = {rid \in DOMAIN hub' : /\ rid <= nextSeqno /\ Real(rid)'
                                                        /\ hub'[rid] \notin world.private'}
          /\ Passed(cookie)' = {rid \in DOMAIN hub' : /\ rid <= cookie /\ Real(rid)'
                                                     /\ hub'[rid] \notin world.private'}
      BY <2>1, <2>2 DEF Passed
    <2>5. ASSUME NEW c \in Nat
          PROVE  Passed(c)' = {rid \in DOMAIN hub' : /\ rid <= c /\ Real(rid)'
                                                    /\ hub'[rid] \notin world.private'}
      BY DEF Passed
    <2>6. \A k \in Int : /\ Cardinality(Passed(Cursor)) >= k => Cardinality(Passed(Cursor)') >= k
                         /\ Cardinality(Passed(nextSeqno)) >= k
                              => Cardinality(Passed(nextSeqno)') >= k
                         /\ Cardinality(Passed(cookie)) >= k
                              => Cardinality(Passed(cookie)') >= k
      BY <1>0, <2>2, <2>3, <2>4, <2>5
    <2>7. /\ world.batch * cycle \in Int /\ world.batch * (cycle + 1) \in Int
          /\ Cardinality(Passed(cookie)) \in Nat /\ Cardinality(Passed(cookie)') \in Int
      <3>1. world.batch * cycle \in Int /\ world.batch * (cycle + 1) \in Int
        BY <1>0
      <3>2. Cardinality(Passed(cookie)) \in Nat
        BY <1>0, PassedFacts DEF CloneInv
      <3>3. IsFiniteSet(Passed(cookie)')
        <4>1. Passed(cookie)' \in SUBSET DOMAIN hub' BY DEF Passed
        <4>2. Len(hub') \in Nat /\ DOMAIN hub' = 1..Len(hub') BY DEF TypeOK
        <4>3. IsFiniteSet(DOMAIN hub') BY <4>2, FS_Interval
        <4> QED BY <4>1, <4>3, FS_Subset
      <3> QED BY <3>1, <3>2, <3>3, FS_CardinalityType
    <2>8. FullBatches'
      <3>1. ASSUME st \in {"ready", "serving"} /\ seqno > 0
            PROVE  Cardinality(Passed(Cursor)') >= world.batch * cycle
        BY <2>6, <2>7, <3>1 DEF InTime, FullBatches
      <3>2. ASSUME st = "receiving" /\ nextSeqno > 0
            PROVE  Cardinality(Passed(nextSeqno)') >= world.batch * (cycle + 1)
        BY <2>6, <2>7, <3>2 DEF InTime, FullBatches
      <3>3. ASSUME st = "receiving", nextSeqno > 0 \/ files # << >> \/ filesRecvd > 0
            PROVE  Cardinality(Passed(cookie)') > world.batch * cycle
        <4>1. Cardinality(Passed(cookie)) > world.batch * cycle
          BY <3>3 DEF InTime, FullBatches
        <4>2. Cardinality(Passed(cookie)) >= world.batch * cycle + 1
          BY <2>7, <4>1
        <4>3. Cardinality(Passed(cookie)') >= world.batch * cycle + 1
          BY <2>6, <2>7, <4>2
        <4> QED BY <2>7, <4>3
      <3> QED BY <2>1, <3>1, <3>2, <3>3 DEF FullBatches
    <2> QED BY <1>1, <2>1, <2>8 DEF InTime, CloneConverges
  <1>9. CASE UNCHANGED vars
    <2>1. /\ Passed(Cursor)' = Passed(Cursor) /\ Passed(nextSeqno)' = Passed(nextSeqno)
          /\ Passed(cookie)' = Passed(cookie)
      BY <1>9 DEF vars, Passed, Real, Cursor
    <2> QED BY <1>1, <1>9, <2>1 DEF vars, InTime, FullBatches, CloneConverges
  <1> QED BY <1>2, <1>3, <1>4, <1>5, <1>6, <1>7, <1>8, <1>9 DEF Next, Step

LEMMA InitInTime == Init => InTime
  <1> SUFFICES ASSUME Init PROVE InTime
    OBVIOUS
  <1>1. TypeOK
    BY InitClone DEF CloneInv
  <1>2. NothingMissing
    BY DEF Init, NothingMissing
  <1>3. cycle = 0 /\ Cursor = 0 /\ st = "ready"
    BY DEF Init, Cursor
  <1>4. Cardinality(Passed(0)) \in Nat /\ world.batch * 0 = 0
    BY <1>1, PassedFacts, HubFacts DEF Hub
  <1> QED BY <1>2, <1>3, <1>4 DEF InTime, FullBatches, CloneConverges

(* However busy its writers are, a clone of a hub that sends files in full, *)
(* as this handler does, exceeds the bound on rounds only if what the hub   *)
(* held when the cap was taken, with its phantoms, is more than the batches *)
(* of all rounds but one hold (emitCloneBatch, run; the bound is 100 in     *)
(* the code).                                                               *)
THEOREM CloneInTime == MaxRounds >= 2 => (Spec => [](SentWhole => CloneConverges))
  <1> SUFFICES ASSUME MaxRounds >= 2 PROVE Spec => [](SentWhole => CloneConverges)
    OBVIOUS
  <1> DEFINE Inv == CloneInv /\ RowsCapped /\ (SentWhole => InTime)
  <1>1. Init => Inv
    BY InitClone, InitRowsCapped, InitInTime
  <1>2. Inv /\ [Next]_vars => Inv'
    <2> SUFFICES ASSUME Inv, [Next]_vars PROVE Inv'
      OBVIOUS
    <2>1. CloneInv'
      BY NextStages, NextCursorLive, NextAccounted DEF CloneInv
    <2>2. RowsCapped'
      BY NextRowsCapped DEF CloneInv
    <2>3. SentWhole' => SentWhole
      BY WorldKept DEF SentWhole
    <2>4. SentWhole' => InTime'
      BY <2>1, <2>3, NextInTime DEF CloneInv
    <2> QED BY <2>1, <2>2, <2>4
  <1>3. Inv => (SentWhole => CloneConverges)
    BY DEF InTime
  <1> QED BY <1>1, <1>2, <1>3, PTL DEF Spec
=============================================================================
