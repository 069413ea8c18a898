--------------------------- MODULE CheckoutProofs ---------------------------
(***************************************************************************)
(* Proofs about Checkout for any files, contents, branches, histories and   *)
(* bounds: the tables and the version that is checked out belong together   *)
(* (CheckoutConsistent), and what a commit, an extraction, an update, an    *)
(* undo and a stash do to the working directory and the repository.         *)
(*                                                                         *)
(* CheckoutConsistent says nothing of a checkout in which an operation has  *)
(* stopped, yet such a checkout can be repaired by an extraction, which     *)
(* keeps the rows it finds, and an undo can put back any state saved        *)
(* before.  The invariant therefore speaks of every row of vfile and of the *)
(* undo state: it belongs to a version that exists and, unless the file was *)
(* added, has a content of it.                                              *)
(***************************************************************************)
EXTENDS Checkout, FiniteSetTheorems, FunctionTheorems, TLAPS

FilesIn(vs, v) == IF v = 0 THEN NoFiles ELSE vs[v].files

FileNames(vs, v) == {n \in Name : FilesIn(vs, v)[n] # Gone}

(* Every row is of a version there is, and its content is of that version.  *)
RowsKnown(vs, rows) ==
    \A r \in rows : /\ r.vid \in 0..Len(vs)
                    /\ ~r.added => \E n \in Name : FilesIn(vs, r.vid)[n] = r.mhash

Tracked(rows) == {r \in rows : ~r.added}

(* The rows are those of v, and there are enough for its files.             *)
Settled(vs, rows, v) ==
    /\ \A r \in rows : r.vid = v
    /\ Cardinality(Tracked(rows)) >= Cardinality(FileNames(vs, v))

(* The inductive invariant.                                                 *)
CheckoutInv ==
    /\ TypeOK
    /\ RowsKnown(versions, vfile) /\ RowsKnown(versions, undo.vfile)
    /\ ~torn => Settled(versions, vfile, vvar.checkout)
    /\ ~undo.torn => Settled(versions, undo.vfile, undo.checkout)
    /\ ~torn /\ ~crossed => vvar.hash = vvar.checkout

-----------------------------------------------------------------------------
(* Numbers: least elements and maxima.                                      *)
LessThan == {p \in Nat \X Nat : p[1] < p[2]}

LEMMA LeastElement ==
    ASSUME NEW T \in SUBSET Nat, T # {}
    PROVE  \E x \in T : \A y \in T : x <= y
  <1>1. IsWellFoundedOn(OpToRel(<, Nat), Nat)
    BY NatLessThanWellFounded
  <1>2. OpToRel(<, Nat) = LessThan
    BY DEF OpToRel, LessThan
  <1>3. IsWellFoundedOn(LessThan, Nat)
    BY <1>1, <1>2
  <1>4. PICK x \in T : \A y \in T : ~ (<<y, x>> \in LessThan)
    BY <1>3, WFMin
  <1>5. ASSUME NEW y \in T PROVE x <= y
    <2>1. ~ (<<y, x>> \in LessThan) BY <1>4
    <2>2. ~ (y < x) BY <2>1 DEF LessThan
    <2> QED BY <2>2
  <1> QED BY <1>5

LEMMA MaxElement ==
    ASSUME NEW n \in Nat, NEW S \in SUBSET (0..n), S # {}
    PROVE  Max(S) \in S /\ \A y \in S : Max(S) >= y
  <1> DEFINE bounds == {m \in Nat : \A y \in S : y <= m}
  <1>1. bounds \in SUBSET Nat /\ n \in bounds
    OBVIOUS
  <1>2. PICK m \in bounds : \A k \in bounds : m <= k
    <2> HIDE DEF bounds
    <2> QED BY <1>1, LeastElement
  <1>3. m \in S
    <2> SUFFICES ASSUME m \notin S PROVE FALSE
      OBVIOUS
    <2>1. \A y \in S : y < m
      OBVIOUS
    <2>2. m - 1 \in Nat /\ \A y \in S : y \in Nat
      <3>1. PICK y \in S : TRUE
        OBVIOUS
      <3>2. y \in Nat /\ m \in Nat /\ y < m
        BY <2>1
      <3> QED BY <3>2
    <2>3. \A y \in S : y <= m - 1
      BY <2>1, <2>2
    <2>4. m - 1 \in bounds
      BY <2>2, <2>3
    <2> QED BY <1>2, <2>2, <2>4
  <1>4. \A y \in S : m >= y
    OBVIOUS
  <1> HIDE DEF bounds
  <1>5. \E x \in S : \A y \in S : x >= y
    BY <1>3, <1>4
  <1> QED BY <1>5 DEF Max

-----------------------------------------------------------------------------
(* Typing of what the operations compute.                                   *)

LEMMA FilesOfType ==
    ASSUME TypeOK, NEW v \in 0..Len(versions)
    PROVE  FilesOf(v) \in Files /\ FilesOf(v) = FilesIn(versions, v)
  <1>1. CASE v = 0
    BY <1>1 DEF FilesOf, FilesIn, Files, NoFiles
  <1>2. CASE v # 0
    <2>1. v \in 1..Len(versions) /\ versions \in Seq(Version)
      BY <1>2 DEF TypeOK
    <2>2. versions[v] \in Version
      BY <2>1
    <2> QED BY <1>2, <2>2 DEF FilesOf, FilesIn, Version
  <1> QED BY <1>1, <1>2

LEMMA WithRowsType ==
    ASSUME TypeOK, NEW rows \in SUBSET Row
    PROVE  WithRows(disk, rows) \in Files
  BY DEF TypeOK, WithRows, Files, NamesOf, Row

LEMMA ApplyType ==
    ASSUME TypeOK, NEW files \in SUBSET StashFile
    PROVE  ApplyTo(files, disk) \in Files
  BY DEF TypeOK, ApplyTo, Files, StashFile

(* The scan sets the flag of a row and nothing else.                        *)
LEMMA ScanRow ==
    ASSUME TypeOK, NEW r \in Row
    PROVE  /\ scanSingleEntry(r) \in Row
           /\ scanSingleEntry(r).vid = r.vid
           /\ scanSingleEntry(r).name = r.name
           /\ scanSingleEntry(r).added = r.added
           /\ scanSingleEntry(r).mhash = r.mhash
           /\ scanSingleEntry(r).deleted = r.deleted
           /\ scanSingleEntry(r).orig = r.orig
           /\ ~r.deleted /\ disk[r.name] # Gone =>
                (scanSingleEntry(r).chnged <=> disk[r.name] # r.mhash)
  <1>1. CASE r.deleted \/ disk[r.name] = Gone
    BY <1>1 DEF scanSingleEntry
  <1>2. CASE ~(r.deleted \/ disk[r.name] = Gone)
    <2>1. PICK c \in BOOLEAN : c = (disk[r.name] # r.mhash)
      OBVIOUS
    <2>2. scanSingleEntry(r) = [r EXCEPT !.chnged = c]
      BY <1>2, <2>1, Zenon DEF scanSingleEntry
    <2>3. /\ [r EXCEPT !.chnged = c] \in Row
          /\ [r EXCEPT !.chnged = c].vid = r.vid
          /\ [r EXCEPT !.chnged = c].name = r.name
          /\ [r EXCEPT !.chnged = c].added = r.added
          /\ [r EXCEPT !.chnged = c].mhash = r.mhash
          /\ [r EXCEPT !.chnged = c].deleted = r.deleted
          /\ [r EXCEPT !.chnged = c].orig = r.orig
          /\ [r EXCEPT !.chnged = c].chnged = c
      BY DEF Row
    <2> QED BY <2>1, <2>2, <2>3
  <1> QED BY <1>1, <1>2

LEMMA ScannedRows ==
    ASSUME TypeOK
    PROVE  /\ Scanned \subseteq Row
           /\ \A s \in Scanned : \E r \in vfile :
                s = IF r.vid = vvar.checkout THEN scanSingleEntry(r) ELSE r
           /\ \A r \in vfile :
                (IF r.vid = vvar.checkout THEN scanSingleEntry(r) ELSE r) \in Scanned
  <1>1. vfile \subseteq Row
    BY DEF TypeOK, AreRows
  <1>2. \A r \in vfile : scanSingleEntry(r) \in Row
    BY <1>1, ScanRow
  <1> QED BY <1>1, <1>2 DEF Scanned

LEMMA BuildType ==
    ASSUME TypeOK
    PROVE  buildCommitFiles \in Files
  <1>1. FilesOf(vvar.checkout) \in Files
    BY FilesOfType DEF TypeOK
  <1>2. CommitRows \subseteq Row
    BY ScannedRows DEF CommitRows
  <1>3. \A n \in NamesOf(CommitRows) : RowNamed(n) \in CommitRows
    BY DEF NamesOf, RowNamed
  <1>4. \A n \in NamesOf(CommitRows) : RowNamed(n).mhash \in Content
    BY <1>2, <1>3 DEF Row
  <1> QED BY <1>1, <1>4 DEF buildCommitFiles, TypeOK, Files

LEMMA FileAtType ==
    ASSUME NEW d \in Files, NEW rows \in Seq(UndoRow), NEW n \in Name, NEW i \in Nat
    PROVE  FileAt(d, rows, n, i) \in Content \cup {Gone}
  <1> DEFINE before == {j \in DOMAIN rows : j < i /\ rows[j].name = n}
  <1>1. CASE before = {}
    BY <1>1 DEF FileAt, Files
  <1>2. CASE before # {}
    <2>1. before \in SUBSET (0..Len(rows)) /\ Len(rows) \in Nat
      OBVIOUS
    <2>2. Max(before) \in before
      <3> HIDE DEF before
      <3> QED BY <1>2, <2>1, MaxElement
    <2>3. Max(before) \in DOMAIN rows
      BY <2>2
    <2>4. rows[Max(before)] \in UndoRow
      BY <2>3
    <2>5. FileAt(d, rows, n, i) = rows[Max(before)].data
      BY <1>2 DEF FileAt
    <2> QED BY <2>4, <2>5 DEF UndoRow
  <1> QED BY <1>1, <1>2

LEMMA SwapType ==
    ASSUME NEW d \in Files, NEW rows \in Seq(UndoRow)
    PROVE  /\ swapDiskFiles(d, rows).disk \in Files
           /\ swapDiskFiles(d, rows).rows \in Seq(UndoRow)
  <1>0. Len(rows) \in Nat /\ DOMAIN rows = 1..Len(rows)
    OBVIOUS
  <1>1. \A n \in Name : FileAt(d, rows, n, Len(rows) + 1) \in Content \cup {Gone}
    BY <1>0, FileAtType
  <1>2. \A i \in DOMAIN rows : /\ rows[i].name \in Name
                               /\ FileAt(d, rows, rows[i].name, i) \in Content \cup {Gone}
    <2> SUFFICES ASSUME NEW i \in 1..Len(rows)
                 PROVE  /\ rows[i].name \in Name
                        /\ FileAt(d, rows, rows[i].name, i) \in Content \cup {Gone}
      BY <1>0
    <2>1. rows[i].name \in Name
      <3>1. rows[i] \in UndoRow
        OBVIOUS
      <3> QED BY <3>1 DEF UndoRow
    <2> QED BY <2>1, FileAtType
  <1>3. swapDiskFiles(d, rows).disk \in Files
    BY <1>1 DEF swapDiskFiles, Files
  <1> DEFINE new == [i \in DOMAIN rows |->
                       [name |-> rows[i].name, data |-> FileAt(d, rows, rows[i].name, i)]]
  <1>4. new \in [1..Len(rows) -> UndoRow]
    BY <1>0, <1>2 DEF UndoRow
  <1>5. swapDiskFiles(d, rows).rows = new
    BY DEF swapDiskFiles
  <1>6. new \in Seq(UndoRow)
    BY <1>0, <1>4
  <1> QED BY <1>3, <1>5, <1>6

-----------------------------------------------------------------------------
(* The rows of vfile as operations on single files change them: every row   *)
(* of new is an added file of v or stems from a row of old, and as long as  *)
(* all rows are of v no tracked file is dropped.                            *)
Follows(old, new, v) ==
    /\ \A s \in new : \/ s.added /\ s.vid = v
                      \/ \E r \in old : /\ r.vid = s.vid
                                        /\ ~s.added => ~r.added /\ r.mhash = s.mhash
    /\ (\A r \in old : r.vid = v) =>
         \E f \in [Tracked(old) -> Tracked(new)] :
           \A r, s \in Tracked(old) : f[r] = f[s] => r = s

LEMMA FiniteRows ==
    ASSUME NEW vs, Len(vs) \in Nat, NEW rows, AreRows(rows), RowsKnown(vs, rows)
    PROVE  IsFiniteSet(rows)
  <1> DEFINE keys == (0..Len(vs)) \X Name
             f == [r \in rows |-> <<r.vid, r.name>>]
  <1>1. IsFiniteSet(0..Len(vs)) /\ IsFiniteSet(Name)
    BY FS_Interval, ConstantsAssumption
  <1>2. IsFiniteSet(keys)
    BY <1>1, FS_Product
  <1>3. \A r \in rows : r.vid \in 0..Len(vs) /\ r.name \in Name
    BY DEF AreRows, Row, RowsKnown
  <1>4. f \in [rows -> keys]
    BY <1>3
  <1>5. \A r, s \in rows : f[r] = f[s] => r = s
    BY DEF AreRows
  <1>6. f \in Injection(rows, keys)
    BY <1>4, <1>5 DEF Injection, IsInjective
  <1> QED BY <1>2, <1>6, FS_Injection

LEMMA FileNamesFinite ==
    ASSUME NEW vs, NEW v
    PROVE  IsFiniteSet(FileNames(vs, v)) /\ Cardinality(FileNames(vs, v)) \in Nat
  <1>1. FileNames(vs, v) \in SUBSET Name /\ IsFiniteSet(Name)
    BY ConstantsAssumption DEF FileNames
  <1> QED BY <1>1, FS_Subset, FS_CardinalityType

LEMMA FollowsKeeps ==
    ASSUME NEW vs, Len(vs) \in Nat, NEW v \in 0..Len(vs), NEW old, NEW new,
           AreRows(old), AreRows(new), RowsKnown(vs, old), Follows(old, new, v)
    PROVE  /\ RowsKnown(vs, new)
           /\ Settled(vs, old, v) => Settled(vs, new, v)
  <1>1. RowsKnown(vs, new)
    BY DEF RowsKnown, Follows
  <1>2. ASSUME Settled(vs, old, v) PROVE Settled(vs, new, v)
    <2>1. \A r \in old : r.vid = v
      BY <1>2 DEF Settled
    <2>2. \A s \in new : s.vid = v
      BY <2>1 DEF Follows
    <2>3. PICK f \in [Tracked(old) -> Tracked(new)] :
              \A r, s \in Tracked(old) : f[r] = f[s] => r = s
      BY <2>1 DEF Follows
    <2>4. f \in Injection(Tracked(old), Tracked(new))
      BY <2>3 DEF Injection, IsInjective
    <2>5. IsFiniteSet(old) /\ IsFiniteSet(new)
      BY <1>1, FiniteRows
    <2>6. Tracked(old) \in SUBSET old /\ Tracked(new) \in SUBSET new
      BY DEF Tracked
    <2>7. /\ Cardinality(Tracked(old)) \in Nat /\ Cardinality(Tracked(new)) \in Nat
          /\ IsFiniteSet(Tracked(new))
      BY <2>5, <2>6, FS_Subset, FS_CardinalityType
    <2>8. Cardinality(Tracked(old)) <= Cardinality(Tracked(new))
      BY <2>4, <2>7, FS_Injection
    <2>9. Cardinality(FileNames(vs, v)) \in Nat
      BY FileNamesFinite
    <2>10. Cardinality(Tracked(old)) >= Cardinality(FileNames(vs, v))
      BY <1>2 DEF Settled
    <2>11. Cardinality(Tracked(new)) >= Cardinality(FileNames(vs, v))
      BY <2>7, <2>8, <2>9, <2>10
    <2> QED BY <2>2, <2>11 DEF Settled
  <1> QED BY <1>1, <1>2

(* A row of the current version gives way to one of the same content.       *)
LEMMA ReplaceRow ==
    ASSUME TypeOK, NEW r \in Current, NEW q \in Row,
           q.vid = r.vid, q.added = r.added, q.mhash = r.mhash,
           q.name = r.name \/ q.name \notin NamesOf(Current)
    PROVE  /\ AreRows((vfile \ {r}) \cup {q})
           /\ Follows(vfile, (vfile \ {r}) \cup {q}, vvar.checkout)
  <1> DEFINE new == (vfile \ {r}) \cup {q}
             f == [s \in Tracked(vfile) |-> IF s = r THEN q ELSE s]
  <1>1. r \in vfile /\ r.vid = vvar.checkout
    BY DEF Current
  <1>2. \A s \in vfile \ {r} : ~(s.vid = q.vid /\ s.name = q.name)
    BY <1>1 DEF TypeOK, AreRows, NamesOf, Current
  <1>3. AreRows(new)
    BY <1>2 DEF TypeOK, AreRows
  <1>4. q \notin vfile \ {r}
    BY <1>2
  <1>5. f \in [Tracked(vfile) -> Tracked(new)]
    BY DEF Tracked
  <1>6. \A s, t \in Tracked(vfile) : f[s] = f[t] => s = t
    BY <1>4 DEF Tracked
  <1>7. \A s \in new : \E t \in vfile : /\ t.vid = s.vid
                                        /\ ~s.added => ~t.added /\ t.mhash = s.mhash
    BY <1>1
  <1> HIDE DEF f
  <1> QED BY <1>3, <1>5, <1>6, <1>7 DEF Follows

(* Some rows stay, others are reverted, and the rest are dropped.           *)
LEMMA RevertRows ==
    ASSUME TypeOK, NEW A \in SUBSET vfile, NEW B \in SUBSET vfile, A \cap B = {},
           NEW v, (\A r \in vfile : r.vid = v) => Tracked(vfile) \subseteq A \cup B
    PROVE  AreRows(A \cup Reverted(B)) /\ Follows(vfile, A \cup Reverted(B), v)
  <1> DEFINE g(r) == [r EXCEPT !.chnged = FALSE, !.deleted = FALSE]
             new == A \cup Reverted(B)
             f == [r \in Tracked(vfile) |-> IF r \in A THEN r ELSE g(r)]
  <1>0. vfile \subseteq Row
    BY DEF TypeOK, AreRows
  <1>1. \A r \in Row : /\ g(r) \in Row /\ g(r).vid = r.vid /\ g(r).name = r.name
                       /\ g(r).added = r.added /\ g(r).mhash = r.mhash
    BY DEF Row
  <1>2. Reverted(B) = {g(r) : r \in {s \in B : ~s.added}}
    BY DEF Reverted
  <1> HIDE DEF g
  <1>3. \A s \in new : \E r \in A \cup B :
            /\ r.vid = s.vid /\ r.name = s.name /\ r.added = s.added /\ r.mhash = s.mhash
            /\ s = IF r \in A THEN r ELSE g(r)
    BY <1>0, <1>1, <1>2
  <1>4. AreRows(new)
    <2>1. new \subseteq Row
      BY <1>0, <1>1, <1>2
    <2>2. ASSUME NEW s \in new, NEW t \in new, s.vid = t.vid, s.name = t.name PROVE s = t
      <3>1. PICK r \in A \cup B : /\ r.vid = s.vid /\ r.name = s.name
                                  /\ s = IF r \in A THEN r ELSE g(r)
        BY <1>3
      <3>2. PICK q \in A \cup B : /\ q.vid = t.vid /\ q.name = t.name
                                  /\ t = IF q \in A THEN q ELSE g(q)
        BY <1>3
      <3>3. r \in vfile /\ q \in vfile
        OBVIOUS
      <3>4. r = q
        BY <2>2, <3>1, <3>2, <3>3 DEF TypeOK, AreRows
      <3> QED BY <3>1, <3>2, <3>4
    <2> QED BY <2>1, <2>2 DEF AreRows
  <1>5. ASSUME \A r \in vfile : r.vid = v
        PROVE  \E h \in [Tracked(vfile) -> Tracked(new)] :
                 \A r, s \in Tracked(vfile) : h[r] = h[s] => r = s
    <2>1. \A r \in Tracked(vfile) : r \in A \/ r \in B
      BY <1>5
    <2>2. \A r \in Tracked(vfile) : f[r] \in Tracked(new)
      <3> SUFFICES ASSUME NEW r \in Tracked(vfile) PROVE f[r] \in Tracked(new)
        OBVIOUS
      <3>1. r \in vfile /\ ~r.added
        BY DEF Tracked
      <3>2. CASE r \in A
        BY <3>1, <3>2 DEF Tracked
      <3>3. CASE r \notin A
        <4>1. r \in B /\ g(r) \in Reverted(B)
          BY <1>2, <2>1, <3>1, <3>3
        <4>2. ~g(r).added
          BY <1>0, <1>1, <3>1
        <4> QED BY <3>3, <4>1, <4>2 DEF Tracked
      <3> QED BY <3>2, <3>3
    <2>3. f \in [Tracked(vfile) -> Tracked(new)]
      BY <2>2
    <2>4. ASSUME NEW r \in Tracked(vfile), NEW s \in Tracked(vfile), f[r] = f[s] PROVE r = s
      <3>1. r \in vfile /\ s \in vfile
        BY DEF Tracked
      <3>2. f[r].vid = r.vid /\ f[r].name = r.name /\ f[s].vid = s.vid /\ f[s].name = s.name
        BY <1>0, <1>1, <3>1
      <3> QED BY <2>4, <3>1, <3>2 DEF TypeOK, AreRows
    <2> HIDE DEF f, new
    <2> QED BY <2>3, <2>4
  <1>6. \A s \in new : \E r \in vfile : /\ r.vid = s.vid
                                        /\ ~s.added => ~r.added /\ r.mhash = s.mhash
    BY <1>3
  <1> HIDE DEF new, f
  <1>7. Follows(vfile, new, v)
    BY <1>5, <1>6 DEF Follows
  <1> QED BY <1>4, <1>7 DEF new

(* A scan sets flags only.                                                  *)
LEMMA ScanFollows ==
    ASSUME TypeOK
    PROVE  AreRows(Scanned) /\ Follows(vfile, Scanned, vvar.checkout)
  <1> DEFINE g(r) == IF r.vid = vvar.checkout THEN scanSingleEntry(r) ELSE r
             f == [r \in Tracked(vfile) |-> g(r)]
  <1>0. vfile \subseteq Row
    BY DEF TypeOK, AreRows
  <1>1. \A r \in vfile : /\ g(r) \in Row /\ g(r).vid = r.vid /\ g(r).name = r.name
                         /\ g(r).added = r.added /\ g(r).mhash = r.mhash
    BY <1>0, ScanRow
  <1>2. (\A s \in Scanned : \E r \in vfile : s = g(r)) /\ \A r \in vfile : g(r) \in Scanned
    BY ScannedRows
  <1> HIDE DEF g
  <1>3. AreRows(Scanned)
    <2>1. Scanned \subseteq Row
      BY ScannedRows
    <2>2. ASSUME NEW s \in Scanned, NEW t \in Scanned, s.vid = t.vid, s.name = t.name PROVE s = t
      <3>1. PICK r \in vfile : s = g(r)
        BY <1>2
      <3>2. PICK q \in vfile : t = g(q)
        BY <1>2
      <3>3. r.vid = q.vid /\ r.name = q.name
        BY <1>1, <2>2, <3>1, <3>2
      <3>4. r = q
        BY <3>3 DEF TypeOK, AreRows
      <3> QED BY <3>1, <3>2, <3>4
    <2> QED BY <2>1, <2>2 DEF AreRows
  <1>4. f \in [Tracked(vfile) -> Tracked(Scanned)]
    BY <1>1, <1>2 DEF Tracked
  <1>5. ASSUME NEW r \in Tracked(vfile), NEW s \in Tracked(vfile), f[r] = f[s] PROVE r = s
    <2>1. r \in vfile /\ s \in vfile
      BY DEF Tracked
    <2>2. f[r].vid = r.vid /\ f[r].name = r.name /\ f[s].vid = s.vid /\ f[s].name = s.name
      BY <1>1, <2>1
    <2> QED BY <1>5, <2>1, <2>2 DEF TypeOK, AreRows
  <1>6. \A s \in Scanned : \E r \in vfile : /\ r.vid = s.vid
                                            /\ ~s.added => ~r.added /\ r.mhash = s.mhash
    BY <1>1, <1>2
  <1> HIDE DEF f
  <1> QED BY <1>3, <1>4, <1>5, <1>6 DEF Follows

(* Loading the rows of a version, or some of them.                          *)
LEMMA PartRows ==
    ASSUME TypeOK, NEW v \in Nat, NEW files \in Files, NEW some \in SUBSET Name
    PROVE  /\ AreRows(LoadPart(v, files, some))
           /\ \A r \in LoadPart(v, files, some) :
                /\ r.vid = v
                /\ r \in vfile \/ (~r.added /\ \E n \in Name : files[n] = r.mhash)
           /\ \A n \in some : files[n] # Gone => \E r \in LoadPart(v, files, some) : r.name = n
           /\ \A r \in vfile : r.vid = v => r \in LoadPart(v, files, some)
  <1> DEFINE kept == {r \in vfile : r.vid = v}
             names == {m \in some : files[m] # Gone} \ NamesOf(kept)
             fresh == {FreshRow(v, n, files[n]) : n \in names}
  <1>1. LoadPart(v, files, some) = kept \cup fresh
    BY DEF LoadPart
  <1>2. \A n \in names : /\ FreshRow(v, n, files[n]) \in Row
                         /\ FreshRow(v, n, files[n]).vid = v
                         /\ FreshRow(v, n, files[n]).name = n
                         /\ ~FreshRow(v, n, files[n]).added
                         /\ FreshRow(v, n, files[n]).mhash = files[n]
                         /\ n \notin NamesOf(kept)
    BY DEF FreshRow, Row, Files
  <1>3. kept \subseteq Row /\ \A r, s \in kept : r.name = s.name => r = s
    BY DEF TypeOK, AreRows
  <1>4. \A r \in kept : r.name \in NamesOf(kept)
    BY DEF NamesOf
  <1>5. fresh \subseteq Row
    BY <1>2
  <1>6. \A r \in fresh : r.name \in names /\ r = FreshRow(v, r.name, files[r.name])
    BY <1>2
  <1>7. \A r \in kept \cup fresh : r.vid = v
    <2>1. \A r \in fresh : r.vid = v
      <3> HIDE DEF fresh, names
      <3> SUFFICES ASSUME NEW r \in fresh PROVE r.vid = v
        OBVIOUS
      <3>1. r.name \in names /\ r = FreshRow(v, r.name, files[r.name])
        BY <1>6
      <3>2. FreshRow(v, r.name, files[r.name]).vid = v
        BY <1>2, <3>1
      <3> QED BY <3>1, <3>2, Zenon
    <2>2. \A r \in kept : r.vid = v
      OBVIOUS
    <2> QED BY <2>1, <2>2
  <1>8. \A r, s \in kept \cup fresh : r.name = s.name => r = s
    <2>1. \A r, s \in fresh : r.name = s.name => r = s
      BY <1>6
    <2>2. \A r \in kept, s \in fresh : r.name # s.name
      BY <1>2, <1>4, <1>6
    <2> QED BY <1>3, <2>1, <2>2
  <1>9. AreRows(kept \cup fresh)
    BY <1>3, <1>5, <1>8 DEF AreRows
  <1>10. ASSUME NEW r \in fresh PROVE ~r.added /\ \E n \in Name : files[n] = r.mhash
    <2>1. r.name \in names /\ r = FreshRow(v, r.name, files[r.name])
      BY <1>6
    <2>2. ~r.added /\ files[r.name] = r.mhash
      BY <1>2, <2>1
    <2>3. r.name \in Name
      BY <2>1
    <2> QED BY <2>2, <2>3
  <1>11. ASSUME NEW n \in some, files[n] # Gone PROVE \E r \in kept \cup fresh : r.name = n
    <2>1. CASE n \in NamesOf(kept)
      BY <2>1 DEF NamesOf
    <2>2. CASE n \notin NamesOf(kept)
      <3>1. n \in names
        BY <1>11, <2>2
      <3>2. FreshRow(v, n, files[n]) \in fresh /\ FreshRow(v, n, files[n]).name = n
        BY <1>2, <3>1
      <3> QED BY <3>2
    <2> QED BY <2>1, <2>2
  <1>12. \A r \in vfile : r.vid = v => r \in kept \cup fresh
    OBVIOUS
  <1>13. \A r \in kept : r \in vfile
    OBVIOUS
  <1> HIDE DEF kept, fresh, names
  <1>14. \A r \in kept \cup fresh :
           /\ r.vid = v
           /\ r \in vfile \/ (~r.added /\ \E n \in Name : files[n] = r.mhash)
    BY <1>7, <1>10, <1>13
  <1> QED BY <1>1, <1>9, <1>11, <1>12, <1>14

LEMMA LoadRows ==
    ASSUME TypeOK, NEW v \in Nat, NEW files \in Files
    PROVE  /\ AreRows(LoadVFile(v, files))
           /\ \A r \in LoadVFile(v, files) :
                /\ r.vid = v
                /\ r \in vfile \/ (~r.added /\ \E n \in Name : files[n] = r.mhash)
           /\ \A n \in Name : files[n] # Gone => \E r \in LoadVFile(v, files) : r.name = n
           /\ \A r \in vfile : r.vid = v => r \in LoadVFile(v, files)
  <1>1. Name \in SUBSET Name /\ LoadVFile(v, files) = LoadPart(v, files, Name)
    BY DEF LoadVFile
  <1> QED BY <1>1, PartRows

LEMMA PartKnown ==
    ASSUME TypeOK, NEW vs, Len(vs) \in Nat, NEW v \in 0..Len(vs), FilesIn(vs, v) \in Files,
           RowsKnown(vs, vfile), NEW some \in SUBSET Name
    PROVE  /\ AreRows(LoadPart(v, FilesIn(vs, v), some))
           /\ RowsKnown(vs, LoadPart(v, FilesIn(vs, v), some))
  <1>0. v \in Nat
    OBVIOUS
  <1>1. /\ AreRows(LoadPart(v, FilesIn(vs, v), some))
        /\ \A r \in LoadPart(v, FilesIn(vs, v), some) :
             /\ r.vid = v
             /\ r \in vfile \/ (~r.added /\ \E n \in Name : FilesIn(vs, v)[n] = r.mhash)
    BY <1>0, PartRows
  <1> QED BY <1>1 DEF RowsKnown

LEMMA LoadKnown ==
    ASSUME TypeOK, NEW vs, Len(vs) \in Nat, NEW v \in 0..Len(vs), FilesIn(vs, v) \in Files,
           RowsKnown(vs, vfile)
    PROVE  AreRows(LoadVFile(v, FilesIn(vs, v))) /\ RowsKnown(vs, LoadVFile(v, FilesIn(vs, v)))
  <1>1. Name \in SUBSET Name /\ LoadVFile(v, FilesIn(vs, v)) = LoadPart(v, FilesIn(vs, v), Name)
    BY DEF LoadVFile
  <1> QED BY <1>1, PartKnown

(* They are known, and enough for the version's files, unless a checkout in *)
(* which an operation has stopped has left rows of added files.             *)
LEMMA LoadSettles ==
    ASSUME TypeOK, NEW vs, Len(vs) \in Nat, NEW v \in 0..Len(vs), FilesIn(vs, v) \in Files,
           RowsKnown(vs, vfile), NEW w,
           \/ Settled(vs, vfile, w)
           \/ \A r \in LoadVFile(v, FilesIn(vs, v)) : ~r.added
    PROVE  Settled(vs, LoadVFile(v, FilesIn(vs, v)), v)
  <1> DEFINE new == LoadVFile(v, FilesIn(vs, v))
             names == FileNames(vs, v)
  <1>0. v \in Nat
    OBVIOUS
  <1>1. /\ AreRows(new)
        /\ \A r \in new : r.vid = v /\ (r \in vfile \/ ~r.added)
        /\ \A n \in names : \E r \in new : r.name = n
        /\ \A r \in vfile : r.vid = v => r \in new
    BY <1>0, LoadRows DEF FileNames
  <1>2. RowsKnown(vs, new)
    BY LoadKnown
  <1> HIDE DEF new, names
  <1>3. IsFiniteSet(new)
    BY <1>1, <1>2, FiniteRows
  <1>4. Tracked(new) \in SUBSET new
    BY DEF Tracked
  <1>5. IsFiniteSet(Tracked(new)) /\ Cardinality(Tracked(new)) \in Nat
    BY <1>3, <1>4, FS_Subset, FS_CardinalityType
  <1>6. CASE \A r \in new : ~r.added
    <2> DEFINE f == [n \in names |-> CHOOSE r \in new : r.name = n]
    <2>1. \A n \in names : f[n] \in new /\ f[n].name = n
      BY <1>1
    <2>2. f \in [names -> Tracked(new)]
      BY <1>6, <2>1 DEF Tracked
    <2>3. \A m, n \in names : f[m] = f[n] => m = n
      <3> HIDE DEF f
      <3> QED BY <2>1
    <2> HIDE DEF f
    <2>4. f \in Injection(names, Tracked(new))
      BY <2>2, <2>3 DEF Injection, IsInjective
    <2>5. Cardinality(names) <= Cardinality(Tracked(new))
      BY <1>5, <2>4, FS_Injection
    <2>6. Cardinality(names) \in Nat
      BY FileNamesFinite DEF names
    <2>7. Cardinality(Tracked(new)) >= Cardinality(names)
      BY <1>5, <2>5, <2>6
    <2> QED BY <1>1, <2>7 DEF Settled, new, names
  <1>7. CASE v = w /\ Settled(vs, vfile, w)
    <2>1. vfile \subseteq new
      BY <1>1, <1>7 DEF Settled
    <2>2. Tracked(vfile) \in SUBSET Tracked(new)
      BY <2>1 DEF Tracked
    <2>3. /\ IsFiniteSet(Tracked(vfile))
          /\ Cardinality(Tracked(vfile)) <= Cardinality(Tracked(new))
          /\ Cardinality(Tracked(vfile)) \in Nat
      BY <1>5, <2>2, FS_Subset, FS_CardinalityType
    <2>4. Cardinality(Tracked(vfile)) >= Cardinality(names)
      BY <1>7 DEF Settled, names
    <2>5. Cardinality(names) \in Nat
      BY FileNamesFinite DEF names
    <2>6. Cardinality(Tracked(new)) >= Cardinality(names)
      BY <1>5, <2>3, <2>4, <2>5
    <2> QED BY <1>1, <2>6 DEF Settled, new, names
  <1>8. CASE v # w /\ Settled(vs, vfile, w)
    <2>1. \A r \in new : r \notin vfile
      BY <1>1, <1>8 DEF Settled
    <2>2. \A r \in new : ~r.added
      BY <1>1, <2>1
    <2> QED BY <1>6, <2>2
  <1> QED BY <1>6, <1>7, <1>8 DEF new

(* Rows that are enough stay enough when some are loaded beside them.       *)
LEMMA PartSettles ==
    ASSUME TypeOK, NEW v \in 0..Len(versions), FilesOf(v) \in Files,
           RowsKnown(versions, vfile), Settled(versions, vfile, v), NEW some \in SUBSET Name
    PROVE  Settled(versions, LoadPart(v, FilesOf(v), some), v)
  <1> DEFINE new == LoadPart(v, FilesOf(v), some)
             names == FileNames(versions, v)
  <1>0. v \in Nat /\ Len(versions) \in Nat /\ FilesOf(v) = FilesIn(versions, v)
    BY FilesOfType DEF TypeOK
  <1>1. AreRows(new) /\ (\A r \in new : r.vid = v) /\ \A r \in vfile : r.vid = v => r \in new
    <2>1. /\ AreRows(LoadPart(v, FilesOf(v), some))
          /\ \A r \in LoadPart(v, FilesOf(v), some) :
               /\ r.vid = v
               /\ r \in vfile \/ (~r.added /\ \E n \in Name : FilesOf(v)[n] = r.mhash)
          /\ \A r \in vfile : r.vid = v => r \in LoadPart(v, FilesOf(v), some)
      BY <1>0, PartRows
    <2> QED BY <2>1
  <1>2. RowsKnown(versions, new)
    BY <1>0, PartKnown
  <1> HIDE DEF new, names
  <1>3. IsFiniteSet(new)
    BY <1>0, <1>1, <1>2, FiniteRows
  <1>4. Tracked(new) \in SUBSET new
    BY DEF Tracked
  <1>5. IsFiniteSet(Tracked(new)) /\ Cardinality(Tracked(new)) \in Nat
    BY <1>3, <1>4, FS_Subset, FS_CardinalityType
  <1>6. vfile \subseteq new
    BY <1>1 DEF Settled
  <1>7. Tracked(vfile) \in SUBSET Tracked(new)
    BY <1>6 DEF Tracked
  <1>8. /\ Cardinality(Tracked(vfile)) <= Cardinality(Tracked(new))
        /\ Cardinality(Tracked(vfile)) \in Nat
    BY <1>5, <1>7, FS_Subset, FS_CardinalityType
  <1>9. Cardinality(Tracked(vfile)) >= Cardinality(names)
    BY DEF Settled, names
  <1>10. Cardinality(names) \in Nat
    BY FileNamesFinite DEF names
  <1>11. Cardinality(Tracked(new)) >= Cardinality(names)
    BY <1>5, <1>8, <1>9, <1>10
  <1> QED BY <1>1, <1>11 DEF Settled, new, names

(* A new version changes nothing for the rows of the others.                *)
LEMMA AppendKeeps ==
    ASSUME TypeOK, NEW x \in Version, x.parent <= Len(versions)
    PROVE  /\ Append(versions, x) \in Seq(Version)
           /\ Len(Append(versions, x)) = Len(versions) + 1
           /\ \A v \in 1..Len(versions) + 1 : Append(versions, x)[v].parent < v
           /\ FilesIn(Append(versions, x), Len(versions) + 1) = x.files
           /\ \A rows : RowsKnown(versions, rows) => RowsKnown(Append(versions, x), rows)
           /\ \A rows, v : v \in 0..Len(versions) /\ Settled(versions, rows, v)
                             => Settled(Append(versions, x), rows, v)
  <1> DEFINE new == Append(versions, x)
             n == Len(versions)
  <1>1. versions \in Seq(Version) /\ n \in Nat
    BY DEF TypeOK
  <1>2. /\ new \in Seq(Version) /\ Len(new) = n + 1 /\ new[n + 1] = x
        /\ \A v \in 1..n : new[v] = versions[v]
    BY <1>1
  <1> HIDE DEF new
  <1>3. \A v \in 0..n : FilesIn(new, v) = FilesIn(versions, v)
    BY <1>1, <1>2 DEF FilesIn
  <1>4. FilesIn(new, n + 1) = x.files
    BY <1>1, <1>2 DEF FilesIn
  <1>5. \A v \in 1..n + 1 : new[v].parent < v
    <2> SUFFICES ASSUME NEW v \in 1..n + 1 PROVE new[v].parent < v
      OBVIOUS
    <2>1. CASE v = n + 1
      BY <1>1, <1>2, <2>1 DEF Version
    <2>2. CASE v \in 1..n
      BY <1>2, <2>2 DEF TypeOK
    <2> QED BY <1>1, <2>1, <2>2
  <1>6. \A rows : RowsKnown(versions, rows) => RowsKnown(new, rows)
    <2> SUFFICES ASSUME NEW rows, RowsKnown(versions, rows), NEW r \in rows
                 PROVE  /\ r.vid \in 0..Len(new)
                        /\ ~r.added => \E m \in Name : FilesIn(new, r.vid)[m] = r.mhash
      BY DEF RowsKnown
    <2>1. r.vid \in 0..n /\ (~r.added => \E m \in Name : FilesIn(versions, r.vid)[m] = r.mhash)
      BY DEF RowsKnown
    <2> QED BY <1>1, <1>2, <1>3, <2>1
  <1>7. ASSUME NEW rows, NEW v \in 0..n, Settled(versions, rows, v) PROVE Settled(new, rows, v)
    <2>1. FileNames(new, v) = FileNames(versions, v)
      BY <1>3 DEF FileNames
    <2> QED BY <1>7, <2>1 DEF Settled
  <1> QED BY <1>2, <1>4, <1>5, <1>6, <1>7 DEF new

-----------------------------------------------------------------------------
(* The invariant.  First what the steps do to the variables that nothing    *)
(* else depends on.                                                         *)
Plain ==
    /\ disk \in Files /\ (queue = NoQueue \/ queue \subseteq Name)
    /\ stash \in Seq((SUBSET StashFile) \ {{}})
    /\ steps \in 0..MaxSteps /\ faults \in 0..MaxFaults

LEMMA TargetType ==
    ASSUME TypeOK, NEW t \in 0..Len(versions)
    PROVE  Target(t) \in 0..Len(versions)
  <1>1. Len(versions) \in Nat /\ Leaves \in SUBSET (0..Len(versions))
    BY DEF TypeOK, Leaves
  <1>2. CASE t = 0 /\ Leaves # {}
    <2>1. Max(Leaves) \in Leaves /\ \A w \in Leaves : Max(Leaves) >= w
      BY <1>1, <1>2, MaxElement
    <2>2. Max(Leaves) \in Leaves /\ \A w \in Leaves : w <= Max(Leaves)
      BY <1>1, <2>1
    <2>3. (CHOOSE v \in Leaves : \A w \in Leaves : w <= v) \in Leaves
      BY <2>2
    <2> QED BY <1>1, <1>2, <2>3 DEF Target, CalcUpdateVersion
  <1> QED BY <1>1, <1>2 DEF Target, CalcUpdateVersion

LEMMA UpdateFileType ==
    ASSUME NEW anc, NEW cur, NEW tgt \in Content \cup {Gone}, NEW was \in Content \cup {Gone}
    PROVE  updateFile(anc, cur, tgt, was) \in Content \cup {Gone}
  BY ConstantsAssumption DEF updateFile

LEMMA ProcessType ==
    ASSUME TypeOK, NEW v \in 0..Len(versions), NEW names
    PROVE  processFileUpdates(v, names) \in Files
  <1> DEFINE anc == FilesOf(Ancestor(vvar.checkout, v))
  <1>1. FilesOf(v) \in Files /\ disk \in Files
    BY FilesOfType DEF TypeOK
  <1>2. \A n \in Name : updateFile(anc[n], FilesOf(vvar.checkout)[n], FilesOf(v)[n], disk[n])
                          \in Content \cup {Gone}
    BY <1>1, UpdateFileType DEF Files
  <1>3. processFileUpdates(v, names)
          = [n \in Name |-> IF n \notin names THEN disk[n]
                            ELSE updateFile(anc[n], FilesOf(vvar.checkout)[n], FilesOf(v)[n], disk[n])]
    BY DEF processFileUpdates
  <1> HIDE DEF anc
  <1> QED BY <1>1, <1>2, <1>3 DEF Files

LEMMA StepCounts ==
    ASSUME TypeOK, Step
    PROVE  steps' \in 0..MaxSteps
  BY ConstantsAssumption DEF TypeOK, Step

LEMMA FaultCounts ==
    ASSUME TypeOK, Fault \/ UNCHANGED <<faults, queue>>
    PROVE  faults' \in 0..MaxFaults /\ (queue' = NoQueue \/ queue' \subseteq Name)
  BY ConstantsAssumption DEF TypeOK, Fault

LEMMA RowsOfType ==
    ASSUME TypeOK, NEW v \in 0..Len(versions)
    PROVE  RowsOf(v) \subseteq Row
  <1>1. v \in Nat /\ FilesOf(v) \in Files
    BY FilesOfType DEF TypeOK
  <1>2. AreRows(LoadVFile(v, FilesOf(v)))
    BY <1>1, LoadRows
  <1> QED BY <1>2 DEF RowsOf, AreRows

LEMMA PlainTypes ==
    ASSUME TypeOK, Next
    PROVE  Plain'
  <1> USE DEF Plain
  <1>0. /\ Plain /\ vfile \subseteq Row /\ Current \subseteq vfile /\ Changed \subseteq vfile
        /\ versions \in Seq(Version) /\ Len(versions) \in Nat /\ DOMAIN versions = 1..Len(versions)
    BY DEF TypeOK, AreRows, Current, Changed
  <1>1. steps' \in 0..MaxSteps
    <2>1. Step
      BY DEF Next, RowStep, VersionStep, UndoStep, StashStep, Edit, ScanChanges, Manage, Unmanage,
             Rename, RevertRename, Revert, Enqueue, Dequeue, Commit, CommitStops, Extract,
             ExtractRefused, LoadStops, ExtractStops, Update, UpdateStops, UndoSave, swapState, SwapStops,
             StashSave, StashSaveStops, Apply, Drop, Pop, Clear
    <2> QED BY <2>1, StepCounts
  <1>2. faults' \in 0..MaxFaults /\ (queue' = NoQueue \/ queue' \subseteq Name)
    <2>1. CASE Fault \/ UNCHANGED <<faults, queue>>
      BY <2>1, FaultCounts
    <2>2. CASE \E names \in Paths : Enqueue(names)
      <3>1. PICK names \in Paths : Enqueue(names)
        BY <2>2
      <3>2. names \subseteq Name
        BY DEF Paths
      <3> QED BY <1>0, <3>1, <3>2 DEF Enqueue
    <2>3. CASE \E names \in Paths : Dequeue(names)
      BY <1>0, <2>3 DEF Dequeue
    <2>4. CASE \E b \in Branch \cup {NoName} : Commit(b)
      BY <1>0, <2>4 DEF Commit
    <2>5. Fault \/ UNCHANGED <<faults, queue>> \/ (\E names \in Paths : Enqueue(names))
            \/ (\E names \in Paths : Dequeue(names))
            \/ \E b \in Branch \cup {NoName} : Commit(b)
      BY DEF Next, RowStep, VersionStep, UndoStep, StashStep, Edit, ScanChanges, Manage, Unmanage,
             Rename, RevertRename, Revert, CommitStops, Extract, ExtractEnds,
             ExtractRefused, LoadStops, ExtractStops, Update, UpdateStops, UndoSave, swapState, SwapStops,
             StashSave, StashSaveStops, Apply, Drop, Pop, Clear
    <2> QED BY <2>1, <2>2, <2>3, <2>4, <2>5
  <1>3. stash' \in Seq((SUBSET StashFile) \ {{}})
    <2>1. CASE StashSave
      <3>1. \A r \in Changed : StashRow(r) \in StashFile
        BY <1>0 DEF StashRow, StashFile, Row, Files, IsRemoved
      <3>2. {StashRow(r) : r \in Changed} \in (SUBSET StashFile) \ {{}}
        BY <2>1, <3>1 DEF StashSave
      <3>3. stash' = Append(stash, {StashRow(r) : r \in Changed})
        BY <2>1 DEF StashSave
      <3> QED BY <1>0, <3>2, <3>3
    <2>2. CASE Pop
      <3>1. stash # << >> /\ stash' = SubSeq(stash, 1, Len(stash) - 1)
        BY <2>2 DEF Pop, Front
      <3> QED BY <1>0, <3>1
    <2>3. CASE Clear
      BY <2>3 DEF Clear
    <2>4. ASSUME NEW i \in DOMAIN stash, Drop(i)
          PROVE  stash' \in Seq((SUBSET StashFile) \ {{}})
      <3>1. stash' = SubSeq(stash, 1, i - 1) \o SubSeq(stash, i + 1, Len(stash))
        BY <2>4 DEF Drop, RemoveAt
      <3>2. i \in 1..Len(stash) /\ Len(stash) \in Nat
        BY <1>0
      <3>3. /\ SubSeq(stash, 1, i - 1) \in Seq((SUBSET StashFile) \ {{}})
            /\ SubSeq(stash, i + 1, Len(stash)) \in Seq((SUBSET StashFile) \ {{}})
        BY <1>0, <3>2
      <3> QED BY <3>1, <3>3
    <2>5. CASE stash' = stash
      BY <1>0, <2>5
    <2>6. StashSave \/ Pop \/ Clear \/ (\E i \in DOMAIN stash : Drop(i)) \/ stash' = stash
      BY DEF Next, RowStep, VersionStep, UndoStep, StashStep, Edit, ScanChanges, Manage, Unmanage,
             Rename, RevertRename, Revert, Enqueue, Dequeue, Commit, CommitStops, Extract,
             ExtractRefused, LoadStops, ExtractStops, Update, UpdateStops, UndoSave, swapState, SwapStops,
             StashSaveStops, Apply
    <2> QED BY <2>1, <2>2, <2>3, <2>4, <2>5, <2>6
  <1>4. disk' \in Files
    <2>1. ASSUME NEW n \in Name, NEW c \in Edits \cup {Gone}, Edit(n, c) PROVE disk' \in Files
      BY <1>0, <2>1, ConstantsAssumption DEF Edit, Files
    <2>2. ASSUME NEW r \in Current, NEW to \in Name, NEW move \in BOOLEAN,
                 Rename(r, to, move) \/ RevertRename(r, move)
          PROVE  disk' \in Files
      <3>1. r.name \in Name
        BY <1>0 DEF Row
      <3>2. moveFile(r.name, to, move) \/ moveFile(r.name, r.orig, move)
        BY <2>2 DEF Rename, RevertRename
      <3>3. ASSUME NEW m, moveFile(r.name, m, move) PROVE disk' \in Files
        BY <1>0, <3>1, <3>3 DEF moveFile, Files
      <3> QED BY <3>2, <3>3
    <2>3. ASSUME NEW names, Revert(names) PROVE disk' \in Files
      <3> DEFINE rows == {r \in Current : IsChanged(r) /\ (names = {} \/ r.name \in names)}
      <3>1. disk' = WithRows(disk, rows) /\ rows \in SUBSET Row
        BY <1>0, <2>3 DEF Revert
      <3> HIDE DEF rows
      <3> QED BY <3>1, WithRowsType
    <2>4. ASSUME NEW v \in DOMAIN versions, NEW mode, Extract(v, mode) PROVE disk' \in Files
      <3>1. RowsOf(v) \in SUBSET Row
        BY <1>0, RowsOfType
      <3>2. disk' = disk \/ disk' = WithRows(disk, RowsOf(v))
        BY <2>4 DEF Extract
      <3> QED BY <1>0, <3>1, <3>2, WithRowsType
    <2>5. ASSUME NEW v \in DOMAIN versions, NEW rows \in SUBSET RowsOf(v), ExtractStops(v, rows)
          PROVE  disk' \in Files
      <3>1. rows \in SUBSET Row
        BY <1>0, RowsOfType
      <3>2. disk' = WithRows(disk, rows)
        BY <2>5 DEF ExtractStops
      <3> QED BY <3>1, <3>2, WithRowsType
    <2>6. ASSUME NEW t \in 0..Len(versions), NEW dry \in BOOLEAN, Update(t, dry)
          PROVE  disk' \in Files
      <3>1. disk' = disk \/ disk' = processFileUpdates(Target(t), UpdateNames(Target(t)))
        BY <2>6 DEF Update
      <3> QED BY <1>0, <3>1, TargetType, ProcessType
    <2>7. ASSUME NEW t \in 0..Len(versions), NEW done, UpdateStops(t, done)
          PROVE  disk' \in Files
      <3>1. disk' = processFileUpdates(Target(t), done)
        BY <2>7 DEF UpdateStops
      <3> QED BY <3>1, TargetType, ProcessType
    <2>8. ASSUME NEW available, swapState(available) PROVE disk' \in Files
      <3>1. disk' = swapDiskFiles(disk, undo.rows).disk
        BY <2>8 DEF swapState
      <3>2. undo.rows \in Seq(UndoRow)
        BY DEF TypeOK
      <3> QED BY <1>0, <3>1, <3>2, SwapType
    <2>9. ASSUME NEW done, SwapStops(done) PROVE disk' \in Files
      <3>1. \A i \in DOMAIN undo.rows : undo.rows[i] \in UndoRow
        BY DEF TypeOK
      <3>2. disk' = [n \in Name |->
                  IF n \in done /\ \E i \in DOMAIN undo.rows : undo.rows[i].name = n
                  THEN undo.rows[CHOOSE i \in DOMAIN undo.rows : undo.rows[i].name = n].data
                  ELSE disk[n]]
        BY <2>9 DEF SwapStops
      <3>3. \A n \in Name : (\E i \in DOMAIN undo.rows : undo.rows[i].name = n)
              => (CHOOSE i \in DOMAIN undo.rows : undo.rows[i].name = n) \in DOMAIN undo.rows
        OBVIOUS
      <3>4. \A n \in Name : (\E i \in DOMAIN undo.rows : undo.rows[i].name = n)
              => undo.rows[CHOOSE i \in DOMAIN undo.rows : undo.rows[i].name = n].data
                   \in Content \cup {Gone}
        BY <3>1, <3>3 DEF UndoRow
      <3> QED BY <1>0, <3>2, <3>4 DEF Files
    <2>10. CASE StashSave
      <3>1. disk' = WithRows(disk, Changed) /\ Changed \in SUBSET Row
        BY <1>0, <2>10 DEF StashSave
      <3> QED BY <3>1, WithRowsType
    <2>11. ASSUME NEW done \in SUBSET Changed, StashSaveStops(done) PROVE disk' \in Files
      <3>1. disk' = WithRows(disk, done) /\ done \in SUBSET Row
        BY <1>0, <2>11 DEF StashSaveStops
      <3> QED BY <3>1, WithRowsType
    <2>12. ASSUME NEW i \in DOMAIN stash, Apply(i) PROVE disk' \in Files
      <3>1. disk' = ApplyTo(stash[i], disk) /\ stash[i] \in SUBSET StashFile
        BY <1>0, <2>12 DEF Apply
      <3> QED BY <3>1, ApplyType
    <2>13. CASE Pop
      <3>1. disk' = ApplyTo(stash[Len(stash)], disk) /\ stash # << >>
        BY <2>13 DEF Pop, Last
      <3>2. stash[Len(stash)] \in SUBSET StashFile
        BY <1>0, <3>1
      <3> QED BY <3>1, <3>2, ApplyType
    <2>14. CASE disk' = disk
      BY <1>0, <2>14
    <2>15. CASE RowStep
      <3>1. \/ \E n \in Name, c \in Edits \cup {Gone} : Edit(n, c)
            \/ \E r \in Current, to \in Name, move \in BOOLEAN :
                 Rename(r, to, move) \/ RevertRename(r, move)
            \/ \E names \in Paths : Revert(names)
            \/ disk' = disk
        BY <2>15 DEF RowStep, Manage, Enqueue, ScanChanges, Unmanage, Dequeue
      <3> QED BY <2>1, <2>2, <2>3, <2>14, <3>1
    <2>16. CASE VersionStep
      <3>1. \/ \E v \in DOMAIN versions : \/ \E mode \in Modes : Extract(v, mode)
                                          \/ \E rows \in SUBSET RowsOf(v) : ExtractStops(v, rows)
            \/ \E t \in 0..Len(versions) : \/ \E dry \in BOOLEAN : Update(t, dry)
                                           \/ \E done \in SUBSET Name : UpdateStops(t, done)
            \/ disk' = disk
        BY <2>16 DEF VersionStep, Commit, CommitStops, ExtractRefused, LoadStops
      <3> QED BY <2>4, <2>5, <2>6, <2>7, <2>14, <3>1
    <2>17. CASE UndoStep
      <3>1. \/ \E available \in {1, 2} : swapState(available)
            \/ \E done \in SUBSET Name : SwapStops(done)
            \/ disk' = disk
        BY <2>17 DEF UndoStep, UndoSave
      <3> QED BY <2>8, <2>9, <2>14, <3>1
    <2>18. CASE StashStep
      <3>1. \/ StashSave \/ Pop \/ (\E rows \in SUBSET Changed : StashSaveStops(rows))
            \/ (\E i \in DOMAIN stash : Apply(i)) \/ disk' = disk
        BY <2>18 DEF StashStep, Clear, Drop
      <3> QED BY <2>10, <2>11, <2>12, <2>13, <2>14, <3>1
    <2> QED BY <2>15, <2>16, <2>17, <2>18 DEF Next
  <1> QED BY <1>1, <1>2, <1>3, <1>4

(* Steps that leave the tables alone.                                       *)
LEMMA IdleKeeps ==
    ASSUME CheckoutInv, Plain', UNCHANGED <<versions, vfile, vvar, undo, torn, crossed, untagged>>
    PROVE  CheckoutInv'
  BY DEF CheckoutInv, TypeOK, Plain

(* Steps that change rows of vfile one at a time.                           *)
LEMMA RowsKeep ==
    ASSUME CheckoutInv, Plain', UNCHANGED <<versions, vvar, undo, torn, crossed, untagged>>,
           AreRows(vfile'), Follows(vfile, vfile', vvar.checkout)
    PROVE  CheckoutInv'
  <1>1. /\ Len(versions) \in Nat /\ vvar.checkout \in 0..Len(versions)
        /\ AreRows(vfile) /\ RowsKnown(versions, vfile)
    BY DEF CheckoutInv, TypeOK
  <1>2. /\ RowsKnown(versions, vfile')
        /\ Settled(versions, vfile, vvar.checkout) => Settled(versions, vfile', vvar.checkout)
    BY <1>1, FollowsKeeps
  <1>3. TypeOK'
    BY DEF CheckoutInv, TypeOK, Plain
  <1> QED BY <1>2, <1>3 DEF CheckoutInv

(* Steps that load the rows of a version.                                   *)
LEMMA LoadKeeps ==
    ASSUME CheckoutInv, Plain', UNCHANGED <<versions, undo, untagged>>, NEW v \in 0..Len(versions),
           vfile' = LoadVFile(v, FilesOf(v)),
           vvar' \in [checkout: 0..Len(versions), hash: 0..Len(versions)],
           torn' \in BOOLEAN, crossed' \in BOOLEAN,
           ~torn' => /\ vvar'.checkout = v
                     /\ ~torn \/ \A r \in RowsOf(v) : ~r.added,
           ~torn' /\ ~crossed' => vvar'.hash = vvar'.checkout
    PROVE  CheckoutInv'
  <1>1. /\ TypeOK /\ Len(versions) \in Nat /\ RowsKnown(versions, vfile)
        /\ v \in Nat /\ FilesOf(v) \in Files /\ FilesOf(v) = FilesIn(versions, v)
        /\ ~torn => Settled(versions, vfile, vvar.checkout)
    BY FilesOfType DEF CheckoutInv, TypeOK
  <1>2. AreRows(vfile') /\ RowsKnown(versions, vfile')
    BY <1>1, LoadKnown
  <1>3. RowsOf(v) = vfile'
    BY <1>1, LoadRows DEF RowsOf
  <1>4. ~torn' => Settled(versions, vfile', v)
    BY <1>1, <1>3, LoadSettles
  <1>5. TypeOK'
    BY <1>2 DEF CheckoutInv, TypeOK, Plain
  <1> QED BY <1>2, <1>4, <1>5 DEF CheckoutInv

(* Steps that load some of them.                                            *)
LEMMA PartKeeps ==
    ASSUME CheckoutInv, Plain', UNCHANGED <<versions, vvar, undo, crossed, untagged>>,
           NEW v \in 0..Len(versions), NEW some \in SUBSET Name,
           vfile' = LoadPart(v, FilesOf(v), some),
           torn' \in BOOLEAN, ~torn' => ~torn /\ vvar.checkout = v
    PROVE  CheckoutInv'
  <1>1. /\ TypeOK /\ Len(versions) \in Nat /\ RowsKnown(versions, vfile)
        /\ FilesOf(v) \in Files /\ FilesOf(v) = FilesIn(versions, v)
        /\ ~torn => Settled(versions, vfile, vvar.checkout)
    BY FilesOfType DEF CheckoutInv, TypeOK
  <1>2. AreRows(vfile') /\ RowsKnown(versions, vfile')
    BY <1>1, PartKnown
  <1>3. ~torn' => Settled(versions, vfile', v)
    BY <1>1, PartSettles
  <1>4. TypeOK'
    BY <1>2 DEF CheckoutInv, TypeOK, Plain
  <1> QED BY <1>2, <1>3, <1>4 DEF CheckoutInv

(* The check-in that a commit makes.                                        *)
LEMMA NewVersionType ==
    ASSUME TypeOK, NEW b \in Branch \cup {NoName}
    PROVE  /\ NewVersion(b, buildCommitFiles) \in Version
           /\ NewVersion(b, buildCommitFiles).parent = vvar.checkout
           /\ NewVersion(b, buildCommitFiles).files = buildCommitFiles
  <1>1. vvar.checkout \in 0..Len(versions) /\ Len(versions) \in Nat /\ versions \in Seq(Version)
    BY DEF TypeOK
  <1>2. Inherited \in Branch
    <2>1. CASE vvar.checkout = 0
      BY <2>1, ConstantsAssumption DEF Inherited
    <2>2. CASE vvar.checkout # 0
      <3>1. versions[vvar.checkout] \in Version
        BY <1>1, <2>2
      <3> QED BY <2>2, <3>1 DEF Inherited, Version
    <2> QED BY <2>1, <2>2
  <1> QED BY <1>1, <1>2, BuildType DEF NewVersion, Version

LEMMA CommitKeeps ==
    ASSUME CheckoutInv, Plain', NEW b \in Branch \cup {NoName}, Commit(b) \/ CommitStops(b)
    PROVE  CheckoutInv'
  <1>b. PICK c \in Branch \cup {NoName} : versions' = Append(versions, NewVersion(c, buildCommitFiles))
    BY DEF Commit, CommitStops
  <1> DEFINE x == NewVersion(c, buildCommitFiles)
             vs == Append(versions, x)
             new == Len(versions) + 1
  <1>1. /\ TypeOK /\ Len(versions) \in Nat
        /\ vvar \in [checkout: 0..Len(versions), hash: 0..Len(versions)]
        /\ vvar.checkout \in 0..Len(versions)
        /\ undo.checkout \in 0..Len(versions)
        /\ undo \in [available: 0..2, checkout: 0..Len(versions), vfile: SUBSET Row,
                     rows: Seq(UndoRow), torn: BOOLEAN]
        /\ RowsKnown(versions, vfile) /\ RowsKnown(versions, undo.vfile)
        /\ AreRows(vfile) /\ AreRows(undo.vfile)
    BY DEF CheckoutInv, TypeOK
  <1>2. x \in Version /\ x.parent = vvar.checkout /\ x.files = buildCommitFiles
    BY <1>1, NewVersionType
  <1>3. versions' = vs /\ undo' = undo
    BY <1>b DEF Commit, CommitStops
  <1>t. untagged \subseteq 1..Len(versions) /\ untagged' \subseteq 1..new
    <2>1. untagged \subseteq 1..Len(versions)
      BY <1>1 DEF TypeOK
    <2>2. untagged' \subseteq untagged \cup {new}
      BY DEF Commit, CommitStops, Tagged
    <2> QED BY <1>1, <2>1, <2>2
  <1> HIDE DEF x
  <1>4. /\ vs \in Seq(Version) /\ Len(vs) = new
        /\ \A v \in 1..new : vs[v].parent < v
        /\ FilesIn(vs, new) = buildCommitFiles
        /\ RowsKnown(vs, vfile) /\ RowsKnown(vs, undo.vfile)
        /\ ~torn => Settled(vs, vfile, vvar.checkout)
        /\ ~undo.torn => Settled(vs, undo.vfile, undo.checkout)
    BY <1>1, <1>2, AppendKeeps DEF CheckoutInv
  <1> HIDE DEF vs
  <1>5. new \in Nat /\ 0..Len(versions) \subseteq 0..new /\ new \in 0..Len(vs)
    BY <1>1, <1>4
  <1>6. /\ undo' \in [available: 0..2, checkout: 0..Len(versions'), vfile: SUBSET Row,
                      rows: Seq(UndoRow), torn: BOOLEAN]
        /\ AreRows(undo'.vfile)
    <2>1. undo.checkout \in 0..Len(vs)
      BY <1>1, <1>4, <1>5
    <2> QED BY <1>1, <1>3, <2>1
  <1>7. /\ versions' \in Seq(Version) /\ \A v \in 1..Len(versions') : versions'[v].parent < v
        /\ untagged' \subseteq 1..Len(versions')
    BY <1>3, <1>4, <1>t
  <1>8. CASE Commit(b)
    <2>1. /\ vfile' = LoadVFile(new, buildCommitFiles)
          /\ vvar' = [checkout |-> new, hash |-> new] /\ torn' = FALSE /\ crossed' = FALSE
      BY <1>8 DEF Commit
    <2>2. buildCommitFiles \in Files
      BY <1>1, BuildType
    <2>3. AreRows(vfile') /\ RowsKnown(vs, vfile')
      BY <1>1, <1>4, <1>5, <2>1, <2>2, LoadKnown
    <2>4. \A r \in vfile' : ~r.added
      <3>1. \A r \in vfile' : r.vid = new /\ (r \in vfile \/ ~r.added)
        BY <1>1, <1>5, <2>1, <2>2, LoadRows
      <3>2. \A r \in vfile : r.vid \in 0..Len(versions)
        BY <1>1 DEF RowsKnown
      <3>3. \A r \in vfile' : r \notin vfile
        BY <1>1, <3>1, <3>2
      <3> QED BY <3>1, <3>3
    <2>5. Settled(vs, vfile', new)
      BY <1>1, <1>4, <1>5, <2>1, <2>2, <2>4, LoadSettles
    <2>6. vvar' \in [checkout: 0..Len(versions'), hash: 0..Len(versions')]
      BY <1>3, <1>4, <1>5, <2>1
    <2>7. TypeOK'
      BY <1>6, <1>7, <2>1, <2>3, <2>6 DEF TypeOK, Plain
    <2> QED BY <1>3, <1>4, <2>1, <2>3, <2>5, <2>7 DEF CheckoutInv
  <1>9. CASE CommitStops(b) /\ vfile' = Scanned
    <2>1. /\ vfile' = Scanned
          /\ vvar' \in {vvar, [vvar EXCEPT !.checkout = new], [checkout |-> new, hash |-> new]}
          /\ torn' = (torn \/ vvar' # vvar) /\ crossed' = crossed
      BY <1>9 DEF CommitStops
    <2>2. AreRows(vfile') /\ Follows(vfile, vfile', vvar.checkout)
      BY <1>1, <2>1, ScanFollows
    <2>3. /\ RowsKnown(vs, vfile')
          /\ Settled(vs, vfile, vvar.checkout) => Settled(vs, vfile', vvar.checkout)
      <3>1. Len(vs) \in Nat /\ vvar.checkout \in 0..Len(vs)
        BY <1>1, <1>4, <1>5
      <3> QED BY <1>1, <1>4, <2>2, <3>1, FollowsKeeps
    <2>4. vvar' \in [checkout: 0..Len(versions'), hash: 0..Len(versions')]
      <3>1. vvar.checkout \in 0..Len(vs) /\ vvar.hash \in 0..Len(vs)
        BY <1>1, <1>4, <1>5
      <3> QED BY <1>1, <1>3, <1>4, <1>5, <2>1, <3>1
    <2>5. torn' \in BOOLEAN /\ crossed' \in BOOLEAN
      BY <1>1, <2>1 DEF TypeOK
    <2>6. TypeOK'
      BY <1>6, <1>7, <2>2, <2>4, <2>5 DEF TypeOK, Plain
    <2>7. ~torn' => ~torn /\ vvar' = vvar
      BY <2>1
    <2>8. ~torn' => Settled(versions', vfile', vvar'.checkout)
      BY <1>3, <1>4, <2>3, <2>7
    <2>9. ~torn' /\ ~crossed' => vvar'.hash = vvar'.checkout
      BY <2>1, <2>7 DEF CheckoutInv
    <2> QED BY <1>3, <1>4, <2>3, <2>6, <2>8, <2>9 DEF CheckoutInv
  <1>10. CASE CommitStops(b) /\ vfile' # Scanned
    <2>1. PICK some \in SUBSET Name : vfile' = LoadPart(new, buildCommitFiles, some)
      BY <1>10 DEF CommitStops
    <2>2. /\ vvar' = [checkout |-> new, hash |-> new]
          /\ torn' = (torn \/ vvar' # vvar) /\ crossed' = crossed
      BY <1>10 DEF CommitStops
    <2>3. vvar'.checkout # vvar.checkout
      BY <1>1, <2>2
    <2>4. torn' = TRUE /\ crossed' \in BOOLEAN
      BY <1>1, <2>2, <2>3 DEF TypeOK
    <2>5. AreRows(vfile') /\ RowsKnown(vs, vfile')
      BY <1>1, <1>4, <1>5, <2>1, BuildType, PartKnown
    <2>6. vvar' \in [checkout: 0..Len(versions'), hash: 0..Len(versions')]
      BY <1>3, <1>4, <1>5, <2>2
    <2>7. TypeOK'
      BY <1>6, <1>7, <2>4, <2>5, <2>6 DEF TypeOK, Plain
    <2> QED BY <1>3, <1>4, <2>4, <2>5, <2>7 DEF CheckoutInv
  <1> QED BY <1>8, <1>9, <1>10

LEMMA RowStepKeeps ==
    ASSUME CheckoutInv, Plain', RowStep
    PROVE  CheckoutInv'
  <1>0. /\ TypeOK /\ vfile \subseteq Row /\ Current \subseteq vfile
        /\ vvar.checkout \in Nat
        /\ \A r \in Current : r.vid = vvar.checkout /\ r.name \in NamesOf(Current)
    BY DEF CheckoutInv, TypeOK, AreRows, Current, NamesOf
  <1>1. ASSUME NEW n \in Name, Manage(n) PROVE CheckoutInv'
    <2> DEFINE row == [FreshRow(vvar.checkout, n, disk[n]) EXCEPT !.added = TRUE, !.chnged = TRUE]
    <2>1. /\ vfile' = vfile \cup {row} /\ n \notin NamesOf(Current) /\ disk[n] # Gone
          /\ UNCHANGED <<versions, vvar, undo, torn, crossed, untagged>>
      BY <1>1 DEF Manage, Replace
    <2>2. row \in Row /\ row.vid = vvar.checkout /\ row.name = n /\ row.added
      BY <1>0, <2>1 DEF FreshRow, Row, TypeOK, Files
    <2> HIDE DEF row
    <2>3. \A r \in vfile : ~(r.vid = row.vid /\ r.name = row.name)
      BY <2>1, <2>2 DEF NamesOf, Current
    <2>4. AreRows(vfile')
      BY <1>0, <2>1, <2>2, <2>3 DEF TypeOK, AreRows
    <2>5. Follows(vfile, vfile', vvar.checkout)
      <3> DEFINE f == [r \in Tracked(vfile) |-> r]
      <3>1. f \in [Tracked(vfile) -> Tracked(vfile')] /\ \A r, s \in Tracked(vfile) : f[r] = f[s] => r = s
        BY <2>1 DEF Tracked
      <3> HIDE DEF f
      <3> QED BY <2>1, <2>2, <3>1 DEF Follows
    <2> QED BY <2>1, <2>4, <2>5, RowsKeep
  <1>2. ASSUME NEW r \in Current, Unmanage(r) PROVE CheckoutInv'
    <2>1. UNCHANGED <<versions, vvar, undo, torn, crossed, untagged>>
      BY <1>2 DEF Unmanage
    <2>2. CASE r.added
      <3>1. vfile' = vfile \ {r}
        BY <1>2, <2>2 DEF Unmanage, Replace
      <3>2. AreRows(vfile')
        BY <1>0, <3>1 DEF TypeOK, AreRows
      <3>3. Follows(vfile, vfile', vvar.checkout)
        <4> DEFINE f == [s \in Tracked(vfile) |-> s]
        <4>1. f \in [Tracked(vfile) -> Tracked(vfile')] /\ \A s, t \in Tracked(vfile) : f[s] = f[t] => s = t
          BY <2>2, <3>1 DEF Tracked
        <4> HIDE DEF f
        <4> QED BY <3>1, <4>1 DEF Follows
      <3> QED BY <2>1, <3>2, <3>3, RowsKeep
    <2>3. CASE ~r.added
      <3> DEFINE q == [r EXCEPT !.deleted = TRUE]
      <3>1. vfile' = (vfile \ {r}) \cup {q}
        BY <1>2, <2>3 DEF Unmanage, Replace
      <3>2. r \in Row
        BY <1>0
      <3>3. /\ q \in Row /\ q.vid = r.vid /\ q.added = r.added /\ q.mhash = r.mhash
            /\ q.name = r.name
        BY <3>2 DEF Row
      <3> HIDE DEF q
      <3> QED BY <1>0, <2>1, <3>1, <3>3, ReplaceRow, RowsKeep
    <2> QED BY <2>2, <2>3
  <1>3. ASSUME NEW r \in Current, NEW to \in Name, NEW move \in BOOLEAN, Rename(r, to, move)
        PROVE  CheckoutInv'
    <2> DEFINE q == [r EXCEPT !.name = to, !.orig = r.name, !.chnged = TRUE]
    <2>1. /\ vfile' = (vfile \ {r}) \cup {q} /\ to \notin NamesOf(Current)
          /\ UNCHANGED <<versions, vvar, undo, torn, crossed, untagged>>
      BY <1>3 DEF Rename, Replace
    <2>2. r \in Row
      BY <1>0
    <2>3. /\ q \in Row /\ q.vid = r.vid /\ q.added = r.added /\ q.mhash = r.mhash
          /\ q.name = to
      BY <2>2 DEF Row
    <2> HIDE DEF q
    <2> QED BY <1>0, <2>1, <2>3, ReplaceRow, RowsKeep
  <1>4. ASSUME NEW r \in Current, NEW move \in BOOLEAN, RevertRename(r, move) PROVE CheckoutInv'
    <2> DEFINE q == [r EXCEPT !.name = r.orig, !.orig = NoName, !.chnged = FALSE]
    <2>1. /\ vfile' = (vfile \ {r}) \cup {q} /\ r.orig \notin NamesOf(Current) /\ r.orig # NoName
          /\ UNCHANGED <<versions, vvar, undo, torn, crossed, untagged>>
      BY <1>4 DEF RevertRename, Replace
    <2>2. r \in Row
      BY <1>0
    <2>3. /\ q \in Row /\ q.vid = r.vid /\ q.added = r.added /\ q.mhash = r.mhash
          /\ q.name = r.orig
      BY <2>1, <2>2 DEF Row
    <2> HIDE DEF q
    <2> QED BY <1>0, <2>1, <2>3, ReplaceRow, RowsKeep
  <1>5. ASSUME NEW names, Revert(names) PROVE CheckoutInv'
    <2> DEFINE rows == {r \in Current : IsChanged(r) /\ (names = {} \/ r.name \in names)}
    <2>1. /\ vfile' = (vfile \ rows) \cup Reverted(rows)
          /\ UNCHANGED <<versions, vvar, undo, torn, crossed, untagged>>
      BY <1>5 DEF Revert, Replace
    <2>2. rows \in SUBSET vfile
      BY <1>0
    <2> HIDE DEF rows
    <2>3. /\ vfile \ rows \in SUBSET vfile /\ (vfile \ rows) \cap rows = {}
          /\ Tracked(vfile) \subseteq (vfile \ rows) \cup rows
      BY DEF Tracked
    <2> QED BY <1>0, <2>1, <2>2, <2>3, RevertRows, RowsKeep
  <1>6. CASE ScanChanges
    BY <1>0, <1>6, ScanFollows, RowsKeep DEF ScanChanges
  <1>7. CASE UNCHANGED <<versions, vfile, vvar, undo, torn, crossed, untagged>>
    BY <1>7, IdleKeeps
  <1>8. \/ \E n \in Name : Manage(n)
        \/ \E r \in Current : Unmanage(r)
        \/ \E r \in Current, to \in Name, move \in BOOLEAN : Rename(r, to, move) \/ RevertRename(r, move)
        \/ \E names \in Paths : Revert(names)
        \/ ScanChanges
        \/ UNCHANGED <<versions, vfile, vvar, undo, torn, crossed, untagged>>
    BY DEF RowStep, Edit, Enqueue, Dequeue
  <1> QED BY <1>1, <1>2, <1>3, <1>4, <1>5, <1>6, <1>7, <1>8

LEMMA VersionStepKeeps ==
    ASSUME CheckoutInv, Plain', VersionStep
    PROVE  CheckoutInv'
  <1>0. /\ TypeOK /\ Len(versions) \in Nat /\ DOMAIN versions = 1..Len(versions)
        /\ vvar \in [checkout: 0..Len(versions), hash: 0..Len(versions)]
        /\ torn \in BOOLEAN /\ crossed \in BOOLEAN
        /\ ~torn /\ ~crossed => vvar.hash = vvar.checkout
    BY DEF CheckoutInv, TypeOK
  <1>1. ASSUME NEW v \in 0..Len(versions), UNCHANGED <<versions, undo, untagged>>,
               vfile' = LoadVFile(v, FilesOf(v)), ExtractEnds(v)
        PROVE  CheckoutInv'
    <2>1. /\ vvar' = [checkout |-> v, hash |-> v] /\ crossed' = FALSE
          /\ torn' = (torn /\ \E r \in RowsOf(v) : r.added)
      BY <1>1 DEF ExtractEnds
    <2>2. /\ vvar' \in [checkout: 0..Len(versions), hash: 0..Len(versions)]
          /\ vvar'.checkout = v /\ vvar'.hash = vvar'.checkout
      BY <2>1
    <2>3. torn' \in BOOLEAN /\ crossed' \in BOOLEAN
      BY <1>0, <2>1
    <2>4. ~torn' => ~torn \/ \A r \in RowsOf(v) : ~r.added
      BY <2>1
    <2> QED BY <1>1, <2>2, <2>3, <2>4, LoadKeeps
  <1>2. ASSUME NEW v \in DOMAIN versions, NEW mode, Extract(v, mode) PROVE CheckoutInv'
    BY <1>0, <1>1, <1>2 DEF Extract
  <1>3. ASSUME NEW v \in DOMAIN versions, ExtractRefused(v) PROVE CheckoutInv'
    <2>1. /\ UNCHANGED <<versions, undo, vvar, crossed, untagged>> /\ vfile' = LoadVFile(v, FilesOf(v))
          /\ torn' = (torn \/ v # vvar.checkout)
      BY <1>3 DEF ExtractRefused
    <2>2. torn' \in BOOLEAN /\ crossed' \in BOOLEAN /\ (~torn' => ~torn /\ v = vvar.checkout)
      BY <1>0, <2>1
    <2> QED BY <1>0, <2>1, <2>2, LoadKeeps
  <1>4. ASSUME NEW v \in DOMAIN versions, NEW rows, ExtractStops(v, rows) PROVE CheckoutInv'
    <2>1. /\ UNCHANGED <<versions, undo, crossed, untagged>> /\ vfile' = LoadVFile(v, FilesOf(v))
          /\ vvar' \in {vvar} \cup {[vvar EXCEPT !.checkout = v] : w \in {rows} \cap {RowsOf(v)}}
          /\ torn' = (torn \/ vvar' # [checkout |-> v, hash |-> v])
      BY <1>4 DEF ExtractStops
    <2>2. vvar' \in [checkout: 0..Len(versions), hash: 0..Len(versions)]
      <3>1. vvar' = vvar \/ vvar' = [vvar EXCEPT !.checkout = v]
        BY <2>1
      <3> QED BY <1>0, <3>1
    <2>3. torn' \in BOOLEAN /\ crossed' \in BOOLEAN
      BY <1>0, <2>1
    <2>4. ~torn' => ~torn /\ vvar'.checkout = v /\ vvar'.hash = v
      <3>1. ~torn' => ~torn /\ vvar' = [checkout |-> v, hash |-> v]
        BY <2>1, Zenon
      <3> QED BY <3>1
    <2> QED BY <1>0, <2>1, <2>2, <2>3, <2>4, LoadKeeps
  <1>5. ASSUME NEW t \in 0..Len(versions), NEW dry \in BOOLEAN, Update(t, dry) PROVE CheckoutInv'
    <2>1. Target(t) \in 0..Len(versions)
      BY <1>0, TargetType
    <2>2. /\ UNCHANGED <<versions, undo, untagged>> /\ vfile' = LoadVFile(Target(t), FilesOf(Target(t)))
          /\ ExtractEnds(Target(t))
      BY <1>5 DEF Update
    <2> QED BY <1>1, <2>1, <2>2
  <1>6. ASSUME NEW t \in 0..Len(versions), NEW done, UpdateStops(t, done) PROVE CheckoutInv'
    <2>1. Target(t) \in 0..Len(versions)
      BY <1>0, TargetType
    <2>2. CASE UNCHANGED <<vfile, vvar, torn>>
      BY <1>6, <2>2, IdleKeeps DEF UpdateStops
    <2>3. CASE /\ vfile' = LoadVFile(Target(t), FilesOf(Target(t)))
               /\ vvar' = [vvar EXCEPT !.checkout = Target(t)] /\ torn' = TRUE
      <3>1. UNCHANGED <<versions, undo, crossed, untagged>>
        BY <1>6 DEF UpdateStops
      <3>2. vvar' \in [checkout: 0..Len(versions), hash: 0..Len(versions)]
        BY <1>0, <2>1, <2>3
      <3> QED BY <1>0, <2>1, <2>3, <3>1, <3>2, LoadKeeps
    <2>4. ASSUME NEW some \in SUBSET Name, vfile' = LoadPart(Target(t), FilesOf(Target(t)), some),
                 UNCHANGED vvar, torn' = TRUE
          PROVE  CheckoutInv'
      <3>1. UNCHANGED <<versions, undo, crossed, untagged>>
        BY <1>6 DEF UpdateStops
      <3> QED BY <2>1, <2>4, <3>1, PartKeeps
    <2>5. \/ UNCHANGED <<vfile, vvar, torn>>
          \/ /\ \E some \in SUBSET Name : vfile' = LoadPart(Target(t), FilesOf(Target(t)), some)
             /\ UNCHANGED vvar /\ torn' = TRUE
          \/ /\ vfile' = LoadVFile(Target(t), FilesOf(Target(t)))
             /\ vvar' = [vvar EXCEPT !.checkout = Target(t)] /\ torn' = TRUE
      BY <1>6 DEF UpdateStops
    <2> QED BY <2>2, <2>3, <2>4, <2>5
  <1>7. ASSUME NEW b \in Branch \cup {NoName}, Commit(b) \/ CommitStops(b) PROVE CheckoutInv'
    BY <1>7, CommitKeeps
  <1>8. ASSUME NEW v \in DOMAIN versions, LoadStops(v) PROVE CheckoutInv'
    <2>1. PICK some \in SUBSET Name : vfile' = LoadPart(v, FilesOf(v), some)
      BY <1>8 DEF LoadStops
    <2>2. /\ UNCHANGED <<versions, vvar, undo, crossed, untagged>>
          /\ torn' = (torn \/ vvar # [checkout |-> v, hash |-> v])
      BY <1>8 DEF LoadStops
    <2>3. torn' \in BOOLEAN
      BY <1>0, <2>2
    <2>4. ~torn' => ~torn /\ vvar.checkout = v
      <3>1. ~torn' => ~torn /\ vvar = [checkout |-> v, hash |-> v]
        BY <2>2, Zenon
      <3> QED BY <3>1
    <2> QED BY <1>0, <2>1, <2>2, <2>3, <2>4, PartKeeps
  <1> QED BY <1>2, <1>3, <1>4, <1>5, <1>6, <1>7, <1>8 DEF VersionStep

(* The sequence of a finite set has no other elements.                      *)
LEMMA SeqOfSet ==
    ASSUME NEW S, IsFiniteSet(S)
    PROVE  SetToSeq(S) \in Seq(S)
  <1> DEFINE n == Cardinality(S)
  <1>1. n \in Nat /\ \E f \in [1..n -> S] : IsInjective(f)
    BY FS_CardinalityType DEF ExistsBijection, Bijection, Injection
  <1>2. SetToSeq(S) \in [1..n -> S]
    BY <1>1 DEF SetToSeq
  <1> HIDE DEF n
  <1>3. PICK f \in [1..n -> S] : f = SetToSeq(S)
    BY <1>2
  <1> QED BY <1>1, <1>3

LEMMA UndoStepKeeps ==
    ASSUME CheckoutInv, Plain', UndoStep
    PROVE  CheckoutInv'
  <1>0. /\ TypeOK /\ Len(versions) \in Nat /\ vfile \subseteq Row /\ disk \in Files
        /\ AreRows(vfile) /\ AreRows(undo.vfile)
        /\ RowsKnown(versions, vfile) /\ RowsKnown(versions, undo.vfile)
        /\ vvar \in [checkout: 0..Len(versions), hash: 0..Len(versions)]
        /\ undo \in [available: 0..2, checkout: 0..Len(versions), vfile: SUBSET Row,
                     rows: Seq(UndoRow), torn: BOOLEAN]
        /\ torn \in BOOLEAN /\ crossed \in BOOLEAN
    BY DEF CheckoutInv, TypeOK, AreRows
  <1>1. ASSUME NEW names, UndoSave(names) PROVE CheckoutInv'
    <2> DEFINE rows == {r \in vfile : names = {} \/ r.name \in names}
               seq == SetToSeq(rows)
               saved == [i \in DOMAIN seq |-> [name |-> seq[i].name, data |-> disk[seq[i].name]]]
    <2>1. /\ undo' = [available |-> 1, checkout |-> vvar.checkout, vfile |-> vfile, torn |-> torn,
                      rows |-> saved]
          /\ UNCHANGED <<versions, vfile, vvar, torn, crossed, untagged>>
      BY <1>1 DEF UndoSave
    <2>2. rows \in SUBSET vfile /\ IsFiniteSet(vfile)
      BY <1>0, FiniteRows
    <2>3. rows \in SUBSET Row /\ IsFiniteSet(rows)
      BY <1>0, <2>2, FS_Subset
    <2> HIDE DEF rows
    <2>4. seq \in Seq(rows)
      BY <2>3, SeqOfSet
    <2> HIDE DEF seq
    <2>5. \A i \in 1..Len(seq) : seq[i] \in Row
      BY <2>3, <2>4
    <2>6. saved \in [1..Len(seq) -> UndoRow] /\ Len(seq) \in Nat
      BY <1>0, <2>4, <2>5 DEF Row, UndoRow, Files
    <2>7. saved \in Seq(UndoRow)
      BY <2>6
    <2> HIDE DEF saved
    <2>8. /\ undo' \in [available: 0..2, checkout: 0..Len(versions), vfile: SUBSET Row,
                        rows: Seq(UndoRow), torn: BOOLEAN]
          /\ undo'.vfile = vfile /\ undo'.checkout = vvar.checkout /\ undo'.torn = torn
      BY <1>0, <2>1, <2>7
    <2>9. TypeOK'
      BY <1>0, <2>1, <2>8 DEF TypeOK, Plain
    <2> QED BY <2>1, <2>8, <2>9 DEF CheckoutInv
  <1>2. ASSUME NEW available \in {1, 2}, swapState(available) PROVE CheckoutInv'
    <2> DEFINE rows == swapDiskFiles(disk, undo.rows).rows
    <2>1. /\ undo' = [available |-> 3 - available, checkout |-> vvar.checkout, vfile |-> vfile,
                      torn |-> torn, rows |-> rows]
          /\ vfile' = undo.vfile /\ vvar' = [vvar EXCEPT !.checkout = undo.checkout]
          /\ torn' = undo.torn
          /\ crossed' = (crossed \/ torn \/ undo.checkout # vvar.checkout)
          /\ UNCHANGED <<versions, untagged>>
      BY <1>2 DEF swapState
    <2>2. rows \in Seq(UndoRow)
      BY <1>0, SwapType
    <2> HIDE DEF rows
    <2>3. /\ undo' \in [available: 0..2, checkout: 0..Len(versions), vfile: SUBSET Row,
                        rows: Seq(UndoRow), torn: BOOLEAN]
          /\ undo'.vfile = vfile /\ undo'.checkout = vvar.checkout /\ undo'.torn = torn
      BY <1>0, <2>1, <2>2
    <2>4. /\ vvar' \in [checkout: 0..Len(versions), hash: 0..Len(versions)]
          /\ vvar'.checkout = undo.checkout /\ vvar'.hash = vvar.hash
      BY <1>0, <2>1
    <2>5. torn' \in BOOLEAN /\ crossed' \in BOOLEAN
      BY <1>0, <2>1
    <2>6. TypeOK'
      BY <1>0, <2>1, <2>3, <2>4, <2>5 DEF TypeOK, Plain
    <2>7. ~crossed' => ~crossed /\ ~torn /\ undo.checkout = vvar.checkout
      BY <2>1
    <2>8. ~crossed' => vvar'.hash = vvar'.checkout
      BY <2>4, <2>7 DEF CheckoutInv
    <2>9. ~torn' => Settled(versions', vfile', vvar'.checkout)
      BY <2>1, <2>4 DEF CheckoutInv
    <2>10. ~undo'.torn => Settled(versions', undo'.vfile, undo'.checkout)
      BY <2>1, <2>3 DEF CheckoutInv
    <2>11. RowsKnown(versions', vfile') /\ RowsKnown(versions', undo'.vfile)
      BY <1>0, <2>1, <2>3
    <2> QED BY <2>6, <2>8, <2>9, <2>10, <2>11 DEF CheckoutInv
  <1>3. ASSUME NEW done, SwapStops(done) PROVE CheckoutInv'
    BY <1>3, IdleKeeps DEF SwapStops
  <1> QED BY <1>1, <1>2, <1>3 DEF UndoStep

LEMMA StashStepKeeps ==
    ASSUME CheckoutInv, Plain', StashStep
    PROVE  CheckoutInv'
  <1>0. TypeOK /\ AreRows(vfile)
    BY DEF CheckoutInv, TypeOK
  <1>1. CASE StashSave
    <2> DEFINE others == {r \in vfile : r.name \notin NamesOf(Changed)}
               back == {r \in vfile : r.name \in NamesOf(Changed)
                                        /\ ~\E s \in Changed : s.name = r.name /\ s.added}
    <2>1. /\ vfile' = others \cup Reverted(back)
          /\ UNCHANGED <<versions, vvar, undo, torn, crossed, untagged>>
      BY <1>1 DEF StashSave, RevertNames
    <2>2. others \in SUBSET vfile /\ back \in SUBSET vfile /\ others \cap back = {}
      OBVIOUS
    <2>3. (\A r \in vfile : r.vid = vvar.checkout) => Tracked(vfile) \subseteq others \cup back
      <3> SUFFICES ASSUME \A r \in vfile : r.vid = vvar.checkout, NEW r \in Tracked(vfile),
                          r.name \in NamesOf(Changed)
                   PROVE  ~\E s \in Changed : s.name = r.name /\ s.added
        BY DEF Tracked
      <3>1. r \in vfile /\ ~r.added
        BY DEF Tracked
      <3>2. \A s \in Changed : s \in vfile /\ (s.name = r.name => s = r)
        BY <1>0, <3>1 DEF AreRows, Changed
      <3> QED BY <3>1, <3>2
    <2> HIDE DEF others, back
    <2> QED BY <1>0, <2>1, <2>2, <2>3, RevertRows, RowsKeep
  <1>2. CASE UNCHANGED <<versions, vfile, vvar, undo, torn, crossed, untagged>>
    BY <1>2, IdleKeeps
  <1>3. StashSave \/ UNCHANGED <<versions, vfile, vvar, undo, torn, crossed, untagged>>
    BY DEF StashStep, StashSaveStops, Apply, Drop, Pop, Clear
  <1> QED BY <1>1, <1>2, <1>3

LEMMA InitInv == Init => CheckoutInv
  <1> SUFFICES ASSUME Init PROVE CheckoutInv
    OBVIOUS
  <1> DEFINE v == Len(versions)
             new == {FreshRow(v, n, FilesOf(v)[n]) : n \in {m \in Name : FilesOf(v)[m] # Gone}}
  <1>1. /\ versions \in Seq(Version) /\ \A w \in 1..Len(versions) : versions[w].parent < w
        /\ v \in Nat
    BY ConstantsAssumption DEF Init
  <1>2. vvar = [checkout |-> v, hash |-> v] /\ vvar.checkout = v /\ vvar.hash = v
    BY DEF Init
  <1>3. vfile = new /\ disk \in {NoFiles, FilesOf(v)}
    BY <1>2 DEF Init
  <1>4. FilesOf(v) \in Files /\ FilesOf(v) = FilesIn(versions, v) /\ NoFiles \in Files
    <2>1. CASE v = 0
      BY <2>1 DEF FilesOf, FilesIn, NoFiles, Files
    <2>2. CASE v # 0
      <3>1. versions[v] \in Version
        BY <1>1, <2>2
      <3> QED BY <2>2, <3>1 DEF FilesOf, FilesIn, Version, NoFiles, Files
    <2> QED BY <2>1, <2>2
  <1>5. \A n \in {m \in Name : FilesOf(v)[m] # Gone} :
          /\ FreshRow(v, n, FilesOf(v)[n]) \in Row
          /\ FreshRow(v, n, FilesOf(v)[n]).vid = v
          /\ FreshRow(v, n, FilesOf(v)[n]).name = n
          /\ ~FreshRow(v, n, FilesOf(v)[n]).added
          /\ FreshRow(v, n, FilesOf(v)[n]).mhash = FilesOf(v)[n]
    BY <1>1, <1>4 DEF FreshRow, Row, Files
  <1>6. AreRows(vfile)
    BY <1>3, <1>5 DEF AreRows
  <1>7. RowsKnown(versions, vfile)
    <2> SUFFICES ASSUME NEW r \in new
                 PROVE  r.vid \in 0..v /\ \E n \in Name : FilesIn(versions, r.vid)[n] = r.mhash
      BY <1>3 DEF RowsKnown
    <2>1. PICK n \in {m \in Name : FilesOf(v)[m] # Gone} : r = FreshRow(v, n, FilesOf(v)[n])
      OBVIOUS
    <2>2. r.vid = v /\ r.mhash = FilesOf(v)[n]
      BY <1>5, <2>1
    <2> QED BY <1>1, <1>4, <2>2
  <1>8. /\ undo = [available |-> 0, checkout |-> 0, vfile |-> {}, rows |-> << >>, torn |-> FALSE]
        /\ queue = NoQueue /\ stash = << >> /\ steps = 0 /\ faults = 0
        /\ torn = FALSE /\ crossed = FALSE /\ untagged = {}
    BY DEF Init
  <1>9. /\ undo \in [available: 0..2, checkout: 0..v, vfile: SUBSET Row, rows: Seq(UndoRow), torn: BOOLEAN]
        /\ undo.vfile = {} /\ undo.checkout = 0
    BY <1>1, <1>8
  <1>10. TypeOK
    <2>1. AreRows(undo.vfile)
      BY <1>9 DEF AreRows
    <2>2. vvar \in [checkout: 0..v, hash: 0..v]
      BY <1>1, <1>2
    <2>3. disk \in Files
      BY <1>3, <1>4
    <2>4. steps \in 0..MaxSteps /\ faults \in 0..MaxFaults
      BY <1>8, ConstantsAssumption
    <2>5. /\ stash \in Seq((SUBSET StashFile) \ {{}}) /\ queue = NoQueue
          /\ torn \in BOOLEAN /\ crossed \in BOOLEAN /\ untagged \subseteq 1..v
      <3>1. << >> \in Seq((SUBSET StashFile) \ {{}})
        OBVIOUS
      <3>2. stash \in Seq((SUBSET StashFile) \ {{}}) /\ queue = NoQueue
        BY <1>8, <3>1
      <3>3. torn \in BOOLEAN /\ crossed \in BOOLEAN /\ untagged \subseteq 1..v
        BY <1>8
      <3> QED BY <3>2, <3>3
    <2> QED BY <1>1, <1>6, <1>9, <2>1, <2>2, <2>3, <2>4, <2>5 DEF TypeOK
  <1>11. RowsKnown(versions, undo.vfile)
    BY <1>9 DEF RowsKnown
  <1>12. Settled(versions, undo.vfile, undo.checkout)
    <2>1. Tracked(undo.vfile) = {} /\ FileNames(versions, undo.checkout) = {}
      BY <1>9 DEF Tracked, FileNames, FilesIn, NoFiles
    <2>2. Cardinality(Tracked(undo.vfile)) = 0 /\ Cardinality(FileNames(versions, undo.checkout)) = 0
      BY <2>1, FS_EmptySet
    <2> QED BY <1>9, <2>2 DEF Settled
  <1>13. Settled(versions, vfile, vvar.checkout)
    <2> DEFINE names == FileNames(versions, v)
               f == [n \in names |-> FreshRow(v, n, FilesOf(v)[n])]
    <2>1. names = {m \in Name : FilesOf(v)[m] # Gone}
      BY <1>4 DEF FileNames
    <2>2. \A r \in vfile : r.vid = v
      BY <1>3, <1>5
    <2> HIDE DEF names
    <2>3. \A n \in names : f[n] \in Tracked(vfile) /\ f[n].name = n
      BY <1>3, <1>5, <2>1 DEF Tracked
    <2>4. f \in [names -> Tracked(vfile)] /\ \A m, n \in names : f[m] = f[n] => m = n
      <3>1. \A m, n \in names : f[m] = f[n] => m = n
        <4> HIDE DEF f
        <4> QED BY <2>3
      <3> QED BY <2>3, <3>1
    <2> HIDE DEF f
    <2>5. f \in Injection(names, Tracked(vfile))
      BY <2>4 DEF Injection, IsInjective
    <2>6. IsFiniteSet(vfile) /\ Tracked(vfile) \in SUBSET vfile
      BY <1>1, <1>6, <1>7, FiniteRows DEF Tracked
    <2>7. IsFiniteSet(Tracked(vfile)) /\ Cardinality(Tracked(vfile)) \in Nat
      BY <2>6, FS_Subset, FS_CardinalityType
    <2>8. Cardinality(names) <= Cardinality(Tracked(vfile)) /\ Cardinality(names) \in Nat
      BY <2>5, <2>7, FS_Injection, FileNamesFinite DEF names
    <2>9. Cardinality(Tracked(vfile)) >= Cardinality(names)
      BY <2>7, <2>8
    <2> QED BY <1>2, <2>2, <2>9 DEF Settled, names
  <1> QED BY <1>2, <1>7, <1>10, <1>11, <1>12, <1>13 DEF CheckoutInv

LEMMA NextInv == CheckoutInv /\ [Next]_vars => CheckoutInv'
  <1> SUFFICES ASSUME CheckoutInv, [Next]_vars PROVE CheckoutInv'
    OBVIOUS
  <1>1. CASE Next
    <2>1. Plain'
      BY <1>1, PlainTypes DEF CheckoutInv
    <2> QED BY <1>1, <2>1, RowStepKeeps, VersionStepKeeps, UndoStepKeeps, StashStepKeeps DEF Next
  <1>2. CASE UNCHANGED vars
    BY <1>2 DEF vars, CheckoutInv, TypeOK
  <1> QED BY <1>1, <1>2

LEMMA Invariance == Spec => []CheckoutInv
  BY InitInv, NextInv, PTL DEF Spec

-----------------------------------------------------------------------------
(* Whatever operations succeed, are refused or stop half way, in any order: *)
(* unless one has stopped, the rows of vfile are those of the version that  *)
(* is checked out, with a row for each of its files, and the version's hash *)
(* is right, so that the checkout can be opened (LoadVFile,                 *)
(* finalizeExtract, finalizeCommit, finalizeUpdate, swapTables).            *)
THEOREM CheckoutStaysConsistent == Spec => []CheckoutConsistent
  <1>1. CheckoutInv => CheckoutConsistent
    <2> SUFFICES ASSUME CheckoutInv, ~torn
                 PROVE  /\ \A r \in vfile : /\ r.vid = vvar.checkout
                                            /\ ~r.added => \E n \in Name : FilesOf(vvar.checkout)[n] = r.mhash
                        /\ Cardinality({r \in vfile : ~r.added})
                             >= Cardinality({n \in Name : FilesOf(vvar.checkout)[n] # Gone})
                        /\ ~crossed => vvar.hash = vvar.checkout
      BY DEF CheckoutInv, CheckoutConsistent
    <2>1. /\ Settled(versions, vfile, vvar.checkout) /\ RowsKnown(versions, vfile)
          /\ vvar.checkout \in 0..Len(versions) /\ TypeOK
      BY DEF CheckoutInv, TypeOK
    <2>2. FilesOf(vvar.checkout) = FilesIn(versions, vvar.checkout)
      BY <2>1, FilesOfType
    <2>3. \A r \in vfile : /\ r.vid = vvar.checkout
                           /\ ~r.added => \E n \in Name : FilesOf(vvar.checkout)[n] = r.mhash
      BY <2>1, <2>2 DEF Settled, RowsKnown
    <2>4. Cardinality({r \in vfile : ~r.added})
            >= Cardinality({n \in Name : FilesOf(vvar.checkout)[n] # Gone})
      BY <2>1, <2>2 DEF Settled, Tracked, FileNames
    <2> QED BY <2>3, <2>4 DEF CheckoutInv
  <1> QED BY <1>1, Invariance, PTL

(* Only a commit, however it ends, makes a version.                         *)
LEMMA OnlyCommits ==
    ASSUME TypeOK, [Next]_vars, Len(versions') > Len(versions)
    PROVE  /\ vvar'.checkout \in {vvar.checkout, Len(versions) + 1}
           /\ untagged' \subseteq untagged \cup {Len(versions) + 1}
           /\ \E x \in Version : /\ versions' = Append(versions, x)
                                 /\ x.parent = vvar.checkout /\ x.files = buildCommitFiles
  <1>1. versions' # versions
    BY DEF TypeOK
  <1>2. \E b \in Branch \cup {NoName} : Commit(b) \/ CommitStops(b)
    BY <1>1 DEF vars, Next, RowStep, VersionStep, UndoStep, StashStep, Edit, ScanChanges, Manage,
             Unmanage, Rename, RevertRename, Revert, Enqueue, Dequeue, Extract, ExtractRefused,
             LoadStops, ExtractStops, Update, UpdateStops, UndoSave, swapState, SwapStops, StashSave,
             StashSaveStops, Apply, Drop, Pop, Clear
  <1>3. PICK b \in Branch \cup {NoName} : Commit(b) \/ CommitStops(b)
    BY <1>2
  <1>4. PICK c \in Branch \cup {NoName} : versions' = Append(versions, NewVersion(c, buildCommitFiles))
    BY <1>3 DEF Commit, CommitStops
  <1>5. /\ NewVersion(c, buildCommitFiles) \in Version
        /\ NewVersion(c, buildCommitFiles).parent = vvar.checkout
        /\ NewVersion(c, buildCommitFiles).files = buildCommitFiles
    BY NewVersionType
  <1>6. vvar'.checkout \in {vvar.checkout, Len(versions) + 1}
    <2>1. vvar' \in {vvar, [vvar EXCEPT !.checkout = Len(versions) + 1],
                    [checkout |-> Len(versions) + 1, hash |-> Len(versions) + 1]}
      BY <1>3 DEF Commit, CommitStops
    <2>2. vvar \in [checkout: 0..Len(versions), hash: 0..Len(versions)]
      BY DEF TypeOK
    <2> QED BY <2>1, <2>2
  <1>7. untagged' \subseteq untagged \cup {Len(versions) + 1}
    BY <1>3 DEF Commit, CommitStops, Tagged
  <1> QED BY <1>4, <1>5, <1>6, <1>7

LEMMA NewestVersion ==
    ASSUME TypeOK, NEW x \in Version, versions' = Append(versions, x)
    PROVE  /\ Len(versions') = Len(versions) + 1 /\ Len(versions) \in Nat
           /\ DOMAIN versions = 1..Len(versions) /\ DOMAIN versions' = 1..Len(versions')
           /\ Last(versions') = x /\ versions'[Len(versions')] = x
           /\ \A v \in 1..Len(versions) : versions'[v] = versions[v]
  BY DEF TypeOK, Last

(* A user to whom WouldFork says no, and who commits on, has the only leaf  *)
(* of the branch afterwards, even if the commit stops before vvar names the *)
(* new version: every other leaf would have been warned of (fork.go).  Not  *)
(* so if it stops before its own tags, or tags what an earlier commit has   *)
(* left untagged, of which WouldFork does not know.                         *)
THEOREM NoForkUnwarned == Spec => NoForkUnlessWarned
  <1>1. TypeOK /\ [Next]_vars =>
          (Len(versions') > Len(versions) /\ ~WouldFork
             /\ Len(versions') \notin untagged' /\ untagged \subseteq untagged'
             /\ Last(versions').branch = currentBranch(vvar.checkout)
             => BranchLeaves(currentBranch(vvar.checkout))' = {Len(versions')})
    <2> SUFFICES ASSUME TypeOK, [Next]_vars, Len(versions') > Len(versions), ~WouldFork,
                        Len(versions') \notin untagged', untagged \subseteq untagged',
                        Last(versions').branch = currentBranch(vvar.checkout)
                 PROVE  BranchLeaves(currentBranch(vvar.checkout))' = {Len(versions')}
      OBVIOUS
    <2> DEFINE n == Len(versions)
               co == vvar.checkout
               B == currentBranch(vvar.checkout)
    <2>1. PICK x \in Version : versions' = Append(versions, x) /\ x.parent = co
      BY OnlyCommits
    <2>2. vvar'.checkout \in {co, n + 1} /\ untagged' \subseteq untagged \cup {n + 1}
      BY OnlyCommits
    <2>3. /\ Len(versions') = n + 1 /\ n \in Nat
          /\ DOMAIN versions = 1..n /\ DOMAIN versions' = 1..(n + 1)
          /\ Last(versions') = x /\ versions'[n + 1] = x
          /\ \A v \in 1..n : versions'[v] = versions[v]
      BY <2>1, NewestVersion
    <2>4. co \in 0..n /\ \A v \in 1..n : versions[v].parent < v
      BY DEF TypeOK
    <2>5. \A v \in 1..n : versions[v].parent \in Nat
      <3>1. \A v \in 1..n : versions[v] \in Version
        BY DEF TypeOK
      <3> QED BY <3>1 DEF Version
    <2>6. B = IF co = 0 \/ co \in untagged THEN "trunk" ELSE versions[co].branch
      BY DEF currentBranch
    <2>7. (IF vvar'.checkout = 0 \/ vvar'.checkout \in untagged' THEN "trunk"
           ELSE versions'[vvar'.checkout].branch) = B
      <3>1. CASE vvar'.checkout = co
        <4>1. co # n + 1 /\ (co \in untagged' <=> co \in untagged)
          BY <2>2, <2>3, <2>4
        <4>2. co # 0 => versions'[co] = versions[co]
          BY <2>3, <2>4
        <4> QED BY <2>6, <3>1, <4>1, <4>2
      <3>2. CASE vvar'.checkout = n + 1
        BY <2>3, <3>2
      <3> QED BY <2>2, <3>1, <3>2
    <2>8. BranchLeaves(currentBranch(vvar.checkout))'
            = {v \in 1..(n + 1) : /\ \A w \in 1..(n + 1) : versions'[w].parent # v
                                  /\ v \notin untagged' /\ versions'[v].branch = B}
      BY <2>3, <2>7 DEF BranchLeaves, Leaves, currentBranch
    <2>9. n + 1 \in BranchLeaves(currentBranch(vvar.checkout))'
      <3>1. \A w \in 1..(n + 1) : versions'[w].parent # n + 1
        <4> SUFFICES ASSUME NEW w \in 1..(n + 1) PROVE versions'[w].parent # n + 1
          OBVIOUS
        <4>1. CASE w = n + 1
          BY <2>1, <2>3, <2>4, <4>1
        <4>2. CASE w \in 1..n
          <5>1. versions'[w].parent \in Nat /\ versions'[w].parent < w
            BY <2>3, <2>4, <2>5, <4>2
          <5> QED BY <2>3, <4>2, <5>1
        <4> QED BY <2>3, <4>1, <4>2
      <3>2. versions'[n + 1].branch = B
        BY <2>3
      <3> QED BY <2>3, <2>8, <3>1, <3>2
    <2>10. ASSUME NEW v \in 1..n, \A w \in 1..(n + 1) : versions'[w].parent # v,
                  v \notin untagged', versions'[v].branch = B
           PROVE  FALSE
      <3>1. \A w \in 1..n : versions[w].parent # v
        BY <2>3, <2>10
      <3>2. v # co
        BY <2>1, <2>3, <2>10
      <3>3. v \in BranchLeaves(B)
        BY <2>3, <2>10, <3>1 DEF BranchLeaves, Leaves
      <3> QED BY <3>2, <3>3 DEF WouldFork
    <2>11. \A v \in 1..(n + 1) : v \in 1..n \/ v = n + 1
      BY <2>3
    <2> QED BY <2>3, <2>8, <2>9, <2>10, <2>11
  <1>2. CheckoutInv => TypeOK
    BY DEF CheckoutInv
  <1> QED BY <1>1, <1>2, Invariance, PTL DEF NoForkUnlessWarned, Spec

(* A commit writes for each file that is not renamed what the working       *)
(* directory has, whatever the flags in vfile said before the scan, and     *)
(* leaves the files it does not include as they are in the parent, however  *)
(* vfile came about: a version has one row for a name.                      *)
THEOREM CommitsRecordDisk == Spec => CommitRecordsDisk
  <1> DEFINE files == Last(versions').files
             parent == FilesOf(vvar.checkout)
             renamed(r) == r.orig # NoName \/ (~r.added /\ r.mhash # FilesOf(vvar.checkout)[r.name])
  <1>1. TypeOK /\ [Next]_vars =>
          (Len(versions') > Len(versions) =>
             \A r \in {s \in Current : ~renamed(s)} :
               IF ~IsEnqueued(r.name) /\ queue # {} THEN r.added \/ files[r.name] = FilesOf(vvar.checkout)[r.name]
               ELSE IF r.deleted THEN files[r.name] = Gone
               ELSE disk[r.name] \in {Gone, Empty} \/ files[r.name] = disk[r.name])
    <2> SUFFICES ASSUME TypeOK, [Next]_vars, Len(versions') > Len(versions),
                        NEW r \in Current, ~renamed(r)
                 PROVE  IF ~shouldInclude(r.name) THEN r.added \/ files[r.name] = parent[r.name]
                        ELSE IF r.deleted THEN files[r.name] = Gone
                        ELSE disk[r.name] \in {Gone, Empty} \/ files[r.name] = disk[r.name]
      BY DEF shouldInclude, queueActive, IsEnqueued
    <2> DEFINE n == r.name
               s == scanSingleEntry(r)
    <2>1. PICK x \in Version : versions' = Append(versions, x) /\ x.files = buildCommitFiles
      BY OnlyCommits
    <2>2. files = buildCommitFiles
      <3>1. Last(versions') = x
        BY <2>1, NewestVersion
      <3> QED BY <2>1, <3>1
    <2>3. r \in vfile /\ r \in Row /\ r.vid = vvar.checkout /\ n \in Name
      BY DEF Current, TypeOK, AreRows, Row
    <2>4. /\ s.vid = r.vid /\ s.name = n /\ s.added = r.added /\ s.mhash = r.mhash
          /\ s.deleted = r.deleted
          /\ ~r.deleted /\ disk[n] # Gone => (s.chnged <=> disk[n] # r.mhash)
      BY <2>3, ScanRow
    <2>5. s \in CommitRows
      <3>1. s \in Scanned
        BY <2>3, ScannedRows
      <3> QED BY <2>3, <2>4, <3>1 DEF CommitRows
    <2> HIDE DEF s, n, files, parent
    <2>6. \A t \in CommitRows : t.name = n => t = s
      <3>1. AreRows(Scanned)
        BY ScanFollows
      <3> QED BY <2>3, <2>4, <2>5, <3>1 DEF CommitRows, AreRows
    <2>7. n \in NamesOf(CommitRows) /\ RowNamed(n) = s
      <3>1. n \in NamesOf(CommitRows)
        BY <2>4, <2>5 DEF NamesOf
      <3>2. RowNamed(n) \in CommitRows /\ RowNamed(n).name = n
        BY <2>4, <2>5 DEF RowNamed
      <3> QED BY <2>6, <3>1, <3>2
    <2>8. n \in NamesOf(FromDisk) <=> ~s.deleted /\ (s.chnged \/ s.added) /\ shouldInclude(n)
      <3>1. n \in NamesOf(FromDisk) <=> s \in FromDisk
        BY <2>4, <2>6 DEF NamesOf, FromDisk
      <3> QED BY <2>4, <2>5, <3>1 DEF FromDisk
    <2>9. n \in CommitNames <=> \/ parent[n] # Gone /\ ~(s.deleted /\ shouldInclude(n))
                                \/ n \in NamesOf(FromDisk)
      <3>1. n \in {t.name : t \in {u \in CommitRows : u.deleted /\ shouldInclude(u.name)}}
              <=> s.deleted /\ shouldInclude(n)
        BY <2>4, <2>5, <2>6
      <3> QED BY <2>3, <3>1 DEF CommitNames, parent, n
    <2>10. files[n] = IF n \notin CommitNames THEN Gone
                      ELSE IF IsRead(n) THEN disk[n]
                      ELSE s.mhash
      <3>1. n \in Name
        BY <2>3 DEF n
      <3> QED BY <2>2, <2>7, <3>1 DEF buildCommitFiles
    <2>11. ~r.added => parent[n] = r.mhash
      BY DEF parent, n
    <2>12. r.mhash \in Content /\ Gone \notin Content
      BY <2>3, ConstantsAssumption DEF Row
    <2>13. CASE ~shouldInclude(n)
      <3>1. n \notin NamesOf(FromDisk) /\ ~IsRead(n)
        BY <2>8, <2>13 DEF IsRead
      <3>2. ~r.added => n \in CommitNames
        BY <2>9, <2>11, <2>12, <2>13
      <3> QED BY <2>4, <2>10, <2>11, <2>13, <3>1, <3>2 DEF n
    <2>14. CASE shouldInclude(n) /\ r.deleted
      <3>1. n \notin CommitNames
        BY <2>4, <2>8, <2>9, <2>14
      <3> QED BY <2>10, <2>14, <3>1 DEF n
    <2>15. CASE shouldInclude(n) /\ ~r.deleted /\ disk[n] \notin {Gone, Empty}
      <3>1. CASE s.chnged \/ s.added
        <4>1. n \in NamesOf(FromDisk)
          BY <2>4, <2>8, <2>15, <3>1
        <4>2. n \in CommitNames /\ IsRead(n)
          BY <2>9, <2>15, <4>1 DEF IsRead
        <4> QED BY <2>10, <2>15, <4>2 DEF n
      <3>2. CASE ~(s.chnged \/ s.added)
        <4>1. disk[n] = r.mhash /\ ~r.added
          BY <2>4, <2>15, <3>2
        <4>2. n \in CommitNames
          BY <2>4, <2>9, <2>11, <2>12, <2>15, <4>1
        <4>3. files[n] = disk[n]
          BY <2>4, <2>10, <4>1, <4>2
        <4> QED BY <2>15, <4>3 DEF n
      <3> QED BY <3>1, <3>2
    <2> QED BY <2>13, <2>14, <2>15 DEF n
  <1>2. CheckoutInv => TypeOK
    BY DEF CheckoutInv
  <1> QED BY <1>1, <1>2, Invariance, PTL DEF CommitRecordsDisk, Spec

(* An update of an unmodified working directory to a descendant of its      *)
(* version leaves that descendant's files there, those that it deletes or   *)
(* adds included (update.go).                                               *)
THEOREM UpdatesReach == Spec => UpdateReaches
  <1>1. TypeOK /\ [Next]_vars =>
          (vvar' # vvar /\ disk = FilesOf(vvar.checkout) =>
             \A v \in DOMAIN versions :
               Ancestor(vvar.checkout, v) = vvar.checkout /\ Update(v, FALSE) => disk' = FilesOf(v))
    <2> SUFFICES ASSUME TypeOK, disk = FilesOf(vvar.checkout), NEW v \in DOMAIN versions,
                        Ancestor(vvar.checkout, v) = vvar.checkout, Update(v, FALSE)
                 PROVE  disk' = FilesOf(v)
      OBVIOUS
    <2>1. v \in 1..Len(versions) /\ Len(versions) \in Nat
      BY DEF TypeOK
    <2>2. Target(v) = v
      BY <2>1 DEF Target
    <2>3. disk' = processFileUpdates(v, UpdateNames(v))
      BY <2>2 DEF Update
    <2>4. FilesOf(v) \in Files
      BY <2>1, FilesOfType
    <2>5. disk' = [n \in Name |-> IF n \notin UpdateNames(v) THEN disk[n]
                                  ELSE updateFile(disk[n], disk[n], FilesOf(v)[n], disk[n])]
      BY <2>3 DEF processFileUpdates
    <2>6. \A n \in Name : disk'[n] = FilesOf(v)[n]
      <3> SUFFICES ASSUME NEW n \in Name PROVE disk'[n] = FilesOf(v)[n]
        OBVIOUS
      <3>1. n \notin UpdateNames(v) => disk[n] = Gone /\ FilesOf(v)[n] = Gone
        BY DEF UpdateNames
      <3>2. updateFile(disk[n], disk[n], FilesOf(v)[n], disk[n]) = FilesOf(v)[n]
        BY DEF updateFile
      <3> QED BY <2>5, <3>1, <3>2
    <2> QED BY <2>4, <2>5, <2>6 DEF Files
  <1>2. CheckoutInv => TypeOK
    BY DEF CheckoutInv
  <1> QED BY <1>1, <1>2, Invariance, PTL DEF UpdateReaches, Spec

(* The file of a name that no row before i has, and of one that only row k  *)
(* has.                                                                     *)
LEMMA FileAtNone ==
    ASSUME NEW d, NEW rows, NEW n, NEW i, \A j \in DOMAIN rows : ~(j < i /\ rows[j].name = n)
    PROVE  FileAt(d, rows, n, i) = d[n]
  BY DEF FileAt

LEMMA FileAtOne ==
    ASSUME NEW d, NEW rows, NEW n, NEW i, NEW k \in DOMAIN rows, k \in Nat, k < i,
           rows[k].name = n, \A j \in DOMAIN rows : rows[j].name = n => j = k
    PROVE  FileAt(d, rows, n, i) = rows[k].data
  <1> DEFINE before == {j \in DOMAIN rows : j < i /\ rows[j].name = n}
  <1>1. before = {k}
    OBVIOUS
  <1>2. Max({k}) = k
    BY DEF Max
  <1>3. FileAt(d, rows, n, i) = IF before = {} THEN d[n] ELSE rows[Max(before)].data
    BY DEF FileAt
  <1> HIDE DEF before
  <1> QED BY <1>1, <1>2, <1>3

(* Undo and redo keep the file that they replace, in the first row that     *)
(* names it.                                                                *)
LEMMA SwapKeepsFile ==
    ASSUME NEW d \in Files, NEW rows \in Seq(UndoRow), NEW n \in Name
    PROVE  \/ swapDiskFiles(d, rows).disk[n] = d[n]
           \/ \E i \in DOMAIN swapDiskFiles(d, rows).rows : swapDiskFiles(d, rows).rows[i].data = d[n]
  <1> DEFINE named == {j \in DOMAIN rows : rows[j].name = n}
  <1>0. named \in SUBSET Nat /\ DOMAIN rows = 1..Len(rows) /\ Len(rows) \in Nat
    OBVIOUS
  <1>1. CASE named = {}
    <2>1. FileAt(d, rows, n, Len(rows) + 1) = d[n]
      BY <1>1, FileAtNone
    <2> QED BY <2>1 DEF swapDiskFiles
  <1>2. CASE named # {}
    <2>1. PICK i \in named : \A j \in named : i <= j
      <3> HIDE DEF named
      <3> QED BY <1>0, <1>2, LeastElement
    <2>2. \A j \in DOMAIN rows : ~(j < i /\ rows[j].name = n)
      BY <1>0, <2>1
    <2>3. FileAt(d, rows, n, i) = d[n]
      BY <2>2, FileAtNone
    <2>4. i \in DOMAIN rows /\ rows[i].name = n
      BY <2>1
    <2>5. /\ i \in DOMAIN swapDiskFiles(d, rows).rows
          /\ swapDiskFiles(d, rows).rows[i].data = d[n]
      BY <2>3, <2>4 DEF swapDiskFiles
    <2> QED BY <2>5
  <1> QED BY <1>1, <1>2

(* No checked extraction, undo, redo or stash destroys the last copy of a   *)
(* file: it is still on disk, in a row of the undo table or in the stash    *)
(* (extract.go, undo.go, stash.go).                                         *)
THEOREM EditsAreKept == Spec => EditsKept
  <1>1. CheckoutInv /\ [Next]_vars =>
          (/\ disk' # disk
           /\ \/ \E v \in DOMAIN versions : Extract(v, "check")
              \/ \E available \in {1, 2} : swapState(available)
              \/ StashSave
           => \A n \in Name : \/ disk[n] \in Copies' \cup {Gone}
                             \/ \E r \in vfile : r.name = n /\ r.deleted)
    <2> SUFFICES ASSUME CheckoutInv, NEW n \in Name,
                        \/ \E v \in DOMAIN versions : Extract(v, "check")
                        \/ \E available \in {1, 2} : swapState(available)
                        \/ StashSave
                 PROVE  \/ disk[n] \in Copies' \cup {Gone}
                        \/ \E r \in vfile : r.name = n /\ r.deleted
      OBVIOUS
    <2>0. /\ TypeOK /\ disk \in Files /\ undo.rows \in Seq(UndoRow)
          /\ stash \in Seq((SUBSET StashFile) \ {{}}) /\ vfile \subseteq Row
      BY DEF CheckoutInv, TypeOK, AreRows
    <2>1. /\ disk'[n] = disk[n] => disk[n] \in Copies'
          /\ Undoable' \subseteq Copies' /\ Stashed' \subseteq Copies'
      BY DEF Copies
    <2>2. ASSUME NEW v \in DOMAIN versions, Extract(v, "check")
          PROVE  disk[n] \in Copies' \cup {Gone}
      <3>1. /\ \A r \in RowsOf(v) : ~r.added /\ disk[r.name] \in {Gone, r.mhash}
            /\ disk' = WithRows(disk, RowsOf(v))
        BY <2>2 DEF Extract, HasLocalChanges
      <3>2. CASE n \in NamesOf(RowsOf(v))
        <4> DEFINE r == CHOOSE s \in RowsOf(v) : s.name = n
        <4>1. r \in RowsOf(v) /\ r.name = n
          BY <3>2 DEF NamesOf
        <4>2. disk'[n] = IF r.added THEN Gone ELSE r.mhash
          BY <3>1, <3>2 DEF WithRows
        <4> HIDE DEF r
        <4>3. disk[n] = Gone \/ disk'[n] = disk[n]
          BY <3>1, <4>1, <4>2
        <4> QED BY <2>1, <4>3
      <3>3. CASE n \notin NamesOf(RowsOf(v))
        <4>1. disk'[n] = disk[n]
          BY <3>1, <3>3 DEF WithRows
        <4> QED BY <2>1, <4>1
      <3> QED BY <3>2, <3>3
    <2>3. ASSUME NEW available \in {1, 2}, swapState(available)
          PROVE  disk[n] \in Copies'
      <3> DEFINE swapped == swapDiskFiles(disk, undo.rows)
      <3>1. disk' = swapped.disk /\ undo'.rows = swapped.rows
        BY <2>3 DEF swapState
      <3>2. \/ swapped.disk[n] = disk[n]
            \/ \E i \in DOMAIN swapped.rows : swapped.rows[i].data = disk[n]
        BY <2>0, SwapKeepsFile
      <3> HIDE DEF swapped
      <3>3. CASE swapped.disk[n] = disk[n]
        BY <2>1, <3>1, <3>3
      <3>4. CASE \E i \in DOMAIN swapped.rows : swapped.rows[i].data = disk[n]
        <4>1. disk[n] \in Undoable'
          BY <3>1, <3>4 DEF Undoable
        <4> QED BY <2>1, <4>1
      <3> QED BY <3>2, <3>3, <3>4
    <2>4. ASSUME StashSave
          PROVE  disk[n] \in Copies' \/ \E r \in vfile : r.name = n /\ r.deleted
      <3> DEFINE saved == {StashRow(r) : r \in Changed}
      <3>1. disk' = WithRows(disk, Changed) /\ stash' = Append(stash, saved)
        BY <2>4 DEF StashSave
      <3>2. CASE n \notin NamesOf(Changed)
        <4>1. disk'[n] = disk[n]
          BY <3>1, <3>2 DEF WithRows
        <4> QED BY <2>1, <4>1
      <3>3. CASE n \in NamesOf(Changed)
        <4>1. PICK r \in Changed : r.name = n
          BY <3>3 DEF NamesOf
        <4>2. r \in vfile
          BY DEF Changed
        <4>3. CASE r.deleted
          BY <4>1, <4>2, <4>3
        <4>4. CASE ~r.deleted
          <5>1. StashRow(r).data = disk[n] /\ StashRow(r) \in saved
            BY <4>1, <4>4 DEF StashRow, IsRemoved
          <5> HIDE DEF saved
          <5>2. Len(stash) + 1 \in DOMAIN stash' /\ stash'[Len(stash) + 1] = saved
            BY <2>0, <3>1
          <5>3. disk[n] \in {f.data : f \in stash'[Len(stash) + 1]}
            BY <5>1, <5>2
          <5>4. disk[n] \in Stashed'
            BY <5>2, <5>3 DEF Stashed
          <5> QED BY <2>1, <5>4
        <4> QED BY <4>3, <4>4
      <3> QED BY <3>2, <3>3
    <2> QED BY <2>2, <2>3, <2>4
  <1> QED BY <1>1, Invariance, PTL DEF EditsKept, Spec

LEMMA SwapTwice ==
    ASSUME NEW d \in Files, NEW rows \in Seq(UndoRow),
           IsInjective([i \in DOMAIN rows |-> rows[i].name])
    PROVE  swapDiskFiles(swapDiskFiles(d, rows).disk, swapDiskFiles(d, rows).rows).disk = d
  <1> DEFINE d2 == swapDiskFiles(d, rows).disk
             rows2 == swapDiskFiles(d, rows).rows
             d3 == swapDiskFiles(d2, rows2).disk
             last == Len(rows) + 1
  <1>0. /\ DOMAIN rows = 1..Len(rows) /\ Len(rows) \in Nat
        /\ \A i, j \in DOMAIN rows : rows[i].name = rows[j].name => i = j
    BY DEF IsInjective
  <1>1. /\ rows2 = [i \in DOMAIN rows |->
                      [name |-> rows[i].name, data |-> FileAt(d, rows, rows[i].name, i)]]
        /\ d2 = [n \in Name |-> FileAt(d, rows, n, last)]
    BY DEF swapDiskFiles
  <1>2. /\ DOMAIN rows2 = DOMAIN rows
        /\ \A i \in DOMAIN rows : /\ rows2[i].name = rows[i].name
                                  /\ rows2[i].data = FileAt(d, rows, rows[i].name, i)
    BY <1>1
  <1>3. Len(rows2) = Len(rows)
    <2>1. rows2 \in Seq(UndoRow)
      BY SwapType
    <2> QED BY <1>0, <1>2, <2>1
  <1>4. d3 = [n \in Name |-> FileAt(d2, rows2, n, last)]
    BY <1>3 DEF swapDiskFiles
  <1> HIDE DEF d2, rows2, d3
  <1>5. ASSUME NEW n \in Name PROVE FileAt(d2, rows2, n, last) = d[n]
    <2>1. CASE \E k \in DOMAIN rows : rows[k].name = n
      <3>1. PICK k \in DOMAIN rows : rows[k].name = n
        BY <2>1
      <3>2. \A j \in DOMAIN rows : rows[j].name = n => j = k
        BY <1>0, <3>1
      <3>3. k \in Nat /\ k < last
        BY <1>0
      <3>4. FileAt(d2, rows2, n, last) = rows2[k].data
        <4>1. /\ k \in DOMAIN rows2 /\ rows2[k].name = n
              /\ \A j \in DOMAIN rows2 : rows2[j].name = n => j = k
          BY <1>2, <3>1, <3>2
        <4> QED BY <3>3, <4>1, FileAtOne
      <3>5. FileAt(d, rows, n, k) = d[n]
        <4>1. \A j \in DOMAIN rows : ~(j < k /\ rows[j].name = n)
          BY <1>0, <3>2
        <4> QED BY <4>1, FileAtNone
      <3> QED BY <1>2, <3>1, <3>4, <3>5
    <2>2. CASE \A k \in DOMAIN rows : rows[k].name # n
      <3>1. FileAt(d2, rows2, n, last) = d2[n]
        BY <1>2, <2>2, FileAtNone
      <3>2. FileAt(d, rows, n, last) = d[n]
        BY <2>2, FileAtNone
      <3> QED BY <1>1, <3>1, <3>2
    <2> QED BY <2>1, <2>2
  <1>6. d3 = d
    BY <1>4, <1>5 DEF Files
  <1> QED BY <1>6 DEF d3, d2, rows2

(* Undo and redo reverse each other unless the undo table has two rows for  *)
(* a file, and a stash applied where it was saved brings back every changed *)
(* file, those that were removed gone (undo.go, stash.go).                  *)
THEOREM SavedStateComesBack == Spec => SavedComesBack
  <1>1. CheckoutInv /\ [Next]_vars =>
          (undo' # undo /\ IsInjective([i \in DOMAIN undo.rows |-> undo.rows[i].name])
             /\ (\E available \in {1, 2} : swapState(available)) =>
               /\ swapDiskFiles(disk', undo'.rows).disk = disk
               /\ undo'.vfile = vfile /\ undo'.checkout = vvar.checkout)
    <2> SUFFICES ASSUME CheckoutInv, IsInjective([i \in DOMAIN undo.rows |-> undo.rows[i].name]),
                        NEW available \in {1, 2}, swapState(available)
                 PROVE  /\ swapDiskFiles(disk', undo'.rows).disk = disk
                        /\ undo'.vfile = vfile /\ undo'.checkout = vvar.checkout
      OBVIOUS
    <2>1. disk \in Files /\ undo.rows \in Seq(UndoRow)
      BY DEF CheckoutInv, TypeOK
    <2>2. /\ disk' = swapDiskFiles(disk, undo.rows).disk
          /\ undo'.rows = swapDiskFiles(disk, undo.rows).rows
          /\ undo'.vfile = vfile /\ undo'.checkout = vvar.checkout
      BY DEF swapState
    <2> QED BY <2>1, <2>2, SwapTwice
  <1>2. CheckoutInv /\ [Next]_vars =>
          (stash' # stash /\ StashSave =>
             \A n \in Name : ApplyTo(Last(stash'), disk')[n]
                               = IF \E r \in vfile : r.name = n /\ IsRemoved(r) THEN Gone
                                 ELSE disk[n])
    <2> SUFFICES ASSUME CheckoutInv, StashSave, NEW n \in Name
                 PROVE  ApplyTo(Last(stash'), disk')[n]
                          = IF \E r \in vfile : r.name = n /\ IsRemoved(r) THEN Gone ELSE disk[n]
      OBVIOUS
    <2> DEFINE saved == {StashRow(r) : r \in Changed}
    <2>1. /\ AreUnique(Changed) /\ stash' = Append(stash, saved) /\ disk' = WithRows(disk, Changed)
          /\ stash \in Seq((SUBSET StashFile) \ {{}})
      BY DEF StashSave, CheckoutInv, TypeOK
    <2>2. \A r \in Changed : StashRow(r).name = r.name
      BY DEF StashRow
    <2>3. \A r, s \in Changed : r.name = s.name => r = s
      <3> DEFINE f == [r \in Changed |-> r.name]
      <3>1. Len(versions) \in Nat /\ AreRows(vfile) /\ RowsKnown(versions, vfile)
        BY DEF CheckoutInv, TypeOK
      <3>2. IsFiniteSet(vfile) /\ Changed \in SUBSET vfile
        BY <3>1, FiniteRows DEF Changed
      <3>3. IsFiniteSet(Changed)
        BY <3>2, FS_Subset
      <3>4. f \in Surjection(Changed, NamesOf(Changed))
        BY DEF Surjection, NamesOf
      <3>5. f \in Injection(Changed, NamesOf(Changed))
        BY <2>1, <3>3, <3>4, FS_Surjection DEF AreUnique
      <3>6. \A r, s \in Changed : f[r] = f[s] => r = s
        BY <3>5 DEF Injection, IsInjective
      <3> QED BY <3>6
    <2>4. \A r \in vfile : IsRemoved(r) => r \in Changed
      BY DEF Changed, IsRemoved, IsChanged
    <2>5. Last(stash') = saved
      <3> HIDE DEF saved
      <3> QED BY <2>1 DEF Last
    <2>6. CASE \E r \in Changed : r.name = n
      <3>1. PICK r \in Changed : r.name = n
        BY <2>6
      <3>2. \A f \in saved : f.name = n => f = StashRow(r)
        BY <2>2, <2>3, <3>1
      <3>3. StashRow(r) \in saved /\ StashRow(r).name = n
        BY <2>2, <3>1
      <3> HIDE DEF saved
      <3>4. ApplyTo(saved, disk')[n] = (CHOOSE f \in saved : f.name = n).data
        BY <3>3 DEF ApplyTo
      <3>5. (CHOOSE f \in saved : f.name = n) = StashRow(r)
        BY <3>2, <3>3
      <3>6. StashRow(r).data = IF IsRemoved(r) THEN Gone ELSE disk[n]
        BY <3>1 DEF StashRow
      <3>7. (\E q \in vfile : q.name = n /\ IsRemoved(q)) <=> IsRemoved(r)
        <4>1. r \in vfile
          BY DEF Changed
        <4> QED BY <2>3, <2>4, <3>1, <4>1
      <3> QED BY <2>5, <3>4, <3>5, <3>6, <3>7
    <2>7. CASE ~\E r \in Changed : r.name = n
      <3>1. ~\E f \in saved : f.name = n
        BY <2>2, <2>7
      <3>2. ApplyTo(saved, disk')[n] = disk'[n]
        BY <3>1 DEF ApplyTo
      <3>3. disk'[n] = disk[n]
        BY <2>1, <2>7 DEF WithRows, NamesOf
      <3>4. ~\E q \in vfile : q.name = n /\ IsRemoved(q)
        BY <2>4, <2>7
      <3> QED BY <2>5, <3>2, <3>3, <3>4
    <2> QED BY <2>6, <2>7
  <1> QED BY <1>1, <1>2, Invariance, PTL DEF SavedComesBack, Spec
=============================================================================
