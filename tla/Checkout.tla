----------------------------- MODULE Checkout ------------------------------
(***************************************************************************)
(* A checkout (internal/checkout) with its undo state (internal/undo) and   *)
(* its stash (internal/stash).  A working directory, the table vfile of the *)
(* files it tracks and the version they come from change together, but the *)
(* files are written one by one and most statements are transactions of     *)
(* their own: an operation that stops on the way leaves a mixture behind.   *)
(*                                                                         *)
(* A checkout has one caller at a time.  The user edits files between its   *)
(* operations.  A call that changes nothing is not a step.  A version is    *)
(* its position in versions, which is also the order of the check-in times; *)
(* a file's rid is stood for by its content.                                *)
(***************************************************************************)
EXTENDS Integers, FiniteSets, SequencesExt

CONSTANTS
    Name,        \* path names
    Content,     \* contents of files
    Empty,       \* the content of length 0
    Merged,      \* what a three-way merge of two different changes writes
    Gone,        \* there is no such file
    NoName,
    NoQueue,     \* checkinQueue is nil
    Edits,       \* contents that the user writes
    Branch,
    Histories,   \* the check-ins before the checkout is created
    MaxSteps,    \* bound: how many operations there are
    MaxFaults    \* bound: how many of them an I/O error or a crash stops

Files == [Name -> Content \cup {Gone}]
NoFiles == [n \in Name |-> Gone]
Version == [parent: Nat, branch: Branch, files: Files]

ASSUME ConstantsAssumption ==
    /\ Empty \in Content /\ Merged \in Content /\ Gone \notin Content
    /\ IsFiniteSet(Name) /\ NoName \notin Name \cup Branch
    /\ \A names \in SUBSET Name : NoQueue # names
    /\ Edits \subseteq Content /\ "trunk" \in Branch
    /\ \A h \in Histories : h \in Seq(Version) /\ \A v \in 1..Len(h) : h[v].parent < v
    /\ MaxSteps \in Nat /\ MaxFaults \in Nat

(* A row of vfile.  A file that is added has rid 0; the rid of any other    *)
(* has the content mhash.                                                   *)
Row == [vid: Nat, name: Name, added: BOOLEAN, mhash: Content, chnged: BOOLEAN,
        deleted: BOOLEAN, orig: Name \cup {NoName}]

(* A row of stashfile, whose delta is stood for by what it makes of base.   *)
StashFile == [name: Name, added: BOOLEAN, removed: BOOLEAN, data: Content \cup {Gone}]

(* A row of undo: a file as it was, or was not, when it was saved.          *)
UndoRow == [name: Name, data: Content \cup {Gone}]

VARIABLES
    versions,  \* the repository's check-ins
    disk,      \* the working directory
    vfile,
    vvar,      \* the variables checkout and checkout-hash
    queue,     \* checkinQueue: NoQueue, or what a commit is limited to
    undo,      \* undo_available, undo_checkout and the tables of the undo state
    stash,     \* the stash, oldest first: for each entry its rows of stashfile
    steps, faults,
    torn,      \* observer: an operation stopped between vfile and vvar
    crossed,   \* observer: an undo or redo has changed checkout, not its hash
    untagged   \* the versions without a branch tag: commits that stopped before
               \* it was applied, and what inherits from them

vars == <<versions, disk, vfile, vvar, queue, undo, stash, steps, faults, torn, crossed, untagged>>

(* A name has one row in a version.                                         *)
AreRows(rows) ==
    /\ rows \subseteq Row
    /\ \A r, s \in rows : r.vid = s.vid /\ r.name = s.name => r = s

TypeOK ==
    /\ versions \in Seq(Version)
    /\ \A v \in 1..Len(versions) : versions[v].parent < v
    /\ disk \in Files
    /\ AreRows(vfile) /\ AreRows(undo.vfile)
    /\ vvar \in [checkout: 0..Len(versions), hash: 0..Len(versions)]
    /\ queue = NoQueue \/ queue \subseteq Name
    /\ undo \in [available: 0..2, checkout: 0..Len(versions), vfile: SUBSET Row,
                 rows: Seq(UndoRow), torn: BOOLEAN]
    /\ stash \in Seq((SUBSET StashFile) \ {{}})
    /\ steps \in 0..MaxSteps /\ faults \in 0..MaxFaults
    /\ torn \in BOOLEAN /\ crossed \in BOOLEAN
    /\ untagged \subseteq 1..Len(versions)

----------------------------------------------------------------------------
(* The repository.                                                          *)

FilesOf(v) == IF v = 0 THEN NoFiles ELSE versions[v].files

Leaves == {v \in DOMAIN versions : \A w \in DOMAIN versions : versions[w].parent # v}

BranchLeaves(b) == {v \in Leaves \ untagged : versions[v].branch = b}

currentBranch(v) == IF v = 0 \/ v \in untagged THEN "trunk" ELSE versions[v].branch

(* MUTANT: a child of the current version alone makes a fork.               *)
WouldForkHere == vvar.checkout \notin Leaves

WouldFork == \E v \in BranchLeaves(currentBranch(vvar.checkout)) : v # vvar.checkout

(* Without merges there is one nearest common ancestor; if there is none,   *)
(* Update takes the current version for it.                                 *)
Ancestor(v, w) ==
    LET up[x \in 0..Len(versions)] == IF x = 0 THEN {} ELSE {x} \cup up[versions[x].parent]
        common == up[v] \cap up[w]
    IN  IF common = {} THEN v ELSE CHOOSE x \in common : \A y \in common : y <= x

CalcUpdateVersion ==
    IF Leaves = {} THEN 0
    ELSE LET tip == CHOOSE v \in Leaves : \A w \in Leaves : w <= v
         IN  IF tip = vvar.checkout THEN 0 ELSE tip

(* A commit inherits the branch of its parent unless it is given one.  For  *)
(* a version that is untagged, it is the branch that PropagateAll will give *)
(* it, should it come by.                                                   *)
Inherited == IF vvar.checkout = 0 THEN "trunk" ELSE versions[vvar.checkout].branch

NewVersion(b, files) ==
    [parent |-> vvar.checkout, files |-> files, branch |-> IF b = NoName THEN Inherited ELSE b]

(* PropagateAll, from the parent of a commit: its branch reaches what hangs *)
(* below it untagged.                                                       *)
PropagateAll(p) ==
    LET under[v \in 0..Len(versions)] ==
            v # 0 /\ (v = p \/ (v \in untagged /\ under[versions[v].parent]))
    IN  IF p \in untagged THEN {} ELSE {v \in untagged : under[v]}

(* Tags are applied when the check-in is in the repository.                 *)
Tagged(b) ==
    untagged' = IF b = NoName /\ vvar.checkout \in untagged
                THEN untagged \cup {Len(versions) + 1}
                ELSE untagged \ PropagateAll(vvar.checkout)

----------------------------------------------------------------------------
(* vfile.                                                                   *)

Current == {r \in vfile : r.vid = vvar.checkout}

NamesOf(rows) == {r.name : r \in rows}

FreshRow(v, n, content) ==
    [vid |-> v, name |-> n, added |-> FALSE, mhash |-> content, chnged |-> FALSE,
     deleted |-> FALSE, orig |-> NoName]

(* MUTANT: the rows of the version before are kept.                         *)
LoadVFileBeside(v, files) ==
    vfile \cup {FreshRow(v, n, files[n]) : n \in {m \in Name : files[m] # Gone}}

(* The rows of other versions go, the rows of v are inserted or ignored,    *)
(* one by one: LoadPart is what a stop leaves of it.                        *)
LoadPart(v, files, names) ==
    LET kept == {r \in vfile : r.vid = v}
    IN  kept \cup {FreshRow(v, n, files[n]) :
                     n \in {m \in names : files[m] # Gone} \ NamesOf(kept)}

LoadVFile(v, files) == LoadPart(v, files, Name)

scanSingleEntry(r) ==
    IF r.deleted \/ disk[r.name] = Gone THEN r
    ELSE [r EXCEPT !.chnged = disk[r.name] # r.mhash]

Scanned == {IF r.vid = vvar.checkout THEN scanSingleEntry(r) ELSE r : r \in vfile}

Replace(old, new) == vfile' = (vfile \ old) \cup new

Step == steps < MaxSteps /\ steps' = steps + 1

(* An operation stops because of an I/O error, or because the process dies, *)
(* which loses the queue.                                                   *)
Fault ==
    /\ faults < MaxFaults /\ faults' = faults + 1
    /\ queue' \in {queue, NoQueue}

----------------------------------------------------------------------------
(* The user's edits, and what changes rows one at a time.                   *)

Edit(n, c) ==
    /\ Step /\ disk[n] # c
    /\ disk' = [disk EXCEPT ![n] = c]
    /\ UNCHANGED <<versions, vfile, vvar, queue, undo, stash, faults, torn, crossed, untagged>>

ScanChanges ==
    /\ Step /\ vfile' = Scanned
    /\ UNCHANGED <<versions, disk, vvar, queue, undo, stash, faults, torn, crossed, untagged>>

Manage(n) ==
    /\ Step /\ n \notin NamesOf(Current) /\ disk[n] # Gone
    /\ Replace({}, {[FreshRow(vvar.checkout, n, disk[n]) EXCEPT !.added = TRUE, !.chnged = TRUE]})
    /\ UNCHANGED <<versions, disk, vvar, queue, undo, stash, faults, torn, crossed, untagged>>

Unmanage(r) ==
    /\ Step
    /\ Replace({r}, IF r.added THEN {} ELSE {[r EXCEPT !.deleted = TRUE]})
    /\ UNCHANGED <<versions, disk, vvar, queue, undo, stash, faults, torn, crossed, untagged>>

(* A file that is not there is not moved, which is an error by then.        *)
moveFile(from, to, move) ==
    disk' = IF move /\ disk[from] # Gone
            THEN [disk EXCEPT ![to] = disk[from], ![from] = Gone] ELSE disk

Rename(r, to, move) ==
    /\ Step /\ to \notin NamesOf(Current)
    /\ Replace({r}, {[r EXCEPT !.name = to, !.orig = r.name, !.chnged = TRUE]})
    /\ moveFile(r.name, to, move)
    /\ UNCHANGED <<versions, vvar, queue, undo, stash, faults, torn, crossed, untagged>>

(* The unique key of vfile refuses a name that has been taken since.        *)
RevertRename(r, move) ==
    /\ Step /\ r.orig # NoName /\ r.orig \notin NamesOf(Current)
    /\ Replace({r}, {[r EXCEPT !.name = r.orig, !.orig = NoName, !.chnged = FALSE]})
    /\ moveFile(r.name, r.orig, move)
    /\ UNCHANGED <<versions, vvar, queue, undo, stash, faults, torn, crossed, untagged>>

IsChanged(r) == r.chnged \/ r.deleted \/ r.added

Reverted(rows) == {[r EXCEPT !.chnged = FALSE, !.deleted = FALSE] : r \in {s \in rows : ~s.added}}

(* Of rows with one name, as two versions may have, the last one written.   *)
WithRows(d, rows) ==
    [n \in Name |-> IF n \notin NamesOf(rows) THEN d[n]
                    ELSE LET r == CHOOSE s \in rows : s.name = n
                         IN  IF r.added THEN Gone ELSE r.mhash]

(* Revert of the given paths, or of everything that is changed.             *)
Revert(names) ==
    LET rows == {r \in Current : IsChanged(r) /\ (names = {} \/ r.name \in names)}
    IN  /\ Step /\ rows # {}
        /\ Replace(rows, Reverted(rows))
        /\ disk' = WithRows(disk, rows)
        /\ UNCHANGED <<versions, vvar, queue, undo, stash, faults, torn, crossed, untagged>>

(* Enqueue makes a queue if there is none, even for no paths.               *)
Enqueue(names) ==
    /\ Step
    /\ queue' = (IF queue = NoQueue THEN {} ELSE queue) \cup names
    /\ queue' # queue
    /\ UNCHANGED <<versions, disk, vfile, vvar, undo, stash, faults, torn, crossed, untagged>>

(* Of some files, which may leave an empty queue, or without paths, as      *)
(* DiscardQueue, of the queue.                                              *)
Dequeue(names) ==
    /\ Step /\ queue # NoQueue
    /\ queue' = IF names = {} THEN NoQueue ELSE queue \ names
    /\ queue' # queue
    /\ UNCHANGED <<versions, disk, vfile, vvar, undo, stash, faults, torn, crossed, untagged>>

IsEnqueued(n) == queue = NoQueue \/ n \in queue

----------------------------------------------------------------------------
(* Commit.                                                                  *)

(* An empty queue is not active.                                            *)
queueActive == queue # NoQueue /\ queue # {}
shouldInclude(n) == queueActive => n \in queue

(* What the files of a commit are made of: the rows scanned, those of them  *)
(* that are read from disk, and the parent's files.  A file without content *)
(* is taken for one that has not been read: an empty file is committed with *)
(* the content it had before.                                               *)
CommitRows == {r \in Scanned : r.vid = vvar.checkout}

FromDisk == {r \in CommitRows : ~r.deleted /\ (r.chnged \/ r.added) /\ shouldInclude(r.name)}

CommitNames ==
    ({n \in Name : FilesOf(vvar.checkout)[n] # Gone}
       \ {r.name : r \in {s \in CommitRows : s.deleted /\ shouldInclude(s.name)}})
      \cup NamesOf(FromDisk)

RowNamed(n) == CHOOSE r \in CommitRows : r.name = n

IsRead(n) == n \in NamesOf(FromDisk) /\ disk[n] # Empty

buildCommitFiles ==
    [n \in Name |->
       IF n \notin CommitNames THEN Gone
       ELSE IF IsRead(n) THEN disk[n]
       ELSE IF n \in NamesOf(CommitRows) THEN RowNamed(n).mhash
       ELSE FilesOf(vvar.checkout)[n]]

(* A commit fails if a changed file is missing, or if a file that it takes  *)
(* from the repository has never been there.                                *)
CanBuild ==
    /\ \A r \in FromDisk : disk[r.name] # Gone
    /\ \A n \in CommitNames : ~IsRead(n) /\ n \in NamesOf(CommitRows) => ~RowNamed(n).added
    /\ CommitNames # {}

(* MUTANT: the working directory is not scanned first.                      *)
CommitUnscanned(b) ==
    LET rows == {r \in Current : ~r.deleted /\ (r.chnged \/ r.added) /\ shouldInclude(r.name)}
        files == [n \in Name |-> IF n \in NamesOf(rows) THEN disk[n] ELSE FilesOf(vvar.checkout)[n]]
        new == Len(versions) + 1
    IN  /\ Step /\ files # NoFiles
        /\ versions' = Append(versions, NewVersion(b, files))
        /\ vfile' = LoadVFile(new, files)
        /\ vvar' = [checkout |-> new, hash |-> new]
        /\ Tagged(b)
        /\ queue' = NoQueue /\ torn' = FALSE /\ crossed' = FALSE
        /\ UNCHANGED <<disk, undo, stash, faults>>

Commit(b) ==
    LET new == Len(versions) + 1
    IN  /\ Step /\ CanBuild
        /\ versions' = Append(versions, NewVersion(b, buildCommitFiles))
        /\ vfile' = LoadVFile(new, buildCommitFiles)
        /\ vvar' = [checkout |-> new, hash |-> new]
        /\ Tagged(b)
        /\ queue' = NoQueue /\ torn' = FALSE /\ crossed' = FALSE
        /\ UNCHANGED <<disk, undo, stash, faults>>

(* The check-in is in the repository and its tags are not yet, or not yet   *)
(* those of its parent; or finalizeCommit stops.                            *)
CommitStops(b) ==
    LET new == Len(versions) + 1
    IN  /\ Step /\ Fault /\ CanBuild
        /\ \/ /\ untagged' \in {untagged \cup {new}} \cup {untagged : x \in {b} \ {NoName}}
              /\ vfile' = Scanned /\ UNCHANGED vvar
           \/ /\ Tagged(b)
              /\ vfile' = Scanned
              /\ vvar' \in {vvar, [vvar EXCEPT !.checkout = new], [checkout |-> new, hash |-> new]}
           \/ /\ Tagged(b)
              /\ \E names \in SUBSET Name : vfile' = LoadPart(new, buildCommitFiles, names)
              /\ vvar' = [checkout |-> new, hash |-> new]
        /\ versions' = Append(versions, NewVersion(IF new \in untagged' THEN NoName ELSE b,
                                                   buildCommitFiles))
        /\ torn' = (torn \/ vvar' # vvar)
        /\ UNCHANGED <<disk, undo, stash, crossed>>

----------------------------------------------------------------------------
(* Extract and Update.                                                      *)

Modes == {"check", "force", "dry"}

RowsOf(v) == {r \in LoadVFile(v, FilesOf(v)) : r.vid = v}

(* MUTANT: files are not looked at before they are written.                 *)
NoLocalChanges(v) == FALSE

(* A file counts as changed locally if it is not what the target has.       *)
HasLocalChanges(v) == \E r \in RowsOf(v) : disk[r.name] \notin {Gone, r.mhash}

ExtractEnds(v) ==
    /\ vvar' = [checkout |-> v, hash |-> v]
    /\ torn' = (torn /\ \E r \in RowsOf(v) : r.added)
    /\ crossed' = FALSE
    /\ UNCHANGED <<faults, queue>>

Extract(v, mode) ==
    /\ Step
    /\ mode = "check" => ~HasLocalChanges(v)
    /\ mode # "dry" => \A r \in RowsOf(v) : ~r.added
    /\ vfile' = LoadVFile(v, FilesOf(v))
    /\ disk' = IF mode = "dry" THEN disk ELSE WithRows(disk, RowsOf(v))
    /\ ExtractEnds(v)
    /\ UNCHANGED <<versions, undo, stash, untagged>>

(* vfile has been loaded by the time the local changes are found.           *)
ExtractRefused(v) ==
    /\ Step /\ HasLocalChanges(v)
    /\ vfile' = LoadVFile(v, FilesOf(v))
    /\ torn' = (torn \/ v # vvar.checkout)
    /\ UNCHANGED <<versions, disk, vvar, queue, undo, stash, faults, crossed, untagged>>

(* LoadVFile stops, or the extraction of files, which come in any order; a  *)
(* file that is added has no rid to expand.                                 *)
LoadStops(v) ==
    /\ Step /\ Fault
    /\ \E names \in SUBSET Name : vfile' = LoadPart(v, FilesOf(v), names)
    /\ torn' = (torn \/ vvar # [checkout |-> v, hash |-> v])
    /\ UNCHANGED <<versions, disk, vvar, undo, stash, crossed, untagged>>

ExtractStops(v, written) ==
    /\ Step
    /\ \/ Fault
       \/ /\ \E r \in RowsOf(v) \ written : r.added
          /\ UNCHANGED <<faults, queue>>
    /\ \A r \in written : ~r.added
    /\ vfile' = LoadVFile(v, FilesOf(v))
    /\ disk' = WithRows(disk, written)
    /\ vvar' \in {vvar} \cup {[vvar EXCEPT !.checkout = v] : w \in {written} \cap {RowsOf(v)}}
    /\ torn' = (torn \/ vvar' # [checkout |-> v, hash |-> v])
    /\ UNCHANGED <<versions, undo, stash, crossed, untagged>>

(* MUTANT: the changes of the two sides are taken for each other's.         *)
updateFileSwapped(anc, cur, tgt, was) ==
    CASE cur = Gone /\ tgt # Gone -> tgt
      [] cur # Gone /\ tgt = Gone -> Gone
      [] cur = tgt -> was
      [] cur # tgt /\ tgt = anc -> tgt
      [] OTHER -> was

(* What Update writes for a file, from the manifests of three versions.     *)
updateFile(anc, cur, tgt, was) ==
    CASE cur = Gone /\ tgt # Gone -> tgt
      [] cur # Gone /\ tgt = Gone -> Gone
      [] cur = tgt -> was
      [] cur # tgt /\ cur = anc -> tgt
      [] cur # tgt /\ tgt = anc -> was
      [] OTHER -> Merged

(* What both sides have added has no ancestor to merge with.                *)
CannotMerge(anc, cur, tgt) == anc = Gone /\ cur # tgt /\ cur # Gone /\ tgt # Gone

Target(t) == IF t = 0 THEN CalcUpdateVersion ELSE t

UpdateNames(v) == {n \in Name : FilesOf(vvar.checkout)[n] # Gone \/ FilesOf(v)[n] # Gone}

Unmergeable(v) ==
    {n \in UpdateNames(v) : CannotMerge(FilesOf(Ancestor(vvar.checkout, v))[n],
                                        FilesOf(vvar.checkout)[n], FilesOf(v)[n])}

processFileUpdates(v, names) ==
    LET anc == FilesOf(Ancestor(vvar.checkout, v))
    IN  [n \in Name |-> IF n \notin names THEN disk[n]
                        ELSE updateFile(anc[n], FilesOf(vvar.checkout)[n], FilesOf(v)[n], disk[n])]

IsTarget(v) == v # 0 /\ v # vvar.checkout /\ vvar.checkout # 0

Update(t, dry) ==
    LET v == Target(t)
    IN  /\ Step /\ IsTarget(v) /\ Unmergeable(v) = {}
        /\ disk' = IF dry THEN disk ELSE processFileUpdates(v, UpdateNames(v))
        /\ vfile' = LoadVFile(v, FilesOf(v))
        /\ ExtractEnds(v)
        /\ UNCHANGED <<versions, undo, stash, untagged>>

(* A fault or a file that cannot be merged, with some of the files done; or *)
(* a fault in finalizeUpdate.                                               *)
UpdateStops(t, done) ==
    LET v == Target(t)
    IN  /\ Step /\ IsTarget(v)
        /\ \/ Fault
           \/ Unmergeable(v) # {} /\ UNCHANGED <<faults, queue>>
        /\ done \subseteq UpdateNames(v) \ Unmergeable(v)
        /\ disk' = processFileUpdates(v, done)
        /\ \/ UNCHANGED <<vfile, vvar, torn>>
           \/ /\ done = UpdateNames(v)
              /\ \E names \in SUBSET Name : vfile' = LoadPart(v, FilesOf(v), names)
              /\ UNCHANGED vvar /\ torn' = TRUE
           \/ /\ done = UpdateNames(v)
              /\ vfile' = LoadVFile(v, FilesOf(v))
              /\ vvar' = [vvar EXCEPT !.checkout = v]
              /\ torn' = TRUE
        /\ UNCHANGED <<versions, undo, stash, crossed, untagged>>

----------------------------------------------------------------------------
(* Undo.                                                                    *)

(* The snapshot of the files given, or of all.                              *)
UndoSave(names) ==
    LET rows == {r \in vfile : names = {} \/ r.name \in names}
    IN  /\ Step
        /\ undo' = [available |-> 1, checkout |-> vvar.checkout, vfile |-> vfile, torn |-> torn,
                    rows |-> LET seq == SetToSeq(rows)
                             IN  [i \in DOMAIN seq |-> [name |-> seq[i].name,
                                                        data |-> disk[seq[i].name]]]]
        /\ UNCHANGED <<versions, disk, vfile, vvar, queue, stash, faults, torn, crossed, untagged>>

(* What file n holds when the loop comes to row i: what the last row of     *)
(* that name before it has put there.                                       *)
FileAt(d, rows, n, i) ==
    LET before == {j \in DOMAIN rows : j < i /\ rows[j].name = n}
    IN  IF before = {} THEN d[n] ELSE rows[Max(before)].data

(* MUTANT: the saved state is put back and not exchanged.                   *)
restoreDiskFiles(d, rows) ==
    [disk |-> [n \in Name |-> FileAt(d, rows, n, Len(rows) + 1)], rows |-> rows]

(* Each row of undo trades its content with the file.                       *)
swapDiskFiles(d, rows) ==
    [disk |-> [n \in Name |-> FileAt(d, rows, n, Len(rows) + 1)],
     rows |-> [i \in DOMAIN rows |->
                 [name |-> rows[i].name, data |-> FileAt(d, rows, rows[i].name, i)]]]

(* Undo, where 1 is available, and Redo, where 2 is.  The hash of the       *)
(* version stays.                                                           *)
swapState(available) ==
    LET swapped == swapDiskFiles(disk, undo.rows)
    IN  /\ Step /\ undo.available = available
        /\ disk' = swapped.disk
        /\ undo' = [available |-> 3 - available, checkout |-> vvar.checkout, vfile |-> vfile,
                    torn |-> torn, rows |-> swapped.rows]
        /\ vfile' = undo.vfile
        /\ vvar' = [vvar EXCEPT !.checkout = undo.checkout]
        /\ torn' = undo.torn
        /\ crossed' = (crossed \/ torn \/ undo.checkout # vvar.checkout)
        /\ UNCHANGED <<versions, queue, stash, faults, untagged>>

(* The transaction rolls back; the files already restored stay so.          *)
SwapStops(done) ==
    /\ Step /\ Fault /\ undo.available # 0
    /\ disk' = [n \in Name |->
                  IF n \in done /\ \E i \in DOMAIN undo.rows : undo.rows[i].name = n
                  THEN undo.rows[CHOOSE i \in DOMAIN undo.rows : undo.rows[i].name = n].data
                  ELSE disk[n]]
    /\ UNCHANGED <<versions, vfile, vvar, undo, stash, torn, crossed, untagged>>

----------------------------------------------------------------------------
(* The stash.                                                               *)

Changed == {r \in vfile : IsChanged(r)}

IsRemoved(r) == r.deleted /\ ~r.added

CanStash(r) == IsRemoved(r) \/ disk[r.name] # Gone

StashRow(r) ==
    [name |-> r.name, added |-> r.added, removed |-> IsRemoved(r),
     data |-> IF IsRemoved(r) THEN Gone ELSE disk[r.name]]

(* The rows of any version with these names, reverted.                      *)
RevertNames(rows) ==
    {r \in vfile : r.name \notin NamesOf(rows)}
      \cup Reverted({r \in vfile : r.name \in NamesOf(rows)
                                     /\ ~\E s \in rows : s.name = r.name /\ s.added})

AreUnique(rows) == Cardinality(NamesOf(rows)) = Cardinality(rows)

StashSave ==
    /\ Step /\ Changed # {} /\ AreUnique(Changed)
    /\ \A r \in Changed : CanStash(r)
    /\ stash' = Append(stash, {StashRow(r) : r \in Changed})
    /\ disk' = WithRows(disk, Changed)
    /\ vfile' = RevertNames(Changed)
    /\ UNCHANGED <<versions, vvar, queue, undo, faults, torn, crossed, untagged>>

(* The transaction rolls back; the files already reverted stay so.          *)
StashSaveStops(done) ==
    /\ Step /\ Changed # {}
    /\ \/ Fault
       \/ /\ ~AreUnique(Changed) \/ \E r \in Changed : ~CanStash(r)
          /\ UNCHANGED <<faults, queue>>
    /\ \A r \in done : CanStash(r)
    /\ disk' = WithRows(disk, done)
    /\ UNCHANGED <<versions, vfile, vvar, undo, stash, torn, crossed, untagged>>

ApplyTo(files, d) ==
    [n \in Name |-> IF \E f \in files : f.name = n
                    THEN (CHOOSE f \in files : f.name = n).data ELSE d[n]]

Apply(i) ==
    /\ Step /\ disk' = ApplyTo(stash[i], disk)
    /\ UNCHANGED <<versions, vfile, vvar, queue, undo, stash, faults, torn, crossed, untagged>>

Drop(i) ==
    /\ Step /\ stash' = RemoveAt(stash, i)
    /\ UNCHANGED <<versions, disk, vfile, vvar, queue, undo, faults, torn, crossed, untagged>>

Pop ==
    /\ Step /\ stash # <<>>
    /\ disk' = ApplyTo(Last(stash), disk)
    /\ stash' = Front(stash)
    /\ UNCHANGED <<versions, vfile, vvar, queue, undo, faults, torn, crossed, untagged>>

Clear ==
    /\ Step /\ stash # <<>> /\ stash' = <<>>
    /\ UNCHANGED <<versions, disk, vfile, vvar, queue, undo, faults, torn, crossed, untagged>>

----------------------------------------------------------------------------
(* Create, at the tip or unborn; the directory is empty, or Extract has     *)
(* been called.                                                             *)
Init ==
    /\ versions \in Histories
    /\ vvar = [checkout |-> Len(versions), hash |-> Len(versions)]
    /\ vfile = {FreshRow(vvar.checkout, n, FilesOf(vvar.checkout)[n]) :
                  n \in {m \in Name : FilesOf(vvar.checkout)[m] # Gone}}
    /\ disk \in {NoFiles, FilesOf(vvar.checkout)}
    /\ undo = [available |-> 0, checkout |-> 0, vfile |-> {}, rows |-> <<>>, torn |-> FALSE]
    /\ queue = NoQueue /\ stash = <<>> /\ steps = 0 /\ faults = 0
    /\ torn = FALSE /\ crossed = FALSE /\ untagged = {}

Paths == {{}} \cup {{n} : n \in Name}

RowStep ==
    \/ \E n \in Name : Manage(n)
    \/ \E n \in Name, c \in Edits \cup {Gone} : Edit(n, c)
    \/ ScanChanges
    \/ \E r \in Current : Unmanage(r)
    \/ \E r \in Current, to \in Name, move \in BOOLEAN : Rename(r, to, move) \/ RevertRename(r, move)
    \/ \E names \in Paths : Revert(names)
    \/ \E names \in Paths : Enqueue(names) \/ Dequeue(names)

VersionStep ==
    \/ \E b \in Branch \cup {NoName} : Commit(b) \/ CommitStops(b)
    \/ \E v \in DOMAIN versions : \/ \E mode \in Modes : Extract(v, mode)
                                  \/ ExtractRefused(v) \/ LoadStops(v)
                                  \/ \E rows \in SUBSET RowsOf(v) : ExtractStops(v, rows)
    \/ \E t \in 0..Len(versions) : \/ \E dry \in BOOLEAN : Update(t, dry)
                                   \/ \E done \in SUBSET Name : UpdateStops(t, done)

UndoStep ==
    \/ \E names \in Paths : UndoSave(names)
    \/ \E available \in {1, 2} : swapState(available)
    \/ \E done \in SUBSET Name : SwapStops(done)

StashStep ==
    \/ StashSave \/ Pop \/ Clear
    \/ \E rows \in SUBSET Changed : StashSaveStops(rows)
    \/ \E i \in DOMAIN stash : Apply(i) \/ Drop(i)

Next == RowStep \/ VersionStep \/ UndoStep \/ StashStep

Spec == Init /\ [][Next]_vars

----------------------------------------------------------------------------
(* Unless an operation has stopped on the way, vfile is about the version   *)
(* that is checked out: it has no rows of another, every file of that       *)
(* version has a row that knows its content, whatever it has been renamed   *)
(* to, and the checkout can be opened again, as its hash is that of the     *)
(* version (LoadVFile, finalizeExtract, finalizeCommit, finalizeUpdate,     *)
(* swapTables); only an undo across versions leaves a wrong hash.  All      *)
(* variables keep their types, and a name has one row in a version.         *)
CheckoutConsistent ==
    /\ TypeOK
    /\ ~torn =>
      /\ \A r \in vfile : /\ r.vid = vvar.checkout
                          /\ ~r.added => \E n \in Name : FilesOf(vvar.checkout)[n] = r.mhash
      /\ Cardinality({r \in vfile : ~r.added})
           >= Cardinality({n \in Name : FilesOf(vvar.checkout)[n] # Gone})
      /\ ~crossed => vvar.hash = vvar.checkout

(* A commit records the working directory (Commit, ScanChanges,             *)
(* buildCommitFiles): of the tracked files it includes, those that are      *)
(* removed are gone and the others are as they are on disk, edits nobody    *)
(* has scanned for included; files it does not include are as in the        *)
(* parent.  It includes what IsEnqueued says, except that an emptied queue, *)
(* of which IsEnqueued says that it has nothing, includes everything.  Not  *)
(* so files that are renamed, empty or missing.                             *)
CommitRecordsDisk ==
    [][Len(versions') > Len(versions) =>
         LET files == Last(versions').files
             renamed(r) == r.orig # NoName \/ (~r.added /\ r.mhash # FilesOf(vvar.checkout)[r.name])
         IN  \A r \in {s \in Current : ~renamed(s)} :
               IF ~IsEnqueued(r.name) /\ queue # {} THEN r.added \/ files[r.name] = FilesOf(vvar.checkout)[r.name]
               ELSE IF r.deleted THEN files[r.name] = Gone
               ELSE disk[r.name] \in {Gone, Empty} \/ files[r.name] = disk[r.name]]_vars

(* If WouldFork says no, a commit to the same branch that gets as far as    *)
(* its tags leaves that branch with one leaf, unless it also gives a branch *)
(* to a version that an earlier commit left untagged.                       *)
NoForkUnlessWarned ==
    [][Len(versions') > Len(versions) /\ ~WouldFork
         /\ Len(versions') \notin untagged' /\ untagged \subseteq untagged'
         /\ Last(versions').branch = currentBranch(vvar.checkout)
         => BranchLeaves(currentBranch(vvar.checkout))' = {Len(versions')}]_vars

(* What is on disk, in the repository, in the stash or in the undo state.   *)
Recorded == UNION {{versions[v].files[n] : n \in Name} : v \in DOMAIN versions}
Stashed == UNION {{f.data : f \in stash[i]} : i \in DOMAIN stash}
Undoable == {undo.rows[i].data : i \in DOMAIN undo.rows}
Copies == {disk[n] : n \in Name} \cup Recorded \cup Stashed \cup Undoable

(* An extraction that is not forced, an undo, a redo and saving a stash do  *)
(* not destroy the only copy of what is in the working directory            *)
(* (Extract's check, swapDiskFiles, storeAndRevertFiles).  A file that is   *)
(* marked removed and still there is the stash's exception.                 *)
EditsKept ==
    [][/\ disk' # disk
       /\ \/ \E v \in DOMAIN versions : Extract(v, "check")
          \/ \E available \in {1, 2} : swapState(available)
          \/ StashSave
       => \A n \in Name : \/ disk[n] \in Copies' \cup {Gone}
                         \/ \E r \in vfile : r.name = n /\ r.deleted]_vars

(* What has been saved comes back.  Redo reverses Undo and Undo Redo:       *)
(* swapping again brings back the files, the rows and the version           *)
(* (swapState), unless the table undo has two rows for a file, as Save      *)
(* makes of a checkout with rows of two versions.  A stash that is applied  *)
(* where it was saved restores the changed files as they were, those that   *)
(* were removed gone (Save, Apply).                                         *)
SavedComesBack ==
    [][/\ undo' # undo /\ IsInjective([i \in DOMAIN undo.rows |-> undo.rows[i].name])
          /\ (\E available \in {1, 2} : swapState(available)) =>
            /\ swapDiskFiles(disk', undo'.rows).disk = disk
            /\ undo'.vfile = vfile /\ undo'.checkout = vvar.checkout
       /\ stash' # stash /\ StashSave =>
            \A n \in Name : ApplyTo(Last(stash'), disk')[n]
                              = IF \E r \in vfile : r.name = n /\ IsRemoved(r) THEN Gone
                                ELSE disk[n]]_vars

(* An update of an unchanged working directory to a descendant of its       *)
(* version makes it that descendant's (Update, updateFile).                 *)
UpdateReaches ==
    [][vvar' # vvar /\ disk = FilesOf(vvar.checkout) =>
         \A v \in DOMAIN versions :
           Ancestor(vvar.checkout, v) = vvar.checkout /\ Update(v, FALSE) => disk' = FilesOf(v)]_vars
=============================================================================
