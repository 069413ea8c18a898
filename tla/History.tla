------------------------------ MODULE History ------------------------------
(***************************************************************************)
(* What is computed from the history of check-ins: the common ancestor      *)
(* (internal/merge/ancestor.go), the merge of two branches (repo_merge.go)  *)
(* with its three-way merge of texts (internal/merge/threeway.go), the      *)
(* annotation of a file (internal/annotate) and bisection (internal/bisect, *)
(* internal/path).                                                          *)
(*                                                                         *)
(* A version is its position in versions, in the order of rids and of       *)
(* times.  A text is the sequence of its lines.                             *)
(***************************************************************************)
EXTENDS Integers, FiniteSets, FiniteSetsExt, SequencesExt

CONSTANTS
    Name,
    Line,
    Texts,        \* the texts that users commit
    Gone,         \* there is no such file
    Conflict,     \* stands for the lines between conflict markers
    Branch,
    Histories,    \* the check-ins before
    MaxVersions,  \* bound: no commit beyond so many versions
    MaxCommits,   \* bound: check-ins that are no merges, the root excepted
    MaxMarks,     \* bound: how many versions are marked in a bisection
    Limit         \* Options.Limit of Annotate, 0 for none

Files == [Name -> Seq(Line) \cup {Gone}]
Version == [parents: Seq(Nat), branch: Branch, files: Files]

ASSUME ConstantsAssumption ==
    /\ Texts \subseteq Seq(Line) /\ Gone \notin Seq(Line) /\ Conflict \notin Line
    /\ \A h \in Histories : \A v \in 1..Len(h) :
         h[v] \in Version /\ ToSet(h[v].parents) \subseteq 1..(v - 1)
    /\ {MaxVersions, MaxCommits, MaxMarks, Limit} \subseteq Nat

VARIABLES
    versions,
    good, bad, skipped,  \* bisect-good and bisect-bad, 0 if not set, and the
                         \* skipped versions of bisect-log
    marks,
    culprit              \* the version that broke it, which the user does not know

vars == <<versions, good, bad, skipped, marks, culprit>>
bisectVars == <<good, bad, skipped, marks, culprit>>

V == DOMAIN versions

TypeOK ==
    /\ \A v \in V : versions[v] \in Version /\ ToSet(versions[v].parents) \subseteq 1..(v - 1)
    /\ \A v \in V : \E n \in Name : versions[v].files[n] # Gone
    /\ {good, bad, culprit} \subseteq 0..Len(versions) /\ skipped \subseteq V
    /\ marks \in 0..MaxMarks

Parents(v) == ToSet(versions[v].parents)
Primary(v) == IF versions[v].parents = <<>> THEN 0 ELSE versions[v].parents[1]
FilesOf(v) == IF v = 0 THEN [n \in Name |-> Gone] ELSE versions[v].files

(* v and what it descends from.                                             *)
Ancestors(v) ==
    LET up[x \in V] == {x} \cup UNION {up[p] : p \in Parents(x)} IN up[v]

(***************************************************************************)
(* FindCommonAncestor: two searches take turns, a version at a time.        *)
(***************************************************************************)
(* getParents: in the order of the index of plink.                          *)
getParents(v) == SetToSortSeq(Parents(v), <)

search(qA, qB, seenA, seenB) ==
    LET go[q \in Seq(V), other \in Seq(V), seen \in SUBSET V, seenOther \in SUBSET V] ==
            IF q = <<>> /\ other = <<>> THEN 0
            ELSE IF q = <<>> THEN go[other, q, seenOther, seen]
            ELSE LET new == SelectSeq(getParents(Head(q)), LAMBDA p : p \notin seen)
                     found == SelectSeq(new, LAMBDA p : p \in seenOther)
                 IN  IF Head(q) \in seenOther THEN Head(q)
                     ELSE IF found # <<>> THEN Head(found)
                     ELSE go[other, Tail(q) \o new, seenOther, seen \cup ToSet(new)]
    IN  go[qA, qB, seenA, seenB]

(* MUTANT: the versions that the searches start from are not marked.        *)
FindCommonAncestorUnmarked(v, w) == IF v = w THEN v ELSE search(<<v>>, <<w>>, {}, {})

FindCommonAncestor(v, w) == IF v = w THEN v ELSE search(<<v>>, <<w>>, {v}, {w})

leaves == {v \in V : \A w \in V : v \notin Parents(w)}

DetectForks ==
    {f \in [ancestor: V, local: leaves, remote: leaves] :
        f.local > f.remote /\ f.ancestor = FindCommonAncestor(f.local, f.remote)}

(***************************************************************************)
(* The three-way merge of texts.                                            *)
(***************************************************************************)
(* Pairs of positions with equal lines, by the usual table of lengths.      *)
longestCommonSubseq(a, b) ==
    LET dp[i \in 1..(Len(a) + 1), j \in 1..(Len(b) + 1)] ==
            IF i > Len(a) \/ j > Len(b) THEN 0
            ELSE IF a[i] = b[j] THEN dp[i + 1, j + 1] + 1
            ELSE LET skipA == dp[i + 1, j] skipB == dp[i, j + 1]
                 IN  IF skipA >= skipB THEN skipA ELSE skipB
        walk[i \in 1..(Len(a) + 1), j \in 1..(Len(b) + 1)] ==
            IF i > Len(a) \/ j > Len(b) THEN <<>>
            ELSE IF a[i] = b[j] THEN <<<<i, j>>>> \o walk[i + 1, j + 1]
            ELSE IF dp[i + 1, j] >= dp[i, j + 1] THEN walk[i + 1, j] ELSE walk[i, j + 1]
    IN  walk[1, 1]

(* A hunk replaces the lines after start up to end of the base.             *)
diffLines(base, modified) ==
    LET all == <<<<0, 0>>>> \o longestCommonSubseq(base, modified)
                 \o <<<<Len(base) + 1, Len(modified) + 1>>>>
        gaps == [k \in 1..(Len(all) - 1) |->
                   [start |-> all[k][1], end |-> all[k + 1][1] - 1,
                    lines |-> SubSeq(modified, all[k][2] + 1, all[k + 1][2] - 1)]]
    IN  SelectSeq(gaps, LAMBDA h : h.start < h.end \/ h.lines # <<>>)

(* MUTANT: hunks that touch are taken to overlap.                           *)
hunksTouch(a, b) == a.start <= b.end /\ b.start <= a.end

hunksOverlap(a, b) == a.start < b.end /\ b.start < a.end

handleOverlappingHunks(a, b) == IF a.lines = b.lines THEN a.lines ELSE <<Conflict>>

(* From the hunks l on one side and r on the other, with bi lines of the    *)
(* base behind.                                                             *)
merge3(base, local, remote) ==
    LET go[l \in 1..(Len(local) + 1), r \in 1..(Len(remote) + 1), bi \in 0..Len(base)] ==
            LET lh == {local[x] : x \in {l} \cap DOMAIN local}
                rh == {remote[x] : x \in {r} \cap DOMAIN remote}
                start == Min({h.start : h \in lh \cup rh} \cup {Len(base)})
                before == SubSeq(base, bi + 1, start)
            IN  IF lh \cup rh = {} THEN SubSeq(base, bi + 1, Len(base))
                ELSE IF lh # {} /\ rh # {} /\ hunksOverlap(local[l], remote[r])
                THEN before \o handleOverlappingHunks(local[l], remote[r])
                       \o go[l + 1, r + 1, Max({local[l].end, remote[r].end})]
                ELSE IF rh = {} \/ (lh # {} /\ local[l].start <= remote[r].start)
                THEN before \o local[l].lines \o go[l + 1, r, local[l].end]
                ELSE before \o remote[r].lines \o go[l, r + 1, remote[r].end]
    IN  go[1, 1, 0]

ThreeWay(base, local, remote) ==
    IF local = remote \/ base = remote THEN local
    ELSE IF base = local THEN remote
    ELSE merge3(base, diffLines(base, local), diffLines(base, remote))

HasConflict(text) == text # Gone /\ Conflict \in ToSet(text)

(***************************************************************************)
(* Merge of a branch into another.                                          *)
(***************************************************************************)
BranchTip(b) == Max({0} \cup {v \in V : versions[v].branch = b})

(* What Merge makes of one file; a modification against a deletion is a     *)
(* conflict.                                                                *)
mergeFile(base, local, remote) ==
    CASE local = Gone /\ remote = Gone -> Gone
      [] local # Gone /\ remote = Gone ->
           IF base = Gone THEN local ELSE IF base = local THEN Gone ELSE <<Conflict>>
      [] local = Gone /\ remote # Gone ->
           IF base = Gone THEN remote ELSE IF base = remote THEN Gone ELSE <<Conflict>>
      [] OTHER -> ThreeWay(IF base = Gone THEN <<>> ELSE base, local, remote)

mergeFiles(src, dst) ==
    LET base == FilesOf(FindCommonAncestor(src, dst))
    IN  [n \in Name |-> mergeFile(base[n], FilesOf(dst)[n], FilesOf(src)[n])]

CanMerge(src, dst) == 0 \notin {src, dst} /\ src # dst /\ FindCommonAncestor(src, dst) # 0

(* Files of the parent that are not supplied are carried over.              *)
MergeParentFiles(p, supplied) ==
    [n \in Name |-> IF supplied[n] = Gone THEN FilesOf(p)[n] ELSE supplied[n]]

(* A commit on a branch is given its name, or inherits that of its parent.  *)
NewVersion(parents, b, files) ==
    /\ Len(versions) < MaxVersions
    /\ files # [n \in Name |-> Gone]
    /\ versions' = Append(versions,
         [parents |-> parents, files |-> files,
          branch |-> IF b = Gone THEN versions[parents[1]].branch ELSE b])
    /\ UNCHANGED bisectVars

(* One file is changed, or left out of a partial manifest.                  *)
Commit(p, b, n, text) ==
    /\ Cardinality({v \in V : Len(versions[v].parents) = 1}) < MaxCommits
    /\ IF text = Gone THEN NewVersion(<<p>>, b, [FilesOf(p) EXCEPT ![n] = Gone])
       ELSE NewVersion(<<p>>, b, MergeParentFiles(p, [x \in Name |-> IF x = n THEN text ELSE Gone]))

(* A conflict in any file keeps the merge from being committed; Commit is   *)
(* called with a parent, so that it carries over what is not supplied.      *)
conflictFiles(src, dst) == {n \in Name : HasConflict(mergeFiles(src, dst)[n])}
committedFiles(src, dst) == MergeParentFiles(dst, mergeFiles(src, dst))

Merge(src, dst) ==
    LET s == BranchTip(src) d == BranchTip(dst)
    IN  /\ CanMerge(s, d)
        /\ conflictFiles(s, d) = {}
        /\ NewVersion(<<d, s>>, Gone, committedFiles(s, d))

(***************************************************************************)
(* Annotate.                                                                *)
(***************************************************************************)
(* lcsMatch: the pairs of a position in cur and its match in par, with the  *)
(* table read from the end.                                                 *)
lcsMatch(par, cur) ==
    LET dp[i \in 0..Len(par), j \in 0..Len(cur)] ==
            IF i = 0 \/ j = 0 THEN 0
            ELSE IF par[i] = cur[j] THEN dp[i - 1, j - 1] + 1
            ELSE Max({dp[i - 1, j], dp[i, j - 1]})
        back[i \in 0..Len(par), j \in 0..Len(cur)] ==
            IF i = 0 \/ j = 0 THEN {}
            ELSE IF par[i] = cur[j] THEN {<<j, i>>} \cup back[i - 1, j - 1]
            ELSE IF dp[i - 1, j] >= dp[i, j - 1] THEN back[i - 1, j] ELSE back[i, j - 1]
    IN  back[Len(par), Len(cur)]

(* MUTANT: the positions in the parent are used for those in the file.      *)
MatchedSwapped(par, cur) == {m[2] : m \in lcsMatch(par, cur)}

Matched(par, cur) == {m[1] : m \in lcsMatch(par, cur)}

(* walkParentChain: from version v after steps versions, with what the      *)
(* lines are attributed to so far.  The positions are those in v's text,    *)
(* whatever the number of lines of the file that is annotated.              *)
walkParentChain(n, start) ==
    LET go[v \in V, steps \in 0..Len(versions), result \in Seq(V)] ==
            LET p == Primary(v) IN
            IF (Limit > 0 /\ steps >= Limit) \/ p = 0 \/ FilesOf(p)[n] = Gone THEN result
            ELSE LET matched == Matched(FilesOf(p)[n], FilesOf(v)[n]) IN
                 IF ~(matched \subseteq DOMAIN result) THEN <<>>  \* index out of range
                 ELSE go[p, steps + 1,
                         [j \in DOMAIN result |-> IF j \in matched THEN p ELSE result[j]]]
    IN  go[start, 0, [j \in DOMAIN FilesOf(start)[n] |-> start]]

Annotate(n, v) == walkParentChain(n, v)

(***************************************************************************)
(* Bisection.  The user's marks are right: what comes after the culprit is  *)
(* bad.                                                                     *)
(***************************************************************************)
IsBad(v) == culprit \in Ancestors(v)

(* path.Shortest over primary links, in both directions: between two        *)
(* versions there is one path at most.                                      *)
neighbors(v) == {w \in V : Primary(w) = v} \cup ({Primary(v)} \ {0})

Shortest(from, to) ==
    LET ways[n \in 0..Len(versions)] ==
            IF n = 0 THEN {<<from>>}
            ELSE UNION {{Append(p, w) : w \in neighbors(Last(p)) \ ToSet(p)} : p \in ways[n - 1]}
        found == {p \in UNION {ways[n] : n \in 0..(Len(versions) - 1)} : Last(p) = to}
    IN  IF found = {} THEN <<>> ELSE CHOOSE p \in found : \A q \in found : Len(p) <= Len(q)

HasEnds == good # 0 /\ bad # 0
Path == IF HasEnds THEN Shortest(good, bad) ELSE <<>>

(* The positions between the ends that are not skipped.                     *)
Candidates(path) == {i \in 2..(Len(path) - 1) : path[i] \notin skipped}

(* "first bad commit is"                                                    *)
IsComplete(path) == path # <<>> /\ (Len(path) <= 2 \/ Candidates(path) = {})

(* MUTANT: the one next to the good end is tested.                          *)
NextPositionFirst(path) == Min(Candidates(path))

(* The candidate nearest to the middle, the later one first.                *)
NextPosition(path) ==
    LET open == Candidates(path)
        middle == Len(path) \div 2 + 1
        distance(i) == IF i >= middle THEN i - middle ELSE middle - i
    IN  CHOOSE i \in open : \A j \in open :
            distance(i) < distance(j) \/ (distance(i) = distance(j) /\ i >= j)

Mark == marks < MaxMarks /\ marks' = marks + 1 /\ UNCHANGED <<versions, culprit>>

MarkGood(v) == Mark /\ ~IsBad(v) /\ good' = v /\ UNCHANGED <<bad, skipped>>
MarkBad(v) == Mark /\ IsBad(v) /\ bad' = v /\ UNCHANGED <<good, skipped>>
Skip(v) == Mark /\ v \notin skipped /\ skipped' = skipped \cup {v} /\ UNCHANGED <<good, bad>>
Reset ==
    /\ good # 0 \/ bad # 0 \/ skipped # {}
    /\ good' = 0 /\ bad' = 0 /\ skipped' = {}
    /\ UNCHANGED <<versions, marks, culprit>>

Init ==
    /\ versions \in Histories
    /\ good = 0 /\ bad = 0 /\ skipped = {} /\ marks = 0
    /\ culprit \in IF Len(versions) < MaxVersions THEN {0} ELSE V

Next ==
    \/ \E p \in V, b \in Branch \cup {Gone}, n \in Name, text \in Texts \cup {Gone} : Commit(p, b, n, text)
    \/ \E src, dst \in Branch : Merge(src, dst)
    \/ culprit # 0 /\ \E v \in V : MarkGood(v) \/ MarkBad(v) \/ Skip(v)
    \/ Reset

Spec == Init /\ [][Next]_vars

(***************************************************************************)
(* Properties.                                                              *)
(***************************************************************************)
Common(v, w) == Ancestors(v) \cap Ancestors(w)

(* FindCommonAncestor finds a version if and only if there is one that both *)
(* descend from; if neither side has merged, no other is more recent.  The  *)
(* ancestor of a fork is none of its tips (DetectForks).  Every version     *)
(* comes after its parents and has files; all variables keep their types.   *)
AncestorRight ==
    /\ TypeOK
    /\ \A v, w \in V :
         LET found == FindCommonAncestor(v, w) IN
         /\ found \in Common(v, w) \cup {0} /\ (found = 0 <=> Common(v, w) = {})
         /\ (\A x \in Ancestors(v) \cup Ancestors(w) : Cardinality(Parents(x)) <= 1)
              => \A x \in Common(v, w) : x <= found
    /\ \A f \in DetectForks : f.ancestor < f.remote

(* What a merge of texts should be if no hunks overlap: before each line of *)
(* the base what the local side and then the remote side put there, and the *)
(* line itself unless a side took it away.                                  *)
Disjoint(local, remote) ==
    \A i \in DOMAIN local, j \in DOMAIN remote :
        local[i].end <= remote[j].start \/ remote[j].end <= local[i].start
SameStart(local, remote) ==
    \E i \in DOMAIN local, j \in DOMAIN remote : local[i].start = remote[j].start
Reference(base, local, remote) ==
    LET put(hunks, i) == FlattenSeq([k \in DOMAIN hunks |->
                             IF hunks[k].start = i THEN hunks[k].lines ELSE <<>>])
        taken(hunks, i) == \E k \in DOMAIN hunks : hunks[k].start <= i /\ i < hunks[k].end
        own(i) == IF i = Len(base) \/ taken(local, i) \/ taken(remote, i)
                  THEN <<>> ELSE <<base[i + 1]>>
    IN  FlattenSeq([x \in 1..(Len(base) + 1) |->
            put(local, x - 1) \o put(remote, x - 1) \o own(x - 1)])

(* The files that merges of the tips of branches have to do with.           *)
Tips == {BranchTip(b) : b \in Branch}
Merges == {<<v, w>> \in Tips \X Tips : CanMerge(v, w)}
InputOf(v, w, n) ==
    [base |-> FilesOf(FindCommonAncestor(v, w))[n],
     local |-> FilesOf(w)[n], remote |-> FilesOf(v)[n]]
MergeInputs == UNION {{InputOf(t[1], t[2], n) : n \in Name} : t \in Merges}

(* The version that a merge of two branches commits has of every file what  *)
(* both sides have made of it: the change of the only side that changed it; *)
(* both changes, if they start apart and do not overlap.  One exception: a  *)
(* file that only the source branch deleted is as the destination has it.   *)
(* If one side deleted what the other modified, nothing is committed        *)
(* (Repo.Merge, Repo.Commit, ThreeWayText.Merge, diffLines, merge3).        *)
MergeRight ==
    \A t \in Merges : LET refused == conflictFiles(t[1], t[2]) # {}
                          files == committedFiles(t[1], t[2]) IN
    \A n \in Name :
      LET f == InputOf(t[1], t[2], n)
          committed == files[n]
          l == diffLines(f.base, f.local)
          r == diffLines(f.base, f.remote)
      IN  CASE f.local = f.base ->
                 refused \/ committed = (IF f.remote = Gone THEN f.local ELSE f.remote)
            [] f.local # f.base /\ f.remote \in {f.base, f.local} ->
                 refused \/ committed = f.local
            [] f.base = Gone /\ f.local # f.base /\ f.remote \notin {f.base, f.local} -> TRUE
            [] f.base \notin {f.local, f.remote} /\ f.local # f.remote
                 /\ f.base # Gone /\ Gone \in {f.local, f.remote} -> refused
            [] OTHER -> Disjoint(l, r) /\ ~SameStart(l, r)
                          => refused \/ committed = Reference(f.base, l, r)

(* "hunk represents a change region: replace base[baseStart:baseEnd] with   *)
(* lines."  Where no hunks overlap, every hunk of either side replaces its  *)
(* lines of the base, also if one of each starts at the same line (merge3). *)
HunksReplace ==
    \A f \in MergeInputs :
      LET l == diffLines(f.base, f.local) r == diffLines(f.base, f.remote) IN
      Gone \notin {f.base, f.local, f.remote} /\ f.local # f.remote /\ Disjoint(l, r)
        => mergeFile(f.base, f.local, f.remote) = Reference(f.base, l, r)

(* The versions that Annotate walks through: primary ancestors as far back  *)
(* as the file is in all of them.                                           *)
Walked(n, v) ==
    LET up[x \in 0..Len(versions)] ==
            IF x = 0 \/ FilesOf(x)[n] = Gone THEN {} ELSE {x} \cup up[Primary(x)]
    IN  up[v]

(* The lines keep their numbers: after its first edit the file has only     *)
(* grown at its end, by lines that were not in it.                          *)
Grown(from, to) ==
    /\ IsPrefix(from, to)
    /\ ToSet(from) \cap ToSet(SubSeq(to, Len(from) + 1, Len(to))) = {}
Appended(n, v) ==
    LET walked == Walked(n, v) IN
    \A w \in walked :
        Primary(w) \in walked \ {Min(walked)}
          => Grown(FilesOf(Primary(w))[n], FilesOf(w)[n])

CommonLines(s, t) == Max({Len(c) : c \in AllSubSeqs(s) \cap AllSubSeqs(t)})

(* Without a limit, in a file that after its first edit, whatever that did, *)
(* has only grown at its end by new lines, every line is attributed to the  *)
(* version that brought it: it has been in the file since, and at every     *)
(* version as many lines are older as the file has in common with the one   *)
(* before, in their order (Annotate, walkParentChain, lcsMatch).            *)
AnnotateRight ==
    \A v \in V, n \in Name : FilesOf(v)[n] # Gone /\ Appended(n, v) =>
        LET result == Annotate(n, v)
            text == FilesOf(v)[n]
            walked == Walked(n, v)
        IN  /\ Len(result) = Len(text)
            /\ \A j \in DOMAIN result :
                 /\ result[j] \in walked
                 /\ \A w \in walked : w >= result[j] => text[j] \in ToSet(FilesOf(w)[n])
            /\ \A w \in walked \ {Min(walked)} :
                 Cardinality({j \in DOMAIN result : result[j] < w})
                   = CommonLines(FilesOf(w)[n], FilesOf(Primary(w))[n])

(* When the search is complete, the version it names is bad and its primary *)
(* parent is good, unless versions between the two have been skipped.  On   *)
(* the way, testing the version that is proposed brings the ends closer,    *)
(* and without skipped versions halves the distance between them (Next).    *)
Named == IsComplete(Path) => /\ IsBad(bad)
                             /\ skipped = {} => Primary(bad) # 0 /\ ~IsBad(Primary(bad))
BisectRight ==
    [][/\ Named'
       /\ LET path == Path after == Path' IN
          /\ path # <<>> /\ ~IsComplete(path)
          /\ path[NextPosition(path)] \in {good', bad'} \ {good, bad}
          => /\ Len(after) < Len(path)
             /\ skipped = {} => 2 * (Len(after) - 1) <= Len(path)]_bisectVars
=============================================================================
