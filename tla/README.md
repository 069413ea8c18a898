# A TLA+ model of libfossil

libfossil is a Go implementation of Fossil repositories: one SQLite file that
holds artifacts, a sync protocol between repositories, and check-outs on top of
it. These modules model the parts in which order, failure and shared state
decide whether artifacts survive and arrive. Line numbers are those of
`PROJECT.json`, which maps every definition to its code.

## Inventory

| Component | State | Operations | Hard behaviour | What makes it correct |
|---|---|---|---|---|
| Blob store (`internal/blob`) | `blob`, `delta`, `phantom`, `unclustered` | Store, StoreDelta, StorePhantom, Load | rids are reused after a purge; rows that are only names | what was acknowledged is readable; a delta's source is what it was made from |
| Expansion (`internal/content/content.go`) | none of its own | Expand, Verify | chains in either rid direction, cycles | every row with content expands |
| Clusters (`internal/content/cluster.go`, `CrosslinkCluster`) | `unclustered`, tag 7 in `tagxref` | GenerateClusters, CrosslinkCluster | members that arrive after their cluster | every artifact can be announced, directly or through a cluster |
| Private artifacts (`internal/content/private.go`) | `private` | MakePrivate, MakePublic | table by rid, meaning by artifact | follows the artifact; never leaves without the capability |
| Shunning (`internal/shun`) | `shun` | Add, Remove, Purge | dependents of the purged rows | purging removes exactly the shunned artifacts |
| Content cache (`internal/content/cache.go`) | LRU by rid | Expand, Invalidate, Clear | rid reuse | never serves another artifact's bytes |
| Sync client (`internal/sync/client.go`, `session.go`) | session fields, `unsent` | Sync: rounds of buildRequest, processResponse | budgets, aging, commits meanwhile, lost exchanges | done means agreed; ends; retries converge |
| Sync handler (`internal/sync/handler.go`) | none between rounds | HandleSync | files and igots in one request, capabilities | serves and stores what it may, and no more |
| Clone (`internal/sync/clone.go`) | clone session | Clone | hub written meanwhile, deltas before sources | complete up to the moment it began; ends |
| Check-in lock (`internal/sync/ckin_lock.go`) | rows of `config` | processCkinLock, expireStaleLocks | concurrent requests, expiry | one holder per leaf, as far as reading and replacing a row apart allows |
| Unversioned files (`internal/uv`, `handler_uv.go`) | `unversioned` | Write, Delete, exchange by status | equal mtimes, tombstones | both sides end with the winner |
| Table sync (`client_tablesync.go`, `handler_tablesync.go`, `xdelete.go`, `repo/tablesync.go`) | extension tables | igot/gimme/row/delete cards | conflict strategies, tombstones | rows converge, deletions stay |
| Crosslinking (`internal/manifest/crosslink.go`) | `plink`, `mlink`, `leaf`, `event`, `tagxref`, `orphan` | Crosslink by manifest type | manifests in any order | the same tables whatever the order, and as rebuilt |
| Check-in (`internal/manifest/manifest.go`) | the same and `unsent` | Checkin | tags applied after the commit | a check-in is complete or absent |
| Tags (`internal/tag`) | `tag`, `tagxref` | ApplyTag, PropagateAll | cancellation on the way down | a tag reaches exactly the descendants it should |
| Verify and rebuild (`internal/verify`) | derived tables | Verify, Rebuild | | rebuilding a healthy repository changes nothing |
| Check-out (`internal/checkout`) | `vvar`, `vfile`, files on disk | Open, Extract, Add, Remove, Rename, Update, Revert, Commit | table against disk, partial failure | no local change is lost silently |
| Merge (`internal/merge`, `repo_merge.go`) | none of its own | FindCommonAncestor, DetectForks, ThreeWay, Merge | merges in the history, hunks that touch | the ancestor is common; a merge is what both sides made of each file |
| Undo, stash, bisect | `undo*`, `stash*`, `vvar` | save, restore, next | a long sequence of calls | what was saved comes back; bisect closes in |
| Path, annotate | none | Shortest, Annotate | line numbers across versions | a line is attributed to a version that has it |
| Diff, delta, deck, xfer, hash, search, auth, db, HTTP, CLI, web UI | see `PROJECT.json` | pure functions, formats, adapters | | |

The parts interact through the repository file. A sync session and a clone write
through `storeReceivedFile`, which stores, marks and crosslinks; the handler
serves `net/http` requests concurrently and keeps nothing between rounds;
check-ins write `unsent`, which the session empties; purging and rebuilding
rewrite tables under everyone.

## Modules

* **BlobStore** – the artifact tables of one repository by rid: `uuid`, `body`, `srcid` are
  `blob` and `delta`, `phantom`, `unclustered`, `private`, `shun` the tables of those names,
  `clusterTag` the rows of tag 7. One action per function that writes them; functions that
  run in a transaction, or are a single write, are one step. `Fresh` is SQLite's choice of
  the next rid: `blob.rid` is not AUTOINCREMENT, so the rid above the highest row in use,
  which may be one that a purge has freed and that other tables still name. `Expandable` is
  `content.Expand`: the least set of rows that holds the full texts and, with a row, the
  deltas made from it (`ChainClosed`), so that a cycle does not expand. Content is
  abstracted to how a row is stored: `"full"`, `"delta"` made from its source's expanded
  bytes, `"misbased"` made from a source's raw delta bytes. Three observers record what
  callers were told: `base` (what a delta was made from), `hidden` (what should be private)
  and `acked` (what was reported stored).
* **ArtifactStore** – what a repository promises: artifacts move from unknown to
  named to readable, and only a purge of shunned artifacts takes them back.
  BlobStore implements it under `readable <- Readable`, `named <- Known \ Readable`.
* **Sync** – one client and one server. The repositories are records of sets of artifacts
  (rids play no part here); the session fields keep their names. The steps of a round are
  `BuildRequest`, `ServerFile` and `ServerMark` per file (its transaction, and then its
  private mark), `ServerReply`, `ClientFile` and `ClientMark` per file, and `EndRound` with
  the igot and gimme cards, aging and the convergence test. `ClientCommit` and `ServerGains`
  come in between, `Interrupt` ends a session anywhere, also between a file and its mark;
  the observer `exposed` remembers the private files this left public. Map iteration is a
  nondeterministic choice of what is visited before a budget is spent (`Visits`, `Asks`).
* **Clone** – the clone session against a hub that others write to: cursor, cap
  (the cookie), batches in rid order, phantoms for deltas that came before their
  source, the removal of the file on error and the next attempt. A hub is a record
  of its rows and how it sends them. This handler always sends files in full;
  `source` is what a Fossil server, which this client also clones from, sends as a
  delta.
* **UVSync** – unversioned files. `rows[s][n]` is the row of a name at a side, time
  and hash; a hash of 0 is a tombstone and hashes are numbers because `uv.Status`
  compares them to break ties. `cached` is the `uv-hash` row of `config`. A session
  sends its catalog hash in the first round (`BuildRequest`), the server answers
  with its rows if the hashes differ (`handlePragmaUVHash`), and gimmes and files
  follow. A card is handled in two steps: the look at the row puts the statement that it
  comes to into `hand`, and `Execute` writes it whatever has become of the row; edits by
  others (`Write`, `Delete`) come in between. A catalog hash is computed (`ClientHash`,
  `ServerHash`, into `hashing`) and then cached. Three things are one step although the
  code has two statements: caching the hash, comparing it and listing the rows
  (`handlePragmaUVHash`); a row and `InvalidateHash` after it, unless the caller stops
  between them (`EditStops`, `Interrupt`); and the count in `uv.Delete`, which is taken
  with the look, so that its INSERT may meet a row (`InsertFails`). There is one session
  at a time. The artifacts of the session appear as the choice in `EndRound` that they
  need another round. `latest` and `calm` are observers; so are `raced`, the names edited
  between a look and the write after it, and `misled`, the sides whose `config` may hold a
  hash of older rows. The clock starts at the time of
  the newest row or later: nobody has written in the future.
* **CkinLock** – `processCkinLock` statement by statement, with a clock. The handler is
  served concurrently, so the statements of several requests interleave in any way. The
  observer `overlap` remembers the pairs of clients of which one replaced the row between
  the other's `Read` and `Write`, until one of them reads it without holding the lock.
* **TableSync** – one synchronised table in the rounds of a session. A row has a
  value (0 for a tombstone), a time and an owner; `conflict` is the table's strategy.
  The cards of a round are sets. `DecideCard` and `StoreCard` are the look-up and the
  write of `handleXRow` and `handleXDelete`, between which another request
  (`PeerCard`) or a local write may come; `raced` remembers the keys for which one
  did. The rows of a mtime-wins table have no owner, in the beginning either: only the
  strategies that look at owners keep them. A start names its clock.
* **Crosslink** – the derived tables of a repository: `plink`, `mlink`, `leaf`, `event`,
  `tagxref`, `attachment`. `Deck` gives the cards of every artifact. A sweep (`Crosslink`)
  takes the candidates of its query one at a time in rid order, and each in the statements
  of its handler: `todo` is the one that comes next. An artifact may arrive, a check-in be
  made in its transaction and its tags after it (`Checkin`, `TagCheckin`), a tag be set
  (`AddTag`), or the process stop (`CrashSweep`, `CrashCheckin`) between any two of them.
  One step are the transaction of a check-in; its tags, and those of a control; and the
  plink rows of a page, a note or a post with the propagation from its parent. One sweep
  runs at a time, and `Rebuild` makes the tables anew when nothing else runs. Which
  artifacts there are is chosen from `Worlds`. The observers `late`, `early`, `forced` and
  `orderly` remember where the order of arrival was not that of the history, `torn` the
  artifacts in whose middle a sweep has died.
* **Checkout** – `disk` is the working directory, `vfile` and `vvar` the tables, `queue` the
  files chosen for the next commit (`NoQueue` where the code has nil: `IsEnqueued` tells it
  from an emptied queue, `shouldInclude` does not), `undo` and `stash` what was put aside.
  The exchange of disk and undo rows (`swapDiskFiles`) is given by its result: the file a
  row finds is what the last earlier row for the same name left (`FileAt`). One action per
  operation, and one (`CommitStops`, `LoadStops`, `ExtractStops`, `UpdateStops`,
  `SwapStops`, `StashSaveStops`) for each that an I/O error or a crash can stop after some
  of its writes, the rows of `LoadVFile` included (`LoadPart`). `untagged` are the versions
  of commits that stopped before their tags. A file's content stands for its rid.
* **History** – versions in order, with parents, branch and files as sequences of lines.
  `Commit` and `Merge` (of `repo_merge.go`, carrying over the parent's files) make versions;
  `FindCommonAncestor`, `ThreeWay`, `Annotate`, `Shortest` and bisection's `Next` are
  operators over them, translated from the loops of the code and compared with definitions
  that say what they should compute; a merge is judged by the version that it commits
  (`committedFiles`) and not by what `mergeFile` returns. `culprit` is the version that a
  bisecting user is looking for.
* **MCBlobStore**, **MCSync**, **MCClone**, **MCUVSync**, **MCCkinLock**, **MCTableSync**,
  **MCCrosslink**, **MCCheckout**, **MCHistory** – the instances that TLC checks.
* **BlobStoreProofs**, **SyncProofs**, **CloneProofs**, **UVSyncProofs**,
  **CkinLockProofs**, **TableSyncProofs**, **CrosslinkProofs**, **CheckoutProofs** – the
  theorems about the modules of those names, with their inductive invariants.

## Runs

| Run | Shows |
|---|---|
| `blob_delta` | a repository whose chain runs towards newer rows (row 1 a delta of 2, 2 of 3), with storing, shunning, purging, privacy in any order: every row expands, no delta changes its source although rids are reused, privacy follows artifacts, nothing acknowledged is lost, and every step is one of ArtifactStore's |
| `blob_cluster` | an empty repository that makes a cluster and receives another, before or after its member and its own phantom: the phantom table is exact, every artifact can be announced, tagged clusters have no unknown members |
| `sync_sessions` | sessions that push, or push and pull, with one file and one gimme a round, a commit on each side at any moment, one interrupted session and a shunned artifact at the server; a public cluster that lists a private artifact and one the server lacks, for users with and without the private capability; and a private artifact at each side with a session that stops anywhere, also between the storing of a file and its mark: a session that is done has moved all it should, none reaches the round limit, nothing is sent twice, what may not travel stays and is marked private (but for what that stop left unmarked), and repeated sessions agree |
| `clone_hubs` | a hub with a private row and a phantom, one row a round, two rows written meanwhile; a hub that sends deltas ahead of their sources; and the first hub as this handler serves it, in full and two rows a round; two interrupted attempts: the clone is complete, is not kept going by writers, gets nothing private, and one succeeds in the end |
| `uv_edits` | a file that differs in the same second and one that only the server has, one file a round, two edits of the first at any moment, also between a look and its write or while a hash is computed, two stops of a session or of an edit before it drops the cached hash, sessions with and without the right to push: a session that is done agrees and repeated sessions agree for good unless a side kept a hash of older rows, and the newest row of a name is never lost unless an edit fell between a look and its write |
| `table_edits` | rows written and deleted at both sides, by the session's user and another, with every conflict strategy, one interruption, a table that only one side knows at first: a session that is done agrees, the newest row survives, sessions end, only an owner deletes, and repeated sessions agree |
| `crosslink_sweeps` | manifests of all kinds in any order of arrival, files after manifests, children before parents, a crash between any two statements, a rebuild: nothing is linked half; wrong leaves and missing links are exactly those of children linked first; tags are as rebuilt where parents came first; of tech notes and attachments the newest are shown but for what the crash cut short; everything complete is linked in the end |
| `checkout_edits` | four operations in any order, one of which may stop half way: a commit records the disk of the files that are enqueued, a fork is announced, a checked extraction keeps edits, undo and redo reverse each other, a stash comes back, an update reaches its version |
| `merge_bisect` | every pair of commits over thirteen texts, on one or two branches and with deletions, and the merges of the branches: ancestor, committed merge and annotation without a limit against their reference definitions; four marks in a history of eight versions with a merge: bisection halves the way and names the culprit |
| `lock_overlap` | three clients whose requests for one parent interleave statement by statement: two hold the lock only if one replaced the row between the other's read and write, up to the second of expiry |
| `sync_interrupted_pull` | disagreement: a phantom row left between a cluster and its member is never asked for again |
| `merge_hunks` | disagreement: a line that one side replaces, while the other inserts in front of it, is back after a clean merge |

The type invariant of a module is a conjunct of one of the invariants of its run
(`NoSpuriousSend`, `CloneComplete`, `NewestSurvives`, `TagsAsRebuilt`,
`CheckoutConsistent`, `AncestorRight`), except in BlobStore, where it is one of its
own, and in CkinLock, where it is proved.

Deadlock is checked in the Sync, UVSync and TableSync runs. It is off for BlobStore
(all rids used), Clone (a finished clone stops), CkinLock (the clock's bound),
Crosslink, Checkout and History (their bounds are used up).

**Bounds.** `MaxRid`: a chain of three and one new row is enough for every pair of purged
source and dependent and for a rid that is freed and used again; five rows hold two clusters
with their members. Budgets of one make every transfer of two artifacts spread over rounds.
In `sync_sessions` `MaxRounds` is above the longest converging session, so reaching it is a
real failure, and is the smallest for which `SyncEndsInTime` speaks of the world `TwoWay`;
in `clone_hubs`, 6 is small enough that the round limit is reached row by row, and large
enough for what the third hub holds. In `sync_sessions` and `table_edits` one interrupted
session reaches every state that a later one can find. In `uv_edits` `MaxFailures` is two, a
stop of an edit and an interrupted session. Two contents, two seconds and two edits of one
name give every order of times and hashes that `uv.Status` tells apart, ties of files and of
tombstones included (`EditedNames` is `{x}`: `y` is the other name, whose transfer spreads
the session over rounds); in `table_edits` two keys, two seconds and two writes do the same
for rows and their tombstones. The lock's timeout of 2 within 7 ticks allows a lock to
expire, be taken over and expire again, and three clients are two that overlap and one that
does not. `crosslink_sweeps` has one world per kind of reference (parents and merges,
baseline and files, controls, technotes, attachments, forum posts) with the two to four
artifacts that can be out of order. In `checkout_edits` four operations are a preparation,
two that interfere, and the one that is judged; one fault is enough because an operation
after a fault starts from any table it can leave. In `merge_bisect` the texts are all of at
most two lines over two letters and five longer ones, so that hunks touch, overlap and
repeat; two commits are one per branch, or two in a row, and two more versions hold their
merges.

**Fairness.** `Sync.FairSpec`: weak fairness of a session's steps, because the loop
of `Sync` goes on until it is done, fails or has used its rounds, and the handler
answers; strong fairness of starting a session in each mode, because callers
(autosync, a cron job, a user) try again and a mode is not given up while
another is in use. Interruptions and commits are not fair and are bounded.
`UVSync.FairSpec` and `TableSync.FairSpec`: the same.
`Clone.FairSpec`: the same for the steps of `run` and the caller's next attempt.
`Crosslink.FairSpec`: a sweep goes through its candidates, and the next one begins,
because every session and handler that received a file ends with one; arrivals are
bounded and not fair.

## Theorems

Each theorem holds for every value of the constants that satisfies the ASSUMEs of its
module, which say what the code and its callers guarantee of them; TLC evaluates them
in the runs. Hypotheses beyond these are in the statement; the constants of the run
that checks the same property satisfy them, or, where a hypothesis is about the world a
behaviour starts from (`Plain`, `Unhindered`, `SentWhole`), one of the run's worlds does.
In every case the property itself is not inductive; what had to be added is said below.

**BlobStoreProofs**, for every set of artifacts, cluster listing, bound and imported file
whose delta chains end in full text (`ImportChainsAssumption`):

* `TypeCorrect`, `DeltaBases`, `Privacy`: `TypeOK`, `DeltaBaseIntact` and
  `PrivacyFollowsArtifact`, from `TableInvariant`: `Spec => []TableInv`. `TableInv` adds
  that rows and bodies come together (`RowsHaveBodies`), that an artifact has one row
  (`UniqueUuids`) and that rows without content are listed (`NullRowsListed`). A fresh
  rid must not be named by `srcid` or `private` (`FreshRow`): that follows from
  DeltaBaseIntact and from `private \subseteq Rows`. Filling a phantom must not give a
  body to a row that is a delta. And the privacy of an artifact is that of its only row.
  Every insertion is an instance of `InsertRows`; `PurgeKeeps` is the one deletion.
* `BlobsExpand`: `BlobIntegrity`, if no delta is made of a row that is itself a delta
  (`SoundSources`; without it the property is false, see below). The set that expands is
  the least closed one, so each step compares two closed sets: all steps but a purge are
  `Growing`, and a purge takes exactly the shunned rows out of the set.
* `StoreImplements`: `Spec => ImplementsArtifactStore`, the refinement of ArtifactStore,
  without hypotheses: a row made from raw delta bytes is merely never readable.
* `StoredIsReadable`: `AckedIsReadable`, if nobody asks for phantoms and no cluster lists
  anything (`Promised = {}`), because `blob.Store` drops the content of a phantom.
* `PhantomsListed`: `PhantomTableExact`, if nothing is shunned.
* `ArtifactsAnnounceable`: `EveryArtifactAnnounceable`, if nothing is shunned and no
  cluster of a size that `GenerateClusters` makes is waited for
  (`MadeHere \cap Promised = {}`). `AnnounceInv` says of each row with content, and not only
  of artifacts, that it is unclustered or listed by a tagged cluster with content.

**SyncProofs**, for any two repositories (a row has content or is a phantom, unsent
artifacts are stored, no cluster lists itself), users, budgets, commits, interruptions:

* `SyncSendsNews`: `NoSpuriousSend` with the types. `SessionInv` needs that what the
  server asks for in its answer is not there (`QueueIsNews`), and that only one message is
  under way (`OneMessage`), so that no file of a request is queued again.
* `SyncKeepsSecrets`: `PrivateConfined`: the only exceptions are the file that is stored
  and not yet marked, and what a stop at that moment leaves, until the server announces it
  to the client as private. `SecretInv` says of every card under way that a secret is sent
  behind a private card and, unless it is one of those exceptions, announced as private;
  that a secret in `marking` came behind such a card (`SecretsMarked`); and that none is
  queued without the capability (`SecretsAuthorized`).
* `SyncDoneMeansAgree`: `DoneMeansAgree` between repositories without clusters and
  phantoms, whose public artifacts are unclustered (`Plain`; with clusters or phantoms the
  property is false in general, see below). `AgreeInv` follows each promised artifact
  through the round: it is announced in every request, asked for in every answer
  (`PushOnItsWay`, `PullOnItsWay`), and cards only speak of what their side has
  (`CardsTrue`). Aging is the difficult part: a phantom is given up after three rounds, but
  as long as one is missing each round asks for something that the server can deliver
  (`WantedServable`, `MissingAsked`), so the round in which one is given up received a
  file and is not the last.
* `SyncEndsInTime`: `NeverExceeds`, if moreover nothing is private, everyone may push and
  does, no commit is shunned where it is made, the two sides make different artifacts
  (`Unhindered`), and `MaxRounds` is greater than `Budget + 1`, where `Budget` is two
  rounds for every artifact that a side is to get. `RoundsPaid` is the ledger: the rounds begun
  plus what is still owed never exceed the budget. A round with something queued or wanted
  puts an artifact on its way, which pays for it and for the round that found nothing
  before it; a round that finds nothing ends the session, unless a commit came in
  between, and that commit pays for the next. The invariant also says that the server
  never announces an unsent artifact (`UnsentTold`), so that the unsent table is cleared.
  The bound is for budgets of one file. In the code a round carries 250000 bytes
  (`session.go:18`) and there are 100 of them (`session.go:20`), so a session that has
  more to move does end with an error, and the next one goes on from there.

**CloneProofs**, for any hub, batch size, writers and interruptions:

* `CloneIsComplete`: `CloneComplete`. `CloneInv` accounts for each artifact of the
  snapshot in every state (`Accounted`): stored, missing and noted, in the answer being
  read, or ahead of the cursor. The client stops when a round brings no file, so a cursor
  must only be handed out while rows remain behind it (`CursorLive`).
* `CloneTakesNothingPrivate`: `PrivateNotCloned`, with the same of the cards under way.
* `CloneInTime`: `CloneConverges` of a hub that sends every file in full (`SentWhole`), as
  this handler does, with at least two rounds. The rows below the cap are those of the
  snapshot and the phantoms (`RowsCapped`), every round but the last brings a full batch
  of them (`FullBatches`), and without deltas nothing is missing at the end
  (`NothingMissing`).

**UVSyncProofs**, for any names, clock, edits, budgets, interruptions and rights:

* `UVNewestSurvives`: `NewestSurvives`, for every name that was not edited between a look
  and the write after it. `Good` says of the two rows of a name that each is at most as new
  as the row written last, and if of the same second one of those written then, and that
  one side has such a row, and that the server's is not older than what it has announced,
  because the client deletes its row on an announcement. It holds of the tables as they are
  (`TablesGood`) and as the statement in hand will leave them (`HandGood`), and every card
  under way is known (`CardsKnown`).
* `UVDoneAgrees`: `DoneAgrees`. Except at `misled` sides the cached catalog hashes are
  those of the rows (`HashFresh`), so equal hashes in the first round mean equal files.
  Otherwise `AgreeInv` says of each name on which the sides differ, in each stage of a
  round, that it is announced, asked for, or a row of the client that wins and is queued or
  on its way (`Opens`, `Exchange`), where the sides are taken with the statement in hand
  executed (`View`); the convergence test passes only when none of these is left (`Quiet`).

**CkinLockProofs**: `LockExcludes`: `Spec => [](TypeOK /\ ExclusiveUnlessOverlapping)`
for any clients, parents, timeout and clock, however the statements of requests
interleave. The invariant `LockInv` says that no time lies in the future (`NotInFuture`),
that a row is what its client was told (`RowIsGrant`), that while a client may count on
its lock a row is there that is at least as new (`RowBacksHolder`), which needs that expiry
is strict, and that holders and requests about to write share a leaf only with those they
overlapped (`Apart`).

**TableSyncProofs**, for any keys, values, clock, writers, other clients, interruptions:

* `OnlyOwnersDelete`: `OwnerDeletes`. A deletion that was accepted is still its owner's
  when it is written, unless the key was written in between (`DecidedByOwner`).
* `TableNewestSurvives`: `NewestSurvives` of a mtime-wins table. The client writes what it
  receives without comparing, so the server must be at least as new as each card on its
  way and as the client's row (`ServerAhead`); that in turn needs that the client's rows
  are still those it announced and that it lacks what it asks for (`RequestCurrent`), and
  that a row the server accepted is no older than the one it replaces (`DecidedNotNewer`).
* `TableDoneAgrees`: `DoneAgrees`, if there are at least three rounds (the code has 100).
  `RoundInv` says what each side knows of the other's rows in the first, second and third
  round (`EveryRound`, `SecondRound`, `ThirdRound`): a calm session ends in the third at
  the latest, and then both sides hold the last write of each key, which
  `TableNewestSurvives` keeps at one of them.

**CrosslinkProofs**, for any decks, worlds, orders of arrival, crashes and rebuilds:

* `HistoryIsRight`: `HistoryRight`, if no page, tech note or post has a check-in for a
  parent (`HistoriesApart`): its plink row would make that check-in's leaf unexpected.
  `ParentsLinked` says of all parents what the property says of those with a row.
* `LinkedCheckinsComplete`: `LinkedIsComplete`. Contents never go away, and the parent
  whose files are left out of mlink does not change.
* `NewestAttachmentsShown` (`AttachmentsTyped` and `NewestAttachments`, two of the three
  parts of `NewestShown`) and `NewestIsShown` (all of it), with a crash between any two
  statements of a sweep and what it cut short excepted, if tickets and tech notes have
  different names and T-cards only set ordinary tags (`NamesApart`), and, for the tech notes,
  if a newer version of one has a P-card (`NotesEdited`; see below for what happens
  without). `AttachInv` says of each statement
  that is still to come what those before it have done (`StepsRight`), and `NoteInv` the
  same of the statements of a tech note (`NoteSteps`, `NotYet`). A version is judged by the
  tagxref rows of the others, so `NoteInv` has to
  say that every version that is shown has its row, and that no tag, control,
  propagation or rebuild touches it (`TagsSound`). Tagging folds over sets; that a fold
  keeps a property is shown by a least counterexample in the size of the set
  (`FoldExists`, `FoldKeeps`), that propagation's queue is well defined by the largest
  set it can reach (`ReachedToDo`).

**CheckoutProofs**, for any finite set of names, contents, branches, histories (each a
sequence of versions, parents before children), sequences of operations and faults:

* `CheckoutStaysConsistent`: `CheckoutConsistent`. An extraction keeps rows it finds
  and an undo puts back any earlier table, also one of a checkout that had stopped half way,
  so `CheckoutInv` says of all rows, saved ones included, that they are of a version there
  is and have a content of it (`RowsKnown`), and counts them when nothing has stopped
  (`Settled`). Counting is by injections, from (pathname, vid) being unique.
* `CommitsRecordDisk`, `NoForkUnwarned`, `EditsAreKept`, `SavedStateComesBack`,
  `UpdatesReach`: the five action properties. The first needs no assumption that nothing has
  stopped before: a version has one row for a name whatever happened; it excepts an emptied
  queue. The second is about commits that get as far as their tags and give no branch to a
  version that an earlier one left untagged. Both exceptions are explained below. For
  `SavedStateComesBack` the undo table must have one row for a file, see below.

Only model-checked:

* liveness (`EventuallyAgree`, `EventuallyCloned`, `EventuallyLinked`), which needs fairness;
* `DoneMeansAgree`, `NeverExceeds` and `CloneConverges` for the worlds that the theorems
  leave out: with clusters, phantoms or private artifacts Sync's two properties depend on
  the world and are false in those described below, and a hub that sends many deltas ahead
  of their sources takes rounds that CloneConverges does not count;
* `TagsAsRebuilt` of Crosslink: it compares tables that were filled in the order of arrival
  with tables filled by a sweep in rid order, an argument by induction over two sequences
  of applications at once;
* `AncestorRight`, `MergeRight`, `AnnotateRight`, `BisectRight` of History, about what
  recursive functions compute for every input: induction over data takes an operator as a
  parameter, which the provers do not instantiate, and the least counterexample that
  replaces it where only the size of a set matters does not carry over to these.

## Other disagreements seen while modelling

These have no run of their own; those with constants in brackets can be
reproduced with them.

Artifacts, sync and clone:

* `blob.Store` and a check-in report success for content whose artifact is a phantom,
  and drop it (`blob.go:27`; `blob/doc.go:8` "inserts it into the blob table"):
  `blob_delta` with `Wanted = {k}` violates `AckedIsReadable`.
  The same happens to a cluster that `GenerateClusters` builds while a phantom waits for
  it: its content is dropped and its members leave `unclustered`, so that no push
  announces them. A `Wanted` artifact with as many members as `GenerateClusters` puts
  together violates `EveryArtifactAnnounceable`.
* `blob.StoreDelta` against a row stored as a delta makes the delta from the
  stored bytes (`blob.go:92`), so the row does not expand: `DeltaSources =
  {"full", "delta"}` violates `BlobIntegrity`.
* `shun.Purge` leaves the phantom entry of a shunned phantom (`purge.go:96`),
  against `dst.CheckNoOrphanPhantoms`.
* A pull by a repository with a commit of its own runs into `MaxRounds`: the handler
  asks for an unknown igot in every session (`handler.go:408`), and `buildFileCards`
  sends nothing without push (`client.go:311`), against `repo_pull.go:28` "Idempotent on
  a repo already at peer's tip": a world of Sync with a pull-only mode violates
  `NeverExceeds`. So does a user who may pull but not push.
* A cluster pushed to a server that has none of its members ends as converged
  without them: the handler takes a phantom row for a present artifact
  (`handler.go:389`) and the client announces only the cluster: a world whose client
  has the cluster violates `DoneMeansAgree`.
* The client downloads what its own shun table lists (`client.go:530`).
* Phantoms age while they wait behind the gimme cap and are given up without
  having been asked for (`client.go:601`; `session.go:80` says "gimme'd"): the world
  `ListedSecret` with `maxGimmeBase |-> 1` violates `DoneMeansAgree`.
* In a clone, a delta of an artifact that itself arrived as an unresolved delta
  aborts the clone (`client.go:692`): a `source` of two steps.
* Two requests for the check-in lock that are handled at once both read a free row
  and both take it (`ckin_lock.go:37`), while `docs/site/content/docs/architecture.md:182`
  says the row "serialises concurrent check-ins": without the clause on `overlap`,
  `ExclusiveUnlessOverlapping` is violated.
* A private file is stored in one transaction and marked in another (`handler.go:470` and
  `:487`, `client.go:495` and `:498`). A stop in between leaves it public. At the client
  the next session with the private capability puts that right, since the server announces
  it as private ("the next sync round should correct the status", `client.go:846`). At the
  server nothing does: it announces the artifact as public from then on, and the client,
  which gets that igot, makes it public as well. `PrivateConfined` without `Unmarked` is
  violated. A second client that pulls meanwhile is not modelled.

Unversioned files and tables:

* A file whose time alone is newer at the client (status 4) is sent without its
  content, and `handleUVFile` drops every card of status 2 or more
  (`handler_uv.go:170`), so the catalogs differ for good, against
  `dst.CheckUVConvergence`; the files themselves agree, which is what UVSync's
  `Agree` says. `status.go:14` and `:16` name the two directions the wrong way round.
* `handleUVFile` reads the row, decides and writes in three statements
  (`handler_uv.go:164-179`), as does the client (`client.go:955-968`). A file edited between
  the look and the write is replaced by the older one under way; `NewestSurvives` without
  `raced` is violated.
* `ContentHash` reads the rows and caches the hash afterwards (`uv.go:208-238`). A file
  edited in between leaves a hash of older rows in `config`; so does a stop between a row
  and its `InvalidateHash` (`uv.go:88`, `:121`). Until the next edit at that side two sides
  that differ may take themselves for equal: `DoneAgrees` and `EventuallyAgree` without
  `misled` are violated.
* The comment "deletion marker always wins" (`status.go:38`) holds for the remote
  side only: a local tombstone is read as an empty hash and loses a tie of times.
* Rows of a table with the same time and different content never converge, against
  "Tie goes to the incoming row to ensure convergence" (`handler_tablesync.go:302`): equal
  times are not exchanged.
* `LookupXRow` and `ListXRows` drop `_owner`, so the ownership check of
  `resolveXRowConflict` never refuses a row; only deletions are checked.
* The client writes every row it receives without comparing times; the server looks a
  row up and writes it in two statements.
* A session that only pushes does not send rows the server lacks; one that only
  pulls, with a newer row of its own, goes on to `MaxRounds`.

Derived tables:

* A check-in linked after a child of its own becomes a leaf, and a child linked
  before its parent is known has no plink row, until the next rebuild
  (`crosslink.go:310`, `:289`).
* `missingCheckinRefs` ("Empty result means crosslink is safe to run") does not look at
  the files of the baseline.
* `AddTag` writes no event row, so the next sweep applies the control again; `ApplyTag`
  ignores times; a control whose target is unknown is lost until a rebuild.
* A singleton tag stops the propagation of an earlier one in `PropagateAll` and not in
  `ApplyTag`.
* `Rebuild` removes the events of controls, forum posts and attachments for good,
  though it "reconstructs all derived tables", and links check-ins whose files are
  missing. `AfterDephantomize` has no caller and `orphan` no writer.
* A page, a tech note or a post whose P-card names a check-in gives it a child in plink
  (`crosslink.go:533`), so that a rebuild takes it for no leaf, while `leaf` keeps it until
  then.
* A crash between a check-in's transaction and its tags leaves it without a branch.
* `crosslinkEvent` writes the tag of a tech note, deletes the older event rows and writes
  the new one in statements of their own (`crosslink.go:639-686`). A sweep that dies after
  the first leaves the older version shown, one that dies between the others shows none, and
  that stays so: with a tagxref row the note is no candidate of later sweeps. A dead sweep
  also leaves a ticket's attachments typed as pages, and controls, pages and posts without
  an event row that have their tags or their row in `forumpost`. An attachment whose row is
  inserted without the next statement (`crosslink.go:704-739`) is not the latest of its
  target, and the older one stays so, until another is attached. After a rebuild a sweep
  links notes, pages and tickets anew, but not the others.
* A newer version of a tech note without a P-card leaves the event row of the older one in
  place (`crosslink.go:668` asks for a P-card), against "This ensures only the latest
  version's event row survives" two lines above; the proof of `NewestIsShown` found it.

Check-out:

* `Update` writes over local modifications: it compares manifests only, against
  "performing 3-way merge where needed to preserve local modifications" (`update.go:176`).
  It drops rows of added files, and stops half way when both sides added a file.
* A refused `Extract` has already replaced `vfile`; a dry run sets `vvar` and `vfile`; a file
  that differs from the target counts as changed locally even if it is unmodified.
* An emptied queue commits everything: `Commit` takes it for no queue (`checkin.go:288`),
  while `IsEnqueued` says no to every file ("If the queue exists but is empty (len == 0),
  nothing is enqueued", `checkin.go:55`; `checkin_test.go:482-490` asserts it).
  `CommitRecordsDisk` without `queue # {}` is violated.
* After a commit that stopped before its tags, `WouldFork` says no, as the new leaf has no
  branch yet; the next commit from the same version propagates the branch to it
  (`PropagateAll`) and makes the fork that was not announced.
* A crash between `Checkin` and `finalizeCommit` makes the next commit a fork; one between
  the two writes of `vvar` keeps `Open` from succeeding, as does an undo across versions.
* An unmodified file that is renamed is not committed under its new name, and a
  modified one keeps its old name too; a second rename loses the first origin; a rename
  overwrites an untracked file; an emptied file is committed with its old content.
* An undo state saved while `vfile` has rows of two versions, which an update or an
  extraction that stopped leaves, has two undo rows for a file. At an undo the second row
  keeps what the first has just restored, and the redo ends with it again instead of the
  file that was there before the undo (`undo.go:88`). This takes
  more operations than `checkout_edits` allows; the proof of `SavedStateComesBack` found it.
* `Stash.Save` trusts the flags of `vfile` without a scan; stash and undo write the disk
  before their transaction commits.

History:

* `Merge` leaves out a file that the source branch deleted and the destination did not touch
  ("agreed deletion", `repo_merge.go:138`), and `Commit` carries it over from the parent
  again (`repo_merge.go:256`, `files.go:87`), so that the merge undoes the deletion.
  `MergeRight` excepts this case and says what happens instead.
* `merge3` compares a hunk that overlaps two of the other side's with the first only, and
  takes overlapping hunks of different extent for equal if they have the same lines, so a
  conflict can pass for a clean merge (`repo_merge.go:131` "any unresolved conflict in any
  file aborts").
* In histories with merges `FindCommonAncestor` may return a common ancestor that is
  not the most recent (`ancestor.go:10`).
* `Annotate` keeps the line numbers of the file it starts from while it compares
  older versions with each other (`annotate.go:122`), so that from the second step on
  it attributes lines to versions that do not have them, against "the earliest ancestor
  that contains the same line" (`annotate.go:39`), or, where a later version is shorter,
  indexes out of range. Lines that were changed later suffer too, as a position once
  matched can be matched again. `AnnotateRight` without `Appended` is violated.
* `StatusInfo.Steps` of a bisection is the floor of a logarithm and one too small for most
  paths.

## Plan

1. Done: BlobStore and ArtifactStore, Sync, Clone, UVSync, CkinLock, TableSync,
   Crosslink, Checkout, History, and the proofs above.
2. Open for proof: `DoneMeansAgree` with clusters whose members the receiver has, and
   `CloneConverges` with the rounds counted that repeat deltas.
3. The content cache over BlobStore's reused rids; GenerateClusters in two steps; commits
   of others during a checkout; the conflict table of conflict-fork.

## Not modelled

Byte formats (delta, deck, xfer, compression), hashing, text diff, full-text search,
HTTP, login and configuration cards, the CLI and the web UI, the database drivers and
the simulation harness. They are pure functions or I/O, covered by the repository's own
round-trip, fuzz and interoperability tests. Permissions and symbolic links of
checked-out files, the conflict table and the content cache are left out for now.
