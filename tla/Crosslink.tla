----------------------------- MODULE Crosslink -----------------------------
(***************************************************************************)
(* The tables derived from manifests (internal/manifest, internal/tag,      *)
(* internal/branch, internal/verify): what Crosslink, Checkin, AddTag and   *)
(* Rebuild make of artifacts that arrive in any order, with or without the  *)
(* artifacts they refer to.                                                 *)
(*                                                                         *)
(* A sweep handles one artifact after another, and each in the statements   *)
(* of its handler, which are committed one by one: others act, or the       *)
(* process dies, between any two of them.  Only the tables of a check-in    *)
(* are written in one transaction.  Texts, users and colours are left out.  *)
(***************************************************************************)
EXTENDS Integers, Sequences, FiniteSets, SequencesExt, FiniteSetsExt

CONSTANTS
    Artifact,
    Deck,         \* Deck[a]: the parsed manifest a, see DeckType
    Worlds,       \* the sets of artifacts of which one exists in a behaviour
    Local,        \* the check-ins and controls that are made here
    Id,           \* names of wiki pages, tickets and tech notes, and of files
    TagName,      \* names of T-cards
    MaxTime,
    MaxPhantoms,  \* bound: how many rows come before their content
    MaxCrashes,   \* bound: how often a process dies
    MaxRebuilds   \* bound: how often Rebuild is called

Kinds == {"file", "checkin", "control", "wiki", "ticket", "technote", "attachment", "forum"}
Self == "*"
Tag == ({"tag"} \X TagName) \cup ({"wiki", "tkt", "event"} \X Id)

(* tagtype 0 cancels, 1 is a singleton and 2 propagates.                    *)
TCard == [name: Tag, type: 0..2, value: Id, uuid: Artifact \cup {Self}]

DeckType ==
    [kind: Kinds,
     D: 1..MaxTime,
     P: Seq(Artifact),         \* parents, the primary one first
     B: SUBSET Artifact,       \* baseline of a delta manifest
     F: SUBSET Artifact,       \* files that the manifest itself lists
     T: SUBSET TCard,
     id: Id,                   \* page, ticket or tech note; what is attached to
     G: SUBSET Artifact]       \* root of the forum thread

ASSUME ConstantsAssumption ==
    /\ Deck \in [Artifact -> DeckType]
    /\ IsFiniteSet(Artifact) /\ Self \notin Artifact
    /\ \A a \in Artifact : /\ Cardinality(Deck[a].B) <= 1 /\ Cardinality(Deck[a].G) <= 1
                          /\ IsFiniteSet(Deck[a].F) /\ IsFiniteSet(Deck[a].T)
    /\ Worlds \subseteq SUBSET Artifact
    /\ Local \subseteq Artifact
    /\ MaxPhantoms \in Nat /\ MaxCrashes \in Nat /\ MaxRebuilds \in Nat

VARIABLES
    world,
    rows,        \* the artifacts with a row in blob, in rid order
    real,        \* those whose content is there
    event,       \* event[a]: type of the row, "none" without one
    plink,       \* pairs of parent and child
    leaf,
    mlink,       \* pairs of check-in and file
    tagnames,    \* the tag table
    tagxref,     \* one record for each rid and tag at most
    attachment, isLatest,
    forumpost,   \* pairs of post and thread root
    sweep,       \* the candidates that the running Crosslink has before it
    todo,        \* what comes next for the artifact that it has begun with
    untagged,    \* check-ins whose tags a running Checkin has yet to apply
    phantoms, crashes, rebuilds,
    late,        \* observer: check-ins that were linked after a child
    early,       \* observer: links whose parent had no row
    forced,      \* observer: check-ins that Rebuild linked without their files
    torn,        \* observer: artifacts with which a sweep has begun and died
    orderly      \* observer: nothing so far has depended on order, see below

tables == <<event, plink, leaf, mlink, tagnames, tagxref, attachment, isLatest, forumpost>>
boundVars == <<phantoms, crashes, rebuilds>>
observers == <<late, early, forced, torn, orderly>>
vars == <<world, rows, real, tables, sweep, todo, untagged, boundVars, observers>>

Rows == ToSet(rows)
Checkins == {a \in Artifact : Deck[a].kind = "checkin"}
Parents(a) == ToSet(Deck[a].P)
IsPrimary(p, a) == Deck[a].P # << >> /\ Deck[a].P[1] = p

TagRow == [rid: Artifact, tag: Tag, type: 0..2, src: Artifact \cup {Self},
           orig: Artifact, value: Id, mtime: 1..MaxTime]
EventType == {"none", "ci", "g", "w", "t", "e", "f"}
Statements == {"tags", "own", "older", "post", "latest", "event", "retype"}

TypeOK ==
    /\ world \in Worlds
    /\ Rows \subseteq world /\ Len(rows) = Cardinality(Rows)
    /\ real \subseteq Rows
    /\ event \in [Artifact -> EventType] /\ \A a \in Artifact : event[a] # "none" => a \in real
    /\ plink \subseteq Rows \X real
    /\ leaf \subseteq Checkins \cap real
    /\ mlink \subseteq real \X Rows
    /\ tagnames \subseteq Tag /\ tagxref \subseteq TagRow
    /\ \A r, s \in tagxref : r.rid = s.rid /\ r.tag = s.tag => r = s
    /\ isLatest \subseteq attachment /\ attachment \subseteq real
    /\ forumpost \subseteq real \X Rows
    /\ sweep \subseteq real /\ untagged \subseteq Checkins
    /\ todo \subseteq real \X Statements /\ Cardinality(todo) <= 1
    /\ phantoms \in 0..MaxPhantoms /\ crashes \in 0..MaxCrashes /\ rebuilds \in 0..MaxRebuilds
    /\ late \cup forced \subseteq Checkins /\ early \subseteq Artifact \X Artifact
    /\ torn \subseteq real /\ orderly \in BOOLEAN

(***************************************************************************)
(* Tags.  A propagated row has source 0 in the code, Self here.             *)
(***************************************************************************)
RowOf(tx, a, t) == {r \in tx : r.rid = a /\ r.tag = t}

Put(tx, r) == (tx \ RowOf(tx, r.rid, r.tag)) \cup {r}

(* The doit column of propagate.                                            *)
Doit(tx, t, type, mtime, c) ==
    IF type = 2
    THEN \A r \in RowOf(tx, c, t) : r.src = Self /\ r.mtime < mtime
    ELSE \E r \in RowOf(tx, c, t) : r.src = Self

(* The queue goes down from p through primary children as long as there is  *)
(* something to do; a check-in has one primary parent, so it is reached if  *)
(* the line of primary parents above it is, up to p.                        *)
Reached(tx, links, t, type, mtime, p) ==
    LET From[c \in Artifact] ==
            /\ Deck[c].P # << >> /\ <<Deck[c].P[1], c>> \in links
            /\ Doit(tx, t, type, mtime, c)
            /\ Deck[c].P[1] = p \/ From[Deck[c].P[1]]
    IN  {c \in Artifact : From[c]}

propagate(tx, links, t, type, orig, mtime, value, p) ==
    LET reached == Reached(tx, links, t, type, mtime, p)
        kept == {r \in tx : r.tag # t \/ r.rid \notin reached}
    IN  IF type = 2
        THEN kept \cup {[rid |-> c, tag |-> t, type |-> 2, src |-> Self, orig |-> orig,
                         value |-> value, mtime |-> mtime] : c \in reached}
        ELSE kept

ApplyTag(tx, links, target, src, card, mtime) ==
    LET row == [rid |-> target, tag |-> card.name, type |-> card.type, src |-> src,
                orig |-> target, value |-> card.value, mtime |-> mtime]
    IN  IF card.type # 1
        THEN propagate(Put(tx, row), links, card.name, card.type, target, mtime, card.value, target)
        ELSE Put(tx, row)

(* MUTANT: a child does not take over what has been set on its parent.      *)
PropagateNothing(tx, links, p) == tx

PropagateAll(tx, links, p) ==
    FoldSet(LAMBDA r, acc : propagate(acc, links, r.tag, IF r.type = 1 THEN 0 ELSE r.type,
                                      r.orig, r.mtime, r.value, p),
            tx, {r \in tx : r.rid = p})

InlineTags(tx, links, a) ==
    FoldSet(LAMBDA card, acc : ApplyTag(acc, links, a, a, card, Deck[a].D),
            tx, {card \in Deck[a].T : card.uuid = Self})

ControlTags(tx, links, a, present) ==
    FoldSet(LAMBDA card, acc : ApplyTag(acc, links, card.uuid, a, card, Deck[a].D),
            tx, {card \in Deck[a].T : card.uuid \in present})

(* applyInlineTags, and the end of Checkin.                                 *)
TagsOfCheckin(tx, links, a, present) ==
    LET own == InlineTags(tx, links, a) IN
    IF Deck[a].P # << >> /\ Deck[a].P[1] \in present
    THEN PropagateAll(own, links, Deck[a].P[1]) ELSE own

NamesIn(a) == {card.name : card \in Deck[a].T}

(***************************************************************************)
(* Artifacts arrive (storeReceivedFile, StorePhantom), or are made here.    *)
(***************************************************************************)
Arrive(a) ==
    /\ a \in world \ Local /\ a \notin real
    /\ rows' = IF a \in Rows THEN rows ELSE Append(rows, a)
    /\ real' = real \cup {a}
    /\ UNCHANGED <<world, tables, sweep, todo, untagged, boundVars, observers>>

Phantom(a) ==
    /\ a \in world \ Local /\ a \notin Rows
    /\ phantoms < MaxPhantoms /\ phantoms' = phantoms + 1
    /\ rows' = Append(rows, a)
    /\ UNCHANGED <<world, real, tables, sweep, todo, untagged, crashes, rebuilds, observers>>

(* The tables of crosslinkCheckinTables and of Checkin's transaction, given *)
(* the rows that are there.                                                 *)

Links(a, present) == {<<p, a>> : p \in Parents(a) \cap present}

(* MUTANT: a merge leaves its second parent in the leaf table.              *)
LeafTablePrimary(a, present) ==
    (leaf \cup {a}) \ {p \in present : IsPrimary(p, a)}

LeafTable(a, present) == (leaf \cup {a}) \ (Parents(a) \cap present)

(* The check-ins that are linked and do not have their tags yet.            *)
Pending == untagged \cup {a \in Checkins : <<a, "tags">> \in todo}

LinkTables(a, present) ==
    /\ event' = [event EXCEPT ![a] = "ci"]
    /\ plink' = plink \cup Links(a, present)
    /\ leaf' = LeafTable(a, present)
    /\ mlink' = mlink \cup {<<a, f>> : f \in Deck[a].F}
    /\ late' = IF \E c \in Checkins : <<a, c>> \in plink THEN late \cup {a} ELSE late
    /\ early' = early \cup {<<p, a>> : p \in Parents(a) \ present}
    /\ orderly' = (orderly /\ \A p \in Parents(a) : event[p] = "ci" /\ p \notin Pending)
    /\ UNCHANGED <<tagnames, tagxref, attachment, isLatest, forumpost, forced, torn>>

(* Checkin: files and manifest are stored, the parents are there.  Storing  *)
(* a file that has a row leaves it alone, so over a phantom the R-card      *)
(* cannot be computed and nothing is done.                                  *)
Checkin(a) ==
    /\ a \in (world \cap Local \cap Checkins) \ real
    /\ Parents(a) \cup Deck[a].B \subseteq real
    /\ Deck[a].F \cap Rows \subseteq real
    /\ LET new == SetToSeq((Deck[a].F \cup {a}) \ Rows) IN rows' = rows \o new
    /\ real' = real \cup Deck[a].F \cup {a}
    /\ LinkTables(a, Rows)
    /\ untagged' = untagged \cup {a}
    /\ UNCHANGED <<world, sweep, todo, boundVars>>

(* The tags of a check-in, in calls of their own.                           *)
ApplyTagsOf(a) ==
    /\ tagnames' = tagnames \cup NamesIn(a)
    /\ tagxref' = TagsOfCheckin(tagxref, plink, a, Rows)
    /\ UNCHANGED <<event, plink, leaf, mlink, attachment, isLatest, forumpost>>

TagCheckin(a) ==
    /\ a \in untagged
    /\ untagged' = untagged \ {a}
    /\ ApplyTagsOf(a)
    /\ UNCHANGED <<world, rows, real, sweep, todo, boundVars, observers>>

(* A control that is applied although it has been applied before, or whose  *)
(* target is missing or comes out of turn.                                  *)
OutOfTurn(a) ==
    \/ \E card \in Deck[a].T :
          card.uuid \notin real \/ event[card.uuid] = "none" \/ card.uuid \in Pending
    \/ \E b \in real : /\ Deck[b].kind = "control" /\ b # a
                       /\ \E c \in Deck[b].T, d \in Deck[a].T : c.name = d.name
                       /\ \/ event[b] = "none" /\ ~\E r \in tagxref : r.src = b
                          \/ Deck[b].D >= Deck[a].D

(* AddTag: no event row; a target without a row is an error.                *)
AddTag(a) ==
    /\ a \in (world \cap Local) \ real /\ Deck[a].kind = "control"
    /\ \A card \in Deck[a].T : card.uuid \in Rows
    /\ rows' = Append(rows, a) /\ real' = real \cup {a}
    /\ tagnames' = tagnames \cup NamesIn(a)
    /\ tagxref' = ControlTags(tagxref, plink, a, Rows)
    /\ orderly' = (orderly /\ ~OutOfTurn(a))
    /\ UNCHANGED <<world, event, plink, leaf, mlink, attachment, isLatest, forumpost, sweep, todo,
                   untagged, boundVars, late, early, forced, torn>>

(***************************************************************************)
(* Crosslink: the candidates, then one after the other in rid order.        *)
(***************************************************************************)
IsCandidate(a) ==
    /\ a \in real /\ Deck[a].kind # "file"
    /\ event[a] = "none" /\ \A r \in tagxref : r.src # a
    /\ a \notin attachment /\ \A fp \in forumpost : fp[1] # a

(* MUTANT: a sweep looks only at the row that came last.                    *)
CrosslinkLast ==
    /\ sweep = {} /\ todo = {} /\ rows # << >> /\ IsCandidate(Last(rows))
    /\ sweep' = {Last(rows)}
    /\ UNCHANGED <<world, rows, real, tables, todo, untagged, boundVars, observers>>

Crosslink ==
    /\ sweep = {} /\ todo = {}
    /\ sweep' = {a \in real : IsCandidate(a)}
    /\ sweep' # {}
    /\ UNCHANGED <<world, rows, real, tables, todo, untagged, boundVars, observers>>

(* MUTANT: a check-in is linked whatever it lacks.                          *)
NothingMissing(a) == {}

missingCheckinRefs(a) == (Deck[a].B \cup Deck[a].F) \ real

Rid(a) == CHOOSE i \in DOMAIN rows : rows[i] = a

(* The first statement for the next artifact of the sweep, a later one, and *)
(* the last.                                                                *)
Begins(a, kind) ==
    /\ a \in sweep /\ todo = {} /\ Deck[a].kind = kind
    /\ \A b \in sweep : Rid(a) <= Rid(b)
    /\ sweep' = sweep \ {a}
    /\ UNCHANGED <<world, rows, real, untagged, boundVars>>

Goes(a, statement) ==
    /\ <<a, statement>> \in todo
    /\ UNCHANGED <<world, rows, real, sweep, untagged, boundVars>>

(* What is torn is mended when it is done again, or when a ticket or an     *)
(* attachment of the same target is done after it.                          *)
Mends(a, b) ==
    \/ b = a
    \/ /\ Deck[a].kind \in {"ticket", "attachment"} /\ Deck[b].kind = Deck[a].kind
       /\ Deck[b].id = Deck[a].id

Ends(a) ==
    /\ todo' = {}
    /\ torn' = {b \in torn : ~Mends(a, b)}
    /\ UNCHANGED <<late, early, forced, orderly>>

Continues(a, statement) == todo' = {<<a, statement>>}

(* crosslinkCheckin, applyInlineTags                                        *)
Defer(a) ==
    /\ Begins(a, "checkin") /\ missingCheckinRefs(a) # {}
    /\ UNCHANGED <<tables, todo, observers>>

LinkCheckin(a) ==
    /\ Begins(a, "checkin") /\ missingCheckinRefs(a) = {}
    /\ LinkTables(a, Rows)
    /\ Continues(a, "tags")

TagLinked(a) ==
    /\ Goes(a, "tags")
    /\ ApplyTagsOf(a)
    /\ Ends(a)

(* crosslinkControl: the tags, then the event row.                          *)
ApplyControl(a) ==
    /\ Begins(a, "control")
    /\ tagnames' = tagnames \cup {card.name : card \in {c \in Deck[a].T : c.uuid \in Rows}}
    /\ tagxref' = ControlTags(tagxref, plink, a, Rows)
    /\ orderly' = (orderly /\ ~OutOfTurn(a))
    /\ Continues(a, "event")
    /\ UNCHANGED <<event, plink, leaf, mlink, attachment, isLatest, forumpost,
                   late, early, forced, torn>>

(* addFWTPlink of a page, a tech note or a post: links to the parents that  *)
(* are there, and the tags of the primary one.                              *)
FWTPlink(a) == plink \cup Links(a, Rows)
FWTTags(a) ==
    IF \E p \in Rows : IsPrimary(p, a)
    THEN PropagateAll(tagxref, FWTPlink(a), Deck[a].P[1]) ELSE tagxref

addFWTPlink(a) ==
    /\ \E kind \in {"wiki", "technote", "forum"} :
         Begins(a, kind) /\ Continues(a, IF kind = "forum" THEN "post" ELSE "own")
    /\ plink' = FWTPlink(a)
    /\ tagxref' = FWTTags(a)
    /\ UNCHANGED <<event, leaf, mlink, tagnames, attachment, isLatest, forumpost, observers>>

(* The singleton tag wiki-, tkt- or event- of a page, a ticket or a note.   *)
OwnTag(kind, a) == [name |-> <<kind, Deck[a].id>>, type |-> 1, value |-> Deck[a].id, uuid |-> Self]

ApplyOwnTag(kind, a) ==
    /\ tagxref' = ApplyTag(tagxref, plink, a, a, OwnTag(kind, a), Deck[a].D)
    /\ tagnames' = tagnames \cup {<<kind, Deck[a].id>>}
    /\ UNCHANGED <<event, plink, leaf, mlink, attachment, isLatest, forumpost, observers>>

TagWiki(a) ==
    /\ Goes(a, "own") /\ Deck[a].kind = "wiki"
    /\ ApplyOwnTag("wiki", a)
    /\ Continues(a, "event")

TagTechnote(a) ==
    /\ Goes(a, "own") /\ Deck[a].kind = "technote"
    /\ ApplyOwnTag("event", a)
    /\ Continues(a, "older")

TagTicket(a) ==
    /\ Begins(a, "ticket")
    /\ ApplyOwnTag("tkt", a)
    /\ Continues(a, "retype")

(* crosslinkEvent: only the latest version of a tech note keeps an event    *)
(* row; the older rows are deleted before the new one is written.           *)
Versions(tx, a) == {r.rid : r \in {s \in tx : s.tag = <<"event", Deck[a].id>>}}

(* MUTANT: a newer version does not stop an older one.                      *)
NoneSubsequent(tx, a) == {}

Subsequent(tx, a) == {v \in Versions(tx, a) \ {a} : Deck[v].D >= Deck[a].D}

Older(a) ==
    {b \in Versions(tagxref, a) :
        Deck[a].P # << >> /\ Deck[b].kind = "technote" /\ event[b] = "e"}

DropOlder(a) ==
    /\ Goes(a, "older") /\ Subsequent(tagxref, a) = {}
    /\ event' = [b \in Artifact |-> IF b \in Older(a) THEN "none" ELSE event[b]]
    /\ Continues(a, "event")
    /\ UNCHANGED <<plink, leaf, mlink, tagnames, tagxref, attachment, isLatest, forumpost, observers>>

IsOlder(a) ==
    /\ Goes(a, "older") /\ Subsequent(tagxref, a) # {}
    /\ Continues(a, "retype")
    /\ UNCHANGED <<tables, observers>>

(* crosslinkAttachment: the row, which is the latest among those of its     *)
(* target only by the next statement, then the event.                       *)
InsertAttachment(a) ==
    /\ Begins(a, "attachment")
    /\ attachment' = attachment \cup {a}
    /\ Continues(a, "latest")
    /\ UNCHANGED <<event, plink, leaf, mlink, tagnames, tagxref, isLatest, forumpost, observers>>

LatestOf(all, a) ==
    {b \in all : \/ Deck[b].id # Deck[a].id /\ b \in isLatest
                 \/ /\ Deck[b].id = Deck[a].id
                    /\ \A c \in all : Deck[c].id = Deck[b].id => Deck[c].D <= Deck[b].D}

MarkLatest(a) ==
    /\ Goes(a, "latest")
    /\ isLatest' = LatestOf(attachment, a)
    /\ Continues(a, "event")
    /\ UNCHANGED <<event, plink, leaf, mlink, tagnames, tagxref, attachment, forumpost, observers>>

(* crosslinkForum                                                           *)
PostForum(a) ==
    /\ Goes(a, "post")
    /\ forumpost' = forumpost \cup
         {<<a, IF Deck[a].G \subseteq Rows /\ Deck[a].G # {} THEN CHOOSE g \in Deck[a].G : TRUE ELSE a>>}
    /\ Continues(a, "event")
    /\ UNCHANGED <<event, plink, leaf, mlink, tagnames, tagxref, attachment, isLatest, observers>>

(* Without a ticket or a tech note of that name the target is a wiki page.  *)
AttachType(id) ==
    IF <<"tkt", id>> \in tagnames THEN "t"
    ELSE IF <<"event", id>> \in tagnames THEN "e" ELSE "w"

TypeOfEvent(a) ==
    CASE Deck[a].kind = "control" -> "g"
      [] Deck[a].kind = "wiki" -> "w"
      [] Deck[a].kind = "forum" -> "f"
      [] Deck[a].kind = "technote" -> "e"
      [] OTHER -> AttachType(Deck[a].id)

WriteEvent(a) ==
    /\ Goes(a, "event")
    /\ event' = [event EXCEPT ![a] = TypeOfEvent(a)]
    /\ IF Deck[a].kind = "technote"
       THEN Continues(a, "retype") /\ UNCHANGED observers
       ELSE Ends(a)
    /\ UNCHANGED <<plink, leaf, mlink, tagnames, tagxref, attachment, isLatest, forumpost>>

(* updateAttachmentComments: the attachments of a ticket or a tech note,    *)
(* each in a statement.                                                     *)
TargetType(a) == IF Deck[a].kind = "ticket" THEN "t" ELSE "e"

Mistyped(a) ==
    {b \in attachment : Deck[b].id = Deck[a].id /\ event[b] \notin {"none", TargetType(a)}}

Retype(a, b) ==
    /\ Goes(a, "retype") /\ b \in Mistyped(a)
    /\ event' = [event EXCEPT ![b] = TargetType(a)]
    /\ UNCHANGED <<plink, leaf, mlink, tagnames, tagxref, attachment, isLatest, forumpost,
                   todo, observers>>

Retyped(a) ==
    /\ Goes(a, "retype") /\ Mistyped(a) = {}
    /\ Ends(a)
    /\ UNCHANGED tables

(***************************************************************************)
(* Rebuild, one transaction: check-ins, tags and leaves from the content.   *)
(***************************************************************************)
RealCheckins == real \cap Checkins
AllLinks == UNION {Links(a, Rows) : a \in RealCheckins}
RebuiltTags ==
    LET inline == FoldLeft(LAMBDA acc, a : IF a \in RealCheckins
                                           THEN InlineTags(acc, AllLinks, a) ELSE acc, {}, rows)
    IN  FoldLeft(LAMBDA acc, a : IF a \in real /\ Deck[a].kind = "control"
                                 THEN ControlTags(acc, AllLinks, a, Rows) ELSE acc, inline, rows)

(* Files that are the same in the primary parent are left out of mlink.     *)
ParentFiles(a) ==
    IF Deck[a].P # << >> /\ Deck[a].P[1] \in real THEN Deck[Deck[a].P[1]].F ELSE {}

(* rebuildLeaves, computeExpectedLeaves                                     *)
ExpectedLeaves(ev, links) ==
    {a \in Checkins : ev[a] = "ci" /\ \A l \in links : l[1] # a}

Rebuild ==
    /\ rebuilds < MaxRebuilds /\ rebuilds' = rebuilds + 1
    /\ sweep = {} /\ todo = {} /\ untagged = {}
    /\ event' = [a \in Artifact |-> IF a \in RealCheckins THEN "ci" ELSE "none"]
    /\ plink' = AllLinks
    /\ mlink' = UNION {{<<a, f>> : f \in (Deck[a].F \ ParentFiles(a)) \cap Rows} : a \in RealCheckins}
    /\ tagxref' = RebuiltTags
    /\ tagnames' = tagnames \cup UNION {NamesIn(a) : a \in real}
    /\ leaf' = ExpectedLeaves(event', plink')
    /\ late' = {}
    /\ early' = UNION {{<<p, a>> : p \in Parents(a) \ Rows} : a \in RealCheckins}
    /\ forced' = {a \in RealCheckins : missingCheckinRefs(a) # {}}
    /\ torn' = {a \in torn : Deck[a].kind = "attachment"}
    /\ orderly' = \A a \in RealCheckins : Parents(a) \subseteq RealCheckins
    /\ UNCHANGED <<world, rows, real, attachment, isLatest, forumpost, sweep, todo, untagged,
                   phantoms, crashes>>

(* The process of the sweep dies, or that of a Checkin before its tags.     *)
CrashSweep ==
    /\ crashes < MaxCrashes /\ crashes' = crashes + 1
    /\ sweep # {} \/ todo # {}
    /\ sweep' = {} /\ todo' = {}
    /\ torn' = torn \cup {t[1] : t \in todo}
    /\ orderly' = (orderly /\ \A a \in Checkins : <<a, "tags">> \notin todo)
    /\ UNCHANGED <<world, rows, real, tables, untagged, phantoms, rebuilds, late, early, forced>>

CrashCheckin(a) ==
    /\ crashes < MaxCrashes /\ crashes' = crashes + 1
    /\ a \in untagged /\ untagged' = untagged \ {a}
    /\ orderly' = FALSE
    /\ UNCHANGED <<world, rows, real, tables, sweep, todo, phantoms, rebuilds,
                   late, early, forced, torn>>

Init ==
    /\ world \in Worlds
    /\ rows = << >> /\ real = {}
    /\ event = [a \in Artifact |-> "none"]
    /\ plink = {} /\ leaf = {} /\ mlink = {} /\ tagnames = {} /\ tagxref = {}
    /\ attachment = {} /\ isLatest = {} /\ forumpost = {}
    /\ sweep = {} /\ todo = {} /\ untagged = {}
    /\ phantoms = 0 /\ crashes = 0 /\ rebuilds = 0
    /\ late = {} /\ early = {} /\ forced = {}
    /\ torn = {} /\ orderly = TRUE

Begin(a) ==
    \/ Defer(a) \/ LinkCheckin(a) \/ ApplyControl(a) \/ addFWTPlink(a) \/ TagTicket(a)
    \/ InsertAttachment(a)

Go(a) ==
    \/ TagLinked(a) \/ TagWiki(a) \/ TagTechnote(a) \/ DropOlder(a) \/ IsOlder(a)
    \/ MarkLatest(a) \/ PostForum(a) \/ WriteEvent(a) \/ Retyped(a)
    \/ \E b \in Mistyped(a) : Retype(a, b)

SweepStep ==
    \/ \E a \in sweep : Begin(a)
    \/ \E t \in todo : Go(t[1])

Next ==
    \/ \E a \in world : Arrive(a) \/ Phantom(a) \/ Checkin(a) \/ AddTag(a)
    \/ \E a \in untagged : TagCheckin(a) \/ CrashCheckin(a)
    \/ Crosslink \/ SweepStep \/ Rebuild \/ CrashSweep

Spec == Init /\ [][Next]_vars

(* A sweep goes on to its end, and every session ends with a sweep.         *)
FairSpec == Spec /\ WF_vars(Crosslink) /\ WF_vars(SweepStep)

(***************************************************************************)
(* Properties.                                                              *)
(***************************************************************************)
(* A check-in with an event row has its baseline and its files, each with   *)
(* an mlink row unless a rebuild found it unchanged: a check-in that comes  *)
(* before its files is put off as a whole (missingCheckinRefs).             *)
LinkedIsComplete ==
    \A a \in Checkins \ forced : event[a] = "ci" =>
        /\ Deck[a].B \cup Deck[a].F \subseteq real
        /\ \A f \in Deck[a].F \ ParentFiles(a) : <<a, f>> \in mlink

(* The leaf table holds every check-in without children and, besides them,  *)
(* only check-ins that were linked after a child of theirs (updateLeafTable, *)
(* checkLeaves); a rebuild removes those.  A linked check-in has a plink    *)
(* row for every parent that is known, unless the parent was not when the   *)
(* check-in was linked (insertCheckinPlinks, checkPlink).                   *)
HistoryRight ==
    /\ ExpectedLeaves(event, plink) \subseteq leaf
    /\ leaf \ ExpectedLeaves(event, plink) \subseteq late
    /\ \A a \in Checkins : event[a] = "ci" =>
         \A p \in Parents(a) \cap Rows : <<p, a>> \in plink \cup early

(* When all is linked, and parents were linked before children and controls *)
(* applied once and in the order of their times, the tags are those that a  *)
(* rebuild would make of the same artifacts: propagation downwards when a   *)
(* tag is set, and from the parent when a child is linked, come to the same *)
(* (propagate, PropagateAll, rebuildTags).  At all times the tables name    *)
(* only artifacts with rows, and tagxref has one row for a rid and tag.     *)
TagsAsRebuilt ==
    /\ TypeOK
    /\ orderly /\ sweep = {} /\ todo = {} /\ untagged = {} /\ (\A a \in real : ~IsCandidate(a))
         => {r \in tagxref : r.rid \in Checkins} = {r \in RebuiltTags : r.rid \in Checkins}

(* What a sweep is at, or has died at.                                      *)
Unfinished == torn \cup {t[1] : t \in todo}

(* Of the linked versions of a tech note only the newest has an event row   *)
(* (crosslinkEvent).  One that is newer than what is shown is missing only  *)
(* behind a version, as new as itself or newer, with which a sweep is not   *)
(* done: once that has its tag it is no candidate any more, and if the      *)
(* sweep dies there, what was shown before stays.                           *)
NewestTechnotes ==
    \A a \in Artifact : Deck[a].kind = "technote" /\ event[a] = "e" =>
        \A v \in Versions(tagxref, a) :
            \/ Deck[v].D <= Deck[a].D
            \/ \E u \in Versions(tagxref, a) \cap Unfinished : Deck[u].D >= Deck[v].D

(* The events of attachments name the kind of what they are attached to,    *)
(* whichever of the two came first (updateAttachmentComments), except those *)
(* of a ticket or tech note at which a sweep is or has died.                *)
AttachmentsTyped ==
    \A a \in attachment :
        \/ event[a] \in {"none", AttachType(Deck[a].id)}
        \/ \E u \in Unfinished : Deck[u].kind \in {"ticket", "technote"} /\ Deck[u].id = Deck[a].id

(* Of the attachments of a target the newest is the latest                  *)
(* (crosslinkAttachment), except where a sweep is at one of them, or has    *)
(* died at one and no other has come since.                                 *)
NewestAttachments ==
    \A a \in attachment :
        \/ a \in isLatest <=>
              \A b \in attachment : Deck[b].id = Deck[a].id => Deck[b].D <= Deck[a].D
        \/ \E u \in Unfinished : Deck[u].kind = "attachment" /\ Deck[u].id = Deck[a].id

(* In whatever order versions and attachments arrive, and wherever a sweep  *)
(* dies, what is shown is the newest of them, but for what was cut short.   *)
NewestShown == NewestTechnotes /\ AttachmentsTyped /\ NewestAttachments

(* Whatever has all that it needs is linked in the end, deferred check-ins  *)
(* whose files came later included (Crosslink's query finds them again).    *)
EventuallyLinked ==
    <>[](\A a \in real : IsCandidate(a) => missingCheckinRefs(a) # {})
=============================================================================
