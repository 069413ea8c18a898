-------------------------- MODULE CrosslinkProofs --------------------------
(***************************************************************************)
(* The history of check-ins that Crosslink, Checkin and Rebuild keep is     *)
(* right and complete, and of tech notes and attachments the newest are     *)
(* shown, for any artifacts, in whatever order they come.                   *)
(***************************************************************************)
EXTENDS Crosslink, FiniteSetTheorems, NaturalsInduction, WellFoundedInduction, TLAPS

(* P-cards stay within a kind as far as check-ins are concerned: the parent *)
(* of a page, a tech note or a post is no check-in.                         *)
HistoriesApart == \A a \in Artifact \ Checkins : Parents(a) \cap Checkins = {}

(* The statements that an artifact of a kind meets.                         *)
Fits(a, s) ==
    /\ s = "tags" <=> Deck[a].kind = "checkin"
    /\ s = "own" => Deck[a].kind \in {"wiki", "technote"}
    /\ s = "older" => Deck[a].kind = "technote"
    /\ s = "post" => Deck[a].kind = "forum"
    /\ s = "latest" => Deck[a].kind = "attachment"
    /\ s = "event" => Deck[a].kind # "ticket"
    /\ s = "retype" => Deck[a].kind \in {"ticket", "technote"}

TodoFits == todo = {} \/ \E a \in Artifact, s \in Statements : todo = {<<a, s>>} /\ Fits(a, s)

(* What can be linked are artifacts, and only attachments are attached.     *)
Shape ==
    /\ world \subseteq Artifact
    /\ rows \in Seq(Artifact) /\ real \subseteq Rows
    /\ sweep \subseteq Artifact /\ untagged \subseteq Artifact
    /\ event \in [Artifact -> EventType]
    /\ attachment \subseteq {a \in Artifact : Deck[a].kind = "attachment"}
    /\ TodoFits

(* Links go from a child to its parents.                                    *)
LinksSound == \A l \in plink : \E a \in Artifact : \E p \in Parents(a) : l = <<p, a>>

LeavesLinked == leaf \subseteq {a \in Checkins : event[a] = "ci"}

(* The parents of a linked check-in are linked to it, or had no row then.   *)
ParentsLinked ==
    \A a \in Checkins : event[a] = "ci" => \A p \in Parents(a) : <<p, a>> \in plink \cup early

LeavesRight ==
    /\ ExpectedLeaves(event, plink) \subseteq leaf
    /\ leaf \ ExpectedLeaves(event, plink) \subseteq late

HistoryInv == Shape /\ LinksSound /\ LeavesLinked /\ LeavesRight /\ ParentsLinked

CompleteInv == Shape /\ LinkedIsComplete

(* A step that links no check-in.                                           *)
Quiet ==
    /\ \A a \in Checkins : event'[a] = event[a]
    /\ plink \subseteq plink'
    /\ \A l \in plink' \ plink :
          \E a \in Artifact \ Checkins : \E p \in Parents(a) : l = <<p, a>>
    /\ UNCHANGED <<leaf, mlink, late, early, forced>>
    /\ real \subseteq real'

-----------------------------------------------------------------------------
LEMMA DeckFacts ==
    ASSUME NEW a \in Artifact
    PROVE  /\ Deck[a] \in DeckType /\ Parents(a) \subseteq Artifact
           /\ Deck[a].F \subseteq Artifact /\ Deck[a].B \subseteq Artifact
           /\ IsFiniteSet(Deck[a].F)
  <1>1. Deck[a] \in DeckType
    BY ConstantsAssumption
  <1>2. Deck[a].P \in Seq(Artifact) /\ Deck[a].F \subseteq Artifact /\ Deck[a].B \subseteq Artifact
    BY <1>1 DEF DeckType
  <1> QED BY <1>1, <1>2, ConstantsAssumption DEF Parents, ToSet

LEMMA AppendRows ==
    ASSUME rows \in Seq(Artifact), NEW a \in Artifact, rows' = Append(rows, a)
    PROVE  rows' \in Seq(Artifact) /\ Rows' = Rows \cup {a}
  BY DEF Rows, ToSet

(* The sequence of a finite set has all its elements.                       *)
LEMMA SeqOfSet ==
    ASSUME NEW S, IsFiniteSet(S)
    PROVE  SetToSeq(S) \in Seq(S) /\ ToSet(SetToSeq(S)) = S
  <1> DEFINE n == Cardinality(S)
  <1>1. n \in Nat /\ \E f \in [1..n -> S] : IsInjective(f)
    BY FS_CardinalityType DEF ExistsBijection, Bijection, Injection
  <1>2. SetToSeq(S) \in [1..n -> S] /\ IsInjective(SetToSeq(S))
    BY <1>1 DEF SetToSeq
  <1>3. PICK f \in [1..n -> S] : f = SetToSeq(S) /\ IsInjective(f)
    BY <1>2
  <1>4. f \in Seq(S)
    BY <1>1
  <1>5. {f[i] : i \in 1..n} = S
    <2>1. {f[i] : i \in 1..n} \in SUBSET S
      OBVIOUS
    <2>2. IsFiniteSet(1..n) /\ Cardinality(1..n) = n
      BY <1>1, FS_Interval
    <2>3. f \in Bijection(1..n, {f[i] : i \in 1..n})
      BY <1>3 DEF Bijection, Injection, Surjection, IsInjective
    <2>4. Cardinality({f[i] : i \in 1..n}) = n
      BY <2>2, <2>3, FS_Bijection DEF ExistsBijection
    <2> QED BY <2>1, <2>4, FS_Subset
  <1>6. ToSet(f) = {f[i] : i \in 1..n}
    BY DEF ToSet
  <1> QED BY <1>3, <1>4, <1>5, <1>6

LEMMA InitShape == Init => Shape
  BY ConstantsAssumption DEF Init, Shape, Rows, ToSet, EventType, TodoFits

LEMMA GoesFacts ==
    ASSUME Shape, NEW a, NEW s, Goes(a, s)
    PROVE  /\ a \in Artifact /\ s \in Statements /\ Fits(a, s) /\ todo = {<<a, s>>}
           /\ UNCHANGED <<rows, real, sweep>>
  BY DEF Shape, TodoFits, Goes

(* A step keeps the shape of the tables, and it links no check-in, links    *)
(* one with or without a sweep, or is a rebuild.                            *)
LEMMA NextShape ==
    ASSUME Shape, [Next]_vars
    PROVE  /\ Shape'
           /\ \/ Quiet
              \/ Rebuild
              \/ \E a \in Artifact : LinkCheckin(a)
              \/ \E a \in Artifact : Checkin(a)
  <1> USE DEF tables, boundVars, observers
  <1>0. /\ world \subseteq Artifact
        /\ rows \in Seq(Artifact) /\ real \subseteq Rows /\ Rows \subseteq Artifact
        /\ real \subseteq Artifact
        /\ sweep \subseteq Artifact /\ event \in [Artifact -> EventType]
        /\ attachment \subseteq {a \in Artifact : Deck[a].kind = "attachment"} /\ TodoFits
    BY DEF Shape, Rows, ToSet
  <1>a. \A a \in Artifact : a \in Checkins <=> Deck[a].kind = "checkin"
    BY DEF Checkins
  <1>b. world' \subseteq Artifact /\ untagged' \subseteq Artifact
    <2>1. world' = world /\ untagged' \subseteq untagged \cup Checkins
      BY DEF Next, SweepStep, Begin, Go, vars, Arrive, Phantom, Checkin, AddTag, Crosslink, Begins,
             Goes, Defer, LinkCheckin, ApplyControl, addFWTPlink, TagTicket, InsertAttachment,
             TagLinked, TagWiki, TagTechnote, DropOlder, IsOlder, MarkLatest, PostForum, WriteEvent,
             Retype, Retyped, TagCheckin, Rebuild, CrashSweep, CrashCheckin
    <2> QED BY <1>0, <2>1 DEF Checkins, Shape
  <1>c. todo' = todo => TodoFits'
    BY <1>0 DEF TodoFits
  <1>d. ASSUME NEW a \in Artifact, NEW s \in Statements, Fits(a, s), Continues(a, s) PROVE TodoFits'
    BY <1>d DEF TodoFits, Continues
  <1>e. ASSUME NEW a, Ends(a) PROVE TodoFits' /\ UNCHANGED <<late, early, forced>>
    BY <1>e DEF TodoFits, Ends
  <1>1. ASSUME NEW a \in Artifact, Arrive(a) PROVE Shape' /\ Quiet
    <2>1. UNCHANGED <<tables, sweep, todo, observers>> /\ real' = real \cup {a}
      BY <1>1 DEF Arrive
    <2>2. rows' \in Seq(Artifact) /\ real' \subseteq Rows'
      <3>1. CASE a \in Rows
        <4>1. rows' = rows BY <1>1, <3>1 DEF Arrive
        <4> QED BY <1>0, <2>1, <3>1, <4>1 DEF Rows
      <3>2. CASE a \notin Rows
        <4>1. rows' = Append(rows, a) BY <1>1, <3>2 DEF Arrive
        <4> QED BY <1>0, <2>1, <4>1, AppendRows
      <3> QED BY <3>1, <3>2
    <2> QED BY <1>0, <1>b, <1>c, <2>1, <2>2 DEF Shape, Quiet
  <1>2. ASSUME NEW a \in Artifact, Phantom(a) PROVE Shape' /\ Quiet
    <2>1. UNCHANGED <<real, tables, sweep, todo, observers>> /\ rows' = Append(rows, a)
      BY <1>2 DEF Phantom
    <2>2. rows' \in Seq(Artifact) /\ real' \subseteq Rows'
      BY <1>0, <2>1, AppendRows
    <2> QED BY <1>0, <1>b, <1>c, <2>1, <2>2 DEF Shape, Quiet
  <1>3. ASSUME NEW a \in Artifact, Checkin(a) PROVE Shape'
    <2> DEFINE new == SetToSeq((Deck[a].F \cup {a}) \ Rows)
    <2>1. /\ UNCHANGED <<attachment, sweep, todo>> /\ rows' = rows \o new
          /\ real' = real \cup Deck[a].F \cup {a} /\ event' = [event EXCEPT ![a] = "ci"]
      BY <1>3 DEF Checkin, LinkTables
    <2>2. IsFiniteSet((Deck[a].F \cup {a}) \ Rows)
      BY DeckFacts, FS_AddElement, FS_Difference
    <2>3. new \in Seq((Deck[a].F \cup {a}) \ Rows) /\ ToSet(new) = (Deck[a].F \cup {a}) \ Rows
      BY <2>2, SeqOfSet
    <2>4. new \in Seq(Artifact)
      <3>1. (Deck[a].F \cup {a}) \ Rows \subseteq Artifact
        BY DeckFacts
      <3> QED BY <2>3, <3>1
    <2> HIDE DEF new
    <2>5. rows' \in Seq(Artifact) /\ Rows' = Rows \cup ToSet(new)
      <3>1. rows' \in Seq(Artifact) /\ Len(rows') = Len(rows) + Len(new)
        BY <1>0, <2>1, <2>4
      <3>2. \A i \in 1..Len(rows) : rows'[i] = rows[i]
        BY <1>0, <2>1, <2>4
      <3>3. \A i \in 1..Len(new) : rows'[Len(rows) + i] = new[i]
        BY <1>0, <2>1, <2>4
      <3>4. \A i \in 1..Len(rows') : i \in 1..Len(rows) \/ i - Len(rows) \in 1..Len(new)
        BY <1>0, <2>4, <3>1
      <3>5. \A i \in 1..Len(rows') : rows'[i] \in Rows \cup ToSet(new)
        <4> SUFFICES ASSUME NEW i \in 1..Len(rows') PROVE rows'[i] \in Rows \cup ToSet(new)
          OBVIOUS
        <4>1. CASE i \in 1..Len(rows)
          BY <1>0, <3>2, <4>1 DEF Rows, ToSet
        <4>2. CASE i - Len(rows) \in 1..Len(new)
          <5>1. PICK j \in 1..Len(new) : j = i - Len(rows)
            BY <4>2
          <5>2. Len(rows) + j = i
            BY <1>0, <2>4, <3>1, <5>1
          <5>3. rows'[i] = new[j]
            BY <3>3, <5>2
          <5> QED BY <2>4, <5>3 DEF ToSet
        <4> QED BY <3>4, <4>1, <4>2
      <3>6. Rows \subseteq Rows' /\ ToSet(new) \subseteq Rows'
        <4>1. \A i \in 1..Len(rows) : i \in 1..Len(rows')
          BY <1>0, <2>4, <3>1
        <4>2. \A i \in 1..Len(new) : Len(rows) + i \in 1..Len(rows')
          BY <1>0, <2>4, <3>1
        <4>3. Rows \subseteq Rows'
          BY <1>0, <3>1, <3>2, <4>1 DEF Rows, ToSet
        <4>4. ToSet(new) \subseteq Rows'
          <5> SUFFICES ASSUME NEW i \in 1..Len(new) PROVE new[i] \in Rows'
            BY <2>4 DEF ToSet
          <5>1. PICK j \in 1..Len(rows') : j = Len(rows) + i
            BY <4>2
          <5>2. rows'[j] = new[i]
            BY <3>3, <5>1
          <5> QED BY <3>1, <5>2 DEF Rows, ToSet
        <4> QED BY <4>3, <4>4
      <3>7. Rows' \subseteq Rows \cup ToSet(new)
        BY <3>1, <3>5 DEF Rows, ToSet
      <3> QED BY <3>1, <3>6, <3>7
    <2>6. real' \subseteq Rows'
      BY <1>0, <2>1, <2>3, <2>5
    <2> QED BY <1>0, <1>b, <1>c, <2>1, <2>5, <2>6 DEF Shape, EventType
  <1>4. ASSUME NEW a \in Artifact, AddTag(a) PROVE Shape' /\ Quiet
    <2>1. /\ UNCHANGED <<event, plink, leaf, mlink, attachment, sweep, todo, late, early, forced>>
          /\ rows' = Append(rows, a) /\ real' = real \cup {a}
      BY <1>4 DEF AddTag
    <2>2. rows' \in Seq(Artifact) /\ real' \subseteq Rows'
      BY <1>0, <2>1, AppendRows
    <2> QED BY <1>0, <1>b, <1>c, <2>1, <2>2 DEF Shape, Quiet
  <1>5. CASE Crosslink
    BY <1>0, <1>b, <1>c, <1>5 DEF Crosslink, Shape, Quiet, Rows
  <1>6. ASSUME NEW a, NEW kind, Begins(a, kind)
        PROVE  /\ UNCHANGED <<rows, real>> /\ sweep' \subseteq Artifact /\ a \in Artifact
               /\ Deck[a].kind = kind
    BY <1>0, <1>6 DEF Begins
  <1>7. ASSUME NEW a, NEW s, Goes(a, s)
        PROVE  UNCHANGED <<rows, real, sweep>> /\ a \in Artifact /\ s \in Statements /\ Fits(a, s)
    BY <1>7, GoesFacts
  <1>f. ASSUME UNCHANGED <<rows, real>> PROVE rows' \in Seq(Artifact) /\ real' \subseteq Rows'
    BY <1>0, <1>f DEF Rows
  <1>g. ASSUME UNCHANGED <<rows, real, event, attachment, plink, leaf, mlink, late, early, forced>>,
               sweep' \subseteq Artifact, TodoFits'
        PROVE  Shape' /\ Quiet
    BY <1>0, <1>b, <1>f, <1>g DEF Shape, Quiet
  <1>8. ASSUME NEW a, Defer(a) PROVE Shape' /\ Quiet
    BY <1>0, <1>6, <1>8, <1>c, <1>g DEF Defer
  <1>9. ASSUME NEW a, LinkCheckin(a) PROVE Shape' /\ a \in Artifact
    <2>1. /\ UNCHANGED <<rows, real, attachment>> /\ sweep' \subseteq Artifact /\ a \in Artifact
          /\ event' = [event EXCEPT ![a] = "ci"]
      BY <1>6, <1>9 DEF LinkCheckin, LinkTables
    <2>2. TodoFits'
      <3>1. Deck[a].kind = "checkin" /\ Continues(a, "tags")
        BY <1>6, <1>9 DEF LinkCheckin
      <3>2. Fits(a, "tags") /\ "tags" \in Statements
        BY <3>1 DEF Fits, Statements
      <3> QED BY <1>d, <2>1, <3>1, <3>2
    <2> QED BY <1>0, <1>b, <1>f, <2>1, <2>2 DEF Shape, EventType
  <1>10. ASSUME NEW a, ApplyControl(a) PROVE Shape' /\ Quiet
    <2>1. Deck[a].kind = "control" /\ a \in Artifact /\ Continues(a, "event")
      BY <1>6, <1>10 DEF ApplyControl
    <2>2. Fits(a, "event") /\ "event" \in Statements
      BY <2>1 DEF Fits, Statements
    <2>3. TodoFits'
      BY <1>d, <2>1, <2>2
    <2> QED BY <1>6, <1>10, <1>g, <2>3 DEF ApplyControl
  <1>11. ASSUME NEW a, addFWTPlink(a) PROVE Shape' /\ Quiet
    <2>1. PICK kind \in {"wiki", "technote", "forum"} :
             Begins(a, kind) /\ Continues(a, IF kind = "forum" THEN "post" ELSE "own")
      BY <1>11 DEF addFWTPlink
    <2>2. /\ UNCHANGED <<rows, real>> /\ sweep' \subseteq Artifact /\ a \in Artifact
          /\ Deck[a].kind = kind
      BY <1>6, <2>1
    <2>3. TodoFits'
      <3>1. "own" \in Statements /\ "post" \in Statements
        BY DEF Statements
      <3>2. CASE kind = "forum"
        <4>1. Fits(a, "post") BY <2>2, <3>2 DEF Fits
        <4> QED BY <1>d, <2>1, <2>2, <3>1, <3>2, <4>1
      <3>3. CASE kind # "forum"
        <4>1. Fits(a, "own") BY <2>2, <3>3 DEF Fits
        <4> QED BY <1>d, <2>1, <2>2, <3>1, <3>3, <4>1
      <3> QED BY <3>2, <3>3
    <2>4. /\ UNCHANGED <<event, attachment, leaf, mlink, late, early, forced>>
          /\ plink' = FWTPlink(a)
      BY <1>11 DEF addFWTPlink
    <2>5. /\ plink \subseteq plink'
          /\ \A l \in plink' \ plink :
                \E b \in Artifact \ Checkins : \E p \in Parents(b) : l = <<p, b>>
      BY <1>a, <2>2, <2>4 DEF FWTPlink, Links
    <2> QED BY <1>0, <1>b, <1>f, <2>2, <2>3, <2>4, <2>5 DEF Shape, Quiet
  <1>12. ASSUME NEW a, TagTicket(a) PROVE Shape' /\ Quiet
    <2>1. Deck[a].kind = "ticket" /\ a \in Artifact /\ Continues(a, "retype")
      BY <1>6, <1>12 DEF TagTicket
    <2>2. Fits(a, "retype") /\ "retype" \in Statements
      BY <2>1 DEF Fits, Statements
    <2>3. TodoFits'
      BY <1>d, <2>1, <2>2
    <2> QED BY <1>6, <1>12, <1>g, <2>3 DEF TagTicket, ApplyOwnTag
  <1>13. ASSUME NEW a, InsertAttachment(a) PROVE Shape' /\ Quiet
    <2>1. Deck[a].kind = "attachment" /\ a \in Artifact /\ Continues(a, "latest")
      BY <1>6, <1>13 DEF InsertAttachment
    <2>2. Fits(a, "latest") /\ "latest" \in Statements
      BY <2>1 DEF Fits, Statements
    <2>3. TodoFits'
      BY <1>d, <2>1, <2>2
    <2>4. /\ UNCHANGED <<rows, real, event, plink, leaf, mlink, late, early, forced>>
          /\ sweep' \subseteq Artifact /\ attachment' = attachment \cup {a}
      BY <1>6, <1>13 DEF InsertAttachment
    <2> QED BY <1>0, <1>b, <1>f, <2>1, <2>3, <2>4 DEF Shape, Quiet
  <1>14. ASSUME NEW a, TagLinked(a) PROVE Shape' /\ Quiet
    BY <1>0, <1>7, <1>14, <1>e, <1>g DEF TagLinked, ApplyTagsOf
  <1>15. ASSUME NEW a, TagWiki(a) \/ TagTechnote(a) PROVE Shape' /\ Quiet
    <2>1. Goes(a, "own") /\ UNCHANGED <<event, attachment, plink, leaf, mlink, late, early, forced>>
      BY <1>15 DEF TagWiki, TagTechnote, ApplyOwnTag
    <2>2. \/ Deck[a].kind = "wiki" /\ Continues(a, "event")
          \/ Deck[a].kind = "technote" /\ Continues(a, "older")
      BY <1>15 DEF TagWiki, TagTechnote
    <2>3. /\ Deck[a].kind = "wiki" => Fits(a, "event")
          /\ Deck[a].kind = "technote" => Fits(a, "older")
          /\ "event" \in Statements /\ "older" \in Statements
      BY DEF Fits, Statements
    <2>4. a \in Artifact
      BY <1>7, <2>1
    <2>5. TodoFits'
      BY <1>d, <2>2, <2>3, <2>4
    <2> QED BY <1>0, <1>7, <1>g, <2>1, <2>5
  <1>16. ASSUME NEW a, DropOlder(a) PROVE Shape' /\ Quiet
    <2>1. /\ Goes(a, "older") /\ Continues(a, "event")
          /\ UNCHANGED <<attachment, plink, leaf, mlink, late, early, forced>>
          /\ event' = [b \in Artifact |-> IF b \in Older(a) THEN "none" ELSE event[b]]
      BY <1>16 DEF DropOlder
    <2>2. a \in Artifact /\ Fits(a, "older") /\ UNCHANGED <<rows, real, sweep>>
      BY <1>7, <2>1
    <2>3. Fits(a, "event") /\ "event" \in Statements
      BY <2>2 DEF Fits, Statements
    <2>4. TodoFits'
      BY <1>d, <2>1, <2>2, <2>3
    <2>5. event' \in [Artifact -> EventType] /\ \A b \in Checkins : event'[b] = event[b]
      BY <1>0, <2>1 DEF Older, Checkins, EventType
    <2> QED BY <1>0, <1>b, <1>f, <2>1, <2>2, <2>4, <2>5 DEF Shape, Quiet
  <1>17. ASSUME NEW a, IsOlder(a) PROVE Shape' /\ Quiet
    <2>1. /\ Goes(a, "older") /\ Continues(a, "retype") /\ UNCHANGED <<tables, observers>>
      BY <1>17 DEF IsOlder
    <2>2. a \in Artifact /\ Fits(a, "older")
      BY <1>7, <2>1
    <2>3. Fits(a, "retype") /\ "retype" \in Statements
      BY <2>2 DEF Fits, Statements
    <2>4. TodoFits'
      BY <1>d, <2>1, <2>2, <2>3
    <2> QED BY <1>0, <1>7, <1>g, <2>1, <2>4
  <1>18. ASSUME NEW a, MarkLatest(a) \/ PostForum(a) PROVE Shape' /\ Quiet
    <2>1. /\ Goes(a, "latest") \/ Goes(a, "post")
          /\ Continues(a, "event")
          /\ UNCHANGED <<event, attachment, plink, leaf, mlink, late, early, forced>>
      BY <1>18 DEF MarkLatest, PostForum
    <2>2. a \in Artifact /\ (Fits(a, "latest") \/ Fits(a, "post")) /\ UNCHANGED <<rows, real, sweep>>
      BY <1>7, <2>1
    <2>3. todo = {<<a, "latest">>} \/ todo = {<<a, "post">>}
      BY <1>0, <2>1 DEF Goes, TodoFits
    <2>4. TodoFits'
      <3>1. Deck[a].kind # "ticket" /\ Deck[a].kind # "checkin"
        BY <1>18, <2>2, <1>0, <2>1, <2>3 DEF Fits, TodoFits, Goes
      <3>2. Fits(a, "event") /\ "event" \in Statements
        BY <3>1 DEF Fits, Statements
      <3> QED BY <1>d, <2>1, <2>2, <3>2
    <2> QED BY <1>0, <1>g, <2>1, <2>2, <2>4
  <1>19. ASSUME NEW a, WriteEvent(a) PROVE Shape' /\ Quiet
    <2>1. /\ Goes(a, "event") /\ event' = [event EXCEPT ![a] = TypeOfEvent(a)]
          /\ UNCHANGED <<attachment, plink, leaf, mlink>>
      BY <1>19 DEF WriteEvent
    <2>2. a \in Artifact /\ Fits(a, "event") /\ UNCHANGED <<rows, real, sweep>>
      BY <1>7, <2>1
    <2>3. TodoFits' /\ UNCHANGED <<late, early, forced>>
      <3>1. CASE Deck[a].kind = "technote"
        <4>1. Continues(a, "retype") /\ UNCHANGED observers
          BY <1>19, <3>1 DEF WriteEvent
        <4>2. Fits(a, "retype") /\ "retype" \in Statements
          BY <3>1 DEF Fits, Statements
        <4> QED BY <1>d, <2>2, <4>1, <4>2
      <3>2. CASE Deck[a].kind # "technote"
        <4>1. Ends(a)
          BY <1>19, <3>2 DEF WriteEvent
        <4> QED BY <1>e, <4>1
      <3> QED BY <3>1, <3>2
    <2>4. TypeOfEvent(a) \in EventType
      BY DEF TypeOfEvent, AttachType, EventType
    <2>5. a \notin Checkins
      BY <2>2 DEF Fits, Checkins
    <2>6. event' \in [Artifact -> EventType] /\ \A b \in Checkins : event'[b] = event[b]
      BY <1>0, <2>1, <2>4, <2>5 DEF Checkins
    <2> QED BY <1>0, <1>b, <1>f, <2>1, <2>2, <2>3, <2>6 DEF Shape, Quiet
  <1>20. ASSUME NEW a, NEW b \in Mistyped(a), Retype(a, b) PROVE Shape' /\ Quiet
    <2>1. /\ UNCHANGED <<attachment, plink, leaf, mlink, late, early, forced, todo>>
          /\ Goes(a, "retype") /\ event' = [event EXCEPT ![b] = TargetType(a)]
      BY <1>20 DEF Retype
    <2>2. b \in Artifact /\ b \notin Checkins
      BY <1>0 DEF Mistyped, Checkins
    <2>3. TargetType(a) \in EventType
      BY DEF TargetType, EventType
    <2>4. event' \in [Artifact -> EventType] /\ \A c \in Checkins : event'[c] = event[c]
      BY <1>0, <2>1, <2>2, <2>3 DEF Checkins
    <2> QED BY <1>0, <1>7, <1>b, <1>c, <1>f, <2>1, <2>4 DEF Shape, Quiet
  <1>21. ASSUME NEW a, Retyped(a) PROVE Shape' /\ Quiet
    BY <1>0, <1>7, <1>21, <1>e, <1>g DEF Retyped
  <1>22. ASSUME NEW a, TagCheckin(a) \/ CrashCheckin(a) PROVE Shape' /\ Quiet
    BY <1>0, <1>22, <1>c, <1>g DEF TagCheckin, CrashCheckin, ApplyTagsOf
  <1>23. CASE Rebuild
    <2>1. event' \in [Artifact -> EventType]
      BY <1>23 DEF Rebuild, EventType
    <2> QED BY <1>0, <1>b, <1>c, <1>f, <1>23, <2>1 DEF Rebuild, Shape
  <1>24. CASE CrashSweep
    BY <1>24, <1>g DEF CrashSweep, TodoFits
  <1>25. CASE UNCHANGED vars
    BY <1>0, <1>25, <1>c, <1>g DEF vars
  <1>26. ASSUME NEW a \in world, Arrive(a) \/ Phantom(a) \/ Checkin(a) \/ AddTag(a)
         PROVE  a \in Artifact
    BY <1>0
  <1>27. ASSUME NEW a, Begin(a)
         PROVE  Shape' /\ (Quiet \/ \E b \in Artifact : LinkCheckin(b))
    BY <1>27, <1>8, <1>9, <1>10, <1>11, <1>12, <1>13 DEF Begin
  <1>28. ASSUME NEW a, Go(a) PROVE Shape' /\ Quiet
    BY <1>28, <1>14, <1>15, <1>16, <1>17, <1>18, <1>19, <1>20, <1>21 DEF Go
  <1> QED BY <1>1, <1>2, <1>3, <1>4, <1>5, <1>22, <1>23, <1>24, <1>25, <1>26, <1>27, <1>28
          DEF Next, SweepStep

-----------------------------------------------------------------------------
(***************************************************************************)
(* Links and leaves.                                                        *)
(***************************************************************************)
LEMMA QuietHistory ==
    ASSUME HistoriesApart, HistoryInv, Shape', Quiet
    PROVE  HistoryInv'
  <1>1. LinksSound /\ LeavesLinked /\ LeavesRight /\ ParentsLinked
    BY DEF HistoryInv
  <1>2. LinksSound'
    BY <1>1 DEF LinksSound, Quiet
  <1>3. LeavesLinked' /\ ParentsLinked'
    BY <1>1 DEF LeavesLinked, ParentsLinked, Quiet
  <1>4. ExpectedLeaves(event', plink') \subseteq ExpectedLeaves(event, plink)
    BY DEF ExpectedLeaves, Quiet
  <1>5. ASSUME NEW a \in leaf, a \notin ExpectedLeaves(event', plink') PROVE a \in late
    <2>1. a \in Checkins /\ event'[a] = "ci"
      BY <1>1 DEF LeavesLinked, Quiet
    <2>2. PICK l \in plink' : l[1] = a
      BY <1>5, <2>1 DEF ExpectedLeaves
    <2>3. CASE l \in plink
      BY <1>1, <2>2, <2>3 DEF LeavesRight, ExpectedLeaves
    <2>4. CASE l \notin plink
      <3>1. PICK b \in Artifact \ Checkins : \E p \in Parents(b) : l = <<p, b>>
        BY <2>4 DEF Quiet
      <3> QED BY <2>1, <2>2, <3>1 DEF HistoriesApart
    <2> QED BY <2>3, <2>4
  <1>6. LeavesRight'
    BY <1>1, <1>4, <1>5 DEF LeavesRight, Quiet
  <1> QED BY <1>2, <1>3, <1>6 DEF HistoryInv

LEMMA LinkHistory ==
    ASSUME HistoriesApart, HistoryInv, Shape', NEW a \in Checkins, LinkTables(a, Rows)
    PROVE  HistoryInv'
  <1>1. LinksSound /\ LeavesLinked /\ LeavesRight /\ ParentsLinked
        /\ event \in [Artifact -> EventType] /\ a \in Artifact
    BY DEF HistoryInv, Shape, Checkins
  <1>2. /\ event' = [event EXCEPT ![a] = "ci"] /\ plink' = plink \cup Links(a, Rows)
        /\ leaf' = (leaf \cup {a}) \ (Parents(a) \cap Rows)
        /\ late' = (IF \E c \in Checkins : <<a, c>> \in plink THEN late \cup {a} ELSE late)
        /\ early' = early \cup {<<p, a>> : p \in Parents(a) \ Rows}
    BY DEF LinkTables, LeafTable
  <1>3. \A b \in Checkins : b \in Artifact /\ event'[b] = IF b = a THEN "ci" ELSE event[b]
    BY <1>1, <1>2 DEF Checkins
  <1>4. LinksSound'
    BY <1>1, <1>2 DEF LinksSound, Links
  <1>5. LeavesLinked'
    BY <1>1, <1>2, <1>3 DEF LeavesLinked
  <1>6. ParentsLinked'
    <2> SUFFICES ASSUME NEW b \in Checkins, event'[b] = "ci", NEW p \in Parents(b)
                 PROVE  <<p, b>> \in plink' \cup early'
      BY DEF ParentsLinked
    <2>1. CASE b = a
      BY <1>2, <2>1 DEF Links
    <2>2. CASE b # a
      BY <1>1, <1>2, <1>3, <2>2 DEF ParentsLinked
    <2> QED BY <2>1, <2>2
  <1>7. ASSUME NEW x \in ExpectedLeaves(event', plink') PROVE x \in leaf'
    <2>1. x \in Checkins /\ event'[x] = "ci" /\ \A l \in plink' : l[1] # x
      BY <1>7 DEF ExpectedLeaves
    <2>2. x \notin Parents(a) \cap Rows
      <3>1. x \in Parents(a) \cap Rows => <<x, a>> \in plink'
        BY <1>2 DEF Links
      <3> QED BY <2>1, <3>1
    <2>3. x # a => x \in leaf
      BY <1>1, <1>2, <1>3, <2>1 DEF LeavesRight, ExpectedLeaves
    <2> QED BY <1>2, <2>2, <2>3
  <1>8. ASSUME NEW x \in leaf', x \notin ExpectedLeaves(event', plink') PROVE x \in late'
    <2>1. x \in Checkins /\ event'[x] = "ci" /\ x \in leaf \cup {a}
          /\ x \notin Parents(a) \cap Rows
      BY <1>2, <1>5 DEF LeavesLinked
    <2>2. PICK l \in plink' : l[1] = x
      BY <1>8, <2>1 DEF ExpectedLeaves
    <2>3. l \in plink
      BY <1>2, <2>1, <2>2 DEF Links
    <2>4. PICK c \in Artifact : \E p \in Parents(c) : l = <<p, c>>
      BY <1>1, <2>3 DEF LinksSound
    <2>5. l = <<x, c>> /\ x \in Parents(c) /\ c \in Checkins
      BY <2>1, <2>2, <2>4 DEF HistoriesApart
    <2>6. CASE x = a
      BY <1>2, <2>3, <2>5, <2>6
    <2>7. CASE x # a
      <3>1. x \in leaf /\ x \notin ExpectedLeaves(event, plink)
        BY <2>1, <2>2, <2>3, <2>7 DEF ExpectedLeaves
      <3> QED BY <1>1, <1>2, <3>1 DEF LeavesRight
    <2> QED BY <2>6, <2>7
  <1>9. LeavesRight'
    BY <1>7, <1>8 DEF LeavesRight
  <1> QED BY <1>4, <1>5, <1>6, <1>9 DEF HistoryInv

LEMMA RebuildHistory ==
    ASSUME Shape, Shape', Rebuild
    PROVE  HistoryInv'
  <1>1. /\ event' = [a \in Artifact |-> IF a \in RealCheckins THEN "ci" ELSE "none"]
        /\ plink' = AllLinks /\ leaf' = ExpectedLeaves(event', plink')
        /\ early' = UNION {{<<p, a>> : p \in Parents(a) \ Rows} : a \in RealCheckins}
    BY DEF Rebuild
  <1>2. \A a \in Checkins : a \in Artifact /\ (event'[a] = "ci" => a \in RealCheckins)
    BY <1>1 DEF Checkins
  <1>3. LinksSound'
    BY <1>1, <1>2 DEF LinksSound, AllLinks, Links, RealCheckins
  <1>4. LeavesLinked' /\ LeavesRight'
    BY <1>1 DEF LeavesLinked, LeavesRight, ExpectedLeaves
  <1>5. ParentsLinked'
    <2> SUFFICES ASSUME NEW a \in Checkins, event'[a] = "ci", NEW p \in Parents(a)
                 PROVE  <<p, a>> \in plink' \cup early'
      BY DEF ParentsLinked
    <2>1. a \in RealCheckins
      BY <1>2
    <2>2. CASE p \in Rows
      BY <1>1, <2>1, <2>2 DEF AllLinks, Links
    <2>3. CASE p \notin Rows
      BY <1>1, <2>1, <2>3
    <2> QED BY <2>2, <2>3
  <1> QED BY <1>3, <1>4, <1>5 DEF HistoryInv

LEMMA NextHistory ==
    ASSUME HistoriesApart, HistoryInv, [Next]_vars
    PROVE  HistoryInv'
  <1>1. Shape
    BY DEF HistoryInv
  <1>2. Shape'
    BY <1>1, NextShape
  <1>3. CASE Quiet
    BY <1>2, <1>3, QuietHistory
  <1>4. CASE Rebuild
    BY <1>1, <1>2, <1>4, RebuildHistory
  <1>5. ASSUME NEW a \in Artifact, LinkCheckin(a) PROVE HistoryInv'
    <2>1. a \in Checkins /\ LinkTables(a, Rows)
      BY <1>5 DEF LinkCheckin, Begins, Checkins
    <2> QED BY <1>2, <2>1, LinkHistory
  <1>6. ASSUME NEW a \in Artifact, Checkin(a) PROVE HistoryInv'
    <2>1. a \in Checkins /\ LinkTables(a, Rows)
      BY <1>6 DEF Checkin
    <2> QED BY <1>2, <2>1, LinkHistory
  <1> QED BY <1>1, <1>3, <1>4, <1>5, <1>6, NextShape

(* Whatever the order in which artifacts arrive, and across crashes and     *)
(* rebuilds, the leaf table lacks no leaf and has too many only where a     *)
(* check-in was linked after its child, and plink lacks only links to       *)
(* parents that had no row (updateLeafTable, insertCheckinPlinks).          *)
THEOREM HistoryIsRight ==
    ASSUME HistoriesApart
    PROVE  Spec => []HistoryRight
  <1>1. Init => HistoryInv
    <2> SUFFICES ASSUME Init PROVE HistoryInv
      OBVIOUS
    <2>1. \A a \in Checkins : event[a] # "ci"
      BY DEF Init, Checkins
    <2>2. LinksSound /\ LeavesLinked
      BY DEF Init, LinksSound, LeavesLinked
    <2>3. LeavesRight /\ ParentsLinked
      BY <2>1 DEF Init, LeavesRight, ParentsLinked, ExpectedLeaves
    <2> QED BY <2>2, <2>3, InitShape DEF HistoryInv
  <1>2. HistoryInv /\ [Next]_vars => HistoryInv'
    BY NextHistory
  <1>3. HistoryInv => HistoryRight
    BY DEF HistoryInv, LeavesRight, ParentsLinked, HistoryRight
  <1> QED BY <1>1, <1>2, <1>3, PTL DEF Spec

-----------------------------------------------------------------------------
(***************************************************************************)
(* Files.                                                                   *)
(***************************************************************************)
LEMMA NextComplete ==
    ASSUME CompleteInv, [Next]_vars
    PROVE  CompleteInv'
  <1>1. Shape /\ LinkedIsComplete /\ event \in [Artifact -> EventType]
    BY DEF CompleteInv, Shape
  <1>2. Shape'
    BY <1>1, NextShape
  <1>3. \A a \in Checkins : a \in Artifact
    BY DEF Checkins
  <1>4. real \subseteq real' => \A a \in Artifact : ParentFiles(a) \subseteq ParentFiles(a)'
    BY DEF ParentFiles
  <1>5. ASSUME real \subseteq real', mlink \subseteq mlink', forced' = forced,
               NEW a \in Checkins \ forced', event[a] = "ci"
        PROVE  /\ Deck[a].B \cup Deck[a].F \subseteq real'
               /\ \A f \in Deck[a].F \ ParentFiles(a)' : <<a, f>> \in mlink'
    BY <1>1, <1>3, <1>4, <1>5 DEF LinkedIsComplete
  <1>6. CASE Quiet
    <2>1. real \subseteq real' /\ mlink' = mlink /\ forced' = forced
          /\ \A a \in Checkins : event'[a] = event[a]
      BY <1>6 DEF Quiet
    <2>2. LinkedIsComplete'
      BY <1>5, <2>1 DEF LinkedIsComplete
    <2> QED BY <1>2, <2>2 DEF CompleteInv
  <1>7. ASSUME NEW a \in Checkins, LinkTables(a, Rows), real \subseteq real',
               Deck[a].B \cup Deck[a].F \subseteq real'
        PROVE  CompleteInv'
    <2>1. /\ event' = [event EXCEPT ![a] = "ci"] /\ mlink' = mlink \cup {<<a, f>> : f \in Deck[a].F}
          /\ forced' = forced
      BY <1>7 DEF LinkTables
    <2>2. ASSUME NEW b \in Checkins \ forced', event'[b] = "ci"
          PROVE  /\ Deck[b].B \cup Deck[b].F \subseteq real'
                 /\ \A f \in Deck[b].F \ ParentFiles(b)' : <<b, f>> \in mlink'
      <3>1. CASE b = a
        BY <1>7, <2>1, <3>1
      <3>2. CASE b # a
        <4>1. event[b] = "ci"
          BY <1>1, <1>3, <2>1, <2>2, <3>2
        <4> QED BY <1>5, <1>7, <2>1, <4>1
      <3> QED BY <3>1, <3>2
    <2>3. LinkedIsComplete'
      BY <2>2 DEF LinkedIsComplete
    <2> QED BY <1>2, <2>3 DEF CompleteInv
  <1>8. ASSUME NEW a \in Artifact, LinkCheckin(a) PROVE CompleteInv'
    <2>1. a \in Checkins /\ LinkTables(a, Rows) /\ real' = real
          /\ Deck[a].B \cup Deck[a].F \subseteq real
      BY <1>8 DEF LinkCheckin, Begins, Checkins, missingCheckinRefs
    <2> QED BY <1>7, <2>1
  <1>9. ASSUME NEW a \in Artifact, Checkin(a) PROVE CompleteInv'
    <2>1. a \in Checkins /\ LinkTables(a, Rows) /\ real \subseteq real'
          /\ Deck[a].B \cup Deck[a].F \subseteq real'
      BY <1>9 DEF Checkin
    <2> QED BY <1>7, <2>1
  <1>10. CASE Rebuild
    <2>1. /\ event' = [a \in Artifact |-> IF a \in RealCheckins THEN "ci" ELSE "none"]
          /\ mlink' = UNION {{<<a, f>> : f \in (Deck[a].F \ ParentFiles(a)) \cap Rows} :
                             a \in RealCheckins}
          /\ forced' = {a \in RealCheckins : missingCheckinRefs(a) # {}}
          /\ real' = real
      BY <1>10 DEF Rebuild
    <2>2. ASSUME NEW a \in Checkins \ forced', event'[a] = "ci"
          PROVE  /\ Deck[a].B \cup Deck[a].F \subseteq real'
                 /\ \A f \in Deck[a].F \ ParentFiles(a)' : <<a, f>> \in mlink'
      <3>1. a \in RealCheckins
        BY <1>3, <2>1, <2>2
      <3>2. Deck[a].B \cup Deck[a].F \subseteq real
        BY <2>1, <3>1 DEF missingCheckinRefs
      <3>3. real \subseteq Rows
        BY <1>1 DEF Shape
      <3>4. ParentFiles(a)' = ParentFiles(a)
        BY <2>1 DEF ParentFiles
      <3> QED BY <2>1, <3>1, <3>2, <3>3, <3>4
    <2>3. LinkedIsComplete'
      BY <2>2 DEF LinkedIsComplete
    <2> QED BY <1>2, <2>3 DEF CompleteInv
  <1> QED BY <1>1, <1>6, <1>8, <1>9, <1>10, NextShape

(* A check-in with an event row has its baseline and all its files, with    *)
(* the mlink rows they need: no order of arrival, no crash and no check-in  *)
(* made here links one half (missingCheckinRefs, insertCheckinMlinks).      *)
THEOREM LinkedCheckinsComplete == Spec => []LinkedIsComplete
  <1>1. Init => CompleteInv
    <2> SUFFICES ASSUME Init PROVE CompleteInv
      OBVIOUS
    <2>1. \A a \in Checkins : event[a] # "ci"
      BY DEF Init, Checkins
    <2> QED BY <2>1, InitShape DEF CompleteInv, LinkedIsComplete
  <1>2. CompleteInv /\ [Next]_vars => CompleteInv'
    BY NextComplete
  <1>3. CompleteInv => LinkedIsComplete
    BY DEF CompleteInv
  <1> QED BY <1>1, <1>2, <1>3, PTL DEF Spec

-----------------------------------------------------------------------------
(***************************************************************************)
(* Attachments.                                                             *)
(***************************************************************************)
(* Tickets and tech notes are named by hashes of their own, and T-cards     *)
(* set ordinary tags.                                                       *)
NamesApart ==
    /\ \A a, b \in Artifact : Deck[a].kind = "ticket" /\ Deck[b].kind = "technote"
         => Deck[a].id # Deck[b].id
    /\ \A a \in Artifact : NamesIn(a) \subseteq {"tag"} \X TagName

(* A ticket's tag is only made for a ticket of that name.                   *)
TicketTags ==
    \A id : <<"tkt", id>> \in tagnames =>
        \E a \in Artifact : Deck[a].kind = "ticket" /\ Deck[a].id = id

LatestRight(b) ==
    b \in isLatest <=> \A c \in attachment : Deck[c].id = Deck[b].id => Deck[c].D <= Deck[b].D

(* An attachment without a row in the attachment table has no event.        *)
Unattached ==
    \A a \in Artifact : Deck[a].kind = "attachment" /\ a \notin attachment => event[a] = "none"

(* What the statements before have done, when the next one is s.            *)
StepRight(a, s) ==
    /\ Deck[a].kind = "ticket" => <<"tkt", Deck[a].id>> \in tagnames
    /\ Deck[a].kind = "technote" /\ s # "own" => <<"event", Deck[a].id>> \in tagnames
    /\ Deck[a].kind = "attachment" =>
         /\ a \in attachment
         /\ s = "event" => \A b \in attachment : Deck[b].id = Deck[a].id => LatestRight(b)

StepsRight == \A a \in Artifact, s \in Statements : <<a, s>> \in todo => StepRight(a, s)

AttachShown == TicketTags /\ AttachmentsTyped /\ NewestAttachments /\ Unattached

AttachInv == Shape /\ StepsRight /\ AttachShown

(* What is unfinished, as far as attachments are concerned.                 *)
Cut == {u \in Unfinished : Deck[u].kind \in {"ticket", "technote", "attachment"}}

(* A step that neither attaches anything nor makes a ticket or tech note    *)
(* known, takes event rows of attachments away at most, and finishes        *)
(* nothing that attachments depend on.                                      *)
NoneAttached ==
    /\ UNCHANGED <<attachment, isLatest>>
    /\ \A a \in Artifact : Deck[a].kind = "attachment" => event'[a] \in {"none", event[a]}
    /\ \A id : /\ <<"tkt", id>> \in tagnames' <=> <<"tkt", id>> \in tagnames
               /\ <<"event", id>> \in tagnames' <=> <<"event", id>> \in tagnames
    /\ Cut \subseteq Cut'

LEMMA NoneAttachedKeeps ==
    ASSUME AttachInv, NoneAttached
    PROVE  AttachShown'
  <1>1. \A id : AttachType(id)' = AttachType(id)
    BY DEF AttachType, NoneAttached
  <1>2. TicketTags'
    BY DEF AttachInv, AttachShown, TicketTags, NoneAttached
  <1>3. /\ AttachmentsTyped /\ NewestAttachments /\ Unattached
        /\ \A a \in attachment : a \in Artifact /\ Deck[a].kind = "attachment"
    BY DEF AttachInv, AttachShown, Shape
  <1>4. \A u \in Unfinished :
          Deck[u].kind \in {"ticket", "technote", "attachment"} => u \in Unfinished'
    BY DEF NoneAttached, Cut
  <1>5. AttachmentsTyped'
    <2> SUFFICES ASSUME NEW a \in attachment
                 PROVE  \/ event'[a] \in {"none", AttachType(Deck[a].id)}
                        \/ \E u \in Unfinished' : /\ Deck[u].kind \in {"ticket", "technote"}
                                                  /\ Deck[u].id = Deck[a].id
      BY <1>1 DEF AttachmentsTyped, NoneAttached, AttachType
    <2>1. CASE event[a] \in {"none", AttachType(Deck[a].id)}
      BY <1>3, <2>1 DEF NoneAttached
    <2>2. CASE \E u \in Unfinished : Deck[u].kind \in {"ticket", "technote"} /\ Deck[u].id = Deck[a].id
      BY <1>4, <2>2
    <2> QED BY <1>3, <2>1, <2>2 DEF AttachmentsTyped
  <1>6. NewestAttachments'
    BY <1>3, <1>4 DEF NewestAttachments, NoneAttached
  <1>7. Unattached'
    BY <1>3 DEF Unattached, NoneAttached
  <1> QED BY <1>2, <1>5, <1>6, <1>7 DEF AttachShown

LEMMA OrdinaryNames ==
    ASSUME NamesApart, NEW new, new \subseteq {"tag", "wiki"} \X (TagName \cup Id),
           tagnames' = tagnames \cup new
    PROVE  \A id : /\ <<"tkt", id>> \in tagnames' <=> <<"tkt", id>> \in tagnames
                   /\ <<"event", id>> \in tagnames' <=> <<"event", id>> \in tagnames
  <1>1. \A id : <<"tkt", id>> \notin new /\ <<"event", id>> \notin new
    OBVIOUS
  <1> QED BY <1>1

(* What remains unfinished when a step leaves torn alone, and when it ends  *)
(* an artifact that attachments do not depend on.                           *)
LEMMA CutKept ==
    ASSUME torn' = torn
    PROVE  /\ todo' = todo \/ todo = {} => Cut \subseteq Cut'
           /\ \A a, s, t : todo = {<<a, s>>} /\ todo' = {<<a, t>>} => Unfinished' = Unfinished
  <1>1. \A a, s, t : todo = {<<a, s>>} /\ todo' = {<<a, t>>}
          => {x[1] : x \in todo'} = {x[1] : x \in todo}
    OBVIOUS
  <1> QED BY <1>1 DEF Cut, Unfinished

LEMMA CutEnds ==
    ASSUME NEW a, NEW s, todo = {<<a, s>>}, Ends(a),
           Deck[a].kind \notin {"ticket", "technote", "attachment"}
    PROVE  Cut \subseteq Cut'
  <1>1. \A b \in torn : b # a => b \in torn'
    BY DEF Ends, Mends
  <1>2. Unfinished = torn \cup {a}
    BY DEF Unfinished
  <1> QED BY <1>1, <1>2 DEF Cut, Unfinished

(* The tag of a ticket or a tech note becomes known, and its attachments    *)
(* are still to be retyped.                                                 *)
LEMMA NamedAttach ==
    ASSUME NamesApart, AttachInv, NEW a \in Artifact, a \in Unfinished', Cut \subseteq Cut',
           UNCHANGED <<attachment, isLatest, event>>,
           \/ Deck[a].kind = "ticket" /\ tagnames' = tagnames \cup {<<"tkt", Deck[a].id>>}
           \/ Deck[a].kind = "technote" /\ tagnames' = tagnames \cup {<<"event", Deck[a].id>>}
    PROVE  AttachShown'
  <1>1. AttachShown /\ \A b \in attachment : b \in Artifact
    BY DEF AttachInv, Shape
  <1>2. TicketTags'
    BY <1>1 DEF AttachShown, TicketTags
  <1>3. \A id : id # Deck[a].id => AttachType(id)' = AttachType(id)
    BY DEF AttachType
  <1>4. \A u \in Unfinished :
          Deck[u].kind \in {"ticket", "technote", "attachment"} => u \in Unfinished'
    BY DEF Cut
  <1>5. AttachmentsTyped'
    <2> SUFFICES ASSUME NEW b \in attachment
                 PROVE  \/ event[b] \in {"none", AttachType(Deck[b].id)'}
                        \/ \E u \in Unfinished' : /\ Deck[u].kind \in {"ticket", "technote"}
                                                  /\ Deck[u].id = Deck[b].id
      BY DEF AttachmentsTyped
    <2>1. CASE Deck[b].id = Deck[a].id
      BY <2>1
    <2>2. CASE Deck[b].id # Deck[a].id
      BY <1>1, <1>3, <1>4, <2>2 DEF AttachShown, AttachmentsTyped
    <2> QED BY <2>1, <2>2
  <1>6. NewestAttachments'
    BY <1>1, <1>4 DEF AttachShown, NewestAttachments
  <1>7. Unattached'
    BY <1>1 DEF AttachShown, Unattached
  <1> QED BY <1>2, <1>5, <1>6, <1>7 DEF AttachShown

LEMMA RetypeAttach ==
    ASSUME AttachInv, NEW a, NEW b \in Mistyped(a), Retype(a, b)
    PROVE  AttachShown'
  <1>1. /\ AttachShown /\ event \in [Artifact -> EventType]
        /\ \A c \in attachment : c \in Artifact
    BY DEF AttachInv, Shape
  <1>2. /\ event' = [event EXCEPT ![b] = TargetType(a)]
        /\ UNCHANGED <<attachment, isLatest, tagnames, todo, torn>>
    BY DEF Retype, observers
  <1>3. b \in attachment /\ Deck[b].id = Deck[a].id
    BY DEF Mistyped
  <1>4. a \in Unfinished /\ Unfinished' = Unfinished
    <2>1. <<a, "retype">> \in todo
      BY DEF Retype, Goes
    <2>2. <<a, "retype">>[1] = a
      OBVIOUS
    <2> QED BY <1>2, <2>1, <2>2 DEF Unfinished
  <1>5. Deck[a].kind \in {"ticket", "technote"}
    BY GoesFacts DEF AttachInv, Retype, Fits
  <1>6. \A id : AttachType(id)' = AttachType(id)
    BY <1>2 DEF AttachType
  <1>7. AttachmentsTyped'
    <2> SUFFICES ASSUME NEW c \in attachment
                 PROVE  \/ event'[c] \in {"none", AttachType(Deck[c].id)}
                        \/ \E u \in Unfinished : /\ Deck[u].kind \in {"ticket", "technote"}
                                                 /\ Deck[u].id = Deck[c].id
      BY <1>2, <1>4, <1>6 DEF AttachmentsTyped
    <2>1. CASE c = b
      BY <1>3, <1>4, <1>5, <2>1
    <2>2. CASE c # b
      BY <1>1, <1>2, <2>2 DEF AttachShown, AttachmentsTyped
    <2> QED BY <2>1, <2>2
  <1>8. TicketTags' /\ NewestAttachments'
    BY <1>1, <1>2, <1>4 DEF AttachShown, TicketTags, NewestAttachments
  <1>9. Unattached'
    BY <1>1, <1>2, <1>3 DEF AttachShown, Unattached
  <1> QED BY <1>7, <1>8, <1>9 DEF AttachShown

LEMMA RetypedAttach ==
    ASSUME NamesApart, AttachInv, NEW a, Retyped(a)
    PROVE  AttachShown'
  <1> DEFINE id == Deck[a].id
  <1>1. /\ a \in Artifact /\ todo = {<<a, "retype">>} /\ "retype" \in Statements
        /\ Deck[a].kind \in {"ticket", "technote"}
    BY GoesFacts DEF AttachInv, Retyped, Fits
  <1>2. /\ UNCHANGED <<attachment, isLatest, tagnames, event>> /\ Ends(a) /\ Mistyped(a) = {}
    BY DEF Retyped, tables
  <1>3. AttachShown
    BY DEF AttachInv
  <1>4. AttachType(id) = TargetType(a)
    <2>1. StepRight(a, "retype")
      BY <1>1 DEF AttachInv, StepsRight
    <2>2. CASE Deck[a].kind = "ticket"
      BY <2>1, <2>2 DEF StepRight, AttachType, TargetType
    <2>3. CASE Deck[a].kind = "technote"
      <3>1. <<"event", id>> \in tagnames
        BY <2>1, <2>3 DEF StepRight
      <3>2. <<"tkt", id>> \notin tagnames
        BY <1>1, <1>3, <2>3 DEF AttachShown, TicketTags, NamesApart
      <3> QED BY <2>3, <3>1, <3>2 DEF AttachType, TargetType
    <2> QED BY <1>1, <2>2, <2>3
  <1>5. Unfinished = torn \cup {a}
    BY <1>1 DEF Unfinished
  <1>6. \A u \in Unfinished :
          Deck[u].id # id \/ Deck[u].kind = "attachment" => u \in Unfinished'
    <2>1. \A u \in torn : Deck[u].id # id \/ Deck[u].kind = "attachment" => u \in torn'
      BY <1>1, <1>2 DEF Ends, Mends
    <2> QED BY <1>1, <1>5, <2>1 DEF Unfinished
  <1>7. \A k : AttachType(k)' = AttachType(k)
    BY <1>2 DEF AttachType
  <1>8. AttachmentsTyped'
    <2> SUFFICES ASSUME NEW c \in attachment
                 PROVE  \/ event[c] \in {"none", AttachType(Deck[c].id)}
                        \/ \E u \in Unfinished' : /\ Deck[u].kind \in {"ticket", "technote"}
                                                  /\ Deck[u].id = Deck[c].id
      BY <1>2, <1>7 DEF AttachmentsTyped
    <2>1. CASE Deck[c].id = id
      <3>1. event[c] \in {"none", TargetType(a)}
        BY <1>2, <2>1 DEF Mistyped
      <3> QED BY <1>4, <2>1, <3>1
    <2>2. CASE Deck[c].id # id
      BY <1>3, <1>6, <2>2 DEF AttachShown, AttachmentsTyped
    <2> QED BY <2>1, <2>2
  <1>9. TicketTags' /\ Unattached'
    BY <1>2, <1>3 DEF AttachShown, TicketTags, Unattached
  <1>10. NewestAttachments'
    BY <1>2, <1>3, <1>6 DEF AttachShown, NewestAttachments
  <1> QED BY <1>8, <1>9, <1>10 DEF AttachShown

LEMMA InsertAttach ==
    ASSUME AttachInv, NEW a \in Artifact, InsertAttachment(a)
    PROVE  AttachShown'
  <1>1. /\ attachment' = attachment \cup {a} /\ UNCHANGED <<tagnames, event, isLatest, torn>>
        /\ todo = {} /\ todo' = {<<a, "latest">>} /\ Deck[a].kind = "attachment"
    BY DEF InsertAttachment, Begins, Continues, observers
  <1>2. AttachShown
    BY DEF AttachInv
  <1>3. Unfinished \subseteq Unfinished' /\ a \in Unfinished'
    BY <1>1 DEF Unfinished
  <1>4. TicketTags' /\ Unattached'
    BY <1>1, <1>2 DEF AttachShown, TicketTags, Unattached
  <1>5. \A id : AttachType(id)' = AttachType(id)
    BY <1>1 DEF AttachType
  <1>6. AttachmentsTyped'
    <2> SUFFICES ASSUME NEW b \in attachment'
                 PROVE  \/ event[b] \in {"none", AttachType(Deck[b].id)}
                        \/ \E u \in Unfinished' : /\ Deck[u].kind \in {"ticket", "technote"}
                                                  /\ Deck[u].id = Deck[b].id
      BY <1>1, <1>5 DEF AttachmentsTyped
    <2>1. CASE b \in attachment
      BY <1>2, <1>3, <2>1 DEF AttachShown, AttachmentsTyped
    <2>2. CASE b \notin attachment
      BY <1>1, <1>2, <2>2 DEF AttachShown, Unattached
    <2> QED BY <2>1, <2>2
  <1>7. NewestAttachments'
    <2> SUFFICES ASSUME NEW b \in attachment'
                 PROVE  \/ LatestRight(b)'
                        \/ \E u \in Unfinished' : /\ Deck[u].kind = "attachment"
                                                  /\ Deck[u].id = Deck[b].id
      BY DEF NewestAttachments, LatestRight
    <2>1. CASE Deck[b].id = Deck[a].id
      BY <1>1, <1>3, <2>1
    <2>2. CASE Deck[b].id # Deck[a].id
      <3>1. b \in attachment /\ (LatestRight(b) => LatestRight(b)')
        BY <1>1, <2>2 DEF LatestRight
      <3> QED BY <1>2, <1>3, <3>1 DEF AttachShown, NewestAttachments, LatestRight
    <2> QED BY <2>1, <2>2
  <1> QED BY <1>4, <1>6, <1>7 DEF AttachShown

LEMMA LatestAttach ==
    ASSUME AttachInv, NEW a, MarkLatest(a)
    PROVE  AttachShown' /\ StepsRight'
  <1>1. /\ a \in Artifact /\ todo = {<<a, "latest">>} /\ Deck[a].kind = "attachment"
        /\ "latest" \in Statements
    BY GoesFacts DEF AttachInv, MarkLatest, Fits
  <1>2. /\ UNCHANGED <<tagnames, event, attachment, torn>> /\ isLatest' = LatestOf(attachment, a)
        /\ todo' = {<<a, "event">>}
    BY DEF MarkLatest, Continues, observers
  <1>3. AttachShown /\ a \in attachment
    BY <1>1 DEF AttachInv, StepsRight, StepRight
  <1>4. Unfinished' = Unfinished
    BY <1>1, <1>2, CutKept
  <1>5. TicketTags' /\ Unattached' /\ AttachmentsTyped'
    BY <1>2, <1>3, <1>4 DEF AttachShown, TicketTags, Unattached, AttachmentsTyped, AttachType
  <1>6. ASSUME NEW b \in attachment, Deck[b].id = Deck[a].id PROVE LatestRight(b)'
    BY <1>2, <1>6 DEF LatestRight, LatestOf
  <1>7. ASSUME NEW b \in attachment, Deck[b].id # Deck[a].id PROVE LatestRight(b)' <=> LatestRight(b)
    BY <1>2, <1>7 DEF LatestRight, LatestOf
  <1>8. NewestAttachments'
    BY <1>2, <1>3, <1>4, <1>6, <1>7 DEF AttachShown, NewestAttachments, LatestRight
  <1>9. StepsRight'
    <2>1. StepRight(a, "event")'
      BY <1>1, <1>2, <1>3, <1>6 DEF StepRight
    <2> QED BY <1>2, <2>1 DEF StepsRight
  <1> QED BY <1>5, <1>8, <1>9 DEF AttachShown

LEMMA EventAttach ==
    ASSUME AttachInv, NEW a, Deck[a].kind = "attachment", WriteEvent(a)
    PROVE  AttachShown'
  <1>1. a \in Artifact /\ todo = {<<a, "event">>} /\ "event" \in Statements
    BY GoesFacts DEF AttachInv, WriteEvent
  <1>2. /\ UNCHANGED <<tagnames, attachment, isLatest>> /\ Ends(a)
        /\ event' = [event EXCEPT ![a] = AttachType(Deck[a].id)]
    <2>1. TypeOfEvent(a) = AttachType(Deck[a].id)
      BY DEF TypeOfEvent
    <2> QED BY <2>1 DEF WriteEvent
  <1>3. /\ AttachShown /\ event \in [Artifact -> EventType]
        /\ \A b \in attachment : b \in Artifact
    BY DEF AttachInv, Shape
  <1>4. /\ a \in attachment
        /\ \A b \in attachment : Deck[b].id = Deck[a].id => LatestRight(b)
    BY <1>1 DEF AttachInv, StepsRight, StepRight
  <1>5. Unfinished = torn \cup {a}
    BY <1>1 DEF Unfinished
  <1>6. \A u \in Unfinished :
          Deck[u].id # Deck[a].id \/ Deck[u].kind \in {"ticket", "technote"} => u \in Unfinished'
    <2>1. \A u \in torn :
            Deck[u].id # Deck[a].id \/ Deck[u].kind \in {"ticket", "technote"} => u \in torn'
      BY <1>2 DEF Ends, Mends
    <2> QED BY <1>5, <2>1 DEF Unfinished
  <1>7. TicketTags' /\ Unattached'
    BY <1>2, <1>3, <1>4 DEF AttachShown, TicketTags, Unattached
  <1>8. AttachmentsTyped'
    <2> SUFFICES ASSUME NEW b \in attachment
                 PROVE  \/ event'[b] \in {"none", AttachType(Deck[b].id)}
                        \/ \E u \in Unfinished' : /\ Deck[u].kind \in {"ticket", "technote"}
                                                  /\ Deck[u].id = Deck[b].id
      BY <1>2 DEF AttachmentsTyped, AttachType
    <2>1. CASE b = a
      BY <1>2, <1>3, <2>1
    <2>2. CASE b # a
      BY <1>2, <1>3, <1>6, <2>2 DEF AttachShown, AttachmentsTyped
    <2> QED BY <2>1, <2>2
  <1>9. NewestAttachments'
    <2> SUFFICES ASSUME NEW b \in attachment
                 PROVE  \/ LatestRight(b)
                        \/ \E u \in Unfinished' : /\ Deck[u].kind = "attachment"
                                                  /\ Deck[u].id = Deck[b].id
      BY <1>2 DEF NewestAttachments, LatestRight
    <2> QED BY <1>3, <1>4, <1>6 DEF AttachShown, NewestAttachments, LatestRight
  <1> QED BY <1>7, <1>8, <1>9 DEF AttachShown

LEMMA NextAttach ==
    ASSUME NamesApart, AttachInv, [Next]_vars
    PROVE  AttachInv'
  <1> USE DEF tables, boundVars, observers
  <1>0. /\ Shape /\ Shape' /\ world \subseteq Artifact /\ real \subseteq Artifact
        /\ event \in [Artifact -> EventType] /\ StepsRight /\ AttachShown
    BY NextShape DEF AttachInv, Shape, Rows, ToSet
  <1> DEFINE Keeps == AttachShown' /\ StepsRight'
  <1> SUFFICES Keeps
    BY <1>0 DEF AttachInv
  <1>1. ASSUME NoneAttached, StepsRight' PROVE Keeps
    BY <1>1, NoneAttachedKeeps
  <1>2. ASSUME todo' = todo, UNCHANGED <<attachment, isLatest>>, tagnames \subseteq tagnames'
        PROVE  StepsRight'
    <2>1. \A b : LatestRight(b)' <=> LatestRight(b)
      BY <1>2 DEF LatestRight
    <2> QED BY <1>0, <1>2, <2>1 DEF StepsRight, StepRight
  <1>3. ASSUME todo' = {} PROVE StepsRight'
    BY <1>3 DEF StepsRight
  <1>4. ASSUME NEW a, NEW s, Continues(a, s),
               Deck[a].kind \notin {"ticket", "technote", "attachment"}
        PROVE  StepsRight'
    BY <1>4 DEF StepsRight, StepRight, Continues
  <1>5. ASSUME NEW a \in Artifact
        PROVE  NamesIn(a) \subseteq {"tag", "wiki"} \X (TagName \cup Id)
    BY DEF NamesApart
  <1>6. ASSUME NEW a \in Artifact, NEW type, Deck[a].kind # "attachment",
               event' = [event EXCEPT ![a] = type]
        PROVE  \A b \in Artifact : Deck[b].kind = "attachment" => event'[b] = event[b]
    BY <1>0, <1>6
  <1> HIDE DEF Keeps
  <1>7. ASSUME UNCHANGED <<attachment, isLatest, event, tagnames, todo, torn>> PROVE Keeps
    <2>1. StepsRight'
      BY <1>2, <1>7
    <2>2. Cut \subseteq Cut'
      BY <1>7, CutKept
    <2>3. NoneAttached
      BY <1>7, <2>2 DEF NoneAttached
    <2> QED BY <1>1, <2>1, <2>3
  <1>8. ASSUME NEW a \in Artifact, Arrive(a) \/ Phantom(a) PROVE Keeps
    BY <1>7, <1>8 DEF Arrive, Phantom
  <1>9. ASSUME NEW a \in Artifact, Checkin(a) \/ LinkCheckin(a) PROVE Keeps
    <2>1. /\ UNCHANGED <<attachment, isLatest, tagnames, torn>> /\ a \in Checkins
          /\ event' = [event EXCEPT ![a] = "ci"]
      BY <1>9 DEF Checkin, LinkCheckin, LinkTables, Begins, Checkins
    <2>2. Deck[a].kind \notin {"ticket", "technote", "attachment"}
      BY <2>1 DEF Checkins
    <2>3. todo' = todo \/ (todo = {} /\ Continues(a, "tags"))
      <3>1. Checkin(a) => todo' = todo
        BY DEF Checkin
      <3>2. LinkCheckin(a) => todo = {} /\ Continues(a, "tags")
        BY DEF LinkCheckin, Begins
      <3> QED BY <1>9, <3>1, <3>2
    <2>4. StepsRight'
      BY <1>2, <1>4, <2>1, <2>2, <2>3
    <2>5. NoneAttached
      BY <1>6, <2>1, <2>2, <2>3, CutKept DEF NoneAttached
    <2> QED BY <1>1, <2>4, <2>5
  <1>10. ASSUME NEW a \in Artifact, AddTag(a) \/ TagCheckin(a) PROVE Keeps
    <2>1. /\ UNCHANGED <<attachment, isLatest, event, todo, torn>>
          /\ tagnames' = tagnames \cup NamesIn(a)
      BY <1>10 DEF AddTag, TagCheckin, ApplyTagsOf
    <2>2. NoneAttached
      BY <1>5, <2>1, OrdinaryNames, CutKept DEF NoneAttached
    <2> QED BY <1>1, <1>2, <2>1, <2>2
  <1>11. ASSUME \/ Crosslink \/ UNCHANGED vars \/ \E a \in untagged : CrashCheckin(a)
                \/ \E a \in sweep : Defer(a)
         PROVE  Keeps
    BY <1>7, <1>11 DEF Crosslink, vars, CrashCheckin, Defer
  <1>12. ASSUME NEW a, TagLinked(a) PROVE Keeps
    <2>1. todo = {<<a, "tags">>} /\ a \in Artifact /\ Deck[a].kind = "checkin"
      BY <1>0, <1>12, GoesFacts DEF TagLinked, Fits
    <2>2. /\ UNCHANGED <<attachment, isLatest, event>> /\ tagnames' = tagnames \cup NamesIn(a)
          /\ Ends(a)
      BY <1>12 DEF TagLinked, ApplyTagsOf
    <2>3. NoneAttached
      BY <1>5, <2>1, <2>2, OrdinaryNames, CutEnds DEF NoneAttached
    <2> QED BY <1>1, <1>3, <2>2, <2>3 DEF Ends
  <1>13. ASSUME NEW a, ApplyControl(a) PROVE Keeps
    <2> DEFINE new == {card.name : card \in {c \in Deck[a].T : c.uuid \in Rows}}
    <2>1. /\ UNCHANGED <<attachment, isLatest, event, torn>> /\ Deck[a].kind = "control"
          /\ tagnames' = tagnames \cup new /\ Continues(a, "event") /\ todo = {} /\ a \in sweep
      BY <1>13 DEF ApplyControl, Begins
    <2>2. new \subseteq NamesIn(a)
      BY DEF NamesIn
    <2>3. new \subseteq {"tag", "wiki"} \X (TagName \cup Id)
      BY <1>0, <1>5, <2>1, <2>2 DEF Shape
    <2> HIDE DEF new
    <2>4. NoneAttached
      BY <2>1, <2>3, OrdinaryNames, CutKept DEF NoneAttached
    <2> QED BY <1>1, <1>4, <2>1, <2>4
  <1>14. ASSUME NEW a, addFWTPlink(a) PROVE Keeps
    <2>1. /\ UNCHANGED <<attachment, isLatest, event, tagnames, torn>> /\ todo = {}
          /\ \/ Deck[a].kind = "technote" /\ Continues(a, "own")
             \/ /\ Deck[a].kind \in {"wiki", "forum"}
                /\ \E s \in {"own", "post"} : Continues(a, s)
      BY <1>14 DEF addFWTPlink, Begins
    <2>2. StepsRight'
      <3>1. CASE Deck[a].kind = "technote"
        BY <2>1, <3>1 DEF StepsRight, StepRight, Continues
      <3> QED BY <1>4, <2>1, <3>1
    <2>3. NoneAttached
      BY <2>1, CutKept DEF NoneAttached
    <2> QED BY <1>1, <2>2, <2>3
  <1>15. ASSUME NEW a, TagTicket(a) PROVE Keeps
    <2>1. /\ UNCHANGED <<attachment, isLatest, event, torn>> /\ Deck[a].kind = "ticket"
          /\ tagnames' = tagnames \cup {<<"tkt", Deck[a].id>>} /\ Continues(a, "retype")
          /\ todo = {} /\ a \in Artifact
      BY <1>0, <1>15 DEF TagTicket, ApplyOwnTag, Begins, Shape
    <2>2. a \in Unfinished'
      BY <2>1 DEF Unfinished, Continues
    <2>3. StepsRight'
      BY <2>1 DEF StepsRight, StepRight, Continues
    <2> QED BY <2>1, <2>2, <2>3, CutKept, NamedAttach DEF Keeps
  <1>16. ASSUME NEW a, TagWiki(a) PROVE Keeps
    <2>1. /\ UNCHANGED <<attachment, isLatest, event, torn>> /\ Deck[a].kind = "wiki"
          /\ tagnames' = tagnames \cup {<<"wiki", Deck[a].id>>} /\ Continues(a, "event")
      BY <1>16 DEF TagWiki, ApplyOwnTag
    <2>2. a \in Artifact /\ todo = {<<a, "own">>}
      BY <1>0, <1>16, GoesFacts DEF TagWiki
    <2>3. {<<"wiki", Deck[a].id>>} \subseteq {"tag", "wiki"} \X (TagName \cup Id)
      BY <2>2, DeckFacts DEF DeckType
    <2>4. Cut' = Cut
      BY <2>1, <2>2, CutKept DEF Continues, Cut
    <2>5. NoneAttached
      BY <2>1, <2>3, <2>4, OrdinaryNames DEF NoneAttached
    <2> QED BY <1>1, <1>4, <2>1, <2>5
  <1>17. ASSUME NEW a, TagTechnote(a) PROVE Keeps
    <2>1. /\ UNCHANGED <<attachment, isLatest, event, torn>> /\ Deck[a].kind = "technote"
          /\ tagnames' = tagnames \cup {<<"event", Deck[a].id>>} /\ Continues(a, "older")
      BY <1>17 DEF TagTechnote, ApplyOwnTag
    <2>2. a \in Artifact /\ todo = {<<a, "own">>}
      BY <1>0, <1>17, GoesFacts DEF TagTechnote
    <2>3. Unfinished' = Unfinished /\ a \in Unfinished
      BY <2>1, <2>2, CutKept DEF Continues, Unfinished
    <2>4. StepsRight'
      BY <2>1 DEF StepsRight, StepRight, Continues
    <2> QED BY <2>1, <2>2, <2>3, <2>4, NamedAttach DEF Keeps, Cut
  <1>18. ASSUME NEW a, DropOlder(a) \/ IsOlder(a) PROVE Keeps
    <2>1. /\ UNCHANGED <<attachment, isLatest, tagnames, torn>>
          /\ Continues(a, "event") \/ Continues(a, "retype")
          /\ event' = [b \in Artifact |-> IF b \in Older(a) THEN "none" ELSE event[b]] \/ event' = event
      BY <1>18 DEF DropOlder, IsOlder
    <2>2. a \in Artifact /\ todo = {<<a, "older">>} /\ Deck[a].kind = "technote"
          /\ "older" \in Statements
      BY <1>0, <1>18, GoesFacts DEF DropOlder, IsOlder, Fits
    <2>3. Cut' = Cut
      BY <2>1, <2>2, CutKept DEF Continues, Cut
    <2>4. NoneAttached
      BY <2>1, <2>3 DEF NoneAttached
    <2>5. <<"event", Deck[a].id>> \in tagnames
      BY <1>0, <2>2 DEF StepsRight, StepRight
    <2>6. StepsRight'
      BY <2>1, <2>2, <2>5 DEF StepsRight, StepRight, Continues
    <2> QED BY <1>1, <2>4, <2>6
  <1>19. ASSUME NEW a, PostForum(a) PROVE Keeps
    <2>1. UNCHANGED <<attachment, isLatest, event, tagnames, torn>> /\ Continues(a, "event")
      BY <1>19 DEF PostForum
    <2>2. todo = {<<a, "post">>} /\ Deck[a].kind = "forum"
      BY <1>0, <1>19, GoesFacts DEF PostForum, Fits
    <2>3. Cut' = Cut
      BY <2>1, <2>2, CutKept DEF Continues, Cut
    <2>4. NoneAttached
      BY <2>1, <2>3 DEF NoneAttached
    <2> QED BY <1>1, <1>4, <2>1, <2>2, <2>4
  <1>20. ASSUME NEW a, WriteEvent(a) PROVE Keeps
    <2>1. /\ UNCHANGED <<attachment, isLatest, tagnames>>
          /\ event' = [event EXCEPT ![a] = TypeOfEvent(a)]
          /\ Deck[a].kind = "technote" => Continues(a, "retype") /\ torn' = torn
          /\ Deck[a].kind # "technote" => Ends(a)
      BY <1>20 DEF WriteEvent
    <2>2. /\ a \in Artifact /\ todo = {<<a, "event">>} /\ Deck[a].kind # "ticket"
          /\ "event" \in Statements
      BY <1>0, <1>20, GoesFacts DEF WriteEvent, Fits
    <2>3. CASE Deck[a].kind = "attachment"
      <3>1. AttachShown'
        BY <1>20, <2>3, EventAttach
      <3> QED BY <1>3, <2>1, <2>3, <3>1 DEF Keeps, Ends
    <2>4. CASE Deck[a].kind = "technote"
      <3>1. Cut' = Cut
        BY <2>1, <2>2, <2>4, CutKept DEF Continues, Cut
      <3>2. NoneAttached
        BY <1>6, <2>1, <2>2, <2>4, <3>1 DEF NoneAttached
      <3>3. StepsRight'
        BY <1>0, <2>1, <2>2, <2>4 DEF StepsRight, StepRight, Continues
      <3> QED BY <1>1, <3>2, <3>3
    <2>5. CASE Deck[a].kind \notin {"attachment", "technote"}
      <3>1. Cut \subseteq Cut'
        BY <2>1, <2>2, <2>5, CutEnds
      <3>2. NoneAttached
        BY <1>6, <2>1, <2>2, <2>5, <3>1 DEF NoneAttached
      <3> QED BY <1>1, <1>3, <2>1, <2>5, <3>2 DEF Ends
    <2> QED BY <2>3, <2>4, <2>5
  <1>21. ASSUME NEW a, NEW b \in Mistyped(a), Retype(a, b) PROVE Keeps
    <2>1. AttachShown'
      BY <1>21, RetypeAttach
    <2> QED BY <1>2, <1>21, <2>1 DEF Retype, Keeps
  <1>22. ASSUME NEW a, Retyped(a) PROVE Keeps
    <2>1. AttachShown'
      BY <1>22, RetypedAttach
    <2> QED BY <1>3, <1>22, <2>1 DEF Retyped, Ends, Keeps
  <1>23. ASSUME NEW a, InsertAttachment(a) PROVE Keeps
    <2>1. /\ a \in Artifact /\ attachment' = attachment \cup {a} /\ Continues(a, "latest")
          /\ Deck[a].kind = "attachment"
      BY <1>0, <1>23 DEF InsertAttachment, Begins, Shape
    <2>2. StepsRight'
      BY <2>1 DEF StepsRight, StepRight, Continues
    <2> QED BY <1>23, <2>1, <2>2, InsertAttach DEF Keeps
  <1>24. ASSUME NEW a, MarkLatest(a) PROVE Keeps
    BY <1>24, LatestAttach DEF Keeps
  <1>25. CASE Rebuild
    <2> DEFINE new == UNION {NamesIn(a) : a \in real}
    <2>1. /\ UNCHANGED <<attachment, isLatest>> /\ tagnames' = tagnames \cup new
          /\ event' = [a \in Artifact |-> IF a \in RealCheckins THEN "ci" ELSE "none"]
          /\ todo = {} /\ todo' = {} /\ torn' = {a \in torn : Deck[a].kind = "attachment"}
      BY <1>25 DEF Rebuild
    <2>2. new \subseteq {"tag", "wiki"} \X (TagName \cup Id)
      BY <1>0, <1>5
    <2> HIDE DEF new
    <2>3. \A b \in Artifact : Deck[b].kind = "attachment" => event'[b] = "none"
      BY <2>1 DEF RealCheckins, Checkins
    <2>4. \A b \in attachment' : b \in Artifact /\ Deck[b].kind = "attachment"
      BY <1>0, <2>1 DEF Shape
    <2>5. TicketTags'
      BY <1>0, <2>1, <2>2, OrdinaryNames DEF AttachShown, TicketTags
    <2>6. AttachmentsTyped' /\ Unattached'
      BY <2>3, <2>4 DEF AttachmentsTyped, Unattached
    <2>7. \A u \in Unfinished : Deck[u].kind = "attachment" => u \in Unfinished'
      BY <2>1 DEF Unfinished
    <2>8. NewestAttachments'
      BY <1>0, <2>1, <2>7 DEF AttachShown, NewestAttachments
    <2> QED BY <1>3, <2>1, <2>5, <2>6, <2>8 DEF Keeps, AttachShown
  <1>26. CASE CrashSweep
    <2>1. /\ UNCHANGED <<attachment, isLatest, event, tagnames>> /\ todo' = {}
          /\ torn' = torn \cup {t[1] : t \in todo}
      BY <1>26 DEF CrashSweep
    <2>2. Cut' = Cut
      BY <2>1 DEF Cut, Unfinished
    <2>3. NoneAttached
      BY <2>1, <2>2 DEF NoneAttached
    <2> QED BY <1>1, <1>3, <2>1, <2>3
  <1>27. ASSUME NEW a \in sweep, Begin(a) PROVE Keeps
    <2>1. a \in Artifact
      BY <1>0 DEF Shape
    <2> QED BY <1>9, <1>11, <1>13, <1>14, <1>15, <1>23, <1>27, <2>1 DEF Begin
  <1>28. ASSUME NEW a, Go(a) PROVE Keeps
    BY <1>12, <1>16, <1>17, <1>18, <1>19, <1>20, <1>21, <1>22, <1>24, <1>28 DEF Go
  <1>29. ASSUME NEW a \in world, Arrive(a) \/ Phantom(a) \/ Checkin(a) \/ AddTag(a) PROVE Keeps
    BY <1>0, <1>8, <1>9, <1>10, <1>29
  <1>30. ASSUME NEW a \in untagged, TagCheckin(a) PROVE Keeps
    BY <1>0, <1>10, <1>30 DEF AttachInv, Shape
  <1> QED BY <1>11, <1>25, <1>26, <1>27, <1>28, <1>29, <1>30 DEF Next, SweepStep

(* However versions, targets and attachments arrive, and whichever of their *)
(* statements a crash or a rebuild comes between, is_latest marks exactly   *)
(* the newest attachments of each target (crosslinkAttachment), and the     *)
(* event row of an attachment tells what kind of thing it is attached to,   *)
(* also where the ticket or the tech note came after it                     *)
(* (updateAttachmentComments).  Excepted is only a target at which a sweep  *)
(* is at work, or has died and none has worked since.                       *)
THEOREM NewestAttachmentsShown ==
    ASSUME NamesApart
    PROVE  Spec => [](AttachmentsTyped /\ NewestAttachments)
  <1>1. Init => AttachInv
    BY InitShape DEF Init, AttachInv, AttachShown, StepsRight, Unattached, TicketTags,
                     AttachmentsTyped, NewestAttachments
  <1>2. AttachInv /\ [Next]_vars => AttachInv'
    BY NextAttach
  <1>3. AttachInv => AttachmentsTyped /\ NewestAttachments
    BY DEF AttachInv, AttachShown
  <1> QED BY <1>1, <1>2, <1>3, PTL DEF Spec

-----------------------------------------------------------------------------
(***************************************************************************)
(* Folds.  A recursive definition over the subsets of a finite set has a    *)
(* solution, and what each step of it keeps is true of its value.           *)
(***************************************************************************)
LessThan == {p \in Nat \X Nat : p[1] < p[2]}

LEMMA LeastElement ==
    ASSUME NEW T \in SUBSET Nat, T # {}
    PROVE  \E x \in T : \A y \in T : x <= y
  <1>1. IsWellFoundedOn(OpToRel(<, Nat), Nat)
    BY NatLessThanWellFounded
  <1>2. OpToRel(<, Nat) = LessThan
    BY DEF OpToRel, LessThan
  <1>3. IsWellFoundedOn(LessThan, Nat)
    BY <1>1, <1>2
  <1>4. PICK x \in T : \A y \in T : ~ (<<y, x>> \in LessThan)
    BY <1>3, WFMin
  <1>5. ASSUME NEW y \in T PROVE x <= y
    <2>1. ~ (<<y, x>> \in LessThan) BY <1>4
    <2>2. ~ (y < x) BY <2>1 DEF LessThan
    <2> QED BY <2>2
  <1> QED BY <1>5

LEMMA MaxElement ==
    ASSUME NEW n \in Nat, NEW S \in SUBSET (0..n), S # {}
    PROVE  Max(S) \in S /\ \A y \in S : Max(S) >= y
  <1> DEFINE bounds == {m \in Nat : \A y \in S : y <= m}
  <1>1. bounds \in SUBSET Nat /\ n \in bounds
    OBVIOUS
  <1>2. PICK m \in bounds : \A k \in bounds : m <= k
    <2> HIDE DEF bounds
    <2> QED BY <1>1, LeastElement
  <1>3. m \in S
    <2> SUFFICES ASSUME m \notin S PROVE FALSE
      OBVIOUS
    <2>1. \A y \in S : y < m
      OBVIOUS
    <2>2. m - 1 \in Nat /\ \A y \in S : y \in Nat
      <3>1. PICK y \in S : TRUE
        OBVIOUS
      <3>2. y \in Nat /\ m \in Nat /\ y < m
        BY <2>1
      <3> QED BY <3>2
    <2>3. \A y \in S : y <= m - 1
      BY <2>1, <2>2
    <2>4. m - 1 \in bounds
      BY <2>2, <2>3
    <2> QED BY <1>2, <2>2, <2>4
  <1>4. \A y \in S : m >= y
    OBVIOUS
  <1> HIDE DEF bounds
  <1>5. \E x \in S : \A y \in S : x >= y
    BY <1>3, <1>4
  <1> QED BY <1>5 DEF Max

(* A step that keeps a property, from the empty set on.                     *)
LEMMA FoldKeeps ==
    ASSUME NEW S, IsFiniteSet(S), NEW f, NEW Good, f[{}] \in Good,
           \A s \in SUBSET S : s # {} => \E x \in s : f[s \ {x}] \in Good => f[s] \in Good
    PROVE  f[S] \in Good
  <1> SUFFICES ASSUME f[S] \notin Good PROVE FALSE
    OBVIOUS
  <1> DEFINE bad == {n \in Nat : \E s \in SUBSET S : Cardinality(s) = n /\ f[s] \notin Good}
  <1>1. Cardinality(S) \in bad /\ bad \in SUBSET Nat
    BY FS_CardinalityType
  <1>2. PICK n \in bad : \A m \in bad : n <= m
    <2> HIDE DEF bad
    <2> QED BY <1>1, LeastElement
  <1>3. PICK s \in SUBSET S : Cardinality(s) = n /\ f[s] \notin Good
    OBVIOUS
  <1>4. PICK x \in s : f[s \ {x}] \in Good => f[s] \in Good
    BY <1>3
  <1>5. IsFiniteSet(s)
    BY FS_Subset
  <1>6. Cardinality(s \ {x}) = n - 1 /\ Cardinality(s \ {x}) \in Nat
    BY <1>3, <1>4, <1>5, FS_RemoveElement, FS_CardinalityType
  <1>7. n - 1 \in bad
    BY <1>3, <1>4, <1>6
  <1> QED BY <1>2, <1>6, <1>7

(* f takes the elements of a set in the order of ch and combines them by g. *)
Unfolds(f, S, base, ch, g) ==
    \A s \in SUBSET S : f[s] = IF s = {} THEN base ELSE g[<<ch[s], f[s \ {ch[s]}]>>]

LEMMA FoldExists ==
    ASSUME NEW S, IsFiniteSet(S), NEW Good, NEW base \in Good,
           NEW ch, \A s \in SUBSET S : s # {} => ch[s] \in s,
           NEW g \in [S \X Good -> Good]
    PROVE  \E f \in [SUBSET S -> Good] : Unfolds(f, S, base, ch, g)
  <1> DEFINE Upto(n) == {s \in SUBSET S : Cardinality(s) <= n}
             Sol(f, n) == \A s \in Upto(n) :
                            f[s] = IF s = {} THEN base ELSE g[<<ch[s], f[s \ {ch[s]}]>>]
             bad == {n \in Nat : ~\E f \in [Upto(n) -> Good] : Sol(f, n)}
  <1>0. \A s \in SUBSET S : /\ IsFiniteSet(s) /\ Cardinality(s) \in Nat
                            /\ Cardinality(s) <= Cardinality(S)
                            /\ Cardinality(s) = 0 <=> s = {}
    BY FS_Subset, FS_CardinalityType, FS_EmptySet
  <1>1. Cardinality(S) \in Nat
    BY FS_CardinalityType
  <1>2. bad = {}
    <2> SUFFICES ASSUME bad # {} PROVE FALSE
      OBVIOUS
    <2>1. bad \in SUBSET Nat
      OBVIOUS
    <2>2. PICK n \in bad : \A m \in bad : n <= m
      <3> HIDE DEF bad
      <3> QED BY <2>1, LeastElement
    <2>3. n # 0
      <3> SUFFICES ASSUME n = 0 PROVE FALSE
        OBVIOUS
      <3>1. \A s \in Upto(0) : s = {}
        BY <1>0
      <3>2. [s \in Upto(0) |-> base] \in [Upto(0) -> Good] /\ Sol([s \in Upto(0) |-> base], 0)
        BY <3>1
      <3> QED BY <3>2
    <2>4. n - 1 \in Nat /\ n - 1 \notin bad
      <3> HIDE DEF bad
      <3> QED BY <2>1, <2>2, <2>3
    <2>5. PICK f \in [Upto(n - 1) -> Good] : Sol(f, n - 1)
      BY <2>4
    <2>6. \A s \in Upto(n) : s # {} => ch[s] \in s /\ s \ {ch[s]} \in Upto(n - 1)
      <3> SUFFICES ASSUME NEW s \in Upto(n), s # {}
                   PROVE  ch[s] \in s /\ s \ {ch[s]} \in Upto(n - 1)
        OBVIOUS
      <3>1. ch[s] \in s /\ IsFiniteSet(s) /\ Cardinality(s) \in Nat /\ Cardinality(s) <= n
        BY <1>0
      <3>2. Cardinality(s \ {ch[s]}) = Cardinality(s) - 1
        BY <3>1, FS_RemoveElement
      <3> QED BY <2>4, <3>1, <3>2
    <2> DEFINE h == [s \in Upto(n) |-> IF s = {} THEN base ELSE g[<<ch[s], f[s \ {ch[s]}]>>]]
    <2>7. h \in [Upto(n) -> Good]
      BY <2>5, <2>6
    <2>8. \A s \in Upto(n - 1) : s \in Upto(n) /\ h[s] = f[s]
      BY <1>0, <2>4, <2>5
    <2>9. Sol(h, n)
      <3> SUFFICES ASSUME NEW s \in Upto(n)
                   PROVE  h[s] = IF s = {} THEN base ELSE g[<<ch[s], h[s \ {ch[s]}]>>]
        OBVIOUS
      <3>1. CASE s = {}
        BY <3>1
      <3>2. CASE s # {}
        <4>1. h[s \ {ch[s]}] = f[s \ {ch[s]}]
          BY <2>6, <2>8, <3>2
        <4> HIDE DEF Upto
        <4>2. h[s] = g[<<ch[s], f[s \ {ch[s]}]>>]
          BY <3>2
        <4> HIDE DEF h
        <4> QED BY <3>2, <4>1, <4>2
      <3> HIDE DEF Upto, h
      <3> QED BY <3>1, <3>2
    <2> HIDE DEF h
    <2>10. n \notin bad
      BY <2>7, <2>9
    <2> QED BY <2>2, <2>10
  <1>3. Upto(Cardinality(S)) = SUBSET S
    BY <1>0
  <1>4. PICK f \in [Upto(Cardinality(S)) -> Good] : Sol(f, Cardinality(S))
    BY <1>1, <1>2
  <1> QED BY <1>3, <1>4 DEF Unfolds

-----------------------------------------------------------------------------
(***************************************************************************)
(* The tags of tech notes.                                                  *)
(***************************************************************************)
(* The queue of propagate reaches only artifacts with something to do.      *)
LEMMA ReachedToDo ==
    ASSUME NEW tx, NEW links, NEW t, NEW type, NEW mtime, NEW p
    PROVE  \A c \in Reached(tx, links, t, type, mtime, p) :
              c \in Artifact /\ Doit(tx, t, type, mtime, c)
  <1> DEFINE Open(c) == /\ Deck[c].P # << >> /\ <<Deck[c].P[1], c>> \in links
                        /\ Doit(tx, t, type, mtime, c)
             runs == {X \in SUBSET Artifact :
                        \A c \in X : Open(c) /\ (Deck[c].P[1] = p \/ Deck[c].P[1] \in X)}
             most == UNION runs
             from == CHOOSE f : f = [c \in Artifact |->
                        /\ Deck[c].P # << >> /\ <<Deck[c].P[1], c>> \in links
                        /\ Doit(tx, t, type, mtime, c)
                        /\ Deck[c].P[1] = p \/ f[Deck[c].P[1]]]
  <1>1. Reached(tx, links, t, type, mtime, p) = {c \in Artifact : from[c]}
    BY Zenon DEF Reached
  <1>2. ASSUME NEW c \in Artifact
        PROVE  c \in most <=> Open(c) /\ (Deck[c].P[1] = p \/ Deck[c].P[1] \in most)
    <2>1. ASSUME c \in most PROVE Open(c) /\ (Deck[c].P[1] = p \/ Deck[c].P[1] \in most)
      BY <2>1
    <2>2. ASSUME Open(c), Deck[c].P[1] = p \/ Deck[c].P[1] \in most PROVE c \in most
      <3> HIDE DEF Open
      <3>1. \A b \in most : b \in Artifact /\ Open(b) /\ (Deck[b].P[1] = p \/ Deck[b].P[1] \in most)
        OBVIOUS
      <3>2. most \cup {c} \in runs
        <4> HIDE DEF most
        <4> QED BY <2>2, <3>1
      <3> QED BY <3>2
    <2> QED BY <2>1, <2>2
  <1> HIDE DEF most
  <1> DEFINE f0 == [c \in Artifact |-> c \in most]
  <1>3. ASSUME NEW c \in Artifact, Deck[c].P # << >> PROVE f0[Deck[c].P[1]] = (Deck[c].P[1] \in most)
    <2>1. Deck[c].P[1] \in Artifact
      BY <1>3, DeckFacts DEF DeckType
    <2> QED BY <2>1
  <1>4. \A c \in Artifact : (c \in most) =
            (/\ Deck[c].P # << >> /\ <<Deck[c].P[1], c>> \in links
             /\ Doit(tx, t, type, mtime, c)
             /\ Deck[c].P[1] = p \/ f0[Deck[c].P[1]])
    <2> HIDE DEF f0
    <2> TAKE c \in Artifact
    <2>1. c \in most <=> Open(c) /\ (Deck[c].P[1] = p \/ f0[Deck[c].P[1]])
      <3> HIDE DEF Open
      <3>1. Open(c) => Deck[c].P # << >>
        BY DEF Open
      <3>2. CASE ~Open(c)
        BY <1>2, <3>2
      <3>3. CASE Open(c)
        <4>1. f0[Deck[c].P[1]] = (Deck[c].P[1] \in most)
          BY <1>3, <3>1, <3>3
        <4> QED BY <1>2, <3>3, <4>1, Zenon
      <3> QED BY <3>2, <3>3
    <2> DEFINE A == Deck[c].P # << >>
               B == <<Deck[c].P[1], c>> \in links
               C == Doit(tx, t, type, mtime, c)
               D == Deck[c].P[1] = p
               F == f0[Deck[c].P[1]]
    <2>2. c \in most <=> A /\ B /\ C /\ (D \/ F)
      BY <2>1
    <2>3. (c \in most) = (A /\ B /\ C /\ (D \/ F))
      <3> HIDE DEF A, B, C, D, F
      <3> QED BY <2>2
    <2> QED BY <2>3
  <1>5. f0 = [c \in Artifact |-> /\ Deck[c].P # << >> /\ <<Deck[c].P[1], c>> \in links
                                 /\ Doit(tx, t, type, mtime, c)
                                 /\ Deck[c].P[1] = p \/ f0[Deck[c].P[1]]]
    <2> HIDE DEF f0
    <2>1. f0 = [c \in Artifact |-> c \in most]
      BY DEF f0
    <2> QED BY <1>4, <2>1, Zenon
  <1>6. from = [c \in Artifact |-> /\ Deck[c].P # << >> /\ <<Deck[c].P[1], c>> \in links
                                   /\ Doit(tx, t, type, mtime, c)
                                   /\ Deck[c].P[1] = p \/ from[Deck[c].P[1]]]
    <2> HIDE DEF f0
    <2> QED BY <1>5, Zenon
  <1>7. ASSUME NEW c \in Artifact, from[c] PROVE Doit(tx, t, type, mtime, c)
    <2> HIDE DEF from
    <2> QED BY <1>6, <1>7, Zenon
  <1> HIDE DEF from
  <1> QED BY <1>1, <1>7, Zenon

NoteRows(tx) == {r \in tx : r.tag[1] = "event"}

(* Such rows are set by the versions themselves and do not propagate.       *)
OwnRows(E) ==
    \A r \in E :
        /\ r.type # 2 /\ r.src # Self /\ r.src = r.rid
        /\ Deck[r.rid].kind = "technote" /\ r.tag = <<"event", Deck[r.rid].id>>

(* The contents of tagxref in which the rows of tech notes are those of E.  *)
Holding(E) == {tx \in SUBSET TagRow : IsFiniteSet(tx) /\ NoteRows(tx) = E}

LEMMA PutHolds ==
    ASSUME NEW E, NEW tx \in Holding(E), NEW r \in TagRow, r.tag[1] # "event"
    PROVE  Put(tx, r) \in Holding(E)
  <1>1. tx \ RowOf(tx, r.rid, r.tag) \in SUBSET tx
    BY DEF RowOf
  <1>2. IsFiniteSet(Put(tx, r))
    <2>1. IsFiniteSet(tx \ RowOf(tx, r.rid, r.tag))
      BY <1>1, FS_Subset DEF Holding
    <2> QED BY <2>1, FS_AddElement DEF Put
  <1>3. NoteRows(Put(tx, r)) = E
    BY DEF Put, RowOf, Holding, NoteRows
  <1>4. Put(tx, r) \subseteq TagRow
    BY <1>1 DEF Put, Holding
  <1> QED BY <1>2, <1>3, <1>4 DEF Holding

LEMMA PropagateHolds ==
    ASSUME NEW E, OwnRows(E), NEW tx \in Holding(E), NEW links, NEW t \in Tag, NEW type,
           t[1] = "event" => type # 2,
           NEW orig \in Artifact, NEW mtime \in 1..MaxTime, NEW value \in Id, NEW p
    PROVE  propagate(tx, links, t, type, orig, mtime, value, p) \in Holding(E)
  <1> DEFINE reached == Reached(tx, links, t, type, mtime, p)
             kept == {r \in tx : r.tag # t \/ r.rid \notin reached}
             row == [c \in reached |-> [rid |-> c, tag |-> t, type |-> 2, src |-> Self,
                                        orig |-> orig, value |-> value, mtime |-> mtime]]
             new == {row[c] : c \in reached}
  <1>1. reached \subseteq Artifact /\ \A c \in reached : Doit(tx, t, type, mtime, c)
    BY ReachedToDo
  <1> HIDE DEF reached
  <1>2. propagate(tx, links, t, type, orig, mtime, value, p)
          = IF type = 2 THEN kept \cup new ELSE kept
    BY DEF propagate, reached
  <1>3. kept \in SUBSET tx /\ tx \in SUBSET TagRow /\ IsFiniteSet(tx) /\ NoteRows(tx) = E
    BY DEF Holding
  <1>4. IsFiniteSet(kept) /\ kept \in SUBSET TagRow
    BY <1>3, FS_Subset
  <1>5. NoteRows(kept) = E
    <2> SUFFICES ASSUME NEW r \in E PROVE r \in kept
      BY <1>3 DEF NoteRows
    <2>1. r \in tx /\ r.tag[1] = "event"
      BY <1>3 DEF NoteRows
    <2> SUFFICES ASSUME r.tag = t, r.rid \in reached PROVE FALSE
      BY <2>1
    <2>2. PICK s \in RowOf(tx, r.rid, t) : s.src = Self
      BY <1>1, <2>1 DEF Doit
    <2>3. s \in E
      BY <1>3, <2>1 DEF RowOf, NoteRows
    <2> QED BY <2>2, <2>3 DEF OwnRows
  <1>6. ASSUME type = 2 PROVE IsFiniteSet(new) /\ new \in SUBSET TagRow /\ NoteRows(new) = {}
    <2>1. IsFiniteSet(reached)
      BY <1>1, FS_Subset, ConstantsAssumption
    <2>2. row \in Surjection(reached, new)
      BY DEF Surjection
    <2>3. IsFiniteSet(new)
      <3> HIDE DEF row, new
      <3> QED BY <2>1, <2>2, FS_Surjection
    <2>4. \A c \in reached : row[c] \in TagRow /\ row[c].tag[1] # "event"
      BY <1>1, <1>6 DEF TagRow
    <2> HIDE DEF row
    <2> QED BY <2>3, <2>4 DEF NoteRows
  <1> HIDE DEF kept, new
  <1>7. ASSUME type = 2 PROVE kept \cup new \in Holding(E)
    <2>1. NoteRows(kept \cup new) = E
      BY <1>5, <1>6, <1>7 DEF NoteRows
    <2>2. IsFiniteSet(kept \cup new)
      BY <1>4, <1>6, <1>7, FS_Union
    <2> QED BY <1>4, <1>6, <1>7, <2>1, <2>2 DEF Holding
  <1>8. kept \in Holding(E)
    BY <1>4, <1>5 DEF Holding
  <1> QED BY <1>2, <1>7, <1>8

LEMMA ApplyHolds ==
    ASSUME NEW E, OwnRows(E), NEW tx \in Holding(E), NEW links, NEW target \in Artifact,
           NEW src \in Artifact, NEW card \in TCard, card.name[1] # "event",
           NEW mtime \in 1..MaxTime
    PROVE  ApplyTag(tx, links, target, src, card, mtime) \in Holding(E)
  <1> DEFINE row == [rid |-> target, tag |-> card.name, type |-> card.type, src |-> src,
                     orig |-> target, value |-> card.value, mtime |-> mtime]
  <1>1. row \in TagRow /\ row.tag = card.name /\ card.name \in Tag /\ card.value \in Id
    BY DEF TCard, TagRow
  <1>2. Put(tx, row) \in Holding(E)
    <2> HIDE DEF row
    <2> QED BY <1>1, PutHolds
  <1>3. propagate(Put(tx, row), links, card.name, card.type, target, mtime, card.value, target)
          \in Holding(E)
    <2> HIDE DEF row
    <2> QED BY <1>1, <1>2, PropagateHolds
  <1> QED BY <1>2, <1>3 DEF ApplyTag

(* The element that FoldSet takes next.                                     *)
Some(s) == CHOOSE x \in s : TRUE

(* PropagateAll: every row of the parent is passed on, or stops.            *)
LEMMA PropagateAllHolds ==
    ASSUME NEW E, OwnRows(E), NEW tx \in Holding(E), NEW links, NEW p
    PROVE  PropagateAll(tx, links, p) \in Holding(E)
  <1> DEFINE S == {r \in tx : r.rid = p}
             Op(acc, x) == propagate(acc, links, x.tag, IF x.type = 1 THEN 0 ELSE x.type,
                                     x.orig, x.mtime, x.value, p)
             Fold(f) == [s \in SUBSET S |-> IF s = {} THEN tx
                           ELSE Op(f[s \ {Some(s)}], Some(s))]
             iter == CHOOSE f : f = Fold(f)
             ch == [s \in SUBSET S |-> Some(s)]
             g == [z \in S \X Holding(E) |-> Op(z[2], z[1])]
  <1>1. PropagateAll(tx, links, p) = iter[S]
    BY Zenon DEF PropagateAll, FoldSet, MapThenFoldSet, Some
  <1>2. IsFiniteSet(S)
    BY FS_Subset DEF Holding
  <1>3. ASSUME NEW r \in S, NEW acc \in Holding(E) PROVE Op(acc, r) \in Holding(E)
    <2>1. r \in TagRow /\ (r.tag[1] = "event" => r \in E)
      BY DEF Holding, NoteRows
    <2>2. /\ r.tag \in Tag /\ r.orig \in Artifact /\ r.mtime \in 1..MaxTime /\ r.value \in Id
          /\ r.tag[1] = "event" => r.type # 2
      BY <2>1 DEF TagRow, OwnRows
    <2> QED BY <2>2, PropagateHolds
  <1> HIDE DEF S, Op
  <1>4. \A s \in SUBSET S : s # {} => Some(s) \in s
    BY DEF Some
  <1>5. \A s \in SUBSET S : s # {} => ch[s] \in s
    BY <1>4
  <1>6. g \in [S \X Holding(E) -> Holding(E)]
    BY <1>3
  <1>7. PICK f \in [SUBSET S -> Holding(E)] : Unfolds(f, S, tx, ch, g)
    <2> HIDE DEF g, ch
    <2> QED BY <1>2, <1>5, <1>6, FoldExists
  <1>8. f = Fold(f)
    <2>1. ASSUME NEW s \in SUBSET S, s # {}
          PROVE  g[<<ch[s], f[s \ {ch[s]}]>>] = Op(f[s \ {Some(s)}], Some(s))
      <3>1. ch[s] \in S /\ f[s \ {ch[s]}] \in Holding(E) /\ ch[s] = Some(s)
        BY <1>5, <1>7, <2>1
      <3> HIDE DEF ch
      <3>2. g[<<ch[s], f[s \ {ch[s]}]>>] = Op(f[s \ {ch[s]}], ch[s])
        BY <3>1
      <3> QED BY <3>1, <3>2
    <2>2. \A s \in SUBSET S : f[s] = IF s = {} THEN tx
                                ELSE Op(f[s \ {Some(s)}], Some(s))
      <3> HIDE DEF g, ch
      <3> QED BY <1>7, <2>1 DEF Unfolds
    <2> QED BY <1>7, <2>2
  <1>9. iter = Fold(iter)
    <2> HIDE DEF Fold
    <2> QED BY <1>8
  <1> HIDE DEF iter
  <1>10. \A s \in SUBSET S : iter[s] = IF s = {} THEN tx
                                        ELSE Op(iter[s \ {Some(s)}], Some(s))
    BY <1>9
  <1>11. iter[{}] \in Holding(E)
    BY <1>10
  <1>12. \A s \in SUBSET S : s # {} => \E x \in s : iter[s \ {x}] \in Holding(E)
                                                     => iter[s] \in Holding(E)
    <2> SUFFICES ASSUME NEW s \in SUBSET S, s # {}, iter[s \ {Some(s)}] \in Holding(E)
                 PROVE  iter[s] \in Holding(E)
      BY <1>4
    <2>1. Op(iter[s \ {Some(s)}], Some(s)) \in Holding(E)
      BY <1>3, <1>4
    <2> QED BY <1>10, <2>1
  <1>13. iter[S] \in Holding(E)
    BY <1>2, <1>11, <1>12, FoldKeeps
  <1> QED BY <1>1, <1>13

(* InlineTags and ControlTags: no T-card names a tech note's tag.           *)
LEMMA InlineHolds ==
    ASSUME NamesApart, NEW E, OwnRows(E), NEW tx \in Holding(E), NEW links, NEW a \in Artifact
    PROVE  InlineTags(tx, links, a) \in Holding(E)
  <1> DEFINE S == {card \in Deck[a].T : card.uuid = Self}
             Op(acc, x) == ApplyTag(acc, links, a, a, x, Deck[a].D)
             Fold(f) == [s \in SUBSET S |-> IF s = {} THEN tx
                           ELSE Op(f[s \ {Some(s)}], Some(s))]
             iter == CHOOSE f : f = Fold(f)
             ch == [s \in SUBSET S |-> Some(s)]
             g == [z \in S \X Holding(E) |-> Op(z[2], z[1])]
  <1>1. InlineTags(tx, links, a) = iter[S]
    BY Zenon DEF InlineTags, FoldSet, MapThenFoldSet, Some
  <1>2. IsFiniteSet(S)
    BY ConstantsAssumption, FS_Subset
  <1>3. ASSUME NEW card \in S, NEW acc \in Holding(E) PROVE Op(acc, card) \in Holding(E)
    <2>1. card \in TCard /\ Deck[a].D \in 1..MaxTime
      BY DeckFacts DEF DeckType
    <2>2. card.name[1] # "event"
      BY DEF NamesApart, NamesIn
    <2> QED BY <2>1, <2>2, ApplyHolds
  <1> HIDE DEF S, Op
  <1>4. \A s \in SUBSET S : s # {} => Some(s) \in s
    BY DEF Some
  <1>5. \A s \in SUBSET S : s # {} => ch[s] \in s
    BY <1>4
  <1>6. g \in [S \X Holding(E) -> Holding(E)]
    BY <1>3
  <1>7. PICK f \in [SUBSET S -> Holding(E)] : Unfolds(f, S, tx, ch, g)
    <2> HIDE DEF g, ch
    <2> QED BY <1>2, <1>5, <1>6, FoldExists
  <1>8. f = Fold(f)
    <2>1. ASSUME NEW s \in SUBSET S, s # {}
          PROVE  g[<<ch[s], f[s \ {ch[s]}]>>] = Op(f[s \ {Some(s)}], Some(s))
      <3>1. ch[s] \in S /\ f[s \ {ch[s]}] \in Holding(E) /\ ch[s] = Some(s)
        BY <1>5, <1>7, <2>1
      <3> HIDE DEF ch
      <3>2. g[<<ch[s], f[s \ {ch[s]}]>>] = Op(f[s \ {ch[s]}], ch[s])
        BY <3>1
      <3> QED BY <3>1, <3>2
    <2>2. \A s \in SUBSET S : f[s] = IF s = {} THEN tx
                                ELSE Op(f[s \ {Some(s)}], Some(s))
      <3> HIDE DEF g, ch
      <3> QED BY <1>7, <2>1 DEF Unfolds
    <2> QED BY <1>7, <2>2
  <1>9. iter = Fold(iter)
    <2> HIDE DEF Fold
    <2> QED BY <1>8
  <1> HIDE DEF iter
  <1>10. \A s \in SUBSET S : iter[s] = IF s = {} THEN tx
                                        ELSE Op(iter[s \ {Some(s)}], Some(s))
    BY <1>9
  <1>11. iter[{}] \in Holding(E)
    BY <1>10
  <1>12. \A s \in SUBSET S : s # {} => \E x \in s : iter[s \ {x}] \in Holding(E)
                                                     => iter[s] \in Holding(E)
    <2> SUFFICES ASSUME NEW s \in SUBSET S, s # {}, iter[s \ {Some(s)}] \in Holding(E)
                 PROVE  iter[s] \in Holding(E)
      BY <1>4
    <2>1. Op(iter[s \ {Some(s)}], Some(s)) \in Holding(E)
      BY <1>3, <1>4
    <2> QED BY <1>10, <2>1
  <1>13. iter[S] \in Holding(E)
    BY <1>2, <1>11, <1>12, FoldKeeps
  <1> QED BY <1>1, <1>13

LEMMA ControlHolds ==
    ASSUME NamesApart, NEW E, OwnRows(E), NEW tx \in Holding(E), NEW links, NEW a \in Artifact,
           NEW present \in SUBSET Artifact
    PROVE  ControlTags(tx, links, a, present) \in Holding(E)
  <1> DEFINE S == {card \in Deck[a].T : card.uuid \in present}
             Op(acc, x) == ApplyTag(acc, links, x.uuid, a, x, Deck[a].D)
             Fold(f) == [s \in SUBSET S |-> IF s = {} THEN tx
                           ELSE Op(f[s \ {Some(s)}], Some(s))]
             iter == CHOOSE f : f = Fold(f)
             ch == [s \in SUBSET S |-> Some(s)]
             g == [z \in S \X Holding(E) |-> Op(z[2], z[1])]
  <1>1. ControlTags(tx, links, a, present) = iter[S]
    BY Zenon DEF ControlTags, FoldSet, MapThenFoldSet, Some
  <1>2. IsFiniteSet(S)
    BY ConstantsAssumption, FS_Subset
  <1>3. ASSUME NEW card \in S, NEW acc \in Holding(E) PROVE Op(acc, card) \in Holding(E)
    <2>1. card \in TCard /\ Deck[a].D \in 1..MaxTime
      BY DeckFacts DEF DeckType
    <2>2. card.name[1] # "event"
      BY DEF NamesApart, NamesIn
    <2> QED BY <2>1, <2>2, ApplyHolds
  <1> HIDE DEF S, Op
  <1>4. \A s \in SUBSET S : s # {} => Some(s) \in s
    BY DEF Some
  <1>5. \A s \in SUBSET S : s # {} => ch[s] \in s
    BY <1>4
  <1>6. g \in [S \X Holding(E) -> Holding(E)]
    BY <1>3
  <1>7. PICK f \in [SUBSET S -> Holding(E)] : Unfolds(f, S, tx, ch, g)
    <2> HIDE DEF g, ch
    <2> QED BY <1>2, <1>5, <1>6, FoldExists
  <1>8. f = Fold(f)
    <2>1. ASSUME NEW s \in SUBSET S, s # {}
          PROVE  g[<<ch[s], f[s \ {ch[s]}]>>] = Op(f[s \ {Some(s)}], Some(s))
      <3>1. ch[s] \in S /\ f[s \ {ch[s]}] \in Holding(E) /\ ch[s] = Some(s)
        BY <1>5, <1>7, <2>1
      <3> HIDE DEF ch
      <3>2. g[<<ch[s], f[s \ {ch[s]}]>>] = Op(f[s \ {ch[s]}], ch[s])
        BY <3>1
      <3> QED BY <3>1, <3>2
    <2>2. \A s \in SUBSET S : f[s] = IF s = {} THEN tx
                                ELSE Op(f[s \ {Some(s)}], Some(s))
      <3> HIDE DEF g, ch
      <3> QED BY <1>7, <2>1 DEF Unfolds
    <2> QED BY <1>7, <2>2
  <1>9. iter = Fold(iter)
    <2> HIDE DEF Fold
    <2> QED BY <1>8
  <1> HIDE DEF iter
  <1>10. \A s \in SUBSET S : iter[s] = IF s = {} THEN tx
                                        ELSE Op(iter[s \ {Some(s)}], Some(s))
    BY <1>9
  <1>11. iter[{}] \in Holding(E)
    BY <1>10
  <1>12. \A s \in SUBSET S : s # {} => \E x \in s : iter[s \ {x}] \in Holding(E)
                                                     => iter[s] \in Holding(E)
    <2> SUFFICES ASSUME NEW s \in SUBSET S, s # {}, iter[s \ {Some(s)}] \in Holding(E)
                 PROVE  iter[s] \in Holding(E)
      BY <1>4
    <2>1. Op(iter[s \ {Some(s)}], Some(s)) \in Holding(E)
      BY <1>3, <1>4
    <2> QED BY <1>10, <2>1
  <1>13. iter[S] \in Holding(E)
    BY <1>2, <1>11, <1>12, FoldKeeps
  <1> QED BY <1>1, <1>13

(* Rebuild goes through the rows twice.                                     *)
LEMMA RebuiltInline ==
    ASSUME NamesApart, Shape, NEW E, OwnRows(E), NEW base \in Holding(E)
    PROVE  FoldLeft(LAMBDA acc, a : IF a \in RealCheckins
                                 THEN InlineTags(acc, AllLinks, a) ELSE acc, base, rows) \in Holding(E)
  <1> DEFINE S == DOMAIN rows
             Op(acc, x) == IF rows[x] \in RealCheckins THEN InlineTags(acc, AllLinks, rows[x]) ELSE acc
             Fold(f) == [s \in SUBSET S |-> IF s = {} THEN base
                           ELSE Op(f[s \ {Max(s)}], Max(s))]
             iter == CHOOSE f : f = Fold(f)
             ch == [s \in SUBSET S |-> Max(s)]
             g == [z \in S \X Holding(E) |-> Op(z[2], z[1])]
  <1>1. FoldLeft(LAMBDA acc, a : IF a \in RealCheckins
                                 THEN InlineTags(acc, AllLinks, a) ELSE acc, base, rows) = iter[S]
    BY Zenon DEF FoldLeft, MapThenFoldSet
  <1>2. IsFiniteSet(S) /\ S = 1..Len(rows) /\ Len(rows) \in Nat
    BY FS_Interval DEF Shape
  <1>3. ASSUME NEW i \in S, NEW acc \in Holding(E) PROVE Op(acc, i) \in Holding(E)
    <2>1. rows[i] \in Artifact /\ Rows \in SUBSET Artifact
      BY <1>2 DEF Shape, Rows, ToSet
    <2> QED BY <2>1, InlineHolds
  <1> HIDE DEF S, Op
  <1>4. \A s \in SUBSET S : s # {} => Max(s) \in s
    <2> SUFFICES ASSUME NEW s \in SUBSET S, s # {} PROVE Max(s) \in s
      OBVIOUS
    <2>1. s \in SUBSET (0..Len(rows)) /\ Len(rows) \in Nat
      BY <1>2
    <2> QED BY <2>1, MaxElement
  <1>5. \A s \in SUBSET S : s # {} => ch[s] \in s
    BY <1>4
  <1>6. g \in [S \X Holding(E) -> Holding(E)]
    BY <1>3
  <1>7. PICK f \in [SUBSET S -> Holding(E)] : Unfolds(f, S, base, ch, g)
    <2> HIDE DEF g, ch
    <2> QED BY <1>2, <1>5, <1>6, FoldExists
  <1>8. f = Fold(f)
    <2>1. ASSUME NEW s \in SUBSET S, s # {}
          PROVE  g[<<ch[s], f[s \ {ch[s]}]>>] = Op(f[s \ {Max(s)}], Max(s))
      <3>1. ch[s] \in S /\ f[s \ {ch[s]}] \in Holding(E) /\ ch[s] = Max(s)
        BY <1>5, <1>7, <2>1
      <3> HIDE DEF ch
      <3>2. g[<<ch[s], f[s \ {ch[s]}]>>] = Op(f[s \ {ch[s]}], ch[s])
        BY <3>1
      <3> QED BY <3>1, <3>2
    <2>2. \A s \in SUBSET S : f[s] = IF s = {} THEN base
                                ELSE Op(f[s \ {Max(s)}], Max(s))
      <3> HIDE DEF g, ch
      <3> QED BY <1>7, <2>1 DEF Unfolds
    <2> QED BY <1>7, <2>2
  <1>9. iter = Fold(iter)
    <2> HIDE DEF Fold
    <2> QED BY <1>8
  <1> HIDE DEF iter
  <1>10. \A s \in SUBSET S : iter[s] = IF s = {} THEN base
                                        ELSE Op(iter[s \ {Max(s)}], Max(s))
    BY <1>9
  <1>11. iter[{}] \in Holding(E)
    BY <1>10
  <1>12. \A s \in SUBSET S : s # {} => \E x \in s : iter[s \ {x}] \in Holding(E)
                                                     => iter[s] \in Holding(E)
    <2> SUFFICES ASSUME NEW s \in SUBSET S, s # {}, iter[s \ {Max(s)}] \in Holding(E)
                 PROVE  iter[s] \in Holding(E)
      BY <1>4
    <2>1. Op(iter[s \ {Max(s)}], Max(s)) \in Holding(E)
      BY <1>3, <1>4
    <2> QED BY <1>10, <2>1
  <1>13. iter[S] \in Holding(E)
    BY <1>2, <1>11, <1>12, FoldKeeps
  <1> QED BY <1>1, <1>13

LEMMA RebuiltControl ==
    ASSUME NamesApart, Shape, NEW E, OwnRows(E), NEW base \in Holding(E)
    PROVE  FoldLeft(LAMBDA acc, a : IF a \in real /\ Deck[a].kind = "control"
                                 THEN ControlTags(acc, AllLinks, a, Rows) ELSE acc, base, rows) \in Holding(E)
  <1> DEFINE S == DOMAIN rows
             Op(acc, x) == IF rows[x] \in real /\ Deck[rows[x]].kind = "control" THEN ControlTags(acc, AllLinks, rows[x], Rows) ELSE acc
             Fold(f) == [s \in SUBSET S |-> IF s = {} THEN base
                           ELSE Op(f[s \ {Max(s)}], Max(s))]
             iter == CHOOSE f : f = Fold(f)
             ch == [s \in SUBSET S |-> Max(s)]
             g == [z \in S \X Holding(E) |-> Op(z[2], z[1])]
  <1>1. FoldLeft(LAMBDA acc, a : IF a \in real /\ Deck[a].kind = "control"
                                 THEN ControlTags(acc, AllLinks, a, Rows) ELSE acc, base, rows) = iter[S]
    BY Zenon DEF FoldLeft, MapThenFoldSet
  <1>2. IsFiniteSet(S) /\ S = 1..Len(rows) /\ Len(rows) \in Nat
    BY FS_Interval DEF Shape
  <1>3. ASSUME NEW i \in S, NEW acc \in Holding(E) PROVE Op(acc, i) \in Holding(E)
    <2>1. rows[i] \in Artifact /\ Rows \in SUBSET Artifact
      BY <1>2 DEF Shape, Rows, ToSet
    <2> QED BY <2>1, ControlHolds
  <1> HIDE DEF S, Op
  <1>4. \A s \in SUBSET S : s # {} => Max(s) \in s
    <2> SUFFICES ASSUME NEW s \in SUBSET S, s # {} PROVE Max(s) \in s
      OBVIOUS
    <2>1. s \in SUBSET (0..Len(rows)) /\ Len(rows) \in Nat
      BY <1>2
    <2> QED BY <2>1, MaxElement
  <1>5. \A s \in SUBSET S : s # {} => ch[s] \in s
    BY <1>4
  <1>6. g \in [S \X Holding(E) -> Holding(E)]
    BY <1>3
  <1>7. PICK f \in [SUBSET S -> Holding(E)] : Unfolds(f, S, base, ch, g)
    <2> HIDE DEF g, ch
    <2> QED BY <1>2, <1>5, <1>6, FoldExists
  <1>8. f = Fold(f)
    <2>1. ASSUME NEW s \in SUBSET S, s # {}
          PROVE  g[<<ch[s], f[s \ {ch[s]}]>>] = Op(f[s \ {Max(s)}], Max(s))
      <3>1. ch[s] \in S /\ f[s \ {ch[s]}] \in Holding(E) /\ ch[s] = Max(s)
        BY <1>5, <1>7, <2>1
      <3> HIDE DEF ch
      <3>2. g[<<ch[s], f[s \ {ch[s]}]>>] = Op(f[s \ {ch[s]}], ch[s])
        BY <3>1
      <3> QED BY <3>1, <3>2
    <2>2. \A s \in SUBSET S : f[s] = IF s = {} THEN base
                                ELSE Op(f[s \ {Max(s)}], Max(s))
      <3> HIDE DEF g, ch
      <3> QED BY <1>7, <2>1 DEF Unfolds
    <2> QED BY <1>7, <2>2
  <1>9. iter = Fold(iter)
    <2> HIDE DEF Fold
    <2> QED BY <1>8
  <1> HIDE DEF iter
  <1>10. \A s \in SUBSET S : iter[s] = IF s = {} THEN base
                                        ELSE Op(iter[s \ {Max(s)}], Max(s))
    BY <1>9
  <1>11. iter[{}] \in Holding(E)
    BY <1>10
  <1>12. \A s \in SUBSET S : s # {} => \E x \in s : iter[s \ {x}] \in Holding(E)
                                                     => iter[s] \in Holding(E)
    <2> SUFFICES ASSUME NEW s \in SUBSET S, s # {}, iter[s \ {Max(s)}] \in Holding(E)
                 PROVE  iter[s] \in Holding(E)
      BY <1>4
    <2>1. Op(iter[s \ {Max(s)}], Max(s)) \in Holding(E)
      BY <1>3, <1>4
    <2> QED BY <1>10, <2>1
  <1>13. iter[S] \in Holding(E)
    BY <1>2, <1>11, <1>12, FoldKeeps
  <1> QED BY <1>1, <1>13

LEMMA RebuiltHolds ==
    ASSUME NamesApart, Shape
    PROVE  RebuiltTags \in Holding({})
  <1>1. {} \in Holding({}) /\ OwnRows({})
    BY FS_EmptySet DEF Holding, NoteRows, OwnRows
  <1> DEFINE inline == FoldLeft(LAMBDA acc, a : IF a \in RealCheckins
                                                THEN InlineTags(acc, AllLinks, a) ELSE acc, {}, rows)
  <1>2. inline \in Holding({})
    BY <1>1, RebuiltInline
  <1>3. RebuiltTags = FoldLeft(LAMBDA acc, a : IF a \in real /\ Deck[a].kind = "control"
                                 THEN ControlTags(acc, AllLinks, a, Rows) ELSE acc, inline, rows)
    BY Zenon DEF RebuiltTags
  <1> HIDE DEF inline
  <1>4. FoldLeft(LAMBDA acc, a : IF a \in real /\ Deck[a].kind = "control"
                                 THEN ControlTags(acc, AllLinks, a, Rows) ELSE acc, inline, rows)
          \in Holding({})
    BY <1>1, <1>2, RebuiltControl
  <1> QED BY <1>3, <1>4

LEMMA CheckinTagsHold ==
    ASSUME NamesApart, NEW E, OwnRows(E), NEW tx \in Holding(E), NEW links, NEW a \in Artifact,
           NEW present
    PROVE  TagsOfCheckin(tx, links, a, present) \in Holding(E)
  <1>1. InlineTags(tx, links, a) \in Holding(E)
    BY InlineHolds
  <1>2. PropagateAll(InlineTags(tx, links, a), links, Deck[a].P[1]) \in Holding(E)
    BY <1>1, PropagateAllHolds
  <1> QED BY <1>1, <1>2 DEF TagsOfCheckin

LEMMA FWTTagsHold ==
    ASSUME NEW E, OwnRows(E), tagxref \in Holding(E), NEW a
    PROVE  FWTTags(a) \in Holding(E)
  BY PropagateAllHolds DEF FWTTags

-----------------------------------------------------------------------------
(* A version of a tech note that is newer than another has a P-card.        *)
NotesEdited ==
    \A a, b \in Artifact :
        /\ Deck[a].kind = "technote" /\ Deck[b].kind = "technote"
        /\ Deck[a].id = Deck[b].id /\ Deck[b].D < Deck[a].D
        => Deck[a].P # << >>

TagsSound == tagxref \in Holding(NoteRows(tagxref)) /\ OwnRows(NoteRows(tagxref))

(* A version that is shown has its row in tagxref.                          *)
ShownTagged ==
    \A a \in Artifact : Deck[a].kind = "technote" /\ event[a] = "e"
        => a \in Versions(tagxref, a)

Note(a) == a \in Artifact /\ Deck[a].kind = "technote"

(* Of the versions v and what is shown, b, when those of U are unfinished.  *)
Newest(v, b, U) ==
    Deck[v].D <= Deck[b].D \/ \E u \in Versions(tagxref, b) \cap U : Deck[u].D >= Deck[v].D

(* A version that the sweep has before it has no tag yet, and none of its   *)
(* statements is done.                                                      *)
NotYet ==
    /\ \A a \in Artifact :
         Note(a) /\ (a \in sweep \/ <<a, "own">> \in todo) => a \notin Versions(tagxref, a)
    /\ \A a \in sweep, s \in Statements : <<a, s>> \notin todo

(* What holds of a version when its next statement is s: what is shown      *)
(* would be the newest also without it, its own row aside until the older   *)
(* rows have been dropped.                                                  *)
NoteStep(a, s) ==
    /\ s # "own" => a \in Versions(tagxref, a)
    /\ s = "older" =>
         \A b \in Artifact : Note(b) /\ Deck[b].id = Deck[a].id /\ event[b] = "e" =>
             \A v \in Versions(tagxref, b) \ {a} : Newest(v, b, Unfinished \ {a})
    /\ s = "event" =>
         /\ Subsequent(tagxref, a) = {}
         /\ \A b \in Artifact : Note(b) /\ Deck[b].id = Deck[a].id /\ b # a => event[b] # "e"
    /\ s = "retype" =>
         \A b \in Artifact : Note(b) /\ Deck[b].id = Deck[a].id /\ event[b] = "e" =>
             \A v \in Versions(tagxref, b) : Newest(v, b, Unfinished \ {a})

NoteSteps == \A a \in Artifact, s \in Statements : <<a, s>> \in todo /\ Note(a) => NoteStep(a, s)

NotesRight == TagsSound /\ ShownTagged /\ NewestTechnotes

NoteInv == AttachInv /\ NotesRight /\ NotYet /\ NoteSteps

LEMMA VersionsOfRows ==
    ASSUME NEW tx, NEW a
    PROVE  Versions(tx, a) = {r.rid : r \in {s \in NoteRows(tx) : s.tag = <<"event", Deck[a].id>>}}
  BY DEF Versions, NoteRows

(* All versions are tech notes, and those of one name are the same set.     *)
LEMMA VersionsSound ==
    ASSUME TagsSound
    PROVE  /\ \A a, v : v \in Versions(tagxref, a) => Note(v) /\ Deck[v].D \in 1..MaxTime
           /\ \A a, b : Deck[a].id = Deck[b].id => Versions(tagxref, a) = Versions(tagxref, b)
  <1>1. \A r \in NoteRows(tagxref) : r.rid \in Artifact /\ Deck[r.rid].kind = "technote"
    BY DEF TagsSound, Holding, NoteRows, OwnRows, TagRow
  <1>2. ASSUME NEW a, NEW v \in Versions(tagxref, a) PROVE Note(v) /\ Deck[v].D \in 1..MaxTime
    <2>1. Note(v)
      BY <1>1, <1>2, VersionsOfRows DEF Note
    <2> QED BY <2>1, DeckFacts DEF Note, DeckType
  <1>3. \A a, b : Deck[a].id = Deck[b].id => Versions(tagxref, a) = Versions(tagxref, b)
    BY DEF Versions
  <1> QED BY <1>2, <1>3

(* A step that leaves the tags of tech notes alone, shows none, and         *)
(* finishes none.                                                           *)
LEMMA NotesUntouched ==
    ASSUME NoteInv, tagxref' \in Holding(NoteRows(tagxref)),
           \A a \in Artifact : Deck[a].kind = "technote" /\ event'[a] = "e" => event[a] = "e",
           \A u \in Unfinished : Note(u) => u \in Unfinished'
    PROVE  /\ NotesRight'
           /\ \A a : Versions(tagxref', a) = Versions(tagxref, a)
  <1>1. NoteRows(tagxref') = NoteRows(tagxref)
    BY DEF Holding
  <1>2. \A a : Versions(tagxref', a) = Versions(tagxref, a)
    BY <1>1, VersionsOfRows
  <1>3. TagsSound'
    BY <1>1 DEF NoteInv, NotesRight, TagsSound
  <1>4. ShownTagged'
    BY <1>2 DEF NoteInv, NotesRight, ShownTagged
  <1>5. \A a, v : v \in Versions(tagxref, a) => Note(v)
    BY VersionsSound DEF NoteInv, NotesRight
  <1>6. NewestTechnotes'
    <2> SUFFICES ASSUME NEW a \in Artifact, Deck[a].kind = "technote", event'[a] = "e",
                        NEW v \in Versions(tagxref, a)
                 PROVE  \/ Deck[v].D <= Deck[a].D
                        \/ \E u \in Versions(tagxref, a) \cap Unfinished' : Deck[u].D >= Deck[v].D
      BY <1>2 DEF NewestTechnotes
    <2>1. \/ Deck[v].D <= Deck[a].D
          \/ \E u \in Versions(tagxref, a) \cap Unfinished : Deck[u].D >= Deck[v].D
      BY DEF NoteInv, NotesRight, NewestTechnotes
    <2> QED BY <1>5, <2>1
  <1> QED BY <1>2, <1>3, <1>4, <1>6 DEF NotesRight

(* The tag of a version: it is not yet shown, and not finished.             *)
LEMMA TagNotes ==
    ASSUME NoteInv, NEW a, TagTechnote(a)
    PROVE  NotesRight' /\ NotYet' /\ NoteSteps'
  <1> DEFINE id == Deck[a].id
             E == NoteRows(tagxref)
             row == [rid |-> a, tag |-> <<"event", id>>, type |-> 1, src |-> a, orig |-> a,
                     value |-> id, mtime |-> Deck[a].D]
  <1>1. /\ Note(a) /\ tagxref' = Put(tagxref, row) /\ UNCHANGED <<event, torn, sweep>>
        /\ todo = {<<a, "own">>} /\ todo' = {<<a, "older">>} /\ "own" \in Statements
    <2>1. ApplyTag(tagxref, plink, a, a, OwnTag("event", a), Deck[a].D) = Put(tagxref, row)
      BY DEF ApplyTag, OwnTag
    <2> HIDE DEF row
    <2> QED BY <2>1, GoesFacts DEF NoteInv, AttachInv, TagTechnote, ApplyOwnTag, Goes, Continues,
                                   Note, observers
  <1>2. id \in Id /\ Deck[a].D \in 1..MaxTime /\ a # Self /\ a \in Artifact
    BY <1>1, DeckFacts, ConstantsAssumption DEF DeckType, Note
  <1>3. row \in TagRow /\ row.tag = <<"event", id>> /\ row.tag[1] = "event" /\ row.rid = a
        /\ row.type # 2 /\ row.src # Self /\ row.src = a
    BY <1>2 DEF TagRow, Tag
  <1> HIDE DEF row
  <1>4. /\ tagxref \in SUBSET TagRow /\ IsFiniteSet(tagxref) /\ OwnRows(E)
        /\ NotesRight /\ NotYet /\ TagsSound
    BY DEF NoteInv, NotesRight, TagsSound, Holding
  <1>5. /\ IsFiniteSet(tagxref') /\ tagxref' \in SUBSET TagRow
        /\ NoteRows(tagxref') = {r \in E : r.rid # a \/ r.tag # <<"event", id>>} \cup {row}
    <2>1. tagxref \ RowOf(tagxref, a, <<"event", id>>) \in SUBSET tagxref
      OBVIOUS
    <2>2. IsFiniteSet(tagxref \ RowOf(tagxref, a, <<"event", id>>))
      BY <1>4, <2>1, FS_Subset
    <2>3. tagxref' = (tagxref \ RowOf(tagxref, a, <<"event", id>>)) \cup {row}
      BY <1>1, <1>3 DEF Put
    <2>4. IsFiniteSet(tagxref') /\ tagxref' \in SUBSET TagRow
      BY <1>3, <1>4, <2>1, <2>2, <2>3, FS_AddElement
    <2>5. NoteRows(tagxref') = {r \in E : r.rid # a \/ r.tag # <<"event", id>>} \cup {row}
      BY <1>3, <1>4, <2>3 DEF NoteRows, RowOf
    <2> QED BY <2>4, <2>5
  <1>6. TagsSound'
    BY <1>1, <1>3, <1>4, <1>5 DEF TagsSound, Holding, OwnRows, Note
  <1>7. ASSUME NEW b
        PROVE  Versions(tagxref', b) = IF Deck[b].id = id THEN Versions(tagxref, b) \cup {a}
                                       ELSE Versions(tagxref, b)
    <2>1. /\ Versions(tagxref', b) = {r.rid : r \in {s \in NoteRows(tagxref') :
                                                        s.tag = <<"event", Deck[b].id>>}}
          /\ Versions(tagxref, b) = {r.rid : r \in {s \in E : s.tag = <<"event", Deck[b].id>>}}
      BY VersionsOfRows
    <2> HIDE DEF E
    <2>2. CASE Deck[b].id = id
      BY <1>3, <1>5, <2>1, <2>2
    <2>3. CASE Deck[b].id # id
      BY <1>3, <1>5, <2>1, <2>3
    <2> QED BY <2>2, <2>3
  <1>8. Unfinished' = Unfinished /\ a \in Unfinished
    BY <1>1, CutKept DEF Unfinished
  <1>9. a \notin Versions(tagxref, a)
    BY <1>1, <1>2, <1>4 DEF NotYet
  <1>10. ShownTagged'
    BY <1>1, <1>4, <1>7 DEF NotesRight, ShownTagged
  <1>11. ASSUME NEW b \in Artifact, Note(b), event[b] = "e", NEW v \in Versions(tagxref, b)
         PROVE  Newest(v, b, Unfinished)
    BY <1>4, <1>11 DEF NotesRight, NewestTechnotes, Newest, Note
  <1>12. NewestTechnotes'
    <2> SUFFICES ASSUME NEW b \in Artifact, Note(b), event[b] = "e",
                        NEW v \in Versions(tagxref', b)
                 PROVE  \/ Deck[v].D <= Deck[b].D
                        \/ \E u \in Versions(tagxref', b) \cap Unfinished : Deck[u].D >= Deck[v].D
      BY <1>1, <1>8 DEF NewestTechnotes, Note
    <2>1. CASE v \in Versions(tagxref, b)
      BY <1>7, <1>11, <2>1 DEF Newest
    <2>2. CASE v \notin Versions(tagxref, b)
      BY <1>2, <1>7, <1>8, <2>2
    <2> QED BY <2>1, <2>2
  <1>13. NoteStep(a, "older")'
    <2>1. a \in Versions(tagxref', a)
      BY <1>7
    <2>2. ASSUME NEW b \in Artifact, Note(b), Deck[b].id = id, event[b] = "e",
                 NEW v \in Versions(tagxref', b) \ {a}
          PROVE  \/ Deck[v].D <= Deck[b].D
                 \/ \E u \in Versions(tagxref', b) \cap (Unfinished \ {a}) : Deck[u].D >= Deck[v].D
      <3>1. v \in Versions(tagxref, b) /\ Versions(tagxref, b) = Versions(tagxref, a)
        BY <1>4, <1>7, <2>2, VersionsSound
      <3> QED BY <1>7, <1>9, <1>11, <2>2, <3>1 DEF Newest
    <2> QED BY <1>1, <1>8, <2>1, <2>2 DEF NoteStep, Newest, Note
  <1>14. NoteSteps'
    BY <1>1, <1>13 DEF NoteSteps
  <1>15. NotYet'
    <2>1. a \notin sweep
      BY <1>1, <1>4 DEF NotYet
    <2>2. ASSUME NEW b \in Artifact, Note(b), b \in sweep PROVE b \notin Versions(tagxref', b)
      BY <1>4, <1>7, <2>1, <2>2 DEF NotYet
    <2> QED BY <1>1, <2>1, <2>2 DEF NotYet, Note
  <1> QED BY <1>6, <1>10, <1>12, <1>14, <1>15 DEF NotesRight

(* The older versions are dropped, or the version is an older one itself.   *)
LEMMA DropNotes ==
    ASSUME NotesEdited, NoteInv, NEW a, DropOlder(a)
    PROVE  NotesRight' /\ NotYet' /\ NoteSteps'
  <1>1. /\ UNCHANGED <<tagxref, torn, sweep>> /\ todo = {<<a, "older">>}
        /\ todo' = {<<a, "event">>} /\ Note(a) /\ "older" \in Statements
        /\ event' = [b \in Artifact |-> IF b \in Older(a) THEN "none" ELSE event[b]]
        /\ Subsequent(tagxref, a) = {}
    BY GoesFacts DEF NoteInv, AttachInv, DropOlder, Goes, Continues, Note, Fits, observers
  <1>2. /\ NotesRight /\ NotYet /\ a \in Versions(tagxref, a) /\ TagsSound
    BY <1>1 DEF NoteInv, NotesRight, NoteSteps, NoteStep, Note
  <1>3. Unfinished' = Unfinished
    BY <1>1, CutKept
  <1>4. \A b \in Artifact : event'[b] = "e" => event[b] = "e" /\ b \notin Older(a)
    BY <1>1
  <1>5. NotesRight'
    BY <1>1, <1>2, <1>3, <1>4 DEF NotesRight, TagsSound, ShownTagged, NewestTechnotes
  <1>6. ASSUME NEW b \in Artifact, Note(b), Deck[b].id = Deck[a].id, b # a, event'[b] = "e"
        PROVE  FALSE
    <2>1. b \in Versions(tagxref, b) /\ Versions(tagxref, b) = Versions(tagxref, a)
      BY <1>2, <1>4, <1>6, VersionsSound DEF NotesRight, ShownTagged, Note
    <2>2. Deck[b].D \in 1..MaxTime /\ Deck[a].D \in 1..MaxTime
      BY <1>2, <2>1, VersionsSound
    <2>3. Deck[b].D < Deck[a].D
      BY <1>1, <1>6, <2>1, <2>2 DEF Subsequent
    <2>4. Deck[a].P # << >>
      BY <1>1, <1>6, <2>3 DEF NotesEdited, Note
    <2> QED BY <1>4, <1>6, <2>1, <2>4 DEF Older, Note
  <1>7. NoteStep(a, "event")'
    <2>1. Subsequent(tagxref', a) = {} /\ a \in Versions(tagxref', a)
      BY <1>1, <1>2
    <2> QED BY <1>6, <2>1 DEF NoteStep, Note
  <1>8. NoteSteps' /\ NotYet'
    BY <1>1, <1>2, <1>7 DEF NoteSteps, NotYet
  <1> QED BY <1>5, <1>8

LEMMA OlderNotes ==
    ASSUME NoteInv, NEW a, IsOlder(a)
    PROVE  NotesRight' /\ NotYet' /\ NoteSteps'
  <1>1. /\ UNCHANGED <<tagxref, torn, sweep, event>> /\ todo = {<<a, "older">>}
        /\ todo' = {<<a, "retype">>} /\ Note(a) /\ "older" \in Statements
        /\ Subsequent(tagxref, a) # {}
    BY GoesFacts DEF NoteInv, AttachInv, IsOlder, Goes, Continues, Note, Fits, observers, tables
  <1>2. NotesRight /\ NotYet /\ NoteStep(a, "older") /\ TagsSound
    BY <1>1 DEF NoteInv, NotesRight, NoteSteps, Note
  <1>3. Unfinished' = Unfinished
    BY <1>1, CutKept
  <1>4. NotesRight'
    BY <1>1, <1>2, <1>3 DEF NotesRight, TagsSound, ShownTagged, NewestTechnotes
  <1>5. ASSUME NEW b \in Artifact, Note(b), Deck[b].id = Deck[a].id, event[b] = "e",
               NEW v \in Versions(tagxref, b)
        PROVE  Newest(v, b, Unfinished \ {a})
    <2>1. \A w \in Versions(tagxref, b) \ {a} : Newest(w, b, Unfinished \ {a})
      BY <1>2, <1>5 DEF NoteStep
    <2>2. CASE v = a
      <3>1. PICK w \in Versions(tagxref, a) \ {a} : Deck[w].D >= Deck[a].D
        BY <1>1 DEF Subsequent
      <3>2. /\ w \in Versions(tagxref, b) /\ w # a
            /\ \A u \in Versions(tagxref, b) : Deck[u].D \in 1..MaxTime
        BY <1>2, <1>5, <3>1, VersionsSound
      <3>3. Deck[b].D \in 1..MaxTime
        BY <1>5, DeckFacts DEF DeckType
      <3>4. CASE Deck[w].D <= Deck[b].D
        BY <2>2, <3>1, <3>2, <3>3, <3>4 DEF Newest
      <3>5. CASE \E u \in Versions(tagxref, b) \cap (Unfinished \ {a}) : Deck[u].D >= Deck[w].D
        <4>1. PICK u \in Versions(tagxref, b) \cap (Unfinished \ {a}) : Deck[u].D >= Deck[w].D
          BY <3>5
        <4>2. Deck[u].D >= Deck[v].D
          BY <2>2, <3>1, <3>2, <4>1
        <4> QED BY <4>1, <4>2 DEF Newest
      <3> QED BY <2>1, <3>2, <3>4, <3>5 DEF Newest
    <2> QED BY <2>1, <2>2
  <1>6. NoteStep(a, "retype")'
    <2>1. a \in Versions(tagxref', a)
      BY <1>1, <1>2 DEF NoteStep
    <2>2. \A b \in Artifact : Note(b) /\ Deck[b].id = Deck[a].id /\ event'[b] = "e" =>
             \A v \in Versions(tagxref', b) : Newest(v, b, Unfinished \ {a})'
      BY <1>1, <1>3, <1>5 DEF Newest
    <2> QED BY <2>1, <2>2 DEF NoteStep, Note
  <1>7. NoteSteps' /\ NotYet'
    BY <1>1, <1>2, <1>6 DEF NoteSteps, NotYet
  <1> QED BY <1>4, <1>7

(* The event row of a version: it is the newest.                            *)
LEMMA ShowNotes ==
    ASSUME NoteInv, NEW a, Note(a), WriteEvent(a)
    PROVE  NotesRight' /\ NotYet' /\ NoteSteps'
  <1>1. /\ UNCHANGED <<tagxref, torn, sweep>> /\ todo = {<<a, "event">>}
        /\ todo' = {<<a, "retype">>} /\ "event" \in Statements
        /\ event' = [event EXCEPT ![a] = "e"]
    <2>1. TypeOfEvent(a) = "e"
      BY DEF TypeOfEvent, Note
    <2> QED BY <2>1, GoesFacts DEF NoteInv, AttachInv, WriteEvent, Goes, Continues, Note, observers
  <1>2. NotesRight /\ NotYet /\ NoteStep(a, "event") /\ TagsSound /\ event \in [Artifact -> EventType]
    BY <1>1 DEF NoteInv, NotesRight, NoteSteps, Note, AttachInv, Shape
  <1>3. Unfinished' = Unfinished
    BY <1>1, CutKept
  <1>4. a \in Versions(tagxref, a) /\ \A v \in Versions(tagxref, a) : Deck[v].D <= Deck[a].D
    <2>1. a \in Versions(tagxref, a) /\ Subsequent(tagxref, a) = {}
      BY <1>2 DEF NoteStep
    <2>2. \A v \in Versions(tagxref, a) : Deck[v].D \in 1..MaxTime
      BY <1>2, VersionsSound
    <2> QED BY <2>1, <2>2 DEF Subsequent
  <1>5. \A b \in Artifact : event'[b] = IF b = a THEN "e" ELSE event[b]
    BY <1>1, <1>2
  <1>6. NotesRight'
    BY <1>1, <1>2, <1>3, <1>4, <1>5 DEF NotesRight, TagsSound, ShownTagged, NewestTechnotes
  <1>7. ASSUME NEW b \in Artifact, Note(b), Deck[b].id = Deck[a].id, event'[b] = "e",
               NEW v \in Versions(tagxref, b)
        PROVE  Deck[v].D <= Deck[b].D
    <2>1. b = a
      BY <1>2, <1>5, <1>7 DEF NoteStep
    <2> QED BY <1>4, <1>7, <2>1
  <1>8. NoteStep(a, "retype")'
    BY <1>1, <1>4, <1>7 DEF NoteStep, Newest, Note
  <1>9. NoteSteps' /\ NotYet'
    BY <1>1, <1>2, <1>8 DEF NoteSteps, NotYet
  <1> QED BY <1>6, <1>9

(* A version that is finished is not needed as an exception any more.       *)
LEMMA RetypedNotes ==
    ASSUME NoteInv, NEW a, Note(a), Retyped(a)
    PROVE  NotesRight' /\ NotYet' /\ NoteSteps'
  <1>1. /\ UNCHANGED <<tagxref, event, sweep>> /\ todo = {<<a, "retype">>}
        /\ todo' = {} /\ "retype" \in Statements /\ torn' = torn \ {a}
    <2>1. \A b : Mends(a, b) <=> b = a
      BY DEF Mends, Note
    <2> QED BY <2>1, GoesFacts DEF NoteInv, AttachInv, Retyped, Goes, Ends, Note, tables
  <1>2. NotesRight /\ NotYet /\ NoteStep(a, "retype") /\ TagsSound
    BY <1>1 DEF NoteInv, NotesRight, NoteSteps, Note
  <1>3. Unfinished' = Unfinished \ {a}
    BY <1>1 DEF Unfinished
  <1>4. NewestTechnotes'
    <2> SUFFICES ASSUME NEW b \in Artifact, Note(b), event[b] = "e",
                        NEW v \in Versions(tagxref, b)
                 PROVE  Newest(v, b, Unfinished \ {a})
      BY <1>1, <1>3 DEF NewestTechnotes, Newest, Note
    <2>1. CASE Deck[b].id = Deck[a].id
      BY <1>2, <2>1 DEF NoteStep
    <2>2. CASE Deck[b].id # Deck[a].id
      <3>1. Newest(v, b, Unfinished)
        BY <1>2 DEF NotesRight, NewestTechnotes, Newest, Note
      <3>2. a \notin Versions(tagxref, b)
        <4> SUFFICES ASSUME a \in Versions(tagxref, b) PROVE FALSE
          OBVIOUS
        <4>1. PICK r \in NoteRows(tagxref) : r.rid = a /\ r.tag = <<"event", Deck[b].id>>
          BY VersionsOfRows
        <4> QED BY <1>2, <2>2, <4>1 DEF TagsSound, OwnRows
      <3> QED BY <3>1, <3>2 DEF Newest
    <2> QED BY <2>1, <2>2
  <1>5. NotesRight'
    BY <1>1, <1>2, <1>4 DEF NotesRight, TagsSound, ShownTagged
  <1>6. NoteSteps' /\ NotYet'
    BY <1>1, <1>2 DEF NoteSteps, NotYet
  <1> QED BY <1>5, <1>6

LEMMA NextNotes ==
    ASSUME NamesApart, NotesEdited, NoteInv, [Next]_vars
    PROVE  NoteInv'
  <1> USE DEF tables, boundVars, observers
  <1> DEFINE E == NoteRows(tagxref)
             Kept == /\ tagxref' \in Holding(E)
                     /\ \A b \in Artifact : Deck[b].kind = "technote" /\ event'[b] = "e"
                                              => event[b] = "e"
             Ended == \A u \in Unfinished : Note(u) => u \in Unfinished'
             Keeps == NotesRight' /\ NotYet' /\ NoteSteps'
  <1>0. /\ AttachInv' /\ Shape /\ Rows \in SUBSET Artifact
        /\ sweep \subseteq Artifact /\ world \subseteq Artifact /\ untagged \subseteq Artifact
        /\ event \in [Artifact -> EventType]
        /\ \A b \in attachment : b \in Artifact /\ Deck[b].kind = "attachment"
        /\ tagxref \in Holding(E) /\ OwnRows(E)
        /\ NotesRight /\ NotYet /\ NoteSteps /\ TagsSound
    BY NextAttach DEF NoteInv, NotesRight, AttachInv, Shape, Rows, ToSet, TagsSound
  <1> SUFFICES Keeps
    BY <1>0 DEF NoteInv
  <1>1. ASSUME Kept, Ended, NotYet', NoteSteps' PROVE Keeps
    BY <1>1, NotesUntouched
  <1>2. ASSUME Kept, sweep' \subseteq sweep, todo' = {} PROVE NotYet' /\ NoteSteps'
    <2>1. \A a : Versions(tagxref', a) = Versions(tagxref, a)
      BY <1>2, VersionsOfRows DEF Holding
    <2> QED BY <1>0, <1>2, <2>1 DEF NotYet, NoteSteps
  <1>3. ASSUME Kept, sweep' = sweep, todo' = todo, torn' = torn PROVE Keeps
    <2>1. \A a : Versions(tagxref', a) = Versions(tagxref, a)
      BY <1>3, VersionsOfRows DEF Holding
    <2>2. Unfinished' = Unfinished
      BY <1>3 DEF Unfinished
    <2>3. NotYet'
      BY <1>0, <1>3, <2>1 DEF NotYet
    <2>4. \A a : Subsequent(tagxref', a) = Subsequent(tagxref, a)
      BY <2>1 DEF Subsequent
    <2>6. ASSUME NEW a \in Artifact, NEW s \in Statements, NoteStep(a, s) PROVE NoteStep(a, s)'
      <3>1. \A v, b : Newest(v, b, Unfinished \ {a})' <=> Newest(v, b, Unfinished \ {a})
        BY <2>1, <2>2 DEF Newest
      <3> QED BY <1>3, <2>1, <2>4, <2>6, <3>1 DEF NoteStep, Note
    <2>7. NoteSteps'
      BY <1>0, <1>3, <2>6 DEF NoteSteps, Note
    <2> QED BY <1>1, <1>3, <2>2, <2>3, <2>7
  <1>4. ASSUME Kept, Ended, NEW a, NEW s, Continues(a, s), sweep' \subseteq sweep, a \notin sweep',
               Deck[a].kind # "technote"
        PROVE  Keeps
    <2>1. \A b : Versions(tagxref', b) = Versions(tagxref, b)
      BY <1>4, VersionsOfRows DEF Holding
    <2>2. NotYet' /\ NoteSteps'
      BY <1>0, <1>4, <2>1 DEF NotYet, NoteSteps, Continues, Note
    <2> QED BY <1>1, <1>4, <2>2
  <1>5. ASSUME todo = {}, torn' = torn PROVE Ended
    BY <1>5 DEF Unfinished
  <1>6. ASSUME NEW a, NEW s, todo = {<<a, s>>}, torn' = torn, NEW t, Continues(a, t) PROVE Ended
    BY <1>6, CutKept DEF Continues
  <1>7. ASSUME NEW a, NEW s, todo = {<<a, s>>}, Ends(a), Deck[a].kind # "technote" PROVE Ended
    <2>1. \A u : Note(u) => ~Mends(a, u)
      BY <1>7 DEF Mends, Note
    <2> QED BY <1>7, <2>1 DEF Ends, Unfinished, Note
  <1>8. ASSUME NEW a \in Artifact, NEW type, Deck[a].kind # "technote" \/ type # "e",
               event' = [event EXCEPT ![a] = type], tagxref' \in Holding(E)
        PROVE  Kept
    BY <1>0, <1>8
  <1>9. ASSUME event' = event, tagxref' \in Holding(E) PROVE Kept
    BY <1>9
  <1>10. ASSUME NEW a \in Artifact, NEW kind \in {"wiki", "tkt"}, NEW tx \in Holding(E), NEW links
         PROVE  ApplyTag(tx, links, a, a, OwnTag(kind, a), Deck[a].D) \in Holding(E)
    <2>1. Deck[a].id \in Id /\ Deck[a].D \in 1..MaxTime
      BY DeckFacts DEF DeckType
    <2>2. OwnTag(kind, a) \in TCard /\ OwnTag(kind, a).name[1] # "event"
      BY <2>1 DEF OwnTag, TCard, Tag
    <2> HIDE DEF E
    <2> QED BY <1>0, <2>1, <2>2, ApplyHolds
  <1>11. ASSUME NEW a \in Artifact
         PROVE  /\ ControlTags(tagxref, plink, a, Rows) \in Holding(E)
                /\ TagsOfCheckin(tagxref, plink, a, Rows) \in Holding(E)
                /\ FWTTags(a) \in Holding(E)
    <2> HIDE DEF E
    <2> QED BY <1>0, ControlHolds, CheckinTagsHold, FWTTagsHold
  <1> HIDE DEF Kept, Keeps, Ended
  <1>12. ASSUME NEW a, NEW kind, Begins(a, kind)
         PROVE  /\ a \in Artifact /\ todo = {} /\ sweep' \subseteq sweep /\ a \notin sweep'
                /\ Deck[a].kind = kind
    BY <1>0, <1>12 DEF Begins
  <1>13. ASSUME NEW a, NEW s, Goes(a, s) PROVE a \notin sweep' /\ sweep' = sweep
    <2>1. a \notin sweep
      BY <1>0, <1>13, GoesFacts DEF Goes, NotYet
    <2> QED BY <1>13, <2>1 DEF Goes
  <1>14. ASSUME NEW a \in Artifact, Arrive(a) \/ Phantom(a) PROVE Keeps
    BY <1>0, <1>3, <1>9, <1>14 DEF Arrive, Phantom
  <1>15. ASSUME NEW a \in Artifact, Checkin(a) PROVE Keeps
    <2>1. Kept
      BY <1>0, <1>8, <1>15 DEF Checkin, LinkTables
    <2> QED BY <1>3, <1>15, <2>1 DEF Checkin, LinkTables
  <1>16. ASSUME NEW a \in Artifact, AddTag(a) \/ TagCheckin(a) PROVE Keeps
    <2>1. /\ event' = event /\ UNCHANGED <<sweep, todo, torn>>
          /\ \/ tagxref' = ControlTags(tagxref, plink, a, Rows)
             \/ tagxref' = TagsOfCheckin(tagxref, plink, a, Rows)
      BY <1>16 DEF AddTag, TagCheckin, ApplyTagsOf
    <2> QED BY <1>3, <1>9, <1>11, <2>1
  <1>17. ASSUME UNCHANGED vars \/ (\E a \in untagged : CrashCheckin(a)) PROVE Keeps
    <2>1. UNCHANGED <<event, tagxref, sweep, todo, torn>>
      BY <1>17 DEF CrashCheckin, vars
    <2> QED BY <1>0, <1>3, <1>9, <2>1
  <1>18. CASE Crosslink
    <2>1. /\ UNCHANGED <<event, tagxref, torn>> /\ todo = {} /\ todo' = {}
          /\ sweep' = {a \in real : IsCandidate(a)}
      BY <1>18 DEF Crosslink
    <2>2. ASSUME NEW a \in sweep', Note(a) PROVE a \notin Versions(tagxref', a)
      <3>1. \A r \in NoteRows(tagxref) : r.rid # a
        BY <1>0, <2>1, <2>2 DEF IsCandidate, OwnRows, NoteRows
      <3> QED BY <2>1, <3>1, VersionsOfRows
    <2>3. NotYet' /\ NoteSteps'
      BY <2>1, <2>2 DEF NotYet, NoteSteps, Note
    <2> QED BY <1>0, <1>1, <1>5, <1>9, <2>1, <2>3
  <1>19. ASSUME NEW a, Defer(a) PROVE Keeps
    <2>1. /\ UNCHANGED <<event, tagxref, torn, todo>> /\ todo = {}
          /\ sweep' \subseteq sweep
      BY <1>12, <1>19 DEF Defer
    <2>2. Kept /\ Ended
      BY <1>0, <1>5, <1>9, <2>1
    <2> QED BY <1>1, <1>2, <2>1, <2>2
  <1>20. ASSUME NEW a, LinkCheckin(a) PROVE Keeps
    <2>1. /\ a \in Artifact /\ todo = {} /\ sweep' \subseteq sweep /\ a \notin sweep'
          /\ Deck[a].kind = "checkin" /\ Continues(a, "tags") /\ UNCHANGED <<torn, tagxref>>
          /\ event' = [event EXCEPT ![a] = "ci"]
      BY <1>12, <1>20 DEF LinkCheckin, LinkTables
    <2>2. Kept /\ Ended
      BY <1>0, <1>5, <1>8, <2>1
    <2> QED BY <1>4, <2>1, <2>2
  <1>21. ASSUME NEW a, ApplyControl(a) PROVE Keeps
    <2>1. /\ a \in Artifact /\ todo = {} /\ sweep' \subseteq sweep /\ a \notin sweep'
          /\ Deck[a].kind = "control" /\ Continues(a, "event") /\ UNCHANGED <<torn, event>>
          /\ tagxref' = ControlTags(tagxref, plink, a, Rows)
      BY <1>12, <1>21 DEF ApplyControl
    <2>2. Kept /\ Ended
      BY <1>5, <1>9, <1>11, <2>1
    <2> QED BY <1>4, <2>1, <2>2
  <1>22. ASSUME NEW a, addFWTPlink(a) PROVE Keeps
    <2>1. PICK kind \in {"wiki", "technote", "forum"} :
             Begins(a, kind) /\ Continues(a, IF kind = "forum" THEN "post" ELSE "own")
      BY <1>22 DEF addFWTPlink
    <2>2. /\ a \in Artifact /\ todo = {} /\ sweep' \subseteq sweep /\ a \notin sweep'
          /\ a \in sweep /\ Deck[a].kind = kind
      BY <1>12, <2>1 DEF Begins
    <2>3. UNCHANGED <<torn, event>> /\ tagxref' = FWTTags(a)
      BY <1>22 DEF addFWTPlink
    <2>4. Kept /\ Ended
      BY <1>5, <1>9, <1>11, <2>2, <2>3
    <2>5. CASE kind = "technote"
      <3>1. Continues(a, "own")
        BY <2>1, <2>5
      <3>2. \A b : Versions(tagxref', b) = Versions(tagxref, b)
        BY <2>4, VersionsOfRows DEF Holding, Kept
      <3>3. NotYet'
        BY <1>0, <2>2, <3>1, <3>2 DEF NotYet, Continues
      <3>4. NoteSteps'
        BY <3>1 DEF NoteSteps, NoteStep, Continues
      <3> QED BY <1>1, <2>4, <3>3, <3>4
    <2>6. CASE kind # "technote"
      <3>1. \E s : Continues(a, s)
        BY <2>1
      <3> QED BY <1>4, <2>2, <2>4, <2>6, <3>1
    <2> QED BY <2>5, <2>6
  <1>23. ASSUME NEW a, TagTicket(a) PROVE Keeps
    <2>1. /\ a \in Artifact /\ todo = {} /\ sweep' \subseteq sweep /\ a \notin sweep'
          /\ Deck[a].kind = "ticket" /\ Continues(a, "retype") /\ UNCHANGED <<torn, event>>
          /\ tagxref' = ApplyTag(tagxref, plink, a, a, OwnTag("tkt", a), Deck[a].D)
      BY <1>12, <1>23 DEF TagTicket, ApplyOwnTag
    <2>2. Kept /\ Ended
      BY <1>0, <1>5, <1>9, <1>10, <2>1
    <2> QED BY <1>4, <2>1, <2>2
  <1>24. ASSUME NEW a, InsertAttachment(a) PROVE Keeps
    <2>1. /\ a \in Artifact /\ todo = {} /\ sweep' \subseteq sweep /\ a \notin sweep'
          /\ Deck[a].kind = "attachment" /\ Continues(a, "latest")
          /\ UNCHANGED <<torn, event, tagxref>>
      BY <1>12, <1>24 DEF InsertAttachment
    <2>2. Kept /\ Ended
      BY <1>0, <1>5, <1>9, <2>1
    <2> QED BY <1>4, <2>1, <2>2
  <1>25. ASSUME NEW a, TagLinked(a) PROVE Keeps
    <2>1. a \in Artifact /\ todo = {<<a, "tags">>} /\ Deck[a].kind = "checkin" /\ sweep' = sweep
      BY <1>0, <1>13, <1>25, GoesFacts DEF TagLinked, Fits
    <2>2. event' = event /\ tagxref' = TagsOfCheckin(tagxref, plink, a, Rows) /\ Ends(a)
          /\ todo' = {}
      BY <1>25 DEF TagLinked, ApplyTagsOf, Ends
    <2>3. Kept /\ Ended
      BY <1>7, <1>9, <1>11, <2>1, <2>2
    <2> QED BY <1>1, <1>2, <2>1, <2>2, <2>3
  <1>26. ASSUME NEW a, TagWiki(a) PROVE Keeps
    <2>1. a \in Artifact /\ todo = {<<a, "own">>} /\ sweep' = sweep /\ a \notin sweep'
      BY <1>0, <1>13, <1>26, GoesFacts DEF TagWiki
    <2>2. /\ UNCHANGED <<event, torn>> /\ Deck[a].kind = "wiki" /\ Continues(a, "event")
          /\ tagxref' = ApplyTag(tagxref, plink, a, a, OwnTag("wiki", a), Deck[a].D)
      BY <1>26 DEF TagWiki, ApplyOwnTag
    <2>3. Kept /\ Ended
      BY <1>0, <1>6, <1>9, <1>10, <2>1, <2>2
    <2> QED BY <1>4, <2>1, <2>2, <2>3
  <1>27. ASSUME NEW a, MarkLatest(a) \/ PostForum(a) PROVE Keeps
    <2>1. PICK s \in {"latest", "post"} : Goes(a, s)
      BY <1>27 DEF MarkLatest, PostForum
    <2>2. /\ a \in Artifact /\ todo = {<<a, s>>} /\ sweep' = sweep /\ a \notin sweep'
          /\ Deck[a].kind # "technote"
      BY <1>0, <1>13, <2>1, GoesFacts DEF Fits
    <2>3. UNCHANGED <<event, torn, tagxref>> /\ Continues(a, "event")
      BY <1>27 DEF MarkLatest, PostForum
    <2>4. Kept /\ Ended
      BY <1>0, <1>6, <1>9, <2>2, <2>3
    <2> QED BY <1>4, <2>2, <2>3, <2>4
  <1>28. ASSUME NEW a, WriteEvent(a) PROVE Keeps
    <2>1. a \in Artifact /\ todo = {<<a, "event">>} /\ sweep' = sweep
      BY <1>0, <1>13, <1>28, GoesFacts DEF WriteEvent
    <2>2. CASE Note(a)
      BY <1>28, <2>2, ShowNotes DEF Keeps
    <2>3. CASE Deck[a].kind # "technote"
      <3>1. event' = [event EXCEPT ![a] = TypeOfEvent(a)] /\ Ends(a) /\ tagxref' = tagxref
            /\ todo' = {}
        BY <1>28, <2>3 DEF WriteEvent, Ends
      <3>2. Kept /\ Ended
        BY <1>0, <1>7, <1>8, <2>1, <2>3, <3>1
      <3> QED BY <1>1, <1>2, <2>1, <3>1, <3>2
    <2> QED BY <2>1, <2>2, <2>3 DEF Note
  <1>29. ASSUME NEW a, NEW b \in Mistyped(a), Retype(a, b) PROVE Keeps
    <2>1. b \in Artifact /\ Deck[b].kind = "attachment"
      BY <1>0 DEF Mistyped
    <2>2. /\ event' = [event EXCEPT ![b] = TargetType(a)] /\ UNCHANGED <<tagxref, todo, torn, sweep>>
      BY <1>29 DEF Retype, Goes
    <2>3. Kept
      BY <1>0, <1>8, <2>1, <2>2
    <2> QED BY <1>3, <2>2, <2>3
  <1>30. ASSUME NEW a, Retyped(a) PROVE Keeps
    <2>1. a \in Artifact /\ todo = {<<a, "retype">>} /\ sweep' = sweep
      BY <1>0, <1>13, <1>30, GoesFacts DEF Retyped
    <2>2. CASE Note(a)
      BY <1>30, <2>2, RetypedNotes DEF Keeps
    <2>3. CASE Deck[a].kind # "technote"
      <3>1. event' = event /\ Ends(a) /\ tagxref' = tagxref /\ todo' = {}
        BY <1>30 DEF Retyped, Ends
      <3>2. Kept /\ Ended
        BY <1>0, <1>7, <1>9, <2>1, <2>3, <3>1
      <3> QED BY <1>1, <1>2, <2>1, <3>1, <3>2
    <2> QED BY <2>1, <2>2, <2>3 DEF Note
  <1>31. ASSUME NEW a, TagTechnote(a) \/ DropOlder(a) \/ IsOlder(a) PROVE Keeps
    BY <1>31, TagNotes, DropNotes, OlderNotes DEF Keeps
  <1>32. CASE Rebuild
    <2>1. /\ event' = [a \in Artifact |-> IF a \in RealCheckins THEN "ci" ELSE "none"]
          /\ tagxref' = RebuiltTags /\ sweep' = {} /\ todo' = {}
      BY <1>32 DEF Rebuild
    <2>2. tagxref' \in Holding({})
      BY <1>0, <2>1, RebuiltHolds
    <2>3. TagsSound'
      BY <2>2 DEF TagsSound, Holding, OwnRows
    <2>4. \A b \in Artifact : event'[b] # "e"
      BY <2>1
    <2>5. NotYet' /\ NoteSteps'
      BY <2>1 DEF NotYet, NoteSteps
    <2> QED BY <2>3, <2>4, <2>5 DEF Keeps, NotesRight, ShownTagged, NewestTechnotes
  <1>33. CASE CrashSweep
    <2>1. /\ UNCHANGED <<event, tagxref>> /\ todo' = {} /\ sweep' = {}
          /\ torn' = torn \cup {t[1] : t \in todo}
      BY <1>33 DEF CrashSweep
    <2>2. Kept /\ Ended
      BY <1>0, <1>9, <2>1 DEF Unfinished, Ended
    <2> QED BY <1>1, <1>2, <2>1, <2>2
  <1>34. ASSUME NEW a, Begin(a) PROVE Keeps
    BY <1>19, <1>20, <1>21, <1>22, <1>23, <1>24, <1>34 DEF Begin
  <1>35. ASSUME NEW a, Go(a) PROVE Keeps
    BY <1>25, <1>26, <1>27, <1>28, <1>29, <1>30, <1>31, <1>35 DEF Go
  <1>36. ASSUME NEW a \in world, Arrive(a) \/ Phantom(a) \/ Checkin(a) \/ AddTag(a) PROVE Keeps
    BY <1>0, <1>14, <1>15, <1>16, <1>36
  <1>37. ASSUME NEW a \in untagged, TagCheckin(a) PROVE Keeps
    BY <1>0, <1>16, <1>37
  <1> QED BY <1>17, <1>18, <1>32, <1>33, <1>34, <1>35, <1>36, <1>37 DEF Next, SweepStep

(* However versions, targets and attachments arrive, and whichever of their *)
(* statements a crash or a rebuild comes between, only the newest linked    *)
(* version of a tech note has an event row (crosslinkEvent), is_latest      *)
(* marks exactly the newest attachments of each target                      *)
(* (crosslinkAttachment), and the event row of an attachment tells what it  *)
(* is attached to, also where the ticket or the tech note came after it     *)
(* (updateAttachmentComments).  Excepted is only what waits for an artifact *)
(* at which a sweep is at work or has died.                                 *)
THEOREM NewestIsShown ==
    ASSUME NamesApart, NotesEdited
    PROVE  Spec => []NewestShown
  <1>1. Init => NoteInv
    <2> SUFFICES ASSUME Init PROVE NoteInv
      OBVIOUS
    <2>1. AttachInv
      BY InitShape DEF Init, AttachInv, AttachShown, StepsRight, Unattached, TicketTags,
                       AttachmentsTyped, NewestAttachments
    <2>2. TagsSound
      BY FS_EmptySet DEF Init, TagsSound, Holding, NoteRows, OwnRows
    <2>3. ShownTagged /\ NewestTechnotes
      BY DEF Init, ShownTagged, NewestTechnotes
    <2>4. NotYet /\ NoteSteps
      BY DEF Init, NotYet, NoteSteps
    <2> QED BY <2>1, <2>2, <2>3, <2>4 DEF NoteInv, NotesRight
  <1>2. NoteInv /\ [Next]_vars => NoteInv'
    BY NextNotes
  <1>3. NoteInv => NewestShown
    BY DEF NoteInv, NotesRight, AttachInv, AttachShown, NewestShown
  <1> QED BY <1>1, <1>2, <1>3, PTL DEF Spec
=============================================================================
