--------------------------- MODULE ArtifactStore ---------------------------
(***************************************************************************)
(* What a repository promises its callers about artifacts, with rids, delta *)
(* chains and bookkeeping tables abstracted away: an artifact is unknown,   *)
(* known by name only or readable, it only ever moves towards readable, and *)
(* the single way back is a purge of shunned artifacts.  BlobStore          *)
(* implements this specification.                                           *)
(***************************************************************************)
CONSTANT Artifact

VARIABLES
    readable,  \* artifacts whose content a reader gets
    named,     \* artifacts known by name only
    banned     \* the shun list

vars == <<readable, named, banned>>

TypeOK ==
    /\ readable \subseteq Artifact
    /\ named \subseteq Artifact
    /\ readable \cap named = {}
    /\ banned \subseteq Artifact

(* The repository may have been written by an earlier program. *)
Init == TypeOK /\ named = {} /\ banned = {}

(* Storing, receiving and announcing: any number of artifacts may advance. *)
Advance ==
    /\ readable \subseteq readable'
    /\ readable \cup named \subseteq readable' \cup named'
    /\ TypeOK'
    /\ banned' = banned

(* The shun list is edited freely and editing it removes nothing by itself. *)
EditBanned ==
    /\ banned' \subseteq Artifact
    /\ UNCHANGED <<readable, named>>

(* A purge forgets every banned artifact and no other. *)
Purge ==
    /\ readable' = readable \ banned
    /\ named' = named \ banned
    /\ banned' = banned

Next == Advance \/ EditBanned \/ Purge

Spec == Init /\ [][Next]_vars
=============================================================================
