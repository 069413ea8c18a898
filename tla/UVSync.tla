------------------------------- MODULE UVSync -------------------------------
(***************************************************************************)
(* Unversioned files (internal/uv) and their exchange within the rounds of  *)
(* a sync session: the uv cards of client.go against handler_uv.go.  A name *)
(* has one row at each side, with the time and the hash of its content, or  *)
(* a tombstone; the later row wins.  The artifacts of the same session      *)
(* (module Sync) appear here only as rounds that they may still need.       *)
(*                                                                         *)
(* There is no transaction around a request, a response or a card: other    *)
(* callers edit files between two cards, between the look at a row and the  *)
(* write that follows from it, and while a catalog hash is computed.        *)
(***************************************************************************)
EXTENDS Integers, FiniteSets

CONSTANTS
    Name,
    MaxHash,         \* contents are 1..MaxHash, ordered as their hashes are
    MaxTime,         \* bound on the clock
    InitRows,        \* the unversioned tables before the first session
    Grants,          \* whether the server takes a session's files
    MaxSend,         \* send budget per round, in files
    MaxRounds,
    ArtifactRounds,  \* rounds the artifacts of the session may take
    EditedNames,     \* bound: the names that local edits are of
    MaxWrites,       \* bound: how many local edits there are
    MaxFailures      \* bound: how many sessions are interrupted

Side == {"client", "server"}

(* Hash 0 is a tombstone; time 0 stands for no row at all, as in uv.Read.   *)
Row == [mtime: 0..MaxTime, hash: 0..MaxHash]
NoRow == [mtime |-> 0, hash |-> 0]

ASSUME ConstantsAssumption ==
    /\ MaxHash \in Nat \ {0} /\ MaxTime \in Nat \ {0}
    /\ InitRows \in [Side -> [Name -> Row]]
    /\ \A s \in Side, n \in Name : InitRows[s][n].mtime = 0 => InitRows[s][n] = NoRow
    /\ Grants \subseteq BOOLEAN /\ EditedNames \subseteq Name
    /\ MaxSend \in Nat \ {0} /\ MaxRounds \in Nat \ {0}
    /\ ArtifactRounds \in Nat /\ MaxWrites \in Nat /\ MaxFailures \in Nat

(* A uvigot or uvfile card; full is FALSE when there is no content in it.   *)
Card == [name: Name, row: Row, full: BOOLEAN]

(* The statement that a card comes to: row replaces that of name, or gives  *)
(* it only its mtime; fresh when there was no row to be seen.               *)
Statement == [side: Side, name: Name, row: Row, sets: {"row", "mtime"}, fresh: BOOLEAN]

VARIABLES
    rows,       \* rows[s][n]: the unversioned table at side s
    cached,     \* cached[s]: the uv-hash row of config, {} or a singleton
    st,         \* where the session is
    pushOK,     \* the server takes files: push card and capability y
    cycle,      \* rounds before this one
    uvToSend,   \* uvToSend[n]: "no", "mtime" or "full"
    uvGimmes,
    uvHashSent, uvPushOK,
    gimmeSent,  \* nUvGimmeSent > 0
    fileRcvd,   \* nUvFileRcvd > 0
    request,    \* what the server has yet to handle
    response,   \* what the client has yet to handle
    hand,       \* the statement of the card being handled, {} or a singleton
    hashing,    \* the catalog that ContentHash has computed and not yet cached
    now,        \* the clock of both sides
    writes,     \* local edits so far
    failures,   \* interrupted sessions so far
    latest,     \* observer: latest[n], the rows last written for n anywhere
    calm,       \* observer: no local edit since the session began
    raced,      \* observer: names edited between a look and the write after it
    misled      \* observer: sides where config may hold a hash of older rows,
                \* cached after they had changed or kept by a stop

clientVars == <<uvToSend, uvGimmes, uvHashSent, uvPushOK, gimmeSent, fileRcvd>>
boundVars == <<now, writes, failures>>
observerVars == <<latest, calm, raced>>
messageVars == <<request, response, hand, hashing>>
vars == <<rows, cached, misled, st, pushOK, cycle, clientVars, messageVars,
          boundVars, observerVars>>

NoRequest == [hash |-> {}, gimmes |-> {}, files |-> {}]
NoResponse == [pushOK |-> FALSE, igots |-> {}, files |-> {}]
Ended == {"idle", "done", "failed", "exceeded"}

TypeOK ==
    /\ rows \in [Side -> [Name -> Row]]
    /\ cached \in [Side -> SUBSET [Name -> Row]]
    /\ \A s \in Side : Cardinality(cached[s]) <= 1
    /\ now \in 1..MaxTime /\ writes \in 0..MaxWrites /\ failures \in 0..MaxFailures
    /\ st \in Ended \cup {"ready", "serving", "receiving"}
    /\ pushOK \in BOOLEAN
    /\ cycle \in 0..MaxRounds
    /\ uvToSend \in [Name -> {"no", "mtime", "full"}]
    /\ uvGimmes \subseteq Name
    /\ {uvHashSent, uvPushOK, gimmeSent, fileRcvd, calm} \subseteq BOOLEAN
    /\ request \in [hash: SUBSET [Name -> Row], gimmes: SUBSET Name, files: SUBSET Card]
    /\ response \in [pushOK: BOOLEAN, igots: SUBSET Card, files: SUBSET Card]
    /\ hand \subseteq Statement /\ Cardinality(hand) <= 1
    /\ hashing \subseteq [Name -> Row] /\ Cardinality(hashing) <= 1
    /\ latest \in [Name -> SUBSET Row]
    /\ raced \subseteq Name /\ misled \subseteq Side

(***************************************************************************)
(* uv.Status.  uv.Read gives "" for the hash of a local tombstone while a   *)
(* card gives "-", so two tombstones never have the same hash, and in a tie *)
(* of times the remote tombstone wins.                                      *)
(***************************************************************************)
Same(local, remote) == local.hash = remote.hash /\ local.hash # 0
RemoteWins(local, remote) ==
    \/ local.mtime < remote.mtime
    \/ local.mtime = remote.mtime /\ remote.hash = 0
    \/ local.mtime = remote.mtime /\ local.hash < remote.hash

Status(local, remote) ==
    CASE local.mtime = 0 -> 0
      [] local.mtime # 0 /\ Same(local, remote) ->
            IF local.mtime < remote.mtime THEN 2
            ELSE IF local.mtime = remote.mtime THEN 3 ELSE 4
      [] local.mtime # 0 /\ ~Same(local, remote) ->
            IF RemoteWins(local, remote) THEN 1 ELSE 5

(* uv.ContentHash: the catalog of live rows, from config when it is there;  *)
(* otherwise it is computed and then cached.                                *)
Catalog(s) == [n \in Name |-> IF rows[s][n].hash = 0 THEN NoRow ELSE rows[s][n]]
Hashed(s) == hashing # {} \/ cached[s] # {}
ContentHash(s) == IF hashing # {} THEN hashing ELSE cached[s]

Caches(s) ==
    /\ cached' = [cached EXCEPT ![s] = ContentHash(s)]
    /\ misled' = IF hashing \subseteq {Catalog(s)} THEN misled ELSE misled \cup {s}
    /\ hashing' = {}

CardFor(s, n, full) == [name |-> n, row |-> rows[s][n], full |-> full]

(* A row is replaced and InvalidateHash called: two statements, of which a  *)
(* stop can leave out the second; with nothing cached that is no loss.      *)
PutRow(s, n, row) ==
    /\ rows' = [rows EXCEPT ![s][n] = row]
    /\ cached' = [cached EXCEPT ![s] = {}]
    /\ misled' = misled \ {s}

TearRow(s, n, row) ==
    /\ rows' = [rows EXCEPT ![s][n] = row]
    /\ cached[s] # {} /\ misled' = misled \cup {s}
    /\ UNCHANGED cached

(***************************************************************************)
(* Local edits, by other callers of uv.Write and uv.Delete.                 *)
(***************************************************************************)
(* MUTANT: a local edit leaves the cached hash in place.                    *)
EditKeepsHash(s, n, row) ==
    /\ rows' = [rows EXCEPT ![s][n] = row]
    /\ UNCHANGED <<cached, misled>>

EditRow(s, n, row) == PutRow(s, n, row)

Edited(s, n, row) ==
    /\ writes < MaxWrites /\ writes' = writes + 1
    /\ row.mtime >= now /\ now' = row.mtime
    /\ latest' = [latest EXCEPT ![n] =
                    {row} \cup {r \in @ : r.mtime = row.mtime}]
    /\ calm' = FALSE
    /\ raced' = IF \E h \in hand : h.side = s /\ h.name = n THEN raced \cup {n} ELSE raced
    /\ UNCHANGED <<st, pushOK, cycle, clientVars, messageVars>>

Edit(s, n, row) == Edited(s, n, row) /\ EditRow(s, n, row) /\ UNCHANGED failures
Write(s, n, row) == row.hash # 0 /\ Edit(s, n, row)
Delete(s, n, row) == row.hash = 0 /\ Edit(s, n, row)

(* The caller stops before InvalidateHash.                                  *)
EditStops(s, n, row) ==
    /\ Edited(s, n, row) /\ TearRow(s, n, row)
    /\ failures < MaxFailures /\ failures' = failures + 1

(***************************************************************************)
(* The client: newSession and buildRequest.                                 *)
(***************************************************************************)
(* The session is gone when Sync returns.                                   *)
NoSession ==
    /\ cycle' = 0 /\ uvToSend' = [n \in Name |-> "no"]
    /\ uvGimmes' = {} /\ uvHashSent' = FALSE /\ uvPushOK' = FALSE
    /\ gimmeSent' = FALSE /\ fileRcvd' = FALSE

StartWith(granted) ==
    /\ st \in Ended
    /\ st' = "ready" /\ cycle' = 0 /\ pushOK' = granted
    /\ uvToSend' = [n \in Name |-> IF rows["client"][n] = NoRow THEN "no" ELSE "full"]
    /\ uvGimmes' = {} /\ uvHashSent' = FALSE /\ uvPushOK' = FALSE
    /\ gimmeSent' = FALSE /\ fileRcvd' = FALSE
    /\ request' = NoRequest /\ response' = NoResponse /\ hand' = {} /\ hashing' = {}
    /\ calm' = TRUE
    /\ UNCHANGED <<rows, cached, misled, boundVars, latest, raced>>

(* buildUVFileCards: names are visited in map order until the budget is     *)
(* spent; only contents count.                                              *)
Queued == {n \in Name : uvToSend[n] # "no"}
SendsContent(n) == uvToSend[n] = "full" /\ rows["client"][n].hash # 0
Visits(visited) ==
    LET spent == Cardinality({n \in visited : SendsContent(n)}) IN
    IF uvPushOK
    THEN spent <= MaxSend /\ (visited = Queued \/ spent = MaxSend)
    ELSE visited = {}

(* Nothing is cached: the rows are read.                                    *)
Computes(s) ==
    /\ ~Hashed(s) /\ hashing' = {Catalog(s)}
    /\ UNCHANGED <<rows, cached, misled, st, pushOK, cycle, clientVars, request, response,
                   hand, boundVars, observerVars>>

ClientHash == st = "ready" /\ ~uvHashSent /\ Computes("client")

BuildRequest ==
    /\ st = "ready" /\ (uvHashSent \/ Hashed("client"))
    /\ \E visited \in SUBSET Queued :
        /\ Visits(visited)
        /\ request' = [hash |-> IF uvHashSent THEN {} ELSE ContentHash("client"),
                       gimmes |-> uvGimmes,
                       files |-> {CardFor("client", n, SendsContent(n)) : n \in visited}]
        /\ uvToSend' = [n \in Name |-> IF n \in visited THEN "no" ELSE uvToSend[n]]
    /\ IF uvHashSent THEN UNCHANGED <<cached, misled, hashing>> ELSE Caches("client")
    /\ uvHashSent' = TRUE
    /\ gimmeSent' = (gimmeSent \/ uvGimmes # {}) /\ uvGimmes' = {}
    /\ st' = "serving"
    /\ UNCHANGED <<rows, pushOK, cycle, uvPushOK, fileRcvd, response, hand,
                   boundVars, observerVars>>

(***************************************************************************)
(* The server: the uv-hash pragma first, then gimmes and files.             *)
(***************************************************************************)
ServerHash == st = "serving" /\ request.hash # {} /\ Computes("server")

handlePragmaUVHash ==
    /\ st = "serving" /\ request.hash # {} /\ hand = {} /\ Hashed("server")
    /\ Caches("server")
    /\ response' = IF ContentHash("server") = request.hash THEN response
                   ELSE [response EXCEPT !.pushOK = TRUE, !.igots =
                           {CardFor("server", n, FALSE) :
                              n \in {m \in Name : rows["server"][m] # NoRow}}]
    /\ request' = [request EXCEPT !.hash = {}]
    /\ UNCHANGED <<rows, st, pushOK, cycle, clientVars, hand, boundVars, observerVars>>

handleUVGimme(n) ==
    /\ st = "serving" /\ request.hash = {} /\ hand = {} /\ n \in request.gimmes
    /\ request' = [request EXCEPT !.gimmes = @ \ {n}]
    /\ response' = [response EXCEPT !.files = @ \cup {CardFor("server", n, TRUE)}]
    /\ UNCHANGED <<rows, cached, misled, st, pushOK, cycle, clientVars, hand, hashing,
                   boundVars, observerVars>>

(* MUTANT: whatever arrives is stored.                                      *)
AcceptsAll(local, row) == TRUE

Accepts(local, row) == Status(local, row) < 2

(* A file that does not win against the local row, or has no content and is *)
(* no tombstone, is left.                                                   *)
StatementFor(s, card, row, sets) ==
    [side |-> s, name |-> card.name, row |-> row, sets |-> sets,
     fresh |-> rows[s][card.name] = NoRow]

Takes(s, card) ==
    IF Accepts(rows[s][card.name], card.row) /\ (card.full \/ card.row.hash = 0)
    THEN {StatementFor(s, card, card.row, "row")} ELSE {}

(* The look at the row.  Without the right to push, the file is answered    *)
(* with an error card.                                                      *)
handleUVFile(card) ==
    /\ st = "serving" /\ request.hash = {} /\ request.gimmes = {} /\ hand = {}
    /\ card \in request.files
    /\ request' = [request EXCEPT !.files = @ \ {card}]
    /\ hand' = IF pushOK THEN Takes("server", card) ELSE {}
    /\ UNCHANGED <<rows, cached, misled, st, pushOK, cycle, clientVars, response, hashing,
                   boundVars, observerVars>>

(* The write, whatever has become of the row: uv.Write, uv.Delete, or the   *)
(* DELETE or UPDATE of a uvigot card.                                       *)
After(h) ==
    IF h.sets = "row" THEN h.row
    ELSE IF rows[h.side][h.name] = NoRow THEN NoRow
    ELSE [rows[h.side][h.name] EXCEPT !.mtime = h.row.mtime]

Execute(h) ==
    /\ PutRow(h.side, h.name, After(h))
    /\ hand' = {}
    /\ UNCHANGED <<st, pushOK, cycle, clientVars, request, response, hashing,
                   boundVars, observerVars>>

Respond ==
    /\ st = "serving" /\ request = NoRequest /\ hand = {}
    /\ st' = "receiving"
    /\ uvPushOK' = (uvPushOK \/ response.pushOK)
    /\ UNCHANGED <<rows, cached, misled, pushOK, cycle, uvToSend, uvGimmes, uvHashSent,
                   gimmeSent, fileRcvd, messageVars, boundVars, observerVars>>

(***************************************************************************)
(* The client: processResponse.                                             *)
(***************************************************************************)
(* What a uvigot card does to the row: a row that has lost is deleted before *)
(* the winner has arrived.                                                  *)
IGotTakes(card, status) ==
    CASE status \in {0, 1} /\ card.row.hash # 0 ->
            {StatementFor("client", card, NoRow, "row")}
      [] status = 1 /\ card.row.hash = 0 -> {StatementFor("client", card, card.row, "row")}
      [] status = 2 -> {StatementFor("client", card, card.row, "mtime")}
      [] OTHER -> {}

QueueAfter(status, before) ==
    CASE status \in {0, 1, 3} -> "no"
      [] status = 2 -> before
      [] status = 4 -> "mtime"
      [] status = 5 -> "full"

handleUVIGotCard(card) ==
    LET status == Status(rows["client"][card.name], card.row) IN
    /\ st = "receiving" /\ hand = {} /\ card \in response.igots
    /\ response' = [response EXCEPT !.igots = @ \ {card}]
    /\ hand' = IGotTakes(card, status)
    /\ uvToSend' = [uvToSend EXCEPT ![card.name] = QueueAfter(status, @)]
    /\ uvGimmes' = IF status < 2 /\ card.row.hash # 0
                   THEN uvGimmes \cup {card.name} ELSE uvGimmes
    /\ UNCHANGED <<rows, cached, misled, st, pushOK, cycle, uvHashSent, uvPushOK,
                   gimmeSent, fileRcvd, request, hashing, boundVars, observerVars>>

handleUVFileCard(card) ==
    /\ st = "receiving" /\ hand = {} /\ response.igots = {} /\ card \in response.files
    /\ response' = [response EXCEPT !.files = @ \ {card}]
    /\ hand' = Takes("client", card)
    /\ fileRcvd' = TRUE
    /\ UNCHANGED <<rows, cached, misled, st, pushOK, cycle, uvToSend, uvGimmes, uvHashSent,
                   uvPushOK, gimmeSent, request, hashing, boundVars, observerVars>>

(* The uv part of the convergence test, in its order.                       *)
Awaits == gimmeSent /\ (fileRcvd \/ cycle < 3)

(* MUTANT: files that are still to be sent do not keep the session going.   *)
GoesOnUnsent == Awaits \/ uvGimmes # {}

GoesOn == Awaits \/ (uvPushOK /\ Queued # {}) \/ uvGimmes # {}

(* The convergence test comes to the uv part when the artifacts are done.   *)
EndRound ==
    /\ st = "receiving" /\ hand = {} /\ response.igots = {} /\ response.files = {}
    /\ \E artifacts \in BOOLEAN :
        LET resets == ~artifacts /\ (Awaits \/ ~GoesOn)
            clears == ~artifacts /\ ~Awaits /\ ~uvPushOK
        IN  /\ artifacts => cycle < ArtifactRounds
            /\ st' = IF ~artifacts /\ ~GoesOn THEN "done"
                     ELSE IF cycle + 1 >= MaxRounds THEN "exceeded" ELSE "ready"
            /\ IF st' # "ready" THEN NoSession
               ELSE /\ gimmeSent' = (gimmeSent /\ ~resets)
                    /\ fileRcvd' = (fileRcvd /\ ~resets)
                    /\ uvToSend' = IF clears THEN [n \in Name |-> "no"] ELSE uvToSend
                    /\ cycle' = cycle + 1
                    /\ UNCHANGED <<uvGimmes, uvHashSent, uvPushOK>>
    /\ response' = NoResponse
    /\ UNCHANGED <<rows, cached, misled, pushOK, request, hand, hashing,
                   boundVars, observerVars>>

(* The session ends with an error and what it had in hand is dropped.       *)
Fails ==
    /\ st \in {"ready", "serving", "receiving"} /\ st' = "failed"
    /\ request' = NoRequest /\ response' = NoResponse /\ hand' = {} /\ hashing' = {}
    /\ NoSession
    /\ UNCHANGED <<pushOK, now, writes, observerVars>>

(* A cancelled context, a failing exchange, or a stop: also one between the *)
(* row and InvalidateHash.                                                  *)
Interrupt ==
    /\ Fails
    /\ failures < MaxFailures /\ failures' = failures + 1
    /\ \/ UNCHANGED <<rows, cached, misled>>
       \/ \E h \in hand : TearRow(h.side, h.name, After(h))

(* uv.Delete has seen no row, and its INSERT meets one.                     *)
InsertFails ==
    /\ Fails
    /\ \E h \in hand : /\ h.fresh /\ h.row # NoRow /\ h.row.hash = 0
                       /\ rows[h.side][h.name] # NoRow
    /\ UNCHANGED <<rows, cached, misled, failures>>

Init ==
    /\ rows = InitRows /\ cached = [s \in Side |-> {}]
    /\ now \in 1..MaxTime /\ \A s \in Side, n \in Name : rows[s][n].mtime <= now
    /\ writes = 0 /\ failures = 0
    /\ st = "idle" /\ pushOK = FALSE /\ cycle = 0
    /\ uvToSend = [n \in Name |-> "no"] /\ uvGimmes = {}
    /\ uvHashSent = FALSE /\ uvPushOK = FALSE /\ gimmeSent = FALSE /\ fileRcvd = FALSE
    /\ request = NoRequest /\ response = NoResponse /\ hand = {} /\ hashing = {}
    /\ latest = [n \in Name |->
                   {r \in {rows[s][n] : s \in Side} :
                      \A s \in Side : rows[s][n].mtime <= r.mtime}]
    /\ calm = TRUE /\ raced = {} /\ misled = {}

Step ==
    \/ ClientHash \/ BuildRequest \/ ServerHash \/ handlePragmaUVHash \/ Respond \/ EndRound
    \/ \E h \in hand : Execute(h)
    \/ \E n \in request.gimmes : handleUVGimme(n)
    \/ \E card \in request.files : handleUVFile(card)
    \/ \E card \in response.igots : handleUVIGotCard(card)
    \/ \E card \in response.files : handleUVFileCard(card)

Next ==
    \/ \E granted \in Grants : StartWith(granted)
    \/ Step
    \/ Interrupt
    \/ InsertFails
    \/ \E s \in Side, n \in EditedNames, row \in Row :
            Write(s, n, row) \/ Delete(s, n, row) \/ EditStops(s, n, row)

Spec == Init /\ [][Next]_vars

(* Sync runs its loop to the end unless it is interrupted, and callers      *)
(* start sessions of every kind again and again.                            *)
FairSpec == /\ Spec
            /\ WF_vars(Step)
            /\ \A granted \in Grants : SF_vars(StartWith(granted))

(***************************************************************************)
(* Properties.                                                              *)
(***************************************************************************)
(* The same names are live at both sides, with the same content.            *)
Agree == \A n \in Name : rows["client"][n].hash = rows["server"][n].hash

(* A session that may push and returns without an error, with no local edit *)
(* since it began, leaves both sides with the same files: tombstones and    *)
(* ties of times included, over as many rounds as the budget makes of it,   *)
(* and whatever an interrupted session left behind (handleUVIGotCard,       *)
(* handleUVFile, the convergence test of processResponse).  It is not asked *)
(* where config holds a hash of older rows: cached by ContentHash after an  *)
(* edit had changed them, or kept by a stop before InvalidateHash.          *)
DoneAgrees == st = "done" /\ pushOK /\ calm /\ misled = {} => Agree

(* The row that was written last for a name, or one of those written in the *)
(* same second, is always at one of the sides: no session loses it to an    *)
(* older file that is on its way, although the client deletes rows before   *)
(* their successors arrive (handleUVIGotCard, handleUVFileCard).  A name    *)
(* edited between a handler's look at its row and the write that follows is *)
(* excepted: the write goes over the edit.  All variables keep their types. *)
NewestSurvives ==
    /\ TypeOK
    /\ \A n \in Name \ raced : \E s \in Side : rows[s][n] \in latest[n]

(* Once edits and interruptions have stopped, sessions started again and    *)
(* again bring both sides to the same files and keep them there, unless one *)
(* of them keeps a hash of older rows (ContentHash, InvalidateHash).        *)
EventuallyAgree == <>[](Agree \/ misled # {})
=============================================================================
