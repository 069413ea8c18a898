----------------------------- MODULE TableSync -----------------------------
(***************************************************************************)
(* Extension tables (internal/repo/tablesync.go) and their exchange within  *)
(* the rounds of a sync session: client_tablesync.go and xdelete.go against *)
(* handler_tablesync.go.  There is one table, with text and number columns. *)
(* A key has one row at each side, with its time, its value and, at the     *)
(* server, the user who wrote it; value 0 is a tombstone.                   *)
(*                                                                         *)
(* Every card is a step of its own, and the server looks a row up in one    *)
(* statement and writes it in another: other callers write in between.      *)
(***************************************************************************)
EXTENDS Integers, FiniteSets

CONSTANTS
    Key,
    MaxValue,    \* values are 1..MaxValue
    MaxTime,     \* bound on the clock
    Starts,      \* the tables before the first session: rows at each side, the
                 \* sides that know the table, and the time
    Conflicts,   \* the conflict strategies of which a behaviour has one
    Modes,       \* what sessions may do: records push, pull
    User, Peer,  \* the sessions' login and that of another client
    MaxRounds,
    MaxWrites,   \* bound: how many writes and deletions by others there are
    MaxFailures  \* bound: how many sessions are interrupted

Side == {"client", "server"}
Nobody == ""

(* Time 0 stands for no row.                                                *)
Row == [mtime: 0..MaxTime, val: 0..MaxValue, owner: {Nobody, User, Peer}]
NoRow == [mtime |-> 0, val |-> 0, owner |-> Nobody]

ASSUME ConstantsAssumption ==
    /\ MaxValue \in Nat \ {0} /\ MaxTime \in Nat \ {0} /\ MaxRounds \in Nat \ {0}
    /\ Starts \subseteq [rows: [Side -> [Key -> Row]], registered: (SUBSET Side) \ {{}},
                        now: 1..MaxTime]
    /\ \A start \in Starts, s \in Side, k \in Key :
         /\ start.rows[s][k].mtime <= start.now
         /\ s \notin start.registered \/ start.rows[s][k].mtime = 0 => start.rows[s][k] = NoRow
    /\ Conflicts \subseteq {"mtime-wins", "self-write", "owner-write"}
    /\ Modes \subseteq [push: BOOLEAN, pull: BOOLEAN]
    /\ User # Nobody /\ Peer \notin {User, Nobody}
    /\ MaxWrites \in Nat /\ MaxFailures \in Nat

Igot == [key: Key, mtime: 0..MaxTime]
Card == [key: Key, row: Row]   \* an xrow, or an xdelete if it is a tombstone

VARIABLES
    conflict,    \* the table's strategy
    rows,        \* rows[s][k]
    registered,  \* the sides whose _sync_schema has the table
    st,          \* where the session is
    mode, cycle,
    gimmes,      \* xTableGimmes
    toSend,      \* xTableToSend
    request,     \* what the server has yet to handle
    deciding,    \* a card that the server has accepted and not yet written, and
                 \* whether there was no row for it
    response,    \* what the client has yet to handle
    now, writes, failures,
    latest,      \* observer: latest[k], the rows last written for k anywhere
    calm,        \* observer: no write by others since the session began
    raced        \* observer: keys written between a look and the write after it,
                 \* which for the client is the time its request is under way

sessionVars == <<mode, cycle, gimmes, toSend>>
boundVars == <<now, writes, failures>>
observers == <<latest, calm, raced>>
vars == <<conflict, rows, registered, st, sessionVars, request, deciding, response,
          boundVars, observers>>

NoRequest == [schema |-> FALSE, hash |-> {}, igots |-> {}, gimmes |-> {}, cards |-> {}]
NoResponse == [igots |-> {}, gimmes |-> {}, cards |-> {}, schema |-> FALSE, late |-> {}]
Ended == {"idle", "done", "failed", "exceeded"}

TypeOK ==
    /\ conflict \in Conflicts
    /\ rows \in [Side -> [Key -> Row]]
    /\ registered \subseteq Side
    /\ \A s \in Side \ registered, k \in Key : rows[s][k] = NoRow
    /\ st \in Ended \cup {"ready", "serving", "receiving"}
    /\ mode \in Modes /\ cycle \in 0..MaxRounds
    /\ gimmes \cup toSend \cup raced \subseteq Key
    /\ request \in [schema: BOOLEAN, hash: SUBSET [Key -> 0..MaxTime], igots: SUBSET Igot,
                    gimmes: SUBSET Key, cards: SUBSET Card]
    /\ response \in [igots: SUBSET Igot, gimmes: SUBSET Key, cards: SUBSET Card,
                     schema: BOOLEAN, late: SUBSET Igot]
    /\ deciding \subseteq [card: Card, fresh: BOOLEAN] /\ Cardinality(deciding) <= 1
    /\ now \in 1..MaxTime /\ writes \in 0..MaxWrites /\ failures \in 0..MaxFailures
    /\ latest \in [Key -> SUBSET Row]
    /\ calm \in BOOLEAN

(***************************************************************************)
(* The tables.                                                              *)
(***************************************************************************)
(* ListXRows and LookupXRow leave the _owner column out.                    *)
LookupXRow(s, k) == [rows[s][k] EXCEPT !.owner = Nobody]
LookupXRowOwner(s, k) == IF conflict = "mtime-wins" THEN Nobody ELSE rows[s][k].owner
IsTombstone(row) == row.mtime # 0 /\ row.val = 0
Has(s) == {k \in Key : rows[s][k].mtime # 0}

(* The times of the live rows.                                              *)
CatalogHash(s) == [k \in Key |-> IF rows[s][k].val = 0 THEN 0 ELSE rows[s][k].mtime]

Igots(s) == {[key |-> k, mtime |-> rows[s][k].mtime] : k \in Has(s)}
CardOf(s, k) == [key |-> k, row |-> LookupXRow(s, k)]

(* UpsertXRow; without an _owner in the row the column takes its default.   *)
UpsertXRow(s, k, row) == rows' = [rows EXCEPT ![s][k] = row]

(* DeleteXRowByPKHash and applyXDeleteLocally: a row that is there and not  *)
(* newer keeps its owner, one that is not gets a tombstone.                 *)
Tombstone(s, card, fresh) ==
    IF fresh THEN card.row ELSE [card.row EXCEPT !.owner = rows[s][card.key].owner]
NotNewer(s, card) == rows[s][card.key].mtime <= card.row.mtime

(***************************************************************************)
(* Others: RegisterSyncedTable, UpsertXRow and DeleteXRowByPKHash by the    *)
(* application at either side, and the requests of another client.          *)
(***************************************************************************)
Races(s, k) ==
    IF s = "client" THEN st \in {"serving", "receiving"} \/ (st = "ready" /\ k \in gimmes)
    ELSE \E d \in deciding : d.card.key = k

Edit(s, k, row) ==
    /\ writes < MaxWrites /\ writes' = writes + 1
    /\ s \in registered
    /\ row.mtime >= now /\ now' = row.mtime
    /\ UpsertXRow(s, k, row)
    /\ latest' = [latest EXCEPT ![k] =
                    {[row EXCEPT !.owner = Nobody]} \cup {r \in @ : r.mtime = row.mtime}]
    /\ raced' = IF Races(s, k) THEN raced \cup {k} ELSE raced
    /\ calm' = FALSE
    /\ UNCHANGED <<conflict, registered, st, sessionVars, request, deciding, response, failures>>

Write(s, k, row) == row.val # 0 /\ row.owner = Nobody /\ Edit(s, k, row)
Delete(s, k, row) ==
    /\ row.val = 0 /\ rows[s][k].mtime \in 1..row.mtime
    /\ row.owner = rows[s][k].owner /\ Edit(s, k, row)

(***************************************************************************)
(* The client: buildXTableCards.                                            *)
(***************************************************************************)
StartWith(m) ==
    /\ st \in Ended
    /\ st' = "ready" /\ mode' = m /\ cycle' = 0
    /\ gimmes' = {} /\ toSend' = {}
    /\ request' = NoRequest /\ deciding' = {} /\ response' = NoResponse
    /\ calm' = TRUE
    /\ UNCHANGED <<conflict, rows, registered, boundVars, latest, raced>>

BuildRequest ==
    /\ st = "ready" /\ st' = "serving"
    /\ IF "client" \in registered
       THEN /\ request' = [schema |-> TRUE, hash |-> {CatalogHash("client")},
                           igots |-> Igots("client"), gimmes |-> gimmes,
                           cards |-> {CardOf("client", k) : k \in toSend \cap Has("client")}]
            /\ toSend' = {}
       ELSE UNCHANGED <<request, toSend>>
    /\ UNCHANGED <<conflict, rows, registered, mode, cycle, gimmes, deciding, response,
                   boundVars, observers>>

(***************************************************************************)
(* The server: schema and hash first, then xigots, xgimmes, rows.  The      *)
(* schema comes with every request, so that the table is always known.      *)
(***************************************************************************)
handleSchemaCard ==
    /\ st = "serving" /\ request.schema
    /\ registered' = registered \cup {"server"}
    /\ request' = [request EXCEPT !.schema = FALSE]
    /\ UNCHANGED <<conflict, rows, st, sessionVars, deciding, response, boundVars, observers>>

handlePragmaXTableHash ==
    /\ st = "serving" /\ ~request.schema /\ request.hash # {}
    /\ request' = [request EXCEPT !.hash = {}]
    /\ response' = IF CatalogHash("server") \in request.hash THEN response
                   ELSE [response EXCEPT !.igots = Igots("server")]
    /\ UNCHANGED <<conflict, rows, registered, st, sessionVars, deciding, boundVars, observers>>

Serving(more) == st = "serving" /\ ~request.schema /\ request.hash = {} /\ deciding = {} /\ more

(* MUTANT: the server does not offer the row that it has and that is newer. *)
AnswerMissing(igot) ==
    IF rows["server"][igot.key].mtime = 0
    THEN [response EXCEPT !.gimmes = @ \cup {igot.key}] ELSE response

Answer(igot) ==
    IF rows["server"][igot.key].mtime = 0
    THEN [response EXCEPT !.gimmes = @ \cup {igot.key}]
    ELSE IF rows["server"][igot.key].mtime > igot.mtime
    THEN [response EXCEPT !.cards = @ \cup {CardOf("server", igot.key)}]
    ELSE response

handleXIGot(igot) ==
    /\ Serving(igot \in request.igots)
    /\ request' = [request EXCEPT !.igots = @ \ {igot}]
    /\ response' = IF mode.pull THEN Answer(igot) ELSE response
    /\ UNCHANGED <<conflict, rows, registered, st, sessionVars, deciding, boundVars, observers>>

(* sendXRow, for tombstones too: such a card is an xrow without values, and *)
(* it is stored without a look at what is there, see handleXRowResponse.    *)
handleXGimme(k) ==
    /\ Serving(request.igots = {} /\ k \in request.gimmes)
    /\ request' = [request EXCEPT !.gimmes = @ \ {k}]
    /\ response' = IF k \in Has("server")
                   THEN [response EXCEPT !.cards = @ \cup {CardOf("server", k)}] ELSE response
    /\ UNCHANGED <<conflict, rows, registered, st, sessionVars, deciding, boundVars, observers>>

(* MUTANT: a row is taken whatever its time.                                *)
ResolveNothing(k, row, user) == TRUE

resolveXRowConflict(k, row, user) ==
    LET local == LookupXRow("server", k) IN
    local.mtime # 0 =>
        CASE conflict = "mtime-wins" -> local.mtime <= row.mtime
          [] conflict = "self-write" -> local.owner \in {Nobody, user}
          [] conflict = "owner-write" -> local.owner = user

(* MUTANT: anyone may delete.                                               *)
DeleteAnyway(card, user) == NotNewer("server", card)

acceptXDelete(card, user) ==
    /\ LookupXRowOwner("server", card.key) \in {Nobody, user}
    /\ NotNewer("server", card)

Accepts(card, user) ==
    IF IsTombstone(card.row) THEN acceptXDelete(card, user)
    ELSE resolveXRowConflict(card.key, card.row, user)

Fresh(card) == rows["server"][card.key].mtime = 0

StoredRow(card, fresh, user) ==
    IF IsTombstone(card.row) THEN Tombstone("server", card, fresh)
    ELSE [card.row EXCEPT !.owner = IF conflict = "mtime-wins" THEN Nobody ELSE user]

(* handleXRow and handleXDelete, up to the decision.                        *)
DecideCard(card) ==
    /\ Serving(request.igots = {} /\ request.gimmes = {} /\ card \in request.cards)
    /\ request' = [request EXCEPT !.cards = @ \ {card}]
    /\ deciding' = IF mode.push /\ Accepts(card, User) THEN {[card |-> card, fresh |-> Fresh(card)]} ELSE {}
    /\ UNCHANGED <<conflict, rows, registered, st, sessionVars, response, boundVars, observers>>

StoreCard(d) ==
    /\ st = "serving" /\ d \in deciding
    /\ UpsertXRow("server", d.card.key, StoredRow(d.card, d.fresh, User))
    /\ deciding' = {}
    /\ UNCHANGED <<conflict, registered, st, sessionVars, request, response, boundVars, observers>>

(* A request of the other client: the same rules, another user.             *)
PeerCard(card) ==
    /\ writes < MaxWrites /\ writes' = writes + 1
    /\ "server" \in registered /\ Accepts(card, Peer)
    /\ card.row.mtime >= now /\ now' = card.row.mtime
    /\ UpsertXRow("server", card.key, StoredRow(card, Fresh(card), Peer))
    /\ latest' = [latest EXCEPT ![card.key] = {card.row} \cup {r \in @ : r.mtime = card.row.mtime}]
    /\ raced' = IF Races("server", card.key) THEN raced \cup {card.key} ELSE raced
    /\ calm' = FALSE
    /\ UNCHANGED <<conflict, registered, st, sessionVars, request, deciding, response, failures>>

(* emitXIGots                                                               *)
Respond ==
    /\ Serving(request = NoRequest)
    /\ st' = "receiving"
    /\ response' = IF mode.pull /\ "server" \in registered
                   THEN [response EXCEPT !.schema = TRUE, !.late = Igots("server")]
                   ELSE response
    /\ UNCHANGED <<conflict, rows, registered, sessionVars, request, deciding, boundVars, observers>>

(***************************************************************************)
(* The client: processXTableCard.                                           *)
(***************************************************************************)
handleXSchemaCard ==
    /\ st = "receiving" /\ response.schema
    /\ response.igots = {} /\ response.gimmes = {} /\ response.cards = {}
    /\ registered' = registered \cup {"client"}
    /\ response' = [response EXCEPT !.schema = FALSE]
    /\ UNCHANGED <<conflict, rows, st, sessionVars, request, deciding, boundVars, observers>>

(* MUTANT: a local row that is newer is not queued.                         *)
QueueNothing(igot) == toSend

QueueNewer(igot) ==
    IF rows["client"][igot.key].mtime > igot.mtime THEN toSend \cup {igot.key} ELSE toSend

(* The hash's xigots come first, those of emitXIGots last.                  *)
handleXIGotResponse(igot) ==
    /\ st = "receiving"
    /\ \/ igot \in response.igots
       \/ /\ igot \in response.late /\ ~response.schema
          /\ response.igots = {} /\ response.gimmes = {} /\ response.cards = {}
    /\ response' = IF igot \in response.igots THEN [response EXCEPT !.igots = @ \ {igot}]
                   ELSE [response EXCEPT !.late = @ \ {igot}]
    /\ gimmes' = IF rows["client"][igot.key].mtime = 0 THEN gimmes \cup {igot.key} ELSE gimmes
    /\ toSend' = QueueNewer(igot)
    /\ UNCHANGED <<conflict, rows, registered, st, mode, cycle, request, deciding, boundVars, observers>>

handleXGimmeResponse(k) ==
    /\ st = "receiving" /\ response.igots = {} /\ k \in response.gimmes
    /\ response' = [response EXCEPT !.gimmes = @ \ {k}]
    /\ toSend' = toSend \cup {k}
    /\ UNCHANGED <<conflict, rows, registered, st, mode, cycle, gimmes, request, deciding,
                   boundVars, observers>>

GimmesAfter(k) == gimmes \ {k}

(* An xrow is stored as it is; an xdelete loses to a newer row.             *)
handleXRowResponse(card) ==
    /\ st = "receiving" /\ response.igots = {} /\ card \in response.cards
    /\ response' = [response EXCEPT !.cards = @ \ {card}]
    /\ IF IsTombstone(card.row) /\ ~NotNewer("client", card) THEN UNCHANGED rows
       ELSE UpsertXRow("client", card.key, card.row)
    /\ gimmes' = GimmesAfter(card.key)
    /\ UNCHANGED <<conflict, registered, st, mode, cycle, toSend, request, deciding,
                   boundVars, observers>>

(* The table's part of the convergence test.                                *)
EndRound ==
    /\ st = "receiving" /\ response = NoResponse
    /\ cycle' = cycle + 1
    /\ st' = IF gimmes = {} /\ toSend = {} THEN "done"
             ELSE IF cycle' = MaxRounds THEN "exceeded" ELSE "ready"
    /\ UNCHANGED <<conflict, rows, registered, mode, gimmes, toSend, request, deciding, response,
                   boundVars, observers>>

Interrupt ==
    /\ st \in {"ready", "serving", "receiving"}
    /\ failures < MaxFailures /\ failures' = failures + 1
    /\ st' = "failed"
    /\ request' = NoRequest /\ deciding' = {} /\ response' = NoResponse
    /\ UNCHANGED <<conflict, rows, registered, sessionVars, now, writes, observers>>

(* A mtime-wins table has no _owner column.                                 *)
Init ==
    /\ conflict \in Conflicts
    /\ \E start \in Starts :
        rows = start.rows /\ registered = start.registered /\ now = start.now
    /\ conflict = "mtime-wins" => \A s \in Side, k \in Key : rows[s][k].owner = Nobody
    /\ st = "idle" /\ mode \in Modes /\ cycle = 0 /\ gimmes = {} /\ toSend = {}
    /\ request = NoRequest /\ deciding = {} /\ response = NoResponse
    /\ writes = 0 /\ failures = 0
    /\ latest = [k \in Key |-> {r \in {LookupXRow(s, k) : s \in Side} :
                                  \A s \in Side : rows[s][k].mtime <= r.mtime}]
    /\ calm = TRUE /\ raced = {}

Step ==
    \/ BuildRequest \/ handleSchemaCard \/ handlePragmaXTableHash \/ Respond
    \/ handleXSchemaCard \/ EndRound
    \/ \E igot \in request.igots : handleXIGot(igot)
    \/ \E k \in request.gimmes : handleXGimme(k)
    \/ \E card \in request.cards : DecideCard(card)
    \/ \E d \in deciding : StoreCard(d)
    \/ \E igot \in response.igots \cup response.late : handleXIGotResponse(igot)
    \/ \E k \in response.gimmes : handleXGimmeResponse(k)
    \/ \E card \in response.cards : handleXRowResponse(card)

Next ==
    \/ \E m \in Modes : StartWith(m)
    \/ Step
    \/ Interrupt
    \/ \E s \in Side, k \in Key, row \in Row : Write(s, k, row) \/ Delete(s, k, row)
    \/ \E card \in Card : card.row.mtime # 0 /\ card.row.owner = Nobody /\ PeerCard(card)

Spec == Init /\ [][Next]_vars

(* As in UVSync: a session goes on to its end, sessions are started again.  *)
FairSpec == Spec /\ WF_vars(Step) /\ \A m \in Modes : SF_vars(StartWith(m))

(***************************************************************************)
(* Properties.                                                              *)
(***************************************************************************)
BothWays == mode.push /\ mode.pull

(* The same keys are live at both sides, with rows of the same time, and of *)
(* the same value unless the key was written twice in one second: rows with *)
(* the same time are taken to be the same.                                  *)
Agree ==
    \A k \in Key :
        /\ \/ rows["client"][k].mtime = rows["server"][k].mtime
           \/ rows["client"][k].val = 0 /\ rows["server"][k].val = 0
        /\ k \notin raced /\ Cardinality(latest[k]) = 1
           => rows["client"][k].val = rows["server"][k].val

(* A session that pushes and pulls a mtime-wins table and ends without an   *)
(* error, undisturbed, leaves both sides with the same rows: deletions of   *)
(* rows that the other side never had, and a table that one side did not    *)
(* know, included (handleXIGot, handleXIGotResponse, applyXDeleteLocally).  *)
(* Such a session does not run into MaxRounds: no row is asked for or sent  *)
(* for ever (the convergence test of processResponse).                      *)
DoneAgrees ==
    BothWays /\ calm /\ conflict = "mtime-wins" =>
        /\ st = "done" => Agree
        /\ st # "exceeded"

(* The last write or deletion of a key is at one of the sides, if nobody    *)
(* wrote the key between a look at it and the write after it: no older row  *)
(* that is on its way takes its place (resolveXRowConflict,                 *)
(* DeleteXRowByPKHash).  All variables keep their types.                    *)
NewestSurvives ==
    /\ TypeOK
    /\ conflict = "mtime-wins" =>
        \A k \in Key \ raced : \E s \in Side : LookupXRow(s, k) \in latest[k]

(* In a table with owners, only its owner deletes a row at the server, but  *)
(* for a write between the look at the owner and the deletion               *)
(* (handleXDelete, LookupXRowOwner).                                        *)
OwnerDeletes ==
    [][\A k \in Key \ raced :
        /\ rows["server"][k].owner \notin {Nobody, User}
        /\ rows["server"][k].val # 0 /\ rows'["server"][k].val = 0
        => writes' # writes]_vars

(* When writes and interruptions have stopped, repeated sessions bring both *)
(* sides of a mtime-wins table to the same rows, for good.                  *)
EventuallyAgree == conflict = "mtime-wins" => <>[]Agree
=============================================================================
