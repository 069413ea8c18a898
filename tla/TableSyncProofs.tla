-------------------------- MODULE TableSyncProofs --------------------------
(***************************************************************************)
(* Sessions over an extension table lose no row that was written last and   *)
(* delete none on behalf of somebody who does not own it, for any keys,     *)
(* clock, writers, other clients and interruptions; one that nobody writes  *)
(* under ends soon and leaves the same rows at both sides.                  *)
(***************************************************************************)
EXTENDS TableSync, FiniteSetTheorems, TLAPS

Running == {"ready", "serving", "receiving"}

(* What is under way: a request while the server works on it, its answer    *)
(* until the client has read it, and a round that may still be begun.       *)
SessionShape ==
    /\ st # "serving" => request = NoRequest /\ deciding = {}
    /\ st \notin {"serving", "receiving"} => response = NoResponse
    /\ st \in Running => cycle < MaxRounds

(* Cards come from rows that are there, and from tables both sides know.    *)
CardsSound ==
    /\ \A card \in request.cards \cup response.cards \cup {d.card : d \in deciding} :
          card.row.mtime # 0 /\ card.row.owner = Nobody
    /\ request.igots # {} \/ request.gimmes # {} \/ response.cards # {}
          => "client" \in registered
    /\ request.cards # {} => request.schema \/ "server" \in registered
    /\ deciding # {} => "server" \in registered

(* A mtime-wins table has no owners.                                        *)
NoOwners ==
    conflict = "mtime-wins" => \A s \in Side, k \in Key : rows[s][k].owner = Nobody

(* A deletion that was accepted is still the owner's when it is written.    *)
DecidedByOwner ==
    \A d \in deciding : IsTombstone(d.card.row) /\ d.card.key \notin raced =>
        rows["server"][d.card.key].owner \in {Nobody, User}

SessionInv == TypeOK /\ SessionShape /\ CardsSound /\ NoOwners /\ DecidedByOwner

-----------------------------------------------------------------------------
(* A row that is or was in a table: older than the last one written, or one *)
(* of those written at that time.                                           *)
Known(k, row) ==
    \A l \in latest[k] : /\ row.mtime <= l.mtime
                         /\ row.mtime = l.mtime => row \in latest[k]

LatestOfOneTime ==
    \A k \in Key : /\ latest[k] # {}
                   /\ \A l, m \in latest[k] : l.mtime = m.mtime /\ l.mtime <= now

RowsKnown == \A s \in Side, k \in Key : Known(k, LookupXRow(s, k))
CardsKnown ==
    \A card \in request.cards \cup response.cards \cup {d.card : d \in deciding} :
        Known(card.key, card.row)

(* A row that was accepted is still no older than the one it replaces.      *)
DecidedNotNewer ==
    \A d \in deciding : d.card.key \notin raced => NotNewer("server", d.card)

(* The client's rows are those it announced, and what it asks for it lacks. *)
RequestCurrent ==
    /\ \A igot \in request.igots :
          igot.key \notin raced => rows["client"][igot.key].mtime = igot.mtime
    /\ request.gimmes \subseteq gimmes
    /\ st \in Running => \A k \in gimmes \ raced : rows["client"][k].mtime = 0

(* Where a card waits for the client, the server's row is no older than the *)
(* card or than the client's row.                                           *)
ServerAhead ==
    \A card \in response.cards : card.key \notin raced =>
        /\ card.row.mtime <= rows["server"][card.key].mtime
        /\ rows["client"][card.key].mtime <= rows["server"][card.key].mtime

Survives == \A k \in Key \ raced : \E s \in Side : LookupXRow(s, k) \in latest[k]

MtimeParts ==
    /\ LatestOfOneTime /\ RowsKnown /\ CardsKnown /\ DecidedNotNewer
    /\ RequestCurrent /\ ServerAhead /\ Survives

MtimeInv == conflict = "mtime-wins" => MtimeParts

-----------------------------------------------------------------------------
(***************************************************************************)
(* The session and the types.                                               *)
(***************************************************************************)
Requests == [schema: BOOLEAN, hash: SUBSET [Key -> 0..MaxTime], igots: SUBSET Igot,
             gimmes: SUBSET Key, cards: SUBSET Card]
Responses == [igots: SUBSET Igot, gimmes: SUBSET Key, cards: SUBSET Card,
              schema: BOOLEAN, late: SUBSET Igot]

LEMMA RowFacts ==
    /\ MaxTime \in Nat /\ MaxValue \in Nat
    /\ \A row \in Row : row.mtime \in Nat /\ row.mtime \in 0..MaxTime
    /\ NoRow \in Row /\ NoRow.mtime = 0
    /\ \A row \in Row, o \in {Nobody, User, Peer} :
          /\ [row EXCEPT !.owner = o] \in Row
          /\ [row EXCEPT !.owner = o].mtime = row.mtime
          /\ [row EXCEPT !.owner = o].val = row.val
          /\ [row EXCEPT !.owner = o].owner = o
          /\ row.owner = o => [row EXCEPT !.owner = o] = row
    /\ \A card \in Card : card.key \in Key /\ card.row \in Row
    /\ "client" \in Side /\ "server" \in Side
  <1>1. MaxTime \in Nat /\ MaxValue \in Nat
    BY ConstantsAssumption
  <1>2. NoRow \in Row /\ NoRow.mtime = 0
    BY <1>1 DEF NoRow, Row
  <1>3. \A row \in Row : row.mtime \in Nat /\ row.mtime \in 0..MaxTime
    BY <1>1 DEF Row
  <1> QED BY <1>1, <1>2, <1>3 DEF Row, Card, Side

LEMMA TableFacts ==
    ASSUME rows \in [Side -> [Key -> Row]], NEW s \in Side, NEW k \in Key
    PROVE  /\ rows[s][k] \in Row /\ rows[s][k].mtime \in Nat
           /\ LookupXRow(s, k) \in Row /\ LookupXRow(s, k).owner = Nobody
           /\ LookupXRow(s, k).mtime = rows[s][k].mtime
           /\ LookupXRow(s, k).val = rows[s][k].val
           /\ CardOf(s, k) \in Card /\ CardOf(s, k).key = k
           /\ CardOf(s, k).row = LookupXRow(s, k)
  <1>1. rows[s][k] \in Row
    OBVIOUS
  <1>2. /\ LookupXRow(s, k) \in Row /\ LookupXRow(s, k).owner = Nobody
        /\ LookupXRow(s, k).mtime = rows[s][k].mtime
        /\ LookupXRow(s, k).val = rows[s][k].val
    BY <1>1, RowFacts DEF LookupXRow
  <1> QED BY <1>1, <1>2, RowFacts DEF CardOf, Card

LEMMA IgotFacts ==
    ASSUME rows \in [Side -> [Key -> Row]], NEW s \in Side
    PROVE  /\ Igots(s) \subseteq Igot
           /\ \A igot \in Igots(s) : igot.key \in Key /\ igot.mtime = rows[s][igot.key].mtime
           /\ CatalogHash(s) \in [Key -> 0..MaxTime]
  <1>1. \A k \in Key : rows[s][k].mtime \in 0..MaxTime
    BY RowFacts
  <1> QED BY <1>1, RowFacts DEF Igots, Igot, Has, CatalogHash

LEMMA DecidingOne ==
    ASSUME NEW d PROVE Cardinality({}) <= 1 /\ Cardinality({d}) <= 1
  BY FS_EmptySet, FS_Singleton

(* What a card leaves in the row it is written to.                          *)
LEMMA StoredFacts ==
    ASSUME rows \in [Side -> [Key -> Row]], NEW card \in Card, card.row.owner = Nobody,
           NEW fresh \in BOOLEAN, NEW user \in {User, Peer}
    PROVE  /\ StoredRow(card, fresh, user) \in Row
           /\ StoredRow(card, fresh, user).mtime = card.row.mtime
           /\ StoredRow(card, fresh, user).val = card.row.val
           /\ [StoredRow(card, fresh, user) EXCEPT !.owner = Nobody] = card.row
           /\ NoOwners /\ conflict = "mtime-wins"
                 => StoredRow(card, fresh, user).owner = Nobody
  <1>1. card.key \in Key /\ card.row \in Row
    BY RowFacts
  <1>2. rows["server"][card.key] \in Row
    BY <1>1, RowFacts
  <1>3. rows["server"][card.key].owner \in {Nobody, User, Peer}
    BY <1>2 DEF Row
  <1>4. [card.row EXCEPT !.owner = Nobody] = card.row
    BY <1>1, RowFacts
  <1>5. PICK o \in {Nobody, User, Peer} :
          StoredRow(card, fresh, user) = [card.row EXCEPT !.owner = o]
    BY <1>3, <1>4 DEF StoredRow, Tombstone
  <1>6. [[card.row EXCEPT !.owner = o] EXCEPT !.owner = Nobody] = card.row
    BY <1>1 DEF Row
  <1>7. NoOwners /\ conflict = "mtime-wins"
          => StoredRow(card, fresh, user).owner = Nobody
    <2>1. NoOwners /\ conflict = "mtime-wins" => rows["server"][card.key].owner = Nobody
      BY <1>1, RowFacts DEF NoOwners
    <2> QED BY <1>1, <2>1, RowFacts DEF StoredRow, Tombstone
  <1>8. /\ StoredRow(card, fresh, user) \in Row
        /\ StoredRow(card, fresh, user).mtime = card.row.mtime
        /\ StoredRow(card, fresh, user).val = card.row.val
    <2>1. /\ [card.row EXCEPT !.owner = o] \in Row
          /\ [card.row EXCEPT !.owner = o].mtime = card.row.mtime
          /\ [card.row EXCEPT !.owner = o].val = card.row.val
      BY <1>1 DEF Row
    <2> QED BY <1>5, <2>1
  <1>9. [StoredRow(card, fresh, user) EXCEPT !.owner = Nobody] = card.row
    BY <1>5, <1>6
  <1> QED BY <1>7, <1>8, <1>9

LEMMA InitSession == Init => SessionInv
  <1> SUFFICES ASSUME Init PROVE SessionInv
    OBVIOUS
  <1> USE ConstantsAssumption
  <1>1. PICK start \in Starts : rows = start.rows /\ registered = start.registered
                               /\ now = start.now
    BY DEF Init
  <1>2. /\ rows \in [Side -> [Key -> Row]] /\ registered \subseteq Side /\ now \in 1..MaxTime
        /\ \A s \in Side \ registered, k \in Key : rows[s][k] = NoRow
    BY <1>1
  <1>3. latest \in [Key -> SUBSET Row]
    <2>1. \A k \in Key, s \in Side : LookupXRow(s, k) \in Row
      BY <1>2, TableFacts
    <2> QED BY <2>1 DEF Init
  <1>4. request \in Requests /\ response \in Responses
    BY DEF Init, NoRequest, NoResponse, Requests, Responses
  <1>5. TypeOK
    <2>1. /\ st \in Ended /\ mode \in Modes /\ cycle \in 0..MaxRounds /\ conflict \in Conflicts
          /\ gimmes \cup toSend \cup raced \subseteq Key /\ writes \in 0..MaxWrites
          /\ failures \in 0..MaxFailures /\ calm \in BOOLEAN
      BY DEF Init, Ended
    <2>2. deciding = {} /\ Cardinality(deciding) <= 1
      BY DecidingOne DEF Init
    <2> QED BY <1>2, <1>3, <1>4, <2>1, <2>2 DEF TypeOK, Requests, Responses
  <1>6. SessionShape /\ CardsSound
    BY DEF Init, SessionShape, CardsSound, Running, NoRequest, NoResponse
  <1>7. NoOwners /\ DecidedByOwner
    BY DEF Init, NoOwners, DecidedByOwner
  <1> QED BY <1>5, <1>6, <1>7 DEF SessionInv

(* A step that writes no row and accepts no card.                           *)
LEMMA QuietOwners ==
    ASSUME SessionInv, UNCHANGED <<conflict, rows, raced>>, deciding' \in {deciding, {}}
    PROVE  NoOwners' /\ DecidedByOwner'
  BY DEF SessionInv, NoOwners, DecidedByOwner, IsTombstone

(* A row written by the application or by the other client.                 *)
LEMMA OthersWrite ==
    ASSUME SessionInv, NEW s \in Side, NEW k \in Key, NEW row \in Row, NEW new \in Row,
           s \in registered, writes < MaxWrites, writes' = writes + 1,
           new.mtime >= now, now' = new.mtime,
           rows' = [rows EXCEPT ![s][k] = row],
           conflict = "mtime-wins" => row.owner = Nobody,
           latest' = [latest EXCEPT ![k] = {new} \cup {r \in @ : r.mtime = new.mtime}],
           raced' = IF Races(s, k) THEN raced \cup {k} ELSE raced,
           calm' = FALSE,
           UNCHANGED <<conflict, registered, st, sessionVars, request, deciding, response,
                       failures>>
    PROVE  SessionInv'
  <1> USE DEF sessionVars
  <1>1. TypeOK /\ SessionShape /\ CardsSound /\ NoOwners /\ DecidedByOwner
    BY DEF SessionInv
  <1>2. /\ rows' \in [Side -> [Key -> Row]]
        /\ \A t \in Side, m \in Key : rows'[t][m] = IF t = s /\ m = k THEN row ELSE rows[t][m]
    BY <1>1 DEF TypeOK
  <1>3. now' \in 1..MaxTime /\ writes' \in 0..MaxWrites
    BY <1>1, RowFacts, ConstantsAssumption DEF TypeOK
  <1>4. latest' \in [Key -> SUBSET Row]
    BY <1>1 DEF TypeOK
  <1>5. raced' \subseteq Key /\ raced \subseteq raced'
    BY <1>1 DEF TypeOK
  <1>6. TypeOK'
    <2>1. \A t \in Side \ registered, m \in Key : rows'[t][m] = NoRow
      BY <1>1, <1>2 DEF TypeOK
    <2> QED BY <1>1, <1>2, <1>3, <1>4, <1>5, <2>1 DEF TypeOK
  <1>7. SessionShape' /\ CardsSound'
    BY <1>1 DEF SessionShape, CardsSound
  <1>8. NoOwners'
    BY <1>1, <1>2 DEF NoOwners
  <1>9. DecidedByOwner'
    <2> SUFFICES ASSUME NEW d \in deciding, IsTombstone(d.card.row), d.card.key \notin raced'
                 PROVE  rows'["server"][d.card.key].owner \in {Nobody, User}
      BY DEF DecidedByOwner, IsTombstone
    <2>1. rows["server"][d.card.key].owner \in {Nobody, User}
      BY <1>1, <1>5 DEF DecidedByOwner
    <2>2. ~(s = "server" /\ k = d.card.key)
      BY DEF Races
    <2>3. d.card.key \in Key
      BY <1>1, RowFacts DEF TypeOK
    <2> QED BY <1>2, <2>1, <2>2, <2>3, RowFacts
  <1> QED BY <1>6, <1>7, <1>8, <1>9 DEF SessionInv

(* Steps of the session that leave the rows alone.                          *)
LEMMA QuietSession ==
    ASSUME SessionInv, UNCHANGED <<conflict, rows, boundVars, latest, raced>>,
           SessionShape', CardsSound', deciding' \in {deciding, {}},
           registered \subseteq registered', registered' \subseteq Side,
           st' \in Ended \cup Running, mode' \in Modes, cycle' \in 0..MaxRounds,
           gimmes' \subseteq Key, toSend' \subseteq Key, calm' \in BOOLEAN,
           request' \in Requests, response' \in Responses
    PROVE  SessionInv'
  <1>1. TypeOK
    BY DEF SessionInv
  <1>2. Cardinality(deciding') <= 1 /\ deciding' \subseteq [card: Card, fresh: BOOLEAN]
    BY <1>1, DecidingOne DEF TypeOK
  <1>3. TypeOK'
    BY <1>1, <1>2 DEF TypeOK, boundVars, Requests, Responses, Running
  <1> QED BY <1>3, QuietOwners DEF SessionInv

(* The answer to an xigot card may carry the server's row.                  *)
LEMMA AnswerFacts ==
    ASSUME TypeOK, NEW igot \in Igot
    PROVE  LET answer == Answer(igot) IN
           /\ answer \in Responses
           /\ \A card \in answer.cards : \/ card \in response.cards
                                        \/ /\ card = CardOf("server", igot.key)
                                           /\ rows["server"][igot.key].mtime > igot.mtime
  <1>1. response \in Responses /\ igot.key \in Key
    BY DEF TypeOK, Responses, Igot
  <1>2. CardOf("server", igot.key) \in Card
    BY <1>1, TableFacts, RowFacts DEF TypeOK
  <1>3. CASE rows["server"][igot.key].mtime = 0
    BY <1>1, <1>3 DEF Answer, Responses
  <1>4. CASE rows["server"][igot.key].mtime # 0 /\ rows["server"][igot.key].mtime > igot.mtime
    <2>1. Answer(igot) = [response EXCEPT !.cards = @ \cup {CardOf("server", igot.key)}]
      BY <1>4 DEF Answer
    <2> QED BY <1>1, <1>2, <1>4, <2>1 DEF Responses
  <1>5. CASE rows["server"][igot.key].mtime # 0 /\ ~(rows["server"][igot.key].mtime > igot.mtime)
    BY <1>1, <1>5 DEF Answer
  <1> QED BY <1>3, <1>4, <1>5

LEMMA NextSession ==
    ASSUME SessionInv, [Next]_vars
    PROVE  SessionInv'
  <1> USE DEF sessionVars, boundVars, observers
  <1>0. /\ TypeOK /\ SessionShape /\ CardsSound /\ NoOwners /\ DecidedByOwner
        /\ rows \in [Side -> [Key -> Row]] /\ MaxRounds \in Nat \ {0}
        /\ registered \subseteq Side /\ mode \in Modes /\ cycle \in 0..MaxRounds
        /\ gimmes \subseteq Key /\ toSend \subseteq Key /\ calm \in BOOLEAN
        /\ st \in Ended \cup Running
        /\ request \in Requests /\ response \in Responses
    BY ConstantsAssumption DEF SessionInv, TypeOK, Requests, Responses, Running
  <1>a. NoRequest \in Requests /\ NoResponse \in Responses
    BY DEF NoRequest, NoResponse, Requests, Responses
  <1>1. ASSUME NEW m \in Modes, StartWith(m) PROVE SessionInv'
    <2>1. SessionShape' /\ CardsSound'
      BY <1>0, <1>1 DEF StartWith, SessionShape, CardsSound, NoRequest, NoResponse
    <2>2. /\ request' \in Requests /\ response' \in Responses /\ cycle' \in 0..MaxRounds
          /\ mode' \in Modes /\ st' \in Running /\ gimmes' \subseteq Key /\ toSend' \subseteq Key
          /\ registered' = registered /\ deciding' = {} /\ calm' \in BOOLEAN
          /\ UNCHANGED <<conflict, rows, boundVars, latest, raced>>
      BY <1>0, <1>a, <1>1 DEF StartWith, Running
    <2> QED BY <1>0, <2>1, <2>2, QuietSession
  <1>2. CASE BuildRequest
    <2>1. /\ UNCHANGED <<conflict, rows, registered, mode, cycle, gimmes, deciding, response,
                         boundVars, observers>>
          /\ st = "ready" /\ st' = "serving"
      BY <1>2 DEF BuildRequest
    <2>2. request = NoRequest /\ response = NoResponse /\ deciding = {}
      BY <1>0, <2>1 DEF SessionShape
    <2>3. \A k \in Key : CardOf("client", k) \in Card
      BY <1>0, TableFacts, RowFacts
    <2>4. CASE "client" \in registered
      <3> DEFINE cs == {CardOf("client", k) : k \in toSend \cap Has("client")}
      <3>1. /\ request' = [schema |-> TRUE, hash |-> {CatalogHash("client")},
                           igots |-> Igots("client"), gimmes |-> gimmes, cards |-> cs]
            /\ toSend' = {}
        BY <1>2, <2>4 DEF BuildRequest
      <3>2. /\ cs \subseteq Card
            /\ \A card \in cs : card.row.mtime # 0 /\ card.row.owner = Nobody
        BY <1>0, TableFacts, RowFacts DEF Has
      <3> HIDE DEF cs
      <3>3. request' \in Requests
        BY <1>0, <3>1, <3>2, IgotFacts, RowFacts DEF Requests
      <3>4. CardsSound'
        BY <2>1, <2>2, <2>4, <3>1, <3>2 DEF CardsSound, NoResponse
      <3>5. SessionShape'
        BY <1>0, <2>1 DEF SessionShape, Running
      <3> QED BY <1>0, <2>1, <3>1, <3>3, <3>4, <3>5, QuietSession DEF Running
    <2>5. CASE "client" \notin registered
      <3>1. UNCHANGED <<request, toSend>>
        BY <1>2, <2>5 DEF BuildRequest
      <3>2. CardsSound' /\ SessionShape'
        BY <1>0, <2>1, <3>1 DEF CardsSound, SessionShape, Running
      <3> QED BY <1>0, <2>1, <3>1, <3>2, QuietSession DEF Running
    <2> QED BY <2>4, <2>5
  <1>3. CASE handleSchemaCard
    <2>1. /\ UNCHANGED <<conflict, rows, st, sessionVars, deciding, response, boundVars, observers>>
          /\ st = "serving" /\ registered' = registered \cup {"server"}
          /\ request' = [request EXCEPT !.schema = FALSE]
      BY <1>3 DEF handleSchemaCard
    <2>2. request' \in Requests
      BY <1>0, <2>1 DEF Requests
    <2>3. SessionShape' /\ CardsSound'
      BY <1>0, <2>1 DEF SessionShape, CardsSound, Requests
    <2> QED BY <1>0, <2>1, <2>2, <2>3, RowFacts, QuietSession
  <1>4. CASE handlePragmaXTableHash
    <2>1. /\ UNCHANGED <<conflict, rows, registered, st, sessionVars, deciding, boundVars, observers>>
          /\ st = "serving" /\ request' = [request EXCEPT !.hash = {}]
          /\ response' \in {response, [response EXCEPT !.igots = Igots("server")]}
      BY <1>4 DEF handlePragmaXTableHash
    <2>2. Igots("server") \subseteq Igot
      BY <1>0, IgotFacts, RowFacts
    <2>3. request' \in Requests /\ response' \in Responses /\ response'.cards = response.cards
      BY <1>0, <2>1, <2>2 DEF Requests, Responses
    <2>4. SessionShape' /\ CardsSound'
      BY <1>0, <2>1, <2>3 DEF SessionShape, CardsSound, Requests
    <2> QED BY <1>0, <2>1, <2>3, <2>4, QuietSession
  <1>5. ASSUME NEW igot \in request.igots, handleXIGot(igot) PROVE SessionInv'
    <2>1. /\ UNCHANGED <<conflict, rows, registered, st, sessionVars, deciding, boundVars, observers>>
          /\ st = "serving" /\ request' = [request EXCEPT !.igots = @ \ {igot}]
          /\ response' \in {response, Answer(igot)}
      BY <1>5 DEF handleXIGot, Serving
    <2>2. igot \in Igot /\ igot.key \in Key /\ igot.mtime \in Nat
      BY <1>0, RowFacts DEF Requests, Igot
    <2>3. /\ request' \in Requests /\ response' \in Responses
          /\ request'.igots \subseteq request.igots /\ request'.gimmes = request.gimmes
          /\ request'.cards = request.cards /\ request'.schema = request.schema
          /\ \A card \in response'.cards : \/ card \in response.cards
                                          \/ /\ card = CardOf("server", igot.key)
                                             /\ rows["server"][igot.key].mtime > igot.mtime
      BY <1>0, <2>1, <2>2, AnswerFacts DEF Requests
    <2>4. \A card \in response'.cards : card.row.mtime # 0 /\ card.row.owner = Nobody
      <3> SUFFICES ASSUME NEW card \in response'.cards
                   PROVE  card.row.mtime # 0 /\ card.row.owner = Nobody
        OBVIOUS
      <3>1. CASE card \in response.cards
        BY <1>0, <3>1 DEF CardsSound
      <3>2. CASE card \notin response.cards
        <4>1. card = CardOf("server", igot.key) /\ rows["server"][igot.key].mtime > igot.mtime
          BY <2>3, <3>2
        <4>2. rows["server"][igot.key].mtime \in Nat
          BY <1>0, <2>2, TableFacts, RowFacts
        <4> QED BY <1>0, <2>2, <4>1, <4>2, TableFacts, RowFacts
      <3> QED BY <3>1, <3>2
    <2>5. "client" \in registered
      BY <1>0 DEF CardsSound
    <2>6. SessionShape' /\ CardsSound'
      BY <1>0, <2>1, <2>3, <2>4, <2>5 DEF SessionShape, CardsSound
    <2> QED BY <1>0, <2>1, <2>3, <2>6, QuietSession
  <1>6. ASSUME NEW k \in request.gimmes, handleXGimme(k) PROVE SessionInv'
    <2>1. /\ UNCHANGED <<conflict, rows, registered, st, sessionVars, deciding, boundVars, observers>>
          /\ st = "serving" /\ request' = [request EXCEPT !.gimmes = @ \ {k}]
          /\ response' = IF k \in Has("server")
                         THEN [response EXCEPT !.cards = @ \cup {CardOf("server", k)}]
                         ELSE response
      BY <1>6 DEF handleXGimme, Serving
    <2>2. k \in Key
      BY <1>0 DEF Requests
    <2>3. /\ CardOf("server", k) \in Card /\ CardOf("server", k).row.owner = Nobody
          /\ k \in Has("server") => CardOf("server", k).row.mtime # 0
      BY <1>0, <2>2, TableFacts, RowFacts DEF Has
    <2>4. /\ request' \in Requests /\ response' \in Responses
          /\ request'.igots = request.igots /\ request'.gimmes \subseteq request.gimmes
          /\ request'.cards = request.cards /\ request'.schema = request.schema
          /\ response'.cards \subseteq
               response.cards \cup (IF k \in Has("server") THEN {CardOf("server", k)} ELSE {})
      BY <1>0, <2>1, <2>3 DEF Requests, Responses
    <2>5. "client" \in registered
      BY <1>0 DEF CardsSound
    <2>6. SessionShape' /\ CardsSound'
      BY <1>0, <2>1, <2>3, <2>4, <2>5 DEF SessionShape, CardsSound
    <2> QED BY <1>0, <2>1, <2>4, <2>6, QuietSession
  <1>7. ASSUME NEW card \in request.cards, DecideCard(card) PROVE SessionInv'
    <2>1. /\ UNCHANGED <<conflict, rows, registered, st, sessionVars, response, boundVars, observers>>
          /\ st = "serving" /\ ~request.schema
          /\ request' = [request EXCEPT !.cards = @ \ {card}]
          /\ \/ deciding' = {}
             \/ deciding' = {[card |-> card, fresh |-> Fresh(card)]} /\ Accepts(card, User)
      BY <1>7 DEF DecideCard, Serving
    <2>2. card \in Card /\ card.row.mtime # 0 /\ card.row.owner = Nobody
      BY <1>0 DEF Requests, CardsSound
    <2>3. Fresh(card) \in BOOLEAN
      BY DEF Fresh
    <2>4. deciding' \subseteq [card: Card, fresh: BOOLEAN] /\ Cardinality(deciding') <= 1
      <3>1. [card |-> card, fresh |-> Fresh(card)] \in [card: Card, fresh: BOOLEAN]
        BY <2>2, <2>3
      <3>2. deciding' = {} \/ deciding' = {[card |-> card, fresh |-> Fresh(card)]}
        BY <2>1
      <3>3. Cardinality({}) <= 1 /\ Cardinality({[card |-> card, fresh |-> Fresh(card)]}) <= 1
        BY DecidingOne
      <3> QED BY <3>1, <3>2, <3>3, Zenon
    <2>5. /\ request' \in Requests
          /\ request'.igots = request.igots /\ request'.gimmes = request.gimmes
          /\ request'.cards \subseteq request.cards /\ request'.schema = request.schema
      BY <1>0, <2>1 DEF Requests
    <2>6. TypeOK'
      BY <1>0, <2>1, <2>4, <2>5 DEF TypeOK, Requests
    <2>7. "server" \in registered
      BY <1>0, <2>1 DEF CardsSound
    <2>8. SessionShape' /\ CardsSound'
      BY <1>0, <2>1, <2>2, <2>5, <2>7 DEF SessionShape, CardsSound
    <2>9. DecidedByOwner'
      <3> SUFFICES ASSUME NEW d \in deciding', IsTombstone(d.card.row)
                   PROVE  rows["server"][d.card.key].owner \in {Nobody, User}
        BY <2>1 DEF DecidedByOwner, IsTombstone
      <3>1. d.card = card /\ acceptXDelete(card, User)
        BY <2>1 DEF Accepts
      <3>2. card.key \in Key
        BY <2>2, RowFacts
      <3>3. conflict = "mtime-wins" => rows["server"][card.key].owner = Nobody
        BY <1>0, <3>2, RowFacts DEF NoOwners
      <3> QED BY <3>1, <3>3 DEF acceptXDelete, LookupXRowOwner
    <2>10. NoOwners'
      BY <1>0, <2>1 DEF NoOwners
    <2> QED BY <2>6, <2>8, <2>9, <2>10 DEF SessionInv
  <1>8. ASSUME NEW d \in deciding, StoreCard(d) PROVE SessionInv'
    <2>1. /\ UNCHANGED <<conflict, registered, st, sessionVars, request, response, boundVars, observers>>
          /\ st = "serving" /\ deciding' = {}
          /\ rows' = [rows EXCEPT !["server"][d.card.key] = StoredRow(d.card, d.fresh, User)]
      BY <1>8 DEF StoreCard, UpsertXRow
    <2>2. d.card \in Card /\ d.fresh \in BOOLEAN /\ d.card.key \in Key /\ d.card.row.owner = Nobody
          /\ "server" \in registered
      BY <1>0, RowFacts DEF TypeOK, CardsSound
    <2>3. /\ StoredRow(d.card, d.fresh, User) \in Row
          /\ conflict = "mtime-wins" => StoredRow(d.card, d.fresh, User).owner = Nobody
      BY <1>0, <2>2, StoredFacts
    <2>4. /\ rows' \in [Side -> [Key -> Row]]
          /\ \A t \in Side, m \in Key :
                rows'[t][m] = IF t = "server" /\ m = d.card.key
                              THEN StoredRow(d.card, d.fresh, User) ELSE rows[t][m]
      BY <1>0, <2>1, <2>2, <2>3
    <2>5. TypeOK'
      <3>1. \A t \in Side \ registered, m \in Key : rows'[t][m] = NoRow
        BY <1>0, <2>2, <2>4 DEF TypeOK
      <3> QED BY <1>0, <2>1, <2>4, <3>1, DecidingOne DEF TypeOK
    <2>6. SessionShape' /\ CardsSound'
      BY <1>0, <2>1 DEF SessionShape, CardsSound
    <2>7. NoOwners' /\ DecidedByOwner'
      BY <1>0, <2>1, <2>3, <2>4 DEF NoOwners, DecidedByOwner
    <2> QED BY <2>5, <2>6, <2>7 DEF SessionInv
  <1>9. CASE Respond
    <2>1. /\ UNCHANGED <<conflict, rows, registered, sessionVars, request, deciding, boundVars, observers>>
          /\ st = "serving" /\ st' = "receiving" /\ request = NoRequest /\ deciding = {}
          /\ response' \in {response,
                            [response EXCEPT !.schema = TRUE, !.late = Igots("server")]}
      BY <1>9 DEF Respond, Serving
    <2>2. Igots("server") \subseteq Igot
      BY <1>0, IgotFacts, RowFacts
    <2>3. response' \in Responses /\ response'.cards = response.cards
      BY <1>0, <2>1, <2>2 DEF Responses
    <2>4. SessionShape' /\ CardsSound'
      BY <1>0, <2>1, <2>3 DEF SessionShape, CardsSound, Running
    <2> QED BY <1>0, <2>1, <2>3, <2>4, QuietSession DEF Running
  <1>10. CASE handleXSchemaCard
    <2>1. /\ UNCHANGED <<conflict, rows, st, sessionVars, request, deciding, boundVars, observers>>
          /\ st = "receiving" /\ registered' = registered \cup {"client"}
          /\ response' = [response EXCEPT !.schema = FALSE]
      BY <1>10 DEF handleXSchemaCard
    <2>2. response' \in Responses /\ response'.cards = response.cards
      BY <1>0, <2>1 DEF Responses
    <2>3. SessionShape' /\ CardsSound'
      BY <1>0, <2>1, <2>2 DEF SessionShape, CardsSound
    <2> QED BY <1>0, <2>1, <2>2, <2>3, RowFacts, QuietSession
  <1>11. ASSUME NEW igot \in response.igots \cup response.late, handleXIGotResponse(igot)
         PROVE  SessionInv'
    <2>1. /\ UNCHANGED <<conflict, rows, registered, st, mode, cycle, request, deciding, boundVars,
                         observers>>
          /\ st = "receiving"
          /\ response' \in {[response EXCEPT !.igots = @ \ {igot}],
                            [response EXCEPT !.late = @ \ {igot}]}
          /\ gimmes' \in {gimmes, gimmes \cup {igot.key}}
          /\ toSend' \in {toSend, toSend \cup {igot.key}}
      BY <1>11 DEF handleXIGotResponse, QueueNewer
    <2>2. igot.key \in Key
      BY <1>0 DEF Responses, Igot
    <2>3. response' \in Responses /\ response'.cards = response.cards
      BY <1>0, <2>1 DEF Responses
    <2>4. SessionShape' /\ CardsSound'
      BY <1>0, <2>1, <2>3 DEF SessionShape, CardsSound
    <2> QED BY <1>0, <2>1, <2>2, <2>3, <2>4, QuietSession
  <1>12. ASSUME NEW k \in response.gimmes, handleXGimmeResponse(k) PROVE SessionInv'
    <2>1. /\ UNCHANGED <<conflict, rows, registered, st, mode, cycle, gimmes, request, deciding,
                         boundVars, observers>>
          /\ st = "receiving" /\ response' = [response EXCEPT !.gimmes = @ \ {k}]
          /\ toSend' = toSend \cup {k}
      BY <1>12 DEF handleXGimmeResponse
    <2>2. k \in Key /\ response' \in Responses /\ response'.cards = response.cards
      BY <1>0, <2>1 DEF Responses
    <2>3. SessionShape' /\ CardsSound'
      BY <1>0, <2>1, <2>2 DEF SessionShape, CardsSound
    <2> QED BY <1>0, <2>1, <2>2, <2>3, QuietSession
  <1>13. ASSUME NEW card \in response.cards, handleXRowResponse(card) PROVE SessionInv'
    <2>1. /\ UNCHANGED <<conflict, registered, st, mode, cycle, toSend, request, deciding,
                         boundVars, observers>>
          /\ st = "receiving" /\ response' = [response EXCEPT !.cards = @ \ {card}]
          /\ rows' \in {rows, [rows EXCEPT !["client"][card.key] = card.row]}
          /\ gimmes' = gimmes \ {card.key}
      BY <1>13 DEF handleXRowResponse, UpsertXRow, GimmesAfter
    <2>2. card \in Card /\ card.key \in Key /\ card.row \in Row /\ card.row.owner = Nobody
          /\ "client" \in registered
      BY <1>0, RowFacts DEF Responses, CardsSound
    <2>3. response' \in Responses /\ response'.cards \subseteq response.cards
      BY <1>0, <2>1 DEF Responses
    <2>4. /\ rows' \in [Side -> [Key -> Row]]
          /\ \A t \in Side, m \in Key : \/ rows'[t][m] = rows[t][m]
                                        \/ t = "client" /\ rows'[t][m] = card.row
      BY <1>0, <2>1, <2>2
    <2>5. TypeOK'
      <3>1. \A t \in Side \ registered, m \in Key : rows'[t][m] = NoRow
        BY <1>0, <2>2, <2>4 DEF TypeOK
      <3> QED BY <1>0, <2>1, <2>3, <2>4, <3>1 DEF TypeOK, Responses
    <2>6. SessionShape' /\ CardsSound'
      BY <1>0, <2>1, <2>3 DEF SessionShape, CardsSound
    <2>7. NoOwners'
      BY <1>0, <2>1, <2>2, <2>4 DEF NoOwners
    <2>8. DecidedByOwner'
      BY <1>0, <2>1 DEF DecidedByOwner, SessionShape
    <2> QED BY <2>5, <2>6, <2>7, <2>8 DEF SessionInv
  <1>14. CASE EndRound
    <2>1. /\ UNCHANGED <<conflict, rows, registered, mode, gimmes, toSend, request, deciding, response,
                         boundVars, observers>>
          /\ st = "receiving" /\ response = NoResponse /\ cycle' = cycle + 1
          /\ st' \in {"done", "exceeded", "ready"} /\ (st' = "ready" => cycle' # MaxRounds)
      BY <1>14 DEF EndRound
    <2>2. cycle < MaxRounds
      BY <1>0, <2>1 DEF SessionShape, Running
    <2>3. cycle' \in 0..MaxRounds /\ (st' \in Running => cycle' < MaxRounds)
      BY <1>0, <2>1, <2>2 DEF Running
    <2>4. SessionShape' /\ CardsSound'
      BY <1>0, <2>1, <2>3 DEF SessionShape, CardsSound
    <2> QED BY <1>0, <2>1, <2>3, <2>4, QuietSession DEF Running, Ended
  <1>15. CASE Interrupt
    <2>1. /\ UNCHANGED <<conflict, rows, registered, sessionVars, now, writes, observers>>
          /\ st' = "failed" /\ request' = NoRequest /\ deciding' = {} /\ response' = NoResponse
      BY <1>15 DEF Interrupt
    <2>2. failures' \in 0..MaxFailures
      BY <1>0, <1>15, ConstantsAssumption DEF Interrupt, TypeOK
    <2>3. TypeOK'
      BY <1>0, <1>a, <2>1, <2>2, DecidingOne DEF TypeOK, Requests, Responses, Ended
    <2>4. SessionShape' /\ CardsSound'
      BY <2>1 DEF SessionShape, CardsSound, Running, NoRequest, NoResponse
    <2>5. NoOwners' /\ DecidedByOwner'
      BY <2>1, QuietOwners
    <2> QED BY <2>3, <2>4, <2>5 DEF SessionInv
  <1>16. ASSUME NEW s \in Side, NEW k \in Key, NEW row \in Row,
                Write(s, k, row) \/ Delete(s, k, row)
         PROVE  SessionInv'
    <2>1. Edit(s, k, row) /\ (row.owner = Nobody \/ row.owner = rows[s][k].owner)
      BY <1>16 DEF Write, Delete
    <2>2. [row EXCEPT !.owner = Nobody] \in Row /\ [row EXCEPT !.owner = Nobody].mtime = row.mtime
      BY DEF Row
    <2>3. conflict = "mtime-wins" => row.owner = Nobody
      BY <1>0, <2>1 DEF NoOwners
    <2>4. PICK new \in Row : new = [row EXCEPT !.owner = Nobody]
      BY <2>2
    <2>5. new.mtime = row.mtime
      BY <2>2, <2>4
    <2>6. /\ writes < MaxWrites /\ writes' = writes + 1 /\ s \in registered
          /\ new.mtime >= now /\ now' = new.mtime
          /\ rows' = [rows EXCEPT ![s][k] = row]
          /\ latest' = [latest EXCEPT ![k] = {new} \cup {r \in @ : r.mtime = new.mtime}]
          /\ raced' = (IF Races(s, k) THEN raced \cup {k} ELSE raced) /\ calm' = FALSE
          /\ UNCHANGED <<conflict, registered, st, sessionVars, request, deciding, response,
                         failures>>
      BY <2>1, <2>4, <2>5 DEF Edit, UpsertXRow
    <2> HIDE DEF sessionVars
    <2> QED BY <2>3, <2>6, OthersWrite
  <1>17. ASSUME NEW card \in Card, card.row.mtime # 0, card.row.owner = Nobody, PeerCard(card)
         PROVE  SessionInv'
    <2>1. card.key \in Key /\ card.row \in Row /\ Fresh(card) \in BOOLEAN /\ "server" \in Side
      BY RowFacts DEF Fresh
    <2>2. /\ StoredRow(card, Fresh(card), Peer) \in Row
          /\ conflict = "mtime-wins" => StoredRow(card, Fresh(card), Peer).owner = Nobody
      BY <1>0, <1>17, <2>1, StoredFacts
    <2>3. /\ writes < MaxWrites /\ writes' = writes + 1 /\ "server" \in registered
          /\ card.row.mtime >= now /\ now' = card.row.mtime
          /\ rows' = [rows EXCEPT !["server"][card.key] = StoredRow(card, Fresh(card), Peer)]
          /\ latest' = [latest EXCEPT ![card.key] =
                          {card.row} \cup {r \in @ : r.mtime = card.row.mtime}]
          /\ raced' = (IF Races("server", card.key) THEN raced \cup {card.key} ELSE raced)
          /\ calm' = FALSE
          /\ UNCHANGED <<conflict, registered, st, sessionVars, request, deciding, response,
                         failures>>
      BY <1>17 DEF PeerCard, UpsertXRow
    <2> HIDE DEF sessionVars
    <2> QED BY <2>1, <2>2, <2>3, OthersWrite
  <1>18. CASE UNCHANGED vars
    <2>1. SessionShape' /\ CardsSound'
      BY <1>0, <1>18 DEF vars, SessionShape, CardsSound
    <2> QED BY <1>0, <1>18, <2>1, QuietSession DEF vars
  <1> QED BY <1>1, <1>2, <1>3, <1>4, <1>5, <1>6, <1>7, <1>8, <1>9, <1>10, <1>11, <1>12, <1>13,
             <1>14, <1>15, <1>16, <1>17, <1>18 DEF Next, Step

LEMMA SessionInvariant == Spec => []SessionInv
  BY InitSession, NextSession, PTL DEF Spec

(* In a table with owners no session deletes somebody else's row at the     *)
(* server, unless the row was written between handleXDelete's look at the   *)
(* owner and the deletion.                                                  *)
THEOREM OnlyOwnersDelete == Spec => OwnerDeletes
  <1> DEFINE P == \A k \in Key \ raced :
                    /\ rows["server"][k].owner \notin {Nobody, User}
                    /\ rows["server"][k].val # 0 /\ rows'["server"][k].val = 0
                    => writes' # writes
  <1>1. ASSUME SessionInv, [Next]_vars PROVE [P]_vars
    <2> SUFFICES ASSUME Next, NEW k \in Key \ raced, writes' = writes,
                        rows["server"][k].owner \notin {Nobody, User},
                        rows["server"][k].val # 0, rows'["server"][k].val = 0
                 PROVE  FALSE
      BY <1>1
    <2>1. writes \in Nat /\ rows \in [Side -> [Key -> Row]]
      BY <1>1, ConstantsAssumption DEF SessionInv, TypeOK
    <2>2. ASSUME NEW d \in deciding, StoreCard(d) PROVE FALSE
      <3>1. rows' = [rows EXCEPT !["server"][d.card.key] = StoredRow(d.card, d.fresh, User)]
        BY <2>2 DEF StoreCard, UpsertXRow
      <3>2. d.card \in Card /\ d.fresh \in BOOLEAN /\ d.card.key \in Key
            /\ d.card.row.owner = Nobody /\ d.card.row.mtime # 0
        BY <1>1, RowFacts DEF SessionInv, TypeOK, CardsSound
      <3>3. StoredRow(d.card, d.fresh, User).val = d.card.row.val
        BY <2>1, <3>2, StoredFacts
      <3>4. d.card.key = k /\ d.card.row.val = 0
        BY <2>1, <3>1, <3>2, <3>3, RowFacts
      <3>5. IsTombstone(d.card.row)
        BY <3>2, <3>4 DEF IsTombstone
      <3> QED BY <1>1, <3>4, <3>5 DEF SessionInv, DecidedByOwner
    <2>3. ASSUME NEW card \in Card, handleXRowResponse(card) PROVE FALSE
      BY <2>1, <2>3, RowFacts DEF handleXRowResponse, UpsertXRow
    <2>4. UNCHANGED rows => FALSE
      OBVIOUS
    <2>5. response.cards \subseteq Card
      BY <1>1 DEF SessionInv, TypeOK
    <2> QED BY <2>1, <2>2, <2>3, <2>4, <2>5
        DEF Next, Step, StartWith, BuildRequest, handleSchemaCard, handlePragmaXTableHash,
            handleXIGot, handleXGimme, DecideCard, Respond, handleXSchemaCard,
            handleXIGotResponse, handleXGimmeResponse, EndRound, Interrupt, Write, Delete,
            Edit, PeerCard
  <1>2. SessionInv /\ [Next]_vars => [P]_vars
    BY <1>1
  <1> QED BY <1>2, SessionInvariant, PTL DEF Spec, OwnerDeletes

-----------------------------------------------------------------------------
(***************************************************************************)
(* The newest rows of a mtime-wins table.                                   *)
(***************************************************************************)
Cards == request.cards \cup response.cards \cup {d.card : d \in deciding}

(* A step that writes no row: new cards are copies of rows, what is decided *)
(* was just compared, and what is asked for is missing.                     *)
LEMMA QuietMtime ==
    ASSUME SessionInv, SessionInv', MtimeParts,
           UNCHANGED <<rows, latest, raced, now>>,
           \A card \in Cards' : card \in Cards \/ \E s \in Side, k \in Key : card = CardOf(s, k),
           \A card \in response'.cards :
              \/ card \in response.cards
              \/ /\ card.key \in Key /\ card = CardOf("server", card.key)
                 /\ card.key \notin raced =>
                      rows["client"][card.key].mtime <= rows["server"][card.key].mtime,
           \A d \in deciding' : d \in deciding \/ NotNewer("server", d.card),
           \A igot \in request'.igots :
              igot \in request.igots \/ igot.mtime = rows["client"][igot.key].mtime,
           request'.gimmes \subseteq gimmes',
           st' \in Running => \A k \in gimmes' \ raced : rows["client"][k].mtime = 0
    PROVE  MtimeParts'
  <1>1. rows \in [Side -> [Key -> Row]] /\ "client" \in Side /\ "server" \in Side
    BY RowFacts DEF SessionInv, TypeOK
  <1>2. \A k, r : Known(k, r)' <=> Known(k, r)
    BY DEF Known
  <1>3. LatestOfOneTime' /\ RowsKnown' /\ Survives'
    BY <1>2 DEF MtimeParts, LatestOfOneTime, RowsKnown, Survives, LookupXRow
  <1>4. CardsKnown'
    <2> SUFFICES ASSUME NEW card \in Cards' PROVE Known(card.key, card.row)
      BY <1>2 DEF CardsKnown, Cards
    <2>1. CASE card \in Cards
      BY <2>1 DEF MtimeParts, CardsKnown, Cards
    <2>2. CASE \E s \in Side, k \in Key : card = CardOf(s, k)
      BY <1>1, <2>2, TableFacts DEF MtimeParts, RowsKnown
    <2> QED BY <2>1, <2>2
  <1>5. DecidedNotNewer'
    BY DEF MtimeParts, DecidedNotNewer, NotNewer
  <1>6. RequestCurrent'
    BY DEF MtimeParts, RequestCurrent
  <1>7. ServerAhead'
    <2> SUFFICES ASSUME NEW card \in response'.cards, card.key \notin raced
                 PROVE  /\ card.row.mtime <= rows["server"][card.key].mtime
                        /\ rows["client"][card.key].mtime <= rows["server"][card.key].mtime
      BY DEF ServerAhead
    <2>1. CASE card \in response.cards
      BY <2>1 DEF MtimeParts, ServerAhead
    <2>2. CASE card \notin response.cards
      <3>1. card.key \in Key /\ card = CardOf("server", card.key)
            /\ rows["client"][card.key].mtime <= rows["server"][card.key].mtime
        BY <2>2
      <3>2. card.row.mtime = rows["server"][card.key].mtime
            /\ rows["server"][card.key].mtime \in Nat
        BY <1>1, <3>1, TableFacts
      <3> QED BY <3>1, <3>2
    <2> QED BY <2>1, <2>2
  <1> QED BY <1>3, <1>4, <1>5, <1>6, <1>7 DEF MtimeParts

(* A write is the last one for its key, and what was known remains known.   *)
LEMMA LatestAfterWrite ==
    ASSUME latest \in [Key -> SUBSET Row], now \in Nat, LatestOfOneTime,
           NEW k \in Key, NEW new \in Row, new.mtime >= now, now' = new.mtime,
           latest' = [latest EXCEPT ![k] = {new} \cup {r \in @ : r.mtime = new.mtime}]
    PROVE  /\ LatestOfOneTime'
           /\ \A m \in Key \ {k} : latest'[m] = latest[m]
           /\ new \in latest'[k] /\ Known(k, new)'
           /\ \A m \in Key, r \in Row : Known(m, r) => Known(m, r)'
  <1>1. new.mtime \in Nat
    BY RowFacts
  <1>2. \A m \in Key : latest'[m] = IF m = k
                THEN {new} \cup {r \in latest[k] : r.mtime = new.mtime} ELSE latest[m]
    OBVIOUS
  <1>3. \A m \in Key : \A l \in latest[m] : l.mtime \in Nat /\ l.mtime <= now
    BY RowFacts DEF LatestOfOneTime
  <1>4. LatestOfOneTime'
    <2> SUFFICES ASSUME NEW m \in Key
                 PROVE  /\ latest'[m] # {}
                        /\ \A l, n \in latest'[m] : l.mtime = n.mtime /\ l.mtime <= now'
      BY DEF LatestOfOneTime
    <2>1. CASE m = k
      BY <1>1, <1>2, <2>1
    <2>2. CASE m # k
      <3>1. latest'[m] = latest[m] BY <1>2, <2>2
      <3>2. \A l \in latest[m] : l.mtime <= now'
        BY <1>1, <1>3
      <3> QED BY <3>1, <3>2 DEF LatestOfOneTime
    <2> QED BY <2>1, <2>2
  <1>5. new \in latest'[k] /\ \A n \in latest'[k] : n.mtime = new.mtime
    BY <1>2
  <1>6. Known(k, new)'
    BY <1>1, <1>5 DEF Known
  <1>7. ASSUME NEW m \in Key, NEW r \in Row, Known(m, r) PROVE Known(m, r)'
    <2>1. CASE m # k
      <3>1. latest'[m] = latest[m] BY <1>2, <2>1
      <3> QED BY <1>7, <3>1 DEF Known
    <2>2. CASE m = k
      <3>1. PICK l \in latest[k] : TRUE
        BY DEF LatestOfOneTime
      <3>2. /\ r.mtime \in Nat /\ l.mtime \in Nat /\ l.mtime <= now /\ r.mtime <= l.mtime
            /\ r.mtime = l.mtime => r \in latest[k]
        BY <1>3, <1>7, <2>2, <3>1, RowFacts DEF Known
      <3>3. r.mtime <= new.mtime /\ (r.mtime = new.mtime => r.mtime = l.mtime)
        BY <1>1, <3>2
      <3>4. r.mtime = new.mtime => r \in latest'[k]
        BY <1>2, <3>2, <3>3
      <3> QED BY <1>5, <2>2, <3>3, <3>4 DEF Known
    <2> QED BY <2>1, <2>2
  <1> QED BY <1>2, <1>4, <1>5, <1>6, <1>7

(* A row that is newer than all others is written by others: where it       *)
(* crosses a look of the session, the key has raced.                        *)
LEMMA OthersMtime ==
    ASSUME SessionInv, MtimeParts, NEW s \in Side, NEW k \in Key, NEW row \in Row, NEW new \in Row,
           new.mtime = row.mtime, LookupXRow(s, k)' = new, new.mtime >= now, now' = new.mtime,
           rows' = [rows EXCEPT ![s][k] = row],
           latest' = [latest EXCEPT ![k] = {new} \cup {r \in @ : r.mtime = new.mtime}],
           raced' = IF Races(s, k) THEN raced \cup {k} ELSE raced,
           UNCHANGED <<st, gimmes, request, deciding, response>>
    PROVE  MtimeParts'
  <1>1. rows \in [Side -> [Key -> Row]] /\ "client" \in Side /\ "server" \in Side
        /\ latest \in [Key -> SUBSET Row] /\ now \in Nat /\ new.mtime \in Nat /\ raced \subseteq Key
        /\ gimmes \subseteq Key
    BY RowFacts DEF SessionInv, TypeOK
  <1>2. /\ rows' \in [Side -> [Key -> Row]]
        /\ \A t \in Side, m \in Key : rows'[t][m] = IF t = s /\ m = k THEN row ELSE rows[t][m]
    BY <1>1
  <1>3. /\ LatestOfOneTime'
        /\ \A m \in Key \ {k} : latest'[m] = latest[m]
        /\ new \in latest'[k] /\ Known(k, new)'
        /\ \A m \in Key, r \in Row : Known(m, r) => Known(m, r)'
    BY <1>1, LatestAfterWrite DEF MtimeParts
  <1>4. \A m \in Key : \A l \in latest[m] : l.mtime \in Nat /\ l.mtime <= now
    BY <1>1, RowFacts DEF MtimeParts, LatestOfOneTime
  <1>5. raced \subseteq raced'
    OBVIOUS
  <1>8. \A t \in Side, m \in Key :
          LookupXRow(t, m)' = IF t = s /\ m = k THEN new ELSE LookupXRow(t, m)
    BY <1>2 DEF LookupXRow
  <1>9. RowsKnown'
    <2> SUFFICES ASSUME NEW t \in Side, NEW m \in Key PROVE Known(m, LookupXRow(t, m))'
      BY DEF RowsKnown
    <2>1. CASE t = s /\ m = k
      <3>1. LookupXRow(t, m)' = new
        BY <1>8, <2>1
      <3> QED BY <1>3, <2>1, <3>1 DEF Known
    <2>2. CASE ~(t = s /\ m = k)
      <3>1. LookupXRow(t, m)' = LookupXRow(t, m) BY <1>8, <2>2
      <3>2. Known(m, LookupXRow(t, m)) /\ LookupXRow(t, m) \in Row
        BY <1>1, TableFacts DEF MtimeParts, RowsKnown
      <3> QED BY <1>3, <3>1, <3>2 DEF Known
    <2> QED BY <2>1, <2>2
  <1>10. CardsKnown'
    <2> SUFFICES ASSUME NEW card \in Cards PROVE Known(card.key, card.row)'
      BY DEF CardsKnown, Cards
    <2>1. card \in Card /\ Known(card.key, card.row)
      BY DEF MtimeParts, CardsKnown, Cards, SessionInv, TypeOK
    <2> QED BY <1>3, <2>1, RowFacts DEF Known
  <1>11. Survives'
    <2> SUFFICES ASSUME NEW m \in Key \ raced'
                 PROVE  \E t \in Side : LookupXRow(t, m)' \in latest'[m]
      BY DEF Survives
    <2>1. CASE m = k
      BY <1>3, <1>8, <2>1
    <2>2. CASE m # k
      BY <1>3, <1>5, <1>8, <2>2 DEF MtimeParts, Survives
    <2> QED BY <2>1, <2>2
  <1>12. DecidedNotNewer'
    <2> SUFFICES ASSUME NEW d \in deciding, d.card.key \notin raced'
                 PROVE  rows'["server"][d.card.key].mtime <= d.card.row.mtime
      BY DEF DecidedNotNewer, NotNewer
    <2>1. d.card.key \in Key
      BY RowFacts DEF SessionInv, TypeOK
    <2>2. ~(s = "server" /\ k = d.card.key)
      BY DEF Races
    <2> QED BY <1>1, <1>2, <1>5, <2>1, <2>2 DEF MtimeParts, DecidedNotNewer, NotNewer
  <1>13. \A m \in Key : rows["server"][m].mtime <= rows'["server"][m].mtime
    <2> SUFFICES ASSUME NEW m \in Key
                 PROVE  rows["server"][m].mtime <= rows'["server"][m].mtime
      OBVIOUS
    <2>1. rows["server"][m].mtime \in Nat /\ LookupXRow("server", m).mtime = rows["server"][m].mtime
      BY <1>1, TableFacts
    <2>2. PICK l \in latest[m] : TRUE
      BY DEF MtimeParts, LatestOfOneTime
    <2>3. rows["server"][m].mtime <= l.mtime
      BY <1>1, <2>1, <2>2 DEF MtimeParts, RowsKnown, Known
    <2>4. rows["server"][m].mtime <= now
      BY <1>1, <1>4, <2>1, <2>2, <2>3
    <2> QED BY <1>1, <1>2, <2>1, <2>4
  <1>14. ASSUME NEW m \in Key, m \notin raced', st \in {"serving", "receiving"} \/ m \in gimmes,
                st \in Running
         PROVE  rows'["client"][m] = rows["client"][m]
    <2>1. ~(s = "client" /\ m = k)
      BY <1>14 DEF Races, Running
    <2> QED BY <1>1, <1>2, <2>1
  <1>15. RequestCurrent'
    <2>1. ASSUME NEW igot \in request.igots, igot.key \notin raced'
          PROVE  rows'["client"][igot.key].mtime = igot.mtime
      <3>1. st = "serving" /\ igot.key \in Key
        BY DEF SessionInv, SessionShape, NoRequest, TypeOK, Igot
      <3> QED BY <1>5, <1>14, <2>1, <3>1 DEF MtimeParts, RequestCurrent, Running
    <2>2. ASSUME st \in Running, NEW m \in gimmes \ raced' PROVE rows'["client"][m].mtime = 0
      BY <1>1, <1>5, <1>14, <2>2 DEF MtimeParts, RequestCurrent
    <2> QED BY <2>1, <2>2 DEF MtimeParts, RequestCurrent
  <1>16. ServerAhead'
    <2> SUFFICES ASSUME NEW card \in response.cards, card.key \notin raced'
                 PROVE  /\ card.row.mtime <= rows'["server"][card.key].mtime
                        /\ rows'["client"][card.key].mtime <= rows'["server"][card.key].mtime
      BY DEF ServerAhead
    <2>1. card \in Card /\ st \in {"serving", "receiving"}
      BY DEF SessionInv, SessionShape, NoResponse, TypeOK
    <2>2. card.key \in Key /\ card.row.mtime \in Nat
      BY <2>1, RowFacts
    <2>3. rows'["client"][card.key] = rows["client"][card.key]
      BY <1>14, <2>1, <2>2 DEF Running
    <2>4. /\ card.row.mtime <= rows["server"][card.key].mtime
          /\ rows["client"][card.key].mtime <= rows["server"][card.key].mtime
      BY <1>5 DEF MtimeParts, ServerAhead
    <2>5. /\ rows["server"][card.key].mtime \in Nat /\ rows["client"][card.key].mtime \in Nat
          /\ rows'["server"][card.key].mtime \in Nat
      <3>1. rows'["server"][card.key] \in Row BY <1>1, <1>2, <2>2
      <3> QED BY <1>1, <2>2, <3>1, TableFacts, RowFacts
    <2> QED BY <1>13, <2>2, <2>3, <2>4, <2>5
  <1> QED BY <1>3, <1>9, <1>10, <1>11, <1>12, <1>15, <1>16 DEF MtimeParts

(* A row that is known is written over another.                             *)
LEMMA KnownWritten ==
    ASSUME rows \in [Side -> [Key -> Row]], LatestOfOneTime, RowsKnown,
           NEW s \in Side, NEW k \in Key, NEW row \in Row,
           Known(k, [row EXCEPT !.owner = Nobody]),
           rows' = [rows EXCEPT ![s][k] = row], latest' = latest, now' = now
    PROVE  LatestOfOneTime' /\ RowsKnown'
  <1>1. LatestOfOneTime'
    BY DEF LatestOfOneTime
  <1>2. \A t \in Side, m \in Key : rows'[t][m] = IF t = s /\ m = k THEN row ELSE rows[t][m]
    OBVIOUS
  <1>3. RowsKnown'
    <2> SUFFICES ASSUME NEW t \in Side, NEW m \in Key PROVE Known(m, LookupXRow(t, m))'
      BY DEF RowsKnown
    <2>1. Known(m, LookupXRow(t, m))
      BY DEF RowsKnown
    <2>2. LookupXRow(t, m)' = IF t = s /\ m = k THEN [row EXCEPT !.owner = Nobody]
                              ELSE LookupXRow(t, m)
      BY <1>2 DEF LookupXRow
    <2> QED BY <2>1, <2>2 DEF Known
  <1> QED BY <1>1, <1>3

(* The server writes the card that it accepted: it is no older than the row *)
(* it replaces.                                                             *)
LEMMA StoreMtime ==
    ASSUME SessionInv, MtimeParts, conflict = "mtime-wins", NEW d \in deciding, StoreCard(d)
    PROVE  MtimeParts'
  <1> DEFINE k == d.card.key
  <1>1. d.card \in Card /\ d.fresh \in BOOLEAN /\ d.card.row.owner = Nobody
        /\ rows \in [Side -> [Key -> Row]] /\ d.card \in Cards
        /\ "server" \in Side /\ "client" \in Side
    BY RowFacts DEF SessionInv, TypeOK, CardsSound, Cards
  <1>2. PICK row \in Row : /\ rows' = [rows EXCEPT !["server"][k] = row]
                           /\ row.mtime = d.card.row.mtime
                           /\ [row EXCEPT !.owner = Nobody] = d.card.row
    BY <1>1, StoredFacts DEF StoreCard, UpsertXRow
  <1>3. UNCHANGED <<latest, now, raced, gimmes, st, request, response>> /\ deciding' = {}
    BY DEF StoreCard, sessionVars, boundVars, observers
  <1>4. /\ LatestOfOneTime' /\ RowsKnown'
        /\ k \in Key /\ d.card.row \in Row /\ Known(k, d.card.row)
        /\ \A t \in Side, m \in Key :
             rows'[t][m] = IF t = "server" /\ m = k THEN row ELSE rows[t][m]
    <2>1. latest' = latest /\ now' = now
      BY <1>3
    <2>2. k \in Key /\ d.card.row \in Row /\ Known(k, d.card.row)
      BY <1>1, RowFacts DEF MtimeParts, CardsKnown, Cards
    <2>3. Known(k, [row EXCEPT !.owner = Nobody])
      BY <1>2, <2>2
    <2>4. LatestOfOneTime /\ RowsKnown
      BY DEF MtimeParts
    <2> HIDE DEF k
    <2>5. LatestOfOneTime' /\ RowsKnown'
      BY <1>1, <1>2, <2>1, <2>2, <2>3, <2>4, KnownWritten
    <2> QED BY <1>1, <1>2, <2>2, <2>5
  <1>b. \A t \in Side, m \in Key :
          LookupXRow(t, m)' = IF t = "server" /\ m = k THEN d.card.row ELSE LookupXRow(t, m)
    BY <1>2, <1>4 DEF LookupXRow
  <1>5. k \notin raced => rows["server"][k].mtime <= d.card.row.mtime
    BY DEF MtimeParts, DecidedNotNewer, NotNewer
  <1> HIDE DEF k
  <1>6. CardsKnown' /\ DecidedNotNewer'
    BY <1>3 DEF MtimeParts, CardsKnown, DecidedNotNewer, Known
  <1>7. RequestCurrent'
    <2>1. \A m \in Key : rows'["client"][m] = rows["client"][m]
      BY <1>1, <1>4
    <2>2. gimmes \subseteq Key /\ \A igot \in request.igots : igot.key \in Key
      BY DEF SessionInv, TypeOK, Igot
    <2> QED BY <1>3, <2>1, <2>2 DEF MtimeParts, RequestCurrent
  <1>8. ServerAhead'
    <2> SUFFICES ASSUME NEW card \in response.cards, card.key \notin raced
                 PROVE  /\ card.row.mtime <= rows'["server"][card.key].mtime
                        /\ rows'["client"][card.key].mtime <= rows'["server"][card.key].mtime
      BY <1>3 DEF ServerAhead
    <2>1. card.key \in Key /\ card.row \in Row
      BY RowFacts DEF SessionInv, TypeOK
    <2>2. /\ card.row.mtime <= rows["server"][card.key].mtime
          /\ rows["client"][card.key].mtime <= rows["server"][card.key].mtime
      BY DEF MtimeParts, ServerAhead
    <2>3. /\ card.row.mtime \in Nat /\ rows["server"][card.key].mtime \in Nat
          /\ rows["client"][card.key].mtime \in Nat /\ row.mtime \in Nat
      BY <1>1, <2>1, TableFacts, RowFacts
    <2>4. rows'["client"][card.key] = rows["client"][card.key]
      BY <1>1, <1>4, <2>1
    <2>5. rows["server"][card.key].mtime <= rows'["server"][card.key].mtime
          /\ rows'["server"][card.key].mtime \in Nat
      BY <1>1, <1>2, <1>4, <1>5, <2>1, <2>3
    <2> QED BY <2>2, <2>3, <2>4, <2>5
  <1>9. Survives'
    <2> SUFFICES ASSUME NEW m \in Key \ raced
                 PROVE  \E t \in Side : LookupXRow(t, m)' \in latest[m]
      BY <1>3 DEF Survives
    <2>1. PICK t \in Side : LookupXRow(t, m) \in latest[m]
      BY DEF MtimeParts, Survives
    <2>2. CASE ~(t = "server" /\ m = k)
      BY <1>b, <2>1, <2>2
    <2>3. CASE t = "server" /\ m = k
      <3>1. LookupXRow(t, m).mtime <= d.card.row.mtime
        BY <1>1, <1>4, <1>5, <2>3, TableFacts
      <3>2. d.card.row.mtime <= LookupXRow(t, m).mtime
            /\ (d.card.row.mtime = LookupXRow(t, m).mtime => d.card.row \in latest[m])
        BY <1>4, <2>1, <2>3 DEF Known
      <3>3. d.card.row.mtime \in Nat /\ LookupXRow(t, m).mtime \in Nat
        BY <1>1, <1>4, TableFacts, RowFacts
      <3>4. d.card.row \in latest[m]
        BY <3>1, <3>2, <3>3
      <3> QED BY <1>1, <1>b, <2>3, <3>4
    <2> QED BY <2>2, <2>3
  <1> QED BY <1>4, <1>6, <1>7, <1>8, <1>9 DEF MtimeParts

(* The client writes a card without a look at what it has: the server still *)
(* has a row that is no older than the one that is lost.                    *)
LEMMA ApplyMtime ==
    ASSUME SessionInv, MtimeParts, NEW card \in response.cards, handleXRowResponse(card)
    PROVE  MtimeParts'
  <1> DEFINE k == card.key
  <1>1. card \in Card /\ card.row.owner = Nobody /\ card \in Cards
        /\ rows \in [Side -> [Key -> Row]] /\ response \in Responses
        /\ "server" \in Side /\ "client" \in Side
    BY RowFacts DEF SessionInv, TypeOK, CardsSound, Cards, Responses
  <1>2. /\ UNCHANGED <<latest, now, raced, st, request, deciding>>
        /\ st = "receiving" /\ request = NoRequest /\ deciding = {}
        /\ gimmes' = gimmes \ {k}
    BY DEF handleXRowResponse, sessionVars, boundVars, observers, SessionInv, SessionShape,
           GimmesAfter
  <1>3. response'.cards = response.cards \ {card}
    BY <1>1 DEF handleXRowResponse, Responses
  <1>4. k \in Key /\ card.row \in Row /\ [card.row EXCEPT !.owner = Nobody] = card.row
    BY <1>1, RowFacts
  <1>5. LatestOfOneTime' /\ RowsKnown'
        /\ \A m \in Key : /\ rows'["server"][m] = rows["server"][m]
                          /\ LookupXRow("server", m)' = LookupXRow("server", m)
                          /\ m # k => /\ rows'["client"][m] = rows["client"][m]
                                      /\ LookupXRow("client", m)' = LookupXRow("client", m)
        /\ rows'["client"][k] \in {rows["client"][k], card.row}
    <2>1. CASE UNCHANGED rows
      BY <1>2, <2>1 DEF MtimeParts, LatestOfOneTime, RowsKnown, Known, LookupXRow
    <2>2. CASE rows' = [rows EXCEPT !["client"][k] = card.row]
      <3>1. /\ LatestOfOneTime' /\ RowsKnown'
            /\ \A t \in Side, m \in Key :
                rows'[t][m] = IF t = "client" /\ m = k THEN card.row ELSE rows[t][m]
        <4>1. latest' = latest /\ now' = now
          BY <1>2
        <4>2. Known(k, [card.row EXCEPT !.owner = Nobody])
          BY <1>1, <1>4 DEF MtimeParts, CardsKnown, Cards
        <4>3. LatestOfOneTime /\ RowsKnown
          BY DEF MtimeParts
        <4> HIDE DEF k
        <4>4. LatestOfOneTime' /\ RowsKnown'
          BY <1>1, <1>4, <2>2, <4>1, <4>2, <4>3, KnownWritten
        <4> QED BY <1>1, <1>4, <2>2, <4>4
      <3> QED BY <1>1, <1>4, <3>1 DEF LookupXRow
    <2> QED BY <2>1, <2>2 DEF handleXRowResponse, UpsertXRow
  <1> HIDE DEF k
  <1>6. CardsKnown' /\ DecidedNotNewer'
    BY <1>2, <1>3 DEF MtimeParts, CardsKnown, DecidedNotNewer, Known, NoRequest
  <1>7. RequestCurrent'
    <2>1. gimmes \subseteq Key
      BY DEF SessionInv, TypeOK
    <2>2. st \in Running => \A m \in gimmes' \ raced : rows'["client"][m].mtime = 0
      BY <1>2, <1>5, <2>1 DEF MtimeParts, RequestCurrent
    <2> QED BY <1>2, <2>2 DEF RequestCurrent, NoRequest
  <1>8. ServerAhead'
    <2> SUFFICES ASSUME NEW c \in response.cards, c.key \notin raced
                 PROVE  /\ c.row.mtime <= rows'["server"][c.key].mtime
                        /\ rows'["client"][c.key].mtime <= rows'["server"][c.key].mtime
      BY <1>2, <1>3 DEF ServerAhead
    <2>1. c.key \in Key
      BY RowFacts DEF SessionInv, TypeOK
    <2>2. /\ c.row.mtime <= rows["server"][c.key].mtime
          /\ rows["client"][c.key].mtime <= rows["server"][c.key].mtime
      BY DEF MtimeParts, ServerAhead
    <2>3. k \notin raced => card.row.mtime <= rows["server"][k].mtime
      BY DEF MtimeParts, ServerAhead, k
    <2> QED BY <1>5, <2>1, <2>2, <2>3
  <1>9. Survives'
    <2> SUFFICES ASSUME NEW m \in Key \ raced
                 PROVE  \E t \in Side : LookupXRow(t, m)' \in latest[m]
      BY <1>2 DEF Survives
    <2>1. PICK t \in Side : LookupXRow(t, m) \in latest[m]
      BY DEF MtimeParts, Survives
    <2>2. CASE t = "server" \/ m # k
      BY <1>1, <1>5, <2>1, <2>2 DEF Side
    <2>3. CASE t = "client" /\ m = k
      <3>1. rows["client"][m].mtime <= rows["server"][m].mtime
        BY <2>3 DEF MtimeParts, ServerAhead, k
      <3>2. LookupXRow("client", m).mtime <= LookupXRow("server", m).mtime
            /\ LookupXRow("client", m).mtime \in Nat /\ LookupXRow("server", m).mtime \in Nat
        BY <1>1, <3>1, TableFacts, RowFacts
      <3>3. Known(m, LookupXRow("server", m))
        BY <1>1 DEF MtimeParts, RowsKnown
      <3>4. LookupXRow("server", m) \in latest[m]
        BY <2>1, <2>3, <3>2, <3>3 DEF Known
      <3> QED BY <1>1, <1>5, <3>4
    <2> QED BY <2>2, <2>3 DEF Side
  <1> QED BY <1>5, <1>6, <1>7, <1>8, <1>9 DEF MtimeParts

LEMMA InitMtime == Init => MtimeInv
  <1> SUFFICES ASSUME Init PROVE MtimeParts
    BY DEF MtimeInv
  <1>1. rows \in [Side -> [Key -> Row]] /\ "client" \in Side /\ "server" \in Side
    BY InitSession, RowFacts DEF SessionInv, TypeOK
  <1>2. \A s \in Side, k \in Key : rows[s][k].mtime \in Nat /\ rows[s][k].mtime <= now
    <2>1. PICK start \in Starts : rows = start.rows /\ now = start.now
      BY DEF Init
    <2>2. \A s \in Side, k \in Key : rows[s][k].mtime <= now
      BY <2>1, ConstantsAssumption
    <2> QED BY <1>1, <2>2, TableFacts
  <1>3. \A s \in Side, k \in Key : LookupXRow(s, k).mtime = rows[s][k].mtime
    BY <1>1, TableFacts
  <1>4. \A k \in Key : latest[k] = {r \in {LookupXRow(s, k) : s \in Side} :
                                    \A s \in Side : rows[s][k].mtime <= r.mtime}
    BY DEF Init
  <1>5. \A k \in Key : \E s \in Side : LookupXRow(s, k) \in latest[k]
    <2> SUFFICES ASSUME NEW k \in Key PROVE \E s \in Side : LookupXRow(s, k) \in latest[k]
      OBVIOUS
    <2>1. CASE rows["client"][k].mtime <= rows["server"][k].mtime
      BY <1>1, <1>2, <1>3, <1>4, <2>1 DEF Side
    <2>2. CASE rows["server"][k].mtime <= rows["client"][k].mtime
      BY <1>1, <1>2, <1>3, <1>4, <2>2 DEF Side
    <2> QED BY <1>1, <1>2, <2>1, <2>2
  <1>6. \A k \in Key : \A l \in latest[k] :
          /\ \E s \in Side : l = LookupXRow(s, k) /\ l.mtime = rows[s][k].mtime
          /\ \A s \in Side : rows[s][k].mtime <= l.mtime
    BY <1>3, <1>4
  <1>7. LatestOfOneTime
    <2>1. \A k \in Key : latest[k] # {}
      BY <1>5
    <2>2. ASSUME NEW k \in Key, NEW l \in latest[k], NEW m \in latest[k]
          PROVE  l.mtime = m.mtime /\ l.mtime <= now
      BY <1>2, <1>6
    <2> QED BY <2>1, <2>2 DEF LatestOfOneTime
  <1>8. RowsKnown
    <2> SUFFICES ASSUME NEW s \in Side, NEW k \in Key, NEW l \in latest[k]
                 PROVE  /\ LookupXRow(s, k).mtime <= l.mtime
                        /\ LookupXRow(s, k).mtime = l.mtime => LookupXRow(s, k) \in latest[k]
      BY DEF RowsKnown, Known
    <2> QED BY <1>3, <1>4, <1>6
  <1>9. CardsKnown /\ DecidedNotNewer /\ RequestCurrent /\ ServerAhead
    BY DEF Init, CardsKnown, DecidedNotNewer, RequestCurrent, ServerAhead, NoRequest, NoResponse,
           Running
  <1>10. Survives
    BY <1>5 DEF Survives
  <1> QED BY <1>7, <1>8, <1>9, <1>10 DEF MtimeParts

LEMMA NextMtime ==
    ASSUME SessionInv, SessionInv', MtimeInv, [Next]_vars
    PROVE  MtimeInv'
  <1> USE DEF sessionVars, boundVars, observers
  <1>0. conflict' = conflict
    BY DEF Next, Step, vars, StartWith, BuildRequest, handleSchemaCard, handlePragmaXTableHash,
           handleXIGot, handleXGimme, DecideCard, StoreCard, Respond, handleXSchemaCard,
           handleXIGotResponse, handleXGimmeResponse, handleXRowResponse, EndRound, Interrupt,
           Write, Delete, Edit, PeerCard
  <1> SUFFICES ASSUME conflict = "mtime-wins" PROVE MtimeParts'
    BY <1>0 DEF MtimeInv
  <1>a. MtimeParts
    BY DEF MtimeInv
  <1>b. /\ rows \in [Side -> [Key -> Row]] /\ "client" \in Side /\ "server" \in Side
        /\ request \in Requests /\ response \in Responses /\ gimmes \subseteq Key
    BY RowFacts DEF SessionInv, TypeOK, Requests, Responses
  <1>c. request.gimmes \subseteq gimmes
        /\ (st \in Running => \A k \in gimmes \ raced : rows["client"][k].mtime = 0)
    BY <1>a DEF MtimeParts, RequestCurrent
  <1>1. ASSUME NEW m \in Modes, StartWith(m) PROVE MtimeParts'
    <2>1. /\ UNCHANGED <<rows, latest, raced, now>> /\ Cards' = {} /\ deciding' = {}
          /\ response'.cards = {} /\ request'.igots = {} /\ request'.gimmes = {}
          /\ gimmes' = {}
      BY <1>1 DEF StartWith, Cards, NoRequest, NoResponse
    <2> QED BY <1>a, <2>1, QuietMtime
  <1>2. CASE BuildRequest
    <2>1. /\ UNCHANGED <<rows, latest, raced, now, gimmes, deciding, response>>
          /\ st = "ready" /\ st \in Running
      BY <1>2 DEF BuildRequest, Running
    <2>2. CASE "client" \in registered
      <3> DEFINE cs == {CardOf("client", k) : k \in toSend \cap Has("client")}
      <3>1. request' = [schema |-> TRUE, hash |-> {CatalogHash("client")},
                        igots |-> Igots("client"), gimmes |-> gimmes, cards |-> cs]
        BY <1>2, <2>2 DEF BuildRequest
      <3>2. \A card \in cs : \E k \in Key : card = CardOf("client", k)
        BY DEF Has
      <3> HIDE DEF cs
      <3>3. \A card \in Cards' : card \in Cards \/ \E s \in Side, k \in Key : card = CardOf(s, k)
        BY <1>b, <2>1, <3>1, <3>2 DEF Cards
      <3>4. \A igot \in request'.igots : igot.mtime = rows["client"][igot.key].mtime
        BY <1>b, <3>1, IgotFacts
      <3>5. request'.gimmes \subseteq gimmes'
        BY <2>1, <3>1
      <3> QED BY <1>a, <1>c, <2>1, <3>3, <3>4, <3>5, QuietMtime
    <2>3. CASE "client" \notin registered
      <3>1. request' = request
        BY <1>2, <2>3 DEF BuildRequest
      <3>2. Cards' = Cards
        BY <2>1, <3>1 DEF Cards
      <3> QED BY <1>a, <1>c, <2>1, <3>1, <3>2, QuietMtime
    <2> QED BY <2>2, <2>3
  <1>3. CASE handleSchemaCard \/ handlePragmaXTableHash
    <2>1. /\ UNCHANGED <<rows, latest, raced, now, gimmes, deciding, st>>
          /\ request'.igots = request.igots /\ request'.gimmes = request.gimmes
          /\ request'.cards = request.cards /\ response'.cards = response.cards
      BY <1>b, <1>3 DEF handleSchemaCard, handlePragmaXTableHash, Requests, Responses
    <2>2. Cards' = Cards
      BY <2>1 DEF Cards
    <2> QED BY <1>a, <1>c, <2>1, <2>2, QuietMtime
  <1>4. ASSUME NEW igot \in request.igots, handleXIGot(igot) PROVE MtimeParts'
    <2>1. /\ UNCHANGED <<rows, latest, raced, now, gimmes, deciding, st>>
          /\ request' = [request EXCEPT !.igots = @ \ {igot}]
          /\ response' \in {response, Answer(igot)}
      BY <1>4 DEF handleXIGot
    <2>2. igot \in Igot /\ igot.key \in Key
      BY <1>b DEF Requests, Igot
    <2>3. /\ request'.igots \subseteq request.igots /\ request'.gimmes = request.gimmes
          /\ request'.cards = request.cards
      BY <1>b, <2>1 DEF Requests
    <2>4. \A card \in response'.cards : \/ card \in response.cards
                                        \/ /\ card = CardOf("server", igot.key)
                                           /\ rows["server"][igot.key].mtime > igot.mtime
      <3>1. TypeOK BY DEF SessionInv
      <3> QED BY <2>1, <2>2, <3>1, AnswerFacts
    <2>5. igot.key \notin raced => rows["client"][igot.key].mtime = igot.mtime
      BY <1>a DEF MtimeParts, RequestCurrent
    <2>6. \A card \in response'.cards :
            \/ card \in response.cards
            \/ /\ card.key \in Key /\ card = CardOf("server", card.key)
               /\ card.key \notin raced =>
                    rows["client"][card.key].mtime <= rows["server"][card.key].mtime
      <3> SUFFICES ASSUME NEW card \in response'.cards, card \notin response.cards
                   PROVE  /\ card.key \in Key /\ card = CardOf("server", card.key)
                          /\ card.key \notin raced =>
                               rows["client"][card.key].mtime <= rows["server"][card.key].mtime
        OBVIOUS
      <3>1. card = CardOf("server", igot.key) /\ rows["server"][igot.key].mtime > igot.mtime
        BY <2>4
      <3>2. card.key = igot.key /\ rows["server"][igot.key].mtime \in Nat
        BY <1>b, <2>2, <3>1, TableFacts
      <3>3. rows["client"][igot.key].mtime \in Nat
        BY <1>b, <2>2, TableFacts
      <3> QED BY <2>2, <2>5, <3>1, <3>2, <3>3
    <2>7. \A card \in Cards' : card \in Cards \/ \E s \in Side, k \in Key : card = CardOf(s, k)
      BY <1>b, <2>1, <2>2, <2>3, <2>4 DEF Cards
    <2> QED BY <1>a, <1>c, <2>1, <2>3, <2>6, <2>7, QuietMtime
  <1>5. ASSUME NEW k \in request.gimmes, handleXGimme(k) PROVE MtimeParts'
    <2>1. /\ UNCHANGED <<rows, latest, raced, now, gimmes, deciding, st>> /\ st \in Running
          /\ request' = [request EXCEPT !.gimmes = @ \ {k}]
          /\ response' \in {response, [response EXCEPT !.cards = @ \cup {CardOf("server", k)}]}
      BY <1>5 DEF handleXGimme, Serving, Running
    <2>2. /\ request'.igots = request.igots /\ request'.gimmes \subseteq request.gimmes
          /\ request'.cards = request.cards
          /\ response'.cards \subseteq response.cards \cup {CardOf("server", k)}
      BY <1>b, <2>1 DEF Requests, Responses
    <2>3. k \in Key /\ k \in gimmes
      BY <1>b, <1>c
    <2>4. /\ CardOf("server", k).key = k
          /\ rows["server"][k].mtime \in Nat
          /\ k \notin raced => rows["client"][k].mtime = 0
      BY <1>b, <1>c, <2>1, <2>3, TableFacts
    <2>5. \A card \in response'.cards :
            \/ card \in response.cards
            \/ /\ card.key \in Key /\ card = CardOf("server", card.key)
               /\ card.key \notin raced =>
                    rows["client"][card.key].mtime <= rows["server"][card.key].mtime
      BY <2>2, <2>3, <2>4
    <2>6. \A card \in Cards' : card \in Cards \/ \E s \in Side, m \in Key : card = CardOf(s, m)
      BY <1>b, <2>1, <2>2, <2>3 DEF Cards
    <2> QED BY <1>a, <1>c, <2>1, <2>2, <2>5, <2>6, QuietMtime
  <1>6. ASSUME NEW card \in request.cards, DecideCard(card) PROVE MtimeParts'
    <2>1. /\ UNCHANGED <<rows, latest, raced, now, gimmes, response, st>>
          /\ request' = [request EXCEPT !.cards = @ \ {card}]
          /\ \/ deciding' = {}
             \/ deciding' = {[card |-> card, fresh |-> Fresh(card)]} /\ Accepts(card, User)
      BY <1>6 DEF DecideCard
    <2>2. /\ request'.igots = request.igots /\ request'.gimmes = request.gimmes
          /\ request'.cards \subseteq request.cards
      BY <1>b, <2>1 DEF Requests
    <2>3. card.key \in Key /\ card.row.mtime \in Nat
      BY <1>b, RowFacts DEF Requests
    <2>4. Accepts(card, User) => NotNewer("server", card)
      <3>1. LookupXRow("server", card.key).mtime = rows["server"][card.key].mtime
        BY <1>b, <2>3, TableFacts
      <3> QED BY <2>3, <3>1 DEF Accepts, acceptXDelete, resolveXRowConflict, NotNewer
    <2>5. \A d \in deciding' : d.card = card /\ NotNewer("server", d.card)
      BY <2>1, <2>4
    <2>6. \A c \in Cards' : c \in Cards
      BY <2>1, <2>2, <2>5 DEF Cards
    <2> QED BY <1>a, <1>c, <2>1, <2>2, <2>5, <2>6, QuietMtime
  <1>7. ASSUME NEW d \in deciding, StoreCard(d) PROVE MtimeParts'
    BY <1>a, <1>7, StoreMtime
  <1>8. CASE Respond \/ handleXSchemaCard
    <2>1. /\ UNCHANGED <<rows, latest, raced, now, gimmes, deciding, request>>
          /\ st \in Running /\ response'.cards = response.cards
      BY <1>b, <1>8 DEF Respond, Serving, handleXSchemaCard, Responses, Running
    <2>2. Cards' = Cards
      BY <2>1 DEF Cards
    <2> QED BY <1>a, <1>c, <2>1, <2>2, QuietMtime
  <1>9. ASSUME NEW igot \in response.igots \cup response.late, handleXIGotResponse(igot)
        PROVE  MtimeParts'
    <2>1. /\ UNCHANGED <<rows, latest, raced, now, deciding, request, st>> /\ st \in Running
          /\ gimmes \subseteq gimmes' /\ response'.cards = response.cards
          /\ \A k \in gimmes' : k \in gimmes \/ rows["client"][k].mtime = 0
      BY <1>b, <1>9 DEF handleXIGotResponse, Responses, Running
    <2>2. Cards' = Cards
      BY <2>1 DEF Cards
    <2> QED BY <1>a, <1>c, <2>1, <2>2, QuietMtime
  <1>10. CASE (\E k \in response.gimmes : handleXGimmeResponse(k)) \/ EndRound
    <2>1. /\ UNCHANGED <<rows, latest, raced, now, gimmes, deciding, request>>
          /\ st \in Running /\ response'.cards = response.cards
      BY <1>b, <1>10 DEF handleXGimmeResponse, EndRound, Responses, Running
    <2>2. Cards' = Cards
      BY <2>1 DEF Cards
    <2> QED BY <1>a, <1>c, <2>1, <2>2, QuietMtime
  <1>11. ASSUME NEW card \in response.cards, handleXRowResponse(card) PROVE MtimeParts'
    BY <1>a, <1>11, ApplyMtime
  <1>12. CASE Interrupt
    <2>1. /\ UNCHANGED <<rows, latest, raced, now, gimmes>> /\ Cards' = {} /\ deciding' = {}
          /\ response'.cards = {} /\ request'.igots = {} /\ request'.gimmes = {}
          /\ st' \notin Running
      BY <1>12 DEF Interrupt, Cards, NoRequest, NoResponse, Running
    <2> QED BY <1>a, <2>1, QuietMtime
  <1>13. ASSUME NEW s \in Side, NEW k \in Key, NEW row \in Row,
                Write(s, k, row) \/ Delete(s, k, row)
         PROVE  MtimeParts'
    <2>1. Edit(s, k, row)
      BY <1>13 DEF Write, Delete
    <2>2. [row EXCEPT !.owner = Nobody] \in Row /\ [row EXCEPT !.owner = Nobody].mtime = row.mtime
      BY DEF Row
    <2>3. rows' = [rows EXCEPT ![s][k] = row]
      BY <2>1 DEF Edit, UpsertXRow
    <2>4. LookupXRow(s, k)' = [row EXCEPT !.owner = Nobody]
      BY <1>b, <2>3 DEF LookupXRow
    <2>5. PICK new \in Row : new = [row EXCEPT !.owner = Nobody]
      BY <2>2
    <2>6. new.mtime = row.mtime /\ LookupXRow(s, k)' = new
      BY <2>2, <2>4, <2>5
    <2>7. /\ new.mtime >= now /\ now' = new.mtime
          /\ latest' = [latest EXCEPT ![k] = {new} \cup {r \in @ : r.mtime = new.mtime}]
          /\ raced' = (IF Races(s, k) THEN raced \cup {k} ELSE raced)
          /\ UNCHANGED <<st, gimmes, request, deciding, response>>
      BY <2>1, <2>5, <2>6 DEF Edit
    <2> QED BY <1>a, <2>3, <2>6, <2>7, OthersMtime
  <1>14. ASSUME NEW card \in Card, card.row.owner = Nobody, PeerCard(card) PROVE MtimeParts'
    <2>1. card.key \in Key /\ card.row \in Row /\ Fresh(card) \in BOOLEAN
      BY RowFacts DEF Fresh
    <2>2. PICK row \in Row : /\ row = StoredRow(card, Fresh(card), Peer)
                             /\ row.mtime = card.row.mtime
                             /\ [row EXCEPT !.owner = Nobody] = card.row
      BY <1>b, <1>14, <2>1, StoredFacts
    <2>3. rows' = [rows EXCEPT !["server"][card.key] = row]
      BY <1>14, <2>2 DEF PeerCard, UpsertXRow
    <2>4. LookupXRow("server", card.key)' = card.row
      BY <1>b, <2>1, <2>2, <2>3 DEF LookupXRow
    <2>5. /\ card.row.mtime >= now /\ now' = card.row.mtime
          /\ latest' = [latest EXCEPT ![card.key] =
                          {card.row} \cup {r \in @ : r.mtime = card.row.mtime}]
          /\ raced' = (IF Races("server", card.key) THEN raced \cup {card.key} ELSE raced)
          /\ UNCHANGED <<st, gimmes, request, deciding, response>>
      BY <1>14 DEF PeerCard
    <2> QED BY <1>a, <1>b, <2>1, <2>2, <2>3, <2>4, <2>5, OthersMtime
  <1>15. CASE UNCHANGED vars
    <2>1. UNCHANGED <<rows, latest, raced, now, gimmes, deciding, request, response, st>>
      BY <1>15 DEF vars
    <2>2. Cards' = Cards
      BY <2>1 DEF Cards
    <2> QED BY <1>a, <1>c, <2>1, <2>2, QuietMtime
  <1> QED BY <1>1, <1>2, <1>3, <1>4, <1>5, <1>6, <1>7, <1>8, <1>9, <1>10, <1>11, <1>12, <1>13,
             <1>14, <1>15 DEF Next, Step

(* The last write or deletion of a key of a mtime-wins table is at one of   *)
(* the sides, unless the key was written between a look at it and the write *)
(* after it (resolveXRowConflict, DeleteXRowByPKHash, handleXRowResponse).  *)
THEOREM TableNewestSurvives == Spec => []NewestSurvives
  <1>1. Init => SessionInv /\ MtimeInv
    BY InitSession, InitMtime
  <1>2. SessionInv /\ MtimeInv /\ [Next]_vars => (SessionInv /\ MtimeInv)'
    BY NextSession, NextMtime
  <1>3. SessionInv /\ MtimeInv => NewestSurvives
    BY DEF SessionInv, MtimeInv, MtimeParts, Survives, NewestSurvives
  <1> QED BY <1>1, <1>2, <1>3, PTL DEF Spec

-----------------------------------------------------------------------------
(***************************************************************************)
(* What both sides of a mtime-wins table hold when a session is done, and   *)
(* that it is done in its third round at the latest.                        *)
(***************************************************************************)
T(s, k) == rows[s][k].mtime
HasCard(cards, k) == \E card \in cards : card.key = k
HasIgot(igots, k) == \E igot \in igots : igot.key = k
Even == \A k \in Key : T("client", k) = T("server", k)

(* In an undisturbed session what is under way speaks of the rows as they   *)
(* are, and the server sends and the client asks for nothing in vain.       *)
WireCurrent ==
    /\ \A card \in request.cards : card.row.mtime = T("client", card.key)
    /\ \A d \in deciding : /\ d.card.row.mtime = T("client", d.card.key)
                           /\ T("server", d.card.key) <= T("client", d.card.key)
    /\ \A card \in response.cards : /\ card = CardOf("server", card.key)
                                    /\ T("client", card.key) < T("server", card.key)
    /\ \A igot \in request.igots : igot.mtime = T("client", igot.key) /\ igot.mtime # 0
    /\ \A igot \in response.igots : T("server", igot.key) # 0
    /\ \A igot \in response.late : igot.mtime = T("server", igot.key) /\ igot.mtime # 0
    /\ \A k \in gimmes : T("client", k) = 0 /\ T("server", k) # 0
    /\ st # "receiving" => response.late = {}
    /\ \A d, e \in deciding : d = e

(* In every round each key of which the times differ is announced, asked    *)
(* for, sent, or queued for the next round.                                 *)
EveryRound ==
    /\ st = "serving" => \A k \in Key :
        /\ T("server", k) < T("client", k) =>
              HasIgot(request.igots, k) \/ T("server", k) # 0 \/ k \in response.gimmes
        /\ T("client", k) < T("server", k) =>
              HasIgot(request.igots, k) \/ T("client", k) = 0 \/ HasCard(response.cards, k)
    /\ st = "receiving" =>
        /\ "client" \in registered \/ response.schema
        /\ \A k \in Key :
            /\ T("server", k) < T("client", k) =>
                  \/ k \in response.gimmes \cup toSend
                  \/ T("server", k) # 0 /\ HasIgot(response.late, k)
            /\ T("client", k) < T("server", k) =>
                  \/ k \in gimmes \/ HasCard(response.cards, k)
                  \/ T("client", k) = 0 /\ HasIgot(response.late, k)

(* From the second round on it is sent in this round, one way or the other. *)
SecondRound ==
    /\ "client" \in registered
    /\ st = "ready" => \A k \in Key :
        /\ T("server", k) < T("client", k) => k \in toSend
        /\ T("client", k) < T("server", k) => k \in gimmes
    /\ st = "serving" => \A k \in Key :
        /\ T("server", k) < T("client", k) =>
              HasCard(request.cards \cup {d.card : d \in deciding}, k)
        /\ T("client", k) < T("server", k) => k \in request.gimmes \/ HasCard(response.cards, k)
    /\ st = "receiving" => \A k \in Key :
        T("client", k) # T("server", k) => HasCard(response.cards, k)

(* From the third round on the times are the same, and what the client has  *)
(* queued in vain, on announcements that its own cards had overtaken, is    *)
(* sent once more and not queued again.                                     *)
ThirdRound ==
    /\ Even /\ gimmes = {} /\ response.gimmes = {}
    /\ \A igot \in response.igots : igot.mtime = T("server", igot.key)
    /\ st # "ready" => toSend = {}

Undisturbed == BothWays /\ calm /\ conflict = "mtime-wins"

RoundInv == /\ WireCurrent /\ EveryRound
            /\ cycle > 0 => SecondRound
            /\ cycle > 1 => ThirdRound

AgreeInv ==
    /\ registered # {}
    /\ \A k \in Key : IsFiniteSet(latest[k])
    /\ Undisturbed => /\ st = "done" => Even
                      /\ st # "exceeded"
                      /\ st \in Running => RoundInv


LEMMA Times ==
    ASSUME SessionInv
    PROVE  /\ \A s \in Side, k \in Key : T(s, k) \in Nat
           /\ \A s \in Side, k \in Key : CardOf(s, k).key = k /\ CardOf(s, k).row.mtime = T(s, k)
           /\ \A k \in Key : "client" \notin registered => T("client", k) = 0
           /\ \A k \in Key : "server" \notin registered => T("server", k) = 0
           /\ "client" \in Side /\ "server" \in Side /\ cycle \in Nat
  <1>1. rows \in [Side -> [Key -> Row]] /\ cycle \in Nat
    BY ConstantsAssumption DEF SessionInv, TypeOK
  <1>2. \A s \in Side \ registered, k \in Key : T(s, k) = 0
    BY RowFacts DEF SessionInv, TypeOK, T
  <1> QED BY <1>1, <1>2, TableFacts, RowFacts DEF T

LEMMA MessageTypes ==
    ASSUME SessionInv
    PROVE  /\ request \in Requests /\ response \in Responses
           /\ request.igots \subseteq Igot /\ response.igots \subseteq Igot
           /\ response.late \subseteq Igot /\ request.cards \subseteq Card
           /\ response.cards \subseteq Card /\ request.gimmes \subseteq Key
           /\ response.gimmes \subseteq Key /\ gimmes \subseteq Key /\ toSend \subseteq Key
           /\ \A igot \in Igot : igot.key \in Key /\ igot.mtime \in Nat
           /\ \A card \in Card : card.key \in Key /\ card.row \in Row /\ card.row.mtime \in Nat
           /\ \A d \in deciding : d.card \in Card /\ d.fresh \in BOOLEAN
  <1>1. request \in Requests /\ response \in Responses
    BY DEF SessionInv, TypeOK, Requests, Responses
  <1>2. \A igot \in Igot : igot.key \in Key /\ igot.mtime \in Nat
    BY RowFacts DEF Igot
  <1>3. gimmes \subseteq Key /\ toSend \subseteq Key
        /\ \A d \in deciding : d.card \in Card /\ d.fresh \in BOOLEAN
    BY DEF SessionInv, TypeOK
  <1> QED BY <1>1, <1>2, <1>3, RowFacts DEF Requests, Responses

LEMMA IgotsOf ==
    ASSUME SessionInv, NEW s \in Side
    PROVE  /\ \A igot \in Igots(s) : /\ igot.key \in Key /\ igot.mtime = T(s, igot.key)
                                     /\ igot.mtime # 0
           /\ \A k \in Key : T(s, k) # 0 => HasIgot(Igots(s), k)
  <1>1. \A igot \in Igots(s) : /\ igot.key \in Key /\ igot.mtime = T(s, igot.key)
                               /\ igot.mtime # 0
    BY DEF Igots, Has, T
  <1>2. ASSUME NEW k \in Key, T(s, k) # 0 PROVE HasIgot(Igots(s), k)
    <2>1. [key |-> k, mtime |-> rows[s][k].mtime] \in Igots(s)
      BY <1>2 DEF Igots, Has, T
    <2> QED BY <2>1 DEF HasIgot
  <1> QED BY <1>1, <1>2

(* A round begins.                                                          *)
LEMMA BuildRounds ==
    ASSUME SessionInv, RoundInv, BuildRequest
    PROVE  RoundInv'
  <1>1. /\ st = "ready" /\ st' = "serving"
        /\ UNCHANGED <<rows, registered, cycle, gimmes, deciding, response>>
    BY DEF BuildRequest
  <1>2. request = NoRequest /\ response = NoResponse /\ deciding = {}
    BY <1>1 DEF SessionInv, SessionShape
  <1>3. /\ response.igots = {} /\ response.late = {} /\ response.cards = {}
        /\ response.gimmes = {}
    BY <1>2 DEF NoResponse
  <1>4. WireCurrent /\ EveryRound /\ (cycle > 0 => SecondRound) /\ (cycle > 1 => ThirdRound)
    BY DEF RoundInv
  <1>5. \A s, k : T(s, k)' = T(s, k)
    BY <1>1 DEF T
  <1>6. CASE "client" \in registered
    <2> DEFINE cs == {CardOf("client", k) : k \in toSend \cap Has("client")}
    <2>1. /\ request'.igots = Igots("client") /\ request'.gimmes = gimmes /\ request'.cards = cs
          /\ toSend' = {}
      BY <1>6 DEF BuildRequest
    <2>2. \A card \in cs : card.row.mtime = T("client", card.key)
      <3> SUFFICES ASSUME NEW k \in toSend \cap Has("client")
                   PROVE  CardOf("client", k).row.mtime = T("client", CardOf("client", k).key)
        OBVIOUS
      <3> QED BY Times DEF Has
    <2>3. \A k \in Key : k \in toSend /\ T("client", k) # 0 => HasCard(cs, k)
      <3> SUFFICES ASSUME NEW k \in Key, k \in toSend, T("client", k) # 0
                   PROVE  HasCard(cs, k)
        OBVIOUS
      <3>1. CardOf("client", k) \in cs
        BY DEF Has, T
      <3> QED BY <3>1, Times DEF HasCard
    <2> HIDE DEF cs
    <2>4. WireCurrent'
      BY <1>1, <1>2, <1>3, <1>4, <1>5, <2>1, <2>2, IgotsOf, Times DEF WireCurrent
    <2>5. EveryRound'
      <3> SUFFICES ASSUME NEW k \in Key
                   PROVE  \/ HasIgot(request'.igots, k)
                          \/ T("client", k) = 0 /\ ~(T("server", k) < T("client", k))
        BY <1>1, <1>5 DEF EveryRound
      <3>1. T("client", k) \in Nat /\ T("server", k) \in Nat /\ "client" \in Side
        BY Times
      <3>2. T("client", k) # 0 => HasIgot(Igots("client"), k)
        BY <3>1, IgotsOf
      <3> QED BY <2>1, <3>1, <3>2
    <2>6. cycle > 0 => SecondRound'
      <3> SUFFICES ASSUME SecondRound, NEW k \in Key
                   PROVE  /\ T("server", k) < T("client", k) => HasCard(request'.cards, k)
                          /\ T("client", k) < T("server", k) => k \in request'.gimmes
        BY <1>1, <1>2, <1>4, <1>5, <1>6 DEF SecondRound, HasCard
      <3>1. T("server", k) < T("client", k) => T("client", k) # 0
        BY Times
      <3> QED BY <1>1, <2>1, <2>3, <3>1 DEF SecondRound
    <2>7. cycle > 1 => ThirdRound'
      BY <1>1, <1>3, <1>4, <1>5, <2>1 DEF ThirdRound, Even
    <2> QED BY <1>1, <2>4, <2>5, <2>6, <2>7 DEF RoundInv
  <1>7. CASE "client" \notin registered
    <2>1. request' = NoRequest /\ cycle = 0
      BY <1>2, <1>4, <1>7, Times DEF BuildRequest, SecondRound
    <2>2. request'.igots = {} /\ request'.cards = {}
      BY <2>1 DEF NoRequest
    <2>3. WireCurrent'
      BY <1>1, <1>2, <1>3, <1>4, <1>5, <2>2 DEF WireCurrent
    <2>4. EveryRound'
      <3>1. \A k \in Key : T("client", k) = 0 /\ T("server", k) \in Nat
        BY <1>7, Times
      <3> QED BY <1>1, <1>5, <3>1 DEF EveryRound
    <2> QED BY <1>1, <2>1, <2>3, <2>4 DEF RoundInv
  <1> QED BY <1>6, <1>7

(* The schema and the hash of the catalog.                                  *)
LEMMA HashRounds ==
    ASSUME SessionInv, RoundInv, handleSchemaCard \/ handlePragmaXTableHash
    PROVE  RoundInv'
  <1>1. /\ st = "serving" /\ st' = st /\ registered \subseteq registered'
        /\ UNCHANGED <<rows, cycle, gimmes, toSend, deciding>>
    BY DEF handleSchemaCard, handlePragmaXTableHash, sessionVars
  <1>2. /\ request'.igots = request.igots /\ request'.gimmes = request.gimmes
        /\ request'.cards = request.cards
        /\ response'.late = response.late /\ response'.cards = response.cards
        /\ response'.gimmes = response.gimmes
        /\ response'.igots \in {response.igots, Igots("server")}
    BY MessageTypes DEF handleSchemaCard, handlePragmaXTableHash, Requests, Responses
  <1>3. \A s, k : T(s, k)' = T(s, k)
    BY <1>1 DEF T
  <1>4. \A k : CardOf("server", k)' = CardOf("server", k)
    BY <1>1 DEF CardOf, LookupXRow
  <1>5. WireCurrent /\ EveryRound /\ (cycle > 0 => SecondRound) /\ (cycle > 1 => ThirdRound)
    BY DEF RoundInv
  <1>6. \A igot \in Igots("server") : igot.mtime = T("server", igot.key) /\ igot.mtime # 0
    BY IgotsOf, RowFacts
  <1>7. WireCurrent'
    BY <1>1, <1>2, <1>3, <1>4, <1>5, <1>6 DEF WireCurrent
  <1>8. EveryRound'
    BY <1>1, <1>2, <1>3, <1>5 DEF EveryRound
  <1>9. cycle > 0 => SecondRound'
    BY <1>1, <1>2, <1>3, <1>5 DEF SecondRound
  <1>10. cycle > 1 => ThirdRound'
    BY <1>1, <1>2, <1>3, <1>5, <1>6 DEF ThirdRound, Even
  <1> QED BY <1>1, <1>7, <1>8, <1>9, <1>10 DEF RoundInv

(* The server answers an xigot: it lacks the row, or has a newer one, or    *)
(* will announce its own at the end.                                        *)
LEMMA IGotRounds ==
    ASSUME SessionInv, RoundInv, BothWays, NEW igot \in request.igots, handleXIGot(igot)
    PROVE  RoundInv'
  <1> DEFINE k0 == igot.key
  <1>1. /\ st = "serving" /\ st' = st
        /\ UNCHANGED <<rows, registered, cycle, gimmes, toSend, deciding>>
        /\ response' = Answer(igot)
        /\ request' = [request EXCEPT !.igots = @ \ {igot}]
    BY DEF handleXIGot, Serving, sessionVars, BothWays
  <1>2. WireCurrent /\ EveryRound /\ (cycle > 0 => SecondRound) /\ (cycle > 1 => ThirdRound)
    BY DEF RoundInv
  <1>3. /\ request'.igots = request.igots \ {igot} /\ request'.gimmes = request.gimmes
        /\ request'.cards = request.cards
    BY <1>1, MessageTypes DEF Requests
  <1>4. /\ k0 \in Key /\ igot.mtime = T("client", k0) /\ igot.mtime # 0
        /\ T("client", k0) \in Nat /\ T("server", k0) \in Nat
        /\ CardOf("server", k0).key = k0
    BY <1>2, MessageTypes, Times DEF WireCurrent
  <1>5. /\ response'.igots = response.igots /\ response'.late = response.late
        /\ response'.gimmes = IF T("server", k0) = 0 THEN response.gimmes \cup {k0}
                              ELSE response.gimmes
        /\ response'.cards = IF T("server", k0) > T("client", k0)
                             THEN response.cards \cup {CardOf("server", k0)} ELSE response.cards
    BY <1>1, <1>4, MessageTypes DEF Answer, Responses, T
  <1>6. \A s, k : T(s, k)' = T(s, k) /\ CardOf(s, k)' = CardOf(s, k)
    BY <1>1 DEF T, CardOf, LookupXRow
  <1>7. WireCurrent'
    <2>1. \A card \in response'.cards : /\ card = CardOf("server", card.key)
                                        /\ T("client", card.key) < T("server", card.key)
      BY <1>2, <1>4, <1>5 DEF WireCurrent
    <2> QED BY <1>1, <1>2, <1>3, <1>5, <1>6, <2>1 DEF WireCurrent
  <1>8. \A k \in Key : k # k0 /\ HasIgot(request.igots, k) => HasIgot(request'.igots, k)
    BY <1>3 DEF HasIgot
  <1>9. \A k \in Key : HasCard(response.cards, k) => HasCard(response'.cards, k)
    BY <1>5 DEF HasCard
  <1>10. EveryRound'
    <2> SUFFICES ASSUME NEW k \in Key
                 PROVE  /\ T("server", k) < T("client", k) =>
                             HasIgot(request'.igots, k) \/ T("server", k) # 0 \/ k \in response'.gimmes
                        /\ T("client", k) < T("server", k) =>
                             HasIgot(request'.igots, k) \/ T("client", k) = 0 \/ HasCard(response'.cards, k)
      BY <1>1, <1>6 DEF EveryRound
    <2>1. CASE k # k0
      BY <1>1, <1>2, <1>5, <1>8, <1>9, <2>1 DEF EveryRound
    <2>2. CASE k = k0
      <3>1. T("client", k0) < T("server", k0) => CardOf("server", k0) \in response'.cards
        BY <1>4, <1>5
      <3> QED BY <1>4, <1>5, <2>2, <3>1 DEF HasCard
    <2> QED BY <2>1, <2>2
  <1>11. cycle > 0 => SecondRound'
    BY <1>1, <1>2, <1>3, <1>6, <1>9 DEF SecondRound
  <1>12. cycle > 1 => ThirdRound'
    <2> SUFFICES ASSUME ThirdRound PROVE ThirdRound'
      BY <1>2
    <2>1. T("server", k0) # 0
      BY <1>4 DEF ThirdRound, Even
    <2> QED BY <1>1, <1>5, <1>6, <2>1 DEF ThirdRound, Even
  <1> QED BY <1>1, <1>7, <1>10, <1>11, <1>12 DEF RoundInv

(* The server answers an xgimme with the row, which it still has.           *)
LEMMA GimmeRounds ==
    ASSUME SessionInv, MtimeParts, RoundInv, NEW k0 \in request.gimmes, handleXGimme(k0)
    PROVE  RoundInv'
  <1>1. /\ st = "serving" /\ st' = st
        /\ UNCHANGED <<rows, registered, cycle, gimmes, toSend, deciding>>
        /\ request' = [request EXCEPT !.gimmes = @ \ {k0}]
        /\ response' = IF k0 \in Has("server")
                       THEN [response EXCEPT !.cards = @ \cup {CardOf("server", k0)}] ELSE response
    BY DEF handleXGimme, Serving, sessionVars
  <1>2. WireCurrent /\ EveryRound /\ (cycle > 0 => SecondRound) /\ (cycle > 1 => ThirdRound)
    BY DEF RoundInv
  <1>3. k0 \in Key /\ k0 \in gimmes /\ T("client", k0) = 0 /\ T("server", k0) # 0
    BY <1>2, MessageTypes DEF MtimeParts, RequestCurrent, WireCurrent
  <1>4. /\ T("client", k0) < T("server", k0) /\ CardOf("server", k0).key = k0
    BY <1>3, Times
  <1>5. /\ request'.igots = request.igots /\ request'.gimmes = request.gimmes \ {k0}
        /\ request'.cards = request.cards
        /\ response'.igots = response.igots /\ response'.late = response.late
        /\ response'.gimmes = response.gimmes
        /\ response'.cards = response.cards \cup {CardOf("server", k0)}
    BY <1>1, <1>3, MessageTypes DEF Requests, Responses, Has, T
  <1>6. \A s, k : T(s, k)' = T(s, k) /\ CardOf(s, k)' = CardOf(s, k)
    BY <1>1 DEF T, CardOf, LookupXRow
  <1>7. WireCurrent'
    <2>1. \A card \in response'.cards : /\ card = CardOf("server", card.key)
                                        /\ T("client", card.key) < T("server", card.key)
      BY <1>2, <1>4, <1>5 DEF WireCurrent
    <2> QED BY <1>1, <1>2, <1>5, <1>6, <2>1 DEF WireCurrent
  <1>8. \A k \in Key : HasCard(response.cards, k) \/ k = k0 => HasCard(response'.cards, k)
    BY <1>4, <1>5 DEF HasCard
  <1>9. EveryRound'
    BY <1>1, <1>2, <1>5, <1>6, <1>8 DEF EveryRound
  <1>10. cycle > 0 => SecondRound'
    <2> SUFFICES ASSUME SecondRound, NEW k \in Key
                 PROVE  /\ T("server", k) < T("client", k) =>
                             HasCard(request.cards \cup {d.card : d \in deciding}, k)
                        /\ T("client", k) < T("server", k) =>
                             k \in request'.gimmes \/ HasCard(response'.cards, k)
      BY <1>1, <1>2, <1>5, <1>6 DEF SecondRound
    <2> QED BY <1>1, <1>5, <1>8 DEF SecondRound
  <1>11. cycle > 1 => ThirdRound'
    BY <1>1, <1>2, <1>5, <1>6 DEF ThirdRound, Even
  <1> QED BY <1>1, <1>7, <1>9, <1>10, <1>11 DEF RoundInv

(* The server accepts every row that is newer than its own.                 *)
LEMMA MtimeAccepts ==
    ASSUME SessionInv, conflict = "mtime-wins", NEW card \in Card
    PROVE  Accepts(card, User) <=> T("server", card.key) <= card.row.mtime
  <1>1. card.key \in Key /\ card.row.mtime \in Nat /\ T("server", card.key) \in Nat
    BY MessageTypes, Times
  <1>2. LookupXRow("server", card.key).mtime = T("server", card.key)
    BY <1>1, TableFacts, RowFacts DEF SessionInv, TypeOK, T
  <1>3. CASE IsTombstone(card.row)
    BY <1>1, <1>3 DEF Accepts, acceptXDelete, LookupXRowOwner, NotNewer, T
  <1>4. CASE ~IsTombstone(card.row)
    BY <1>1, <1>2, <1>4 DEF Accepts, resolveXRowConflict
  <1> QED BY <1>3, <1>4

LEMMA DecideRounds ==
    ASSUME SessionInv, RoundInv, BothWays, conflict = "mtime-wins",
           NEW card \in request.cards, DecideCard(card)
    PROVE  RoundInv'
  <1> DEFINE k0 == card.key
             accepted == Accepts(card, User)
  <1>1. /\ st = "serving" /\ st' = st /\ deciding = {}
        /\ UNCHANGED <<rows, registered, cycle, gimmes, toSend, response>>
        /\ request' = [request EXCEPT !.cards = @ \ {card}]
        /\ deciding' = IF accepted THEN {[card |-> card, fresh |-> Fresh(card)]} ELSE {}
    BY DEF DecideCard, Serving, sessionVars, BothWays
  <1>2. WireCurrent /\ EveryRound /\ (cycle > 0 => SecondRound) /\ (cycle > 1 => ThirdRound)
    BY DEF RoundInv
  <1>3. /\ request'.igots = request.igots /\ request'.gimmes = request.gimmes
        /\ request'.cards = request.cards \ {card}
    BY <1>1, MessageTypes DEF Requests
  <1>4. /\ card \in Card /\ k0 \in Key /\ card.row.mtime = T("client", k0)
        /\ T("client", k0) \in Nat /\ T("server", k0) \in Nat
    BY <1>2, MessageTypes, Times DEF WireCurrent
  <1>5. accepted <=> T("server", k0) <= T("client", k0)
    BY <1>4, MtimeAccepts
  <1> HIDE DEF accepted
  <1>6. /\ \A d \in deciding' : d.card = card /\ accepted
        /\ accepted => \E d \in deciding' : d.card = card
        /\ \A d, e \in deciding' : d = e
    <2> DEFINE decided == [card |-> card, fresh |-> Fresh(card)]
    <2>1. decided.card = card
      OBVIOUS
    <2>2. (accepted /\ deciding' = {decided}) \/ (~accepted /\ deciding' = {})
      BY <1>1
    <2> HIDE DEF decided
    <2> QED BY <2>1, <2>2
  <1>7. \A s, k : T(s, k)' = T(s, k) /\ CardOf(s, k)' = CardOf(s, k)
    BY <1>1 DEF T, CardOf, LookupXRow
  <1>8. WireCurrent'
    <2>1. \A d \in deciding' : /\ d.card.row.mtime = T("client", d.card.key)
                               /\ T("server", d.card.key) <= T("client", d.card.key)
      BY <1>4, <1>5, <1>6
    <2>2. \A c \in request'.cards : c.row.mtime = T("client", c.key)
      BY <1>2, <1>3 DEF WireCurrent
    <2> QED BY <1>1, <1>2, <1>3, <1>6, <1>7, <2>1, <2>2 DEF WireCurrent
  <1>9. EveryRound'
    BY <1>1, <1>2, <1>3, <1>7 DEF EveryRound
  <1>10. cycle > 0 => SecondRound'
    <2> SUFFICES ASSUME SecondRound, NEW k \in Key, T("server", k) < T("client", k)
                 PROVE  HasCard(request'.cards \cup {d.card : d \in deciding'}, k)
      BY <1>1, <1>2, <1>3, <1>7 DEF SecondRound
    <2>1. HasCard(request.cards, k)
      BY <1>1 DEF SecondRound, HasCard
    <2>2. PICK c \in request.cards : c.key = k
      BY <2>1 DEF HasCard
    <2>3. CASE c # card
      BY <1>3, <2>2, <2>3 DEF HasCard
    <2>4. CASE c = card
      <3>1. accepted
        BY <1>4, <1>5, <2>2, <2>4
      <3>2. PICK d \in deciding' : d.card = card
        BY <1>6, <3>1
      <3> QED BY <2>2, <2>4, <3>2 DEF HasCard
    <2> QED BY <2>3, <2>4
  <1>11. cycle > 1 => ThirdRound'
    BY <1>1, <1>2, <1>7 DEF ThirdRound, Even
  <1> QED BY <1>1, <1>8, <1>9, <1>10, <1>11 DEF RoundInv

(* The server writes the client's row.                                      *)
LEMMA StoreRounds ==
    ASSUME SessionInv, RoundInv, NEW d \in deciding, StoreCard(d)
    PROVE  RoundInv'
  <1> DEFINE k0 == d.card.key
  <1>1. /\ st = "serving" /\ st' = st /\ deciding' = {}
        /\ UNCHANGED <<registered, cycle, gimmes, toSend, request, response>>
        /\ rows' = [rows EXCEPT !["server"][k0] = StoredRow(d.card, d.fresh, User)]
    BY DEF StoreCard, UpsertXRow, sessionVars
  <1>2. WireCurrent /\ EveryRound /\ (cycle > 0 => SecondRound) /\ (cycle > 1 => ThirdRound)
    BY DEF RoundInv
  <1>3. /\ d.card \in Card /\ d.fresh \in BOOLEAN /\ k0 \in Key
        /\ d.card.row.mtime = T("client", k0) /\ T("server", k0) <= T("client", k0)
        /\ T("client", k0) \in Nat /\ T("server", k0) \in Nat
    BY <1>2, MessageTypes, Times DEF WireCurrent
  <1>4. d.card.row.mtime # 0 /\ d.card.row.owner = Nobody /\ rows \in [Side -> [Key -> Row]]
    BY DEF SessionInv, CardsSound, TypeOK
  <1>5. StoredRow(d.card, d.fresh, User).mtime = T("client", k0)
        /\ StoredRow(d.card, d.fresh, User) \in Row
    BY <1>3, <1>4, StoredFacts
  <1>6. /\ \A k \in Key : T("client", k)' = T("client", k)
        /\ T("server", k0)' = T("client", k0)
        /\ \A k \in Key : k # k0 => /\ T("server", k)' = T("server", k)
                                    /\ CardOf("server", k)' = CardOf("server", k)
    BY <1>1, <1>3, <1>4, <1>5, RowFacts DEF T, CardOf, LookupXRow
  <1>7. \A card \in response.cards : card.key \in Key /\ card.key # k0
    BY <1>2, <1>3, MessageTypes DEF WireCurrent
  <1>8. WireCurrent'
    <2>1. \A card \in request'.cards : card.row.mtime = T("client", card.key)'
      BY <1>1, <1>2, <1>6, MessageTypes DEF WireCurrent
    <2>2. \A card \in response'.cards : /\ card = CardOf("server", card.key)'
                                        /\ T("client", card.key)' < T("server", card.key)'
      BY <1>1, <1>2, <1>6, <1>7 DEF WireCurrent
    <2>3. \A igot \in request'.igots : igot.mtime = T("client", igot.key)' /\ igot.mtime # 0
      BY <1>1, <1>2, <1>6, MessageTypes DEF WireCurrent
    <2>4. \A k \in Key : T("server", k) # 0 => T("server", k)' # 0
      BY <1>3, <1>4, <1>6
    <2>5. \A igot \in response'.igots : T("server", igot.key)' # 0
      BY <1>1, <1>2, <2>4, MessageTypes DEF WireCurrent
    <2>6. \A k \in gimmes' : T("client", k)' = 0 /\ T("server", k)' # 0
      BY <1>1, <1>2, <1>6, <2>4, MessageTypes DEF WireCurrent
    <2>7. response'.late = {}
      BY <1>1, <1>2 DEF WireCurrent
    <2> QED BY <1>1, <2>1, <2>2, <2>3, <2>5, <2>6, <2>7 DEF WireCurrent
  <1>9. EveryRound'
    <2> SUFFICES ASSUME NEW k \in Key
                 PROVE  /\ T("server", k)' < T("client", k)' =>
                             HasIgot(request.igots, k) \/ T("server", k)' # 0 \/ k \in response.gimmes
                        /\ T("client", k)' < T("server", k)' =>
                             HasIgot(request.igots, k) \/ T("client", k)' = 0 \/ HasCard(response.cards, k)
      BY <1>1 DEF EveryRound
    <2>1. CASE k = k0
      BY <1>3, <1>6, <2>1
    <2>2. CASE k # k0
      BY <1>1, <1>2, <1>6, <2>2 DEF EveryRound
    <2> QED BY <2>1, <2>2
  <1>10. cycle > 0 => SecondRound'
    <2> SUFFICES ASSUME SecondRound, NEW k \in Key
                 PROVE  /\ T("server", k)' < T("client", k)' =>
                             HasCard(request.cards \cup {e.card : e \in {}}, k)
                        /\ T("client", k)' < T("server", k)' =>
                             k \in request.gimmes \/ HasCard(response.cards, k)
      BY <1>1, <1>2 DEF SecondRound
    <2>1. CASE k = k0
      BY <1>3, <1>6, <2>1
    <2>2. CASE k # k0
      <3>1. \A e \in deciding : e.card.key # k
        BY <1>2, <2>2 DEF WireCurrent
      <3>2. HasCard(request.cards \cup {e.card : e \in deciding}, k) =>
              HasCard(request.cards \cup {e.card : e \in {}}, k)
        BY <3>1 DEF HasCard
      <3> QED BY <1>1, <1>6, <2>2, <3>2 DEF SecondRound
    <2> QED BY <2>1, <2>2
  <1>11. cycle > 1 => ThirdRound'
    <2> SUFFICES ASSUME ThirdRound PROVE ThirdRound'
      BY <1>2
    <2>1. \A k \in Key : T("server", k)' = T("server", k) /\ T("client", k)' = T("client", k)
      BY <1>3, <1>6 DEF ThirdRound, Even
    <2> QED BY <1>1, <2>1, MessageTypes DEF ThirdRound, Even
  <1> QED BY <1>1, <1>8, <1>9, <1>10, <1>11 DEF RoundInv

(* The server closes its answer with its schema and all its rows' times.    *)
LEMMA RespondRounds ==
    ASSUME SessionInv, RoundInv, BothWays, registered # {}, Respond
    PROVE  RoundInv'
  <1>1. /\ st = "serving" /\ st' = "receiving" /\ deciding = {} /\ request = NoRequest
        /\ UNCHANGED <<rows, registered, cycle, gimmes, toSend, deciding, request>>
        /\ response' = IF "server" \in registered
                       THEN [response EXCEPT !.schema = TRUE, !.late = Igots("server")]
                       ELSE response
    BY DEF Respond, Serving, sessionVars, BothWays
  <1>2. WireCurrent /\ EveryRound /\ (cycle > 0 => SecondRound) /\ (cycle > 1 => ThirdRound)
    BY DEF RoundInv
  <1>3. /\ response'.igots = response.igots /\ response'.gimmes = response.gimmes
        /\ response'.cards = response.cards
        /\ "server" \in registered => response'.schema /\ response'.late = Igots("server")
        /\ "server" \notin registered => response'.late = {}
    BY <1>1, <1>2, MessageTypes DEF Responses, WireCurrent
  <1>4. request.igots = {} /\ request.gimmes = {} /\ request.cards = {}
    BY <1>1 DEF NoRequest
  <1>5. \A s, k : T(s, k)' = T(s, k) /\ CardOf(s, k)' = CardOf(s, k)
    BY <1>1 DEF T, CardOf, LookupXRow
  <1>6. \A igot \in Igots("server") : igot.mtime = T("server", igot.key) /\ igot.mtime # 0
    BY IgotsOf, RowFacts
  <1>7. \A k \in Key : T("server", k) # 0 => HasIgot(response'.late, k)
    BY <1>3, IgotsOf, Times
  <1>8. WireCurrent'
    BY <1>1, <1>2, <1>3, <1>5, <1>6 DEF WireCurrent
  <1>9. \A k \in Key : ~HasIgot(request.igots, k) /\ ~HasCard(request.cards, k)
                       /\ ~HasCard(request.cards \cup {d.card : d \in deciding}, k)
    BY <1>1, <1>4 DEF HasIgot, HasCard
  <1>10. "client" \in registered \/ response'.schema
    BY <1>3 DEF SessionInv, TypeOK, Side
  <1>11. EveryRound'
    <2> SUFFICES ASSUME NEW k \in Key
                 PROVE  /\ T("server", k) < T("client", k) =>
                              \/ k \in response'.gimmes \cup toSend
                              \/ T("server", k) # 0 /\ HasIgot(response'.late, k)
                        /\ T("client", k) < T("server", k) =>
                              \/ k \in gimmes \/ HasCard(response'.cards, k)
                              \/ T("client", k) = 0 /\ HasIgot(response'.late, k)
      BY <1>1, <1>5, <1>10 DEF EveryRound
    <2>1. /\ T("server", k) < T("client", k) => T("server", k) # 0 \/ k \in response.gimmes
          /\ T("client", k) < T("server", k) => T("client", k) = 0 \/ HasCard(response.cards, k)
      BY <1>1, <1>2, <1>9 DEF EveryRound
    <2>2. T("client", k) \in Nat /\ T("server", k) \in Nat
      BY Times
    <2> QED BY <1>3, <1>7, <2>1, <2>2
  <1>12. cycle > 0 => SecondRound'
    <2> SUFFICES ASSUME SecondRound, NEW k \in Key, T("client", k) # T("server", k)
                 PROVE  HasCard(response.cards, k)
      BY <1>1, <1>2, <1>3, <1>5 DEF SecondRound
    <2>1. T("client", k) < T("server", k) \/ T("server", k) < T("client", k)
      BY Times
    <2> QED BY <1>1, <1>4, <1>9, <2>1 DEF SecondRound
  <1>13. cycle > 1 => ThirdRound'
    BY <1>1, <1>2, <1>3, <1>5 DEF ThirdRound, Even
  <1> QED BY <1>1, <1>8, <1>11, <1>12, <1>13 DEF RoundInv

(* The client reads the schema, and the xgimmes.                            *)
LEMMA ReadRounds ==
    ASSUME SessionInv, RoundInv,
           handleXSchemaCard \/ \E k \in response.gimmes : handleXGimmeResponse(k)
    PROVE  RoundInv'
  <1>1. /\ st = "receiving" /\ st' = st /\ registered \subseteq registered'
        /\ UNCHANGED <<rows, cycle, gimmes, deciding, request>>
        /\ toSend \subseteq toSend' /\ toSend' \subseteq toSend \cup response.gimmes
    BY DEF handleXSchemaCard, handleXGimmeResponse, sessionVars
  <1>2. /\ response'.igots = response.igots /\ response'.late = response.late
        /\ response'.cards = response.cards
        /\ response'.gimmes \subseteq response.gimmes
        /\ response.gimmes \subseteq response'.gimmes \cup toSend'
        /\ response.schema => response'.schema \/ "client" \in registered'
    BY MessageTypes DEF handleXSchemaCard, handleXGimmeResponse, Responses
  <1>3. \A s, k : T(s, k)' = T(s, k) /\ CardOf(s, k)' = CardOf(s, k)
    BY <1>1 DEF T, CardOf, LookupXRow
  <1>4. WireCurrent /\ EveryRound /\ (cycle > 0 => SecondRound) /\ (cycle > 1 => ThirdRound)
    BY DEF RoundInv
  <1>5. WireCurrent'
    BY <1>1, <1>2, <1>3, <1>4 DEF WireCurrent
  <1>6. EveryRound'
    <2>1. "client" \in registered' \/ response'.schema
      BY <1>1, <1>2, <1>4 DEF EveryRound
    <2>2. \A k \in Key : k \in response.gimmes \cup toSend => k \in response'.gimmes \cup toSend'
      BY <1>1, <1>2
    <2> QED BY <1>1, <1>2, <1>3, <1>4, <2>1, <2>2 DEF EveryRound
  <1>7. cycle > 0 => SecondRound'
    BY <1>1, <1>2, <1>3, <1>4 DEF SecondRound
  <1>8. cycle > 1 => ThirdRound'
    BY <1>1, <1>2, <1>3, <1>4 DEF ThirdRound, Even
  <1> QED BY <1>1, <1>5, <1>6, <1>7, <1>8 DEF RoundInv

(* The client reads an xigot: it asks for the row or queues its own.        *)
LEMMA AnnouncedRounds ==
    ASSUME SessionInv, RoundInv, NEW igot \in response.igots \cup response.late,
           handleXIGotResponse(igot)
    PROVE  RoundInv'
  <1> DEFINE k0 == igot.key
  <1>1. /\ st = "receiving" /\ st' = st
        /\ UNCHANGED <<rows, registered, cycle, deciding, request>>
        /\ response' = IF igot \in response.igots THEN [response EXCEPT !.igots = @ \ {igot}]
                       ELSE [response EXCEPT !.late = @ \ {igot}]
        /\ gimmes' = IF T("client", k0) = 0 THEN gimmes \cup {k0} ELSE gimmes
        /\ toSend' = IF T("client", k0) > igot.mtime THEN toSend \cup {k0} ELSE toSend
    BY DEF handleXIGotResponse, QueueNewer, T
  <1>2. WireCurrent /\ EveryRound /\ (cycle > 0 => SecondRound) /\ (cycle > 1 => ThirdRound)
    BY DEF RoundInv
  <1>3. /\ response'.gimmes = response.gimmes /\ response'.cards = response.cards
        /\ response'.schema = response.schema
        /\ response'.igots \subseteq response.igots /\ response'.late \subseteq response.late
        /\ igot \in response.igots => response'.late = response.late
        /\ igot \notin response.igots => response'.late = response.late \ {igot}
    BY <1>1, MessageTypes DEF Responses
  <1>4. /\ k0 \in Key /\ T("server", k0) # 0
        /\ T("client", k0) \in Nat /\ T("server", k0) \in Nat
        /\ igot \notin response.igots => igot.mtime = T("server", k0)
    BY <1>2, MessageTypes, Times DEF WireCurrent
  <1>5. \A s, k : T(s, k)' = T(s, k) /\ CardOf(s, k)' = CardOf(s, k)
    BY <1>1 DEF T, CardOf, LookupXRow
  <1>6. WireCurrent'
    <2>1. \A k \in gimmes' : T("client", k) = 0 /\ T("server", k) # 0
      BY <1>1, <1>2, <1>4 DEF WireCurrent
    <2> QED BY <1>1, <1>2, <1>3, <1>5, <2>1 DEF WireCurrent
  <1>7. EveryRound'
    <2> SUFFICES ASSUME NEW k \in Key
                 PROVE  /\ T("server", k) < T("client", k) =>
                              \/ k \in response'.gimmes \cup toSend'
                              \/ T("server", k) # 0 /\ HasIgot(response'.late, k)
                        /\ T("client", k) < T("server", k) =>
                              \/ k \in gimmes' \/ HasCard(response'.cards, k)
                              \/ T("client", k) = 0 /\ HasIgot(response'.late, k)
      BY <1>1, <1>2, <1>3, <1>5 DEF EveryRound
    <2>1. /\ T("server", k) < T("client", k) =>
                \/ k \in response.gimmes \cup toSend
                \/ T("server", k) # 0 /\ HasIgot(response.late, k)
          /\ T("client", k) < T("server", k) =>
                \/ k \in gimmes \/ HasCard(response.cards, k)
                \/ T("client", k) = 0 /\ HasIgot(response.late, k)
      BY <1>1, <1>2 DEF EveryRound
    <2>2. toSend \subseteq toSend' /\ gimmes \subseteq gimmes'
      BY <1>1
    <2>3. CASE igot \in response.igots \/ k # k0
      <3>1. HasIgot(response.late, k) => HasIgot(response'.late, k)
        BY <1>3, <2>3 DEF HasIgot
      <3> QED BY <1>3, <2>1, <2>2, <3>1
    <2>4. CASE igot \notin response.igots /\ k = k0
      <3>1. T("server", k) < T("client", k) => k \in toSend'
        BY <1>1, <1>4, <2>4
      <3>2. T("client", k) = 0 => k \in gimmes'
        BY <1>1, <2>4
      <3> QED BY <1>3, <2>1, <2>2, <3>1, <3>2
    <2> QED BY <2>3, <2>4
  <1>8. cycle > 0 => SecondRound'
    BY <1>1, <1>2, <1>3, <1>5 DEF SecondRound
  <1>9. cycle > 1 => ThirdRound'
    <2> SUFFICES ASSUME ThirdRound PROVE ThirdRound'
      BY <1>2
    <2>1. T("client", k0) = T("server", k0) /\ igot.mtime = T("server", k0)
      BY <1>4 DEF ThirdRound, Even
    <2>2. gimmes' = gimmes /\ toSend' = toSend
      BY <1>1, <1>4, <2>1
    <2> QED BY <1>1, <1>3, <1>5, <2>2 DEF ThirdRound, Even
  <1> QED BY <1>1, <1>6, <1>7, <1>8, <1>9 DEF RoundInv

(* The client stores a row of the server, which is newer than its own.      *)
LEMMA ApplyRounds ==
    ASSUME SessionInv, RoundInv, NEW card \in response.cards, handleXRowResponse(card)
    PROVE  RoundInv'
  <1> DEFINE k0 == card.key
  <1>1. /\ st = "receiving" /\ st' = st
        /\ UNCHANGED <<registered, cycle, toSend, deciding, request>>
        /\ response' = [response EXCEPT !.cards = @ \ {card}]
        /\ gimmes' = gimmes \ {k0}
    BY DEF handleXRowResponse, GimmesAfter
  <1>2. WireCurrent /\ EveryRound /\ (cycle > 0 => SecondRound) /\ (cycle > 1 => ThirdRound)
    BY DEF RoundInv
  <1>3. /\ response'.gimmes = response.gimmes /\ response'.cards = response.cards \ {card}
        /\ response'.schema = response.schema
        /\ response'.igots = response.igots /\ response'.late = response.late
    BY <1>1, MessageTypes DEF Responses
  <1>4. /\ card = CardOf("server", k0) /\ T("client", k0) < T("server", k0)
        /\ k0 \in Key /\ T("client", k0) \in Nat /\ T("server", k0) \in Nat
        /\ card.row.mtime = T("server", k0) /\ card.row \in Row
    BY <1>2, MessageTypes, Times DEF WireCurrent
  <1>5. rows' = [rows EXCEPT !["client"][k0] = card.row]
    <2>1. NotNewer("client", card)
      BY <1>4 DEF NotNewer, T
    <2> QED BY <2>1 DEF handleXRowResponse, UpsertXRow
  <1>6. /\ \A k \in Key : T("server", k)' = T("server", k) /\ CardOf("server", k)' = CardOf("server", k)
        /\ T("client", k0)' = T("server", k0)
        /\ \A k \in Key : k # k0 => T("client", k)' = T("client", k)
    <2>1. rows \in [Side -> [Key -> Row]]
      BY DEF SessionInv, TypeOK
    <2> QED BY <1>4, <1>5, <2>1, RowFacts DEF T, CardOf, LookupXRow
  <1>7. /\ request.igots = {} /\ request.cards = {} /\ deciding = {}
    BY <1>1 DEF SessionInv, SessionShape, NoRequest
  <1>8. \A c \in response'.cards : c \in response.cards /\ c.key \in Key /\ c.key # k0
    BY <1>2, <1>3, <1>4, MessageTypes DEF WireCurrent
  <1>9. WireCurrent'
    <2>1. \A c \in response'.cards : /\ c = CardOf("server", c.key)'
                                     /\ T("client", c.key)' < T("server", c.key)'
      BY <1>2, <1>6, <1>8 DEF WireCurrent
    <2>2. \A k \in gimmes' : T("client", k)' = 0 /\ T("server", k)' # 0
      BY <1>1, <1>2, <1>6, MessageTypes DEF WireCurrent
    <2>3. /\ \A igot \in response'.igots : T("server", igot.key)' # 0
          /\ \A igot \in response'.late : igot.mtime = T("server", igot.key)' /\ igot.mtime # 0
      BY <1>2, <1>3, <1>6, MessageTypes DEF WireCurrent
    <2> QED BY <1>1, <1>7, <2>1, <2>2, <2>3 DEF WireCurrent
  <1>10. \A k \in Key : k # k0 /\ HasCard(response.cards, k) => HasCard(response'.cards, k)
    BY <1>3 DEF HasCard
  <1>11. EveryRound'
    <2> SUFFICES ASSUME NEW k \in Key
                 PROVE  /\ T("server", k)' < T("client", k)' =>
                              \/ k \in response'.gimmes \cup toSend
                              \/ T("server", k)' # 0 /\ HasIgot(response'.late, k)
                        /\ T("client", k)' < T("server", k)' =>
                              \/ k \in gimmes' \/ HasCard(response'.cards, k)
                              \/ T("client", k)' = 0 /\ HasIgot(response'.late, k)
      BY <1>1, <1>2, <1>3 DEF EveryRound
    <2>1. CASE k = k0
      BY <1>4, <1>6, <2>1
    <2>2. CASE k # k0
      BY <1>1, <1>2, <1>3, <1>6, <1>10, <2>2 DEF EveryRound
    <2> QED BY <2>1, <2>2
  <1>12. cycle > 0 => SecondRound'
    BY <1>1, <1>2, <1>6, <1>10 DEF SecondRound
  <1>13. ~(cycle > 1)
    BY <1>2, <1>4 DEF ThirdRound, Even
  <1> QED BY <1>1, <1>9, <1>11, <1>12, <1>13 DEF RoundInv

(* The session is done, or what remains is queued; the third round is the   *)
(* last.                                                                    *)
LEMMA EndRounds ==
    ASSUME SessionInv, RoundInv, EndRound, MaxRounds >= 3
    PROVE  /\ st' = "done" => Even'
           /\ st' # "exceeded"
           /\ st' \in Running => RoundInv'
  <1>1. /\ st = "receiving" /\ response = NoResponse /\ cycle' = cycle + 1
        /\ UNCHANGED <<rows, registered, gimmes, toSend, request, deciding, response>>
        /\ st' = IF gimmes = {} /\ toSend = {} THEN "done"
                 ELSE IF cycle' = MaxRounds THEN "exceeded" ELSE "ready"
    BY DEF EndRound
  <1>2. WireCurrent /\ EveryRound /\ (cycle > 0 => SecondRound) /\ (cycle > 1 => ThirdRound)
    BY DEF RoundInv
  <1>3. /\ response.igots = {} /\ response.gimmes = {} /\ response.cards = {} /\ ~response.schema
        /\ response.late = {}
    BY <1>1 DEF NoResponse
  <1>4. /\ cycle \in Nat /\ MaxRounds \in Nat
        /\ \A k \in Key : T("client", k) \in Nat /\ T("server", k) \in Nat
    BY Times, ConstantsAssumption
  <1>5. /\ "client" \in registered
        /\ \A k \in Key : /\ T("server", k) < T("client", k) => k \in toSend
                          /\ T("client", k) < T("server", k) => k \in gimmes
    <2>1. \A k \in Key : ~HasIgot(response.late, k) /\ ~HasCard(response.cards, k)
      BY <1>3 DEF HasIgot, HasCard
    <2> QED BY <1>1, <1>2, <1>3, <2>1 DEF EveryRound
  <1>6. \A s, k : T(s, k)' = T(s, k) /\ CardOf(s, k)' = CardOf(s, k)
    BY <1>1 DEF T, CardOf, LookupXRow
  <1>7. ASSUME st' = "done" PROVE Even'
    <2>1. gimmes = {} /\ toSend = {}
      BY <1>1, <1>7
    <2> QED BY <1>4, <1>5, <1>6, <2>1 DEF Even
  <1>8. cycle > 0 => Even /\ gimmes = {}
    <2> SUFFICES ASSUME SecondRound PROVE Even /\ gimmes = {}
      BY <1>2
    <2>1. Even
      BY <1>1, <1>3 DEF SecondRound, HasCard, Even
    <2>2. \A k \in gimmes : k \in Key
      BY MessageTypes
    <2> QED BY <1>2, <2>1, <2>2 DEF Even, WireCurrent
  <1>9. st' # "exceeded"
    <2> SUFFICES ASSUME cycle + 1 = MaxRounds PROVE gimmes = {} /\ toSend = {}
      BY <1>1
    <2>1. cycle > 1
      BY <1>4
    <2> QED BY <1>1, <1>2, <2>1 DEF ThirdRound
  <1>10. ASSUME st' = "ready" PROVE RoundInv'
    <2>1. WireCurrent'
      BY <1>1, <1>2, <1>3, <1>6 DEF WireCurrent
    <2>2. EveryRound' /\ SecondRound'
      BY <1>1, <1>5, <1>6, <1>10 DEF EveryRound, SecondRound
    <2>3. cycle' > 1 => ThirdRound'
      <3>1. cycle' > 1 => cycle > 0
        BY <1>1, <1>4
      <3> QED BY <1>1, <1>3, <1>6, <1>8, <1>10, <3>1 DEF ThirdRound, Even
    <2> QED BY <2>1, <2>2, <2>3 DEF RoundInv
  <1> QED BY <1>1, <1>7, <1>9, <1>10 DEF Running

LEMMA LatestFinite ==
    ASSUME latest \in [Key -> SUBSET Row], \A k \in Key : IsFiniteSet(latest[k]),
           NEW k0 \in Key, NEW new,
           latest' = [latest EXCEPT ![k0] = {new} \cup {r \in @ : r.mtime = new.mtime}]
    PROVE  \A k \in Key : IsFiniteSet(latest'[k])
  <1> SUFFICES ASSUME NEW k \in Key PROVE IsFiniteSet(latest'[k])
    OBVIOUS
  <1> DEFINE old == {r \in latest[k0] : r.mtime = new.mtime}
  <1>1. IsFiniteSet(old)
    BY FS_Subset
  <1>2. IsFiniteSet(old \cup {new})
    BY <1>1, FS_AddElement
  <1>3. latest'[k] = IF k = k0 THEN old \cup {new} ELSE latest[k]
    OBVIOUS
  <1> HIDE DEF old
  <1> QED BY <1>2, <1>3

LEMMA NextAgrees ==
    ASSUME MaxRounds >= 3, SessionInv, MtimeInv, AgreeInv, [Next]_vars
    PROVE  AgreeInv'
  <1> USE DEF sessionVars, observers
  <1>0. /\ registered # {} /\ \A k \in Key : IsFiniteSet(latest[k])
        /\ latest \in [Key -> SUBSET Row]
    BY DEF AgreeInv, SessionInv, TypeOK
  <1>a. ASSUME UNCHANGED <<conflict, mode, calm, latest>>, registered \subseteq registered',
               st \in Running, st' \in Running,
               Undisturbed /\ RoundInv => RoundInv'
        PROVE  AgreeInv'
    <2>1. Undisturbed' => Undisturbed /\ RoundInv
      BY <1>a DEF Undisturbed, BothWays, AgreeInv
    <2>2. st' \notin {"done", "exceeded"}
      BY <1>a DEF Running
    <2> QED BY <1>0, <1>a, <2>1, <2>2 DEF AgreeInv
  <1>b. Undisturbed => BothWays /\ conflict = "mtime-wins" /\ MtimeParts
    BY DEF Undisturbed, MtimeInv
  <1>1. ASSUME NEW m \in Modes, StartWith(m) PROVE AgreeInv'
    <2>1. /\ st' = "ready" /\ cycle' = 0 /\ gimmes' = {} /\ toSend' = {}
          /\ request' = NoRequest /\ deciding' = {} /\ response' = NoResponse
          /\ UNCHANGED <<registered, latest>>
      BY <1>1 DEF StartWith
    <2>2. RoundInv'
      BY <2>1 DEF RoundInv, WireCurrent, EveryRound, NoRequest, NoResponse
    <2> QED BY <1>0, <2>1, <2>2 DEF AgreeInv
  <1>2. CASE BuildRequest
    BY <1>2, <1>a, BuildRounds DEF BuildRequest, Running
  <1>3. CASE handleSchemaCard \/ handlePragmaXTableHash
    <2>1. /\ st \in Running /\ st' \in Running /\ registered \subseteq registered'
          /\ UNCHANGED <<conflict, mode, calm, latest>>
      BY <1>3 DEF handleSchemaCard, handlePragmaXTableHash, Running
    <2> QED BY <1>3, <1>a, <2>1, HashRounds
  <1>4. ASSUME NEW igot \in request.igots, handleXIGot(igot) PROVE AgreeInv'
    <2>1. /\ st \in Running /\ st' \in Running
          /\ UNCHANGED <<conflict, mode, calm, latest, registered>>
      BY <1>4 DEF handleXIGot, Serving, Running
    <2> QED BY <1>4, <1>a, <1>b, <2>1, IGotRounds
  <1>5. ASSUME NEW k \in request.gimmes, handleXGimme(k) PROVE AgreeInv'
    <2>1. /\ st \in Running /\ st' \in Running
          /\ UNCHANGED <<conflict, mode, calm, latest, registered>>
      BY <1>5 DEF handleXGimme, Serving, Running
    <2> QED BY <1>5, <1>a, <1>b, <2>1, GimmeRounds
  <1>6. ASSUME NEW card \in request.cards, DecideCard(card) PROVE AgreeInv'
    <2>1. /\ st \in Running /\ st' \in Running
          /\ UNCHANGED <<conflict, mode, calm, latest, registered>>
      BY <1>6 DEF DecideCard, Serving, Running
    <2> QED BY <1>6, <1>a, <1>b, <2>1, DecideRounds
  <1>7. ASSUME NEW d \in deciding, StoreCard(d) PROVE AgreeInv'
    <2>1. /\ st \in Running /\ st' \in Running
          /\ UNCHANGED <<conflict, mode, calm, latest, registered>>
      BY <1>7 DEF StoreCard, Running
    <2> QED BY <1>7, <1>a, <2>1, StoreRounds
  <1>8. CASE Respond
    <2>1. /\ st \in Running /\ st' \in Running
          /\ UNCHANGED <<conflict, mode, calm, latest, registered>>
      BY <1>8 DEF Respond, Serving, Running
    <2> QED BY <1>0, <1>8, <1>a, <1>b, <2>1, RespondRounds
  <1>9. CASE handleXSchemaCard \/ \E k \in response.gimmes : handleXGimmeResponse(k)
    <2>1. /\ st \in Running /\ st' \in Running /\ registered \subseteq registered'
          /\ UNCHANGED <<conflict, mode, calm, latest>>
      BY <1>9 DEF handleXSchemaCard, handleXGimmeResponse, Running
    <2> QED BY <1>9, <1>a, <2>1, ReadRounds
  <1>10. ASSUME NEW igot \in response.igots \cup response.late, handleXIGotResponse(igot)
         PROVE  AgreeInv'
    <2>1. /\ st \in Running /\ st' \in Running
          /\ UNCHANGED <<conflict, mode, calm, latest, registered>>
      BY <1>10 DEF handleXIGotResponse, Running
    <2> QED BY <1>10, <1>a, <2>1, AnnouncedRounds
  <1>11. ASSUME NEW card \in response.cards, handleXRowResponse(card) PROVE AgreeInv'
    <2>1. /\ st \in Running /\ st' \in Running
          /\ UNCHANGED <<conflict, mode, calm, latest, registered>>
      BY <1>11 DEF handleXRowResponse, Running
    <2> QED BY <1>11, <1>a, <2>1, ApplyRounds
  <1>12. CASE EndRound
    <2>1. /\ st = "receiving" /\ UNCHANGED <<conflict, mode, calm, latest, registered>>
      BY <1>12 DEF EndRound
    <2>2. Undisturbed' => RoundInv
      BY <2>1 DEF Undisturbed, BothWays, AgreeInv, Running
    <2> QED BY <1>0, <1>12, <2>1, <2>2, EndRounds DEF AgreeInv
  <1>13. CASE Interrupt
    <2>1. st' = "failed" /\ UNCHANGED <<registered, latest>>
      BY <1>13 DEF Interrupt
    <2> QED BY <1>0, <2>1 DEF AgreeInv, Running
  <1>14. ASSUME NEW s \in Side, NEW k \in Key, NEW row \in Row, Edit(s, k, row) PROVE AgreeInv'
    <2>1. /\ ~calm' /\ registered' = registered
          /\ latest' = [latest EXCEPT ![k] =
                {[row EXCEPT !.owner = Nobody]} \cup {r \in @ : r.mtime = row.mtime}]
      BY <1>14 DEF Edit
    <2>2. PICK new : new = [row EXCEPT !.owner = Nobody]
      OBVIOUS
    <2>3. new.mtime = row.mtime
      BY <2>2 DEF Row
    <2>4. latest' = [latest EXCEPT ![k] = {new} \cup {r \in @ : r.mtime = new.mtime}]
      BY <2>1, <2>2, <2>3
    <2>5. \A m \in Key : IsFiniteSet(latest'[m])
      BY <1>0, <2>4, LatestFinite
    <2> QED BY <1>0, <2>1, <2>5 DEF AgreeInv, Undisturbed
  <1>15. ASSUME NEW card \in Card, PeerCard(card) PROVE AgreeInv'
    <2>1. /\ ~calm' /\ registered' = registered /\ card.key \in Key
          /\ latest' = [latest EXCEPT ![card.key] =
                {card.row} \cup {r \in @ : r.mtime = card.row.mtime}]
      BY <1>15, RowFacts DEF PeerCard
    <2>2. \A m \in Key : IsFiniteSet(latest'[m])
      BY <1>0, <2>1, LatestFinite
    <2> QED BY <1>0, <2>1, <2>2 DEF AgreeInv, Undisturbed
  <1>16. CASE UNCHANGED vars
    <2>1. UNCHANGED <<conflict, rows, registered, st, mode, cycle, gimmes, toSend, request,
                      deciding, response, latest, calm>>
      BY <1>16 DEF vars
    <2>2. RoundInv' <=> RoundInv
      BY <2>1 DEF RoundInv, WireCurrent, EveryRound, SecondRound, ThirdRound, Even, T, HasCard,
                  HasIgot, CardOf, LookupXRow
    <2> QED BY <2>1, <2>2 DEF AgreeInv, Undisturbed, BothWays, Even, T
  <1> QED BY <1>1, <1>2, <1>3, <1>4, <1>5, <1>6, <1>7, <1>8, <1>9, <1>10, <1>11, <1>12, <1>13,
             <1>14, <1>15, <1>16 DEF Next, Step, Write, Delete

LEMMA InitAgrees == Init => AgreeInv
  <1> SUFFICES ASSUME Init PROVE AgreeInv
    OBVIOUS
  <1>1. registered # {} /\ st = "idle"
    BY ConstantsAssumption DEF Init
  <1>2. ASSUME NEW k \in Key PROVE IsFiniteSet(latest[k])
    <2>1. IsFiniteSet({LookupXRow("client", k)})
      BY FS_Singleton
    <2>2. IsFiniteSet({LookupXRow("client", k)} \cup {LookupXRow("server", k)})
      BY <2>1, FS_AddElement
    <2>3. latest[k] \subseteq {LookupXRow("client", k)} \cup {LookupXRow("server", k)}
      BY DEF Init, Side
    <2> QED BY <2>2, <2>3, FS_Subset
  <1> QED BY <1>1, <1>2 DEF AgreeInv, Running

(* Rows of the same time are the same unless two were written at that time. *)
LEMMA EvenAgrees ==
    ASSUME SessionInv, MtimeParts, \A k \in Key : IsFiniteSet(latest[k]), Even
    PROVE  Agree
  <1> SUFFICES ASSUME NEW k \in Key
               PROVE  /\ rows["client"][k].mtime = rows["server"][k].mtime
                      /\ k \notin raced /\ Cardinality(latest[k]) = 1
                         => rows["client"][k].val = rows["server"][k].val
    BY DEF Agree
  <1>1. rows["client"][k].mtime = rows["server"][k].mtime
    BY DEF Even, T
  <1>2. ASSUME k \notin raced, Cardinality(latest[k]) = 1
        PROVE  rows["client"][k].val = rows["server"][k].val
    <2>1. PICK l : latest[k] = {l}
      BY <1>2, FS_Singleton
    <2>2. rows \in [Side -> [Key -> Row]] /\ "client" \in Side /\ "server" \in Side
      BY RowFacts DEF SessionInv, TypeOK
    <2>3. \A s \in Side : /\ LookupXRow(s, k).mtime = rows[s][k].mtime
                          /\ LookupXRow(s, k).val = rows[s][k].val
      BY <2>2, TableFacts
    <2>4. PICK s \in Side : LookupXRow(s, k) = l
      BY <1>2, <2>1 DEF MtimeParts, Survives
    <2>5. \A t \in Side : LookupXRow(t, k).mtime = l.mtime
      BY <1>1, <2>3, <2>4 DEF Side
    <2>6. \A t \in Side : LookupXRow(t, k) = l
      BY <2>1, <2>5 DEF MtimeParts, RowsKnown, Known
    <2> QED BY <2>2, <2>3, <2>6
  <1> QED BY <1>1, <1>2

(* A session that pushes and pulls a mtime-wins table, with no write by     *)
(* others since it began, leaves the same rows at both sides when it ends,  *)
(* and ends in its third round at the latest, well below the 100 rounds of  *)
(* MaxRounds: for any keys, rows, deletions and interrupted sessions before *)
(* it, and if only one side knew the table (handleXIGot, handleXRow,        *)
(* emitXIGots, the convergence test of processResponse).                    *)
THEOREM TableDoneAgrees == MaxRounds >= 3 => (Spec => []DoneAgrees)
  <1> SUFFICES ASSUME MaxRounds >= 3 PROVE Spec => []DoneAgrees
    OBVIOUS
  <1>1. Init => SessionInv /\ MtimeInv /\ AgreeInv
    BY InitSession, InitMtime, InitAgrees
  <1>2. SessionInv /\ MtimeInv /\ AgreeInv /\ [Next]_vars => (SessionInv /\ MtimeInv /\ AgreeInv)'
    BY NextSession, NextMtime, NextAgrees
  <1>3. SessionInv /\ MtimeInv /\ AgreeInv => DoneAgrees
    BY EvenAgrees DEF MtimeInv, AgreeInv, DoneAgrees, Undisturbed
  <1> QED BY <1>1, <1>2, <1>3, PTL DEF Spec
=============================================================================
