--------------------------- MODULE UVSyncProofs ---------------------------
(***************************************************************************)
(* No session between two tables of unversioned files loses the newest row  *)
(* of a name, for any names, clock, edits, budgets and interruptions, but   *)
(* for a name edited between a look and the write after it; and a session   *)
(* that nobody edits under leaves the same files at both sides.             *)
(***************************************************************************)
EXTENDS UVSync, FiniteSetTheorems, TLAPS

Running == {"ready", "serving", "receiving"}
Incoming == request.files \cup response.igots \cup response.files

(* A row that is or was in a table: older than the last one written, or one *)
(* of those written at that time.                                           *)
Known(n, row) ==
    \A l \in latest[n] : /\ row.mtime <= l.mtime
                         /\ row.mtime = l.mtime => row \in latest[n]

(* The rows c of the client and s of the server: one is the last written,   *)
(* and the server's is not older than what it has announced.                *)
Good(n, c, s) ==
    /\ Known(n, c) /\ Known(n, s)
    /\ c \in latest[n] \/ s \in latest[n]
    /\ \A card \in response.igots : card.name = n => card.row.mtime <= s.mtime

(* The tables as they are, and as the statement in hand will leave them.    *)
TablesGood == \A n \in Name \ raced : Good(n, rows["client"][n], rows["server"][n])
HandGood ==
    \A h \in hand : h.name \notin raced =>
        /\ h.side = "client" => Good(h.name, After(h), rows["server"][h.name])
        /\ h.side = "server" => Good(h.name, rows["client"][h.name], After(h))
CardsKnown == \A card \in Incoming : card.name \notin raced => Known(card.name, card.row)

(* The rows last written for a name are of one time, which has passed.      *)
LatestOfOneTime ==
    \A n \in Name : /\ latest[n] # {}
                    /\ \A l, m \in latest[n] : l.mtime = m.mtime /\ l.mtime <= now

(* Time 0 is no row.                                                        *)
Stamped(row) == row.mtime = 0 => row = NoRow
RowsStamped == \A s \in Side, n \in Name : Stamped(rows[s][n])
CardsStamped == \A card \in Incoming : Stamped(card.row)
HandStamped == \A h \in hand : Stamped(h.row) /\ (h.sets = "mtime" => h.row.mtime # 0)
AllStamped == RowsStamped /\ CardsStamped /\ HandStamped

RoundsLeft == st \in Running => cycle < MaxRounds
CachedOnce == \A s \in Side : cached[s] = {} \/ \E c \in [Name -> Row] : cached[s] = {c}
HashedOnce == hashing = {} \/ \E c \in [Name -> Row] : hashing = {c}
OneInHand == hand = {} \/ \E h \in Statement : hand = {h}

UVInv == /\ TypeOK /\ RoundsLeft /\ CachedOnce /\ HashedOnce /\ OneInHand
         /\ LatestOfOneTime /\ TablesGood /\ HandGood /\ CardsKnown /\ AllStamped

-----------------------------------------------------------------------------
(* What a status says about the two rows.                                   *)
LEMMA StatusFacts ==
    ASSUME NEW local \in Row, NEW remote \in Row
    PROVE  /\ Status(local, remote) \in 0..5
           /\ Status(local, remote) = 0 <=> local.mtime = 0
           /\ Status(local, remote) < 2 => local.mtime <= remote.mtime
           /\ Status(local, remote) = 2 => remote = [local EXCEPT !.mtime = remote.mtime]
                                           /\ local.mtime < remote.mtime
  <1>0. MaxTime \in Nat /\ MaxHash \in Nat
    BY ConstantsAssumption
  <1>1. /\ local.mtime \in Nat /\ remote.mtime \in Nat
        /\ local.hash \in Nat /\ remote.hash \in Nat
    BY <1>0 DEF Row
  <1>2. CASE local.mtime = 0
    BY <1>1, <1>2 DEF Status
  <1>3. CASE local.mtime # 0 /\ Same(local, remote)
    <2>1. Status(local, remote) =
            IF local.mtime < remote.mtime THEN 2
            ELSE IF local.mtime = remote.mtime THEN 3 ELSE 4
      BY <1>3 DEF Status
    <2>2. local.hash = remote.hash
      BY <1>3 DEF Same
    <2>3. remote = [local EXCEPT !.mtime = remote.mtime]
      BY <2>2 DEF Row
    <2> QED BY <1>1, <1>3, <2>1, <2>3
  <1>4. CASE local.mtime # 0 /\ ~Same(local, remote)
    <2>1. Status(local, remote) = IF RemoteWins(local, remote) THEN 1 ELSE 5
      BY <1>4 DEF Status
    <2>2. RemoteWins(local, remote) => local.mtime <= remote.mtime
      BY <1>1 DEF RemoteWins
    <2> QED BY <1>1, <1>4, <2>1, <2>2
  <1> QED BY <1>2, <1>3, <1>4

LEMMA RowFacts ==
    ASSUME TypeOK
    PROVE  /\ \A s \in Side, n \in Name : rows[s][n] \in Row /\ rows[s][n].mtime \in Nat
           /\ \A n \in Name : \A l \in latest[n] : l \in Row /\ l.mtime \in Nat
           /\ \A row \in Row : row.mtime \in Nat
           /\ NoRow \in Row /\ NoRow.mtime = 0
           /\ \A card \in Card : card.name \in Name /\ card.row \in Row
           /\ Incoming \subseteq Card
           /\ "client" \in Side /\ "server" \in Side
  <1>0. MaxTime \in Nat /\ MaxHash \in Nat
    BY ConstantsAssumption
  <1>1. \A row \in Row : row.mtime \in Nat
    BY <1>0 DEF Row
  <1>2. NoRow \in Row /\ NoRow.mtime = 0
    BY <1>0 DEF NoRow, Row
  <1>3. Incoming \subseteq Card
    BY DEF TypeOK, Incoming
  <1> QED BY <1>1, <1>2, <1>3 DEF TypeOK, Card, Side

LEMMA HandFacts ==
    ASSUME TypeOK, NEW h \in hand
    PROVE  /\ h \in Statement /\ h.side \in Side /\ h.name \in Name /\ h.row \in Row
           /\ h.sets \in {"row", "mtime"} /\ After(h) \in Row
  <1>1. h \in Statement /\ h.side \in Side /\ h.name \in Name /\ h.row \in Row
        /\ h.sets \in {"row", "mtime"}
    BY DEF TypeOK, Statement
  <1>2. rows[h.side][h.name] \in Row /\ NoRow \in Row
    BY <1>1, RowFacts
  <1>3. [rows[h.side][h.name] EXCEPT !.mtime = h.row.mtime] \in Row
    BY <1>1, <1>2 DEF Row
  <1> QED BY <1>1, <1>2, <1>3 DEF After

(* A row is replaced by one that is not older.                              *)
LEMMA Replace ==
    ASSUME TypeOK, NEW n \in Name, NEW c \in Row, NEW s \in Row, NEW row \in Row,
           Good(n, c, s), Known(n, row)
    PROVE  /\ c.mtime <= row.mtime => Good(n, row, s)
           /\ s.mtime <= row.mtime => Good(n, c, row)
  <1>1. /\ c.mtime \in Nat /\ s.mtime \in Nat /\ row.mtime \in Nat
        /\ \A l \in latest[n] : l.mtime \in Nat
        /\ \A card \in response.igots : card.row.mtime \in Nat
    BY RowFacts DEF TypeOK, Card
  <1>2. ASSUME NEW r \in {c, s}, r \in latest[n], r.mtime <= row.mtime
        PROVE  row \in latest[n]
    BY <1>1, <1>2 DEF Known
  <1> QED BY <1>1, <1>2 DEF Good

(* A row of the client is deleted while the server has one not older.       *)
LEMMA Drop ==
    ASSUME TypeOK, LatestOfOneTime, NEW n \in Name, NEW c \in Row, NEW s \in Row,
           Good(n, c, s), Stamped(s), c.mtime <= s.mtime
    PROVE  Good(n, NoRow, s)
  <1>1. /\ c.mtime \in Nat /\ s.mtime \in Nat /\ NoRow.mtime = 0
        /\ \A l \in latest[n] : l.mtime \in Nat
    BY RowFacts
  <1>2. s \in latest[n]
    BY <1>1 DEF Good, Known
  <1>3. Known(n, NoRow)
    <2> SUFFICES ASSUME NEW l \in latest[n], l.mtime = 0 PROVE NoRow \in latest[n]
      BY <1>1 DEF Known
    <2>1. s.mtime = 0
      BY <1>2 DEF LatestOfOneTime
    <2> QED BY <1>2, <2>1 DEF Stamped
  <1> QED BY <1>2, <1>3 DEF Good

LEMMA AtMostOne ==
    ASSUME NEW S, NEW T, S = {} \/ \E x \in T : S = {x}
    PROVE  Cardinality(S) <= 1 /\ S \subseteq T
  <1>1. CASE S = {} BY <1>1, FS_EmptySet
  <1>2. CASE \E x \in T : S = {x}
    <2>1. PICK x \in T : S = {x} BY <1>2
    <2>2. Cardinality({x}) = 1 BY FS_Singleton
    <2> QED BY <2>1, <2>2
  <1> QED BY <1>1, <1>2

(* What a statement in hand will do to a row that is not edited meanwhile.  *)
LEMMA StatementFacts ==
    ASSUME TypeOK, NEW s \in Side, NEW card \in Card, NEW row \in Row,
           NEW sets \in {"row", "mtime"}
    PROVE  LET h == StatementFor(s, card, row, sets) IN
           /\ h \in Statement
           /\ h.side = s /\ h.name = card.name /\ h.row = row /\ h.sets = sets
           /\ sets = "row" => After(h) = row
           /\ sets = "mtime" /\ rows[s][card.name] # NoRow =>
                 After(h) = [rows[s][card.name] EXCEPT !.mtime = row.mtime]
  <1> DEFINE fresh == rows[s][card.name] = NoRow
  <1>1. fresh \in BOOLEAN /\ card.name \in Name
    BY RowFacts
  <1> HIDE DEF fresh
  <1>2. StatementFor(s, card, row, sets) =
          [side |-> s, name |-> card.name, row |-> row, sets |-> sets, fresh |-> fresh]
    BY DEF StatementFor, fresh
  <1> QED BY <1>1, <1>2 DEF Statement, After

(* A received file is taken if it wins.                                     *)
LEMMA TakesGood ==
    ASSUME UVInv, NEW s \in Side, NEW card \in Incoming
    PROVE  /\ Takes(s, card) = {} \/ \E h \in Statement : Takes(s, card) = {h}
           /\ \A h \in Takes(s, card) :
                 /\ Stamped(h.row) /\ h.sets = "row"
                 /\ h.name \notin raced =>
                       /\ h.side = "client" => Good(h.name, After(h), rows["server"][h.name])
                       /\ h.side = "server" => Good(h.name, rows["client"][h.name], After(h))
  <1>1. TypeOK /\ TablesGood /\ CardsKnown /\ AllStamped
    BY DEF UVInv
  <1>2. card \in Card /\ card.name \in Name /\ card.row \in Row /\ rows[s][card.name] \in Row
        /\ rows["client"][card.name] \in Row /\ rows["server"][card.name] \in Row
    BY <1>1, RowFacts
  <1> DEFINE h == StatementFor(s, card, card.row, "row")
  <1>3. h \in Statement /\ h.side = s /\ h.name = card.name /\ h.row = card.row /\ h.sets = "row"
        /\ After(h) = card.row
    BY <1>1, <1>2, StatementFacts
  <1> HIDE DEF h
  <1>4. \/ Takes(s, card) = {}
        \/ Takes(s, card) = {h} /\ Accepts(rows[s][card.name], card.row)
    BY DEF Takes, h
  <1>5. Stamped(card.row)
    BY <1>1 DEF AllStamped, CardsStamped
  <1>6. ASSUME Accepts(rows[s][card.name], card.row), card.name \notin raced
        PROVE  /\ s = "client" => Good(card.name, card.row, rows["server"][card.name])
               /\ s = "server" => Good(card.name, rows["client"][card.name], card.row)
    <2>1. rows[s][card.name].mtime <= card.row.mtime
      BY <1>2, <1>6, StatusFacts DEF Accepts
    <2>2. Good(card.name, rows["client"][card.name], rows["server"][card.name])
          /\ Known(card.name, card.row)
      BY <1>1, <1>2, <1>6 DEF TablesGood, CardsKnown
    <2> QED BY <1>1, <1>2, <2>1, <2>2, Replace
  <1> QED BY <1>3, <1>4, <1>5, <1>6

(* A uvigot card: the client's row is to be replaced, or deleted in favour  *)
(* of one that the server still has.                                        *)
LEMMA IGotGood ==
    ASSUME UVInv, NEW card \in response.igots, NEW status,
           status = Status(rows["client"][card.name], card.row)
    PROVE  /\ IGotTakes(card, status) = {} \/ \E h \in Statement : IGotTakes(card, status) = {h}
           /\ \A h \in IGotTakes(card, status) :
                 /\ Stamped(h.row) /\ (h.sets = "mtime" => h.row.mtime # 0)
                 /\ h.side = "client"
                 /\ h.name \notin raced => Good(h.name, After(h), rows["server"][h.name])
  <1> DEFINE n == card.name
             local == rows["client"][n]
             remote == rows["server"][n]
             drop == StatementFor("client", card, NoRow, "row")
             put == StatementFor("client", card, card.row, "row")
             touch == StatementFor("client", card, card.row, "mtime")
  <1>1. TypeOK /\ TablesGood /\ CardsKnown /\ AllStamped /\ LatestOfOneTime
    BY DEF UVInv
  <1>2. card \in Card /\ n \in Name /\ card.row \in Row /\ local \in Row /\ remote \in Row
        /\ card \in Incoming /\ NoRow \in Row /\ "client" \in Side /\ NoRow.mtime = 0
    BY <1>1, RowFacts DEF Incoming
  <1>3. /\ status \in 0..5
        /\ status = 0 <=> local.mtime = 0
        /\ status < 2 => local.mtime <= card.row.mtime
        /\ status = 2 => card.row = [local EXCEPT !.mtime = card.row.mtime]
                         /\ local.mtime < card.row.mtime
    BY <1>2, StatusFacts
  <1>4. /\ drop \in Statement /\ drop.side = "client" /\ drop.name = n /\ drop.row = NoRow
        /\ drop.sets = "row" /\ After(drop) = NoRow
        /\ put \in Statement /\ put.side = "client" /\ put.name = n /\ put.row = card.row
        /\ put.sets = "row" /\ After(put) = card.row
        /\ touch \in Statement /\ touch.side = "client" /\ touch.name = n
        /\ touch.row = card.row /\ touch.sets = "mtime"
        /\ local # NoRow => After(touch) = [local EXCEPT !.mtime = card.row.mtime]
    BY <1>1, <1>2, StatementFacts
  <1> HIDE DEF drop, put, touch
  <1>5. /\ local.mtime \in Nat /\ remote.mtime \in Nat /\ card.row.mtime \in Nat
        /\ Stamped(card.row) /\ Stamped(remote) /\ Stamped(NoRow)
    BY <1>1, <1>2, RowFacts DEF AllStamped, RowsStamped, CardsStamped, HandStamped, Stamped
  <1>6. n \notin raced => /\ Good(n, local, remote) /\ Known(n, card.row)
                         /\ card.row.mtime <= remote.mtime
    BY <1>1, <1>2 DEF TablesGood, CardsKnown, Good
  <1>7. CASE status \in {0, 1} /\ card.row.hash # 0
    <2>1. IGotTakes(card, status) = {drop}
      BY <1>7 DEF IGotTakes, drop
    <2>2. n \notin raced => Good(n, NoRow, remote)
      <3> SUFFICES ASSUME n \notin raced PROVE Good(n, NoRow, remote)
        OBVIOUS
      <3>1. local.mtime <= remote.mtime
        BY <1>3, <1>5, <1>6, <1>7
      <3> QED BY <1>1, <1>2, <1>5, <1>6, <3>1, Drop
    <2> QED BY <1>4, <1>5, <2>1, <2>2
  <1>8. CASE status = 1 /\ card.row.hash = 0
    <2>1. IGotTakes(card, status) = {put}
      BY <1>8 DEF IGotTakes, put
    <2>2. n \notin raced => Good(n, card.row, remote)
      BY <1>1, <1>2, <1>3, <1>6, <1>8, Replace
    <2> QED BY <1>4, <1>5, <2>1, <2>2
  <1>9. CASE status = 2
    <2>1. IGotTakes(card, status) = {touch}
      BY <1>9 DEF IGotTakes, touch
    <2>2. After(touch) = card.row /\ card.row.mtime # 0
      BY <1>2, <1>3, <1>4, <1>5, <1>9
    <2>3. n \notin raced => Good(n, card.row, remote)
      <3>1. local.mtime <= card.row.mtime
        BY <1>3, <1>5, <1>9
      <3> QED BY <1>1, <1>2, <1>6, <3>1, Replace
    <2> QED BY <1>4, <1>5, <2>1, <2>2, <2>3
  <1>10. CASE ~(status \in {0, 1} /\ card.row.hash # 0) /\ ~(status = 1 /\ card.row.hash = 0)
              /\ status # 2
    BY <1>10 DEF IGotTakes
  <1> QED BY <1>7, <1>8, <1>9, <1>10

-----------------------------------------------------------------------------
(* The tables stay: cards are of rows that are known or in a table, and a   *)
(* statement that is taken in hand goes with them.                          *)
LEMMA TablesStay ==
    ASSUME UVInv, UNCHANGED <<rows, latest, now, raced>>, OneInHand',
           \A card \in Incoming' : \/ card \in Incoming
                                   \/ /\ card \in Card
                                      /\ \E t \in Side : card.row = rows[t][card.name],
           \A card \in response'.igots : \/ card \in response.igots
                                         \/ hand' = {} /\ card.row = rows["server"][card.name],
           \A h \in hand' :
               /\ Stamped(h.row) /\ (h.sets = "mtime" => h.row.mtime # 0)
               /\ h.name \notin raced =>
                     /\ h.side = "client" => Good(h.name, After(h), rows["server"][h.name])
                     /\ h.side = "server" => Good(h.name, rows["client"][h.name], After(h))
    PROVE  /\ LatestOfOneTime' /\ TablesGood' /\ HandGood' /\ CardsKnown' /\ AllStamped'
           /\ hand' \subseteq Statement /\ Cardinality(hand') <= 1
  <1>1. TypeOK /\ LatestOfOneTime /\ TablesGood /\ CardsKnown /\ AllStamped
    BY DEF UVInv
  <1>2. \A n, r : Known(n, r) => Known(n, r)'
    BY DEF Known
  <1>3. ASSUME NEW n, NEW c, NEW d, Good(n, c, d),
               \A card \in response'.igots : card.name = n =>
                    card \in response.igots \/ card.row.mtime <= d.mtime
        PROVE  Good(n, c, d)'
    BY <1>2, <1>3 DEF Good
  <1>4. TablesGood'
    <2> SUFFICES ASSUME NEW n \in Name, n \notin raced
                 PROVE  Good(n, rows["client"][n], rows["server"][n])'
      BY DEF TablesGood
    <2>1. Good(n, rows["client"][n], rows["server"][n]) /\ rows["server"][n].mtime \in Nat
      BY <1>1, RowFacts DEF TablesGood
    <2>2. rows["server"][n].mtime <= rows["server"][n].mtime
      BY <2>1
    <2> QED BY <1>3, <2>1, <2>2
  <1>5. HandGood'
    <2> SUFFICES ASSUME NEW h \in hand', h.name \notin raced
                 PROVE  /\ h.side = "client" => Good(h.name, After(h), rows["server"][h.name])'
                        /\ h.side = "server" => Good(h.name, rows["client"][h.name], After(h))'
      BY DEF HandGood
    <2>1. After(h)' = After(h)
      BY DEF After
    <2>2. \A card \in response'.igots : card \in response.igots
      OBVIOUS
    <2> QED BY <1>3, <2>1, <2>2
  <1>6. CardsKnown'
    <2> SUFFICES ASSUME NEW card \in Incoming', card.name \notin raced
                 PROVE  Known(card.name, card.row)'
      BY DEF CardsKnown
    <2>1. CASE card \in Incoming
      BY <1>1, <1>2, <2>1 DEF CardsKnown
    <2>2. CASE card \in Card /\ \E t \in Side : card.row = rows[t][card.name]
      <3>1. card.name \in Name /\ card.row \in {rows["client"][card.name], rows["server"][card.name]}
        BY <1>1, <2>2, RowFacts DEF Side
      <3>2. Good(card.name, rows["client"][card.name], rows["server"][card.name])
        BY <1>1, <3>1 DEF TablesGood
      <3>3. Known(card.name, card.row)
        BY <3>1, <3>2 DEF Good
      <3> QED BY <1>2, <3>3
    <2> QED BY <2>1, <2>2
  <1>7. AllStamped'
    <2>1. CardsStamped'
      <3> SUFFICES ASSUME NEW card \in Incoming' PROVE Stamped(card.row)
        BY DEF CardsStamped
      <3>1. CASE card \in Incoming
        BY <1>1, <3>1 DEF AllStamped, CardsStamped
      <3>2. CASE card \in Card /\ \E t \in Side : card.row = rows[t][card.name]
        BY <1>1, <3>2, RowFacts DEF AllStamped, RowsStamped
      <3> QED BY <3>1, <3>2
    <2>2. RowsStamped' /\ HandStamped'
      BY <1>1 DEF AllStamped, RowsStamped, HandStamped
    <2> QED BY <2>1, <2>2 DEF AllStamped
  <1>8. hand' \subseteq Statement /\ Cardinality(hand') <= 1
    BY AtMostOne DEF OneInHand
  <1>9. LatestOfOneTime'
    BY <1>1 DEF LatestOfOneTime
  <1> QED BY <1>4, <1>5, <1>6, <1>7, <1>8, <1>9

(* The messages only lose cards, and the hand stays or is emptied.          *)
LEMMA Quieter ==
    ASSUME UVInv, UNCHANGED <<rows, latest, now, raced>>, hand' \in {hand, {}},
           Incoming' \subseteq Incoming, response'.igots \subseteq response.igots
    PROVE  /\ LatestOfOneTime' /\ TablesGood' /\ HandGood' /\ CardsKnown' /\ AllStamped'
           /\ hand' \subseteq Statement /\ Cardinality(hand') <= 1 /\ OneInHand'
  <1>1. HandGood /\ AllStamped /\ OneInHand
    BY DEF UVInv
  <1>2. OneInHand'
    BY <1>1 DEF OneInHand
  <1>3. \A h \in hand' :
               /\ Stamped(h.row) /\ (h.sets = "mtime" => h.row.mtime # 0)
               /\ h.name \notin raced =>
                     /\ h.side = "client" => Good(h.name, After(h), rows["server"][h.name])
                     /\ h.side = "server" => Good(h.name, rows["client"][h.name], After(h))
    BY <1>1 DEF HandGood, AllStamped, HandStamped
  <1> QED BY <1>2, <1>3, TablesStay

(* The statement in hand is executed.                                       *)
LEMMA Executed ==
    ASSUME UVInv, NEW h \in hand, rows' = [rows EXCEPT ![h.side][h.name] = After(h)],
           hand' = {}, UNCHANGED <<latest, now, raced>>,
           Incoming' \subseteq Incoming, response'.igots \subseteq response.igots
    PROVE  /\ rows' \in [Side -> [Name -> Row]]
           /\ LatestOfOneTime' /\ TablesGood' /\ HandGood' /\ CardsKnown' /\ AllStamped'
           /\ hand' \subseteq Statement /\ Cardinality(hand') <= 1 /\ OneInHand'
  <1>1. /\ TypeOK /\ LatestOfOneTime /\ TablesGood /\ HandGood /\ CardsKnown /\ AllStamped
    BY DEF UVInv
  <1>2. /\ h.side \in Side /\ h.name \in Name /\ After(h) \in Row /\ h.sets \in {"row", "mtime"}
        /\ h.row \in Row
    BY <1>1, HandFacts
  <1>3. /\ rows' \in [Side -> [Name -> Row]]
        /\ \A t \in Side, n \in Name :
              rows'[t][n] = IF t = h.side /\ n = h.name THEN After(h) ELSE rows[t][n]
    BY <1>1, <1>2 DEF TypeOK
  <1>4. \A n, r : Known(n, r) => Known(n, r)'
    BY DEF Known
  <1>5. \A n, c, d : Good(n, c, d) => Good(n, c, d)'
    BY <1>4 DEF Good
  <1>6. TablesGood'
    <2> SUFFICES ASSUME NEW n \in Name, n \notin raced
                 PROVE  Good(n, rows["client"][n], rows["server"][n])'
      BY DEF TablesGood
    <2>1. CASE n # h.name
      <3>1. rows'["client"][n] = rows["client"][n] /\ rows'["server"][n] = rows["server"][n]
        BY <1>3, <2>1 DEF Side
      <3>2. Good(n, rows["client"][n], rows["server"][n])
        BY <1>1 DEF TablesGood
      <3> QED BY <1>5, <3>1, <3>2
    <2>2. CASE n = h.name /\ h.side = "client"
      <3>1. rows'["client"][n] = After(h) /\ rows'["server"][n] = rows["server"][n]
        BY <1>3, <2>2 DEF Side
      <3>2. Good(n, After(h), rows["server"][n])
        BY <1>1, <2>2 DEF HandGood
      <3> QED BY <1>5, <3>1, <3>2
    <2>3. CASE n = h.name /\ h.side = "server"
      <3>1. rows'["server"][n] = After(h) /\ rows'["client"][n] = rows["client"][n]
        BY <1>3, <2>3 DEF Side
      <3>2. Good(n, rows["client"][n], After(h))
        BY <1>1, <2>3 DEF HandGood
      <3> QED BY <1>5, <3>1, <3>2
    <2> QED BY <1>2, <2>1, <2>2, <2>3 DEF Side
  <1>7. CardsKnown'
    BY <1>1, <1>4 DEF CardsKnown
  <1>8. Stamped(After(h))
    <2>1. h.row.mtime # 0 \/ (h.sets = "row" /\ Stamped(h.row))
      BY <1>1, <1>2 DEF AllStamped, HandStamped
    <2>2. rows[h.side][h.name] \in Row
      BY <1>1, <1>2, RowFacts
    <2>3. [rows[h.side][h.name] EXCEPT !.mtime = h.row.mtime].mtime = h.row.mtime
      BY <2>2 DEF Row
    <2> QED BY <1>2, <2>1, <2>3 DEF After, Stamped
  <1>9. AllStamped'
    BY <1>1, <1>3, <1>8 DEF AllStamped, RowsStamped, CardsStamped, HandStamped
  <1>10. HandGood' /\ OneInHand' /\ LatestOfOneTime'
    BY <1>1 DEF HandGood, OneInHand, LatestOfOneTime
  <1>11. hand' \subseteq Statement /\ Cardinality(hand') <= 1
    BY FS_EmptySet
  <1> QED BY <1>3, <1>6, <1>7, <1>9, <1>10, <1>11

(* A local edit is newer than everything, or as new as the latest; one that *)
(* a statement in hand will go over is noted.                               *)
LEMMA EditEffect ==
    ASSUME UVInv, NEW s \in Side, NEW n \in Name, NEW row \in Row, Edited(s, n, row),
           rows' = [rows EXCEPT ![s][n] = row]
    PROVE  /\ rows' \in [Side -> [Name -> Row]]
           /\ latest' \in [Name -> SUBSET Row] /\ now' \in 1..MaxTime /\ raced' \subseteq Name
           /\ LatestOfOneTime' /\ TablesGood' /\ HandGood' /\ CardsKnown' /\ AllStamped'
           /\ OneInHand'
  <1>1. /\ TypeOK /\ LatestOfOneTime /\ TablesGood /\ HandGood /\ CardsKnown /\ AllStamped
        /\ OneInHand
    BY DEF UVInv
  <1>2. /\ row.mtime >= now /\ now' = row.mtime
        /\ latest' = [latest EXCEPT ![n] = {row} \cup {r \in @ : r.mtime = row.mtime}]
        /\ raced' = IF \E h \in hand : h.side = s /\ h.name = n THEN raced \cup {n} ELSE raced
        /\ UNCHANGED <<request, response, hand>>
    BY DEF Edited, messageVars
  <1>3. now \in 1..MaxTime /\ MaxTime \in Nat /\ row.mtime \in 0..MaxTime
    BY ConstantsAssumption, <1>1 DEF TypeOK, Row
  <1>4. now' \in 1..MaxTime /\ row.mtime # 0
    BY <1>2, <1>3
  <1>5. /\ latest' \in [Name -> SUBSET Row]
        /\ \A m \in Name : latest'[m] = IF m = n
                THEN {row} \cup {r \in latest[n] : r.mtime = row.mtime} ELSE latest[m]
    BY <1>1, <1>2 DEF TypeOK
  <1>6. /\ rows' \in [Side -> [Name -> Row]]
        /\ \A t \in Side, m \in Name :
              rows'[t][m] = IF t = s /\ m = n THEN row ELSE rows[t][m]
    BY <1>1 DEF TypeOK
  <1>7. raced' \subseteq Name /\ raced \subseteq raced'
    BY <1>1, <1>2 DEF TypeOK
  <1>8. \A m \in Name : \A l \in latest[m] : l.mtime \in Nat /\ l.mtime <= now
    BY <1>1, RowFacts DEF LatestOfOneTime
  <1>9. LatestOfOneTime'
    <2> SUFFICES ASSUME NEW m \in Name
                 PROVE  /\ latest'[m] # {}
                        /\ \A l, k \in latest'[m] : l.mtime = k.mtime /\ l.mtime <= now'
      BY DEF LatestOfOneTime
    <2>1. CASE m = n
      BY <1>2, <1>3, <1>5, <2>1
    <2>2. CASE m # n
      <3>1. latest'[m] = latest[m] BY <1>5, <2>2
      <3>2. \A l \in latest[m] : l.mtime <= now'
        BY <1>2, <1>3, <1>8
      <3> QED BY <1>1, <3>1, <3>2 DEF LatestOfOneTime
    <2> QED BY <2>1, <2>2
  <1>10. ASSUME NEW m \in Name, NEW r \in Row, Known(m, r)
         PROVE  Known(m, r)' /\ r.mtime <= now
    <2>1. PICK l \in latest[m] : TRUE
      BY <1>1 DEF LatestOfOneTime
    <2>2. r.mtime \in Nat /\ l.mtime \in Nat /\ r.mtime <= l.mtime
      BY <1>1, <1>10, <2>1, RowFacts DEF Known
    <2>3. r.mtime <= now
      BY <1>3, <1>8, <2>1, <2>2
    <2>4. CASE m # n
      <3>1. latest'[m] = latest[m] BY <1>5, <2>4
      <3> QED BY <1>10, <2>3, <3>1 DEF Known
    <2>5. CASE m = n
      <3>1. r.mtime <= row.mtime
        BY <1>2, <1>3, <2>2, <2>3
      <3>2. r.mtime = row.mtime => r \in latest[n]
        BY <1>2, <1>3, <1>8, <1>10, <2>1, <2>2, <2>3, <2>5 DEF Known
      <3>3. \A k \in latest'[n] : k.mtime = row.mtime
        BY <1>5
      <3> QED BY <1>5, <2>3, <2>5, <3>1, <3>2, <3>3 DEF Known
    <2> QED BY <2>4, <2>5
  <1>11. Known(n, row)' /\ row \in latest'[n]
    <2>1. row \in latest'[n] /\ \A k \in latest'[n] : k.mtime = row.mtime
      BY <1>5
    <2> QED BY <1>3, <2>1 DEF Known
  <1>12. ASSUME NEW m \in Name, NEW c \in Row, NEW d \in Row, Good(m, c, d)
         PROVE  /\ m # n => Good(m, c, d)'
                /\ m = n => Good(n, row, d)' /\ Good(n, c, row)'
    <2>1. Known(m, c)' /\ Known(m, d)' /\ c.mtime <= now /\ d.mtime <= now
      BY <1>10, <1>12 DEF Good
    <2>2. CASE m # n
      <3>1. latest'[m] = latest[m] BY <1>5, <2>2
      <3> QED BY <1>2, <1>12, <2>1, <2>2, <3>1 DEF Good
    <2>3. CASE m = n
      <3>1. \A card \in response.igots : card.row.mtime \in Nat
        BY <1>1, RowFacts DEF TypeOK
      <3>2. d.mtime \in Nat
        BY <1>1, RowFacts
      <3>3. \A card \in response.igots : card.name = n =>
               card.row.mtime <= d.mtime /\ card.row.mtime <= row.mtime
        BY <1>2, <1>3, <1>12, <2>1, <2>3, <3>1, <3>2 DEF Good
      <3> QED BY <1>2, <1>11, <2>1, <2>3, <3>3 DEF Good
    <2> QED BY <2>2, <2>3
  <1>13. TablesGood'
    <2> SUFFICES ASSUME NEW m \in Name, m \notin raced'
                 PROVE  Good(m, rows["client"][m], rows["server"][m])'
      BY DEF TablesGood
    <2>1. /\ Good(m, rows["client"][m], rows["server"][m])
          /\ rows["client"][m] \in Row /\ rows["server"][m] \in Row
      BY <1>1, <1>7, RowFacts DEF TablesGood
    <2>2. CASE m # n
      <3>1. rows'["client"][m] = rows["client"][m] /\ rows'["server"][m] = rows["server"][m]
        BY <1>6, <2>2 DEF Side
      <3> QED BY <1>12, <2>1, <2>2, <3>1
    <2>3. CASE m = n /\ s = "client"
      <3>1. rows'["client"][m] = row /\ rows'["server"][m] = rows["server"][m]
        BY <1>6, <2>3 DEF Side
      <3> QED BY <1>12, <2>1, <2>3, <3>1
    <2>4. CASE m = n /\ s = "server"
      <3>1. rows'["server"][m] = row /\ rows'["client"][m] = rows["client"][m]
        BY <1>6, <2>4 DEF Side
      <3> QED BY <1>12, <2>1, <2>4, <3>1
    <2> QED BY <2>2, <2>3, <2>4 DEF Side
  <1>14. HandGood'
    <2> SUFFICES ASSUME NEW h \in hand, h.name \notin raced'
                 PROVE  /\ h.side = "client" => Good(h.name, After(h), rows["server"][h.name])'
                        /\ h.side = "server" => Good(h.name, rows["client"][h.name], After(h))'
      BY <1>2 DEF HandGood
    <2>1. /\ h.side \in Side /\ h.name \in Name /\ After(h) \in Row
          /\ rows["client"][h.name] \in Row /\ rows["server"][h.name] \in Row
      BY <1>1, HandFacts, RowFacts
    <2>2. /\ h.side = "client" => Good(h.name, After(h), rows["server"][h.name])
          /\ h.side = "server" => Good(h.name, rows["client"][h.name], After(h))
      BY <1>1, <1>7 DEF HandGood
    <2>3. ~(h.side = s /\ h.name = n)
      BY <1>2
    <2>4. rows'[h.side][h.name] = rows[h.side][h.name]
      BY <1>6, <2>1, <2>3
    <2>5. After(h)' = After(h)
      BY <2>4 DEF After
    <2>6. CASE h.name # n
      <3>1. /\ rows'["client"][h.name] = rows["client"][h.name]
            /\ rows'["server"][h.name] = rows["server"][h.name]
        BY <1>6, <2>1, <2>6 DEF Side
      <3> QED BY <1>12, <2>1, <2>2, <2>5, <2>6, <3>1
    <2>7. CASE h.name = n /\ h.side = "client"
      <3>1. rows'["server"][n] = row
        BY <1>6, <2>3, <2>7 DEF Side
      <3> QED BY <1>12, <2>1, <2>2, <2>5, <2>7, <3>1
    <2>8. CASE h.name = n /\ h.side = "server"
      <3>1. rows'["client"][n] = row
        BY <1>6, <2>3, <2>8 DEF Side
      <3> QED BY <1>12, <2>1, <2>2, <2>5, <2>8, <3>1
    <2> QED BY <2>1, <2>6, <2>7, <2>8 DEF Side
  <1>15. Incoming' = Incoming
    BY <1>2 DEF Incoming
  <1>16. CardsKnown'
    <2> SUFFICES ASSUME NEW card \in Incoming, card.name \notin raced
                 PROVE  Known(card.name, card.row)'
      BY <1>7, <1>15 DEF CardsKnown
    <2>1. card.name \in Name /\ card.row \in Row /\ Known(card.name, card.row)
      BY <1>1, RowFacts DEF CardsKnown
    <2> QED BY <1>10, <2>1
  <1>17. AllStamped'
    <2>1. Stamped(row)
      BY <1>4 DEF Stamped
    <2> QED BY <1>1, <1>2, <1>6, <1>15, <2>1
        DEF AllStamped, RowsStamped, CardsStamped, HandStamped
  <1>18. OneInHand'
    BY <1>1, <1>2 DEF OneInHand
  <1> QED BY <1>4, <1>5, <1>6, <1>7, <1>9, <1>13, <1>14, <1>16, <1>17, <1>18

-----------------------------------------------------------------------------
Requests == [hash: SUBSET [Name -> Row], gimmes: SUBSET Name, files: SUBSET Card]
Responses == [pushOK: BOOLEAN, igots: SUBSET Card, files: SUBSET Card]

SessionTyped ==
    /\ st \in Ended \cup {"ready", "serving", "receiving"}
    /\ pushOK \in BOOLEAN /\ cycle \in 0..MaxRounds
    /\ uvToSend \in [Name -> {"no", "mtime", "full"}] /\ uvGimmes \subseteq Name
    /\ {uvHashSent, uvPushOK, gimmeSent, fileRcvd, calm} \subseteq BOOLEAN
MessagesTyped == request \in Requests /\ response \in Responses
TablesTyped ==
    /\ rows \in [Side -> [Name -> Row]] /\ latest \in [Name -> SUBSET Row]
    /\ now \in 1..MaxTime /\ writes \in 0..MaxWrites /\ failures \in 0..MaxFailures
    /\ raced \subseteq Name /\ misled \subseteq Side
StoresTyped ==
    /\ cached \in [Side -> SUBSET [Name -> Row]]
    /\ CachedOnce /\ HashedOnce /\ OneInHand

LEMMA Types ==
    SessionTyped /\ MessagesTyped /\ TablesTyped /\ StoresTyped <=>
    TypeOK /\ CachedOnce /\ HashedOnce /\ OneInHand
  <1>1. ASSUME StoresTyped
        PROVE  /\ \A s \in Side : Cardinality(cached[s]) <= 1
               /\ hand \subseteq Statement /\ Cardinality(hand) <= 1
               /\ hashing \subseteq [Name -> Row] /\ Cardinality(hashing) <= 1
    <2>1. \A s \in Side : Cardinality(cached[s]) <= 1
      BY <1>1, AtMostOne DEF StoresTyped, CachedOnce
    <2> QED BY <1>1, <2>1, AtMostOne DEF StoresTyped, HashedOnce, OneInHand
  <1>2. SessionTyped /\ MessagesTyped /\ TablesTyped /\ StoresTyped => TypeOK
    BY <1>1 DEF TypeOK, SessionTyped, MessagesTyped, TablesTyped, StoresTyped, Requests, Responses
  <1>3. TypeOK /\ CachedOnce /\ HashedOnce /\ OneInHand =>
        SessionTyped /\ MessagesTyped /\ TablesTyped /\ StoresTyped
    BY DEF TypeOK, SessionTyped, MessagesTyped, TablesTyped, StoresTyped, Requests, Responses
  <1> QED BY <1>2, <1>3 DEF StoresTyped

(* A catalog hash that is computed, or found in config.                     *)
LEMMA HashFacts ==
    ASSUME TypeOK, StoresTyped, NEW s \in Side
    PROVE  /\ Catalog(s) \in [Name -> Row]
           /\ Hashed(s) => \E c \in [Name -> Row] : ContentHash(s) = {c}
           /\ Hashed(s) /\ Caches(s) =>
                 /\ cached' \in [Side -> SUBSET [Name -> Row]] /\ CachedOnce'
                 /\ hashing' = {} /\ misled' \subseteq Side
  <1>1. Catalog(s) \in [Name -> Row]
    BY RowFacts DEF Catalog
  <1>2. Hashed(s) => \E c \in [Name -> Row] : ContentHash(s) = {c}
    BY DEF StoresTyped, Hashed, ContentHash, CachedOnce, HashedOnce
  <1>3. Caches(s) => hashing' = {} /\ misled' \subseteq Side
    BY DEF Caches, TypeOK
  <1>4. Hashed(s) /\ Caches(s) => /\ cached' \in [Side -> SUBSET [Name -> Row]] /\ CachedOnce'
    BY <1>2 DEF Caches, StoresTyped, CachedOnce
  <1> QED BY <1>1, <1>2, <1>3, <1>4

(* The cached hash after a row is written, with InvalidateHash or without.  *)
LEMMA PutFacts ==
    ASSUME TypeOK, StoresTyped, NEW s \in Side, NEW n, NEW row,
           PutRow(s, n, row) \/ TearRow(s, n, row)
    PROVE  /\ cached' \in [Side -> SUBSET [Name -> Row]] /\ CachedOnce'
           /\ misled' \subseteq Side /\ rows' = [rows EXCEPT ![s][n] = row]
  <1>1. CASE PutRow(s, n, row)
    BY <1>1 DEF PutRow, TypeOK, StoresTyped, CachedOnce
  <1>2. CASE TearRow(s, n, row)
    BY <1>2 DEF TearRow, TypeOK, StoresTyped, CachedOnce
  <1> QED BY <1>1, <1>2

LEMMA InitUV == Init => UVInv
  <1> SUFFICES ASSUME Init PROVE UVInv
    OBVIOUS
  <1> USE ConstantsAssumption
  <1>1. rows \in [Side -> [Name -> Row]] /\ "client" \in Side /\ "server" \in Side
    BY DEF Init, Side
  <1>2. latest \in [Name -> SUBSET Row]
    BY <1>1 DEF Init
  <1>3. StoresTyped
    BY DEF Init, StoresTyped, CachedOnce, HashedOnce, OneInHand
  <1>4. TypeOK
    <2>1. MessagesTyped
      BY DEF Init, NoRequest, NoResponse, MessagesTyped, Requests, Responses
    <2>2. TablesTyped
      BY <1>1, <1>2 DEF Init, TablesTyped
    <2>3. uvToSend \in [Name -> {"no", "mtime", "full"}] /\ uvGimmes \subseteq Name
      BY DEF Init
    <2>4. pushOK \in BOOLEAN /\ {uvHashSent, uvPushOK, gimmeSent, fileRcvd, calm} \subseteq BOOLEAN
      BY DEF Init
    <2>5. st \in Ended /\ cycle \in 0..MaxRounds
      BY DEF Init, Ended
    <2>6. SessionTyped
      BY <2>3, <2>4, <2>5 DEF SessionTyped
    <2> QED BY <1>3, <2>1, <2>2, <2>6, Types
  <1>5. \A s \in Side, n \in Name : rows[s][n].mtime \in Nat
    BY <1>4, RowFacts
  <1>6. \A n \in Name : \E s \in Side : rows[s][n] \in latest[n]
    <2> SUFFICES ASSUME NEW n \in Name PROVE \E s \in Side : rows[s][n] \in latest[n]
      OBVIOUS
    <2>1. latest[n] = {r \in {rows[s][n] : s \in Side} :
                         \A s \in Side : rows[s][n].mtime <= r.mtime}
      BY DEF Init
    <2>2. CASE rows["client"][n].mtime <= rows["server"][n].mtime
      BY <1>1, <1>5, <2>1, <2>2 DEF Side
    <2>3. CASE rows["server"][n].mtime <= rows["client"][n].mtime
      BY <1>1, <1>5, <2>1, <2>3 DEF Side
    <2> QED BY <1>1, <1>5, <2>2, <2>3
  <1>7. \A n \in Name : \A l \in latest[n] :
          /\ \E s \in Side : l = rows[s][n]
          /\ \A s \in Side : rows[s][n].mtime <= l.mtime
    BY DEF Init
  <1>8. LatestOfOneTime
    <2> SUFFICES ASSUME NEW n \in Name, NEW l \in latest[n], NEW m \in latest[n]
                 PROVE  l.mtime = m.mtime /\ l.mtime <= now
      BY <1>6 DEF LatestOfOneTime
    <2>1. l.mtime <= m.mtime /\ m.mtime <= l.mtime
      BY <1>7
    <2>2. l.mtime \in Nat /\ m.mtime \in Nat
      BY <1>4, RowFacts
    <2>3. l.mtime <= now
      BY <1>7 DEF Init
    <2> QED BY <2>1, <2>2, <2>3
  <1>9. \A s \in Side, n \in Name : Known(n, rows[s][n])
    <2> SUFFICES ASSUME NEW s \in Side, NEW n \in Name PROVE Known(n, rows[s][n])
      OBVIOUS
    <2>1. ASSUME NEW l \in latest[n], rows[s][n].mtime = l.mtime PROVE rows[s][n] \in latest[n]
      BY <1>7, <2>1 DEF Init
    <2> QED BY <1>7, <2>1 DEF Known
  <1>10. TablesGood
    <2>1. response.igots = {}
      BY DEF Init, NoResponse
    <2>2. \A n \in Name : rows["client"][n] \in latest[n] \/ rows["server"][n] \in latest[n]
      BY <1>6 DEF Side
    <2> QED BY <1>1, <1>9, <2>1, <2>2 DEF TablesGood, Good
  <1>11. Incoming = {} /\ hand = {}
    BY DEF Init, Incoming, NoRequest, NoResponse
  <1>12. RowsStamped
    <2>1. rows = InitRows
      BY DEF Init
    <2> QED BY <2>1 DEF RowsStamped, Stamped
  <1>13. CardsKnown /\ HandGood /\ AllStamped /\ RoundsLeft
    <2>1. CardsKnown /\ HandGood /\ CardsStamped /\ HandStamped
      BY <1>11 DEF CardsKnown, HandGood, CardsStamped, HandStamped
    <2>2. RoundsLeft
      BY DEF Init, RoundsLeft, Running
    <2> QED BY <1>12, <2>1, <2>2 DEF AllStamped
  <1> QED BY <1>3, <1>4, <1>8, <1>10, <1>13 DEF UVInv, StoresTyped

LEMMA NextUV ==
    ASSUME UVInv, [Next]_vars
    PROVE  UVInv'
  <1> USE DEF clientVars, boundVars, observerVars
  <1>0. /\ TypeOK /\ RoundsLeft /\ CachedOnce /\ HashedOnce /\ OneInHand
        /\ LatestOfOneTime /\ TablesGood /\ HandGood /\ CardsKnown /\ AllStamped
    BY DEF UVInv
  <1>T. SessionTyped /\ MessagesTyped /\ TablesTyped /\ StoresTyped
    BY <1>0, Types
  <1>R. request \in Requests /\ response \in Responses
    BY <1>T DEF MessagesTyped
  <1>S. (SessionTyped /\ MessagesTyped /\ TablesTyped /\ StoresTyped <=>
         TypeOK /\ CachedOnce /\ HashedOnce /\ OneInHand)'
    BY Types, PTL
  <1> DEFINE AllGood == LatestOfOneTime /\ TablesGood /\ HandGood /\ CardsKnown /\ AllStamped
  <1>Q. SessionTyped' /\ MessagesTyped' /\ TablesTyped' /\ StoresTyped' /\ RoundsLeft' /\ AllGood'
        => UVInv'
    BY <1>S DEF UVInv
  <1>P. UNCHANGED <<rows, latest, now, writes, failures, raced, misled>> => TablesTyped'
    BY <1>T DEF TablesTyped
  <1>H. UNCHANGED <<cached, hashing>> /\ OneInHand' => StoresTyped'
    BY <1>T DEF StoresTyped, CachedOnce, HashedOnce
  <1>1. ASSUME NEW s \in Side, NEW n \in Name, NEW row \in Row,
               Edit(s, n, row) \/ EditStops(s, n, row)
        PROVE  UVInv'
    <2>1. /\ Edited(s, n, row) /\ (PutRow(s, n, row) \/ TearRow(s, n, row))
          /\ failures' = failures \/ (failures < MaxFailures /\ failures' = failures + 1)
      BY <1>1 DEF Edit, EditRow, EditStops
    <2>2. /\ UNCHANGED <<st, pushOK, cycle, clientVars, messageVars>> /\ calm' = FALSE
          /\ writes < MaxWrites /\ writes' = writes + 1
      BY <2>1 DEF Edited
    <2>3. /\ cached' \in [Side -> SUBSET [Name -> Row]] /\ CachedOnce'
          /\ misled' \subseteq Side /\ rows' = [rows EXCEPT ![s][n] = row]
      BY <1>0, <1>T, <2>1, PutFacts
    <2>4. writes' \in 0..MaxWrites /\ failures' \in 0..MaxFailures
      BY <1>T, <2>1, <2>2, ConstantsAssumption DEF TablesTyped
    <2>5. TablesTyped' /\ AllGood' /\ OneInHand'
      BY <2>1, <2>3, <2>4, EditEffect DEF TablesTyped
    <2>6. SessionTyped' /\ MessagesTyped' /\ RoundsLeft'
      BY <1>0, <1>T, <2>2 DEF SessionTyped, MessagesTyped, RoundsLeft, messageVars
    <2>7. StoresTyped'
      BY <1>T, <2>2, <2>3, <2>5 DEF StoresTyped, HashedOnce, messageVars
    <2> QED BY <1>Q, <2>5, <2>6, <2>7
  <1>2. ASSUME NEW granted \in Grants, StartWith(granted) PROVE UVInv'
    <2>1. /\ UNCHANGED <<rows, cached, misled, now, writes, failures, latest, raced>>
          /\ request' = NoRequest /\ response' = NoResponse /\ hand' = {} /\ hashing' = {}
      BY <1>2 DEF StartWith
    <2>2. request' \in Requests /\ response' \in Responses /\ Incoming' = {}
          /\ response'.igots = {}
      BY <2>1 DEF NoRequest, NoResponse, Requests, Responses, Incoming
    <2>3. /\ pushOK' \in BOOLEAN /\ cycle' \in 0..MaxRounds /\ st' = "ready"
      BY <1>2, ConstantsAssumption DEF StartWith
    <2>4. uvToSend' \in [Name -> {"no", "mtime", "full"}] /\ uvGimmes' \subseteq Name
      BY <1>2 DEF StartWith
    <2>5. {uvHashSent', uvPushOK', gimmeSent', fileRcvd', calm'} \subseteq BOOLEAN
      BY <1>2 DEF StartWith
    <2>6. SessionTyped' /\ MessagesTyped'
      BY <2>2, <2>3, <2>4, <2>5 DEF SessionTyped, MessagesTyped
    <2>7. AllGood' /\ OneInHand'
      BY <2>1, <2>2, Quieter
    <2>8. RoundsLeft'
      BY <1>2, ConstantsAssumption DEF StartWith, RoundsLeft
    <2>9. StoresTyped'
      BY <1>T, <2>1, <2>7 DEF StoresTyped, CachedOnce, HashedOnce
    <2> QED BY <1>P, <1>Q, <2>1, <2>6, <2>7, <2>8, <2>9
  <1>3. CASE BuildRequest
    <2>1. UNCHANGED <<rows, pushOK, cycle, uvPushOK, fileRcvd, response, hand, boundVars,
                      observerVars>>
          /\ st = "ready" /\ st' = "serving"
      BY <1>3 DEF BuildRequest
    <2>2. PICK visited \in SUBSET Queued :
            /\ request' = [hash |-> IF uvHashSent THEN {} ELSE ContentHash("client"),
                           gimmes |-> uvGimmes,
                           files |-> {CardFor("client", n, SendsContent(n)) : n \in visited}]
            /\ uvToSend' = [n \in Name |-> IF n \in visited THEN "no" ELSE uvToSend[n]]
      BY <1>3 DEF BuildRequest
    <2>3. /\ ~uvHashSent => Hashed("client") /\ Caches("client")
          /\ uvHashSent => UNCHANGED <<cached, misled, hashing>>
      BY <1>3 DEF BuildRequest
    <2>4. ~uvHashSent => ContentHash("client") \subseteq [Name -> Row]
      <3>1. ~uvHashSent => \E c \in [Name -> Row] : ContentHash("client") = {c}
        BY <1>0, <1>T, <2>3, HashFacts DEF Side
      <3> QED BY <3>1
    <2>5. ASSUME NEW card \in request'.files
          PROVE  card \in Card /\ card.name \in Name /\ card.row = rows["client"][card.name]
      <3>1. PICK n \in Name : card = CardFor("client", n, SendsContent(n))
        BY <2>2, <2>5 DEF Queued
      <3>2. SendsContent(n) \in BOOLEAN
        BY DEF SendsContent
      <3>3. rows["client"][n] \in Row
        BY <1>0, RowFacts DEF Side
      <3> QED BY <3>1, <3>2, <3>3 DEF CardFor, Card
    <2>6. request' \in Requests
      <3>1. request'.files \subseteq Card BY <2>5
      <3>2. uvGimmes \subseteq Name BY <1>0 DEF TypeOK
      <3> QED BY <2>2, <2>4, <3>1, <3>2 DEF Requests
    <2>7. /\ cached' \in [Side -> SUBSET [Name -> Row]] /\ CachedOnce' /\ HashedOnce'
          /\ misled' \subseteq Side
      <3>1. CASE uvHashSent
        BY <1>0, <1>T, <2>3, <3>1 DEF TablesTyped, StoresTyped, CachedOnce, HashedOnce
      <3>2. CASE ~uvHashSent
        BY <1>0, <1>T, <2>3, <3>2, HashFacts DEF HashedOnce, Side
      <3> QED BY <3>1, <3>2
    <2>8. /\ uvToSend' \in [Name -> {"no", "mtime", "full"}] /\ uvGimmes' \subseteq Name
          /\ {uvHashSent', gimmeSent'} \subseteq BOOLEAN
      BY <1>T, <1>3, <2>2 DEF BuildRequest, SessionTyped
    <2>9. SessionTyped' /\ MessagesTyped'
      BY <1>T, <2>1, <2>6, <2>8 DEF SessionTyped, MessagesTyped
    <2>10. TablesTyped'
      BY <1>T, <2>1, <2>7 DEF TablesTyped
    <2>11. OneInHand' /\ HandStamped /\ HandGood
      BY <1>0, <2>1 DEF OneInHand, AllStamped
    <2>12. \A card \in Incoming' :
              card \in Incoming \/ (card \in Card /\ \E t \in Side : card.row = rows[t][card.name])
      BY <2>1, <2>5 DEF Incoming, Side
    <2>13. AllGood'
      BY <2>1, <2>11, <2>12, TablesStay DEF HandStamped, HandGood
    <2>14. RoundsLeft' /\ StoresTyped'
      BY <1>0, <2>1, <2>7, <2>11 DEF RoundsLeft, Running, StoresTyped
    <2> QED BY <1>Q, <2>9, <2>10, <2>13, <2>14
  <1>4. CASE handlePragmaUVHash
    <2>1. UNCHANGED <<rows, st, pushOK, cycle, clientVars, hand, boundVars, observerVars>>
          /\ hand = {} /\ Hashed("server") /\ Caches("server")
      BY <1>4 DEF handlePragmaUVHash
    <2>2. /\ cached' \in [Side -> SUBSET [Name -> Row]] /\ CachedOnce' /\ HashedOnce'
          /\ misled' \subseteq Side
      BY <1>0, <1>T, <2>1, HashFacts DEF HashedOnce, Side
    <2>3. request' \in Requests /\ request'.files = request.files
      BY <1>R, <1>4 DEF handlePragmaUVHash, Requests
    <2>4. \A n \in Name : /\ CardFor("server", n, FALSE) \in Card
                          /\ CardFor("server", n, FALSE).name = n
                          /\ CardFor("server", n, FALSE).row = rows["server"][n]
      BY <1>0, RowFacts DEF CardFor, Card, Side
    <2>5. /\ response' \in Responses /\ response'.files = response.files
          /\ \A card \in response'.igots :
               \/ card \in response.igots
               \/ \E n \in Name : card = CardFor("server", n, FALSE)
      <3> DEFINE cards == {CardFor("server", n, FALSE) :
                             n \in {m \in Name : rows["server"][m] # NoRow}}
      <3>1. cards \subseteq Card /\ \A card \in cards : \E n \in Name : card = CardFor("server", n, FALSE)
        BY <2>4
      <3>2. response' \in {response, [response EXCEPT !.pushOK = TRUE, !.igots = cards]}
        BY <1>4 DEF handlePragmaUVHash
      <3> HIDE DEF cards
      <3>3. response \in [pushOK: BOOLEAN, igots: SUBSET Card, files: SUBSET Card]
        BY <1>R DEF Responses
      <3>4. CASE response' = response
        BY <1>R, <3>4
      <3>5. CASE response' = [response EXCEPT !.pushOK = TRUE, !.igots = cards]
        <4>1. /\ response' \in Responses /\ response'.files = response.files
              /\ response'.igots = cards
          BY <3>1, <3>3, <3>5 DEF Responses
        <4> QED BY <3>1, <4>1
      <3> QED BY <3>2, <3>4, <3>5
    <2>6. SessionTyped' /\ MessagesTyped' /\ TablesTyped' /\ RoundsLeft'
      BY <1>0, <1>T, <2>1, <2>2, <2>3, <2>5
      DEF SessionTyped, MessagesTyped, TablesTyped, RoundsLeft
    <2>7. \A card \in response'.igots : card \in response.igots
              \/ (card \in Card /\ card.row = rows["server"][card.name])
      <3> SUFFICES ASSUME NEW card \in response'.igots, NEW n \in Name,
                          card = CardFor("server", n, FALSE)
                   PROVE  card \in Card /\ card.row = rows["server"][card.name]
        BY <2>5
      <3> QED BY <2>4
    <2>8. AllGood' /\ OneInHand'
      <3>1. \A card \in Incoming' :
              card \in Incoming \/ (card \in Card /\ \E t \in Side : card.row = rows[t][card.name])
        BY <2>3, <2>5, <2>7 DEF Incoming, Side
      <3>2. hand' = {} /\ OneInHand'
        BY <2>1 DEF OneInHand
      <3> QED BY <2>1, <2>7, <3>1, <3>2, TablesStay
    <2>9. StoresTyped'
      BY <2>2, <2>8 DEF StoresTyped
    <2> QED BY <1>Q, <2>6, <2>8, <2>9
  <1>5. ASSUME NEW n \in request.gimmes, handleUVGimme(n) PROVE UVInv'
    <2>1. UNCHANGED <<rows, cached, misled, st, pushOK, cycle, clientVars, hand, hashing,
                      boundVars, observerVars>>
      BY <1>5 DEF handleUVGimme
    <2>2. n \in Name
      BY <1>R DEF Requests
    <2>3. request' \in Requests /\ request'.files = request.files
      BY <1>R, <1>5 DEF handleUVGimme, Requests
    <2>4. /\ CardFor("server", n, TRUE) \in Card
          /\ CardFor("server", n, TRUE).name = n
          /\ CardFor("server", n, TRUE).row = rows["server"][n]
      BY <1>0, <2>2, RowFacts DEF CardFor, Card, Side
    <2>5. /\ response' \in Responses /\ response'.igots = response.igots
          /\ response'.files = response.files \cup {CardFor("server", n, TRUE)}
      BY <1>R, <1>5, <2>4 DEF handleUVGimme, Responses
    <2>6. SessionTyped' /\ MessagesTyped' /\ RoundsLeft' /\ OneInHand'
      BY <1>0, <1>T, <2>1, <2>3, <2>5 DEF SessionTyped, MessagesTyped, RoundsLeft, OneInHand
    <2>7. AllGood'
      <3>1. \A card \in Incoming' :
              card \in Incoming \/ (card \in Card /\ \E t \in Side : card.row = rows[t][card.name])
        BY <2>3, <2>4, <2>5 DEF Incoming, Side
      <3> QED BY <1>0, <2>1, <2>5, <2>6, <3>1, TablesStay DEF HandGood, AllStamped, HandStamped
    <2> QED BY <1>P, <1>H, <1>Q, <2>1, <2>6, <2>7
  <1>6. ASSUME NEW card \in request.files, handleUVFile(card) PROVE UVInv'
    <2>1. UNCHANGED <<rows, cached, misled, st, pushOK, cycle, clientVars, response, hashing,
                      boundVars, observerVars>>
          /\ hand' \in {{}, Takes("server", card)} /\ card \in Incoming
      BY <1>6 DEF handleUVFile, Incoming
    <2>2. request' \in Requests /\ request'.files \subseteq request.files
      BY <1>R, <1>6 DEF handleUVFile, Requests
    <2>3. OneInHand' /\ \A h \in hand' :
               /\ Stamped(h.row) /\ (h.sets = "mtime" => h.row.mtime # 0)
               /\ h.name \notin raced =>
                     /\ h.side = "client" => Good(h.name, After(h), rows["server"][h.name])
                     /\ h.side = "server" => Good(h.name, rows["client"][h.name], After(h))
      BY <2>1, TakesGood DEF OneInHand, Side
    <2>4. SessionTyped' /\ MessagesTyped' /\ RoundsLeft'
      BY <1>0, <1>R, <1>T, <2>1, <2>2 DEF SessionTyped, MessagesTyped, RoundsLeft
    <2>5. AllGood'
      <3>1. Incoming' \subseteq Incoming
        BY <2>1, <2>2 DEF Incoming
      <3> QED BY <2>1, <2>3, <3>1, TablesStay
    <2> QED BY <1>P, <1>H, <1>Q, <2>1, <2>3, <2>4, <2>5
  <1>7. CASE Respond
    <2>1. /\ UNCHANGED <<rows, cached, misled, pushOK, cycle, uvToSend, uvGimmes, uvHashSent,
                         gimmeSent, fileRcvd, messageVars, boundVars, observerVars>>
          /\ st = "serving" /\ st' = "receiving" /\ uvPushOK' \in BOOLEAN
      BY <1>7 DEF Respond
    <2>2. SessionTyped' /\ MessagesTyped' /\ RoundsLeft'
      BY <1>0, <1>T, <2>1 DEF SessionTyped, MessagesTyped, RoundsLeft, Running, messageVars
    <2>3. AllGood' /\ OneInHand'
      BY <2>1, Quieter DEF Incoming, messageVars
    <2> QED BY <1>P, <1>H, <1>Q, <2>1, <2>2, <2>3 DEF messageVars
  <1>8. ASSUME NEW card \in response.igots, handleUVIGotCard(card) PROVE UVInv'
    <2> DEFINE status == Status(rows["client"][card.name], card.row)
    <2>1. UNCHANGED <<rows, cached, misled, st, pushOK, cycle, uvHashSent, uvPushOK, gimmeSent,
                      fileRcvd, request, hashing, boundVars, observerVars>>
      BY <1>8 DEF handleUVIGotCard
    <2>2. card \in Card /\ card.name \in Name /\ card.row \in Row
      BY <1>0, RowFacts DEF TypeOK
    <2>3. status \in 0..5
      BY <1>0, <2>2, RowFacts, StatusFacts DEF Side
    <2>4. /\ response' \in Responses /\ response'.files = response.files
          /\ response'.igots \subseteq response.igots
      BY <1>R, <1>8 DEF handleUVIGotCard, Responses
    <2>5. hand' = IGotTakes(card, status)
      BY <1>8 DEF handleUVIGotCard
    <2>6. uvToSend' \in [Name -> {"no", "mtime", "full"}] /\ uvGimmes' \subseteq Name
      <3>1. \A before \in {"no", "mtime", "full"} :
              QueueAfter(status, before) \in {"no", "mtime", "full"}
        <4> HIDE DEF status
        <4> QED BY <2>3 DEF QueueAfter
      <3>2. uvToSend' = [uvToSend EXCEPT ![card.name] = QueueAfter(status, @)]
        BY <1>8 DEF handleUVIGotCard
      <3>3. uvGimmes' \in {uvGimmes, uvGimmes \cup {card.name}}
        BY <1>8 DEF handleUVIGotCard
      <3> HIDE DEF status
      <3> QED BY <1>0, <2>2, <3>1, <3>2, <3>3 DEF TypeOK
    <2>7. OneInHand' /\ \A h \in hand' :
               /\ Stamped(h.row) /\ (h.sets = "mtime" => h.row.mtime # 0)
               /\ h.side = "client"
               /\ h.name \notin raced => Good(h.name, After(h), rows["server"][h.name])
      <3> HIDE DEF status
      <3>1. /\ IGotTakes(card, status) = {} \/ \E h \in Statement : IGotTakes(card, status) = {h}
            /\ \A h \in IGotTakes(card, status) :
                 /\ Stamped(h.row) /\ (h.sets = "mtime" => h.row.mtime # 0)
                 /\ h.side = "client"
                 /\ h.name \notin raced => Good(h.name, After(h), rows["server"][h.name])
        BY IGotGood DEF status
      <3> QED BY <2>5, <3>1 DEF OneInHand
    <2> HIDE DEF status
    <2>8. SessionTyped' /\ MessagesTyped' /\ RoundsLeft'
      BY <1>0, <1>R, <1>T, <2>1, <2>4, <2>6 DEF SessionTyped, MessagesTyped, RoundsLeft
    <2>9. AllGood'
      <3>1. Incoming' \subseteq Incoming
        BY <2>1, <2>4 DEF Incoming
      <3>2. \A h \in hand' :
               /\ Stamped(h.row) /\ (h.sets = "mtime" => h.row.mtime # 0)
               /\ h.name \notin raced =>
                     /\ h.side = "client" => Good(h.name, After(h), rows["server"][h.name])
                     /\ h.side = "server" => Good(h.name, rows["client"][h.name], After(h))
        BY <2>7
      <3> QED BY <2>1, <2>4, <2>7, <3>1, <3>2, TablesStay
    <2> QED BY <1>P, <1>H, <1>Q, <2>1, <2>7, <2>8, <2>9
  <1>9. ASSUME NEW card \in response.files, handleUVFileCard(card) PROVE UVInv'
    <2>1. /\ UNCHANGED <<rows, cached, misled, st, pushOK, cycle, uvToSend, uvGimmes,
                         uvHashSent, uvPushOK, gimmeSent, request, hashing,
                         boundVars, observerVars>>
          /\ fileRcvd' = TRUE /\ hand' = Takes("client", card) /\ card \in Incoming
      BY <1>9 DEF handleUVFileCard, Incoming
    <2>2. /\ response' \in Responses /\ response'.igots = response.igots
          /\ response'.files \subseteq response.files
      BY <1>R, <1>9 DEF handleUVFileCard, Responses
    <2>3. OneInHand' /\ \A h \in hand' :
               /\ Stamped(h.row) /\ (h.sets = "mtime" => h.row.mtime # 0)
               /\ h.name \notin raced =>
                     /\ h.side = "client" => Good(h.name, After(h), rows["server"][h.name])
                     /\ h.side = "server" => Good(h.name, rows["client"][h.name], After(h))
      BY <2>1, TakesGood DEF OneInHand, Side
    <2>4. SessionTyped' /\ MessagesTyped' /\ RoundsLeft'
      BY <1>0, <1>R, <1>T, <2>1, <2>2 DEF SessionTyped, MessagesTyped, RoundsLeft
    <2>5. AllGood'
      <3>1. Incoming' \subseteq Incoming
        BY <2>1, <2>2 DEF Incoming
      <3> QED BY <2>1, <2>2, <2>3, <3>1, TablesStay
    <2> QED BY <1>P, <1>H, <1>Q, <2>1, <2>3, <2>4, <2>5
  <1>10. CASE EndRound
    <2>1. /\ UNCHANGED <<rows, cached, misled, pushOK, request, hand, hashing,
                         boundVars, observerVars>>
          /\ response' = NoResponse /\ st = "receiving"
      BY <1>10 DEF EndRound
    <2>2. /\ st' \in {"done", "exceeded", "ready"}
          /\ st' = "ready" => ~(cycle + 1 >= MaxRounds) /\ cycle' = cycle + 1
          /\ st' # "ready" => cycle' = 0
      BY <1>10 DEF EndRound, NoSession
    <2>3. {uvHashSent', uvPushOK', gimmeSent', fileRcvd'} \subseteq BOOLEAN
      <3>1. CASE st' = "ready" BY <1>10, <1>T, <3>1 DEF EndRound, SessionTyped
      <3>2. CASE st' # "ready" BY <1>10, <3>2 DEF EndRound, NoSession
      <3> QED BY <3>1, <3>2
    <2>4. uvToSend' \in [Name -> {"no", "mtime", "full"}] /\ uvGimmes' \subseteq Name
      <3>1. uvToSend' \in {uvToSend, [n \in Name |-> "no"]} /\ uvGimmes' \in {uvGimmes, {}}
        BY <1>10 DEF EndRound, NoSession
      <3> QED BY <1>0, <3>1 DEF TypeOK
    <2>5. cycle \in Nat /\ MaxRounds \in Nat /\ cycle < MaxRounds
      BY <1>0, <2>1, ConstantsAssumption DEF TypeOK, RoundsLeft, Running
    <2>6. cycle' \in 0..MaxRounds /\ RoundsLeft'
      BY <2>2, <2>5 DEF RoundsLeft, Running
    <2>7. response' \in Responses /\ response'.igots = {} /\ response'.files = {}
      BY <2>1 DEF NoResponse, Responses
    <2>8. SessionTyped' /\ MessagesTyped'
      BY <1>T, <2>1, <2>2, <2>3, <2>4, <2>6, <2>7 DEF SessionTyped, MessagesTyped, Ended
    <2>9. AllGood' /\ OneInHand'
      BY <2>1, <2>7, Quieter DEF Incoming
    <2> QED BY <1>P, <1>H, <1>Q, <2>1, <2>6, <2>8, <2>9
  <1>11. ASSUME Fails, failures' \in 0..MaxFailures,
                \/ UNCHANGED <<rows, cached, misled>>
                \/ \E h \in hand : TearRow(h.side, h.name, After(h))
         PROVE  UVInv'
    <2>1. /\ UNCHANGED <<pushOK, now, writes, observerVars>> /\ NoSession
          /\ st' = "failed" /\ request' = NoRequest /\ response' = NoResponse
          /\ hand' = {} /\ hashing' = {}
      BY <1>11 DEF Fails
    <2>2. /\ request' \in Requests /\ request'.files = {} /\ Incoming' = {}
          /\ response' \in Responses /\ response'.igots = {} /\ response'.files = {}
      BY <2>1 DEF NoRequest, NoResponse, Requests, Responses, Incoming
    <2>3. SessionTyped' /\ MessagesTyped'
      <3>1. /\ cycle' \in 0..MaxRounds /\ uvToSend' \in [Name -> {"no", "mtime", "full"}]
            /\ uvGimmes' \subseteq Name
            /\ {uvHashSent', uvPushOK', gimmeSent', fileRcvd'} \subseteq BOOLEAN
        <4>1. cycle' \in 0..MaxRounds
          BY <2>1, ConstantsAssumption DEF NoSession
        <4>2. uvToSend' \in [Name -> {"no", "mtime", "full"}] /\ uvGimmes' \subseteq Name
          BY <2>1 DEF NoSession
        <4>3. {uvHashSent', uvPushOK', gimmeSent', fileRcvd'} \subseteq BOOLEAN
          BY <2>1 DEF NoSession
        <4> QED BY <4>1, <4>2, <4>3
      <3> QED BY <1>T, <2>1, <2>2, <3>1 DEF SessionTyped, MessagesTyped, Ended
    <2>4. RoundsLeft' /\ HashedOnce'
      BY <2>1 DEF RoundsLeft, Running, HashedOnce
    <2>5. CASE UNCHANGED <<rows, cached, misled>>
      <3>1. AllGood' /\ OneInHand'
        BY <2>1, <2>2, <2>5, Quieter
      <3>2. TablesTyped'
        BY <1>T, <1>11, <2>1, <2>5 DEF TablesTyped
      <3>3. StoresTyped'
        BY <1>T, <2>4, <2>5, <3>1 DEF StoresTyped, CachedOnce
      <3> QED BY <1>Q, <2>3, <2>4, <3>1, <3>2, <3>3
    <2>6. ASSUME NEW h \in hand, TearRow(h.side, h.name, After(h))
          PROVE  UVInv'
      <3>1. h.side \in Side
        BY <1>0, HandFacts
      <3>2. /\ cached' \in [Side -> SUBSET [Name -> Row]] /\ CachedOnce'
            /\ misled' \subseteq Side /\ rows' = [rows EXCEPT ![h.side][h.name] = After(h)]
        BY <1>0, <1>T, <2>6, <3>1, PutFacts
      <3>3. rows' \in [Side -> [Name -> Row]] /\ AllGood' /\ OneInHand'
        BY <2>1, <2>2, <3>2, Executed
      <3>4. TablesTyped' /\ StoresTyped'
        BY <1>T, <1>11, <2>1, <2>4, <3>2, <3>3 DEF TablesTyped, StoresTyped
      <3> QED BY <1>Q, <2>3, <2>4, <3>3, <3>4
    <2> QED BY <1>11, <2>5, <2>6
  <1>12. CASE Interrupt
    <2>1. failures' \in 0..MaxFailures
      BY <1>0, <1>12, ConstantsAssumption DEF Interrupt, TypeOK
    <2> QED BY <1>11, <1>12, <2>1 DEF Interrupt
  <1>13. CASE InsertFails
    <2>1. failures' \in 0..MaxFailures
      BY <1>0, <1>13 DEF InsertFails, TypeOK
    <2> QED BY <1>11, <1>13, <2>1 DEF InsertFails
  <1>14. ASSUME NEW h \in hand, Execute(h) PROVE UVInv'
    <2>1. UNCHANGED <<st, pushOK, cycle, clientVars, request, response, hashing,
                      boundVars, observerVars>>
          /\ hand' = {} /\ PutRow(h.side, h.name, After(h)) /\ h.side \in Side
      BY <1>0, <1>14, HandFacts DEF Execute
    <2>2. /\ cached' \in [Side -> SUBSET [Name -> Row]] /\ CachedOnce'
          /\ misled' \subseteq Side /\ rows' = [rows EXCEPT ![h.side][h.name] = After(h)]
      BY <1>0, <1>T, <2>1, PutFacts
    <2>3. rows' \in [Side -> [Name -> Row]] /\ AllGood' /\ OneInHand'
      <3>1. Incoming' \subseteq Incoming /\ response'.igots \subseteq response.igots
        BY <2>1 DEF Incoming
      <3> QED BY <2>1, <2>2, <3>1, Executed
    <2>4. TablesTyped' /\ StoresTyped'
      BY <1>T, <2>1, <2>2, <2>3 DEF TablesTyped, StoresTyped, HashedOnce
    <2>5. SessionTyped' /\ MessagesTyped' /\ RoundsLeft'
      BY <1>0, <1>T, <2>1 DEF SessionTyped, MessagesTyped, RoundsLeft
    <2> QED BY <1>Q, <2>3, <2>4, <2>5
  <1>15. ASSUME NEW s \in Side, Computes(s) PROVE UVInv'
    <2>1. UNCHANGED <<rows, cached, misled, st, pushOK, cycle, clientVars, request, response,
                      hand, boundVars, observerVars>>
          /\ hashing' = {Catalog(s)}
      BY <1>15 DEF Computes
    <2>2. AllGood' /\ OneInHand'
      BY <2>1, Quieter DEF Incoming
    <2>3. HashedOnce'
      BY <1>0, <1>T, <2>1, HashFacts DEF HashedOnce
    <2>4. SessionTyped' /\ MessagesTyped' /\ RoundsLeft' /\ StoresTyped'
      BY <1>0, <1>T, <2>1, <2>2, <2>3
      DEF SessionTyped, MessagesTyped, RoundsLeft, StoresTyped, CachedOnce
    <2> QED BY <1>P, <1>Q, <2>1, <2>2, <2>4
  <1>16. CASE UNCHANGED vars
    <2>1. UNCHANGED <<rows, cached, misled, st, pushOK, cycle, clientVars, messageVars,
                      boundVars, observerVars>>
      BY <1>16 DEF vars
    <2>2. AllGood' /\ OneInHand'
      BY <2>1, Quieter DEF Incoming, messageVars
    <2>3. SessionTyped' /\ MessagesTyped' /\ RoundsLeft'
      BY <1>0, <1>T, <2>1 DEF SessionTyped, MessagesTyped, RoundsLeft, messageVars
    <2> QED BY <1>P, <1>H, <1>Q, <2>1, <2>2, <2>3 DEF messageVars
  <1>17. ASSUME Step PROVE UVInv'
    BY <1>3, <1>4, <1>5, <1>6, <1>7, <1>8, <1>9, <1>10, <1>14, <1>15, <1>17
    DEF Step, ClientHash, ServerHash, Side
  <1> QED BY <1>1, <1>2, <1>12, <1>13, <1>16, <1>17, ConstantsAssumption
      DEF Next, Write, Delete

(* Whatever is edited at either side meanwhile and wherever sessions are    *)
(* interrupted, the row written last for a name, or one of those written in *)
(* the same second, is at one of the sides: the client deletes rows before  *)
(* their successors arrive, and the server still has them                   *)
(* (handleUVIGotCard, handleUVFile, uv.Status).  The look at a row and the  *)
(* write that follows are steps of their own, with edits between them; only *)
(* a name edited just there, under a write of the same row, is excepted.    *)
THEOREM UVNewestSurvives == Spec => []NewestSurvives
  <1>1. Init => UVInv BY InitUV
  <1>2. UVInv /\ [Next]_vars => UVInv' BY NextUV
  <1>3. UVInv => NewestSurvives
    BY DEF UVInv, TablesGood, Good, NewestSurvives, Side
  <1> QED BY <1>1, <1>2, <1>3, PTL DEF Spec

-----------------------------------------------------------------------------
(***************************************************************************)
(* What both sides hold when a session is done.                             *)
(***************************************************************************)
(* The tables as they will be once the statement in hand is executed.       *)
View ==
    IF hand = {} THEN rows
    ELSE LET h == CHOOSE h \in hand : TRUE
         IN  [rows EXCEPT ![h.side][h.name] = After(h)]
ViewCard(s, n, full) == [name |-> n, row |-> View[s][n], full |-> full]

(* A cached hash is that of the table as it is, but for the sides where a   *)
(* hash of older rows was cached or kept.                                   *)
HashFresh == \A s \in Side \ misled : cached[s] \subseteq {Catalog(s)}

OneMessage ==
    /\ st # "serving" => request = NoRequest
    /\ st \notin {"serving", "receiving"} => response = NoResponse /\ hand = {}

(* Until the server has handled the hash of the first request.              *)
Opens ==
    /\ st \in {"ready", "serving"} /\ response = NoResponse /\ hand = {}
    /\ ~uvPushOK /\ uvGimmes = {} /\ request.gimmes = {} /\ request.files = {}
    /\ uvToSend = [n \in Name |-> IF rows["client"][n] = NoRow THEN "no" ELSE "full"]
    /\ st = "ready" => ~uvHashSent /\ hashing \subseteq {Catalog("client")}
    /\ st = "serving" => /\ uvHashSent /\ hashing \subseteq {Catalog("server")}
                         /\ request.hash # {}
                         /\ request.hash = {Catalog("client")} \/ misled # {}

(* The server had the same hash: the rest of the session has no uv card.    *)
Quiet ==
    /\ uvHashSent /\ ~uvPushOK /\ request = NoRequest /\ response = NoResponse
    /\ uvGimmes = {} /\ hand = {} /\ (Agree \/ misled # {})

(* The client waits for the server's row of n and has dropped its own.      *)
Asked(n) == \/ n \in uvGimmes \cup request.gimmes
            \/ \E card \in response.files : card.name = n
Announced(n) == \E card \in response.igots : card.name = n

(* The client's row of n wins and is to be sent, or is on its way.          *)
Offer(n) == ViewCard("client", n, View["client"][n].hash # 0)
Offered(n) == /\ Accepts(View["server"][n], View["client"][n])
              /\ uvToSend[n] = "full" \/ Offer(n) \in request.files

Differs(n) == View["client"][n].hash # View["server"][n].hash

(* The server has announced its rows.                                       *)
CardsCurrent ==
    /\ \A card \in request.files : card.row = View["client"][card.name]
    /\ \A card \in response.igots : /\ card = ViewCard("server", card.name, FALSE)
                                    /\ card.row.mtime # 0
    /\ \A card \in response.files : card = ViewCard("server", card.name, TRUE)

AskedInTurn ==
    /\ response.igots # {} => request = NoRequest /\ response.files = {}
    /\ request.gimmes # {} \/ response.files # {} => uvGimmes = {}
    /\ \A n \in request.gimmes, card \in response.files : card.name # n
    /\ \A n \in Name : Asked(n) =>
          /\ uvToSend[n] = "no" /\ View["client"][n] = NoRow
          /\ View["server"][n].mtime # 0
          /\ ~Announced(n) /\ \A card \in request.files : card.name # n

Exchange ==
    /\ uvHashSent /\ request.hash = {} /\ (uvPushOK \/ response.pushOK)
    /\ st # "serving" => uvPushOK
    /\ CardsCurrent /\ AskedInTurn
    /\ \A n \in Name : Differs(n) => Asked(n) \/ Announced(n) \/ Offered(n)

AgreeInv ==
    /\ HashFresh /\ OneMessage
    /\ calm /\ pushOK => /\ st = "done" => Agree \/ misled # {}
                         /\ st \in Running => Opens \/ Quiet \/ Exchange

(* Who wins: rows that are the same or that the client keeps.               *)
LEMMA StatusWins ==
    ASSUME NEW local \in Row, NEW remote \in Row
    PROVE  /\ Status(local, remote) \in {2, 3, 4} => local.hash = remote.hash
           /\ Status(local, remote) = 5 => Accepts(remote, local)
           /\ local.mtime = 0 => Accepts(local, remote)
  <1>0. MaxTime \in Nat /\ MaxHash \in Nat
    BY ConstantsAssumption
  <1>1. /\ local.mtime \in Nat /\ remote.mtime \in Nat
        /\ local.hash \in Nat /\ remote.hash \in Nat
    BY <1>0 DEF Row
  <1>2. CASE local.mtime = 0
    BY <1>2 DEF Status, Accepts
  <1>3. CASE local.mtime # 0 /\ Same(local, remote)
    <2>1. Status(local, remote) \in {2, 3, 4}
      BY <1>3 DEF Status
    <2> QED BY <1>3, <2>1 DEF Same
  <1>4. CASE local.mtime # 0 /\ ~Same(local, remote)
    <2>1. Status(local, remote) = IF RemoteWins(local, remote) THEN 1 ELSE 5
      BY <1>4 DEF Status
    <2>2. ~Same(remote, local)
      BY <1>4 DEF Same
    <2>3. ~RemoteWins(local, remote) => RemoteWins(remote, local)
      BY <1>1, <1>4 DEF RemoteWins, Same
    <2>4. remote.mtime = 0 \/ Status(remote, local) = IF RemoteWins(remote, local) THEN 1 ELSE 5
      BY <2>2 DEF Status
    <2>5. remote.mtime = 0 => Status(remote, local) = 0
      BY DEF Status
    <2> QED BY <1>4, <2>1, <2>3, <2>4, <2>5 DEF Accepts
  <1> QED BY <1>2, <1>3, <1>4

(* The cached hash after each kind of change.                               *)
LEMMA FreshAfterPut ==
    ASSUME TypeOK, HashFresh, NEW s \in Side, NEW n, NEW row,
           PutRow(s, n, row) \/ TearRow(s, n, row)
    PROVE  HashFresh'
  <1>1. rows \in [Side -> [Name -> Row]] /\ cached \in [Side -> SUBSET [Name -> Row]]
    BY DEF TypeOK
  <1> SUFFICES ASSUME NEW t \in Side, t \notin misled'
               PROVE  cached'[t] \subseteq {Catalog(t)'}
    BY DEF HashFresh
  <1>2. CASE t = s
    BY <1>1, <1>2 DEF PutRow, TearRow
  <1>3. CASE t # s
    <2>1. rows'[t] = rows[t] /\ cached'[t] = cached[t] /\ t \notin misled
      BY <1>1, <1>3 DEF PutRow, TearRow
    <2>2. Catalog(t)' = Catalog(t)
      BY <2>1 DEF Catalog
    <2> QED BY <2>1, <2>2 DEF HashFresh
  <1> QED BY <1>2, <1>3

LEMMA FreshSame ==
    ASSUME HashFresh, UNCHANGED <<rows, cached, misled>>
    PROVE  HashFresh'
  BY DEF HashFresh, Catalog

LEMMA HashIsCatalog ==
    ASSUME TypeOK, StoresTyped, HashFresh, NEW s \in Side, Hashed(s),
           hashing \subseteq {Catalog(s)}
    PROVE  ContentHash(s) # {} /\ (ContentHash(s) = {Catalog(s)} \/ s \in misled)
  <1>1. PICK c : ContentHash(s) = {c}
    BY HashFacts
  <1>2. ContentHash(s) = hashing \/ ContentHash(s) = cached[s]
    BY DEF ContentHash
  <1> QED BY <1>1, <1>2 DEF HashFresh

LEMMA FreshHashed ==
    ASSUME TypeOK, StoresTyped, HashFresh, NEW s \in Side, UNCHANGED rows, Hashed(s), Caches(s)
    PROVE  HashFresh'
  <1> SUFFICES ASSUME NEW t \in Side, t \notin misled' PROVE cached'[t] \subseteq {Catalog(t)}
    BY DEF HashFresh, Catalog
  <1>1. t \notin misled /\ (t = s => hashing \subseteq {Catalog(s)})
    BY DEF Caches
  <1>2. cached'[t] = IF t = s THEN ContentHash(s) ELSE cached[t]
    BY DEF Caches, TypeOK
  <1>3. t = s => ContentHash(s) = {Catalog(s)}
    BY <1>1, HashIsCatalog
  <1> QED BY <1>1, <1>2, <1>3 DEF HashFresh

(* The tables to come: those of now with nothing in hand, and the same      *)
(* before and after the statement in hand is executed.                      *)
LEMMA Settled ==
    ASSUME hand = {}
    PROVE  View = rows /\ \A t, m, full : CardFor(t, m, full) = ViewCard(t, m, full)
  BY DEF View, CardFor, ViewCard

LEMMA SettledNext ==
    ASSUME hand = {}, hand' = {}, UNCHANGED rows
    PROVE  View' = View /\ View' = rows
  BY DEF View

LEMMA TakenView ==
    ASSUME TypeOK, hand = {}, UNCHANGED rows, NEW k \in Statement, hand' = {k}
    PROVE  \A t \in Side, m \in Name :
             View'[t][m] = IF t = k.side /\ m = k.name THEN After(k) ELSE View[t][m]
  <1>1. View = rows
    BY Settled
  <1>2. hand' # {} /\ (CHOOSE h \in hand' : TRUE) = k
    OBVIOUS
  <1>3. View' = [rows EXCEPT ![k.side][k.name] = After(k)]
    BY <1>2 DEF View, After
  <1>4. rows \in [Side -> [Name -> Row]] /\ k.side \in Side /\ k.name \in Name
    BY DEF TypeOK, Statement
  <1> HIDE DEF After
  <1> QED BY <1>1, <1>3, <1>4

LEMMA ExecutedView ==
    ASSUME UVInv, NEW h \in hand, Execute(h)
    PROVE  View' = View
  <1>1. hand = {h}
    BY DEF UVInv, OneInHand
  <1>2. hand # {} /\ (CHOOSE k \in hand : TRUE) = h
    BY <1>1
  <1>3. View = [rows EXCEPT ![h.side][h.name] = After(h)]
    BY <1>2 DEF View
  <1>4. hand' = {} /\ rows' = [rows EXCEPT ![h.side][h.name] = After(h)]
    BY DEF Execute, PutRow
  <1> QED BY <1>3, <1>4 DEF View

LEMMA SameTables ==
    ASSUME UNCHANGED rows
    PROVE  (Agree' <=> Agree) /\ \A s : Catalog(s)' = Catalog(s)
  BY DEF Agree, Catalog

LEMMA SameTablesSameView ==
    ASSUME UNCHANGED View
    PROVE  /\ \A n \in Name : Differs(n)' <=> Differs(n)
           /\ \A s \in Side, n \in Name, full \in BOOLEAN :
                 ViewCard(s, n, full)' = ViewCard(s, n, full)
  BY DEF Differs, ViewCard

LEMMA CardFields ==
    ASSUME NEW s \in Side, NEW n \in Name, NEW full \in BOOLEAN
    PROVE  /\ ViewCard(s, n, full).name = n
           /\ ViewCard(s, n, full).row = View[s][n]
           /\ ViewCard(s, n, full).full = full
  BY DEF ViewCard

(* The client builds a request: rows that win go with it, or stay queued.   *)
LEMMA BuildAgrees ==
    ASSUME UVInv, AgreeInv, calm, pushOK, BuildRequest
    PROVE  Opens' \/ Quiet' \/ Exchange'
  <1>1. TypeOK /\ StoresTyped /\ HashFresh /\ OneMessage
    BY Types DEF UVInv, AgreeInv
  <1>2. /\ st = "ready" /\ st' = "serving" /\ uvHashSent' /\ uvGimmes' = {}
        /\ UNCHANGED <<rows, uvPushOK, response, hand>> /\ hand = {}
        /\ uvHashSent => UNCHANGED misled
        /\ ~uvHashSent => Hashed("client") /\ Caches("client")
    BY <1>1 DEF BuildRequest, OneMessage
  <1>V. /\ View = rows /\ UNCHANGED View /\ (Agree' <=> Agree)
        /\ \A t, m, full : CardFor(t, m, full) = ViewCard(t, m, full)
    BY <1>2, Settled, SettledNext, SameTables
  <1>3. request = NoRequest /\ response = NoResponse
    BY <1>1, <1>2 DEF OneMessage
  <1>B. PICK visited \in SUBSET Queued :
          /\ Visits(visited)
          /\ request' = [hash |-> IF uvHashSent THEN {} ELSE ContentHash("client"),
                         gimmes |-> uvGimmes,
                         files |-> {CardFor("client", n, SendsContent(n)) : n \in visited}]
          /\ uvToSend' = [n \in Name |-> IF n \in visited THEN "no" ELSE uvToSend[n]]
    BY DEF BuildRequest
  <1>4. /\ Visits(visited)
        /\ request' = [hash |-> IF uvHashSent THEN {} ELSE ContentHash("client"),
                       gimmes |-> uvGimmes,
                       files |-> {ViewCard("client", n, SendsContent(n)) : n \in visited}]
        /\ uvToSend' = [n \in Name |-> IF n \in visited THEN "no" ELSE uvToSend[n]]
    <2>1. {CardFor("client", n, SendsContent(n)) : n \in visited} =
          {ViewCard("client", n, SendsContent(n)) : n \in visited}
      BY <1>V
    <2> QED BY <1>B, <2>1
  <1>5. visited \subseteq Name
    BY DEF Queued
  <1>6. Opens \/ Quiet \/ Exchange
    BY <1>2 DEF AgreeInv, Running
  <1>7. ~uvPushOK => visited = {} /\ request'.files = {} /\ uvToSend' = uvToSend
    <2>1. ~uvPushOK => visited = {}
      BY <1>4 DEF Visits
    <2> QED BY <1>1, <1>4, <2>1 DEF TypeOK
  <1>8. CASE Opens
    <2>1. ~uvHashSent /\ ~uvPushOK /\ uvGimmes = {} /\ hashing \subseteq {Catalog("client")}
      BY <1>2, <1>8 DEF Opens
    <2>2. ContentHash("client") # {}
          /\ (ContentHash("client") = {Catalog("client")} \/ misled # {})
      BY <1>1, <1>2, <2>1, HashIsCatalog DEF Side
    <2>3. request'.hash = ContentHash("client") /\ request'.gimmes = {}
      BY <1>4, <2>1
    <2>4. misled' = misled /\ hashing' = {}
      BY <1>2, <2>1 DEF Caches
    <2>5. Catalog("client")' = Catalog("client")
      BY <1>2, SameTables
    <2>6. uvToSend' = [n \in Name |-> IF rows["client"][n] = NoRow THEN "no" ELSE "full"]
      BY <1>7, <1>8, <2>1 DEF Opens
    <2> QED BY <1>2, <1>3, <1>7, <2>1, <2>2, <2>3, <2>4, <2>5, <2>6 DEF Opens
  <1>9. CASE Quiet
    <2>1. uvHashSent /\ ~uvPushOK /\ uvGimmes = {} /\ (Agree \/ misled # {})
      BY <1>9 DEF Quiet
    <2>2. request' = NoRequest
      BY <1>4, <1>7, <2>1 DEF NoRequest
    <2> QED BY <1>2, <1>3, <1>V, <2>1, <2>2 DEF Quiet
  <1>10. CASE Exchange
    <2>1. uvHashSent /\ uvPushOK /\ CardsCurrent /\ AskedInTurn
      BY <1>2, <1>10 DEF Exchange
    <2>2. /\ request'.hash = {} /\ request'.gimmes = uvGimmes
          /\ request'.files = {ViewCard("client", n, SendsContent(n)) : n \in visited}
      BY <1>4, <2>1
    <2>3. response'.igots = {} /\ response'.files = {} /\ request.gimmes = {}
          /\ response.files = {} /\ request.files = {} /\ response.igots = {}
      BY <1>2, <1>3 DEF NoResponse, NoRequest
    <2>4. \A n \in Name : SendsContent(n) \in BOOLEAN
      BY DEF SendsContent
    <2>5. \A card \in request'.files : /\ card.name \in visited
                                       /\ card.row = View["client"][card.name]
      <3> SUFFICES ASSUME NEW n \in visited
                   PROVE  /\ ViewCard("client", n, SendsContent(n)).name = n
                          /\ ViewCard("client", n, SendsContent(n)).row = View["client"][n]
        BY <2>2
      <3> QED BY <1>5, <2>4, CardFields DEF Side
    <2>6. CardsCurrent'
      BY <1>V, <2>3, <2>5 DEF CardsCurrent
    <2>7. \A n \in Name : (Asked(n)' <=> Asked(n)) /\ ~Announced(n) /\ ~Announced(n)'
      BY <1>2, <2>2, <2>3 DEF Asked, Announced
    <2>8. AskedInTurn'
      <3> SUFFICES ASSUME NEW n \in Name, Asked(n)'
                   PROVE  /\ uvToSend'[n] = "no" /\ View["client"][n] = NoRow
                          /\ View["server"][n].mtime # 0
                          /\ \A card \in request'.files : card.name # n
        BY <1>2, <1>V, <2>3, <2>7 DEF AskedInTurn
      <3>1. /\ uvToSend[n] = "no" /\ View["client"][n] = NoRow
            /\ View["server"][n].mtime # 0
        BY <2>1, <2>7 DEF AskedInTurn
      <3>2. n \notin visited
        BY <3>1 DEF Queued
      <3> QED BY <1>4, <2>5, <3>1, <3>2
    <2>9. \A n \in Name : Differs(n)' => Asked(n)' \/ Announced(n)' \/ Offered(n)'
      <3> SUFFICES ASSUME NEW n \in Name, Differs(n), ~Asked(n)
                   PROVE  Offered(n)'
        BY <1>V, <2>7, SameTablesSameView
      <3>1. Offered(n)
        BY <1>10, <2>7 DEF Exchange
      <3>2. uvToSend[n] = "full"
        BY <2>3, <3>1 DEF Offered
      <3>3. CASE n \notin visited
        BY <1>V, <1>4, <3>1, <3>2, <3>3 DEF Offered
      <3>4. CASE n \in visited
        <4>1. SendsContent(n) = (View["client"][n].hash # 0)
          BY <1>V, <3>2 DEF SendsContent
        <4>2. Offer(n) \in request'.files
          BY <2>2, <3>4, <4>1 DEF Offer
        <4>3. Offer(n)' = Offer(n)
          BY <1>V DEF Offer, ViewCard
        <4> QED BY <1>V, <3>1, <4>2, <4>3 DEF Offered
      <3> QED BY <3>3, <3>4
    <2> QED BY <1>2, <2>1, <2>2, <2>6, <2>8, <2>9 DEF Exchange
  <1> QED BY <1>6, <1>8, <1>9, <1>10

(* The server compares the hashes: the tables agree, or it announces every  *)
(* row it has.                                                              *)
LEMMA PragmaAgrees ==
    ASSUME UVInv, AgreeInv, calm, pushOK, handlePragmaUVHash
    PROVE  Quiet' \/ Exchange'
  <1>1. TypeOK /\ StoresTyped /\ HashFresh /\ RowsStamped
    BY Types DEF UVInv, AgreeInv, AllStamped
  <1>2. /\ st = "serving" /\ request.hash # {} /\ st' = "serving"
        /\ UNCHANGED <<rows, hand, uvToSend, uvGimmes, uvHashSent, uvPushOK>>
        /\ hand = {} /\ Hashed("server") /\ Caches("server")
        /\ request' = [request EXCEPT !.hash = {}]
    BY DEF handlePragmaUVHash, clientVars
  <1>V. /\ View = rows /\ UNCHANGED View /\ (Agree' <=> Agree)
        /\ \A t, m, full : CardFor(t, m, full) = ViewCard(t, m, full)
    BY <1>2, Settled, SettledNext, SameTables
  <1>3. Opens
    BY <1>2 DEF AgreeInv, Running, Quiet, Exchange, NoRequest
  <1>4. /\ request.hash = {Catalog("client")} \/ misled # {}
        /\ uvHashSent /\ ~uvPushOK /\ uvGimmes = {} /\ hashing \subseteq {Catalog("server")}
        /\ response = NoResponse /\ request.gimmes = {} /\ request.files = {}
    BY <1>2, <1>3 DEF Opens
  <1>5. request' = NoRequest
    BY <1>1, <1>2, <1>4 DEF NoRequest, TypeOK
  <1>6. (ContentHash("server") = {Catalog("server")} \/ misled # {}) /\ misled' = misled
    BY <1>1, <1>2, <1>4, HashIsCatalog DEF Caches, Side
  <1>7. \A s \in Side, n \in Name : Catalog(s)[n].hash = rows[s][n].hash
    BY DEF Catalog, NoRow
  <1>8. CASE ContentHash("server") = request.hash
    <2>1. Catalog("server") = Catalog("client") \/ misled # {}
      BY <1>4, <1>6, <1>8
    <2>2. Agree \/ misled # {}
      BY <1>7, <2>1 DEF Agree, Side
    <2>3. response' = NoResponse
      BY <1>4, <1>8 DEF handlePragmaUVHash
    <2> QED BY <1>2, <1>V, <1>4, <1>5, <1>6, <2>2, <2>3 DEF Quiet
  <1>9. CASE ContentHash("server") # request.hash
    <2> DEFINE theirs == {m \in Name : View["server"][m] # NoRow}
               cards == {ViewCard("server", n, FALSE) : n \in theirs}
    <2>1. response' = [response EXCEPT !.pushOK = TRUE, !.igots = cards]
      BY <1>9, <1>V DEF handlePragmaUVHash, CardFor, ViewCard
    <2>2. \A n \in theirs : n \in Name /\ ViewCard("server", n, FALSE).name = n
                            /\ ViewCard("server", n, FALSE).row = View["server"][n]
      BY CardFields DEF Side
    <2>3. \A n \in theirs : View["server"][n].mtime # 0
      BY <1>1, <1>V DEF RowsStamped, Stamped, Side
    <2>4. /\ \A card \in cards : /\ card = ViewCard("server", card.name, FALSE)
                                 /\ card.name \in theirs
                                 /\ card.row.mtime # 0
          /\ \A n \in theirs : \E card \in cards : card.name = n
      <3>1. ASSUME NEW card \in cards
            PROVE  /\ card = ViewCard("server", card.name, FALSE)
                   /\ card.name \in theirs /\ card.row.mtime # 0
        <4>1. PICK n \in theirs : card = ViewCard("server", n, FALSE)
          BY <3>1
        <4> QED BY <2>2, <2>3, <4>1
      <3>2. ASSUME NEW n \in theirs PROVE ViewCard("server", n, FALSE) \in cards
        OBVIOUS
      <3> QED BY <2>2, <3>1, <3>2
    <2> HIDE DEF cards
    <2>5. response'.pushOK /\ response'.igots = cards /\ response'.files = {}
      BY <1>4, <2>1 DEF NoResponse
    <2>6. request'.files = {} /\ request'.gimmes = {} /\ request'.hash = {}
      BY <1>5 DEF NoRequest
    <2>7. CardsCurrent'
      <3>1. \A card \in cards : ViewCard("server", card.name, FALSE)'
                                  = ViewCard("server", card.name, FALSE)
        BY <1>V DEF ViewCard
      <3> QED BY <2>4, <2>5, <2>6, <3>1 DEF CardsCurrent
    <2>8. \A n \in Name : ~Asked(n)'
      BY <1>2, <1>4, <2>5, <2>6 DEF Asked
    <2>9. AskedInTurn'
      BY <1>5, <2>5, <2>6, <2>8 DEF AskedInTurn
    <2>10. ASSUME NEW n \in Name, Differs(n)' PROVE Announced(n)' \/ Offered(n)'
      <3>1. CASE n \in theirs
        BY <2>4, <2>5, <3>1 DEF Announced
      <3>2. CASE n \notin theirs
        <4>1. View["server"][n] = NoRow
          BY <3>2
        <4>2. View["client"][n] # NoRow
          BY <1>V, <2>10, <4>1 DEF Differs
        <4>3. uvToSend[n] = "full"
          BY <1>3, <1>V, <4>2 DEF Opens
        <4>4. Accepts(View["server"][n], View["client"][n])
          BY <4>1, <1>1, <1>V, RowFacts, StatusWins DEF Side
        <4> QED BY <1>2, <1>V, <4>3, <4>4 DEF Offered
      <3> QED BY <3>1, <3>2
    <2> QED BY <1>2, <1>4, <2>5, <2>6, <2>7, <2>9, <2>10 DEF Exchange
  <1> QED BY <1>8, <1>9

(* The server answers a gimme: it still has the row, and the client waits.  *)
LEMMA GimmeAgrees ==
    ASSUME UVInv, AgreeInv, calm, pushOK, NEW n \in request.gimmes, handleUVGimme(n)
    PROVE  Exchange'
  <1>1. TypeOK
    BY DEF UVInv
  <1>2. /\ st = "serving" /\ st' = "serving"
        /\ UNCHANGED <<rows, hand, uvToSend, uvGimmes, uvHashSent, uvPushOK>> /\ hand = {}
        /\ request' = [request EXCEPT !.gimmes = @ \ {n}]
        /\ response' = [response EXCEPT !.files = @ \cup {CardFor("server", n, TRUE)}]
    BY DEF handleUVGimme, clientVars
  <1>V. /\ View = rows /\ UNCHANGED View /\ (Agree' <=> Agree)
        /\ \A t, m, full : CardFor(t, m, full) = ViewCard(t, m, full)
    BY <1>2, Settled, SettledNext, SameTables
  <1>3. Exchange /\ n \in Name
    BY <1>1, <1>2 DEF AgreeInv, Running, Opens, Quiet, NoRequest, TypeOK
  <1>4. /\ request'.hash = {} /\ request'.gimmes = request.gimmes \ {n}
        /\ request'.files = request.files
        /\ response'.igots = response.igots /\ response'.pushOK = response.pushOK
        /\ response'.files = response.files \cup {ViewCard("server", n, TRUE)}
    BY <1>1, <1>2, <1>V, <1>3 DEF TypeOK, Exchange
  <1>5. ViewCard("server", n, TRUE).name = n
    BY <1>3, CardFields DEF Side
  <1>6. \A m \in Name : (Asked(m)' <=> Asked(m)) /\ (Announced(m)' <=> Announced(m))
    BY <1>2, <1>4, <1>5 DEF Asked, Announced
  <1>7. CardsCurrent /\ AskedInTurn /\ uvHashSent
    BY <1>3 DEF Exchange
  <1>8. CardsCurrent'
    <2>1. \A m : /\ ViewCard("server", m, TRUE)' = ViewCard("server", m, TRUE)
                 /\ ViewCard("server", m, FALSE)' = ViewCard("server", m, FALSE)
      BY <1>2, <1>V DEF ViewCard
    <2>2. \A card \in response'.files : card = ViewCard("server", card.name, TRUE)
      BY <1>4, <1>5, <1>7 DEF CardsCurrent
    <2>3. \A card \in request'.files : card.row = View'["client"][card.name]
      BY <1>2, <1>V, <1>4, <1>7 DEF CardsCurrent
    <2>4. \A card \in response'.igots : /\ card = ViewCard("server", card.name, FALSE)
                                        /\ card.row.mtime # 0
      BY <1>4, <1>7 DEF CardsCurrent
    <2> QED BY <2>1, <2>2, <2>3, <2>4 DEF CardsCurrent
  <1>9. response.igots = {} /\ uvGimmes = {}
    BY <1>7 DEF AskedInTurn, NoRequest
  <1>10. AskedInTurn'
    <2>1. \A m \in request'.gimmes, card \in response'.files : card.name # m
      BY <1>4, <1>5, <1>7 DEF AskedInTurn
    <2>2. ASSUME NEW m \in Name, Asked(m)'
          PROVE  /\ uvToSend'[m] = "no" /\ View'["client"][m] = NoRow
                 /\ View'["server"][m].mtime # 0
                 /\ ~Announced(m)' /\ \A card \in request'.files : card.name # m
      BY <1>2, <1>V, <1>4, <1>6, <1>7, <2>2 DEF AskedInTurn
    <2> QED BY <1>2, <1>4, <1>9, <2>1, <2>2 DEF AskedInTurn
  <1>11. ASSUME NEW m \in Name, Differs(m)' PROVE Asked(m)' \/ Announced(m)' \/ Offered(m)'
    <2>1. Differs(m)
      BY <1>2, <1>V, <1>11, SameTablesSameView
    <2>2. Offered(m) => Offered(m)'
      BY <1>2, <1>V, <1>4 DEF Offered, Offer, ViewCard
    <2> QED BY <1>3, <1>6, <2>1, <2>2 DEF Exchange
  <1> QED BY <1>2, <1>3, <1>4, <1>7, <1>8, <1>10, <1>11 DEF Exchange

(* The server takes a file: the client's row, if it wins, is now at both    *)
(* sides.                                                                   *)
LEMMA FileAgrees ==
    ASSUME UVInv, AgreeInv, calm, pushOK, NEW card \in request.files, handleUVFile(card)
    PROVE  Exchange'
  <1> DEFINE n == card.name
  <1>1. TypeOK
    BY DEF UVInv
  <1>2. /\ st = "serving" /\ st' = "serving" /\ request.gimmes = {}
        /\ UNCHANGED <<rows, uvToSend, uvGimmes, uvHashSent, uvPushOK, response>>
        /\ request' = [request EXCEPT !.files = @ \ {card}]
        /\ hand = {} /\ hand' = Takes("server", card)
    BY DEF handleUVFile, clientVars
  <1>V. View = rows
    BY <1>2, Settled
  <1>3. Exchange
    BY <1>2 DEF AgreeInv, Running, Opens, Quiet, NoRequest
  <1>4. /\ request'.hash = {} /\ request'.gimmes = {}
        /\ request'.files = request.files \ {card}
    BY <1>1, <1>2, <1>3 DEF TypeOK, Exchange
  <1>5. CardsCurrent /\ AskedInTurn /\ uvHashSent
    BY <1>3 DEF Exchange
  <1>6. card \in Card /\ n \in Name /\ card.row = View["client"][n] /\ card.row \in Row
    BY <1>1, <1>5, RowFacts DEF TypeOK, CardsCurrent
  <1>7. response.igots = {}
    BY <1>5 DEF AskedInTurn, NoRequest
  <1>8. ~Asked(n) /\ ~Asked(n)' /\ ~Announced(n)
    <2>1. ~Asked(n) /\ ~Announced(n)
      BY <1>5, <1>6, <1>7 DEF AskedInTurn, Announced
    <2>2. Asked(n)' => Asked(n)
      BY <1>2, <1>4 DEF Asked
    <2> QED BY <2>1, <2>2
  <1>9. /\ \A m \in Name : View'["client"][m] = View["client"][m]
        /\ \A m \in Name : m # n => View'["server"][m] = View["server"][m]
        /\ \/ View'["server"][n] = card.row
           \/ /\ View'["server"][n] = View["server"][n]
              /\ ~(Accepts(View["server"][n], card.row) /\ (card.full \/ card.row.hash = 0))
    <2>1. CASE Accepts(View["server"][n], card.row) /\ (card.full \/ card.row.hash = 0)
      <3>1. hand' = {StatementFor("server", card, card.row, "row")}
        BY <1>2, <1>V, <2>1 DEF Takes
      <3>2. PICK k \in Statement : k = StatementFor("server", card, card.row, "row")
        BY <1>1, <1>6, StatementFacts DEF Side
      <3>3. k.side = "server" /\ k.name = n /\ After(k) = card.row
        BY <1>1, <1>6, <3>2, StatementFacts DEF Side
      <3> QED BY <1>1, <1>2, <1>6, <3>1, <3>2, <3>3, TakenView DEF Side
    <2>2. CASE ~(Accepts(View["server"][n], card.row) /\ (card.full \/ card.row.hash = 0))
      BY <1>2, <1>V, <2>2, SettledNext DEF Takes
    <2> QED BY <2>1, <2>2
  <1>10. \A m \in Name : (Asked(m)' <=> Asked(m)) /\ (Announced(m)' <=> Announced(m))
    BY <1>2, <1>4 DEF Asked, Announced
  <1>11. request.files \subseteq Card /\ response.files \subseteq Card
    BY <1>1 DEF TypeOK
  <1>12. CardsCurrent'
    <2>1. \A c \in request'.files : c.row = View'["client"][c.name]
      BY <1>4, <1>5, <1>9, <1>11, RowFacts, <1>1 DEF CardsCurrent
    <2>2. ASSUME NEW c \in response.files
          PROVE  c = ViewCard("server", c.name, TRUE)'
      <3>1. c.name \in Name /\ Asked(c.name)
        BY <1>1, <1>11, RowFacts DEF Asked
      <3>2. View'["server"][c.name] = View["server"][c.name]
        BY <1>8, <1>9, <3>1
      <3>3. ViewCard("server", c.name, TRUE)' = ViewCard("server", c.name, TRUE)
        BY <3>2 DEF ViewCard
      <3> QED BY <1>5, <3>3 DEF CardsCurrent
    <2> QED BY <1>2, <1>7, <2>1, <2>2 DEF CardsCurrent
  <1>13. AskedInTurn'
    <2>1. ASSUME NEW m \in Name, Asked(m)'
          PROVE  /\ uvToSend'[m] = "no" /\ View'["client"][m] = NoRow
                 /\ View'["server"][m].mtime # 0
                 /\ ~Announced(m)' /\ \A c \in request'.files : c.name # m
      BY <1>2, <1>4, <1>5, <1>8, <1>9, <1>10, <2>1 DEF AskedInTurn
    <2> QED BY <1>2, <1>4, <1>5, <1>7, <2>1 DEF AskedInTurn
  <1>14. ASSUME NEW m \in Name, Differs(m)' PROVE Asked(m)' \/ Announced(m)' \/ Offered(m)'
    <2>1. CASE m # n
      <3>1. Differs(m) /\ (Accepts(View["server"][m], View["client"][m])
                             <=> Accepts(View["server"][m], View["client"][m])')
        BY <1>9, <1>14, <2>1 DEF Differs
      <3>2. Offer(m)' = Offer(m) /\ Offer(m).name = m
        BY <1>9 DEF Offer, ViewCard
      <3>3. Offered(m) => Offered(m)'
        BY <1>2, <1>4, <2>1, <3>1, <3>2 DEF Offered
      <3> QED BY <1>3, <1>10, <3>1, <3>3 DEF Exchange
    <2>2. CASE m = n
      <3>1. /\ View'["server"][n] = View["server"][n]
            /\ ~(Accepts(View["server"][n], card.row) /\ (card.full \/ card.row.hash = 0))
        BY <1>6, <1>9, <1>14, <2>2 DEF Differs
      <3>2. Offered(n)
        <4>1. Differs(n)
          BY <1>6, <1>9, <1>14, <2>2, <3>1 DEF Differs
        <4> QED BY <1>3, <1>6, <1>8, <4>1 DEF Exchange
      <3>3. card # Offer(n)
        <4>1. /\ Offer(n).full = (View["client"][n].hash # 0)
              /\ Offer(n).row = View["client"][n]
          BY DEF Offer, ViewCard
        <4> QED BY <1>6, <3>1, <3>2, <4>1 DEF Offered
      <3>4. Offer(n)' = Offer(n)
        BY <1>6, <1>9 DEF Offer, ViewCard
      <3>5. Offered(n)'
        BY <1>2, <1>4, <1>6, <1>9, <3>1, <3>2, <3>3, <3>4 DEF Offered
      <3> QED BY <2>2, <3>5
    <2> QED BY <2>1, <2>2
  <1> QED BY <1>2, <1>3, <1>4, <1>5, <1>12, <1>13, <1>14 DEF Exchange

(* The client takes an announcement: its row is the same, is dropped and    *)
(* asked for, or wins and is queued.                                        *)
LEMMA IGotAgrees ==
    ASSUME UVInv, AgreeInv, calm, pushOK, NEW card \in response.igots, handleUVIGotCard(card)
    PROVE  Exchange'
  <1> DEFINE n == card.name
             local == View["client"][n]
             status == Status(local, card.row)
  <1>1. TypeOK /\ RowsStamped
    BY DEF UVInv, AllStamped
  <1>2. /\ st = "receiving" /\ st' = "receiving"
        /\ UNCHANGED <<rows, uvHashSent, uvPushOK, request>> /\ hand = {} /\ View = rows
        /\ response' = [response EXCEPT !.igots = @ \ {card}]
        /\ hand' = IGotTakes(card, status)
        /\ uvToSend' = [uvToSend EXCEPT ![n] = QueueAfter(status, @)]
        /\ uvGimmes' = IF status < 2 /\ card.row.hash # 0 THEN uvGimmes \cup {n} ELSE uvGimmes
    BY Settled DEF handleUVIGotCard
  <1>3. Exchange
    BY <1>2 DEF AgreeInv, Running, Opens, Quiet, NoResponse
  <1>4. CardsCurrent /\ AskedInTurn /\ uvHashSent /\ uvPushOK
    BY <1>2, <1>3 DEF Exchange
  <1>5. request = NoRequest /\ response.files = {} /\ request.hash = {} /\ request.gimmes = {}
        /\ request.files = {}
    BY <1>4 DEF AskedInTurn, NoRequest
  <1>6. /\ response'.igots = response.igots \ {card} /\ response'.files = {}
        /\ response'.pushOK = response.pushOK
    BY <1>1, <1>2, <1>5 DEF TypeOK
  <1>7. /\ card \in Card /\ n \in Name /\ card.row = View["server"][n] /\ card.row \in Row
        /\ card.row.mtime # 0 /\ local \in Row
    <2>1. card \in Card /\ n \in Name /\ card.row \in Row /\ local \in Row
      BY <1>1, <1>2, RowFacts DEF TypeOK, Side
    <2>2. card = ViewCard("server", n, FALSE) /\ card.row.mtime # 0
      BY <1>4 DEF CardsCurrent
    <2> QED BY <2>1, <2>2, CardFields DEF Side
  <1>8. /\ status \in 0..5 /\ (status = 0 <=> local.mtime = 0)
        /\ status = 2 => card.row = [local EXCEPT !.mtime = card.row.mtime]
        /\ status \in {2, 3, 4} => local.hash = card.row.hash
        /\ status = 5 => Accepts(card.row, local)
    BY <1>7, StatusFacts, StatusWins
  <1>9. status = 0 => local = NoRow
    BY <1>1, <1>2, <1>7, <1>8 DEF RowsStamped, Stamped, Side
  <1> HIDE DEF status
  <1>10. /\ \A m \in Name : View'["server"][m] = View["server"][m]
         /\ \A m \in Name : m # n => View'["client"][m] = View["client"][m]
         /\ status < 2 /\ card.row.hash # 0 => View'["client"][n] = NoRow
         /\ ~(status < 2 /\ card.row.hash # 0) /\ status # 5 =>
               View'["client"][n].hash = card.row.hash
         /\ status = 5 => View'["client"][n] = local
    <2> DEFINE Result(row) == /\ \A m \in Name : View'["server"][m] = View["server"][m]
                              /\ \A m \in Name : m # n => View'["client"][m] = View["client"][m]
                              /\ View'["client"][n] = row
    <2>0. ASSUME NEW row \in Row, NEW sets \in {"row", "mtime"},
                 hand' = {StatementFor("client", card, row, sets)},
                 sets = "row" \/ (status = 2 /\ row = card.row)
          PROVE  Result(row)
      <3>1. PICK k \in Statement : k = StatementFor("client", card, row, sets)
        BY <1>1, <1>7, StatementFacts DEF Side
      <3>2. k.side = "client" /\ k.name = n /\ After(k) = row
        <4>1. status = 2 => local # NoRow
          BY <1>8 DEF NoRow
        <4> QED BY <1>1, <1>2, <1>7, <1>8, <2>0, <3>1, <4>1, StatementFacts DEF Side
      <3> QED BY <1>1, <1>2, <1>7, <2>0, <3>1, <3>2, TakenView DEF Side
    <2> HIDE DEF Result
    <2>1. CASE status \in {0, 1} /\ card.row.hash # 0
      <3>1. hand' = {StatementFor("client", card, NoRow, "row")} BY <1>2, <2>1 DEF IGotTakes
      <3>2. Result(NoRow) BY <1>1, <2>0, <3>1, RowFacts
      <3> QED BY <2>1, <3>2 DEF Result
    <2>2. CASE status = 1 /\ card.row.hash = 0
      <3>1. hand' = {StatementFor("client", card, card.row, "row")} BY <1>2, <2>2 DEF IGotTakes
      <3>2. Result(card.row) BY <1>7, <2>0, <3>1
      <3> QED BY <2>2, <3>2 DEF Result
    <2>3. CASE status = 2
      <3>1. hand' = {StatementFor("client", card, card.row, "mtime")}
        BY <1>2, <2>3 DEF IGotTakes
      <3>2. Result(card.row) BY <1>7, <2>0, <2>3, <3>1
      <3> QED BY <2>3, <3>2 DEF Result
    <2>4. CASE (status = 0 /\ card.row.hash = 0) \/ status \in {3, 4, 5}
      <3>1. hand' = {} BY <1>2, <2>4 DEF IGotTakes
      <3>2. View' = View BY <1>2, <3>1, SettledNext
      <3>3. status = 0 => local.hash = 0 BY <1>9 DEF NoRow
      <3> QED BY <1>8, <2>4, <3>2, <3>3
    <2>5. status \in {0, 1, 2, 3, 4, 5} BY <1>8
    <2> QED BY <2>1, <2>2, <2>3, <2>4, <2>5
  <1>11. /\ uvToSend'[n] = QueueAfter(status, uvToSend[n])
         /\ \A m \in Name : m # n => uvToSend'[m] = uvToSend[m]
    BY <1>1, <1>2, <1>7 DEF TypeOK
  <1>12. /\ status < 2 => uvToSend'[n] = "no"
         /\ status = 5 => uvToSend'[n] = "full"
    <2>1. status \in {0, 1, 2, 3, 4, 5} BY <1>8
    <2> QED BY <1>11, <2>1 DEF QueueAfter
  <1>13. \A c \in response.igots : c.name = n => c = card
    BY <1>4 DEF CardsCurrent
  <1>14. /\ ~Announced(n)'
         /\ \A m \in Name : m # n => (Announced(m)' <=> Announced(m))
    BY <1>6, <1>13 DEF Announced
  <1>15. /\ \A m \in Name : m # n => (Asked(m)' <=> Asked(m))
         /\ ~Asked(n)
         /\ Asked(n)' <=> status < 2 /\ card.row.hash # 0
    <2>1. ~Asked(n)
      BY <1>4, <1>7 DEF AskedInTurn, Announced
    <2>2. \A m \in Name : /\ Asked(m) <=> m \in uvGimmes
                          /\ Asked(m)' <=> m \in uvGimmes'
      BY <1>2, <1>5, <1>6 DEF Asked
    <2> QED BY <1>2, <1>7, <2>1, <2>2
  <1>16. CardsCurrent'
    <2>1. ASSUME NEW c \in response'.igots
          PROVE  c = ViewCard("server", c.name, FALSE)' /\ c.row.mtime # 0
      <3>1. c \in response.igots /\ c \in Card
        BY <1>1, <1>6 DEF TypeOK
      <3>2. c.name \in Name
        BY <1>1, <3>1, RowFacts
      <3>3. ViewCard("server", c.name, FALSE)' = ViewCard("server", c.name, FALSE)
        BY <1>10, <3>2 DEF ViewCard
      <3> QED BY <1>4, <3>1, <3>3 DEF CardsCurrent
    <2> QED BY <1>2, <1>5, <1>6, <2>1 DEF CardsCurrent
  <1>17. AskedInTurn'
    <2>1. ASSUME NEW m \in Name, Asked(m)'
          PROVE  /\ uvToSend'[m] = "no" /\ View'["client"][m] = NoRow
                 /\ View'["server"][m].mtime # 0
                 /\ ~Announced(m)' /\ \A c \in request'.files : c.name # m
      <3>1. CASE m = n
        BY <1>2, <1>5, <1>7, <1>10, <1>12, <1>14, <1>15, <2>1, <3>1
      <3>2. CASE m # n
        BY <1>2, <1>4, <1>5, <1>10, <1>11, <1>14, <1>15, <2>1, <3>2 DEF AskedInTurn
      <3> QED BY <3>1, <3>2
    <2> QED BY <1>2, <1>5, <1>6, <2>1 DEF AskedInTurn
  <1>18. ASSUME NEW m \in Name, Differs(m)' PROVE Asked(m)' \/ Announced(m)' \/ Offered(m)'
    <2>1. CASE m # n
      <3>1. Differs(m) /\ (Offered(m) => Offered(m)')
        BY <1>2, <1>10, <1>11, <1>18, <2>1 DEF Differs, Offered, Offer, ViewCard
      <3> QED BY <1>3, <1>14, <1>15, <2>1, <3>1 DEF Exchange
    <2>2. CASE m = n
      <3>1. Asked(n)' \/ status = 5
        BY <1>7, <1>10, <1>15, <1>18, <2>2 DEF Differs
      <3>2. status = 5 => Offered(n)'
        BY <1>7, <1>8, <1>10, <1>12 DEF Offered
      <3> QED BY <2>2, <3>1, <3>2
    <2> QED BY <2>1, <2>2
  <1> QED BY <1>2, <1>4, <1>5, <1>16, <1>17, <1>18 DEF Exchange

(* The client takes a file it has asked for: it has no row and stores it.   *)
LEMMA FileCardAgrees ==
    ASSUME UVInv, AgreeInv, calm, pushOK, NEW card \in response.files, handleUVFileCard(card)
    PROVE  Exchange'
  <1> DEFINE n == card.name
  <1>1. TypeOK
    BY DEF UVInv
  <1>2. /\ st = "receiving" /\ st' = "receiving" /\ response.igots = {}
        /\ UNCHANGED <<rows, uvToSend, uvGimmes, uvHashSent, uvPushOK, request>>
        /\ response' = [response EXCEPT !.files = @ \ {card}]
        /\ hand = {} /\ hand' = Takes("client", card) /\ View = rows
    BY Settled DEF handleUVFileCard
  <1>3. Exchange
    BY <1>2 DEF AgreeInv, Running, Opens, Quiet, NoResponse
  <1>4. CardsCurrent /\ AskedInTurn /\ uvHashSent /\ uvPushOK /\ request = NoRequest
    BY <1>2, <1>3 DEF Exchange, AgreeInv, OneMessage
  <1>5. request.hash = {} /\ request.gimmes = {} /\ request.files = {}
    BY <1>4 DEF NoRequest
  <1>6. /\ response'.files = response.files \ {card} /\ response'.igots = {}
        /\ response'.pushOK = response.pushOK
    BY <1>1, <1>2 DEF TypeOK
  <1>7. card \in Card /\ n \in Name /\ card.row = View["server"][n] /\ card.row \in Row /\ card.full
    <2>1. card \in Card /\ n \in Name /\ card.row \in Row
      BY <1>1, RowFacts DEF TypeOK
    <2>2. card = ViewCard("server", n, TRUE)
      BY <1>4 DEF CardsCurrent
    <2> QED BY <2>1, <2>2, CardFields DEF Side
  <1>8. View["client"][n] = NoRow /\ uvGimmes = {}
    BY <1>4, <1>7 DEF AskedInTurn, Asked
  <1>9. hand' = {StatementFor("client", card, card.row, "row")}
    <2>1. Accepts(View["client"][n], card.row)
      BY <1>1, <1>7, <1>8, RowFacts, StatusWins
    <2> QED BY <1>2, <1>7, <2>1 DEF Takes
  <1>10. /\ \A m \in Name : View'["server"][m] = View["server"][m]
         /\ \A m \in Name : m # n => View'["client"][m] = View["client"][m]
         /\ View'["client"][n] = View["server"][n]
    <2>1. PICK k \in Statement : k = StatementFor("client", card, card.row, "row")
      BY <1>1, <1>7, StatementFacts DEF Side
    <2>2. k.side = "client" /\ k.name = n /\ After(k) = card.row
      BY <1>1, <1>7, <2>1, StatementFacts DEF Side
    <2> QED BY <1>1, <1>2, <1>7, <1>9, <2>1, <2>2, TakenView DEF Side
  <1>11. \A c \in response.files : c.name = n => c = card
    BY <1>4 DEF CardsCurrent
  <1>12. /\ ~Asked(n)' /\ \A m \in Name : m # n => (Asked(m)' <=> Asked(m))
         /\ \A m \in Name : ~Announced(m) /\ ~Announced(m)'
    BY <1>2, <1>5, <1>6, <1>8, <1>11 DEF Asked, Announced
  <1>13. CardsCurrent'
    <2>1. ASSUME NEW c \in response'.files PROVE c = ViewCard("server", c.name, TRUE)'
      <3>1. c \in response.files /\ c \in Card
        BY <1>1, <1>6 DEF TypeOK
      <3>2. c.name \in Name
        BY <1>1, <3>1, RowFacts
      <3>3. ViewCard("server", c.name, TRUE)' = ViewCard("server", c.name, TRUE)
        BY <1>10, <3>2 DEF ViewCard
      <3> QED BY <1>4, <3>1, <3>3 DEF CardsCurrent
    <2> QED BY <1>2, <1>5, <1>6, <2>1 DEF CardsCurrent
  <1>14. AskedInTurn'
    <2>1. ASSUME NEW m \in Name, Asked(m)'
          PROVE  /\ uvToSend'[m] = "no" /\ View'["client"][m] = NoRow
                 /\ View'["server"][m].mtime # 0
                 /\ ~Announced(m)' /\ \A c \in request'.files : c.name # m
      BY <1>2, <1>4, <1>5, <1>10, <1>12, <2>1 DEF AskedInTurn
    <2> QED BY <1>2, <1>5, <1>6, <1>8, <2>1 DEF AskedInTurn
  <1>15. ASSUME NEW m \in Name, Differs(m)' PROVE Asked(m)' \/ Announced(m)' \/ Offered(m)'
    <2>1. m # n
      BY <1>7, <1>10, <1>15 DEF Differs
    <2>2. Differs(m) /\ (Offered(m) => Offered(m)')
      BY <1>2, <1>10, <1>15, <2>1 DEF Differs, Offered, Offer, ViewCard
    <2> QED BY <1>3, <1>12, <2>1, <2>2 DEF Exchange
  <1> QED BY <1>2, <1>4, <1>5, <1>13, <1>14, <1>15 DEF Exchange

LEMMA RespondAgrees ==
    ASSUME UVInv, AgreeInv, calm, pushOK, Respond
    PROVE  Quiet' \/ Exchange'
  <1>1. /\ st = "serving" /\ st' = "receiving" /\ request = NoRequest
        /\ uvPushOK' = (uvPushOK \/ response.pushOK)
        /\ UNCHANGED <<rows, misled, uvToSend, uvGimmes, uvHashSent, request, response, hand>>
        /\ hand = {}
    BY DEF Respond, messageVars
  <1>V. UNCHANGED View /\ (Agree' <=> Agree)
    BY <1>1, SettledNext, SameTables
  <1>2. Quiet \/ Exchange
    BY <1>1 DEF AgreeInv, Running, Opens, NoRequest
  <1>3. CASE Quiet
    BY <1>1, <1>V, <1>3 DEF Quiet, NoResponse
  <1>4. CASE Exchange
    <2>1. \A n : (Asked(n)' <=> Asked(n)) /\ (Announced(n)' <=> Announced(n))
      BY <1>1 DEF Asked, Announced
    <2>2. CardsCurrent' /\ AskedInTurn'
      BY <1>1, <1>V, <1>4, <2>1 DEF Exchange, CardsCurrent, AskedInTurn, ViewCard
    <2>3. \A n \in Name : (Differs(n)' <=> Differs(n)) /\ (Offered(n)' <=> Offered(n))
      BY <1>1, <1>V DEF Differs, Offered, Offer, ViewCard
    <2> QED BY <1>1, <1>4, <2>1, <2>2, <2>3 DEF Exchange
  <1> QED BY <1>2, <1>3, <1>4

(* A round ends: the client goes on while it waits for a row or has one to  *)
(* send.                                                                    *)
LEMMA RoundAgrees ==
    ASSUME UVInv, AgreeInv, calm, pushOK, EndRound
    PROVE  /\ st' = "done" => Agree' \/ misled' # {}
           /\ st' \in Running => Quiet' \/ Exchange'
  <1>1. /\ st = "receiving" /\ response.igots = {} /\ response.files = {}
        /\ response' = NoResponse
        /\ UNCHANGED <<rows, misled, request, hand>> /\ hand = {}
        /\ st' = "ready" => UNCHANGED <<uvGimmes, uvHashSent, uvPushOK>>
    BY DEF EndRound
  <1>V. View = rows /\ UNCHANGED View /\ (Agree' <=> Agree)
    BY <1>1, Settled, SettledNext, SameTables
  <1>2. request = NoRequest /\ (Quiet \/ Exchange)
    BY <1>1 DEF AgreeInv, OneMessage, Running, Opens
  <1>3. /\ uvPushOK /\ st' = "ready" => uvToSend' = uvToSend
        /\ st' = "ready" => (uvHashSent' <=> uvHashSent) /\ (uvPushOK' <=> uvPushOK)
        /\ st' = "done" => ~GoesOn
        /\ st' \in {"done", "ready", "exceeded"}
    BY DEF EndRound
  <1>4. CASE Quiet
    BY <1>1, <1>2, <1>V, <1>3, <1>4 DEF Quiet, Running
  <1>5. CASE Exchange
    <2>1. uvHashSent /\ uvPushOK /\ CardsCurrent /\ AskedInTurn
      BY <1>1, <1>5 DEF Exchange
    <2>2. /\ request.hash = {} /\ request.gimmes = {} /\ request.files = {}
          /\ response'.igots = {} /\ response'.files = {}
      BY <1>1, <1>2 DEF NoRequest, NoResponse
    <2>3. \A n \in Name : ~Announced(n) /\ (Asked(n) <=> n \in uvGimmes)
      BY <1>1, <2>2 DEF Asked, Announced
    <2>4. ASSUME st' = "done" PROVE Agree'
      <3>1. uvGimmes = {} /\ Queued = {}
        BY <1>3, <2>1, <2>4 DEF GoesOn
      <3>2. \A n \in Name : ~Offered(n)
        BY <2>2, <3>1 DEF Offered, Queued
      <3>3. \A n \in Name : ~Differs(n)
        BY <1>5, <2>3, <3>1, <3>2 DEF Exchange
      <3> QED BY <1>V, <3>3 DEF Differs, Agree
    <2>5. ASSUME st' = "ready" PROVE Exchange'
      <3>1. UNCHANGED <<uvToSend, uvGimmes, uvHashSent, uvPushOK>>
        BY <1>1, <1>3, <2>1, <2>5
      <3>2. \A n \in Name : ~Announced(n)' /\ (Asked(n)' <=> Asked(n))
        BY <1>1, <2>2, <2>3, <3>1 DEF Asked, Announced
      <3>3. \A n \in Name : (Differs(n)' <=> Differs(n)) /\ (Offered(n)' <=> Offered(n))
        BY <1>1, <1>V, <3>1 DEF Differs, Offered, Offer, ViewCard
      <3>4. CardsCurrent'
        BY <1>1, <2>2 DEF CardsCurrent
      <3>5. AskedInTurn'
        <4>1. ASSUME NEW n \in Name, Asked(n)'
              PROVE  /\ uvToSend'[n] = "no" /\ View'["client"][n] = NoRow
                     /\ View'["server"][n].mtime # 0
                     /\ ~Announced(n)' /\ \A card \in request'.files : card.name # n
          BY <1>1, <1>V, <2>1, <2>2, <3>1, <3>2, <4>1 DEF AskedInTurn
        <4> QED BY <1>1, <2>2, <4>1 DEF AskedInTurn
      <3>6. uvHashSent' /\ uvPushOK'
        BY <1>3, <2>1, <2>5
      <3> QED BY <1>1, <1>5, <2>2, <2>3, <3>2, <3>3, <3>4, <3>5, <3>6 DEF Exchange
    <2> QED BY <1>3, <2>4, <2>5 DEF Running
  <1> QED BY <1>2, <1>4, <1>5

LEMMA StartAgrees ==
    ASSUME NEW granted, StartWith(granted)
    PROVE  Opens'
  BY DEF StartWith, Opens, NoRequest

LEMMA SamePhase ==
    ASSUME UNCHANGED vars
    PROVE  AgreeInv <=> AgreeInv'
  <1>1. UNCHANGED <<rows, cached, misled, st, pushOK, calm, uvToSend, uvGimmes, uvHashSent,
                    uvPushOK, request, response, hand, hashing>>
    BY DEF vars, clientVars, messageVars, observerVars
  <1>2. View' = View
    BY <1>1 DEF View, After
  <1> QED BY <1>1, <1>2
      DEF AgreeInv, HashFresh, Catalog, OneMessage, Opens, Quiet, Exchange, Agree, CardsCurrent,
          AskedInTurn, Asked, Announced, Differs, Offered, Offer, ViewCard

(* The statement in hand is executed: the view stays.                       *)
LEMMA ExecuteAgrees ==
    ASSUME UVInv, AgreeInv, calm, pushOK, NEW h \in hand, Execute(h), st \in Running
    PROVE  Exchange'
  <1>1. /\ View' = View
        /\ UNCHANGED <<st, uvToSend, uvGimmes, uvHashSent, uvPushOK, request, response>>
    BY ExecutedView DEF Execute, clientVars
  <1>2. Exchange
    BY DEF AgreeInv, Opens, Quiet
  <1>3. \A n : (Asked(n)' <=> Asked(n)) /\ (Announced(n)' <=> Announced(n))
    BY <1>1 DEF Asked, Announced
  <1>4. CardsCurrent' /\ AskedInTurn'
    BY <1>1, <1>2, <1>3 DEF Exchange, CardsCurrent, AskedInTurn, ViewCard
  <1>5. \A n \in Name : (Differs(n)' <=> Differs(n)) /\ (Offered(n)' <=> Offered(n))
    BY <1>1 DEF Differs, Offered, Offer, ViewCard
  <1> QED BY <1>1, <1>2, <1>3, <1>4, <1>5 DEF Exchange

(* A catalog is computed while the session opens.                           *)
LEMMA ComputesAgrees ==
    ASSUME UVInv, AgreeInv, calm, pushOK, ClientHash \/ ServerHash
    PROVE  Opens'
  <1>1. /\ UNCHANGED <<rows, misled, st, uvToSend, uvGimmes, uvHashSent, uvPushOK,
                       request, response, hand>>
        /\ \/ st = "ready" /\ ~uvHashSent /\ hashing' = {Catalog("client")}
           \/ st = "serving" /\ request.hash # {} /\ hashing' = {Catalog("server")}
    BY DEF ClientHash, ServerHash, Computes, clientVars
  <1>2. Opens
    BY <1>1 DEF AgreeInv, Running, Quiet, Exchange, NoRequest
  <1>3. \A s : Catalog(s)' = Catalog(s)
    BY <1>1, SameTables
  <1> QED BY <1>1, <1>2, <1>3 DEF Opens

LEMMA NextAgrees == UVInv /\ AgreeInv /\ [Next]_vars => AgreeInv'
  <1> SUFFICES ASSUME UVInv, AgreeInv, [Next]_vars PROVE AgreeInv'
    OBVIOUS
  <1>0. TypeOK /\ StoresTyped /\ HashFresh /\ OneMessage
    BY Types DEF UVInv, AgreeInv
  <1> DEFINE Session == calm /\ pushOK => /\ st = "done" => Agree \/ misled # {}
                                          /\ st \in Running => Opens \/ Quiet \/ Exchange
  <1>Q. HashFresh' /\ OneMessage' /\ Session' => AgreeInv'
    BY DEF AgreeInv
  <1>1. ASSUME NEW granted \in Grants, StartWith(granted) PROVE AgreeInv'
    <2>1. st' = "ready" /\ request' = NoRequest /\ response' = NoResponse /\ hand' = {}
          /\ UNCHANGED <<rows, cached, misled>>
      BY <1>1 DEF StartWith
    <2>2. HashFresh' /\ OneMessage'
      BY <1>0, <2>1, FreshSame DEF OneMessage
    <2> QED BY <1>1, <1>Q, <2>1, <2>2, StartAgrees
  <1>2. CASE BuildRequest
    <2>1. st = "ready" /\ st' = "serving" /\ UNCHANGED <<rows, pushOK, calm, response>>
      BY <1>2 DEF BuildRequest, observerVars
    <2>2. UNCHANGED <<cached, misled>> \/ (Hashed("client") /\ Caches("client"))
      BY <1>2 DEF BuildRequest
    <2>3. HashFresh' /\ OneMessage'
      BY <1>0, <2>1, <2>2, FreshSame, FreshHashed DEF OneMessage, Side
    <2> QED BY <1>2, <1>Q, <2>1, <2>3, BuildAgrees
  <1>3. CASE handlePragmaUVHash
    <2>1. /\ st = "serving" /\ UNCHANGED <<rows, st, pushOK, calm>>
          /\ Hashed("server") /\ Caches("server")
      BY <1>3 DEF handlePragmaUVHash, observerVars
    <2>2. HashFresh' /\ OneMessage'
      BY <1>0, <2>1, FreshHashed DEF OneMessage, Side
    <2> QED BY <1>3, <1>Q, <2>1, <2>2, PragmaAgrees
  <1>4. ASSUME NEW n \in request.gimmes, handleUVGimme(n) PROVE AgreeInv'
    <2>1. st = "serving" /\ UNCHANGED <<rows, cached, misled, st, pushOK, calm>>
      BY <1>4 DEF handleUVGimme, observerVars
    <2>2. HashFresh' /\ OneMessage'
      BY <1>0, <2>1, FreshSame DEF OneMessage
    <2> QED BY <1>4, <1>Q, <2>1, <2>2, GimmeAgrees
  <1>5. ASSUME NEW card \in request.files, handleUVFile(card) PROVE AgreeInv'
    <2>1. st = "serving" /\ UNCHANGED <<rows, cached, misled, st, pushOK, calm>>
      BY <1>5 DEF handleUVFile, observerVars
    <2>2. HashFresh' /\ OneMessage'
      BY <1>0, <2>1, FreshSame DEF OneMessage
    <2> QED BY <1>5, <1>Q, <2>1, <2>2, FileAgrees
  <1>6. CASE Respond
    <2>1. st' = "receiving" /\ request = NoRequest
          /\ UNCHANGED <<rows, cached, misled, request, pushOK, calm>>
      BY <1>6 DEF Respond, observerVars, messageVars
    <2>2. HashFresh' /\ OneMessage'
      BY <1>0, <2>1, FreshSame DEF OneMessage
    <2> QED BY <1>6, <1>Q, <2>1, <2>2, RespondAgrees
  <1>7. ASSUME NEW card \in response.igots, handleUVIGotCard(card) PROVE AgreeInv'
    <2>1. st = "receiving" /\ UNCHANGED <<rows, cached, misled, st, request, pushOK, calm>>
      BY <1>7 DEF handleUVIGotCard, observerVars
    <2>2. HashFresh' /\ OneMessage'
      BY <1>0, <2>1, FreshSame DEF OneMessage
    <2> QED BY <1>7, <1>Q, <2>1, <2>2, IGotAgrees
  <1>8. ASSUME NEW card \in response.files, handleUVFileCard(card) PROVE AgreeInv'
    <2>1. st = "receiving" /\ UNCHANGED <<rows, cached, misled, st, request, pushOK, calm>>
      BY <1>8 DEF handleUVFileCard, observerVars
    <2>2. HashFresh' /\ OneMessage'
      BY <1>0, <2>1, FreshSame DEF OneMessage
    <2> QED BY <1>8, <1>Q, <2>1, <2>2, FileCardAgrees
  <1>9. CASE EndRound
    <2>1. /\ st = "receiving" /\ st' \in {"done", "exceeded", "ready"} /\ hand' = {}
          /\ response' = NoResponse
          /\ UNCHANGED <<rows, cached, misled, request, pushOK, calm>>
      BY <1>9 DEF EndRound, observerVars
    <2>2. HashFresh' /\ OneMessage'
      BY <1>0, <2>1, FreshSame DEF OneMessage
    <2> QED BY <1>9, <1>Q, <2>1, <2>2, RoundAgrees
  <1>10. ASSUME Interrupt \/ InsertFails PROVE AgreeInv'
    <2>1. /\ st' = "failed" /\ request' = NoRequest /\ response' = NoResponse /\ hand' = {}
          /\ \/ UNCHANGED <<rows, cached, misled>>
             \/ \E h \in hand : TearRow(h.side, h.name, After(h))
      BY <1>10 DEF Interrupt, InsertFails, Fails
    <2>2. HashFresh'
      BY <1>0, <2>1, FreshSame, FreshAfterPut, HandFacts
    <2>3. OneMessage'
      BY <2>1 DEF OneMessage
    <2> QED BY <1>Q, <2>1, <2>2, <2>3 DEF Running
  <1>11. ASSUME NEW s \in Side, NEW n \in Name, NEW row \in Row,
                Edit(s, n, row) \/ EditStops(s, n, row)
         PROVE  AgreeInv'
    <2>1. /\ PutRow(s, n, row) \/ TearRow(s, n, row)
          /\ ~calm' /\ UNCHANGED <<st, request, response, hand>>
      BY <1>11 DEF Edit, EditRow, EditStops, Edited, messageVars
    <2>2. HashFresh' /\ OneMessage'
      BY <1>0, <2>1, FreshAfterPut DEF OneMessage
    <2> QED BY <1>Q, <2>1, <2>2
  <1>12. ASSUME NEW h \in hand, Execute(h) PROVE AgreeInv'
    <2>1. /\ PutRow(h.side, h.name, After(h)) /\ h.side \in Side /\ hand # {} /\ hand' = {}
          /\ UNCHANGED <<st, request, response, pushOK, calm>>
      BY <1>0, <1>12, HandFacts DEF Execute, observerVars
    <2>2. HashFresh' /\ OneMessage' /\ st \in {"serving", "receiving"}
      BY <1>0, <2>1, FreshAfterPut DEF OneMessage
    <2> QED BY <1>12, <1>Q, <2>1, <2>2, ExecuteAgrees DEF Running
  <1>13. ASSUME ClientHash \/ ServerHash PROVE AgreeInv'
    <2>1. /\ st \in {"ready", "serving"}
          /\ UNCHANGED <<rows, cached, misled, st, request, response, hand, pushOK, calm>>
      BY <1>13 DEF ClientHash, ServerHash, Computes, observerVars
    <2>2. HashFresh' /\ OneMessage'
      BY <1>0, <2>1, FreshSame DEF OneMessage
    <2> QED BY <1>13, <1>Q, <2>1, <2>2, ComputesAgrees
  <1>14. CASE UNCHANGED vars
    BY <1>14, SamePhase
  <1>15. ASSUME Step PROVE AgreeInv'
    BY <1>2, <1>3, <1>4, <1>5, <1>6, <1>7, <1>8, <1>9, <1>12, <1>13, <1>15 DEF Step
  <1> QED BY <1>1, <1>10, <1>11, <1>14, <1>15, ConstantsAssumption DEF Next, Write, Delete

LEMMA InitAgrees == Init => AgreeInv
  BY DEF Init, AgreeInv, HashFresh, OneMessage, Running

(* A session that may push and ends without an error, with no edit since it *)
(* began and no hash of older rows in config, leaves the same files at both *)
(* sides, for any names, rows, budgets, rounds and interruptions before it: *)
(* a name on which the tables differ, or will once the statement in hand is *)
(* executed, is always announced, asked for, or a row of the client that    *)
(* wins and is queued or on its way, and the convergence test ends only     *)
(* when none of these is left (handleUVIGotCard, handleUVFile,              *)
(* processResponse).                                                        *)
THEOREM UVDoneAgrees == Spec => []DoneAgrees
  <1>1. Init => UVInv /\ AgreeInv BY InitUV, InitAgrees
  <1>2. UVInv /\ AgreeInv /\ [Next]_vars => UVInv' /\ AgreeInv' BY NextUV, NextAgrees
  <1>3. AgreeInv => DoneAgrees BY DEF AgreeInv, DoneAgrees
  <1> QED BY <1>1, <1>2, <1>3, PTL DEF Spec
=============================================================================
