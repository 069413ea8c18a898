-------------------------- MODULE CkinLockProofs --------------------------
(***************************************************************************)
(* Requests whose read and write do not overlap never let two clients hold  *)
(* the lock on a leaf, for any number of clients and parents, any timeout,  *)
(* any clock and any interleaving of the requests' statements.              *)
(***************************************************************************)
EXTENDS CkinLock, TLAPS

(* No lock is younger than the clock.                                       *)
NotInFuture ==
    /\ \A p \in Parent : mtime[p] <= now
    /\ \A c \in Client, p \in Parent : granted[c][p] <= now

(* A row bears the time at which its client was given the lock.             *)
RowIsGrant ==
    \A p \in Parent, c \in Client : holder[p] = c => mtime[p] = granted[c][p]

(* While a client counts on its lock there is a row, as young as its grant. *)
RowBacksHolder ==
    \A p \in leaf, c \in Client :
        Holds(c, p) => holder[p] # NoClient /\ granted[c][p] <= mtime[p]

(* What a client that holds a lock, or is about to write its row, does not  *)
(* share with another that holds it, unless they overlapped.                *)
Apart ==
    \A p \in leaf, c, d \in Client :
        /\ Holds(d, p)
        /\ Holds(c, p) \/ (pc[c] = "write" /\ target[c] = p)
        => c = d \/ (<<c, d>> \in overlap[p] /\ <<d, c>> \in overlap[p])

LockInv == TypeOK /\ NotInFuture /\ RowIsGrant /\ RowBacksHolder /\ Apart

LEMMA InitLockInv == Init => LockInv
  <1> SUFFICES ASSUME Init PROVE LockInv
    OBVIOUS
  <1> USE ConstantsAssumption DEF Init
  <1>1. TypeOK BY DEF TypeOK, Never
  <1>2. NotInFuture BY DEF NotInFuture, Never
  <1>3. RowIsGrant BY DEF RowIsGrant
  <1>4. RowBacksHolder /\ Apart BY DEF RowBacksHolder, Apart, Holds
  <1> QED BY <1>1, <1>2, <1>3, <1>4 DEF LockInv

(* The client in the row of a lock holds it as long as any other does.      *)
LEMMA RowHolds ==
  ASSUME LockInv, NEW p \in leaf, NEW c \in Client, NEW d \in Client,
         Holds(d, p), holder[p] = c
  PROVE  Holds(c, p)
  <1>1. p \in Parent BY DEF LockInv, TypeOK
  <1>2. mtime[p] = granted[c][p] /\ mtime[p] >= granted[d][p]
    BY <1>1 DEF LockInv, RowIsGrant, RowBacksHolder, TypeOK
  <1>3. mtime[p] \in 0..MaxTime /\ granted[d][p] \in Int /\ now \in Int
    BY <1>1 DEF LockInv, TypeOK, Never
  <1> QED BY <1>2, <1>3, ConstantsAssumption DEF Holds, Never

LEMMA NextLockInv ==
  ASSUME LockInv, [Next]_vars
  PROVE  LockInv'
  <1> USE ConstantsAssumption
  <1> USE DEF LockInv, Never
  <1>0. leaf \subseteq Parent /\ NoClient \notin Client BY DEF TypeOK
  <1>1. CASE Tick
    <2> USE <1>1 DEF Tick
    <2>1. TypeOK'
      <3>1. now' \in 0..MaxTime BY DEF TypeOK
      <3> QED BY <3>1 DEF TypeOK
    <2>2. NotInFuture'
      <3>1. now \in Int /\ now' = now + 1 BY DEF TypeOK
      <3>2. ASSUME NEW p \in Parent PROVE mtime'[p] <= now'
        BY <3>1 DEF NotInFuture, TypeOK
      <3>3. ASSUME NEW c \in Client, NEW p \in Parent PROVE granted'[c][p] <= now'
        <4>1. granted[c][p] \in Int BY DEF TypeOK
        <4> QED BY <3>1, <4>1 DEF NotInFuture
      <3> QED BY <3>2, <3>3 DEF NotInFuture
    <2>3. RowIsGrant' BY DEF RowIsGrant
    <2>4. ASSUME NEW p \in leaf, NEW c \in Client, Holds(c, p)' PROVE Holds(c, p)
      BY <2>4 DEF Holds, TypeOK
    <2>5. RowBacksHolder' BY <2>4 DEF RowBacksHolder
    <2>6. Apart' BY <2>4 DEF Apart
    <2> QED BY <2>1, <2>2, <2>3, <2>5, <2>6
  <1>2. ASSUME NEW q \in Parent, Checkin(q) PROVE LockInv'
    <2> USE <1>2 DEF Checkin
    <2>1. TypeOK' BY DEF TypeOK
    <2>2. NotInFuture' /\ RowIsGrant' BY DEF NotInFuture, RowIsGrant
    <2>3. RowBacksHolder' /\ Apart' BY DEF RowBacksHolder, Apart, Holds
    <2> QED BY <2>1, <2>2, <2>3
  <1>3. ASSUME NEW c \in Client, NEW q \in Parent, Request(c, q) PROVE LockInv'
    <2> USE <1>3 DEF Request
    <2>1. TypeOK' BY DEF TypeOK
    <2>2. NotInFuture' /\ RowIsGrant' BY DEF NotInFuture, RowIsGrant
    <2>3. RowBacksHolder' BY DEF RowBacksHolder, Holds
    <2>4. Apart' BY DEF Apart, Holds, TypeOK
    <2> QED BY <2>1, <2>2, <2>3, <2>4
  <1>4. ASSUME NEW c \in Client, Expire(c) PROVE LockInv'
    <2> USE <1>4 DEF Expire
    <2>1. TypeOK' BY DEF TypeOK
    <2>2. NotInFuture' BY DEF NotInFuture
    <2>3. RowIsGrant' BY <1>0 DEF RowIsGrant
    <2>4. RowBacksHolder'
      <3> SUFFICES ASSUME NEW p \in leaf, NEW d \in Client, Holds(d, p)
                   PROVE  holder'[p] # NoClient /\ granted[d][p] <= mtime[p]
        BY DEF RowBacksHolder, Holds
      <3>1. holder[p] # NoClient /\ granted[d][p] <= mtime[p] BY DEF RowBacksHolder
      <3>2. p \in Parent BY <1>0
      <3>3. ~Stale(p) BY <3>1, <3>2 DEF Holds, Stale, TypeOK
      <3> QED BY <3>1, <3>2, <3>3
    <2>5. Apart' BY DEF Apart, Holds, TypeOK
    <2> QED BY <2>1, <2>2, <2>3, <2>4, <2>5
  <1>5. ASSUME NEW c \in Client, Prune(c) PROVE LockInv'
    <2> USE <1>5 DEF Prune
    <2>1. TypeOK' BY DEF TypeOK
    <2>2. NotInFuture' BY DEF NotInFuture
    <2>3. RowIsGrant' BY <1>0 DEF RowIsGrant
    <2>4. RowBacksHolder' BY <1>0 DEF RowBacksHolder, Holds
    <2>5. Apart' BY DEF Apart, Holds, TypeOK
    <2> QED BY <2>1, <2>2, <2>3, <2>4, <2>5
  <1>6. ASSUME NEW c \in Client, Read(c) PROVE LockInv'
    <2> USE <1>6 DEF Read
    <2>0. target[c] \in Parent BY DEF TypeOK
    <2>1. \A d \in Client, p \in Parent :
             granted'[d][p] = IF Taken(c) /\ d = c /\ p = target[c] THEN -1 ELSE granted[d][p]
      <3>1. CASE Taken(c)
        BY <2>0, <3>1 DEF TypeOK
      <3>2. CASE ~Taken(c)
        BY <3>2
      <3> QED BY <3>1, <3>2
    <2>2. TypeOK'
      <3>1. granted' \in [Client -> [Parent -> (0..MaxTime) \cup {-1}]]
        <4>1. CASE Taken(c)
          <5> DEFINE mine == [granted[c] EXCEPT ![target[c]] = -1]
          <5>1. granted[c] \in [Parent -> (0..MaxTime) \cup {-1}] BY DEF TypeOK
          <5>2. mine \in [Parent -> (0..MaxTime) \cup {-1}] BY <5>1
          <5>3. granted' = [granted EXCEPT ![c] = mine] BY <4>1
          <5> HIDE DEF mine
          <5> QED BY <5>2, <5>3 DEF TypeOK
        <4>2. CASE ~Taken(c)
          BY <4>2 DEF TypeOK
        <4> QED BY <4>1, <4>2
      <3>2. overlap' \in [Parent -> SUBSET (Client \X Client)]
        BY <2>0 DEF TypeOK
      <3>3. pc' \in [Client -> {"idle", "expire", "prune", "read", "write"}]
        BY DEF TypeOK
      <3> QED BY <3>1, <3>2, <3>3 DEF TypeOK
    <2>3. NotInFuture'
      <3>1. now \in Nat BY DEF TypeOK
      <3> QED BY <2>1, <3>1 DEF NotInFuture
    <2>4. RowIsGrant'
      <3> SUFFICES ASSUME NEW p \in Parent, NEW d \in Client, holder[p] = d
                   PROVE  mtime[p] = granted'[d][p]
        BY DEF RowIsGrant
      <3> QED BY <2>1 DEF RowIsGrant, Taken
    <2>5. ASSUME NEW p \in leaf, NEW d \in Client, Holds(d, p)'
          PROVE  Holds(d, p) /\ granted'[d][p] = granted[d][p]
                 /\ ~(Taken(c) /\ d = c /\ p = target[c])
      BY <1>0, <2>1, <2>5 DEF Holds
    <2>6. RowBacksHolder' BY <2>5 DEF RowBacksHolder
    <2>7. Apart'
      <3> SUFFICES ASSUME NEW p \in leaf, NEW a \in Client, NEW d \in Client,
                          Holds(d, p)',
                          Holds(a, p)' \/ (pc'[a] = "write" /\ target[a] = p), a # d
                   PROVE  <<a, d>> \in overlap'[p] /\ <<d, a>> \in overlap'[p]
        BY DEF Apart
      <3>1. Holds(d, p) /\ ~(Taken(c) /\ d = c /\ p = target[c]) BY <2>5
      <3>2. p \in Parent BY <1>0
      <3>3. CASE a = c /\ p = target[c]
        <4>1. ~Taken(c) BY <2>5, <3>3 DEF TypeOK
        <4>2. Holds(c, p)
          <5>1. holder[p] = c
            BY <3>1, <3>3, <4>1 DEF Taken, RowBacksHolder
          <5> QED BY <3>1, <5>1, RowHolds
        <4>3. <<a, d>> \in overlap[p] /\ <<d, a>> \in overlap[p]
          BY <3>1, <3>3, <4>2 DEF Apart
        <4> QED BY <3>3, <4>1, <4>2, <4>3
      <3>4. CASE ~(a = c /\ p = target[c])
        <4>1. Holds(a, p) \/ (pc[a] = "write" /\ target[a] = p)
          BY <2>5, <3>4 DEF TypeOK
        <4>2. <<a, d>> \in overlap[p] /\ <<d, a>> \in overlap[p]
          BY <3>1, <4>1 DEF Apart
        <4>3. CASE d = c /\ p = target[c]
          BY <3>1, <4>2, <4>3
        <4>4. CASE ~(d = c /\ p = target[c])
          BY <3>2, <3>4, <4>2, <4>4 DEF TypeOK
        <4> QED BY <4>3, <4>4
      <3> QED BY <3>3, <3>4
    <2> QED BY <2>2, <2>3, <2>4, <2>6, <2>7
  <1>7. ASSUME NEW c \in Client, Write(c) PROVE LockInv'
    <2> USE <1>7 DEF Write, LockTime
    <2>0. target[c] \in Parent BY DEF TypeOK
    <2>1. \A d \in Client, p \in Parent :
             granted'[d][p] = IF d = c /\ p = target[c] THEN now ELSE granted[d][p]
      BY <2>0 DEF TypeOK
    <2>2. TypeOK'
      <3>1. granted' \in [Client -> [Parent -> (0..MaxTime) \cup {-1}]]
        <4> DEFINE mine == [granted[c] EXCEPT ![target[c]] = now]
        <4>1. granted[c] \in [Parent -> (0..MaxTime) \cup {-1}] BY DEF TypeOK
        <4>2. mine \in [Parent -> (0..MaxTime) \cup {-1}] BY <4>1 DEF TypeOK
        <4>3. granted' = [granted EXCEPT ![c] = mine] OBVIOUS
        <4> HIDE DEF mine
        <4> QED BY <4>2, <4>3 DEF TypeOK
      <3>2. overlap' \in [Parent -> SUBSET (Client \X Client)]
        BY <2>0 DEF TypeOK, Pending
      <3>3. /\ pc' \in [Client -> {"idle", "expire", "prune", "read", "write"}]
            /\ holder' \in [Parent -> Client \cup {NoClient}]
            /\ mtime' \in [Parent -> 0..MaxTime]
        BY <2>0 DEF TypeOK
      <3> QED BY <3>1, <3>2, <3>3 DEF TypeOK
    <2>3. NotInFuture' BY <2>0, <2>1 DEF NotInFuture, TypeOK
    <2>4. RowIsGrant' BY <2>0, <2>1 DEF RowIsGrant, TypeOK
    <2>5. ASSUME NEW p \in leaf, NEW d \in Client, Holds(d, p)',
                 ~(d = c /\ p = target[c])
          PROVE  Holds(d, p) /\ granted'[d][p] = granted[d][p]
      BY <1>0, <2>1, <2>5 DEF Holds
    <2>6. RowBacksHolder'
      <3> SUFFICES ASSUME NEW p \in leaf, NEW d \in Client, Holds(d, p)'
                   PROVE  holder'[p] # NoClient /\ granted'[d][p] <= mtime'[p]
        BY DEF RowBacksHolder
      <3>1. CASE p = target[c]
        <4>1. holder'[p] = c /\ mtime'[p] = now BY <2>0, <3>1 DEF TypeOK
        <4>2. granted'[d][p] <= now BY <1>0, <2>3 DEF NotInFuture
        <4> QED BY <4>1, <4>2, <1>0
      <3>2. CASE p # target[c]
        <4>1. holder'[p] = holder[p] /\ mtime'[p] = mtime[p] BY <1>0, <2>0, <3>2 DEF TypeOK
        <4> QED BY <2>5, <3>2, <4>1 DEF RowBacksHolder
      <3> QED BY <3>1, <3>2
    <2>7. Apart'
      <3> SUFFICES ASSUME NEW p \in leaf, NEW a \in Client, NEW d \in Client,
                          Holds(d, p)',
                          Holds(a, p)' \/ (pc'[a] = "write" /\ target[a] = p), a # d
                   PROVE  <<a, d>> \in overlap'[p] /\ <<d, a>> \in overlap'[p]
        BY DEF Apart
      <3>0. p \in Parent BY <1>0
      <3>1. overlap[p] \subseteq overlap'[p] BY <2>0, <3>0 DEF TypeOK
      <3>2. CASE d = c /\ p = target[c]
        <4>1. CASE pc'[a] = "write" /\ target[a] = p
          <5>1. a \in Pending(c) BY <3>2, <4>1 DEF Pending, TypeOK
          <5>2. overlap'[p] = overlap[p] \cup ({c} \X Pending(c)) \cup (Pending(c) \X {c})
            BY <2>0, <3>2 DEF TypeOK
          <5> QED BY <3>2, <5>1, <5>2
        <4>2. CASE Holds(a, p)'
          <5>1. Holds(a, p) BY <2>5, <3>2, <4>2
          <5>2. <<c, a>> \in overlap[p] /\ <<a, c>> \in overlap[p]
            BY <3>2, <5>1 DEF Apart
          <5> QED BY <3>1, <3>2, <5>2
        <4> QED BY <4>1, <4>2
      <3>3. CASE ~(d = c /\ p = target[c])
        <4>1. Holds(d, p) BY <2>5, <3>3
        <4>2. Holds(a, p) \/ (pc[a] = "write" /\ target[a] = p)
          BY <2>5 DEF TypeOK
        <4> QED BY <3>1, <4>1, <4>2 DEF Apart
      <3> QED BY <3>2, <3>3
    <2> QED BY <2>2, <2>3, <2>4, <2>6, <2>7
  <1>8. CASE UNCHANGED vars
    <2> USE <1>8 DEF vars
    <2>1. TypeOK' BY DEF TypeOK
    <2>2. NotInFuture' /\ RowIsGrant' BY DEF NotInFuture, RowIsGrant
    <2>3. RowBacksHolder' /\ Apart' BY DEF RowBacksHolder, Holds, Apart
    <2> QED BY <2>1, <2>2, <2>3
  <1> QED BY <1>1, <1>2, <1>3, <1>4, <1>5, <1>6, <1>7, <1>8 DEF Next

(* Whatever requests interleave, two clients hold the lock on a leaf only   *)
(* when one replaced the row between the other's read and write             *)
(* (processCkinLock).  The strengthening says that the row outlives every   *)
(* claim on it, because expireStaleLocks deletes only what is strictly      *)
(* older than the timeout, and that a request about to write shares the     *)
(* lock with nobody but those it overlapped.                                *)
THEOREM LockExcludes == Spec => [](TypeOK /\ ExclusiveUnlessOverlapping)
  <1>1. Init => LockInv BY InitLockInv
  <1>2. LockInv /\ [Next]_vars => LockInv' BY NextLockInv
  <1>3. LockInv => TypeOK /\ ExclusiveUnlessOverlapping
    BY DEF LockInv, Apart, ExclusiveUnlessOverlapping
  <1> QED BY <1>1, <1>2, <1>3, PTL DEF Spec
=============================================================================
