------------------------------ MODULE CkinLock ------------------------------
(***************************************************************************)
(* The check-in lock (internal/sync/ckin_lock.go): a row of the config      *)
(* table per parent check-in, taken by the ci-lock pragma of a sync         *)
(* request.  A lock is given up when it is too old or its parent is no      *)
(* longer a leaf; nothing else releases it.                                 *)
(*                                                                         *)
(* processCkinLock runs its statements outside a transaction and net/http   *)
(* serves requests concurrently, so they interleave between statements: two *)
(* of them can read the row before either has replaced it.  overlap records *)
(* the clients this happened to; it never influences a step.                *)
(***************************************************************************)
EXTENDS Integers

CONSTANTS
    Client,
    Parent,
    NoClient,
    Timeout,     \* DefaultCkinLockTimeout, in seconds
    MaxTime      \* bound on the clock

ASSUME ConstantsAssumption ==
    /\ NoClient \notin Client
    /\ Timeout \in Nat
    /\ MaxTime \in Nat

VARIABLES
    now,      \* the server's clock, in seconds
    leaf,     \* parents in the leaf table
    holder,   \* the client id in the lock row of a parent; NoClient: no row
    mtime,    \* and its mtime
    pc,       \* what the request of a client does next
    target,   \* the parent it asks for
    granted,  \* granted[c][p]: when c was last told it has the lock on p, or -1
    overlap   \* observer: the pairs of clients of which one replaced the row of
              \* p between the other's read and its write

vars == <<now, leaf, holder, mtime, pc, target, granted, overlap>>

Never == -1

TypeOK ==
    /\ now \in 0..MaxTime
    /\ leaf \subseteq Parent
    /\ holder \in [Parent -> Client \cup {NoClient}]
    /\ mtime \in [Parent -> 0..MaxTime]
    /\ pc \in [Client -> {"idle", "expire", "prune", "read", "write"}]
    /\ target \in [Client -> Parent]
    /\ granted \in [Client -> [Parent -> (0..MaxTime) \cup {Never}]]
    /\ overlap \in [Parent -> SUBSET (Client \X Client)]

Tick ==
    /\ now < MaxTime
    /\ now' = now + 1
    /\ UNCHANGED <<leaf, holder, mtime, pc, target, granted, overlap>>

(* A check-in on p reaches the server.                                      *)
Checkin(p) ==
    /\ p \in leaf
    /\ leaf' = leaf \ {p}
    /\ UNCHANGED <<now, holder, mtime, pc, target, granted, overlap>>

Request(c, p) ==
    /\ pc[c] = "idle"
    /\ pc' = [pc EXCEPT ![c] = "expire"]
    /\ target' = [target EXCEPT ![c] = p]
    /\ UNCHANGED <<now, leaf, holder, mtime, granted, overlap>>

(* MUTANT: a lock expires a second early.                                   *)
StaleEarly(p) == mtime[p] <= now - Timeout

Stale(p) == mtime[p] < now - Timeout

(* expireStaleLocks deletes what is too old,                                *)
Expire(c) ==
    /\ pc[c] = "expire"
    /\ holder' = [p \in Parent |-> IF Stale(p) THEN NoClient ELSE holder[p]]
    /\ pc' = [pc EXCEPT ![c] = "prune"]
    /\ UNCHANGED <<now, leaf, mtime, target, granted, overlap>>

(* then the locks on parents that have ceased to be leaves.                 *)
Prune(c) ==
    /\ pc[c] = "prune"
    /\ holder' = [p \in Parent |-> IF p \in leaf THEN holder[p] ELSE NoClient]
    /\ pc' = [pc EXCEPT ![c] = "read"]
    /\ UNCHANGED <<now, leaf, mtime, target, granted, overlap>>

Taken(c) == holder[target[c]] \notin {c, NoClient}

(* As a client sees it: it was given the lock, which is not yet too old.    *)
Holds(c, p) == granted[c][p] # Never /\ now - granted[c][p] <= Timeout

(* A client that is refused learns that it has no lock.  One that does not  *)
(* hold the lock has nothing left of an earlier overlap.                    *)
Read(c) ==
    /\ pc[c] = "read"
    /\ IF Taken(c)
       THEN /\ pc' = [pc EXCEPT ![c] = "idle"]
            /\ granted' = [granted EXCEPT ![c][target[c]] = Never]
       ELSE /\ pc' = [pc EXCEPT ![c] = "write"]
            /\ UNCHANGED granted
    /\ overlap' = IF Holds(c, target[c]) /\ ~Taken(c) THEN overlap
                  ELSE [overlap EXCEPT ![target[c]] = {r \in @ : c \notin {r[1], r[2]}}]
    /\ UNCHANGED <<now, leaf, holder, mtime, target>>

LockTime == now

(* The requests for the same parent that have read the row and not yet      *)
(* replaced it.                                                             *)
Pending(c) == {d \in Client \ {c} : pc[d] = "write" /\ target[d] = target[c]}

Write(c) ==
    /\ pc[c] = "write"
    /\ holder' = [holder EXCEPT ![target[c]] = c]
    /\ mtime' = [mtime EXCEPT ![target[c]] = LockTime]
    /\ granted' = [granted EXCEPT ![c][target[c]] = now]
    /\ overlap' = [overlap EXCEPT ![target[c]] =
                       @ \cup ({c} \X Pending(c)) \cup (Pending(c) \X {c})]
    /\ pc' = [pc EXCEPT ![c] = "idle"]
    /\ UNCHANGED <<now, leaf, target>>

Init ==
    /\ now = 0
    /\ leaf = Parent
    /\ holder = [p \in Parent |-> NoClient]
    /\ mtime = [p \in Parent |-> 0]
    /\ pc = [c \in Client |-> "idle"]
    /\ target \in [Client -> Parent]
    /\ granted = [c \in Client |-> [p \in Parent |-> Never]]
    /\ overlap = [p \in Parent |-> {}]

Next ==
    \/ Tick
    \/ \E p \in Parent : Checkin(p)
    \/ \E c \in Client : \/ \E p \in Parent : Request(c, p)
                         \/ Expire(c) \/ Prune(c) \/ Read(c) \/ Write(c)

Spec == Init /\ [][Next]_vars

(***************************************************************************)
(* Properties.                                                              *)
(***************************************************************************)
(* Two clients never hold the lock on the same leaf, so that check-ins      *)
(* against the same parent are serialised (processCkinLock,                 *)
(* expireStaleLocks), except when the request of one read the row before    *)
(* and replaced it after the other's: for those the two statements give no  *)
(* exclusion.  A lock both have lost since is under the rule again.         *)
ExclusiveUnlessOverlapping ==
    \A p \in leaf, c, d \in Client :
        Holds(c, p) /\ Holds(d, p) => c = d \/ <<c, d>> \in overlap[p]
=============================================================================
