------------------------------- MODULE Sync --------------------------------
(***************************************************************************)
(* One client repository synchronising with one server: the client session  *)
(* (internal/sync/session.go, client.go), which drives rounds until it      *)
(* considers the two sides converged, and the server's handler              *)
(* (internal/sync/handler.go), which keeps nothing between rounds.          *)
(*                                                                         *)
(* Every received file is stored in a transaction of its own, and marked    *)
(* private or public after it, so commits on either side, a cancelled       *)
(* context or a failing exchange may come between any two files, and        *)
(* between a file and its mark.  Files, igot and gimme cards are sets: both *)
(* sides build them by iterating over Go maps or unordered queries.         *)
(***************************************************************************)
EXTENDS Integers, FiniteSets

CONSTANTS
    Artifact,
    Worlds,       \* the repositories and users to start from, see World
    MaxSend,      \* send budget per round, in files
    MaxRounds     \* rounds before Sync gives up

Repo == [real: SUBSET Artifact, phantom: SUBSET Artifact,
         unclustered: SUBSET Artifact, private: SUBSET Artifact,
         tagged: SUBSET Artifact]

Mode == [push: BOOLEAN, pull: BOOLEAN, private: BOOLEAN]
Caps == [push: BOOLEAN, pull: BOOLEAN, private: BOOLEAN]

(***************************************************************************)
(* members[a]: the M-cards of a, {} when a is no cluster; the repositories  *)
(* and the client's unsent table before the first session; the shun tables, *)
(* which no operation here edits; the artifacts that are committed at the   *)
(* client, or reach the server from elsewhere, at any later time; the       *)
(* SyncOpts of the sessions, the capabilities the client's user may have;   *)
(* the gimme cap per round (MaxGimmeBase), and how many sessions are        *)
(* interrupted at most (a bound).                                           *)
(***************************************************************************)
World == [members: [Artifact -> SUBSET Artifact], client: Repo, server: Repo,
          unsent: SUBSET Artifact, shunClient: SUBSET Artifact,
          shunServer: SUBSET Artifact, lateClient: SUBSET Artifact,
          lateServer: SUBSET Artifact, modes: SUBSET Mode, users: SUBSET Caps,
          maxGimmeBase: Nat \ {0}, maxFailures: Nat]

(* A row has content or is a phantom, only stored artifacts are unsent, and *)
(* no cluster names its own hash.                                           *)
ASSUME ConstantsAssumption ==
    /\ \A w \in Worlds :
        /\ w \in World
        /\ \A r \in {w.client, w.server} : r.real \cap r.phantom = {}
        /\ w.unsent \subseteq w.client.real
        /\ \A a \in Artifact : a \notin w.members[a]
    /\ {MaxSend, MaxRounds} \subseteq Nat \ {0}

VARIABLES
    world,           \* the one of Worlds; never changes
    client, server,  \* the two repositories, see Repo
    unsent,          \* the client's unsent table
    caps,            \* capabilities of the client's user at the server
    st,              \* where the session is, see State
    opts,            \* SyncOpts of the session
    cycle,           \* rounds begun before this one
    remoteHas, phantoms, phantomAge, pendingSend,  \* session fields
    nGimmeRcvd,      \* TRUE once the server has asked for anything
    filesRecvd,      \* files received in this round so far
    filesRecvdLast,  \* filesRecvdLastRound
    igotSent,        \* igotSentThisRound > 0
    request,         \* the cards of the round on their way to the server
    response,        \* and back
    serverRecvd,     \* the handler's filesRecvd > 0
    marking,         \* the file that is stored and not yet marked, if any
    failures,        \* interrupted sessions so far
    promise,         \* observer: what each side had to offer at the start
    exposed          \* observer: private files that a stop has left unmarked

sessionVars == <<st, opts, cycle, remoteHas, phantoms, phantomAge, pendingSend,
                 nGimmeRcvd, filesRecvd, filesRecvdLast, igotSent>>
messageVars == <<request, response, serverRecvd, marking>>
observerVars == <<world, failures, promise, exposed>>
vars == <<client, server, unsent, caps, sessionVars, messageVars, observerVars>>

State == {"idle", "ready", "serving", "receiving", "done", "failed", "exceeded"}
Ended == {"idle", "done", "failed", "exceeded"}

NoRequest == [igot |-> {}, pigot |-> {}, files |-> {}, pfiles |-> {}, gimme |-> {}]
NoResponse == [igot |-> {}, pigot |-> {}, files |-> {}, pfiles |-> {}, gimme |-> {}]
Cards == [igot: SUBSET Artifact, pigot: SUBSET Artifact, files: SUBSET Artifact,
          pfiles: SUBSET Artifact, gimme: SUBSET Artifact]

(* Rounds after which a phantom that was not delivered is given up.         *)
MaxAge == 3

TypeOK ==
    /\ world \in Worlds
    /\ client \in Repo /\ client.real \cap client.phantom = {}
    /\ server \in Repo /\ server.real \cap server.phantom = {}
    /\ unsent \subseteq Artifact
    /\ caps \in Caps
    /\ st \in State
    /\ opts \in Mode
    /\ cycle \in 0..MaxRounds
    /\ remoteHas \subseteq Artifact
    /\ phantoms \subseteq Artifact
    /\ phantomAge \in [Artifact -> 0..MaxAge - 1]
    /\ pendingSend \subseteq Artifact
    /\ nGimmeRcvd \in BOOLEAN
    /\ filesRecvd \in Nat /\ filesRecvdLast \in Nat
    /\ igotSent \in BOOLEAN
    /\ request \in Cards /\ response \in Cards
    /\ serverRecvd \in BOOLEAN
    /\ marking \in {{}} \cup {{a} : a \in Artifact}
    /\ failures \in 0..world.maxFailures
    /\ promise \in [client: SUBSET Artifact, server: SUBSET Artifact]
    /\ exposed \subseteq Artifact

(***************************************************************************)
(* The repository operations a session performs, on artifacts.              *)
(***************************************************************************)
Rows(r) == r.real \cup r.phantom
IsCluster(a) == world.members[a] # {}

(* storeReceivedFile: a filled phantom is not crosslinked, a new cluster is. *)
Receive(r, a) ==
    IF a \in r.real THEN r
    ELSE IF a \in r.phantom
    THEN [r EXCEPT !.real = @ \cup {a}, !.phantom = @ \ {a},
                   !.unclustered = @ \cup {a}]
    ELSE [r EXCEPT !.real = @ \cup {a},
                   !.phantom = @ \cup (world.members[a] \ Rows(r)),
                   !.unclustered = (@ \cup {a}) \ world.members[a],
                   !.tagged = IF IsCluster(a) THEN @ \cup {a} ELSE @]

(* manifest.Crosslink on clusters: every cluster with content that has not  *)
(* been crosslinked yet.                                                    *)
Crosslink(r) ==
    LET fresh == {a \in r.real \ r.tagged : IsCluster(a)}
        listed == UNION {world.members[a] : a \in fresh}
    IN  [r EXCEPT !.tagged = @ \cup fresh,
                  !.unclustered = @ \ listed,
                  !.phantom = @ \cup (listed \ Rows(r))]

(* content.MakePrivate or MakePublic after a file has been stored.          *)
Mark(r, a, isPrivate) ==
    [r EXCEPT !.private = IF isPrivate THEN @ \cup {a} ELSE @ \ {a}]

(***************************************************************************)
(* Commits.  manifest.Checkin stores the artifact and marks it unsent; it   *)
(* fails if the artifact is a phantom.                                      *)
(***************************************************************************)
ClientCommit(a) ==
    /\ a \in world.lateClient \ Rows(client)
    /\ client' = [client EXCEPT !.real = @ \cup {a}, !.unclustered = @ \cup {a}]
    /\ unsent' = unsent \cup {a}
    /\ UNCHANGED <<server, caps, sessionVars, messageVars, observerVars>>

ServerGains(a) ==
    /\ a \in world.lateServer \ server.real
    /\ server' = Receive(server, a)
    /\ UNCHANGED <<client, unsent, caps, sessionVars, messageVars, observerVars>>

(***************************************************************************)
(* The client: Sync, buildRequest.                                          *)
(***************************************************************************)
(* Observer: what a session is expected to bring to the other side.         *)
Promised(r, shunned, withPrivate) ==
    r.real \ (shunned \cup (IF withPrivate THEN {} ELSE r.private))

StartWith(mode) ==
    /\ st \in Ended
    /\ mode \in world.modes
    /\ opts' = mode
    /\ st' = "ready" /\ cycle' = 0
    /\ remoteHas' = {} /\ phantoms' = {} /\ pendingSend' = {}
    /\ phantomAge' = [a \in Artifact |-> 0]
    /\ nGimmeRcvd' = FALSE /\ igotSent' = FALSE
    /\ filesRecvd' = 0 /\ filesRecvdLast' = 0
    /\ request' = NoRequest /\ response' = NoResponse /\ serverRecvd' = FALSE
    /\ promise' = LET private == opts'.private /\ caps.private IN
                  [client |-> Promised(client, world.shunClient, private),
                   server |-> Promised(server, world.shunServer, private)]
    /\ UNCHANGED <<client, server, unsent, caps, marking, world, failures, exposed>>

(* MUTANT: only commits that are still unsent are announced.                *)
UnsentIGots ==
    ((unsent \cap client.real) \ (world.shunClient \cup client.private)) \ remoteHas

(* sendUnclustered.                                                         *)
UnclusteredIGots ==
    ((client.unclustered \cap client.real) \ (world.shunClient \cup client.private))
        \ remoteHas

(* sendAllClusters, from the second round of a push on.                     *)
ClusterIGots ==
    IF cycle >= 1 /\ opts.push /\ nGimmeRcvd
    THEN ((client.tagged \cap client.real) \ client.unclustered)
            \ (world.shunClient \cup client.private \cup remoteHas)
    ELSE {}

(* sendPrivate.                                                             *)
PrivateIGots ==
    IF opts.private THEN (client.private \cap client.real) \ remoteHas ELSE {}

(* buildFileCards: the map iteration visits some of pendingSend until the   *)
(* budget is spent.  Artifacts that may not be sent are dropped when they   *)
(* are visited; artifacts that cannot be loaded stay.                       *)
Withheld(a) == a \in client.private /\ ~opts.private
Sendable(a) == a \in client.real /\ ~Withheld(a)
FilesToSend(visited) == {a \in visited : Sendable(a)}

Visits(visited) ==
    IF ~opts.push THEN visited = {}
    ELSE /\ Cardinality(FilesToSend(visited)) <= MaxSend
         /\ \/ visited = pendingSend
            \/ Cardinality(FilesToSend(visited)) = MaxSend

(* buildGimmeCards.                                                         *)
Askable == {a \in phantoms :
              opts.private \/ ~(a \in Rows(client) /\ a \in client.private)}
GimmeCap == IF 2 * filesRecvdLast > world.maxGimmeBase
            THEN 2 * filesRecvdLast ELSE world.maxGimmeBase

Asks(gimme) ==
    IF ~opts.pull THEN gimme = {}
    ELSE \/ gimme = Askable /\ Cardinality(gimme) <= GimmeCap
         \/ gimme \subseteq Askable /\ Cardinality(gimme) = GimmeCap

(* MUTANT: a file stays queued after it has been sent.                      *)
BuildRequestKeepsQueue ==
    /\ st = "ready"
    /\ \E visited \in SUBSET pendingSend, gimme \in SUBSET phantoms :
        /\ Visits(visited)
        /\ Asks(gimme)
        /\ request' = [igot |-> UnclusteredIGots \cup ClusterIGots,
                       pigot |-> PrivateIGots,
                       files |-> FilesToSend(visited),
                       pfiles |-> FilesToSend(visited) \cap client.private,
                       gimme |-> gimme]
    /\ igotSent' = (UnclusteredIGots \cup ClusterIGots \cup PrivateIGots # {})
    /\ filesRecvd' = 0
    /\ serverRecvd' = FALSE
    /\ st' = "serving"
    /\ UNCHANGED <<client, server, unsent, caps, opts, cycle, remoteHas, phantoms,
                   phantomAge, pendingSend, nGimmeRcvd, filesRecvdLast, response, marking,
                   observerVars>>

BuildRequest ==
    /\ st = "ready"
    /\ \E visited \in SUBSET pendingSend, gimme \in SUBSET phantoms :
        /\ Visits(visited)
        /\ Asks(gimme)
        /\ request' = [igot |-> UnclusteredIGots \cup ClusterIGots,
                       pigot |-> PrivateIGots,
                       files |-> FilesToSend(visited),
                       pfiles |-> FilesToSend(visited) \cap client.private,
                       gimme |-> gimme]
        /\ pendingSend' = pendingSend \ {a \in visited : Sendable(a) \/ Withheld(a)}
    /\ igotSent' = (UnclusteredIGots \cup ClusterIGots \cup PrivateIGots # {})
    /\ filesRecvd' = 0
    /\ serverRecvd' = FALSE
    /\ st' = "serving"
    /\ UNCHANGED <<client, server, unsent, caps, opts, cycle, remoteHas, phantoms,
                   phantomAge, nGimmeRcvd, filesRecvdLast, response, marking, observerVars>>

(***************************************************************************)
(* The server: HandleSync on one request.                                   *)
(***************************************************************************)
PushOK == opts.push /\ caps.push
PullOK == opts.pull /\ caps.pull
SyncPrivate == opts.private /\ caps.private

(* handleFile stores the file, then marks it.  A private card from a user   *)
(* without the capability is refused, and the file after it is stored as    *)
(* public.                                                                  *)
ServerFile(a) ==
    /\ st = "serving" /\ marking = {}
    /\ a \in request.files
    /\ request' = [request EXCEPT !.files = @ \ {a}]
    /\ IF PushOK THEN server' = Receive(server, a) /\ marking' = {a}
                 ELSE UNCHANGED <<server, marking>>
    /\ UNCHANGED <<client, unsent, caps, sessionVars, response, serverRecvd, observerVars>>

ServerMark(a) ==
    /\ st = "serving" /\ a \in marking
    /\ server' = Mark(server, a, a \in request.pfiles /\ caps.private)
    /\ serverRecvd' = TRUE /\ marking' = {}
    /\ UNCHANGED <<client, unsent, caps, sessionVars, request, response, observerVars>>

(* MUTANT: a handler that asks for content only when the session pulls.     *)
ServerGimmesPullOnly ==
    IF PullOK
    THEN (request.igot \cup (IF SyncPrivate THEN request.pigot ELSE {}))
            \ Rows(server)
    ELSE {}

(* handleIGot: an artifact that has a row, a phantom included, is taken to  *)
(* be present and is not asked for.                                         *)
ServerGimmes ==
    IF PushOK \/ PullOK
    THEN (request.igot \cup (IF SyncPrivate THEN request.pigot ELSE {}))
            \ Rows(server)
    ELSE {}

(* MUTANT: a handler that serves whatever it is asked for by name.          *)
ServerFilesUnchecked == request.gimme \cap server.real

(* handleGimme.                                                             *)
ServerFiles ==
    {a \in request.gimme : a \in server.real /\ (a \in server.private => SyncPrivate)}

(* emitIGots and emitPrivateIGots leave out what the client announced with  *)
(* the same visibility.                                                     *)
ServerIGots ==
    IF PullOK
    THEN (server.real \ (world.shunServer \cup server.private))
            \ (request.igot \cap Rows(server))
    ELSE {}
ServerPrivateIGots ==
    IF PullOK /\ SyncPrivate
    THEN (server.private \cap server.real) \ (request.pigot \cap Rows(server))
    ELSE {}

(* The other cards, then Crosslink if a file was stored in this round.      *)
ServerReply ==
    /\ st = "serving" /\ marking = {}
    /\ request.files = {}
    /\ response' = [igot |-> ServerIGots, pigot |-> ServerPrivateIGots,
                    files |-> ServerFiles, pfiles |-> ServerFiles \cap server.private,
                    gimme |-> ServerGimmes]
    /\ request' = NoRequest
    /\ server' = IF serverRecvd THEN Crosslink(server) ELSE server
    /\ st' = "receiving"
    /\ UNCHANGED <<client, unsent, caps, opts, cycle, remoteHas, phantoms, phantomAge,
                   pendingSend, nGimmeRcvd, filesRecvd, filesRecvdLast, igotSent,
                   serverRecvd, marking, observerVars>>

(***************************************************************************)
(* The client: processResponse.                                             *)
(***************************************************************************)
(* handleFileCard.  loadDBPhantoms promotes the phantom rows the server has *)
(* not announced in an earlier round.                                       *)
ClientFile(a) ==
    /\ st = "receiving" /\ marking = {}
    /\ a \in response.files
    /\ response' = [response EXCEPT !.files = @ \ {a}]
    /\ client' = Receive(client, a) /\ marking' = {a}
    /\ phantoms' = phantoms \cup (IF opts.pull THEN client'.phantom \ remoteHas ELSE {})
    /\ UNCHANGED <<server, unsent, caps, st, opts, cycle, remoteHas, phantomAge,
                   pendingSend, nGimmeRcvd, filesRecvd, filesRecvdLast, igotSent, request,
                   serverRecvd, observerVars>>

(* applyPrivateStatus, after which the file counts.                         *)
ClientMark(a) ==
    /\ st = "receiving" /\ a \in marking
    /\ client' = Mark(client, a, a \in response.pfiles)
    /\ phantoms' = phantoms \ {a} /\ marking' = {}
    /\ filesRecvd' = filesRecvd + 1
    /\ UNCHANGED <<server, unsent, caps, st, opts, cycle, remoteHas, phantomAge,
                   pendingSend, nGimmeRcvd, filesRecvdLast, igotSent, request, response,
                   serverRecvd, observerVars>>

(* MUTANT: the unsent table is left alone.                                  *)
UnsentKept(quiet) == unsent

(* The unsent table is cleared once a round that announced anything is      *)
(* answered without a gimme card.                                           *)
UnsentAfter(quiet) == IF quiet /\ igotSent THEN {} ELSE unsent

(* The igot and gimme cards, the aging of phantoms and the convergence      *)
(* test.  A session that is done crosslinks what it received.               *)
EndRound ==
    /\ st = "receiving" /\ marking = {}
    /\ response.files = {}
    /\ LET known == Rows(client)
           marked == [client EXCEPT !.private =
                        (@ \ (response.igot \cap known)) \cup (response.pigot \cap known)]
           wanted == phantoms \cup
                       {a \in response.igot \ known : opts.pull} \cup
                       {a \in response.pigot \ known : opts.pull /\ opts.private}
           kept == {a \in wanted : phantomAge[a] + 1 < MaxAge}
           pending == pendingSend \cup response.gimme
           quiet == filesRecvd = 0 /\ response.gimme = {} /\ kept = {} /\ pending = {}
           converged == quiet /\ UnsentAfter(quiet) = {}
       IN  /\ remoteHas' = remoteHas \cup response.igot \cup response.pigot
           /\ phantoms' = kept
           /\ phantomAge' = [a \in Artifact |->
                               IF a \in kept THEN phantomAge[a] + 1 ELSE 0]
           /\ pendingSend' = pending
           /\ unsent' = UnsentAfter(quiet)
           /\ client' = IF converged THEN Crosslink(marked) ELSE marked
           /\ exposed' = exposed \ (response.pigot \cap known)
           /\ st' = IF converged THEN "done"
                    ELSE IF cycle + 1 >= MaxRounds THEN "exceeded" ELSE "ready"
    /\ nGimmeRcvd' = (nGimmeRcvd \/ response.gimme # {})
    /\ filesRecvdLast' = filesRecvd
    /\ cycle' = cycle + 1
    /\ response' = NoResponse
    /\ UNCHANGED <<server, caps, opts, filesRecvd, igotSent, request, serverRecvd, marking,
                   world, failures, promise>>

(* A cancelled context, a failing exchange (the request or the response may *)
(* be lost, or the server may stop after a file or its mark) or a failing   *)
(* store.                                                                   *)
Interrupt ==
    /\ st \in {"ready", "serving", "receiving"}
    /\ failures < world.maxFailures
    /\ failures' = failures + 1
    /\ st' = "failed"
    /\ request' = NoRequest /\ response' = NoResponse /\ marking' = {}
    /\ exposed' = exposed \cup (marking \cap (request.pfiles \cup response.pfiles))
    /\ UNCHANGED <<client, server, unsent, caps, opts, cycle, remoteHas, phantoms,
                   phantomAge, pendingSend, nGimmeRcvd, filesRecvd, filesRecvdLast,
                   igotSent, serverRecvd, world, promise>>

Init ==
    /\ world \in Worlds
    /\ client = world.client /\ server = world.server /\ unsent = world.unsent
    /\ caps \in world.users
    /\ st = "idle" /\ opts \in world.modes /\ cycle = 0
    /\ remoteHas = {} /\ phantoms = {} /\ pendingSend = {}
    /\ phantomAge = [a \in Artifact |-> 0]
    /\ nGimmeRcvd = FALSE /\ igotSent = FALSE
    /\ filesRecvd = 0 /\ filesRecvdLast = 0
    /\ request = NoRequest /\ response = NoResponse /\ serverRecvd = FALSE /\ marking = {}
    /\ failures = 0
    /\ promise = [client |-> {}, server |-> {}] /\ exposed = {}

Step ==
    \/ BuildRequest
    \/ ServerReply
    \/ EndRound
    \/ \E a \in Artifact : ServerFile(a) \/ ServerMark(a) \/ ClientFile(a) \/ ClientMark(a)

Next ==
    \/ \E mode \in Mode : StartWith(mode)
    \/ Step
    \/ Interrupt
    \/ \E a \in Artifact : ClientCommit(a) \/ ServerGains(a)

Spec == Init /\ [][Next]_vars

(***************************************************************************)
(* Sync runs its loop to the end unless it is interrupted, and callers      *)
(* start sessions of every kind again and again.                            *)
(***************************************************************************)
FairSpec == /\ Spec
            /\ WF_vars(Step)
            /\ \A mode \in Mode : SF_vars(StartWith(mode))

(***************************************************************************)
(* Properties.                                                              *)
(***************************************************************************)
Public(r) == r.real \ r.private

(* A session that returns without an error has moved every artifact that    *)
(* one side had to offer when it started to the other side, in each of the  *)
(* directions it was allowed to use: whatever the order of the files, the   *)
(* budgets and the commits meanwhile, and after any interrupted sessions    *)
(* before it (processResponse's convergence test).                          *)
DoneMeansAgree ==
    st = "done" => /\ PushOK => promise.client \subseteq server.real
                   /\ PullOK => promise.server \subseteq client.real

(* A session never runs into MaxRounds: the gimme and file budgets, the     *)
(* aging of phantoms and the commits that arrive meanwhile cannot keep it   *)
(* from converging (Sync's loop).                                           *)
NeverExceeds == st # "exceeded"

(* An artifact that one side keeps private and the other does not have      *)
(* publicly is private wherever it ends up, and without the private         *)
(* capability it stays where it is (handleGimme, handleFile, emitIGots,     *)
(* applyPrivateStatus).  It is public between its storing and its marking,  *)
(* and after a stop between the two, until the server announces it to the   *)
(* client as private.                                                       *)
Secret == (world.client.private \cup world.server.private)
            \ (Public(world.client) \cup Public(world.server)
                \cup world.lateClient \cup world.lateServer)
Unmarked(state) == exposed \cup (IF st = state THEN marking ELSE {})
PrivateConfined ==
    /\ Secret \cap client.real \subseteq client.private \cup Unmarked("receiving")
    /\ Secret \cap server.real \subseteq server.private \cup Unmarked("serving")
    /\ ~caps.private => /\ Secret \cap client.real \subseteq world.client.real
                      /\ Secret \cap server.real \subseteq world.server.real

(* The client never has a file queued for a server that already holds it,   *)
(* unless it got there from elsewhere: the files of a request are stored    *)
(* before its igot cards are answered, and what has been sent is no longer  *)
(* queued (processDataCards, buildFileCards).  All variables keep their     *)
(* types.                                                                   *)
NoSpuriousSend ==
    /\ TypeOK
    /\ st = "ready" => pendingSend \cap server.real \subseteq world.lateServer

(* Once interruptions and commits have stopped, sessions started again and  *)
(* again bring the public artifacts of both sides together.                 *)
EventuallyAgree ==
    <>[](/\ Public(client) \ world.shunClient \subseteq server.real
         /\ Public(server) \ world.shunServer \subseteq client.real)
=============================================================================
