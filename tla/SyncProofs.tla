---------------------------- MODULE SyncProofs ----------------------------
(***************************************************************************)
(* Sessions between two arbitrary repositories: private artifacts stay      *)
(* private, and no file is queued for a server that already holds it; and   *)
(* without clusters and phantoms, a session that is done has moved what it  *)
(* was to move, and it is done within a number of rounds.                   *)
(***************************************************************************)
EXTENDS Sync, FiniteSetTheorems, TLAPS

(* Only one of the two messages is under way, and only while its receiver   *)
(* works on it.                                                             *)
OneMessage ==
    /\ st # "serving" => request = NoRequest
    /\ st # "receiving" => response = NoResponse
    /\ st \notin {"serving", "receiving"} => marking = {}

(* Every running session may still begin a round.                           *)
RoundsLeft == st \in {"ready", "serving", "receiving"} => cycle < MaxRounds

(* What is queued at the client or asked for by the server is not at the    *)
(* server, and what has been sent is no longer queued.                      *)
QueueIsNews ==
    /\ (pendingSend \cup response.gimme) \cap server.real \subseteq world.lateServer
    /\ request.files \cap pendingSend = {}

SessionInv == TypeOK /\ OneMessage /\ RoundsLeft /\ QueueIsNews

(* A secret that no stop has exposed is only announced as private, is sent  *)
(* behind a private card and waits for its mark as such; all secrets leave  *)
(* their repository only for a user with the capability.  The server        *)
(* announces as private what it keeps private.                              *)
SecretsMarked ==
    /\ Secret \cap (request.igot \cup response.igot) \subseteq exposed
    /\ Secret \cap request.files \subseteq request.pfiles \cup exposed
    /\ Secret \cap response.files \subseteq response.pfiles \cup exposed
    /\ Secret \cap marking \subseteq request.pfiles \cup response.pfiles \cup exposed
    /\ response.pigot \subseteq server.private
    /\ response.pigot \cap response.igot = {}
SecretsAuthorized ==
    Secret \cap (pendingSend \cup request.files \cup response.gimme
                    \cup response.files \cup marking \cup exposed) # {} => caps.private

SecretInv == TypeOK /\ PrivateConfined /\ SecretsMarked /\ SecretsAuthorized

-----------------------------------------------------------------------------
(* What the repository operations do to the tables.                         *)
LEMMA ReceiveEffect ==
    ASSUME world \in Worlds, NEW r \in Repo, r.real \cap r.phantom = {},
           NEW a \in Artifact
    PROVE  /\ Receive(r, a) \in Repo
           /\ Receive(r, a).real = r.real \cup {a}
           /\ Receive(r, a).private = r.private
           /\ Receive(r, a).real \cap Receive(r, a).phantom = {}
  <1>1. world.members[a] \subseteq Artifact /\ a \notin world.members[a]
    BY ConstantsAssumption DEF World
  <1>2. CASE a \in r.real
    BY <1>2 DEF Receive, Repo
  <1>3. CASE a \notin r.real /\ a \in r.phantom
    BY <1>3 DEF Receive, Repo
  <1>4. CASE a \notin r.real /\ a \notin r.phantom
    BY <1>1, <1>4 DEF Receive, Repo, Rows
  <1> QED BY <1>2, <1>3, <1>4

LEMMA CrosslinkEffect ==
    ASSUME world \in Worlds, NEW r \in Repo, r.real \cap r.phantom = {}
    PROVE  /\ Crosslink(r) \in Repo
           /\ Crosslink(r).real = r.real
           /\ Crosslink(r).private = r.private
           /\ Crosslink(r).real \cap Crosslink(r).phantom = {}
  <1>1. \A a \in Artifact : world.members[a] \subseteq Artifact
    BY ConstantsAssumption DEF World
  <1> DEFINE fresh == {a \in r.real \ r.tagged : IsCluster(a)}
             listed == UNION {world.members[a] : a \in fresh}
  <1>2. fresh \subseteq Artifact
    BY DEF Repo
  <1>3. listed \subseteq Artifact
    BY <1>1, <1>2
  <1>4. Crosslink(r) = [r EXCEPT !.tagged = @ \cup fresh,
                                 !.unclustered = @ \ listed,
                                 !.phantom = @ \cup (listed \ Rows(r))]
    BY DEF Crosslink
  <1> HIDE DEF fresh, listed
  <1> QED BY <1>2, <1>3, <1>4 DEF Repo, Rows

(* The state of the client after a round's igot cards, before Crosslink.    *)
Marked ==
    [client EXCEPT !.private = (@ \ (response.igot \cap Rows(client)))
                                    \cup (response.pigot \cap Rows(client))]

LEMMA MarkedEffect ==
    ASSUME TypeOK
    PROVE  /\ Marked \in Repo
           /\ Marked.real = client.real
           /\ Marked.phantom = client.phantom
           /\ Marked.private = (client.private \ (response.igot \cap Rows(client)))
                                    \cup (response.pigot \cap Rows(client))
  BY DEF TypeOK, Marked, Repo, Rows, Cards

(* What a finished round leaves of the client's repository.                 *)
LEMMA EndRoundEffect ==
    ASSUME TypeOK, EndRound
    PROVE  /\ client' \in Repo
           /\ client'.real = client.real
           /\ client'.private = Marked.private
           /\ client'.real \cap client'.phantom = {}
           /\ unsent' \subseteq Artifact
           /\ phantoms' \subseteq Artifact
           /\ phantomAge' \in [Artifact -> 0..MaxAge - 1]
           /\ pendingSend' = pendingSend \cup response.gimme
           /\ remoteHas' = remoteHas \cup response.igot \cup response.pigot
           /\ st' \in {"done", "exceeded", "ready"}
           /\ st' = "ready" => ~(cycle + 1 >= MaxRounds)
           /\ exposed' = exposed \ (response.pigot \cap Rows(client))
  <1> DEFINE known == Rows(client)
             wanted == phantoms \cup
                         {a \in response.igot \ known : opts.pull} \cup
                         {a \in response.pigot \ known : opts.pull /\ opts.private}
             kept == {a \in wanted : phantomAge[a] + 1 < MaxAge}
  <1>1. client' \in {Marked, Crosslink(Marked)}
    BY DEF EndRound, Marked
  <1>2. /\ client' \in Repo
        /\ client'.real = client.real
        /\ client'.private = Marked.private
        /\ client'.real \cap client'.phantom = {}
    BY <1>1, MarkedEffect, CrosslinkEffect DEF TypeOK
  <1>3. kept \subseteq Artifact
    BY DEF TypeOK, Cards
  <1>4. /\ phantoms' = kept
        /\ phantomAge' = [a \in Artifact |-> IF a \in kept THEN phantomAge[a] + 1 ELSE 0]
    BY DEF EndRound
  <1>5. \A a \in kept : phantomAge[a] + 1 < MaxAge
    OBVIOUS
  <1>6. phantomAge' \in [Artifact -> 0..MaxAge - 1]
    <2> HIDE DEF kept
    <2> SUFFICES ASSUME NEW a \in Artifact
                 PROVE  (IF a \in kept THEN phantomAge[a] + 1 ELSE 0) \in 0..MaxAge - 1
      BY <1>4
    <2>1. phantomAge[a] \in 0..MaxAge - 1 BY DEF TypeOK
    <2> QED BY <1>5, <2>1 DEF MaxAge
  <1>7. unsent' \in {unsent, {}}
    BY DEF EndRound, UnsentAfter
  <1>8. /\ pendingSend' = pendingSend \cup response.gimme
        /\ remoteHas' = remoteHas \cup response.igot \cup response.pigot
        /\ st' \in {"done", "exceeded", "ready"}
        /\ st' = "ready" => ~(cycle + 1 >= MaxRounds)
        /\ exposed' = exposed \ (response.pigot \cap Rows(client))
    BY DEF EndRound
  <1> QED BY <1>2, <1>3, <1>4, <1>6, <1>7, <1>8 DEF TypeOK

(* One file of a request: it is dropped, or stored and not marked yet.      *)
LEMMA ServerFileEffect ==
    ASSUME TypeOK, NEW a \in Artifact, ServerFile(a)
    PROVE  /\ server' \in Repo
           /\ server'.real \cap server'.phantom = {}
           /\ server'.real = IF PushOK THEN server.real \cup {a} ELSE server.real
           /\ server'.private = server.private
           /\ marking' = IF PushOK THEN {a} ELSE {}
           /\ request' \in Cards
           /\ request'.igot = request.igot /\ request'.pfiles = request.pfiles
           /\ request'.files = request.files \ {a}
  <1>1. /\ request' \in Cards
        /\ request'.igot = request.igot /\ request'.pfiles = request.pfiles
        /\ request'.files = request.files \ {a}
    BY DEF TypeOK, ServerFile, Cards
  <1>2. CASE PushOK
    <2>1. server' = Receive(server, a) /\ marking' = {a}
      BY <1>2 DEF ServerFile
    <2> QED BY <1>1, <1>2, <2>1, ReceiveEffect DEF TypeOK
  <1>3. CASE ~PushOK
    BY <1>1, <1>3 DEF ServerFile, TypeOK
  <1> QED BY <1>2, <1>3

(* Its mark: the visibility its card and the user's capability give it.     *)
LEMMA ServerMarkEffect ==
    ASSUME TypeOK, NEW a \in Artifact, ServerMark(a)
    PROVE  /\ server' \in Repo
           /\ server'.real = server.real /\ server'.phantom = server.phantom
           /\ server'.private = IF a \in request.pfiles /\ caps.private
                                THEN server.private \cup {a} ELSE server.private \ {a}
           /\ marking = {a} /\ marking' = {}
           /\ serverRecvd' \in BOOLEAN
  BY DEF TypeOK, ServerMark, Mark, Repo

(* One file of a response.                                                  *)
LEMMA ClientFileEffect ==
    ASSUME TypeOK, NEW a \in Artifact, ClientFile(a)
    PROVE  /\ client' \in Repo
           /\ client'.real \cap client'.phantom = {}
           /\ client'.real = client.real \cup {a}
           /\ client'.private = client.private
           /\ marking' = {a}
           /\ response' \in Cards
           /\ response'.igot = response.igot /\ response'.pfiles = response.pfiles
           /\ response'.pigot = response.pigot /\ response'.gimme = response.gimme
           /\ response'.files = response.files \ {a}
           /\ phantoms' \subseteq Artifact
  <1>1. /\ response' \in Cards
        /\ response'.igot = response.igot /\ response'.pfiles = response.pfiles
        /\ response'.pigot = response.pigot /\ response'.gimme = response.gimme
        /\ response'.files = response.files \ {a}
    BY DEF TypeOK, ClientFile, Cards
  <1>2. client' = Receive(client, a) /\ marking' = {a}
    BY DEF ClientFile
  <1>3. /\ client' \in Repo
        /\ client'.real \cap client'.phantom = {}
        /\ client'.real = client.real \cup {a}
        /\ client'.private = client.private
    BY <1>2, ReceiveEffect DEF TypeOK
  <1>4. client'.phantom \subseteq Artifact
    BY <1>3 DEF Repo
  <1>5. phantoms' \subseteq Artifact
    BY <1>4 DEF ClientFile, TypeOK
  <1> QED BY <1>1, <1>2, <1>3, <1>5

LEMMA ClientMarkEffect ==
    ASSUME TypeOK, NEW a \in Artifact, ClientMark(a)
    PROVE  /\ client' \in Repo
           /\ client'.real = client.real /\ client'.phantom = client.phantom
           /\ client'.unclustered = client.unclustered
           /\ client'.private = IF a \in response.pfiles
                                THEN client.private \cup {a} ELSE client.private \ {a}
           /\ marking = {a} /\ marking' = {}
           /\ filesRecvd' \in Nat /\ filesRecvd' > 0
  BY DEF TypeOK, ClientMark, Mark, Repo

(* The cards of a request, and what it leaves of the queue.                 *)
LEMMA BuildRequestEffect ==
    ASSUME TypeOK, BuildRequest
    PROVE  /\ request' \in Cards
           /\ request'.igot \cap client.private = {}
           /\ request'.igot \subseteq client.real
           /\ request'.files \subseteq pendingSend \cap client.real
           /\ request'.pfiles = request'.files \cap client.private
           /\ pendingSend' \subseteq pendingSend \ request'.files
  <1>1. PICK visited \in SUBSET pendingSend, gimme \in SUBSET phantoms :
          /\ request' = [igot |-> UnclusteredIGots \cup ClusterIGots,
                         pigot |-> PrivateIGots,
                         files |-> FilesToSend(visited),
                         pfiles |-> FilesToSend(visited) \cap client.private,
                         gimme |-> gimme]
          /\ pendingSend' = pendingSend \ {a \in visited : Sendable(a) \/ Withheld(a)}
    BY DEF BuildRequest
  <1>2. (UnclusteredIGots \cup ClusterIGots) \cap client.private = {}
    BY DEF UnclusteredIGots, ClusterIGots
  <1>3. /\ UnclusteredIGots \cup ClusterIGots \subseteq client.real
        /\ PrivateIGots \subseteq client.real
        /\ client.real \subseteq Artifact
    BY DEF UnclusteredIGots, ClusterIGots, PrivateIGots, TypeOK, Repo
  <1>4. /\ FilesToSend(visited) \subseteq pendingSend \cap client.real
        /\ pendingSend' \subseteq pendingSend \ FilesToSend(visited)
    BY <1>1 DEF FilesToSend, Sendable
  <1> QED BY <1>1, <1>2, <1>3, <1>4 DEF TypeOK, Cards

(* The cards of a response.                                                 *)
LEMMA ServerReplyEffect ==
    ASSUME TypeOK, ServerReply
    PROVE  /\ server' \in Repo
           /\ server'.real \cap server'.phantom = {}
           /\ server'.real = server.real /\ server'.private = server.private
           /\ request' = NoRequest
           /\ response' = [igot |-> ServerIGots, pigot |-> ServerPrivateIGots,
                           files |-> ServerFiles,
                           pfiles |-> ServerFiles \cap server.private,
                           gimme |-> ServerGimmes]
           /\ response' \in Cards
           /\ ServerGimmes \cap server.real = {}
  <1>1. server' \in {server, Crosslink(server)}
    BY DEF ServerReply
  <1>2. /\ server' \in Repo
        /\ server'.real \cap server'.phantom = {}
        /\ server'.real = server.real /\ server'.private = server.private
    BY <1>1, CrosslinkEffect DEF TypeOK
  <1>3. /\ ServerIGots \in SUBSET Artifact
        /\ ServerPrivateIGots \in SUBSET Artifact
        /\ ServerFiles \in SUBSET Artifact
        /\ ServerGimmes \in SUBSET Artifact
    BY DEF ServerIGots, ServerPrivateIGots, ServerFiles, ServerGimmes, TypeOK, Repo, Cards
  <1>4. ServerGimmes \cap server.real = {}
    BY DEF ServerGimmes, Rows
  <1>5. response' = [igot |-> ServerIGots, pigot |-> ServerPrivateIGots,
                     files |-> ServerFiles, pfiles |-> ServerFiles \cap server.private,
                     gimme |-> ServerGimmes]
    BY DEF ServerReply
  <1>6. response' \in Cards
    BY <1>3, <1>5 DEF Cards
  <1> QED BY <1>2, <1>4, <1>5, <1>6 DEF ServerReply

(* The first commit of an artifact at the client.                           *)
LEMMA ClientCommitEffect ==
    ASSUME TypeOK, NEW a \in Artifact, ClientCommit(a)
    PROVE  /\ client' \in Repo
           /\ client'.real \cap client'.phantom = {}
           /\ client'.real = client.real \cup {a}
           /\ client'.private = client.private
           /\ unsent' \subseteq Artifact
  <1>1. client' = [client EXCEPT !.real = @ \cup {a}, !.unclustered = @ \cup {a}]
    BY DEF ClientCommit
  <1>2. client \in Repo /\ client.real \cap client.phantom = {} /\ a \notin client.phantom
    BY DEF TypeOK, ClientCommit, Rows
  <1>3. unsent' \subseteq Artifact
    BY DEF TypeOK, ClientCommit
  <1> QED BY <1>1, <1>2, <1>3 DEF Repo

-----------------------------------------------------------------------------
LEMMA InitTypeOK == Init => TypeOK
  <1> SUFFICES ASSUME Init PROVE TypeOK
    OBVIOUS
  <1>1. world \in World
    BY ConstantsAssumption DEF Init
  <1>2. /\ client \in Repo /\ client.real \cap client.phantom = {}
        /\ server \in Repo /\ server.real \cap server.phantom = {}
        /\ unsent \subseteq Artifact /\ caps \in Caps /\ opts \in Mode
        /\ failures \in 0..world.maxFailures
    BY <1>1, ConstantsAssumption DEF Init, World
  <1>3. cycle \in 0..MaxRounds
    BY ConstantsAssumption DEF Init
  <1>4. phantomAge \in [Artifact -> 0..MaxAge - 1]
    BY DEF Init, MaxAge
  <1> QED BY <1>2, <1>3, <1>4 DEF Init, TypeOK, State, Cards, NoRequest, NoResponse

LEMMA NextTypeOK ==
    ASSUME TypeOK, RoundsLeft, [Next]_vars
    PROVE  TypeOK'
  <1> USE DEF sessionVars, messageVars, observerVars
  <1>1. ASSUME NEW mode \in Mode, StartWith(mode) PROVE TypeOK'
    <2>1. phantomAge' \in [Artifact -> 0..MaxAge - 1]
      BY <1>1 DEF StartWith, MaxAge
    <2>2. cycle' \in 0..MaxRounds
      BY <1>1, ConstantsAssumption DEF StartWith
    <2>3. promise' \in [client: SUBSET Artifact, server: SUBSET Artifact]
      BY <1>1 DEF StartWith, TypeOK, Promised, Repo
    <2> QED BY <1>1, <2>1, <2>2, <2>3
        DEF StartWith, TypeOK, State, Cards, NoRequest, NoResponse
  <1>2. CASE BuildRequest
    BY <1>2, BuildRequestEffect DEF BuildRequest, TypeOK, State
  <1>3. CASE ServerReply
    BY <1>3, ServerReplyEffect DEF ServerReply, TypeOK, State, Cards, NoRequest
  <1>4. CASE EndRound
    <2>1. cycle' \in 0..MaxRounds
      BY <1>4, ConstantsAssumption DEF EndRound, TypeOK, RoundsLeft
    <2>2. nGimmeRcvd' \in BOOLEAN /\ filesRecvdLast' \in Nat /\ response' \in Cards
      BY <1>4 DEF EndRound, TypeOK, Cards, NoResponse
    <2>3. pendingSend' \subseteq Artifact /\ remoteHas' \subseteq Artifact
      BY <1>4, EndRoundEffect DEF TypeOK, Cards
    <2> QED BY <1>4, <2>1, <2>2, <2>3, EndRoundEffect DEF EndRound, TypeOK, State
  <1>5. ASSUME NEW a \in Artifact, ServerFile(a) PROVE TypeOK'
    BY <1>5, ServerFileEffect DEF ServerFile, TypeOK
  <1>5m. ASSUME NEW a \in Artifact, ServerMark(a) PROVE TypeOK'
    BY <1>5m, ServerMarkEffect DEF ServerMark, TypeOK
  <1>6. ASSUME NEW a \in Artifact, ClientFile(a) PROVE TypeOK'
    BY <1>6, ClientFileEffect DEF ClientFile, TypeOK
  <1>6m. ASSUME NEW a \in Artifact, ClientMark(a) PROVE TypeOK'
    BY <1>6m, ClientMarkEffect DEF ClientMark, TypeOK
  <1>7. CASE Interrupt
    <2>1. failures' \in 0..world.maxFailures
      <3>1. world.maxFailures \in Nat
        BY ConstantsAssumption DEF TypeOK, World
      <3> QED BY <1>7, <3>1 DEF Interrupt, TypeOK
    <2> QED BY <1>7, <2>1 DEF Interrupt, TypeOK, State, Cards, NoRequest, NoResponse
  <1>8. ASSUME NEW a \in Artifact, ClientCommit(a) PROVE TypeOK'
    BY <1>8, ClientCommitEffect DEF ClientCommit, TypeOK
  <1>9. ASSUME NEW a \in Artifact, ServerGains(a) PROVE TypeOK'
    BY <1>9, ReceiveEffect DEF ServerGains, TypeOK
  <1>10. CASE UNCHANGED vars
    BY <1>10 DEF vars, TypeOK
  <1> QED BY <1>1, <1>2, <1>3, <1>4, <1>5, <1>5m, <1>6, <1>6m, <1>7, <1>8, <1>9, <1>10
      DEF Next, Step

LEMMA InitSession == Init => SessionInv
  <1> SUFFICES ASSUME Init PROVE SessionInv
    OBVIOUS
  <1>1. TypeOK BY InitTypeOK
  <1>2. OneMessage BY DEF Init, OneMessage
  <1>3. RoundsLeft BY DEF Init, RoundsLeft
  <1>4. QueueIsNews BY DEF Init, QueueIsNews, NoRequest, NoResponse
  <1> QED BY <1>1, <1>2, <1>3, <1>4 DEF SessionInv

LEMMA NextSession ==
    ASSUME SessionInv, [Next]_vars
    PROVE  SessionInv'
  <1> USE DEF sessionVars, messageVars, observerVars
  <1>0. TypeOK /\ OneMessage /\ RoundsLeft /\ QueueIsNews
    BY DEF SessionInv
  <1>T. TypeOK'
    BY <1>0, NextTypeOK
  <1> SUFFICES OneMessage' /\ RoundsLeft' /\ QueueIsNews'
    BY <1>T DEF SessionInv
  <1> USE <1>0
  <1>1. ASSUME NEW mode \in Mode, StartWith(mode)
        PROVE  OneMessage' /\ RoundsLeft' /\ QueueIsNews'
    BY <1>1, ConstantsAssumption
       DEF StartWith, Ended, OneMessage, RoundsLeft, QueueIsNews, NoRequest, NoResponse
  <1>2. CASE BuildRequest
    <2>1. OneMessage' /\ RoundsLeft'
      BY <1>2 DEF BuildRequest, OneMessage, RoundsLeft
    <2>2. QueueIsNews'
      BY <1>2, BuildRequestEffect DEF BuildRequest, QueueIsNews
    <2> QED BY <2>1, <2>2
  <1>3. CASE ServerReply
    <2>1. OneMessage' /\ RoundsLeft'
      BY <1>3 DEF ServerReply, OneMessage, RoundsLeft
    <2>2. QueueIsNews'
      BY <1>3, ServerReplyEffect DEF ServerReply, QueueIsNews, NoRequest
    <2> QED BY <2>1, <2>2
  <1>4. CASE EndRound
    <2>1. OneMessage'
      BY <1>4, EndRoundEffect DEF EndRound, OneMessage
    <2>2. RoundsLeft'
      <3>1. MaxRounds \in Nat /\ cycle \in Nat /\ cycle' = cycle + 1
        BY <1>4, ConstantsAssumption DEF TypeOK, EndRound
      <3> QED BY <1>4, <3>1, EndRoundEffect DEF RoundsLeft
    <2>3. QueueIsNews'
      BY <1>4, EndRoundEffect DEF EndRound, QueueIsNews, OneMessage, NoResponse, NoRequest
    <2> QED BY <2>1, <2>2, <2>3
  <1>5. ASSUME NEW a \in Artifact, ServerFile(a)
        PROVE  OneMessage' /\ RoundsLeft' /\ QueueIsNews'
    <2>1. OneMessage' /\ RoundsLeft'
      BY <1>5 DEF ServerFile, OneMessage, RoundsLeft
    <2>2. a \notin pendingSend /\ response.gimme = {}
      BY <1>5 DEF ServerFile, QueueIsNews, OneMessage, NoResponse
    <2>3. QueueIsNews'
      BY <1>5, <2>2, ServerFileEffect DEF ServerFile, QueueIsNews
    <2> QED BY <2>1, <2>3
  <1>5m. ASSUME NEW a \in Artifact, ServerMark(a)
         PROVE  OneMessage' /\ RoundsLeft' /\ QueueIsNews'
    BY <1>5m, ServerMarkEffect DEF ServerMark, OneMessage, RoundsLeft, QueueIsNews
  <1>6m. ASSUME NEW a \in Artifact, ClientMark(a)
         PROVE  OneMessage' /\ RoundsLeft' /\ QueueIsNews'
    BY <1>6m DEF ClientMark, OneMessage, RoundsLeft, QueueIsNews
  <1>6. ASSUME NEW a \in Artifact, ClientFile(a)
        PROVE  OneMessage' /\ RoundsLeft' /\ QueueIsNews'
    <2>1. OneMessage' /\ RoundsLeft'
      BY <1>6 DEF ClientFile, OneMessage, RoundsLeft
    <2>2. QueueIsNews'
      BY <1>6, ClientFileEffect DEF ClientFile, QueueIsNews
    <2> QED BY <2>1, <2>2
  <1>7. CASE Interrupt
    BY <1>7 DEF Interrupt, OneMessage, RoundsLeft, QueueIsNews, NoRequest, NoResponse
  <1>8. ASSUME NEW a \in Artifact, ClientCommit(a)
        PROVE  OneMessage' /\ RoundsLeft' /\ QueueIsNews'
    BY <1>8 DEF ClientCommit, OneMessage, RoundsLeft, QueueIsNews
  <1>9. ASSUME NEW a \in Artifact, ServerGains(a)
        PROVE  OneMessage' /\ RoundsLeft' /\ QueueIsNews'
    <2>1. server'.real = server.real \cup {a} /\ a \in world.lateServer
      BY <1>9, ReceiveEffect DEF ServerGains, TypeOK
    <2> QED BY <1>9, <2>1 DEF ServerGains, OneMessage, RoundsLeft, QueueIsNews
  <1>10. CASE UNCHANGED vars
    BY <1>10 DEF vars, OneMessage, RoundsLeft, QueueIsNews
  <1> QED BY <1>1, <1>2, <1>3, <1>4, <1>5, <1>5m, <1>6, <1>6m, <1>7, <1>8, <1>9, <1>10
      DEF Next, Step

(* Whatever the two repositories hold, whatever is committed or arrives     *)
(* meanwhile, and wherever sessions are interrupted, the client never has a *)
(* file queued for a server that already holds it, unless it got there from *)
(* elsewhere (processDataCards before the igot cards, buildFileCards).      *)
THEOREM SyncSendsNews == Spec => []NoSpuriousSend
  <1>1. Init => SessionInv BY InitSession
  <1>2. SessionInv /\ [Next]_vars => SessionInv' BY NextSession
  <1>3. SessionInv => NoSpuriousSend BY DEF SessionInv, QueueIsNews, NoSpuriousSend
  <1> QED BY <1>1, <1>2, <1>3, PTL DEF Spec

-----------------------------------------------------------------------------
(* The secrets are fixed by the two repositories at the start.              *)
LEMMA SecretFixed ==
    ASSUME TypeOK, [Next]_vars
    PROVE  Secret' = Secret /\ caps' = caps /\ world' = world
  <1>1. world' = world /\ caps' = caps
    BY DEF Next, Step, StartWith, BuildRequest, ServerReply, EndRound, ServerFile,
           ServerMark, ClientFile, ClientMark, Interrupt, ClientCommit, ServerGains,
           observerVars, vars
  <1> QED BY <1>1 DEF Secret, Public

LEMMA InitSecret == Init => SecretInv
  <1> SUFFICES ASSUME Init PROVE SecretInv
    OBVIOUS
  <1>1. TypeOK BY InitTypeOK
  <1>2. PrivateConfined BY DEF Init, PrivateConfined, Unmarked, Secret, Public
  <1>3. SecretsMarked BY DEF Init, SecretsMarked, NoRequest, NoResponse
  <1>4. SecretsAuthorized BY DEF Init, SecretsAuthorized, NoRequest, NoResponse
  <1> QED BY <1>1, <1>2, <1>3, <1>4 DEF SecretInv

(* A step that leaves both repositories alone, with no file to be marked.   *)
LEMMA ReposUnchanged ==
    ASSUME TypeOK, PrivateConfined, [Next]_vars,
           UNCHANGED <<client, server, marking, exposed>>, marking = {}
    PROVE  PrivateConfined'
  BY SecretFixed DEF PrivateConfined, Unmarked

LEMMA NextSecret ==
    ASSUME SessionInv, SecretInv, [Next]_vars
    PROVE  SecretInv'
  <1> USE DEF sessionVars, messageVars, observerVars
  <1>0. TypeOK /\ PrivateConfined /\ SecretsMarked /\ SecretsAuthorized
    BY DEF SecretInv
  <1>T. TypeOK'
    BY NextTypeOK DEF SessionInv
  <1>S. Secret' = Secret /\ caps' = caps /\ world' = world
    BY <1>0, SecretFixed
  <1> SUFFICES PrivateConfined' /\ SecretsMarked' /\ SecretsAuthorized'
    BY <1>T DEF SecretInv
  <1> USE <1>0, <1>S
  <1>1. ASSUME NEW mode \in Mode, StartWith(mode)
        PROVE  PrivateConfined' /\ SecretsMarked' /\ SecretsAuthorized'
    <2>0. marking = {} BY <1>1 DEF StartWith, Ended, SessionInv, OneMessage
    <2>1. PrivateConfined' BY <1>1, <2>0, ReposUnchanged DEF StartWith
    <2>2. SecretsMarked' /\ SecretsAuthorized'
      BY <1>1, <2>0 DEF StartWith, SecretsMarked, SecretsAuthorized, NoRequest, NoResponse
    <2> QED BY <2>1, <2>2
  <1>2. CASE BuildRequest
    <2>0. st = "ready" /\ marking = {} BY <1>2 DEF BuildRequest, SessionInv, OneMessage
    <2>1. PrivateConfined' BY <1>2, <2>0, ReposUnchanged DEF BuildRequest
    <2>2. SecretsMarked'
      BY <1>2, <2>0, BuildRequestEffect DEF BuildRequest, SecretsMarked, PrivateConfined, Unmarked
    <2>3. SecretsAuthorized'
      BY <1>2, BuildRequestEffect DEF BuildRequest, SecretsAuthorized
    <2> QED BY <2>1, <2>2, <2>3
  <1>3. CASE ServerReply
    <2>1. PrivateConfined'
      BY <1>3, ServerReplyEffect DEF ServerReply, PrivateConfined, Unmarked
    <2>2. Secret \cap ServerIGots \subseteq exposed
      BY <1>3 DEF ServerReply, ServerIGots, PrivateConfined, Unmarked
    <2>3. Secret \cap ServerFiles \subseteq server.private \cup exposed
      BY <1>3 DEF ServerReply, ServerFiles, PrivateConfined, Unmarked
    <2>4. Secret \cap (ServerFiles \cup ServerGimmes) # {} => caps.private
      BY <2>3 DEF ServerFiles, ServerGimmes, SyncPrivate, SecretsMarked, SecretsAuthorized
    <2>5. SecretsMarked'
      <3>1. ServerPrivateIGots \subseteq server.private /\ ServerIGots \cap server.private = {}
        BY DEF ServerPrivateIGots, ServerIGots
      <3>2. marking' = {} /\ exposed' = exposed
        BY <1>3 DEF ServerReply
      <3> QED BY <1>3, <2>2, <2>3, <3>1, <3>2, ServerReplyEffect DEF SecretsMarked, NoRequest
    <2>6. pendingSend' = pendingSend /\ marking' = marking /\ exposed' = exposed
      BY <1>3 DEF ServerReply
    <2>7. /\ request'.files = {} /\ response'.files = ServerFiles
          /\ response'.gimme = ServerGimmes
      BY <1>3, ServerReplyEffect DEF NoRequest
    <2>8. SecretsAuthorized'
      BY <2>4, <2>6, <2>7 DEF SecretsAuthorized
    <2> QED BY <2>1, <2>5, <2>8
  <1>4. CASE EndRound
    <2>1. /\ server' = server /\ response' = NoResponse /\ request' = NoRequest
          /\ st = "receiving" /\ marking = {} /\ marking' = {}
      BY <1>4 DEF EndRound, SessionInv, OneMessage
    <2>2. /\ client'.real = client.real
          /\ client'.private = (client.private \ (response.igot \cap Rows(client)))
                                 \cup (response.pigot \cap Rows(client))
          /\ exposed' = exposed \ (response.pigot \cap Rows(client))
          /\ pendingSend' = pendingSend \cup response.gimme
      BY <1>4, EndRoundEffect, MarkedEffect
    <2>3. Secret \cap client'.real \subseteq client'.private \cup exposed'
      BY <2>1, <2>2 DEF PrivateConfined, Unmarked, SecretsMarked
    <2>4. Secret \cap server.real \subseteq server.private \cup exposed'
      BY <2>1, <2>2 DEF PrivateConfined, Unmarked, SecretsMarked
    <2>5. PrivateConfined'
      BY <2>1, <2>2, <2>3, <2>4 DEF PrivateConfined, Unmarked
    <2>6. SecretsMarked'
      BY <2>1 DEF SecretsMarked, NoResponse, NoRequest
    <2>7. SecretsAuthorized'
      BY <2>1, <2>2 DEF SecretsAuthorized, NoResponse, NoRequest
    <2> QED BY <2>5, <2>6, <2>7
  <1>5. ASSUME NEW a \in Artifact, ServerFile(a)
        PROVE  PrivateConfined' /\ SecretsMarked' /\ SecretsAuthorized'
    <2>1. /\ UNCHANGED <<client, response, pendingSend, exposed, st>>
          /\ a \in request.files /\ st = "serving" /\ marking = {} /\ response = NoResponse
      BY <1>5 DEF ServerFile, SessionInv, OneMessage
    <2>2. /\ server'.real = IF PushOK THEN server.real \cup {a} ELSE server.real
          /\ server'.private = server.private
          /\ marking' = IF PushOK THEN {a} ELSE {}
          /\ request'.igot = request.igot /\ request'.pfiles = request.pfiles
          /\ request'.files = request.files \ {a}
      BY <1>5, ServerFileEffect
    <2>3. a \in Secret => a \in request.pfiles \cup exposed /\ caps.private
      BY <2>1 DEF SecretsMarked, SecretsAuthorized
    <2>4. PrivateConfined'
      BY <2>1, <2>2, <2>3 DEF PrivateConfined, Unmarked
    <2>5. SecretsMarked'
      BY <2>1, <2>2, <2>3 DEF SecretsMarked
    <2>6. SecretsAuthorized'
      BY <2>1, <2>2, <2>3 DEF SecretsAuthorized
    <2> QED BY <2>4, <2>5, <2>6
  <1>5m. ASSUME NEW a \in Artifact, ServerMark(a)
         PROVE  PrivateConfined' /\ SecretsMarked' /\ SecretsAuthorized'
    <2>1. /\ UNCHANGED <<client, request, response, pendingSend, exposed, st>>
          /\ st = "serving" /\ response = NoResponse
      BY <1>5m DEF ServerMark, SessionInv, OneMessage
    <2>2. /\ server'.real = server.real
          /\ server'.private = IF a \in request.pfiles /\ caps.private
                               THEN server.private \cup {a} ELSE server.private \ {a}
          /\ marking = {a} /\ marking' = {}
      BY <1>5m, ServerMarkEffect
    <2>3. a \in Secret => a \in request.pfiles \cup exposed /\ caps.private
      BY <2>1, <2>2 DEF SecretsMarked, SecretsAuthorized, NoResponse
    <2>4. PrivateConfined'
      BY <2>1, <2>2, <2>3 DEF PrivateConfined, Unmarked
    <2>5. SecretsMarked' /\ SecretsAuthorized'
      BY <2>1, <2>2 DEF SecretsMarked, SecretsAuthorized, NoResponse
    <2> QED BY <2>4, <2>5
  <1>6. ASSUME NEW a \in Artifact, ClientFile(a)
        PROVE  PrivateConfined' /\ SecretsMarked' /\ SecretsAuthorized'
    <2>1. /\ UNCHANGED <<server, request, pendingSend, exposed, st>>
          /\ a \in response.files /\ st = "receiving" /\ marking = {} /\ request = NoRequest
      BY <1>6 DEF ClientFile, SessionInv, OneMessage
    <2>2. /\ client'.real = client.real \cup {a}
          /\ client'.private = client.private
          /\ marking' = {a}
          /\ response'.igot = response.igot /\ response'.pfiles = response.pfiles
          /\ response'.pigot = response.pigot /\ response'.gimme = response.gimme
          /\ response'.files = response.files \ {a}
      BY <1>6, ClientFileEffect
    <2>3. a \in Secret => a \in response.pfiles \cup exposed /\ caps.private
      BY <2>1 DEF SecretsMarked, SecretsAuthorized
    <2>4. PrivateConfined'
      BY <2>1, <2>2, <2>3 DEF PrivateConfined, Unmarked
    <2>5. SecretsMarked'
      BY <2>1, <2>2, <2>3 DEF SecretsMarked
    <2>6. SecretsAuthorized'
      BY <2>1, <2>2, <2>3 DEF SecretsAuthorized
    <2> QED BY <2>4, <2>5, <2>6
  <1>6m. ASSUME NEW a \in Artifact, ClientMark(a)
         PROVE  PrivateConfined' /\ SecretsMarked' /\ SecretsAuthorized'
    <2>1. /\ UNCHANGED <<server, request, response, pendingSend, exposed, st>>
          /\ st = "receiving" /\ request = NoRequest
      BY <1>6m DEF ClientMark, SessionInv, OneMessage
    <2>2. /\ client'.real = client.real
          /\ client'.private = IF a \in response.pfiles
                               THEN client.private \cup {a} ELSE client.private \ {a}
          /\ marking = {a} /\ marking' = {}
      BY <1>6m, ClientMarkEffect
    <2>3. a \in Secret => a \in response.pfiles \cup exposed
      BY <2>1, <2>2 DEF SecretsMarked, NoRequest
    <2>4. PrivateConfined'
      BY <2>1, <2>2, <2>3 DEF PrivateConfined, Unmarked
    <2>5. SecretsMarked' /\ SecretsAuthorized'
      BY <2>1, <2>2 DEF SecretsMarked, SecretsAuthorized
    <2> QED BY <2>4, <2>5
  <1>7. CASE Interrupt
    <2>1. /\ UNCHANGED <<client, server, pendingSend>> /\ marking' = {} /\ st' = "failed"
          /\ exposed' = exposed \cup (marking \cap (request.pfiles \cup response.pfiles))
          /\ request' = NoRequest /\ response' = NoResponse
      BY <1>7 DEF Interrupt
    <2>2. Secret \cap marking \subseteq exposed' /\ exposed \subseteq exposed'
      BY <2>1 DEF SecretsMarked
    <2>3. PrivateConfined'
      BY <2>1, <2>2 DEF PrivateConfined, Unmarked
    <2>4. SecretsMarked' /\ SecretsAuthorized'
      BY <2>1 DEF SecretsMarked, SecretsAuthorized, NoRequest, NoResponse
    <2> QED BY <2>3, <2>4
  <1>8. ASSUME NEW a \in Artifact, ClientCommit(a)
        PROVE  PrivateConfined' /\ SecretsMarked' /\ SecretsAuthorized'
    <2>1. a \notin Secret BY <1>8 DEF ClientCommit, Secret
    <2>2. PrivateConfined'
      BY <1>8, <2>1, ClientCommitEffect DEF ClientCommit, PrivateConfined, Unmarked
    <2>3. SecretsMarked' /\ SecretsAuthorized'
      BY <1>8 DEF ClientCommit, SecretsMarked, SecretsAuthorized
    <2> QED BY <2>2, <2>3
  <1>9. ASSUME NEW a \in Artifact, ServerGains(a)
        PROVE  PrivateConfined' /\ SecretsMarked' /\ SecretsAuthorized'
    <2>1. a \notin Secret BY <1>9 DEF ServerGains, Secret
    <2>2. server'.real = server.real \cup {a} /\ server'.private = server.private
      BY <1>9, ReceiveEffect DEF ServerGains, TypeOK
    <2>3. PrivateConfined'
      BY <1>9, <2>1, <2>2 DEF ServerGains, PrivateConfined, Unmarked
    <2>4. SecretsMarked' /\ SecretsAuthorized'
      BY <1>9, <2>2 DEF ServerGains, SecretsMarked, SecretsAuthorized
    <2> QED BY <2>3, <2>4
  <1>10. CASE UNCHANGED vars
    BY <1>10 DEF vars, PrivateConfined, Unmarked, SecretsMarked, SecretsAuthorized
  <1> QED BY <1>1, <1>2, <1>3, <1>4, <1>5, <1>5m, <1>6, <1>6m, <1>7, <1>8, <1>9, <1>10
      DEF Next, Step

(* An artifact that one side keeps private and the other does not publish   *)
(* is private wherever it ends up, and does not leave its repository        *)
(* without the private capability: for all repositories, users, commits and *)
(* interruptions (handleGimme, handleFile, emitIGots, applyPrivateStatus).  *)
(* The only exceptions are the moment between the storing of the file and   *)
(* its mark, and a stop in that moment, until the server announces the      *)
(* artifact to the client as private.                                       *)
THEOREM SyncKeepsSecrets == Spec => []PrivateConfined
  <1>1. Init => SessionInv /\ SecretInv BY InitSession, InitSecret
  <1>2. SessionInv /\ SecretInv /\ [Next]_vars => (SessionInv /\ SecretInv)'
    BY NextSession, NextSecret
  <1>3. SecretInv => PrivateConfined BY DEF SecretInv
  <1> QED BY <1>1, <1>2, <1>3, PTL DEF Spec

-----------------------------------------------------------------------------
(* What a session that is done has achieved.  Clusters and phantoms are     *)
(* left out: an artifact with a phantom row is taken to be present, and     *)
(* what a cluster lists is not announced again.                             *)
Plain ==
    /\ \A a \in Artifact : world.members[a] = {}
    /\ world.client.phantom = {} /\ world.server.phantom = {}
    /\ Public(world.client) \subseteq world.client.unclustered

(* No phantom appears, and the client announces all it has or heard of.     *)
StaysPlain ==
    /\ \A a \in Artifact : world.members[a] = {}
    /\ client.phantom = {} /\ server.phantom = {}
    /\ Public(client) \subseteq client.unclustered \cup server.real

(* Each side only speaks of what it has, with its visibility.               *)
CardsTrue ==
    /\ remoteHas \cup response.igot \cup response.pigot \cup response.files
            \subseteq server.real
    /\ request.igot \cup request.pigot \cup request.files \cup pendingSend \cup response.gimme
            \subseteq client.real
    /\ marking \subseteq client.real \cap server.real
    /\ response.igot \cap server.private = {}
    /\ response.pigot # {} => SyncPrivate

(* What the client wants the server can deliver, and no file that the       *)
(* client sends changes its visibility.                                     *)
WantedServable ==
    /\ phantoms \subseteq server.real
    /\ phantoms \cap server.private # {} => SyncPrivate
    /\ phantoms \cap (pendingSend \cup request.files \cup response.gimme) = {}
    /\ st = "serving" => phantoms \cap marking = {}

(* A phantom has aged only while it was wanted, and as long as one is       *)
(* missing every round asks for something and gets it.                      *)
MissingAsked ==
    /\ \A a \in Artifact : phantomAge[a] > 0 => a \in phantoms \cup client.real
    /\ request.gimme \subseteq phantoms
    /\ opts.pull /\ ~(phantoms \subseteq client.real) =>
        /\ st = "serving" => request.gimme # {}
        /\ st = "receiving" => response.files \cup marking # {} \/ filesRecvd > 0

Running == {"ready", "serving", "receiving"}

(* What the client promised is at the server, or still announced each round *)
(* and asked for.                                                           *)
PushOnItsWay ==
    PushOK => \A a \in promise.client \ server.real :
        /\ st \in Running => /\ a \in client.real \ world.shunClient
                             /\ a \in client.private => SyncPrivate
        /\ st = "serving" => \/ a \in request.igot
                             \/ SyncPrivate /\ a \in request.pigot
        /\ st = "receiving" => a \in response.gimme
        /\ st # "done"

(* What the server promised is at the client, or still announced each round.*)
PullOnItsWay ==
    PullOK => \A a \in promise.server \ client.real :
        /\ st \in Running => /\ a \in server.real \ world.shunServer
                             /\ a \in server.private => SyncPrivate
        /\ st = "receiving" => \/ a \in response.igot
                               \/ SyncPrivate /\ a \in response.pigot
        /\ st # "done"

AgreeInv ==
    /\ StaysPlain /\ CardsTrue /\ WantedServable /\ MissingAsked
    /\ PushOnItsWay /\ PullOnItsWay

-----------------------------------------------------------------------------
(* Without clusters the repository operations leave no phantom, and they    *)
(* keep artifacts unclustered.                                              *)
LEMMA PlainReceive ==
    ASSUME NEW r \in Repo, NEW a \in Artifact, r.phantom = {},
           world.members[a] = {}
    PROVE  /\ Receive(r, a).phantom = {}
           /\ Receive(r, a).unclustered =
                IF a \in r.real THEN r.unclustered ELSE r.unclustered \cup {a}
  BY DEF Receive, Repo, Rows

LEMMA PlainCrosslink ==
    ASSUME NEW r \in Repo, \A a \in Artifact : world.members[a] = {}
    PROVE  /\ Crosslink(r).phantom = r.phantom
           /\ Crosslink(r).unclustered = r.unclustered
  <1> DEFINE fresh == {a \in r.real \ r.tagged : IsCluster(a)}
             listed == UNION {world.members[a] : a \in fresh}
  <1>1. fresh = {}
    BY DEF IsCluster, Repo
  <1>2. listed = {}
    BY <1>1
  <1>3. Crosslink(r) = [r EXCEPT !.tagged = @ \cup fresh,
                                 !.unclustered = @ \ listed,
                                 !.phantom = @ \cup (listed \ Rows(r))]
    BY DEF Crosslink
  <1> HIDE DEF fresh, listed
  <1> QED BY <1>2, <1>3 DEF Repo

(* A session's cards depend on these only.                                  *)
LEMMA SyncWorldKept ==
    ASSUME [Next]_vars
    PROVE  world' = world /\ caps' = caps
  BY DEF Next, Step, StartWith, BuildRequest, ServerReply, EndRound, ServerFile, ServerMark,
         ClientFile, ClientMark, Interrupt, ClientCommit, ServerGains, vars, observerVars

LEMMA PlainClientFile ==
    ASSUME TypeOK, StaysPlain, NEW a \in Artifact, ClientFile(a)
    PROVE  /\ client'.phantom = {} /\ phantoms' = phantoms
           /\ client.unclustered \subseteq client'.unclustered
           /\ a \notin client.real => a \in client'.unclustered
  <1>1. client' = Receive(client, a)
    BY DEF ClientFile
  <1>2. /\ client'.phantom = {}
        /\ client'.unclustered =
             IF a \in client.real THEN client.unclustered ELSE client.unclustered \cup {a}
    BY <1>1, PlainReceive DEF TypeOK, StaysPlain
  <1>3. phantoms' = phantoms
    BY <1>2 DEF ClientFile
  <1> QED BY <1>2, <1>3

LEMMA PlainServerFile ==
    ASSUME TypeOK, StaysPlain, NEW a \in Artifact, ServerFile(a)
    PROVE  /\ server'.phantom = {}
           /\ request'.pigot = request.pigot /\ request'.gimme = request.gimme
  <1>1. request'.pigot = request.pigot /\ request'.gimme = request.gimme
    BY DEF ServerFile, TypeOK, Cards
  <1>2. Receive(server, a).phantom = {}
    BY PlainReceive DEF TypeOK, StaysPlain
  <1>3. server'.phantom = {}
    BY <1>2 DEF ServerFile, StaysPlain
  <1> QED BY <1>1, <1>3

LEMMA PlainEndRound ==
    ASSUME TypeOK, StaysPlain, EndRound
    PROVE  /\ client'.phantom = {} /\ client'.unclustered = client.unclustered
           /\ phantoms' \subseteq phantoms \cup
                ((response.igot \cup response.pigot) \ client.real)
           /\ \A a \in Artifact : phantomAge'[a] > 0 => a \in phantoms'
           /\ st' = "done" =>
                /\ filesRecvd = 0 /\ response.gimme = {}
                /\ opts.pull =>
                    \A a \in response.igot \cup
                               (IF opts.private THEN response.pigot ELSE {}) :
                        a \in client.real \/ phantomAge[a] + 1 >= MaxAge
  <1> DEFINE known == Rows(client)
             wanted == phantoms \cup
                         {a \in response.igot \ known : opts.pull} \cup
                         {a \in response.pigot \ known : opts.pull /\ opts.private}
             kept == {a \in wanted : phantomAge[a] + 1 < MaxAge}
  <1>0. known = client.real
    BY DEF Rows, StaysPlain
  <1>1. client' \in {Marked, Crosslink(Marked)}
    BY DEF EndRound, Marked
  <1>2. Marked \in Repo /\ Marked.phantom = {} /\ Marked.unclustered = client.unclustered
    BY MarkedEffect DEF StaysPlain, Marked, TypeOK, Repo
  <1>3. client'.phantom = {} /\ client'.unclustered = client.unclustered
    BY <1>1, <1>2, PlainCrosslink DEF StaysPlain
  <1>4. /\ phantoms' = kept
        /\ phantomAge' = [a \in Artifact |-> IF a \in kept THEN phantomAge[a] + 1 ELSE 0]
        /\ st' = "done" => filesRecvd = 0 /\ response.gimme = {} /\ kept = {}
    <2>1. phantoms' = kept
      BY DEF EndRound
    <2>2. phantomAge' = [a \in Artifact |-> IF a \in kept THEN phantomAge[a] + 1 ELSE 0]
      BY DEF EndRound
    <2>3. st' = "done" => filesRecvd = 0 /\ response.gimme = {} /\ phantoms' = {}
      BY DEF EndRound
    <2> QED BY <2>1, <2>2, <2>3
  <1>5. \A a \in Artifact : phantomAge'[a] > 0 => a \in phantoms'
    <2> HIDE DEF kept
    <2> QED BY <1>4
  <1>6. ASSUME st' = "done", opts.pull,
               NEW a \in response.igot \cup (IF opts.private THEN response.pigot ELSE {}),
               a \notin client.real
        PROVE  phantomAge[a] + 1 >= MaxAge
    <2>1. a \in wanted
      BY <1>0, <1>6
    <2>2. ~ (phantomAge[a] + 1 < MaxAge)
      BY <1>4, <1>6, <2>1
    <2>3. phantomAge[a] \in Int
      BY <1>6 DEF TypeOK, Cards
    <2> QED BY <2>2, <2>3 DEF MaxAge
  <1>7. phantoms' \subseteq phantoms \cup ((response.igot \cup response.pigot) \ client.real)
    BY <1>0, <1>4
  <1> QED BY <1>3, <1>4, <1>5, <1>6, <1>7

LEMMA PlainServerReply ==
    ASSUME TypeOK, StaysPlain, ServerReply
    PROVE  server'.phantom = {} /\ Rows(server) = server.real
  <1>1. server' \in {server, Crosslink(server)}
    BY DEF ServerReply
  <1>2. server'.phantom = {}
    BY <1>1, PlainCrosslink DEF StaysPlain, TypeOK
  <1> QED BY <1>2 DEF Rows, StaysPlain

LEMMA PlainBuildRequest ==
    ASSUME TypeOK, StaysPlain, CardsTrue, BuildRequest
    PROVE  /\ request'.pigot \subseteq client.real
           /\ request'.gimme \subseteq phantoms
           /\ opts.pull /\ ~(phantoms \subseteq client.real) => request'.gimme # {}
           /\ \A a \in client.real \ (world.shunClient \cup server.real) :
                IF a \in client.private THEN opts.private => a \in request'.pigot
                ELSE a \in request'.igot
  <1>1. PICK visited \in SUBSET pendingSend, gimme \in SUBSET phantoms :
          /\ Asks(gimme)
          /\ request' = [igot |-> UnclusteredIGots \cup ClusterIGots,
                         pigot |-> PrivateIGots,
                         files |-> FilesToSend(visited),
                         pfiles |-> FilesToSend(visited) \cap client.private,
                         gimme |-> gimme]
    BY DEF BuildRequest
  <1>2. /\ request'.pigot = PrivateIGots /\ request'.gimme = gimme
        /\ request'.igot = UnclusteredIGots \cup ClusterIGots
    BY <1>1
  <1>3. PrivateIGots \subseteq client.real
    BY DEF PrivateIGots
  <1>4. ASSUME opts.pull, ~(phantoms \subseteq client.real) PROVE gimme # {}
    <2>1. Askable # {}
      BY <1>4 DEF Askable, Rows, StaysPlain
    <2>2. GimmeCap \in Nat \ {0}
      <3>1. world.maxGimmeBase \in Nat \ {0} BY ConstantsAssumption DEF TypeOK, World
      <3>2. filesRecvdLast \in Nat BY DEF TypeOK
      <3> QED BY <3>1, <3>2 DEF GimmeCap
    <2>3. Cardinality({}) = 0
      BY FS_EmptySet
    <2> QED BY <1>1, <1>4, <2>1, <2>2, <2>3 DEF Asks
  <1>5. ASSUME NEW a \in client.real \ (world.shunClient \cup server.real)
        PROVE  IF a \in client.private THEN opts.private => a \in PrivateIGots
               ELSE a \in UnclusteredIGots
    <2>1. a \notin remoteHas
      BY DEF CardsTrue
    <2>2. a \notin client.private => a \in client.unclustered
      BY DEF StaysPlain, Public
    <2> QED BY <2>1, <2>2 DEF PrivateIGots, UnclusteredIGots
  <1> QED BY <1>2, <1>3, <1>4, <1>5

-----------------------------------------------------------------------------
LEMMA InitAgree == Init /\ Plain => AgreeInv
  BY DEF Init, Plain, AgreeInv, StaysPlain, CardsTrue, WantedServable, MissingAsked,
         PushOnItsWay, PullOnItsWay, NoRequest, NoResponse, Running

LEMMA StartAgrees ==
    ASSUME SessionInv, AgreeInv, NEW mode \in Mode, StartWith(mode)
    PROVE  AgreeInv'
  <1> USE DEF observerVars
  <1>1. /\ UNCHANGED <<client, server, world, caps>> /\ opts' = mode /\ st' = "ready"
        /\ remoteHas' = {} /\ phantoms' = {} /\ pendingSend' = {}
        /\ phantomAge' = [a \in Artifact |-> 0]
        /\ request' = NoRequest /\ response' = NoResponse /\ marking' = {}
    BY DEF StartWith, Ended, SessionInv, OneMessage
  <1>2. /\ promise'.client = Promised(client, world.shunClient, SyncPrivate')
        /\ promise'.server = Promised(server, world.shunServer, SyncPrivate')
    BY DEF StartWith, SyncPrivate
  <1>3. StaysPlain'
    BY <1>1 DEF AgreeInv, StaysPlain, Public
  <1>4. CardsTrue' /\ WantedServable' /\ MissingAsked'
    BY <1>1 DEF CardsTrue, WantedServable, MissingAsked, NoRequest, NoResponse
  <1>5. PushOnItsWay' /\ PullOnItsWay'
    BY <1>1, <1>2 DEF PushOnItsWay, PullOnItsWay, Promised
  <1> QED BY <1>3, <1>4, <1>5 DEF AgreeInv

LEMMA BuildRequestAgrees ==
    ASSUME SessionInv, AgreeInv, BuildRequest
    PROVE  AgreeInv'
  <1> USE DEF observerVars
  <1>0. TypeOK /\ StaysPlain /\ CardsTrue /\ WantedServable /\ MissingAsked /\ response = NoResponse
    BY DEF SessionInv, AgreeInv, OneMessage, BuildRequest
  <1>1. /\ st = "ready" /\ st' = "serving" /\ marking = {}
        /\ UNCHANGED <<client, server, caps, opts, remoteHas, phantoms, phantomAge,
                       response, marking, world, promise>>
    BY DEF BuildRequest, SessionInv, OneMessage
  <1>2. /\ request'.igot \subseteq client.real
        /\ request'.files \subseteq pendingSend
        /\ pendingSend' \subseteq pendingSend
    BY <1>0, BuildRequestEffect
  <1>3. /\ request'.pigot \subseteq client.real
        /\ request'.gimme \subseteq phantoms
        /\ opts.pull /\ ~(phantoms \subseteq client.real) => request'.gimme # {}
        /\ \A a \in client.real \ (world.shunClient \cup server.real) :
                IF a \in client.private THEN opts.private => a \in request'.pigot
                ELSE a \in request'.igot
    BY <1>0, PlainBuildRequest
  <1>4. StaysPlain'
    BY <1>0, <1>1 DEF StaysPlain, Public
  <1>5. CardsTrue'
    BY <1>0, <1>1, <1>2, <1>3 DEF CardsTrue, SyncPrivate
  <1>6. WantedServable'
    BY <1>0, <1>1, <1>2 DEF WantedServable, SyncPrivate
  <1>7. MissingAsked'
    BY <1>0, <1>1, <1>3 DEF MissingAsked
  <1>8. PushOnItsWay'
    BY <1>1, <1>3 DEF AgreeInv, PushOnItsWay, PushOK, SyncPrivate, Running
  <1>9. PullOnItsWay'
    BY <1>1 DEF AgreeInv, PullOnItsWay, PullOK, SyncPrivate, Running
  <1> QED BY <1>4, <1>5, <1>6, <1>7, <1>8, <1>9 DEF AgreeInv

LEMMA ServerFileAgrees ==
    ASSUME SessionInv, AgreeInv, NEW a \in Artifact, ServerFile(a)
    PROVE  AgreeInv'
  <1> USE DEF observerVars, sessionVars
  <1>0. TypeOK /\ StaysPlain /\ CardsTrue /\ WantedServable /\ MissingAsked /\ response = NoResponse
    BY DEF SessionInv, AgreeInv, OneMessage, ServerFile
  <1>1. /\ st = "serving" /\ a \in request.files
        /\ UNCHANGED <<client, caps, st, opts, remoteHas, phantoms, phantomAge, pendingSend,
                       response, filesRecvd, world, promise>>
    BY DEF ServerFile
  <1>2. /\ server'.real = IF PushOK THEN server.real \cup {a} ELSE server.real
        /\ server'.private = server.private
        /\ marking' = IF PushOK THEN {a} ELSE {}
        /\ request'.igot = request.igot /\ request'.files = request.files \ {a}
        /\ server'.phantom = {}
        /\ request'.pigot = request.pigot /\ request'.gimme = request.gimme
    BY <1>0, ServerFileEffect, PlainServerFile
  <1>3. a \in client.real /\ a \notin phantoms
    BY <1>0, <1>1 DEF CardsTrue, WantedServable
  <1>4. StaysPlain'
    BY <1>0, <1>1, <1>2 DEF StaysPlain, Public
  <1>5. CardsTrue'
    BY <1>0, <1>1, <1>2, <1>3 DEF CardsTrue, SyncPrivate, NoResponse
  <1>6. WantedServable'
    BY <1>0, <1>1, <1>2, <1>3 DEF WantedServable, SyncPrivate
  <1>7. MissingAsked'
    BY <1>0, <1>1, <1>2 DEF MissingAsked
  <1>8. PushOnItsWay'
    BY <1>1, <1>2 DEF AgreeInv, PushOnItsWay, PushOK, SyncPrivate
  <1>9. PullOnItsWay'
    BY <1>1, <1>2, <1>3 DEF AgreeInv, PullOnItsWay, PullOK, SyncPrivate
  <1> QED BY <1>4, <1>5, <1>6, <1>7, <1>8, <1>9 DEF AgreeInv

LEMMA ServerMarkAgrees ==
    ASSUME SessionInv, AgreeInv, NEW a \in Artifact, ServerMark(a)
    PROVE  AgreeInv'
  <1> USE DEF observerVars, sessionVars
  <1>0. TypeOK /\ StaysPlain /\ CardsTrue /\ WantedServable /\ MissingAsked /\ response = NoResponse
    BY DEF SessionInv, AgreeInv, OneMessage, ServerMark
  <1>1. /\ st = "serving"
        /\ UNCHANGED <<client, caps, st, opts, remoteHas, phantoms, phantomAge, pendingSend,
                       request, response, filesRecvd, world, promise>>
    BY DEF ServerMark
  <1>2. /\ server'.real = server.real /\ server'.phantom = server.phantom
        /\ server'.private \ {a} = server.private \ {a}
        /\ marking = {a} /\ marking' = {}
    BY <1>0, ServerMarkEffect
  <1>3. a \in client.real /\ a \notin phantoms
    BY <1>0, <1>1, <1>2 DEF CardsTrue, WantedServable
  <1>4. StaysPlain'
    BY <1>0, <1>1, <1>2 DEF StaysPlain, Public
  <1>5. CardsTrue'
    BY <1>0, <1>1, <1>2 DEF CardsTrue, SyncPrivate, NoResponse
  <1>6. WantedServable'
    BY <1>0, <1>1, <1>2, <1>3 DEF WantedServable, SyncPrivate
  <1>7. MissingAsked'
    BY <1>0, <1>1, <1>2 DEF MissingAsked
  <1>8. PushOnItsWay'
    BY <1>1, <1>2 DEF AgreeInv, PushOnItsWay, PushOK, SyncPrivate
  <1>9. PullOnItsWay'
    BY <1>1, <1>2, <1>3 DEF AgreeInv, PullOnItsWay, PullOK, SyncPrivate
  <1> QED BY <1>4, <1>5, <1>6, <1>7, <1>8, <1>9 DEF AgreeInv

LEMMA ServerReplyAgrees ==
    ASSUME SessionInv, AgreeInv, ServerReply
    PROVE  AgreeInv'
  <1> USE DEF observerVars
  <1>0. TypeOK /\ StaysPlain /\ CardsTrue /\ WantedServable /\ MissingAsked
    BY DEF SessionInv, AgreeInv
  <1>1. /\ st = "serving" /\ st' = "receiving" /\ marking = {}
        /\ UNCHANGED <<client, caps, opts, remoteHas, phantoms, phantomAge, pendingSend,
                       filesRecvd, marking, world, promise>>
    BY DEF ServerReply
  <1>2. /\ server'.real = server.real /\ server'.private = server.private
        /\ server'.phantom = {} /\ Rows(server) = server.real
        /\ request' = NoRequest
        /\ response'.igot = ServerIGots /\ response'.pigot = ServerPrivateIGots
        /\ response'.files = ServerFiles /\ response'.gimme = ServerGimmes
        /\ ServerGimmes \cap server.real = {}
    BY <1>0, ServerReplyEffect, PlainServerReply
  <1>3. ServerFiles = request.gimme
    <2>1. request.gimme \subseteq phantoms
      BY <1>0 DEF MissingAsked
    <2> QED BY <1>0, <2>1 DEF ServerFiles, WantedServable
  <1>4. ServerGimmes \subseteq client.real
    BY <1>0 DEF ServerGimmes, CardsTrue
  <1>5. StaysPlain'
    BY <1>0, <1>1, <1>2 DEF StaysPlain, Public
  <1>6. CardsTrue'
    <2>1. ServerIGots \cup ServerPrivateIGots \cup ServerFiles \subseteq server.real
      BY DEF ServerIGots, ServerPrivateIGots, ServerFiles
    <2>2. ServerIGots \cap server.private = {} /\ (ServerPrivateIGots # {} => SyncPrivate)
      BY DEF ServerIGots, ServerPrivateIGots
    <2> QED BY <1>0, <1>1, <1>2, <1>4, <2>1, <2>2 DEF CardsTrue, SyncPrivate, NoRequest
  <1>7. WantedServable'
    BY <1>0, <1>1, <1>2 DEF WantedServable, SyncPrivate, NoRequest
  <1>8. MissingAsked'
    BY <1>0, <1>1, <1>2, <1>3 DEF MissingAsked, NoRequest
  <1>9. PushOnItsWay'
    <2> SUFFICES ASSUME PushOK, NEW a \in promise.client \ server.real
                 PROVE  /\ a \in client.real \ world.shunClient
                        /\ a \in client.private => SyncPrivate
                        /\ a \in ServerGimmes
      BY <1>1, <1>2 DEF PushOnItsWay, PushOK, SyncPrivate
    <2>1. /\ a \in client.real \ world.shunClient
          /\ a \in client.private => SyncPrivate
          /\ a \in request.igot \/ (SyncPrivate /\ a \in request.pigot)
      BY <1>1 DEF AgreeInv, PushOnItsWay, Running
    <2>2. a \in ServerGimmes
      BY <1>2, <2>1 DEF ServerGimmes
    <2> QED BY <2>1, <2>2
  <1>10. PullOnItsWay'
    <2> SUFFICES ASSUME PullOK, NEW a \in promise.server \ client.real
                 PROVE  /\ a \in server.real \ world.shunServer
                        /\ a \in server.private => SyncPrivate
                        /\ a \in ServerIGots \/ (SyncPrivate /\ a \in ServerPrivateIGots)
      BY <1>1, <1>2 DEF PullOnItsWay, PullOK, SyncPrivate
    <2>1. /\ a \in server.real \ world.shunServer
          /\ a \in server.private => SyncPrivate
      BY <1>1 DEF AgreeInv, PullOnItsWay, Running
    <2>2. a \notin request.igot \cup request.pigot
      BY <1>0 DEF CardsTrue
    <2> QED BY <2>1, <2>2 DEF ServerIGots, ServerPrivateIGots
  <1> QED BY <1>5, <1>6, <1>7, <1>8, <1>9, <1>10 DEF AgreeInv

LEMMA ClientFileAgrees ==
    ASSUME SessionInv, AgreeInv, NEW a \in Artifact, ClientFile(a)
    PROVE  AgreeInv'
  <1> USE DEF observerVars
  <1>0. TypeOK /\ StaysPlain /\ CardsTrue /\ WantedServable /\ MissingAsked /\ request = NoRequest
    BY DEF SessionInv, AgreeInv, OneMessage, ClientFile
  <1>1. /\ st = "receiving" /\ a \in response.files
        /\ UNCHANGED <<server, caps, st, opts, remoteHas, phantomAge, pendingSend, filesRecvd,
                       request, world, promise>>
    BY <1>0 DEF ClientFile, TypeOK
  <1>2. /\ client'.real = client.real \cup {a}
        /\ client'.private = client.private /\ marking' = {a}
        /\ response'.igot = response.igot /\ response'.gimme = response.gimme
        /\ response'.pigot = response.pigot
        /\ response'.files = response.files \ {a}
        /\ client'.phantom = {} /\ phantoms' = phantoms
        /\ client.unclustered \subseteq client'.unclustered
    BY <1>0, ClientFileEffect, PlainClientFile
  <1>3. a \in server.real
    BY <1>0, <1>1 DEF CardsTrue
  <1>4. StaysPlain'
    BY <1>0, <1>1, <1>2, <1>3 DEF StaysPlain, Public
  <1>5. CardsTrue'
    BY <1>0, <1>1, <1>2, <1>3 DEF CardsTrue, SyncPrivate
  <1>6. WantedServable'
    BY <1>0, <1>1, <1>2 DEF WantedServable, SyncPrivate
  <1>7. MissingAsked'
    BY <1>0, <1>1, <1>2 DEF MissingAsked, NoRequest
  <1>8. PushOnItsWay'
    BY <1>1, <1>2, <1>3 DEF AgreeInv, PushOnItsWay, PushOK, SyncPrivate
  <1>9. PullOnItsWay'
    BY <1>1, <1>2 DEF AgreeInv, PullOnItsWay, PullOK, SyncPrivate
  <1> QED BY <1>4, <1>5, <1>6, <1>7, <1>8, <1>9 DEF AgreeInv

LEMMA ClientMarkAgrees ==
    ASSUME SessionInv, AgreeInv, NEW a \in Artifact, ClientMark(a)
    PROVE  AgreeInv'
  <1> USE DEF observerVars
  <1>0. TypeOK /\ StaysPlain /\ CardsTrue /\ WantedServable /\ MissingAsked /\ request = NoRequest
    BY DEF SessionInv, AgreeInv, OneMessage, ClientMark
  <1>1. /\ st = "receiving" /\ phantoms' = phantoms \ {a}
        /\ UNCHANGED <<server, caps, st, opts, remoteHas, phantomAge, pendingSend,
                       request, response, world, promise>>
    BY DEF ClientMark
  <1>2. /\ client'.real = client.real /\ client'.phantom = client.phantom
        /\ client'.unclustered = client.unclustered
        /\ client'.private \ {a} = client.private \ {a}
        /\ marking = {a} /\ marking' = {} /\ filesRecvd' > 0
    BY <1>0, ClientMarkEffect
  <1>3. a \in server.real /\ a \in client.real
    BY <1>0, <1>2 DEF CardsTrue
  <1>4. StaysPlain'
    BY <1>0, <1>1, <1>2, <1>3 DEF StaysPlain, Public
  <1>5. CardsTrue'
    BY <1>0, <1>1, <1>2 DEF CardsTrue, SyncPrivate
  <1>6. WantedServable'
    BY <1>0, <1>1, <1>2 DEF WantedServable, SyncPrivate
  <1>7. MissingAsked'
    BY <1>0, <1>1, <1>2, <1>3 DEF MissingAsked, NoRequest
  <1>8. PushOnItsWay'
    BY <1>1, <1>2, <1>3 DEF AgreeInv, PushOnItsWay, PushOK, SyncPrivate
  <1>9. PullOnItsWay'
    BY <1>1, <1>2 DEF AgreeInv, PullOnItsWay, PullOK, SyncPrivate
  <1> QED BY <1>4, <1>5, <1>6, <1>7, <1>8, <1>9 DEF AgreeInv

LEMMA EndRoundAgrees ==
    ASSUME SessionInv, AgreeInv, EndRound
    PROVE  AgreeInv'
  <1> USE DEF observerVars
  <1>0. TypeOK /\ StaysPlain /\ CardsTrue /\ WantedServable /\ MissingAsked /\ request = NoRequest
    BY DEF SessionInv, AgreeInv, OneMessage, EndRound
  <1>1. /\ st = "receiving" /\ response.files = {} /\ response' = NoResponse
        /\ marking = {} /\ marking' = {}
        /\ UNCHANGED <<server, caps, opts, request, world, promise>>
    BY DEF EndRound
  <1>2. /\ client'.real = client.real
        /\ client'.private = (client.private \ (response.igot \cap client.real))
                                \cup (response.pigot \cap client.real)
        /\ pendingSend' = pendingSend \cup response.gimme
        /\ remoteHas' = remoteHas \cup response.igot \cup response.pigot
        /\ st' \in {"done", "exceeded", "ready"}
    BY <1>0, EndRoundEffect, MarkedEffect DEF StaysPlain, Rows
  <1>3. /\ client'.phantom = {} /\ client'.unclustered = client.unclustered
        /\ phantoms' \subseteq phantoms \cup
             ((response.igot \cup response.pigot) \ client.real)
        /\ \A a \in Artifact : phantomAge'[a] > 0 => a \in phantoms'
        /\ st' = "done" =>
             /\ filesRecvd = 0 /\ response.gimme = {}
             /\ opts.pull =>
                 \A a \in response.igot \cup (IF opts.private THEN response.pigot ELSE {}) :
                     a \in client.real \/ phantomAge[a] + 1 >= MaxAge
    BY <1>0, PlainEndRound
  <1>4. StaysPlain'
    BY <1>0, <1>1, <1>2, <1>3 DEF StaysPlain, Public, CardsTrue
  <1>5. CardsTrue'
    BY <1>0, <1>1, <1>2 DEF CardsTrue, SyncPrivate, NoResponse
  <1>6. WantedServable'
    <2>1. phantoms' \subseteq server.real
      BY <1>0, <1>3 DEF WantedServable, CardsTrue
    <2>2. phantoms' \cap server.private # {} => SyncPrivate
      BY <1>0, <1>3 DEF WantedServable, CardsTrue
    <2>3. phantoms' \cap (pendingSend \cup response.gimme) = {}
      BY <1>0, <1>3 DEF WantedServable, CardsTrue
    <2> QED BY <1>0, <1>1, <1>2, <2>1, <2>2, <2>3
        DEF WantedServable, SyncPrivate, NoRequest, NoResponse
  <1>7. MissingAsked'
    BY <1>0, <1>1, <1>2, <1>3 DEF MissingAsked, NoRequest
  <1>8. PushOnItsWay'
    <2> SUFFICES ASSUME PushOK, NEW a \in promise.client \ server.real
                 PROVE  /\ a \in client'.real \ world.shunClient
                        /\ a \in client'.private => SyncPrivate
                        /\ st' # "done"
      BY <1>1, <1>2 DEF PushOnItsWay, PushOK, SyncPrivate
    <2>1. /\ a \in client.real \ world.shunClient
          /\ a \in client.private => SyncPrivate
          /\ a \in response.gimme
      BY <1>1 DEF AgreeInv, PushOnItsWay, Running
    <2>2. a \notin response.pigot
      BY <1>0 DEF CardsTrue
    <2> QED BY <1>2, <1>3, <2>1, <2>2
  <1>9. PullOnItsWay'
    <2> SUFFICES ASSUME PullOK, NEW a \in promise.server \ client.real
                 PROVE  /\ a \in server.real \ world.shunServer
                        /\ a \in server.private => SyncPrivate
                        /\ st' # "done"
      BY <1>1, <1>2 DEF PullOnItsWay, PullOK, SyncPrivate
    <2>1. /\ a \in server.real \ world.shunServer
          /\ a \in server.private => SyncPrivate
          /\ a \in response.igot \/ (SyncPrivate /\ a \in response.pigot)
      BY <1>1 DEF AgreeInv, PullOnItsWay, Running
    <2>2. ASSUME st' = "done" PROVE FALSE
      <3>1. phantomAge[a] + 1 >= MaxAge
        BY <1>3, <2>1, <2>2 DEF PullOK, SyncPrivate
      <3>2. a \in Artifact /\ phantomAge[a] \in 0..MaxAge - 1
        BY <1>0, <2>1 DEF TypeOK, Cards
      <3>3. phantomAge[a] > 0
        BY <3>1, <3>2 DEF MaxAge
      <3>4. a \in phantoms
        BY <1>0, <3>2, <3>3 DEF MissingAsked
      <3>5. filesRecvd > 0
        BY <1>0, <1>1, <3>4 DEF MissingAsked, PullOK
      <3> QED BY <1>3, <2>2, <3>5
    <2> QED BY <2>1, <2>2
  <1> QED BY <1>4, <1>5, <1>6, <1>7, <1>8, <1>9 DEF AgreeInv

LEMMA InterruptAgrees ==
    ASSUME AgreeInv, Interrupt
    PROVE  AgreeInv'
  BY DEF Interrupt, AgreeInv, StaysPlain, Public, CardsTrue, WantedServable, MissingAsked,
         PushOnItsWay, PullOnItsWay, PushOK, PullOK, SyncPrivate, Running, NoRequest, NoResponse

LEMMA ClientCommitAgrees ==
    ASSUME SessionInv, AgreeInv, NEW a \in Artifact, ClientCommit(a)
    PROVE  AgreeInv'
  <1> USE DEF observerVars, sessionVars, messageVars
  <1>1. /\ UNCHANGED <<server, caps, st, opts, remoteHas, phantoms, phantomAge, pendingSend,
                       request, response, marking, filesRecvd, world, promise>>
    BY DEF ClientCommit
  <1>2. /\ client'.real = client.real \cup {a} /\ client'.private = client.private
        /\ client'.phantom = client.phantom
        /\ client'.unclustered = client.unclustered \cup {a}
    BY DEF ClientCommit, SessionInv, TypeOK, Repo
  <1>3. StaysPlain'
    BY <1>1, <1>2 DEF AgreeInv, StaysPlain, Public
  <1>4. CardsTrue'
    BY <1>1, <1>2 DEF AgreeInv, CardsTrue, SyncPrivate
  <1>5. WantedServable'
    BY <1>1 DEF AgreeInv, WantedServable, SyncPrivate
  <1>6. MissingAsked'
    BY <1>1, <1>2 DEF AgreeInv, MissingAsked
  <1>7. PushOnItsWay'
    BY <1>1, <1>2 DEF AgreeInv, PushOnItsWay, PushOK, SyncPrivate
  <1>8. PullOnItsWay'
    BY <1>1, <1>2 DEF AgreeInv, PullOnItsWay, PullOK, SyncPrivate
  <1> QED BY <1>3, <1>4, <1>5, <1>6, <1>7, <1>8 DEF AgreeInv

LEMMA ServerGainsAgrees ==
    ASSUME SessionInv, AgreeInv, NEW a \in Artifact, ServerGains(a)
    PROVE  AgreeInv'
  <1> USE DEF observerVars, sessionVars, messageVars
  <1>1. /\ UNCHANGED <<client, caps, st, opts, remoteHas, phantoms, phantomAge, pendingSend,
                       request, response, marking, filesRecvd, world, promise>>
    BY DEF ServerGains
  <1>2. /\ server'.real = server.real \cup {a} /\ server'.private = server.private
        /\ server'.phantom = {}
    BY ReceiveEffect, PlainReceive DEF ServerGains, SessionInv, TypeOK, AgreeInv, StaysPlain
  <1>3. StaysPlain'
    BY <1>1, <1>2 DEF AgreeInv, StaysPlain, Public
  <1>4. CardsTrue'
    BY <1>1, <1>2 DEF AgreeInv, CardsTrue, SyncPrivate
  <1>5. WantedServable'
    BY <1>1, <1>2 DEF AgreeInv, WantedServable, SyncPrivate
  <1>6. MissingAsked'
    BY <1>1 DEF AgreeInv, MissingAsked
  <1>7. PushOnItsWay'
    BY <1>1, <1>2 DEF AgreeInv, PushOnItsWay, PushOK, SyncPrivate
  <1>8. PullOnItsWay'
    BY <1>1, <1>2 DEF AgreeInv, PullOnItsWay, PullOK, SyncPrivate
  <1> QED BY <1>3, <1>4, <1>5, <1>6, <1>7, <1>8 DEF AgreeInv

LEMMA NextAgree ==
    ASSUME SessionInv, AgreeInv, [Next]_vars
    PROVE  AgreeInv'
  <1>1. CASE UNCHANGED vars
    BY <1>1 DEF vars, sessionVars, messageVars, observerVars, AgreeInv, StaysPlain, Public,
                CardsTrue, WantedServable, MissingAsked, PushOnItsWay, PullOnItsWay, PushOK,
                PullOK, SyncPrivate
  <1> QED BY <1>1, StartAgrees, BuildRequestAgrees, ServerFileAgrees, ServerReplyAgrees,
             ServerMarkAgrees, ClientFileAgrees, ClientMarkAgrees, EndRoundAgrees,
             InterruptAgrees, ClientCommitAgrees, ServerGainsAgrees DEF Next, Step

(* Between repositories without clusters and phantoms, a session that is    *)
(* done has moved everything each side had to offer when it started, in     *)
(* each direction it was allowed to use: for any artifacts, budgets,        *)
(* private and shunned ones, interruptions before it and commits meanwhile  *)
(* (buildRequest, HandleSync, processResponse's convergence test).          *)
THEOREM SyncDoneMeansAgree == Spec => [](Plain => DoneMeansAgree)
  <1> DEFINE Inv == SessionInv /\ (Plain => AgreeInv)
  <1>1. Init => Inv
    BY InitSession, InitAgree
  <1>2. Inv /\ [Next]_vars => Inv'
    <2>1. [Next]_vars /\ Plain' => Plain
      BY SyncWorldKept DEF Plain, Public
    <2> QED BY <2>1, NextSession, NextAgree
  <1>3. Inv => (Plain => DoneMeansAgree)
    BY DEF AgreeInv, PushOnItsWay, PullOnItsWay, DoneMeansAgree
  <1> QED BY <1>1, <1>2, <1>3, PTL DEF Spec

-----------------------------------------------------------------------------
(* How many rounds a session can take.  Everything each side may come to    *)
(* have.                                                                    *)
Made == world.client.real \cup world.server.real \cup world.lateClient \cup world.lateServer

(* Everyone may push and does, nothing is private, no commit is shunned     *)
(* where it is made, and the two sides make different artifacts.            *)
Unhindered ==
    /\ Plain
    /\ IsFiniteSet(Made)
    /\ world.client.private = {} /\ world.server.private = {}
    /\ (\A mode \in world.modes : mode.push) /\ (\A user \in world.users : user.push)
    /\ (world.unsent \cup world.lateClient) \cap world.shunClient = {}
    /\ world.lateClient \cap (world.server.real \cup world.lateServer) = {}
    /\ world.lateServer \cap world.client.real = {}

(* Two rounds for each artifact that is lacking at a side: one to find out, *)
(* one to bring it across.                                                  *)
Budget == 2 * (Cardinality(Made \ world.client.real) + Cardinality(Made \ world.server.real))

(* What is lacking at the two sides and not on its way, and the rounds it   *)
(* may still take.                                                          *)
ClientLacks == Made \ (client.real \cup request.gimme \cup response.files)
ServerLacks == Made \ (server.real \cup request.files)
Owed == 2 * (Cardinality(ClientLacks) + Cardinality(ServerLacks))

Busy == pendingSend # {} \/ phantoms # {}

(* The round began with nothing to send or to ask for.                      *)
NothingFound ==
    /\ request.files = {} /\ request.gimme = {} /\ response.files = {} /\ filesRecvd = 0
    /\ pendingSend = {} /\ phantoms = {} /\ marking = {}
    /\ unsent # {} => igotSent

(* The rounds so far are paid for by the artifacts on their way or across:  *)
(* a round that found nothing is paid for by what the next one will move.   *)
RoundsPaid ==
    /\ st = "ready" => cycle + Owed <= Budget + (IF Busy THEN 1 ELSE 0)
    /\ st \in {"serving", "receiving"} =>
        \/ cycle + Owed <= Budget - 1
        \/ cycle + Owed <= Budget /\ NothingFound

NoSecrets ==
    /\ client.private = {} /\ server.private = {}
    /\ request.pfiles = {} /\ response.pigot = {} /\ response.pfiles = {}

(* Each artifact comes from one side.                                       *)
OneOrigin ==
    /\ world.client.real \subseteq client.real /\ world.server.real \subseteq server.real
    /\ client.real \cup server.real \subseteq Made
    /\ client.real \cap world.lateServer \subseteq server.real
    /\ server.real \cap world.lateClient \subseteq client.real

(* What is queued or wanted is lacking where it goes, or arriving.          *)
OnlyLacking ==
    /\ (pendingSend \cup response.gimme) \cap server.real = {}
    /\ st \in {"ready", "serving", "receiving"} => phantoms \cap client.real \subseteq marking
    /\ phantoms # {} => opts.pull

(* The server never announces an unsent artifact: the client does.          *)
UnsentTold ==
    /\ unsent \subseteq (client.real \cap client.unclustered) \ world.shunClient
    /\ st \in Running => unsent \cap remoteHas = {}
    /\ st = "serving" => unsent \cap (server.real \cup request.files) \subseteq request.igot
    /\ st = "receiving" => unsent \cap response.igot = {}

PaidInv ==
    /\ opts.push /\ caps.push
    /\ NoSecrets /\ OneOrigin /\ OnlyLacking /\ UnsentTold /\ RoundsPaid

-----------------------------------------------------------------------------
LEMMA SmallerPart ==
    ASSUME NEW S, IsFiniteSet(S), NEW T \in SUBSET S
    PROVE  /\ Cardinality(S) \in Nat /\ Cardinality(T) \in Nat
           /\ Cardinality(T) <= Cardinality(S)
           /\ T # S => Cardinality(T) + 1 <= Cardinality(S)
  <1>1. /\ IsFiniteSet(T) /\ Cardinality(T) <= Cardinality(S)
        /\ Cardinality(S) = Cardinality(T) => S = T
    BY FS_Subset
  <1>2. Cardinality(S) \in Nat /\ Cardinality(T) \in Nat
    BY <1>1, FS_CardinalityType
  <1> QED BY <1>1, <1>2

(* An artifact that sets out or arrives lowers what is owed.                *)
LEMMA OwedDrops ==
    ASSUME Unhindered, world' = world,
           ClientLacks' \subseteq ClientLacks, ServerLacks' \subseteq ServerLacks
    PROVE  /\ Owed \in Nat /\ Owed' \in Nat /\ Owed' <= Owed
           /\ ClientLacks' # ClientLacks \/ ServerLacks' # ServerLacks => Owed' + 2 <= Owed
  <1>1. IsFiniteSet(Made) /\ ClientLacks \subseteq Made /\ ServerLacks \subseteq Made
    BY DEF Unhindered, ClientLacks, ServerLacks
  <1>2. IsFiniteSet(ClientLacks) /\ IsFiniteSet(ServerLacks)
    BY <1>1, FS_Subset
  <1>3. /\ Cardinality(ClientLacks) \in Nat /\ Cardinality(ClientLacks') \in Nat
        /\ Cardinality(ClientLacks') <= Cardinality(ClientLacks)
        /\ ClientLacks' # ClientLacks =>
              Cardinality(ClientLacks') + 1 <= Cardinality(ClientLacks)
    BY <1>2, SmallerPart
  <1>4. /\ Cardinality(ServerLacks) \in Nat /\ Cardinality(ServerLacks') \in Nat
        /\ Cardinality(ServerLacks') <= Cardinality(ServerLacks)
        /\ ServerLacks' # ServerLacks =>
              Cardinality(ServerLacks') + 1 <= Cardinality(ServerLacks)
    BY <1>2, SmallerPart
  <1> QED BY <1>3, <1>4 DEF Owed

LEMMA BudgetKept ==
    ASSUME Unhindered, world' = world
    PROVE  Budget \in Nat /\ Budget' = Budget
  <1>1. /\ Cardinality(Made \ world.client.real) \in Nat
        /\ Cardinality(Made \ world.server.real) \in Nat
    BY SmallerPart DEF Unhindered
  <1>2. Budget \in Nat
    BY <1>1 DEF Budget
  <1> QED BY <1>2 DEF Budget, Made

LEMMA InitPaid == Init /\ Unhindered => PaidInv
  <1> SUFFICES ASSUME Init, Unhindered PROVE PaidInv
    OBVIOUS
  <1>1. world \in Worlds /\ world.unsent \subseteq world.client.real
    BY ConstantsAssumption DEF Init
  <1>2. opts.push /\ caps.push /\ NoSecrets /\ OnlyLacking /\ RoundsPaid
    BY DEF Init, Unhindered, NoSecrets, OnlyLacking, RoundsPaid, NoRequest, NoResponse
  <1>3. OneOrigin
    BY DEF Init, Unhindered, OneOrigin, Made
  <1>4. UnsentTold
    BY <1>1 DEF Init, Unhindered, Plain, Public, UnsentTold, Running
  <1> QED BY <1>2, <1>3, <1>4 DEF PaidInv

LEMMA StartPaid ==
    ASSUME SessionInv, AgreeInv, Unhindered, PaidInv, NEW mode \in Mode, StartWith(mode)
    PROVE  PaidInv'
  <1>1. /\ UNCHANGED <<client, server, unsent, world, caps>> /\ opts' = mode /\ st' = "ready"
        /\ cycle' = 0 /\ remoteHas' = {} /\ phantoms' = {} /\ pendingSend' = {}
        /\ request' = NoRequest /\ response' = NoResponse /\ mode \in world.modes
    BY DEF StartWith
  <1>2. opts'.push /\ caps'.push /\ NoSecrets' /\ OneOrigin' /\ OnlyLacking'
    BY <1>1 DEF PaidInv, Unhindered, NoSecrets, OneOrigin, Made, OnlyLacking, NoRequest,
                NoResponse
  <1>3. UnsentTold'
    BY <1>1 DEF PaidInv, UnsentTold
  <1>4. RoundsPaid'
    <2>1. /\ ClientLacks' \subseteq Made \ world.client.real
          /\ ServerLacks' \subseteq Made \ world.server.real
      BY <1>1 DEF PaidInv, OneOrigin, ClientLacks, ServerLacks, Made
    <2>2. IsFiniteSet(Made \ world.client.real) /\ IsFiniteSet(Made \ world.server.real)
      BY FS_Subset DEF Unhindered
    <2>3. /\ Cardinality(ClientLacks') \in Nat /\ Cardinality(Made \ world.client.real) \in Nat
          /\ Cardinality(ClientLacks') <= Cardinality(Made \ world.client.real)
      BY <2>1, <2>2, SmallerPart
    <2>4. /\ Cardinality(ServerLacks') \in Nat /\ Cardinality(Made \ world.server.real) \in Nat
          /\ Cardinality(ServerLacks') <= Cardinality(Made \ world.server.real)
      BY <2>1, <2>2, SmallerPart
    <2>5. Owed' <= Budget /\ Owed' \in Nat
      BY <2>3, <2>4 DEF Owed, Budget
    <2>6. Budget' = Budget /\ Budget \in Nat
      BY <1>1, BudgetKept
    <2>7. 0 + Owed' <= Budget
      <3> DEFINE owed == Owed'
      <3>1. owed \in Nat /\ owed <= Budget
        BY <2>5
      <3> HIDE DEF owed
      <3>2. 0 + owed <= Budget
        BY <2>6, <3>1
      <3> QED BY <3>2 DEF owed
    <2> QED BY <1>1, <2>6, <2>7 DEF RoundsPaid, Busy
  <1> QED BY <1>2, <1>3, <1>4 DEF PaidInv

(* A round with something queued or wanted puts an artifact on its way.     *)
LEMMA BusyRoundMoves ==
    ASSUME SessionInv, AgreeInv, PaidInv, BuildRequest
    PROVE  /\ pendingSend # {} => request'.files # {}
           /\ phantoms # {} => request'.gimme # {}
           /\ unsent \subseteq request'.igot
           /\ unsent # {} => igotSent'
  <1>0. TypeOK /\ StaysPlain /\ CardsTrue
    BY DEF SessionInv, AgreeInv
  <1>1. PICK visited \in SUBSET pendingSend, gimme \in SUBSET phantoms :
          /\ Visits(visited)
          /\ request' = [igot |-> UnclusteredIGots \cup ClusterIGots,
                         pigot |-> PrivateIGots,
                         files |-> FilesToSend(visited),
                         pfiles |-> FilesToSend(visited) \cap client.private,
                         gimme |-> gimme]
    BY DEF BuildRequest
  <1>2. ASSUME pendingSend # {} PROVE FilesToSend(visited) # {}
    <2>1. FilesToSend(visited) = visited
      BY <1>0 DEF FilesToSend, Sendable, Withheld, PaidInv, NoSecrets, CardsTrue
    <2>2. Cardinality({}) = 0 /\ MaxSend \in Nat \ {0}
      BY FS_EmptySet, ConstantsAssumption
    <2> QED BY <1>1, <1>2, <2>1, <2>2 DEF Visits, PaidInv
  <1>3. phantoms # {} => request'.gimme # {}
    <2>1. opts.pull /\ ~(phantoms \subseteq client.real) => request'.gimme # {}
      BY <1>0, PlainBuildRequest
    <2>2. marking = {}
      BY DEF BuildRequest, SessionInv, OneMessage
    <2> QED BY <2>1, <2>2 DEF BuildRequest, PaidInv, OnlyLacking
  <1>4. unsent \subseteq UnclusteredIGots
    BY DEF BuildRequest, PaidInv, NoSecrets, UnsentTold, UnclusteredIGots, Running
  <1>5. igotSent' = (UnclusteredIGots \cup ClusterIGots \cup PrivateIGots # {})
    BY DEF BuildRequest
  <1> QED BY <1>1, <1>2, <1>3, <1>4, <1>5

LEMMA BuildRequestPaid ==
    ASSUME SessionInv, AgreeInv, Unhindered, PaidInv, BuildRequest
    PROVE  PaidInv'
  <1> USE DEF observerVars
  <1>0. /\ TypeOK /\ StaysPlain /\ CardsTrue /\ WantedServable
        /\ request = NoRequest /\ response = NoResponse /\ marking = {}
        /\ NoSecrets /\ OneOrigin /\ OnlyLacking /\ UnsentTold
    BY DEF SessionInv, AgreeInv, PaidInv, OneMessage, BuildRequest
  <1>1. /\ st = "ready" /\ st' = "serving" /\ filesRecvd' = 0
        /\ UNCHANGED <<client, server, unsent, caps, opts, cycle, remoteHas, phantoms,
                       response, marking, world>>
    BY DEF BuildRequest
  <1>2. /\ request'.files \subseteq pendingSend \cap client.real
        /\ request'.pfiles = request'.files \cap client.private
        /\ pendingSend' \subseteq pendingSend
    BY <1>0, BuildRequestEffect
  <1>3. request'.gimme \subseteq phantoms
    BY <1>0, PlainBuildRequest
  <1>4. /\ pendingSend # {} => request'.files # {}
        /\ phantoms # {} => request'.gimme # {}
        /\ unsent \subseteq request'.igot
        /\ unsent # {} => igotSent'
    BY BusyRoundMoves
  <1>5. opts'.push /\ caps'.push /\ NoSecrets' /\ OneOrigin' /\ OnlyLacking'
    BY <1>0, <1>1, <1>2 DEF PaidInv, NoSecrets, OneOrigin, Made, OnlyLacking
  <1>6. UnsentTold'
    BY <1>0, <1>1, <1>4 DEF UnsentTold, Running
  <1>7. RoundsPaid'
    <2>1. /\ ClientLacks = Made \ client.real
          /\ ClientLacks' = Made \ (client.real \cup request'.gimme)
          /\ ServerLacks = Made \ server.real
          /\ ServerLacks' = Made \ (server.real \cup request'.files)
      BY <1>0, <1>1 DEF ClientLacks, ServerLacks, Made, NoRequest, NoResponse
    <2>2. /\ Owed \in Nat /\ Owed' \in Nat /\ Owed' <= Owed
          /\ ClientLacks' # ClientLacks \/ ServerLacks' # ServerLacks => Owed' + 2 <= Owed
      BY <1>1, <2>1, OwedDrops
    <2>3. Budget' = Budget /\ Budget \in Nat /\ cycle \in Nat
      BY <1>0, <1>1, BudgetKept, ConstantsAssumption DEF TypeOK
    <2>4. cycle + Owed <= Budget + (IF Busy THEN 1 ELSE 0)
      BY <1>1 DEF PaidInv, RoundsPaid
    <2>5. CASE Busy
      <3>1. ClientLacks' # ClientLacks \/ ServerLacks' # ServerLacks
        <4>1. CASE pendingSend # {}
          <5>1. PICK a : a \in request'.files
            BY <1>4, <4>1
          <5>2. a \in Made /\ a \notin server.real
            BY <1>0, <1>2, <5>1 DEF OneOrigin, OnlyLacking
          <5> QED BY <2>1, <5>1, <5>2
        <4>2. CASE phantoms # {}
          <5>1. PICK a : a \in request'.gimme
            BY <1>4, <4>2
          <5>2. a \in Made /\ a \notin client.real
            BY <1>0, <1>1, <1>3, <5>1 DEF OneOrigin, OnlyLacking, WantedServable
          <5> QED BY <2>1, <5>1, <5>2
        <4> QED BY <2>5, <4>1, <4>2 DEF Busy
      <3>2. cycle + Owed' <= Budget - 1
        <4> DEFINE owed == Owed'
        <4>1. owed \in Nat /\ owed + 2 <= Owed
          BY <2>2, <3>1
        <4> HIDE DEF owed
        <4>2. cycle + owed <= Budget - 1
          BY <2>2, <2>3, <2>4, <2>5, <4>1
        <4> QED BY <4>2 DEF owed
      <3> QED BY <1>1, <2>3, <3>2 DEF RoundsPaid
    <2>6. CASE ~Busy
      <3>1. cycle + Owed' <= Budget
        <4> DEFINE owed == Owed'
        <4>1. owed \in Nat /\ owed <= Owed
          BY <2>2
        <4> HIDE DEF owed
        <4>2. cycle + owed <= Budget
          BY <2>2, <2>3, <2>4, <2>6, <4>1
        <4> QED BY <4>2 DEF owed
      <3>2. NothingFound'
        BY <1>0, <1>1, <1>2, <1>3, <1>4, <2>6 DEF NothingFound, Busy, NoResponse
      <3> QED BY <1>1, <2>3, <3>1, <3>2 DEF RoundsPaid
    <2> QED BY <2>5, <2>6
  <1> QED BY <1>5, <1>6, <1>7 DEF PaidInv

(* A step within a round leaves the rounds paid for if nothing more is      *)
(* owed and what it found is the same.                                      *)
LEMMA StillPaid ==
    ASSUME TypeOK, Unhindered, RoundsPaid, world' = world, cycle' = cycle,
           st \in {"serving", "receiving"}, st' \in {"serving", "receiving"},
           ClientLacks' \subseteq ClientLacks, ServerLacks' \subseteq ServerLacks,
           NothingFound => NothingFound'
    PROVE  RoundsPaid'
  <1>1. Owed \in Nat /\ Owed' \in Nat /\ Owed' <= Owed
    BY OwedDrops
  <1>2. Budget' = Budget /\ Budget \in Nat /\ cycle \in Nat
    BY BudgetKept, ConstantsAssumption DEF TypeOK
  <1>3. \/ cycle + Owed <= Budget - 1
        \/ cycle + Owed <= Budget /\ NothingFound
    BY DEF RoundsPaid
  <1>4. \/ cycle + Owed' <= Budget - 1
        \/ cycle + Owed' <= Budget /\ NothingFound'
    <2> DEFINE owed == Owed'
    <2>1. owed \in Nat /\ owed <= Owed
      BY <1>1
    <2> HIDE DEF owed
    <2>2. \/ cycle + owed <= Budget - 1
          \/ cycle + owed <= Budget /\ NothingFound'
      BY <1>1, <1>2, <1>3, <2>1
    <2> QED BY <2>2 DEF owed
  <1> QED BY <1>2, <1>4 DEF RoundsPaid

LEMMA ServerFilePaid ==
    ASSUME SessionInv, AgreeInv, Unhindered, PaidInv, NEW a \in Artifact, ServerFile(a)
    PROVE  PaidInv'
  <1> USE DEF observerVars, sessionVars
  <1>0. /\ TypeOK /\ StaysPlain /\ CardsTrue /\ response = NoResponse
        /\ NoSecrets /\ OneOrigin /\ OnlyLacking /\ UnsentTold /\ RoundsPaid
        /\ request.files \cap pendingSend = {}
    BY DEF SessionInv, AgreeInv, PaidInv, OneMessage, ServerFile, QueueIsNews
  <1>1. /\ st = "serving" /\ a \in request.files /\ PushOK
        /\ UNCHANGED <<client, unsent, caps, st, opts, cycle, remoteHas, phantoms, pendingSend,
                       response, filesRecvd, igotSent, world>>
    BY DEF ServerFile, PaidInv, PushOK
  <1>2. /\ server'.real = server.real \cup {a}
        /\ server'.private = server.private /\ marking = {} /\ marking' = {a}
        /\ request'.igot = request.igot /\ request'.pfiles = request.pfiles
        /\ request'.files = request.files \ {a}
    BY <1>0, <1>1, ServerFileEffect DEF ServerFile
  <1>3. request'.gimme = request.gimme
    BY <1>0, PlainServerFile
  <1>4. a \in client.real
    BY <1>0, <1>1 DEF CardsTrue
  <1>5. opts'.push /\ caps'.push /\ NoSecrets' /\ OneOrigin'
    BY <1>0, <1>1, <1>2, <1>4 DEF PaidInv, NoSecrets, OneOrigin, Made
  <1>6. OnlyLacking'
    BY <1>0, <1>1, <1>2 DEF OnlyLacking, NoResponse
  <1>7. UnsentTold'
    BY <1>0, <1>1, <1>2 DEF UnsentTold, Running
  <1>8. ClientLacks' = ClientLacks /\ ServerLacks' = ServerLacks
    BY <1>1, <1>2, <1>3 DEF ClientLacks, ServerLacks, Made
  <1>9. RoundsPaid'
    BY <1>0, <1>1, <1>8, StillPaid DEF NothingFound
  <1> QED BY <1>5, <1>6, <1>7, <1>9 DEF PaidInv

LEMMA ServerMarkPaid ==
    ASSUME SessionInv, AgreeInv, Unhindered, PaidInv, NEW a \in Artifact, ServerMark(a)
    PROVE  PaidInv'
  <1> USE DEF observerVars, sessionVars
  <1>0. /\ TypeOK /\ WantedServable
        /\ NoSecrets /\ OneOrigin /\ OnlyLacking /\ UnsentTold /\ RoundsPaid
    BY DEF SessionInv, AgreeInv, PaidInv
  <1>1. /\ st = "serving"
        /\ UNCHANGED <<client, unsent, caps, st, opts, cycle, remoteHas, phantoms, pendingSend,
                       request, response, filesRecvd, igotSent, world>>
    BY DEF ServerMark
  <1>2. /\ server'.real = server.real /\ server'.private = server.private \ {a}
        /\ marking = {a} /\ marking' = {}
    BY <1>0, ServerMarkEffect DEF NoSecrets
  <1>3. opts'.push /\ caps'.push /\ NoSecrets' /\ OneOrigin' /\ UnsentTold'
    BY <1>0, <1>1, <1>2 DEF PaidInv, NoSecrets, OneOrigin, Made, UnsentTold, Running
  <1>4. OnlyLacking'
    BY <1>0, <1>1, <1>2 DEF OnlyLacking, WantedServable
  <1>5. ClientLacks' = ClientLacks /\ ServerLacks' = ServerLacks
    BY <1>1, <1>2 DEF ClientLacks, ServerLacks, Made
  <1>6. RoundsPaid'
    BY <1>0, <1>1, <1>2, <1>5, StillPaid DEF NothingFound
  <1> QED BY <1>3, <1>4, <1>6 DEF PaidInv

LEMMA ServerReplyPaid ==
    ASSUME SessionInv, AgreeInv, Unhindered, PaidInv, ServerReply
    PROVE  PaidInv'
  <1> USE DEF observerVars
  <1>0. /\ TypeOK /\ StaysPlain /\ CardsTrue /\ WantedServable /\ response = NoResponse
        /\ NoSecrets /\ OneOrigin /\ OnlyLacking /\ UnsentTold /\ RoundsPaid
        /\ request.gimme \subseteq phantoms
    BY DEF SessionInv, AgreeInv, PaidInv, OneMessage, ServerReply, MissingAsked
  <1>1. /\ st = "serving" /\ st' = "receiving" /\ request.files = {}
        /\ UNCHANGED <<client, unsent, caps, opts, cycle, remoteHas, phantoms, pendingSend,
                       filesRecvd, igotSent, marking, world>>
    BY DEF ServerReply
  <1>2. /\ server'.real = server.real /\ server'.private = server.private
        /\ request' = NoRequest /\ Rows(server) = server.real
        /\ response'.igot = ServerIGots /\ response'.pigot = ServerPrivateIGots
        /\ response'.files = ServerFiles /\ response'.gimme = ServerGimmes
        /\ response'.pfiles = ServerFiles \cap server.private
        /\ ServerGimmes \cap server.real = {}
    BY <1>0, ServerReplyEffect, PlainServerReply
  <1>3. ServerFiles = request.gimme
    BY <1>0 DEF ServerFiles, WantedServable, NoSecrets
  <1>4. opts'.push /\ caps'.push /\ OneOrigin' /\ OnlyLacking'
    BY <1>0, <1>1, <1>2 DEF PaidInv, OneOrigin, Made, OnlyLacking
  <1>5. NoSecrets'
    BY <1>0, <1>1, <1>2 DEF NoSecrets, ServerPrivateIGots, NoRequest
  <1>6. UnsentTold'
    <2>1. unsent \cap ServerIGots = {}
      BY <1>0, <1>1, <1>2 DEF UnsentTold, ServerIGots
    <2> QED BY <1>0, <1>1, <1>2, <2>1 DEF UnsentTold, Running
  <1>7. ClientLacks' = ClientLacks /\ ServerLacks' = ServerLacks
    BY <1>0, <1>1, <1>2, <1>3 DEF ClientLacks, ServerLacks, Made, NoRequest, NoResponse
  <1>8. NothingFound => NothingFound'
    BY <1>1, <1>2, <1>3 DEF NothingFound, NoRequest
  <1>9. RoundsPaid'
    BY <1>0, <1>1, <1>7, <1>8, StillPaid
  <1> QED BY <1>4, <1>5, <1>6, <1>9 DEF PaidInv

LEMMA ClientFilePaid ==
    ASSUME SessionInv, AgreeInv, Unhindered, PaidInv, NEW a \in Artifact, ClientFile(a)
    PROVE  PaidInv'
  <1> USE DEF observerVars
  <1>0. /\ TypeOK /\ StaysPlain /\ CardsTrue
        /\ NoSecrets /\ OneOrigin /\ OnlyLacking /\ UnsentTold /\ RoundsPaid
    BY DEF SessionInv, AgreeInv, PaidInv
  <1>1. /\ st = "receiving" /\ a \in response.files
        /\ UNCHANGED <<server, unsent, caps, st, opts, cycle, remoteHas, pendingSend,
                       request, world>>
    BY DEF ClientFile
  <1>2. /\ client'.real = client.real \cup {a}
        /\ client'.private = client.private /\ marking = {} /\ marking' = {a}
        /\ response'.igot = response.igot /\ response'.pfiles = response.pfiles
        /\ response'.gimme = response.gimme /\ response'.pigot = response.pigot
        /\ response'.files = response.files \ {a}
    BY <1>0, ClientFileEffect DEF ClientFile
  <1>3. /\ phantoms' = phantoms
        /\ client.unclustered \subseteq client'.unclustered
    BY <1>0, PlainClientFile
  <1>4. a \in server.real
    BY <1>0, <1>1 DEF CardsTrue
  <1>5. opts'.push /\ caps'.push /\ NoSecrets' /\ OneOrigin'
    BY <1>0, <1>1, <1>2, <1>3, <1>4 DEF PaidInv, NoSecrets, OneOrigin, Made
  <1>6. OnlyLacking'
    BY <1>0, <1>1, <1>2, <1>3 DEF OnlyLacking
  <1>7. UnsentTold'
    BY <1>0, <1>1, <1>2, <1>3 DEF UnsentTold, Running
  <1>8. ClientLacks' = ClientLacks /\ ServerLacks' = ServerLacks
    BY <1>1, <1>2 DEF ClientLacks, ServerLacks, Made
  <1>9. RoundsPaid'
    BY <1>0, <1>1, <1>8, StillPaid DEF NothingFound
  <1> QED BY <1>5, <1>6, <1>7, <1>9 DEF PaidInv

LEMMA ClientMarkPaid ==
    ASSUME SessionInv, AgreeInv, Unhindered, PaidInv, NEW a \in Artifact, ClientMark(a)
    PROVE  PaidInv'
  <1> USE DEF observerVars
  <1>0. /\ TypeOK /\ NoSecrets /\ OneOrigin /\ OnlyLacking /\ UnsentTold /\ RoundsPaid
    BY DEF SessionInv, PaidInv
  <1>1. /\ st = "receiving" /\ phantoms' = phantoms \ {a}
        /\ UNCHANGED <<server, unsent, caps, st, opts, cycle, remoteHas, pendingSend,
                       request, response, world>>
    BY DEF ClientMark
  <1>2. /\ client'.real = client.real /\ client'.private = client.private \ {a}
        /\ client'.unclustered = client.unclustered
        /\ marking = {a} /\ marking' = {}
    BY <1>0, ClientMarkEffect DEF NoSecrets
  <1>3. opts'.push /\ caps'.push /\ NoSecrets' /\ OneOrigin' /\ UnsentTold'
    BY <1>0, <1>1, <1>2 DEF PaidInv, NoSecrets, OneOrigin, Made, UnsentTold, Running
  <1>4. OnlyLacking'
    BY <1>0, <1>1, <1>2 DEF OnlyLacking
  <1>5. ClientLacks' = ClientLacks /\ ServerLacks' = ServerLacks
    BY <1>1, <1>2 DEF ClientLacks, ServerLacks, Made
  <1>6. RoundsPaid'
    BY <1>0, <1>1, <1>2, <1>5, StillPaid DEF NothingFound
  <1> QED BY <1>3, <1>4, <1>6 DEF PaidInv

(* The end of a round: a session that goes on without a file on its way has *)
(* something to send or to ask for.                                         *)
LEMMA EndRoundPaid ==
    ASSUME SessionInv, AgreeInv, Unhindered, PaidInv, EndRound, Budget + 1 < MaxRounds
    PROVE  PaidInv' /\ NeverExceeds'
  <1> USE DEF observerVars
  <1>0. /\ TypeOK /\ StaysPlain /\ request = NoRequest
        /\ NoSecrets /\ OneOrigin /\ OnlyLacking /\ UnsentTold /\ RoundsPaid
    BY DEF SessionInv, AgreeInv, PaidInv, OneMessage, EndRound
  <1>1. /\ st = "receiving" /\ response.files = {} /\ response' = NoResponse
        /\ cycle' = cycle + 1 /\ marking = {}
        /\ UNCHANGED <<server, caps, opts, request, marking, world>>
    BY DEF EndRound
  <1>2. /\ client'.real = client.real
        /\ client'.private = (client.private \ (response.igot \cap Rows(client)))
                                \cup (response.pigot \cap Rows(client))
        /\ pendingSend' = pendingSend \cup response.gimme
        /\ remoteHas' = remoteHas \cup response.igot \cup response.pigot
    BY <1>0, EndRoundEffect, MarkedEffect
  <1>3. client'.unclustered = client.unclustered
    BY <1>0, PlainEndRound
  <1>4. /\ phantoms' \cap client.real = {}
        /\ phantoms' # {} => opts.pull
    <2>1. phantoms' \subseteq phantoms \cup ((response.igot \cup response.pigot) \ client.real)
      BY <1>0, PlainEndRound
    <2>2. ~opts.pull => phantoms' \subseteq phantoms
      BY DEF EndRound
    <2> QED BY <1>0, <1>1, <2>1, <2>2 DEF OnlyLacking
  <1>5. opts'.push /\ caps'.push /\ NoSecrets' /\ OneOrigin'
    BY <1>0, <1>1, <1>2 DEF PaidInv, NoSecrets, OneOrigin, Made, NoRequest, NoResponse
  <1>6. OnlyLacking'
    BY <1>0, <1>1, <1>2, <1>4 DEF OnlyLacking, NoResponse
  <1>7. unsent' \subseteq unsent
    BY DEF EndRound, UnsentAfter
  <1>8. st' \in {"done", "exceeded", "ready"}
    BY <1>0, EndRoundEffect
  <1>9. UnsentTold'
    BY <1>0, <1>1, <1>2, <1>3, <1>7, <1>8 DEF UnsentTold, NoSecrets, Running
  <1>10. /\ ClientLacks' = ClientLacks /\ ServerLacks' = ServerLacks
    BY <1>0, <1>1, <1>2 DEF ClientLacks, ServerLacks, Made, NoRequest, NoResponse
  <1>11. /\ Owed \in Nat /\ Owed' = Owed /\ Budget' = Budget /\ Budget \in Nat
         /\ cycle \in Nat /\ MaxRounds \in Nat
    <2>1. Owed \in Nat /\ Owed' = Owed
      BY <1>1, <1>10, OwedDrops DEF Owed
    <2> QED BY <1>0, <1>1, <2>1, BudgetKept, ConstantsAssumption DEF TypeOK
  <1>12. \/ cycle + Owed <= Budget - 1
         \/ cycle + Owed <= Budget /\ NothingFound
    BY <1>0, <1>1 DEF RoundsPaid
  <1>13. cycle + 1 < MaxRounds
    BY <1>11, <1>12
  <1>14. st' \in {"done", "ready"}
    BY <1>11, <1>13 DEF EndRound
  <1>15. NothingFound /\ st' = "ready" => Busy'
    BY DEF NothingFound, EndRound, UnsentAfter, Busy
  <1>16. RoundsPaid'
    <2>1. st' = "ready" => cycle + 1 + Owed <= Budget + (IF Busy' THEN 1 ELSE 0)
      BY <1>11, <1>12, <1>15
    <2> QED BY <1>1, <1>11, <1>14, <2>1 DEF RoundsPaid
  <1> QED BY <1>5, <1>6, <1>9, <1>14, <1>16 DEF PaidInv, NeverExceeds

(* A commit is one artifact less to come, which pays for the round it may   *)
(* cost.                                                                    *)
LEMMA ClientCommitPaid ==
    ASSUME SessionInv, AgreeInv, Unhindered, PaidInv, NEW a \in Artifact, ClientCommit(a)
    PROVE  PaidInv'
  <1> USE DEF observerVars, sessionVars, messageVars
  <1>0. /\ TypeOK /\ StaysPlain /\ CardsTrue /\ WantedServable /\ request.gimme \subseteq phantoms
        /\ NoSecrets /\ OneOrigin /\ OnlyLacking /\ UnsentTold /\ RoundsPaid
    BY DEF SessionInv, AgreeInv, PaidInv, MissingAsked
  <1>1. /\ a \in world.lateClient /\ a \notin client.real /\ unsent' = unsent \cup {a}
        /\ UNCHANGED <<server, caps, st, opts, cycle, remoteHas, phantoms, pendingSend,
                       request, response, marking, world>>
    BY DEF ClientCommit, Rows
  <1>2. /\ client'.real = client.real \cup {a} /\ client'.private = client.private
        /\ client'.unclustered = client.unclustered \cup {a}
    BY <1>0 DEF ClientCommit, TypeOK, Repo
  <1>3. a \notin server.real /\ a \notin world.lateServer /\ a \notin world.shunClient
    BY <1>0, <1>1 DEF OneOrigin, Unhindered
  <1>4. opts'.push /\ caps'.push /\ NoSecrets' /\ OneOrigin'
    BY <1>0, <1>1, <1>2, <1>3 DEF PaidInv, NoSecrets, OneOrigin, Made
  <1>5. OnlyLacking'
    BY <1>0, <1>1, <1>2, <1>3 DEF OnlyLacking, WantedServable
  <1>6. UnsentTold'
    <2>1. a \notin remoteHas \cup response.igot /\ a \notin request.files
      BY <1>0, <1>1, <1>3 DEF CardsTrue
    <2> QED BY <1>0, <1>1, <1>2, <1>3, <2>1 DEF UnsentTold
  <1>7. /\ ClientLacks' = ClientLacks \ {a} /\ a \in ClientLacks
        /\ ServerLacks' = ServerLacks
    <2>1. a \notin request.gimme \cup response.files /\ a \in Made
      BY <1>0, <1>1, <1>3 DEF CardsTrue, WantedServable, Made
    <2> QED BY <1>1, <1>2, <2>1 DEF ClientLacks, ServerLacks, Made
  <1>8. Owed \in Nat /\ Owed' \in Nat /\ Owed' + 2 <= Owed
    BY <1>1, <1>7, OwedDrops
  <1>9. Budget' = Budget /\ Budget \in Nat /\ cycle \in Nat
    BY <1>0, <1>1, BudgetKept, ConstantsAssumption DEF TypeOK
  <1>10. RoundsPaid'
    <2>1. st \in {"ready", "serving", "receiving"} => cycle + Owed <= Budget + 1
      BY <1>0, <1>8, <1>9 DEF RoundsPaid
    <2>2. Running = {"ready", "serving", "receiving"}
      BY DEF Running
    <2>3. ASSUME st \in Running
          PROVE  cycle + Owed' <= Budget - 1 /\ cycle + Owed' <= Budget + (IF Busy' THEN 1 ELSE 0)
      <3> DEFINE owed == Owed'
      <3>1. owed \in Nat /\ owed + 2 <= Owed
        BY <1>8
      <3> HIDE DEF owed
      <3>2. cycle + owed <= Budget - 1 /\ cycle + owed <= Budget + (IF Busy' THEN 1 ELSE 0)
        BY <1>8, <1>9, <2>1, <2>2, <2>3, <3>1
      <3> QED BY <3>2 DEF owed
    <2> QED BY <1>1, <1>9, <2>2, <2>3 DEF RoundsPaid
  <1> QED BY <1>4, <1>5, <1>6, <1>10 DEF PaidInv

LEMMA ServerGainsPaid ==
    ASSUME SessionInv, AgreeInv, Unhindered, PaidInv, NEW a \in Artifact, ServerGains(a)
    PROVE  PaidInv'
  <1> USE DEF observerVars, sessionVars, messageVars
  <1>0. /\ TypeOK /\ StaysPlain /\ CardsTrue
        /\ NoSecrets /\ OneOrigin /\ OnlyLacking /\ UnsentTold /\ RoundsPaid
    BY DEF SessionInv, AgreeInv, PaidInv
  <1>1. /\ a \in world.lateServer \ server.real
        /\ UNCHANGED <<client, unsent, caps, st, opts, cycle, remoteHas, phantoms, pendingSend,
                       request, response, marking, filesRecvd, igotSent, world>>
    BY DEF ServerGains
  <1>2. server'.real = server.real \cup {a} /\ server'.private = server.private
    BY <1>0, ReceiveEffect DEF ServerGains, TypeOK
  <1>3. a \notin client.real /\ a \notin world.lateClient /\ a \in Made
    BY <1>0, <1>1 DEF OneOrigin, Unhindered, Made
  <1>4. opts'.push /\ caps'.push /\ NoSecrets' /\ OneOrigin'
    BY <1>0, <1>1, <1>2, <1>3 DEF PaidInv, NoSecrets, OneOrigin, Made
  <1>5. OnlyLacking'
    BY <1>0, <1>1, <1>2, <1>3 DEF OnlyLacking, CardsTrue
  <1>6. UnsentTold'
    BY <1>0, <1>1, <1>2, <1>3 DEF UnsentTold
  <1>7. ClientLacks' = ClientLacks /\ ServerLacks' \subseteq ServerLacks
    BY <1>1, <1>2 DEF ClientLacks, ServerLacks, Made
  <1>8. RoundsPaid'
    <2>1. CASE st \in {"serving", "receiving"}
      BY <1>0, <1>1, <1>7, <2>1, StillPaid DEF NothingFound
    <2>2. CASE st \notin {"serving", "receiving"}
      <3>1. Owed \in Nat /\ Owed' \in Nat /\ Owed' <= Owed
        BY <1>1, <1>7, OwedDrops
      <3>2. Budget' = Budget /\ Budget \in Nat /\ cycle \in Nat /\ Busy' = Busy
        BY <1>0, <1>1, BudgetKept, ConstantsAssumption DEF TypeOK, Busy
      <3>3. st = "ready" => cycle + Owed' <= Budget + (IF Busy THEN 1 ELSE 0)
        <4> DEFINE owed == Owed'
        <4>1. owed \in Nat /\ owed <= Owed
          BY <3>1
        <4> HIDE DEF owed
        <4>2. st = "ready" => cycle + owed <= Budget + (IF Busy THEN 1 ELSE 0)
          BY <1>0, <3>1, <3>2, <4>1 DEF RoundsPaid
        <4> QED BY <4>2 DEF owed
      <3> QED BY <1>1, <2>2, <3>2, <3>3 DEF RoundsPaid
    <2> QED BY <2>1, <2>2
  <1> QED BY <1>4, <1>5, <1>6, <1>8 DEF PaidInv

LEMMA InterruptPaid ==
    ASSUME PaidInv, Interrupt
    PROVE  PaidInv'
  BY DEF Interrupt, PaidInv, NoSecrets, OneOrigin, Made, OnlyLacking, UnsentTold, RoundsPaid,
         Running, NoRequest, NoResponse

LEMMA NextPaid ==
    ASSUME SessionInv, AgreeInv, Unhindered, PaidInv, NeverExceeds, Budget + 1 < MaxRounds,
           [Next]_vars
    PROVE  PaidInv' /\ NeverExceeds'
  <1>1. CASE UNCHANGED vars
    BY <1>1 DEF vars, sessionVars, messageVars, observerVars, PaidInv, NoSecrets, OneOrigin,
                Made, OnlyLacking, UnsentTold, RoundsPaid, Budget, Owed, ClientLacks,
                ServerLacks, Busy, NothingFound, NeverExceeds
  <1>2. CASE EndRound
    BY <1>2, EndRoundPaid
  <1>3. CASE Next /\ ~EndRound
    <2>1. PaidInv'
      BY <1>3, StartPaid, BuildRequestPaid, ServerFilePaid, ServerMarkPaid, ServerReplyPaid,
         ClientFilePaid, ClientMarkPaid, InterruptPaid, ClientCommitPaid, ServerGainsPaid
         DEF Next, Step
    <2>2. NeverExceeds'
      BY <1>3 DEF Next, Step, StartWith, BuildRequest, ServerFile, ServerMark, ServerReply,
                  ClientFile, ClientMark, Interrupt, ClientCommit, ServerGains, sessionVars, NeverExceeds
    <2> QED BY <2>1, <2>2
  <1> QED BY <1>1, <1>2, <1>3

(* Between repositories without clusters, phantoms and private artifacts a  *)
(* session that may push never runs into MaxRounds, if that exceeds twice   *)
(* the number of artifacts either side is to get: whatever the budgets per  *)
(* round, and although every commit meanwhile may cost another round (Sync's*)
(* loop, buildFileCards, buildGimmeCards, processResponse).                 *)
THEOREM SyncEndsInTime ==
    Spec => [](Unhindered /\ Budget + 1 < MaxRounds => NeverExceeds)
  <1> DEFINE Inv == /\ SessionInv /\ (Plain => AgreeInv)
                    /\ Unhindered /\ Budget + 1 < MaxRounds => PaidInv /\ NeverExceeds
  <1>1. Init => Inv
    <2>1. Init => NeverExceeds
      BY DEF Init, NeverExceeds
    <2> QED BY <2>1, InitSession, InitAgree, InitPaid
  <1>2. Inv /\ [Next]_vars => Inv'
    <2> SUFFICES ASSUME Inv, [Next]_vars PROVE Inv'
      OBVIOUS
    <2>1. world' = world
      BY SyncWorldKept
    <2>2. Plain' => Plain
      BY <2>1 DEF Plain, Public
    <2>3. SessionInv' /\ (Plain' => AgreeInv')
      BY <2>2, NextSession, NextAgree
    <2>4. (Unhindered' => Unhindered) /\ Budget' = Budget
      BY <2>1, <2>2 DEF Unhindered, Made, Budget
    <2>5. Unhindered => Plain
      BY DEF Unhindered
    <2> QED BY <2>3, <2>4, <2>5, NextPaid
  <1>3. Inv => (Unhindered /\ Budget + 1 < MaxRounds => NeverExceeds)
    OBVIOUS
  <1> QED BY <1>1, <1>2, <1>3, PTL DEF Spec
=============================================================================
