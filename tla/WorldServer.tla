---------------------------- MODULE WorldServer -----------------------------
(***************************************************************************)
(* Who is in the world: the registries of server/worldserver/src/main.cpp  *)
(* and the handlers that change them.  The process is one thread that runs *)
(* TCP poll, database poll, UDP drain, ticks and timeout sweep in turn     *)
(* (`phase'); what interleaves is the peers, the database's answers and    *)
(* the passing of time.  A join spans two turns of that loop, or many: the *)
(* session lookup is sent by one handler and answered in another, and the  *)
(* connection it was sent for may have changed meanwhile.                  *)
(*                                                                         *)
(* Overlapping says whether clients may use a connection while a join is   *)
(* in flight on it (join again, log out, close), and a token more than     *)
(* once.  Nothing in the server rules that out.                            *)
(***************************************************************************)
EXTENDS Naturals, Sequences, FiniteSets

CONSTANTS Tokens, Addresses,
          MaxConnections,  \* bound on connections ever accepted
          MaxPlayers,      \* bound on join requests ever made, so on player ids
          MaxDbFailures,   \* bound on losses of the database link
          Overlapping

NoAddress == "unbound"
NoToken == "no token"

ASSUME ConstantsAssumption == /\ MaxConnections \in Nat
                              /\ MaxPlayers \in Nat
                              /\ MaxDbFailures \in Nat
                              /\ Overlapping \in BOOLEAN
                              /\ NoAddress \notin Addresses
                              /\ NoToken \notin Tokens

VARIABLES
  phase,                \* where the main loop is
  mNextId,              \* TcpServer: next connection id
  mConnections,         \* TcpServer: ids of the connections it holds
  mClosing,             \* TcpServer: ids to close at the end of poll
  eof,                  \* connections whose peer has closed its end
  playersByConnection,
  connectionByPlayer,   \* player id -> connection id, 0 for none
  bodies,               \* Simulation::mPlayers, the player ids that have one
  intent,               \* player id -> address its last applied input came from
  nextPlayerId,
  rpcs,                 \* calls to the database, in order, with their answers
  sessions,             \* tokens that are live sessions in the database
  told,                 \* connection -> player id in the last response on it
  asked,                \* connections a join request was sent on
  redeemed,             \* token -> players created from it
  dbFailures

tcpVars == <<mNextId, mConnections, mClosing, eof>>
playerVars == <<playersByConnection, connectionByPlayer, bodies, intent, nextPlayerId>>
dbVars == <<rpcs, sessions, dbFailures>>
clientVars == <<told, asked, redeemed>>
vars == <<phase, tcpVars, playerVars, dbVars, clientVars>>

Connections == 1..MaxConnections
PlayerIds == 1..MaxPlayers

\* Player.  playerId 0 is the absence of an entry.  lastUdpPacket is kept as
\* whether it is older than the deadline of the timeout sweep.
Player == [playerId : 0..MaxPlayers, token : Tokens \cup {NoToken},
           udpAddress : Addresses \cup {NoAddress}, stale : BOOLEAN]
Nobody == [playerId |-> 0, token |-> NoToken,
           udpAddress |-> NoAddress, stale |-> FALSE]

Rpc == [op : {"lookupSession", "deleteSession"}, connection : Connections,
        token : Tokens, answer : {"none", "found", "missing", "done"}]

TypeOK ==
  /\ phase \in {"tcp", "db", "udp", "tick"}
  /\ mNextId \in 1..(MaxConnections + 1)
  /\ mConnections \subseteq Connections
  /\ mClosing \subseteq Connections
  /\ eof \subseteq Connections
  /\ playersByConnection \in [Connections -> Player]
  /\ connectionByPlayer \in [PlayerIds -> 0..MaxConnections]
  /\ bodies \subseteq PlayerIds
  /\ intent \in [PlayerIds -> Addresses \cup {NoAddress}]
  /\ nextPlayerId \in 1..(MaxPlayers + 1)
  /\ rpcs \in Seq(Rpc)
  /\ sessions \subseteq Tokens
  /\ told \in [Connections -> 0..MaxPlayers]
  /\ asked \subseteq Connections
  /\ redeemed \in [Tokens -> Nat]
  /\ dbFailures \in 0..MaxDbFailures

Init ==
  /\ phase = "tcp"
  /\ mNextId = 1
  /\ mConnections = {}
  /\ mClosing = {}
  /\ eof = {}
  /\ playersByConnection = [c \in Connections |-> Nobody]
  /\ connectionByPlayer = [p \in PlayerIds |-> 0]
  /\ bodies = {}
  /\ intent = [p \in PlayerIds |-> NoAddress]
  /\ nextPlayerId = 1
  /\ rpcs = << >>
  /\ sessions = Tokens
  /\ told = [c \in Connections |-> 0]
  /\ asked = {}
  /\ redeemed = [t \in Tokens |-> 0]
  /\ dbFailures = 0

InWorld(c) == playersByConnection[c].playerId # 0
Bound(c) == playersByConnection[c].udpAddress # NoAddress
Lookups == {i \in DOMAIN rpcs : rpcs[i].op = "lookupSession"}
Joining(c) == \E i \in Lookups : rpcs[i].connection = c
Redeeming(t) == \E i \in Lookups : rpcs[i].token = t
-----------------------------------------------------------------------------
(* TcpServer::poll and the handlers it calls. *)

Accept ==
  /\ phase = "tcp"
  /\ mNextId <= MaxConnections
  /\ mConnections' = mConnections \cup {mNextId}
  /\ mNextId' = mNextId + 1
  /\ UNCHANGED <<phase, mClosing, eof, playerVars, dbVars, clientVars>>

\* A message of connection c reaches its handler.  pump returns false once the
\* peer has closed, so whatever was buffered then is never handled; a
\* connection that is only waiting in mClosing is still served.
Readable(c) == phase = "tcp" /\ c \in mConnections \ eof

\* What clients do when they are not Overlapping.
Waits(c) == Overlapping \/ ~Joining(c)
FirstUse(c, t) == Overlapping \/ (c \notin asked /\ ~Redeeming(t))

\* JoinRequest of another protocol version, or cut short: refused at once, on a
\* connection that may be in the world already.
JoinMismatch(c) ==
  /\ Readable(c)
  /\ Waits(c) /\ (Overlapping \/ c \notin asked)
  /\ asked' = asked \cup {c}
  /\ told' = [told EXCEPT ![c] = 0]
  /\ UNCHANGED <<phase, tcpVars, playerVars, dbVars, redeemed>>

\* JoinRequest of the right protocol version.
JoinRequest(c, t) ==
  /\ Readable(c)
  /\ Waits(c) /\ FirstUse(c, t)
  /\ nextPlayerId + Cardinality(Lookups) <= MaxPlayers
  /\ asked' = asked \cup {c}
  /\ rpcs' = IF InWorld(c)
             THEN rpcs   \* already joined; ignored
             ELSE Append(rpcs, [op |-> "lookupSession", connection |-> c,
                                token |-> t, answer |-> "none"])
  /\ UNCHANGED <<phase, tcpVars, playerVars, sessions, dbFailures, told, redeemed>>

\* Whether id is the player c has in the registry.
Owns(c, id) == playersByConnection[c].playerId = id /\ id # 0

RemovalLeavesIndex(cs) ==
  /\ playersByConnection' =
       [c \in Connections |-> IF c \in cs THEN Nobody ELSE playersByConnection[c]]
  /\ bodies' = {p \in bodies : \A c \in cs : ~Owns(c, p)}
  /\ UNCHANGED <<connectionByPlayer, intent, nextPlayerId>>

RemovalLeavesBody(cs) ==
  LET leaving == {p \in PlayerIds : \E c \in cs : Owns(c, p)}
  IN  /\ playersByConnection' =
           [c \in Connections |-> IF c \in cs THEN Nobody ELSE playersByConnection[c]]
      /\ connectionByPlayer' =
           [p \in PlayerIds |-> IF p \in leaving THEN 0 ELSE connectionByPlayer[p]]
      /\ UNCHANGED <<bodies, intent, nextPlayerId>>

RemovalLeavesPlayer(cs) == UNCHANGED playerVars

\* removePlayer for every connection of cs; no effect where nobody has joined.
\* The simulation forgets the player's input along with its body.
removePlayers(cs) ==
  LET leaving == {p \in PlayerIds : \E c \in cs : Owns(c, p)}
  IN  /\ playersByConnection' =
           [c \in Connections |-> IF c \in cs THEN Nobody ELSE playersByConnection[c]]
      /\ bodies' = bodies \ leaving
      /\ intent' = [p \in PlayerIds |-> IF p \in leaving THEN NoAddress ELSE intent[p]]
      /\ connectionByPlayer' =
           [p \in PlayerIds |-> IF p \in leaving THEN 0 ELSE connectionByPlayer[p]]
      /\ UNCHANGED nextPlayerId

LogoutRequest(c) ==
  /\ Readable(c)
  /\ Waits(c)
  /\ told' = [told EXCEPT ![c] = 0]
  /\ removePlayers({c})
  /\ UNCHANGED <<phase, tcpVars, dbVars, asked, redeemed>>

CloseUnnoticed(c) ==
  /\ Readable(c)
  /\ UNCHANGED vars

\* pump returns false, and the connection is queued for closing.
PumpFails(c) ==
  /\ phase = "tcp"
  /\ c \in (mConnections \cap eof) \ mClosing
  /\ mClosing' = mClosing \cup {c}
  /\ UNCHANGED <<phase, mNextId, mConnections, eof, playerVars, dbVars, clientVars>>

\* The end of poll: the deferred closes, each with its onDisconnect.
CloseConnections ==
  /\ phase = "tcp"
  /\ phase' = "db"
  /\ removePlayers(mClosing \cap mConnections)
  /\ mConnections' = mConnections \ mClosing
  /\ mClosing' = {}
  /\ UNCHANGED <<mNextId, eof, dbVars, clientVars>>
-----------------------------------------------------------------------------
(* DbClient::poll and the callbacks it runs. *)

\* sendJoinResponse to the connections cs, 0 standing for a refusal; nothing is
\* sent on a connection that is gone.
sendJoinResponse(cs, playerId) ==
  told' = [c \in Connections |-> IF c \in cs \cap mConnections THEN playerId ELSE told[c]]

Replied == phase = "db" /\ rpcs # << >> /\ Head(rpcs).answer # "none"

PlayerNumberedLate(rpc) == [playerId |-> nextPlayerId + 1, token |-> rpc.token,
                            udpAddress |-> NoAddress, stale |-> FALSE]
NewPlayer(rpc) == [playerId |-> nextPlayerId, token |-> rpc.token,
                   udpAddress |-> NoAddress, stale |-> FALSE]

\* The calls under way once the callback of the first has redeemed its token:
\* the session's deletion joins the queue.
TokenKept == Tail(rpcs)
TokenRedeemed == Append(Tail(rpcs), [op |-> "deleteSession",
                                     connection |-> Head(rpcs).connection,
                                     token |-> Head(rpcs).token, answer |-> "none"])

\* The lookup found the session.  emplace does not replace a player the
\* connection already has, but a player id and a body are handed out anyway.
JoinSuccess ==
  /\ Replied
  /\ Head(rpcs).answer = "found"
  /\ LET c == Head(rpcs).connection
         t == Head(rpcs).token
     IN  /\ nextPlayerId' = nextPlayerId + 1
         /\ connectionByPlayer' = [connectionByPlayer EXCEPT ![nextPlayerId] = c]
         /\ playersByConnection' =
              IF InWorld(c) THEN playersByConnection
              ELSE [playersByConnection EXCEPT ![c] = NewPlayer(Head(rpcs))]
         /\ bodies' = bodies \cup {nextPlayerId}
         /\ sendJoinResponse({c}, nextPlayerId)
         /\ redeemed' = [redeemed EXCEPT ![t] = @ + 1]
         /\ rpcs' = TokenRedeemed
  /\ UNCHANGED <<phase, tcpVars, intent, sessions, dbFailures, asked>>

JoinRefused ==
  /\ Replied
  /\ Head(rpcs).answer = "missing"
  /\ sendJoinResponse({Head(rpcs).connection}, 0)
  /\ rpcs' = Tail(rpcs)
  /\ UNCHANGED <<phase, tcpVars, playerVars, sessions, dbFailures, asked, redeemed>>

\* The answer to deleteSession is ignored, whatever it is.
SessionDeleted ==
  /\ Replied
  /\ Head(rpcs).answer = "done"
  /\ rpcs' = Tail(rpcs)
  /\ UNCHANGED <<phase, tcpVars, playerVars, sessions, dbFailures, clientVars>>

\* The database link is lost: every pending callback fails, and the loop
\* reconnects before it goes on.
DbLost ==
  /\ phase = "db"
  /\ dbFailures < MaxDbFailures
  /\ dbFailures' = dbFailures + 1
  /\ sendJoinResponse({rpcs[i].connection : i \in Lookups}, 0)
  /\ rpcs' = << >>
  /\ phase' = "udp"
  /\ UNCHANGED <<tcpVars, playerVars, sessions, asked, redeemed>>

DbPolled ==
  /\ phase = "db"
  /\ phase' = "udp"
  /\ UNCHANGED <<tcpVars, playerVars, dbVars, clientVars>>
-----------------------------------------------------------------------------
(* The UDP drain. *)

\* ClientHello.  A datagram may carry any id and token, from any address.
ClientHello(p, t, a) ==
  /\ phase = "udp"
  /\ connectionByPlayer[p] # 0
  /\ LET c == connectionByPlayer[p]
     IN  /\ InWorld(c)
         /\ playersByConnection[c].token = t
         /\ playersByConnection' = [playersByConnection EXCEPT
                ![c].udpAddress = a, ![c].stale = FALSE]
  /\ UNCHANGED <<phase, tcpVars, connectionByPlayer, bodies, intent,
                 nextPlayerId, dbVars, clientVars>>

FoundAnyPlayer(a, c) == InWorld(c)
\* findPlayerByUdp: the first entry, in the order of connection ids.
foundByUdp(a, c) ==
  /\ playersByConnection[c].udpAddress = a
  /\ \A d \in Connections : playersByConnection[d].udpAddress = a => c <= d

\* ClientInput claiming player p, with no simulated latency.
ClientInput(p, a) ==
  /\ phase = "udp"
  /\ \E c \in Connections :
       /\ foundByUdp(a, c)
       /\ playersByConnection' = [playersByConnection EXCEPT ![c].stale = FALSE]
       /\ intent' = IF playersByConnection[c].playerId = p /\ p \in bodies
                    THEN [intent EXCEPT ![p] = a]
                    ELSE intent
  /\ UNCHANGED <<phase, tcpVars, connectionByPlayer, bodies, nextPlayerId,
                 dbVars, clientVars>>

UdpDrained ==
  /\ phase = "udp"
  /\ phase' = "tick"
  /\ UNCHANGED <<tcpVars, playerVars, dbVars, clientVars>>
-----------------------------------------------------------------------------
\* The ticks, which leave the registries alone, then the sweep that drops the
\* players whose UDP has gone silent and asks for their connections' close.
TimedOut == {c \in Connections : InWorld(c) /\ Bound(c) /\ playersByConnection[c].stale}

TimeoutSweep ==
  /\ phase = "tick"
  /\ phase' = "tcp"
  /\ removePlayers(TimedOut)
  /\ mClosing' = mClosing \cup TimedOut
  /\ UNCHANGED <<mNextId, mConnections, eof, dbVars, clientVars>>
-----------------------------------------------------------------------------
(* The world around the process. *)

PeerCloses(c) ==
  /\ c \in mConnections \ eof
  /\ Waits(c)
  /\ eof' = eof \cup {c}
  /\ UNCHANGED <<phase, mNextId, mConnections, mClosing, playerVars, dbVars, clientVars>>

\* UDP_TIMEOUT_SECONDS pass without a datagram from the player of c.
FallsSilent(c) ==
  /\ Bound(c)
  /\ playersByConnection' = [playersByConnection EXCEPT ![c].stale = TRUE]
  /\ UNCHANGED <<phase, tcpVars, connectionByPlayer, bodies, intent,
                 nextPlayerId, dbVars, clientVars>>

SessionExpires(t) ==
  /\ sessions' = sessions \ {t}
  /\ UNCHANGED <<phase, tcpVars, playerVars, rpcs, dbFailures, clientVars>>

\* The database server executes the first call it has not yet answered.
DbExecutes ==
  \E i \in DOMAIN rpcs :
    /\ rpcs[i].answer = "none"
    /\ \A j \in 1..(i - 1) : rpcs[j].answer # "none"
    /\ IF rpcs[i].op = "lookupSession"
       THEN /\ rpcs' = [rpcs EXCEPT ![i].answer =
                          IF rpcs[i].token \in sessions THEN "found" ELSE "missing"]
            /\ UNCHANGED sessions
       ELSE /\ rpcs' = [rpcs EXCEPT ![i].answer = "done"]
            /\ sessions' = sessions \ {rpcs[i].token}
    /\ UNCHANGED <<phase, tcpVars, playerVars, dbFailures, clientVars>>

Callback == JoinSuccess \/ JoinRefused \/ SessionDeleted

EndOfPhase == CloseConnections \/ DbPolled \/ UdpDrained \/ TimeoutSweep

Datagram == \E a \in Addresses, p \in PlayerIds :
              \/ ClientInput(p, a)
              \/ \E t \in Tokens : ClientHello(p, t, a)

Next == \/ EndOfPhase \/ Callback \/ DbLost \/ Datagram \/ Accept \/ DbExecutes
        \/ \E c \in Connections : \/ PumpFails(c) \/ LogoutRequest(c)
                                  \/ PeerCloses(c) \/ FallsSilent(c)
                                  \/ JoinMismatch(c)
                                  \/ \E t \in Tokens : JoinRequest(c, t)
        \/ \E t \in Tokens : SessionExpires(t)

Spec == Init /\ [][Next]_vars

\* The main loop never blocks for good, each of its passes pumps every
\* connection that has something to report and hands out every answer that has
\* come in, and the database server answers what it is asked.
Fairness == /\ WF_vars(EndOfPhase) /\ WF_vars(DbExecutes)
            /\ SF_vars(Callback)
            /\ \A c \in Connections : SF_vars(PumpFails(c))

FairSpec == Spec /\ Fairness
-----------------------------------------------------------------------------
(* What holds whatever the clients do. *)

\* The three registries tell one story: a body exists exactly for the ids in
\* connectionByPlayer, and a registered player's id leads back to its own
\* connection, so no two connections share a player.
RegistriesAgree ==
  /\ \A p \in PlayerIds : p \in bodies <=> connectionByPlayer[p] # 0
  /\ \A c \in Connections : InWorld(c) =>
       connectionByPlayer[playersByConnection[c].playerId] = c

\* A body is moved only for a registered player with a proven UDP address: a
\* body left behind by a join nobody owns stands still.
OnlyOwnersSteer ==
  \A p \in bodies : intent[p] # NoAddress =>
    \E c \in Connections : Owns(c, p) /\ Bound(c)

\* While the database link holds, a token that has let someone in is on its way
\* out of the database: its deletion is queued ahead of any later lookup.
TokenSpent ==
  \A t \in sessions : redeemed[t] > 0 /\ dbFailures = 0 =>
    \E i \in DOMAIN rpcs : /\ rpcs[i].op = "deleteSession"
                           /\ rpcs[i].token = t
                           /\ rpcs[i].answer = "none"

\* A player whose UDP has gone silent is dropped, or is heard from again.
SilentPlayersLeave ==
  \A c \in Connections : (c \in TimedOut) ~> (c \notin TimedOut)
-----------------------------------------------------------------------------
(* What the comments of the code promise.  Clients that overlap break it.   *)

\* A player is "created on a successful join, destroyed on logout or TCP
\* disconnect": nobody is in the world without a connection.
NoGhosts == \A c \in Connections : InWorld(c) => c \in mConnections

\* Duplicate joins are ignored: every body is some connection's player, so it
\* leaves the world when that connection does.
NoPhantoms == \A p \in bodies : \E c \in Connections : Owns(c, p)

\* The player id a client was last told is the one its connection plays: the id
\* it will send with its hello and its inputs, which are dropped otherwise.
ToldOwnId ==
  \A c \in Connections : InWorld(c) => told[c] = playersByConnection[c].playerId

\* One-time redemption: a token opens at most one session.
RedeemedOnce == \A t \in Tokens : redeemed[t] <= 1

\* ... as long as no database link is lost with the deletion still unsent.
RedeemedOnceWhileLinked == dbFailures = 0 => RedeemedOnce

\* The source address of a datagram identifies the player.
AddressIdentifiesPlayer ==
  \A c, d \in Connections :
    Bound(c) /\ playersByConnection[c].udpAddress = playersByConnection[d].udpAddress
      => c = d

\* A player whose peer has closed the connection leaves the world.
ClosedPlayersLeave ==
  \A c \in Connections : (c \in eof) ~> [](~InWorld(c))
=============================================================================
