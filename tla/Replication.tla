----------------------------- MODULE Replication -----------------------------
(***************************************************************************)
(* The snapshots of the world on their way to one client: the world        *)
(* server's tick (worldserver/src/main.cpp, simulation.cpp), its simulated *)
(* latency, the network, and NetClient (client/src/net_client.cpp) with    *)
(* the delay of NET_FAKE_LATENCY_MS.  Datagrams carry the bytes of         *)
(* WireFormat, and a receive cuts them off at the size of its buffer.      *)
(***************************************************************************)
EXTENDS WireFormat, FiniteSets

CONSTANTS Capacity,       \* of the buffer a datagram is received in, 2048 in the code
          MaxPlayers,     \* bound on the players that ever join
          MaxTick,        \* bound on ticks
          MaxOnWire,      \* bound on datagrams under way
          Disorderly      \* with which values of fakeLatency datagrams change places

ASSUME ReplicationAssumption ==
  /\ {Capacity, MaxPlayers, MaxTick, MaxOnWire} \subseteq Nat
  /\ Disorderly \subseteq BOOLEAN
  /\ MaxTick < Power[u32] /\ 1 + MaxPlayers < Power[u16]   \* no field wraps around

VARIABLES mTick, mTimeOfDay, mPlayers, mNextEntityId,   \* the simulation
          outgoingSequence, held, delayedOutgoing,      \* the server's sending end
          wire,
          fakeLatency, mDelayedIncoming,                \* the client's receiving end
          mLastSnapshotSequence, mSnapshotsReceived,
          mEntities, shownTime,                         \* what the client shows
          shown,                                        \* the tick that is from, or 0
          history                                       \* the world at each tick

simulation == <<mTick, mTimeOfDay, mPlayers, mNextEntityId, history>>
sender == <<outgoingSequence, held, delayedOutgoing>>
client == <<fakeLatency, mDelayedIncoming, mLastSnapshotSequence, mSnapshotsReceived, mEntities,
            shownTime, shown>>
replicationVars == <<simulation, sender, wire, client>>

kCubeEntityId == 1
kCube == 0
kPlayer == 1
EntityIds == kCubeEntityId..(kCubeEntityId + MaxPlayers)

Nothing == [id |-> 0, type |-> kCube, pose |-> 0, lastInputSequence |-> 0]

ReplicationInit ==
  /\ mTick = 0 /\ mTimeOfDay = 0 /\ mPlayers = <<>> /\ mNextEntityId = kCubeEntityId + 1
  /\ history = <<>>
  /\ outgoingSequence = 0 /\ held \in BOOLEAN /\ delayedOutgoing = <<>>
  /\ wire = <<>>
  /\ fakeLatency \in BOOLEAN
  /\ mDelayedIncoming = <<>>
  /\ mLastSnapshotSequence = 0 /\ mSnapshotsReceived = 0
  /\ mEntities = [id \in EntityIds |-> Nothing]
  /\ shownTime = 0 /\ shown = 0
-----------------------------------------------------------------------------
(* The world server.                                                       *)

addPlayer ==
  /\ mNextEntityId <= kCubeEntityId + MaxPlayers
  /\ mPlayers' = Append(mPlayers, [id |-> mNextEntityId, type |-> kPlayer, pose |-> 0,
                                   lastInputSequence |-> 0])
  /\ mNextEntityId' = mNextEntityId + 1
  /\ UNCHANGED <<mTick, mTimeOfDay, history, sender, wire, client>>

removePlayer(i) ==
  /\ mPlayers' = RemoveAt(mPlayers, i)
  /\ UNCHANGED <<mTick, mTimeOfDay, mNextEntityId, history, sender, wire, client>>

\* step moves the cube and every player, and takes their inputs.
Moved(players) ==
  [i \in DOMAIN players |-> [players[i] EXCEPT !.pose = @ + 1, !.lastInputSequence = @ + 1]]

buildSnapshot(tick, time, players) ==
  [tick |-> tick, serverTimeMs |-> tick, timeOfDay |-> time,
   entities |-> <<[id |-> kCubeEntityId, type |-> kCube, pose |-> tick,
                   lastInputSequence |-> 0]>> \o players]

Packet(snapshot) == writeUdpHeader(kSnapshotType, outgoingSequence) \o encodeSnapshot(snapshot)

ServerTick ==
  /\ mTick < MaxTick
  /\ Len(wire) + Len(delayedOutgoing) < MaxOnWire
  /\ mTick' = mTick + 1
  /\ mTimeOfDay' = mTimeOfDay + 1
  /\ mPlayers' = Moved(mPlayers)
  /\ LET snapshot == buildSnapshot(mTick', mTimeOfDay', mPlayers')
     IN /\ history' = Append(history, snapshot)
        /\ IF held
           THEN delayedOutgoing' = Append(delayedOutgoing, Packet(snapshot)) /\ UNCHANGED wire
           ELSE wire' = Append(wire, Packet(snapshot)) /\ UNCHANGED delayedOutgoing
  /\ outgoingSequence' = outgoingSequence + 1
  /\ UNCHANGED <<mNextEntityId, held, client>>

\* The packet at the front has been held long enough.
Release ==
  /\ delayedOutgoing # <<>>
  /\ wire' = Append(wire, Head(delayedOutgoing))
  /\ delayedOutgoing' = Tail(delayedOutgoing)
  /\ UNCHANGED <<simulation, outgoingSequence, held, client>>

\* An operator turns the simulated latency off or on: later packets then overtake
\* the ones still held.
SetLatency ==
  /\ held => delayedOutgoing = <<>> \/ fakeLatency \in Disorderly
  /\ held' = ~held
  /\ UNCHANGED <<simulation, outgoingSequence, delayedOutgoing, wire, client>>
-----------------------------------------------------------------------------
(* The network.                                                            *)

Lose(i) ==
  /\ wire' = RemoveAt(wire, i)
  /\ UNCHANGED <<simulation, sender, client>>

Duplicate(i) ==
  /\ fakeLatency \in Disorderly
  /\ Len(wire) < MaxOnWire
  /\ wire' = Append(wire, wire[i])
  /\ UNCHANGED <<simulation, sender, client>>
-----------------------------------------------------------------------------
(* The client.                                                             *)

\* What the buffer takes of a datagram.
receiveFrom(datagram) ==
  SubSeq(datagram, 1, IF Len(datagram) <= Capacity THEN Len(datagram) ELSE Capacity)

\* Of the entities in the snapshot; the others stay as they are.
EntitiesShifted(snapshot) ==
  [id \in EntityIds |->
     IF id <= Len(snapshot.entities) THEN snapshot.entities[id] ELSE mEntities[id]]
EntitiesAfter(snapshot) ==
  [id \in EntityIds |->
     IF \E i \in DOMAIN snapshot.entities : snapshot.entities[i].id = id
     THEN snapshot.entities[CHOOSE i \in DOMAIN snapshot.entities :
                              snapshot.entities[i].id = id]
     ELSE mEntities[id]]

applySnapshotPacket(data, sequence) ==
  LET snapshot == decodeSnapshot(data)
  IN IF snapshot.ok
     THEN /\ shownTime' = snapshot.timeOfDay
          /\ mEntities' = EntitiesAfter(snapshot)
          /\ shown' = snapshot.tick
          /\ mLastSnapshotSequence' = sequence
          /\ mSnapshotsReceived' = mSnapshotsReceived + 1
     ELSE UNCHANGED <<shownTime, mEntities, shown, mLastSnapshotSequence, mSnapshotsReceived>>

\* UDP may deliver out of order; the first snapshot is taken whatever its number.
AnyIsNew(sequence) == FALSE
Stale(sequence) == mSnapshotsReceived > 0 /\ sequence <= mLastSnapshotSequence

Receive(i) ==
  /\ i = 1 \/ fakeLatency \in Disorderly
  /\ wire' = RemoveAt(wire, i)
  /\ LET data == receiveFrom(wire[i])
         header == readUdpHeader(data)
         body == SubSeq(data, HeaderSize + 1, Len(data))
     IN \/ /\ ~header.ok \/ header.type # kSnapshotType \/ Stale(header.sequence)
           /\ UNCHANGED client
        \/ /\ header.ok /\ header.type = kSnapshotType /\ ~Stale(header.sequence)
           /\ fakeLatency
           /\ mDelayedIncoming' = Append(mDelayedIncoming, body)
           /\ mLastSnapshotSequence' = header.sequence
           /\ UNCHANGED <<fakeLatency, mSnapshotsReceived, mEntities, shownTime, shown>>
        \/ /\ header.ok /\ header.type = kSnapshotType /\ ~Stale(header.sequence)
           /\ ~fakeLatency
           /\ applySnapshotPacket(body, header.sequence)
           /\ UNCHANGED <<fakeLatency, mDelayedIncoming>>
  /\ UNCHANGED <<simulation, sender>>

flushDelayed ==
  /\ mDelayedIncoming # <<>>
  /\ mDelayedIncoming' = Tail(mDelayedIncoming)
  /\ applySnapshotPacket(Head(mDelayedIncoming), mLastSnapshotSequence)
  /\ UNCHANGED <<simulation, sender, wire, fakeLatency>>

ReplicationNext ==
  \/ addPlayer \/ (\E i \in DOMAIN mPlayers : removePlayer(i)) \/ ServerTick \/ Release \/ SetLatency
  \/ (\E i \in DOMAIN wire : Lose(i) \/ Duplicate(i) \/ Receive(i))
  \/ flushDelayed

ReplicationSpec == ReplicationInit /\ [][ReplicationNext]_replicationVars
-----------------------------------------------------------------------------
(* Correctness.                                                            *)

ReplicationTypeOK ==
  /\ mTick \in 0..MaxTick /\ mTimeOfDay \in Nat /\ outgoingSequence \in Nat
  /\ \A i \in DOMAIN mPlayers : mPlayers[i].id \in EntityIds
  /\ held \in BOOLEAN /\ fakeLatency \in BOOLEAN
  /\ \A i \in DOMAIN wire : wire[i] \in Seq(0..(Byte - 1))
  /\ shown \in 0..mTick /\ mSnapshotsReceived \in Nat /\ mLastSnapshotSequence \in Nat

\* The client never goes back in time: what it shows is never replaced by the
\* world of an earlier tick, however datagrams are lost, doubled, held back or
\* overtaken.
NeverOlder == [][shown' >= shown]_replicationVars

\* What the client shows is one world: each entity of the snapshot it applied
\* last is as the server had it at that tick, and so is the clock.  Nothing of a
\* snapshot that was cut off is applied.
WholeSnapshots ==
  shown # 0 =>
    /\ shownTime = history[shown].timeOfDay
    /\ \A i \in DOMAIN history[shown].entities :
         mEntities[history[shown].entities[i].id] = history[shown].entities[i]
-----------------------------------------------------------------------------
(* A statement the code does not keep; see the README.                     *)

\* A client that receives the first snapshot of a world within
\* kMaxEntitiesPerSnapshot shows it.
CrowdIsShown ==
  [][\A i \in DOMAIN wire :
       Receive(i) /\ mSnapshotsReceived = 0 /\ ~fakeLatency
         /\ 1 + MaxPlayers <= kMaxEntitiesPerSnapshot => mSnapshotsReceived' = 1]_replicationVars
=============================================================================
