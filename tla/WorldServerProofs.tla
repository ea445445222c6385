-------------------------- MODULE WorldServerProofs --------------------------
(***************************************************************************)
(* Proofs about WorldServer, for any number of connections, players,       *)
(* tokens and addresses, and whether or not the clients overlap.           *)
(*                                                                         *)
(* Types come first: a player id is handed out only for a lookup that      *)
(* found its session, so the ids left cover the lookups under way          *)
(* (IdsLeft), which is a counting argument over the queue of calls.  The   *)
(* registries then agree because an id is new when it is handed out        *)
(* (FreshIds) and leaves all three of them in the same step; and an input  *)
(* reaches a body only through the registry entry that owns it.            *)
(***************************************************************************)
EXTENDS WorldServer, FiniteSetTheorems, FunctionTheorems, TLAPS

\* Only a lookup is answered with what it found.
AnswersFit == \A i \in DOMAIN rpcs :
                rpcs[i].answer \in {"found", "missing"} => rpcs[i].op = "lookupSession"

\* There is an id left for every lookup under way.
IdsLeft == nextPlayerId + Cardinality(Lookups) <= MaxPlayers + 1

\* Ids not yet handed out are in no registry.
FreshIds == /\ \A p \in PlayerIds : p >= nextPlayerId => p \notin bodies
            /\ \A c \in Connections : playersByConnection[c].playerId < nextPlayerId

\* Input is held for bodies only.
IntentHasBody == \A p \in PlayerIds : intent[p] # NoAddress => p \in bodies

QueueInv == TypeOK /\ AnswersFit /\ IdsLeft
RegistryInv == FreshIds /\ RegistriesAgree /\ IntentHasBody /\ OnlyOwnersSteer
-----------------------------------------------------------------------------
(* Counting the lookups under way. *)

\* There are finitely many.
LEMMA LookupsFinite ==
  ASSUME rpcs \in Seq(Rpc)
  PROVE  IsFiniteSet(Lookups) /\ Cardinality(Lookups) \in Nat
<1>1. IsFiniteSet(1..Len(rpcs))
  BY FS_Interval
<1>2. Lookups \in SUBSET (1..Len(rpcs))
  BY DEF Lookups
<1>. QED
  BY <1>1, <1>2, FS_Subset, FS_CardinalityType

\* A set of indices that can be shifted by one into another is no larger.
LEMMA Shift ==
  ASSUME NEW S \in SUBSET Nat, NEW T \in SUBSET Nat, IsFiniteSet(T),
         \A i \in S : i + 1 \in T
  PROVE  Cardinality(S) <= Cardinality(T)
<1> DEFINE f == [i \in S |-> i + 1]
<1>1. f \in [S -> T]
  OBVIOUS
<1>2. \A a, b \in S : f[a] = f[b] => a = b
  OBVIOUS
<1>3. f \in Injection(S, T)
  BY <1>1, <1>2, Fun_IsInj
<1>. QED
  BY <1>3, FS_Injection

\* The queue without its first call, or with another one at its end.
LEMMA QueueTail ==
  ASSUME rpcs \in Seq(Rpc), rpcs # << >>
  PROVE  /\ Tail(rpcs) \in Seq(Rpc) /\ Head(rpcs) \in Rpc /\ Head(rpcs) = rpcs[1]
         /\ Len(rpcs) \in Nat /\ Len(rpcs) > 0
         /\ DOMAIN rpcs = 1..Len(rpcs) /\ DOMAIN Tail(rpcs) = 1..(Len(rpcs) - 1)
         /\ \A i \in 1..(Len(rpcs) - 1) : Tail(rpcs)[i] = rpcs[i + 1]
  OBVIOUS

LEMMA QueueAppend ==
  ASSUME NEW q \in Seq(Rpc), NEW r \in Rpc
  PROVE  /\ Append(q, r) \in Seq(Rpc) /\ Len(q) \in Nat
         /\ DOMAIN q = 1..Len(q) /\ DOMAIN Append(q, r) = 1..(Len(q) + 1)
         /\ \A i \in 1..Len(q) : Append(q, r)[i] = q[i]
         /\ Append(q, r)[Len(q) + 1] = r
  OBVIOUS
-----------------------------------------------------------------------------
(* Types. *)

\* What a player, and the absence of one, is made of.
LEMMA PlayerType ==
  /\ Nobody \in Player /\ Nobody.playerId = 0 /\ Nobody.udpAddress = NoAddress
  /\ \A r \in Player : /\ r.playerId \in 0..MaxPlayers
                       /\ r.udpAddress \in Addresses \cup {NoAddress}
                       /\ r.token \in Tokens \cup {NoToken}
                       /\ r.stale \in BOOLEAN
  BY ConstantsAssumption DEF Player, Nobody

\* removePlayers keeps the registries' types.
LEMMA RemovalType ==
  ASSUME TypeOK, NEW cs, removePlayers(cs)
  PROVE  /\ playersByConnection' \in [Connections -> Player]
         /\ connectionByPlayer' \in [PlayerIds -> 0..MaxConnections]
         /\ bodies' \subseteq PlayerIds
         /\ intent' \in [PlayerIds -> Addresses \cup {NoAddress}]
         /\ nextPlayerId' \in 1..(MaxPlayers + 1)
  BY PlayerType, ConstantsAssumption DEF TypeOK, removePlayers

\* The queue and the ids do not care about steps that leave them alone.
LEMMA QueueFrame ==
  ASSUME QueueInv, UNCHANGED <<rpcs, nextPlayerId>>
  PROVE  AnswersFit' /\ IdsLeft'
  BY DEF QueueInv, AnswersFit, IdsLeft, Lookups

\* A call that is taken from the queue leaves no more lookups in it.
LEMMA TailLookups ==
  ASSUME QueueInv, rpcs # << >>, rpcs' = Tail(rpcs), nextPlayerId' = nextPlayerId
  PROVE  rpcs' \in Seq(Rpc) /\ AnswersFit' /\ IdsLeft'
<1>1. rpcs \in Seq(Rpc) /\ nextPlayerId \in Nat /\ MaxPlayers \in Nat
  BY ConstantsAssumption DEF QueueInv, TypeOK
<1>2. /\ rpcs' \in Seq(Rpc)
      /\ DOMAIN rpcs = 1..Len(rpcs) /\ DOMAIN rpcs' = 1..(Len(rpcs) - 1)
      /\ Len(rpcs) \in Nat
      /\ \A i \in 1..(Len(rpcs) - 1) : rpcs'[i] = rpcs[i + 1]
  BY <1>1, QueueTail
<1>3. AnswersFit'
  BY <1>2 DEF QueueInv, AnswersFit
<1>4. IsFiniteSet(Lookups) /\ Cardinality(Lookups) \in Nat
      /\ Cardinality(Lookups') \in Nat
  <2>1. IsFiniteSet(Lookups) /\ Cardinality(Lookups) \in Nat
    BY <1>1, LookupsFinite
  <2>2. (rpcs \in Seq(Rpc) => Cardinality(Lookups) \in Nat)'
    BY LookupsFinite, PTL
  <2>. QED
    BY <1>2, <2>1, <2>2
<1>5. Lookups' \in SUBSET Nat /\ Lookups \in SUBSET Nat /\ \A i \in Lookups' : i + 1 \in Lookups
  BY <1>2 DEF Lookups
<1>6. Cardinality(Lookups') <= Cardinality(Lookups)
  BY <1>4, <1>5, Shift
<1>7. IdsLeft'
  BY <1>1, <1>4, <1>6 DEF QueueInv, IdsLeft
<1>. QED
  BY <1>2, <1>3, <1>7

\* Asking adds a lookup, within the bound of its guard.
LEMMA JoinRequestQueue ==
  ASSUME QueueInv, NEW c \in Connections, NEW t \in Tokens, JoinRequest(c, t)
  PROVE  QueueInv'
<1>1. /\ rpcs \in Seq(Rpc) /\ nextPlayerId \in Nat /\ MaxPlayers \in Nat
      /\ nextPlayerId' = nextPlayerId
  BY ConstantsAssumption DEF QueueInv, TypeOK, JoinRequest, playerVars
<1>2. IsFiniteSet(Lookups) /\ Cardinality(Lookups) \in Nat
  BY <1>1, LookupsFinite
<1>3. CASE InWorld(c)
  <2>1. rpcs' = rpcs
    BY <1>3 DEF JoinRequest
  <2>2. AnswersFit' /\ IdsLeft'
    BY <1>1, <2>1, QueueFrame
  <2>3. TypeOK'
    BY <2>1 DEF QueueInv, TypeOK, JoinRequest, tcpVars, playerVars
  <2>. QED
    BY <2>2, <2>3 DEF QueueInv
<1>4. CASE ~InWorld(c)
  <2> DEFINE r == [op |-> "lookupSession", connection |-> c, token |-> t, answer |-> "none"]
  <2>1. r \in Rpc /\ rpcs' = Append(rpcs, r)
    BY <1>4 DEF JoinRequest, Rpc
  <2>2. /\ rpcs' \in Seq(Rpc) /\ Len(rpcs) \in Nat
        /\ DOMAIN rpcs = 1..Len(rpcs) /\ DOMAIN rpcs' = 1..(Len(rpcs) + 1)
        /\ \A i \in 1..Len(rpcs) : rpcs'[i] = rpcs[i]
        /\ rpcs'[Len(rpcs) + 1] = r
    BY <1>1, <2>1, QueueAppend
  <2>3. AnswersFit'
    BY <2>2 DEF QueueInv, AnswersFit
  <2>4. Lookups' = Lookups \cup {Len(rpcs) + 1} /\ Len(rpcs) + 1 \notin Lookups
    BY <2>2 DEF Lookups
  <2>5. Cardinality(Lookups') = Cardinality(Lookups) + 1
    BY <1>2, <2>4, FS_AddElement
  <2>6. nextPlayerId + Cardinality(Lookups) <= MaxPlayers
    BY DEF JoinRequest
  <2>7. IdsLeft'
    BY <1>1, <1>2, <2>5, <2>6 DEF IdsLeft
  <2>8. TypeOK'
    BY <2>2 DEF QueueInv, TypeOK, JoinRequest, tcpVars, playerVars
  <2>. QED
    BY <2>3, <2>7, <2>8 DEF QueueInv
<1>. QED
  BY <1>3, <1>4

\* A join uses up one of the ids left and the lookup it was left for.
LEMMA JoinSuccessQueue ==
  ASSUME QueueInv, JoinSuccess
  PROVE  QueueInv' /\ nextPlayerId \in PlayerIds
<1> DEFINE c == Head(rpcs).connection
           t == Head(rpcs).token
           r == [op |-> "deleteSession", connection |-> c, token |-> t, answer |-> "none"]
<1>1. /\ rpcs \in Seq(Rpc) /\ rpcs # << >> /\ nextPlayerId \in Nat \ {0}
      /\ MaxPlayers \in Nat /\ nextPlayerId' = nextPlayerId + 1
  BY ConstantsAssumption DEF QueueInv, TypeOK, JoinSuccess, Replied
<1>2. /\ Tail(rpcs) \in Seq(Rpc) /\ Head(rpcs) \in Rpc /\ Head(rpcs) = rpcs[1]
      /\ Len(rpcs) \in Nat /\ Len(rpcs) > 0
      /\ DOMAIN rpcs = 1..Len(rpcs) /\ DOMAIN Tail(rpcs) = 1..(Len(rpcs) - 1)
      /\ \A i \in 1..(Len(rpcs) - 1) : Tail(rpcs)[i] = rpcs[i + 1]
  BY <1>1, QueueTail
<1>3. c \in Connections /\ t \in Tokens /\ r \in Rpc /\ rpcs' = Append(Tail(rpcs), r)
  BY <1>2 DEF Rpc, JoinSuccess, TokenRedeemed
<1>4. Len(Tail(rpcs)) = Len(rpcs) - 1
  BY <1>1
<1>5. /\ rpcs' \in Seq(Rpc) /\ DOMAIN rpcs' = 1..Len(rpcs)
      /\ \A i \in 1..(Len(rpcs) - 1) : rpcs'[i] = rpcs[i + 1]
      /\ rpcs'[Len(rpcs)] = r
  BY <1>2, <1>3, <1>4, QueueAppend
<1>6. AnswersFit'
  <2>1. ASSUME NEW i \in DOMAIN rpcs', rpcs'[i].answer \in {"found", "missing"}
        PROVE  rpcs'[i].op = "lookupSession"
    <3>1. i \in 1..(Len(rpcs) - 1)
      BY <1>2, <1>5, <2>1
    <3>. QED
      BY <1>2, <1>5, <2>1, <3>1 DEF QueueInv, AnswersFit
  <2>. QED
    BY <2>1 DEF AnswersFit
<1>7. 1 \in Lookups
  BY <1>2 DEF QueueInv, AnswersFit, Lookups, JoinSuccess
<1>8. IsFiniteSet(Lookups) /\ Cardinality(Lookups) \in Nat
  BY <1>1, LookupsFinite
<1>9. IsFiniteSet(Lookups \ {1}) /\ Cardinality(Lookups \ {1}) = Cardinality(Lookups) - 1
  BY <1>7, <1>8, FS_RemoveElement
<1>10. /\ Lookups' \in SUBSET Nat /\ Lookups \ {1} \in SUBSET Nat
       /\ \A i \in Lookups' : i + 1 \in Lookups \ {1}
  <2>1. ASSUME NEW i \in Lookups' PROVE i \in Nat /\ i + 1 \in Lookups \ {1}
    <3>1. i \in 1..(Len(rpcs) - 1)
      BY <1>2, <1>5 DEF Lookups
    <3>. QED
      BY <1>2, <1>5, <3>1 DEF Lookups
  <2>. QED
    BY <1>2, <2>1 DEF Lookups
<1>11. Cardinality(Lookups') <= Cardinality(Lookups) - 1
  BY <1>9, <1>10, Shift
<1>12. Cardinality(Lookups') \in Nat
  <2>1. (rpcs \in Seq(Rpc) => Cardinality(Lookups) \in Nat)'
    BY LookupsFinite, PTL
  <2>. QED
    BY <1>5, <2>1
<1>13. nextPlayerId \in PlayerIds /\ IdsLeft'
  BY <1>1, <1>8, <1>11, <1>12 DEF QueueInv, IdsLeft, PlayerIds
<1>14. TypeOK'
  <2>1. nextPlayerId' \in 1..(MaxPlayers + 1) /\ bodies' \subseteq PlayerIds
    BY <1>1, <1>13 DEF QueueInv, TypeOK, JoinSuccess, PlayerIds
  <2>2. NewPlayer(Head(rpcs)) \in Player
    BY <1>3, <1>13 DEF NewPlayer, Player, PlayerIds
  <2>3. playersByConnection' \in [Connections -> Player]
    BY <1>3, <2>2 DEF QueueInv, TypeOK, JoinSuccess
  <2>4. c \in 0..MaxConnections
    BY <1>3, ConstantsAssumption DEF Connections
  <2>5. connectionByPlayer' \in [PlayerIds -> 0..MaxConnections]
    BY <2>4 DEF QueueInv, TypeOK, JoinSuccess
  <2>6. told' \in [Connections -> 0..MaxPlayers]
    BY <1>13 DEF QueueInv, TypeOK, JoinSuccess, sendJoinResponse, PlayerIds
  <2>7. redeemed' \in [Tokens -> Nat]
    BY <1>3 DEF QueueInv, TypeOK, JoinSuccess
  <2>. QED
    BY <1>5, <2>1, <2>3, <2>5, <2>6, <2>7 DEF QueueInv, TypeOK, JoinSuccess, tcpVars
<1>. QED
  BY <1>6, <1>13, <1>14 DEF QueueInv

\* The other callbacks take their call from the queue.
LEMMA OtherCallbackQueue ==
  ASSUME QueueInv, JoinRefused \/ SessionDeleted
  PROVE  QueueInv'
<1>1. rpcs # << >> /\ rpcs' = Tail(rpcs) /\ nextPlayerId' = nextPlayerId
  BY DEF JoinRefused, SessionDeleted, Replied, playerVars
<1>2. rpcs' \in Seq(Rpc) /\ AnswersFit' /\ IdsLeft'
  BY <1>1, TailLookups
<1>3. told' \in [Connections -> 0..MaxPlayers]
  BY ConstantsAssumption
     DEF QueueInv, TypeOK, JoinRefused, SessionDeleted, sendJoinResponse, clientVars
<1>4. TypeOK'
  BY <1>2, <1>3 DEF QueueInv, TypeOK, JoinRefused, SessionDeleted, tcpVars, playerVars, clientVars
<1>. QED
  BY <1>2, <1>4 DEF QueueInv

\* A lost link empties the queue.
LEMMA DbLostQueue ==
  ASSUME QueueInv, DbLost
  PROVE  QueueInv'
<1>1. rpcs' = << >> /\ nextPlayerId' = nextPlayerId /\ nextPlayerId \in 1..(MaxPlayers + 1)
  BY DEF QueueInv, TypeOK, DbLost, playerVars
<1>2. Lookups' = {}
  BY <1>1 DEF Lookups
<1>3. Cardinality(Lookups') = 0
  BY <1>2, FS_EmptySet
<1>4. IdsLeft' /\ AnswersFit'
  BY <1>1, <1>3, ConstantsAssumption DEF IdsLeft, AnswersFit
<1>5. told' \in [Connections -> 0..MaxPlayers]
  BY ConstantsAssumption DEF QueueInv, TypeOK, DbLost, sendJoinResponse
<1>6. dbFailures' \in 0..MaxDbFailures
  BY ConstantsAssumption DEF QueueInv, TypeOK, DbLost
<1>7. TypeOK'
  BY <1>1, <1>5, <1>6 DEF QueueInv, TypeOK, DbLost, tcpVars, playerVars
<1>. QED
  BY <1>4, <1>7 DEF QueueInv

\* The database answers a call in place.
LEMMA DbExecutesQueue ==
  ASSUME QueueInv, DbExecutes
  PROVE  QueueInv'
<1>1. rpcs \in Seq(Rpc) /\ sessions \subseteq Tokens
  BY DEF QueueInv, TypeOK
<1>2. PICK i \in DOMAIN rpcs :
        /\ \/ /\ rpcs[i].op = "lookupSession"
              /\ \/ rpcs' = [rpcs EXCEPT ![i].answer = "found"]
                 \/ rpcs' = [rpcs EXCEPT ![i].answer = "missing"]
              /\ sessions' = sessions
           \/ /\ rpcs[i].op # "lookupSession"
              /\ rpcs' = [rpcs EXCEPT ![i].answer = "done"]
              /\ sessions' = sessions \ {rpcs[i].token}
        /\ UNCHANGED <<phase, tcpVars, playerVars, dbFailures, clientVars>>
  BY DEF DbExecutes
<1>3. rpcs[i] \in Rpc /\ DOMAIN rpcs = 1..Len(rpcs) /\ Len(rpcs) \in Nat
  BY <1>1
<1>4. /\ rpcs' \in Seq(Rpc) /\ DOMAIN rpcs' = DOMAIN rpcs
      /\ \A j \in DOMAIN rpcs : rpcs'[j].op = rpcs[j].op
      /\ \A j \in DOMAIN rpcs : j # i => rpcs'[j] = rpcs[j]
      /\ rpcs'[i].answer \in {"found", "missing"} => rpcs[i].op = "lookupSession"
  <2>1. ASSUME NEW w \in {"found", "missing", "done"}, rpcs' = [rpcs EXCEPT ![i].answer = w]
        PROVE  /\ rpcs' \in Seq(Rpc) /\ DOMAIN rpcs' = DOMAIN rpcs
               /\ \A j \in DOMAIN rpcs : rpcs'[j].op = rpcs[j].op
               /\ \A j \in DOMAIN rpcs : j # i => rpcs'[j] = rpcs[j]
               /\ rpcs'[i].answer = w
    <3> DEFINE r == [rpcs[i] EXCEPT !.answer = w]
    <3>1. r \in Rpc /\ r.op = rpcs[i].op /\ r.answer = w
      BY <1>3 DEF Rpc
    <3>2. rpcs' = [rpcs EXCEPT ![i] = r]
      BY <2>1
    <3>. QED
      BY <1>1, <1>3, <3>1, <3>2
  <2>. QED
    BY <1>2, <2>1
<1>5. AnswersFit'
  BY <1>4 DEF QueueInv, AnswersFit
<1>6. Lookups' = Lookups
  BY <1>4 DEF Lookups
<1>7. IdsLeft'
  BY <1>2, <1>6 DEF QueueInv, IdsLeft, playerVars
<1>8. sessions' \subseteq Tokens
  BY <1>1, <1>2
<1>9. TypeOK'
  BY <1>2, <1>4, <1>8 DEF QueueInv, TypeOK, tcpVars, playerVars, clientVars
<1>. QED
  BY <1>5, <1>7, <1>9 DEF QueueInv

\* The steps that remove players keep queue and types.
LEMMA RemovalQueue ==
  ASSUME QueueInv,
         CloseConnections \/ TimeoutSweep \/ \E c \in Connections : LogoutRequest(c)
  PROVE  QueueInv'
<1>1. PICK cs : removePlayers(cs)
  BY DEF CloseConnections, TimeoutSweep, LogoutRequest
<1>2. UNCHANGED <<rpcs, nextPlayerId>>
  BY <1>1 DEF CloseConnections, TimeoutSweep, LogoutRequest, dbVars, removePlayers
<1>3. AnswersFit' /\ IdsLeft'
  BY <1>2, QueueFrame
<1>4. /\ playersByConnection' \in [Connections -> Player]
      /\ connectionByPlayer' \in [PlayerIds -> 0..MaxConnections]
      /\ bodies' \subseteq PlayerIds
      /\ intent' \in [PlayerIds -> Addresses \cup {NoAddress}]
      /\ nextPlayerId' \in 1..(MaxPlayers + 1)
  BY <1>1, RemovalType DEF QueueInv
<1>5. /\ mConnections' \subseteq Connections /\ mClosing' \subseteq Connections
      /\ told' \in [Connections -> 0..MaxPlayers]
  <2>1. CASE \E c \in Connections : LogoutRequest(c)
    BY <2>1, ConstantsAssumption DEF QueueInv, TypeOK, LogoutRequest, tcpVars
  <2>2. CASE CloseConnections
    BY <2>2 DEF QueueInv, TypeOK, CloseConnections, clientVars
  <2>3. CASE TimeoutSweep
    BY <2>3 DEF QueueInv, TypeOK, TimeoutSweep, TimedOut, clientVars
  <2>. QED
    BY <2>1, <2>2, <2>3
<1>6. TypeOK'
  BY <1>4, <1>5 DEF QueueInv, TypeOK, CloseConnections, TimeoutSweep, LogoutRequest,
                    tcpVars, dbVars, clientVars
<1>. QED
  BY <1>3, <1>6 DEF QueueInv

\* Datagrams and silence change an entry of the registry in place.
LEMMA DatagramQueue ==
  ASSUME QueueInv, Datagram \/ \E c \in Connections : FallsSilent(c)
  PROVE  QueueInv'
<1>1. UNCHANGED <<rpcs, nextPlayerId>>
  BY DEF Datagram, ClientInput, ClientHello, FallsSilent, dbVars
<1>2. AnswersFit' /\ IdsLeft'
  BY <1>1, QueueFrame
<1>3. playersByConnection \in [Connections -> Player]
  BY DEF QueueInv, TypeOK
<1>4. playersByConnection' \in [Connections -> Player]
  <2>1. CASE \E c \in Connections : FallsSilent(c)
    <3>1. PICK c \in Connections :
            playersByConnection' = [playersByConnection EXCEPT ![c].stale = TRUE]
      BY <2>1 DEF FallsSilent
    <3>2. [playersByConnection[c] EXCEPT !.stale = TRUE] \in Player
      BY <1>3 DEF Player
    <3>. QED
      BY <1>3, <3>1, <3>2
  <2>2. CASE Datagram
    <3>1. CASE \E a \in Addresses, p \in PlayerIds : ClientInput(p, a)
      <4>1. PICK c \in Connections :
              playersByConnection' = [playersByConnection EXCEPT ![c].stale = FALSE]
        BY <3>1 DEF ClientInput
      <4>2. [playersByConnection[c] EXCEPT !.stale = FALSE] \in Player
        BY <1>3 DEF Player
      <4>. QED
        BY <1>3, <4>1, <4>2
    <3>2. CASE \E a \in Addresses, p \in PlayerIds, t \in Tokens : ClientHello(p, t, a)
      <4>1. PICK a \in Addresses, p \in PlayerIds, t \in Tokens : ClientHello(p, t, a)
        BY <3>2
      <4> DEFINE c == connectionByPlayer[p]
                 r == [playersByConnection[c] EXCEPT !.udpAddress = a, !.stale = FALSE]
      <4>2. c \in Connections
        BY <4>1, ConstantsAssumption DEF QueueInv, TypeOK, ClientHello, Connections
      <4>3. r \in Player
        BY <1>3, <4>2 DEF Player
      <4>4. playersByConnection' = [playersByConnection EXCEPT ![c] = r]
        BY <1>3, <4>1, <4>2 DEF ClientHello
      <4>. QED
        BY <1>3, <4>2, <4>3, <4>4
    <3>. QED
      BY <2>2, <3>1, <3>2 DEF Datagram
  <2>. QED
    BY <2>1, <2>2
<1>5. intent' \in [PlayerIds -> Addresses \cup {NoAddress}]
  BY DEF QueueInv, TypeOK, Datagram, ClientInput, ClientHello, FallsSilent
<1>6. TypeOK'
  BY <1>4, <1>5 DEF QueueInv, TypeOK, Datagram, ClientInput, ClientHello, FallsSilent,
                    tcpVars, dbVars, clientVars
<1>. QED
  BY <1>2, <1>6 DEF QueueInv

\* Steps that touch neither the registries nor the queue.
LEMMA OtherQueue ==
  ASSUME QueueInv,
         \/ Accept \/ DbPolled \/ UdpDrained
         \/ \E c \in Connections : PumpFails(c) \/ PeerCloses(c) \/ JoinMismatch(c)
         \/ \E t \in Tokens : SessionExpires(t)
         \/ UNCHANGED vars
  PROVE  QueueInv' /\ UNCHANGED playerVars
<1>1. UNCHANGED <<rpcs, playerVars>>
  BY DEF Accept, DbPolled, UdpDrained, PumpFails, PeerCloses, JoinMismatch,
         SessionExpires, vars, dbVars
<1>2. AnswersFit' /\ IdsLeft'
  BY <1>1, QueueFrame DEF playerVars
<1>3. /\ mNextId' \in 1..(MaxConnections + 1) /\ mConnections' \subseteq Connections
      /\ mClosing' \subseteq Connections /\ eof' \subseteq Connections
  <2>1. CASE Accept
    BY <2>1, ConstantsAssumption DEF QueueInv, TypeOK, Accept, Connections
  <2>2. CASE \E c \in Connections : PumpFails(c) \/ PeerCloses(c)
    BY <2>2 DEF QueueInv, TypeOK, PumpFails, PeerCloses
  <2>3. CASE UNCHANGED tcpVars
    BY <2>3 DEF QueueInv, TypeOK, tcpVars
  <2>4. \/ Accept \/ \E c \in Connections : PumpFails(c) \/ PeerCloses(c)
        \/ UNCHANGED tcpVars
    BY DEF DbPolled, UdpDrained, JoinMismatch, SessionExpires, vars
  <2>. QED
    BY <2>1, <2>2, <2>3, <2>4
<1>4. /\ told' \in [Connections -> 0..MaxPlayers] /\ asked' \subseteq Connections
      /\ sessions' \subseteq Tokens
  <2>1. CASE \E c \in Connections : JoinMismatch(c)
    BY <2>1, ConstantsAssumption DEF QueueInv, TypeOK, JoinMismatch, dbVars
  <2>2. CASE \E t \in Tokens : SessionExpires(t)
    BY <2>2 DEF QueueInv, TypeOK, SessionExpires, clientVars
  <2>3. CASE UNCHANGED <<told, asked, sessions>>
    BY <2>3 DEF QueueInv, TypeOK
  <2>4. \/ \E c \in Connections : JoinMismatch(c)
        \/ \E t \in Tokens : SessionExpires(t)
        \/ UNCHANGED <<told, asked, sessions>>
    BY DEF Accept, DbPolled, UdpDrained, PumpFails, PeerCloses, vars, clientVars, dbVars
  <2>. QED
    BY <2>1, <2>2, <2>3, <2>4
<1>5. TypeOK'
  BY <1>1, <1>3, <1>4
     DEF QueueInv, TypeOK, Accept, DbPolled, UdpDrained, PumpFails, PeerCloses,
         JoinMismatch, SessionExpires, vars, playerVars, clientVars, dbVars
<1>. QED
  BY <1>1, <1>2, <1>5 DEF QueueInv

LEMMA InitQueue == Init => QueueInv
<1>. SUFFICES ASSUME Init PROVE QueueInv
  OBVIOUS
<1>1. TypeOK
  BY PlayerType, ConstantsAssumption DEF Init, TypeOK
<1>2. Lookups = {}
  BY DEF Init, Lookups
<1>3. IdsLeft /\ AnswersFit
  BY <1>2, FS_EmptySet, ConstantsAssumption DEF Init, IdsLeft, AnswersFit
<1>. QED
  BY <1>1, <1>3 DEF QueueInv

LEMMA NextQueue == QueueInv /\ [Next]_vars => QueueInv'
  BY JoinRequestQueue, JoinSuccessQueue, OtherCallbackQueue, DbLostQueue,
     DbExecutesQueue, RemovalQueue, DatagramQueue, OtherQueue
  DEF Next, EndOfPhase, Callback

LEMMA SpecQueue == Spec => []QueueInv
  BY InitQueue, NextQueue, PTL DEF Spec

\* Every variable keeps its type; in particular the ids of the players and the
\* queue of calls stay within their bounds, whatever the clients do.
THEOREM TypeCorrect == Spec => []TypeOK
<1>1. QueueInv => TypeOK
  BY DEF QueueInv
<1>. QED
  BY <1>1, SpecQueue, PTL
-----------------------------------------------------------------------------
(* The registries. *)

\* Nothing about the registries depends on anything else.
LEMMA RegistryFrame ==
  ASSUME RegistryInv, UNCHANGED playerVars
  PROVE  RegistryInv'
  BY DEF RegistryInv, playerVars, FreshIds, RegistriesAgree, IntentHasBody,
         OnlyOwnersSteer, InWorld, Owns, Bound

\* removePlayers takes a player out of all of them at once.
LEMMA RemovalRegistry ==
  ASSUME TypeOK, RegistryInv, NEW cs \in SUBSET Connections, removePlayers(cs)
  PROVE  RegistryInv'
<1> DEFINE leaving == {p \in PlayerIds : \E c \in cs : Owns(c, p)}
<1>1. /\ \A c \in Connections : playersByConnection'[c] =
             IF c \in cs THEN Nobody ELSE playersByConnection[c]
      /\ bodies' = bodies \ leaving
      /\ \A p \in PlayerIds : intent'[p] = IF p \in leaving THEN NoAddress ELSE intent[p]
      /\ \A p \in PlayerIds : connectionByPlayer'[p] =
             IF p \in leaving THEN 0 ELSE connectionByPlayer[p]
      /\ nextPlayerId' = nextPlayerId
  BY DEF removePlayers
<1>2. /\ nextPlayerId \in Nat /\ nextPlayerId > 0 /\ bodies \subseteq PlayerIds
      /\ \A c \in Connections : playersByConnection[c] \in Player
  BY ConstantsAssumption DEF TypeOK
<1>3. FreshIds'
  <2>1. ASSUME NEW c \in Connections PROVE playersByConnection'[c].playerId < nextPlayerId'
    BY <1>1, <1>2, PlayerType DEF RegistryInv, FreshIds
  <2>. QED
    BY <1>1, <2>1 DEF RegistryInv, FreshIds
<1>4. ASSUME NEW c \in Connections, c \notin cs, InWorld(c)
      PROVE  /\ playersByConnection[c].playerId \in PlayerIds
             /\ playersByConnection[c].playerId \notin leaving
  <2> DEFINE p == playersByConnection[c].playerId
  <2>1. p \in PlayerIds
    BY <1>2, <1>4, PlayerType DEF InWorld, PlayerIds
  <2>2. ASSUME NEW d \in cs, Owns(d, p) PROVE FALSE
    BY <1>4, <2>2 DEF RegistryInv, RegistriesAgree, Owns, InWorld
  <2>. QED
    BY <2>1, <2>2
<1>5. RegistriesAgree'
  <2>1. \A p \in PlayerIds : p \in bodies' <=> connectionByPlayer'[p] # 0
    BY <1>1 DEF RegistryInv, RegistriesAgree
  <2>2. ASSUME NEW c \in Connections, InWorld(c)'
        PROVE  connectionByPlayer'[playersByConnection'[c].playerId] = c
    <3>1. c \notin cs /\ InWorld(c) /\ playersByConnection'[c] = playersByConnection[c]
      BY <1>1, <2>2, PlayerType DEF InWorld
    <3>. QED
      BY <1>1, <1>4, <3>1 DEF RegistryInv, RegistriesAgree
  <2>. QED
    BY <2>1, <2>2 DEF RegistriesAgree
<1>6. IntentHasBody'
  BY <1>1 DEF RegistryInv, IntentHasBody
<1>7. OnlyOwnersSteer'
  <2>1. SUFFICES ASSUME NEW p \in bodies', intent'[p] # NoAddress
                 PROVE  \E c \in Connections : Owns(c, p)' /\ Bound(c)'
    BY DEF OnlyOwnersSteer
  <2>2. p \in PlayerIds /\ p \notin leaving /\ p \in bodies /\ intent[p] # NoAddress
    BY <1>1, <1>2, <2>1
  <2>3. PICK c \in Connections : Owns(c, p) /\ Bound(c)
    BY <2>2 DEF RegistryInv, OnlyOwnersSteer
  <2>4. c \notin cs
    BY <2>2, <2>3
  <2>. QED
    BY <1>1, <2>3, <2>4 DEF Owns, Bound
<1>. QED
  BY <1>3, <1>5, <1>6, <1>7 DEF RegistryInv

\* A join brings a new id into the registries, though maybe not into
\* playersByConnection.
LEMMA JoinSuccessRegistry ==
  ASSUME QueueInv, RegistryInv, JoinSuccess
  PROVE  RegistryInv'
<1> DEFINE c == Head(rpcs).connection
           n == nextPlayerId
<1>1. /\ n \in PlayerIds /\ n \in Nat /\ c \in Connections /\ c # 0
      /\ bodies \subseteq PlayerIds /\ playersByConnection \in [Connections -> Player]
      /\ connectionByPlayer \in [PlayerIds -> 0..MaxConnections]
  <2>1. rpcs \in Seq(Rpc) /\ rpcs # << >>
    BY DEF QueueInv, TypeOK, JoinSuccess, Replied
  <2>2. c \in Connections
    BY <2>1, QueueTail DEF Rpc
  <2>3. n \in PlayerIds
    BY JoinSuccessQueue
  <2>. QED
    BY <2>2, <2>3, ConstantsAssumption DEF QueueInv, TypeOK, PlayerIds, Connections
<1>2. /\ nextPlayerId' = n + 1 /\ bodies' = bodies \cup {n} /\ intent' = intent
      /\ connectionByPlayer' = [connectionByPlayer EXCEPT ![n] = c]
      /\ \A d \in Connections : \/ playersByConnection'[d] = playersByConnection[d]
                                \/ /\ d = c /\ ~InWorld(d)
                                   /\ playersByConnection'[d].playerId = n
  BY <1>1 DEF JoinSuccess, NewPlayer
<1>3. \A d \in Connections : playersByConnection[d].playerId \in Nat
                             /\ playersByConnection[d].playerId < n
  BY <1>1, PlayerType, ConstantsAssumption DEF RegistryInv, FreshIds
<1>4. n \notin bodies /\ intent[n] = NoAddress
  BY <1>1 DEF RegistryInv, FreshIds, IntentHasBody
<1>5. FreshIds'
  <2>1. \A p \in PlayerIds : p >= n + 1 => p \notin bodies'
    BY <1>1, <1>2, ConstantsAssumption DEF RegistryInv, FreshIds, PlayerIds
  <2>2. \A d \in Connections : playersByConnection'[d].playerId < n + 1
    BY <1>1, <1>2, <1>3
  <2>. QED
    BY <1>2, <2>1, <2>2 DEF FreshIds
<1>6. RegistriesAgree'
  <2>1. \A p \in PlayerIds : p \in bodies' <=> connectionByPlayer'[p] # 0
    BY <1>1, <1>2 DEF RegistryInv, RegistriesAgree
  <2>2. ASSUME NEW d \in Connections, InWorld(d)'
        PROVE  connectionByPlayer'[playersByConnection'[d].playerId] = d
    <3>1. CASE playersByConnection'[d] = playersByConnection[d]
      <4> DEFINE p == playersByConnection[d].playerId
      <4>1. InWorld(d) /\ p # n
        BY <1>1, <1>3, <2>2, <3>1 DEF InWorld
      <4>2. p \in PlayerIds
        BY <1>1, <4>1, PlayerType DEF InWorld, PlayerIds
      <4>3. connectionByPlayer[p] = d
        BY <4>1 DEF RegistryInv, RegistriesAgree
      <4>. QED
        BY <1>1, <1>2, <3>1, <4>1, <4>2, <4>3
    <3>2. CASE d = c /\ playersByConnection'[d].playerId = n
      BY <1>1, <1>2, <3>2
    <3>. QED
      BY <1>2, <3>1, <3>2
  <2>. QED
    BY <2>1, <2>2 DEF RegistriesAgree
<1>7. IntentHasBody'
  BY <1>2 DEF RegistryInv, IntentHasBody
<1>8. OnlyOwnersSteer'
  <2>1. SUFFICES ASSUME NEW p \in bodies', intent'[p] # NoAddress
                 PROVE  \E d \in Connections : Owns(d, p)' /\ Bound(d)'
    BY DEF OnlyOwnersSteer
  <2>2. p \in bodies /\ intent[p] # NoAddress
    BY <1>2, <1>4, <2>1
  <2>3. PICK d \in Connections : Owns(d, p) /\ Bound(d)
    BY <2>2 DEF RegistryInv, OnlyOwnersSteer
  <2>4. playersByConnection'[d] = playersByConnection[d]
    BY <1>2, <2>3 DEF Owns, InWorld
  <2>. QED
    BY <2>3, <2>4 DEF Owns, Bound
<1>. QED
  BY <1>5, <1>6, <1>7, <1>8 DEF RegistryInv

\* A step that changes entries of playersByConnection in place, keeping their
\* player and at most binding addresses, and that steers only owners.
LEMMA InPlaceRegistry ==
  ASSUME TypeOK, RegistryInv,
         UNCHANGED <<connectionByPlayer, bodies, nextPlayerId>>,
         \A c \in Connections :
           /\ playersByConnection'[c].playerId = playersByConnection[c].playerId
           /\ Bound(c) => Bound(c)',
         \A p \in PlayerIds :
           \/ intent'[p] = intent[p]
           \/ p \in bodies /\ (\E c \in Connections : Owns(c, p) /\ Bound(c))
  PROVE  RegistryInv'
<1>1. bodies \subseteq PlayerIds
  BY DEF TypeOK
<1>2. FreshIds'
  BY DEF RegistryInv, FreshIds
<1>3. RegistriesAgree'
  BY DEF RegistryInv, RegistriesAgree, InWorld
<1>4. IntentHasBody'
  BY DEF RegistryInv, IntentHasBody
<1>5. OnlyOwnersSteer'
  <2>1. SUFFICES ASSUME NEW p \in bodies, intent'[p] # NoAddress
                 PROVE  \E c \in Connections : Owns(c, p)' /\ Bound(c)'
    BY DEF OnlyOwnersSteer
  <2>2. PICK c \in Connections : Owns(c, p) /\ Bound(c)
    BY <1>1, <2>1 DEF RegistryInv, OnlyOwnersSteer
  <2>. QED
    BY <2>2 DEF Owns
<1>. QED
  BY <1>2, <1>3, <1>4, <1>5 DEF RegistryInv

\* ClientHello binds the address of an entry that is there.
LEMMA ClientHelloRegistry ==
  ASSUME TypeOK, RegistryInv,
         NEW p \in PlayerIds, NEW t \in Tokens, NEW a \in Addresses, ClientHello(p, t, a)
  PROVE  RegistryInv'
<1> DEFINE c == connectionByPlayer[p]
<1>1. playersByConnection \in [Connections -> Player] /\ c \in Connections
  BY ConstantsAssumption DEF TypeOK, ClientHello, Connections
<1>2. playersByConnection' = [playersByConnection EXCEPT
                                ![c].udpAddress = a, ![c].stale = FALSE]
  BY DEF ClientHello
<1>3. \A d \in Connections : d # c => playersByConnection'[d] = playersByConnection[d]
  BY <1>1, <1>2
<1>4. /\ playersByConnection'[c].playerId = playersByConnection[c].playerId
      /\ playersByConnection'[c].udpAddress = a
  BY <1>1, <1>2 DEF Player
<1>5. a # NoAddress
  BY ConstantsAssumption
<1>6. \A d \in Connections :
        /\ playersByConnection'[d].playerId = playersByConnection[d].playerId
        /\ Bound(d) => Bound(d)'
  BY <1>3, <1>4, <1>5 DEF Bound
<1>. QED
  BY <1>6, InPlaceRegistry DEF ClientHello

\* ClientInput steers the player found by its address, and no other.
LEMMA ClientInputRegistry ==
  ASSUME TypeOK, RegistryInv, NEW p \in PlayerIds, NEW a \in Addresses, ClientInput(p, a)
  PROVE  RegistryInv'
<1>1. PICK c \in Connections :
        /\ foundByUdp(a, c)
        /\ playersByConnection' = [playersByConnection EXCEPT ![c].stale = FALSE]
        /\ intent' = IF playersByConnection[c].playerId = p /\ p \in bodies
                     THEN [intent EXCEPT ![p] = a] ELSE intent
  BY DEF ClientInput
<1>2. playersByConnection \in [Connections -> Player] /\ intent \in [PlayerIds -> Addresses \cup {NoAddress}]
  BY DEF TypeOK
<1>3. \A d \in Connections : d # c => playersByConnection'[d] = playersByConnection[d]
  BY <1>1, <1>2
<1>4. /\ playersByConnection'[c].playerId = playersByConnection[c].playerId
      /\ playersByConnection'[c].udpAddress = playersByConnection[c].udpAddress
  BY <1>1, <1>2 DEF Player
<1>5. Bound(c)
  BY <1>1, ConstantsAssumption DEF foundByUdp, Bound
<1>6. p # 0
  BY ConstantsAssumption DEF PlayerIds
<1>7. ASSUME NEW q \in PlayerIds
      PROVE  intent'[q] = intent[q] \/ (q \in bodies /\ Owns(c, q))
  BY <1>1, <1>2, <1>6 DEF Owns
<1>8. \A d \in Connections :
        /\ playersByConnection'[d].playerId = playersByConnection[d].playerId
        /\ Bound(d) => Bound(d)'
  BY <1>3, <1>4 DEF Bound
<1>. QED
  BY <1>5, <1>7, <1>8, InPlaceRegistry DEF ClientInput

\* FallsSilent only ages an entry.
LEMMA FallsSilentRegistry ==
  ASSUME TypeOK, RegistryInv, NEW c \in Connections, FallsSilent(c)
  PROVE  RegistryInv'
<1>1. playersByConnection \in [Connections -> Player]
      /\ playersByConnection' = [playersByConnection EXCEPT ![c].stale = TRUE]
  BY DEF TypeOK, FallsSilent
<1>2. \A d \in Connections : d # c => playersByConnection'[d] = playersByConnection[d]
  BY <1>1
<1>3. /\ playersByConnection'[c].playerId = playersByConnection[c].playerId
      /\ playersByConnection'[c].udpAddress = playersByConnection[c].udpAddress
  BY <1>1 DEF Player
<1>4. \A d \in Connections :
        /\ playersByConnection'[d].playerId = playersByConnection[d].playerId
        /\ Bound(d) => Bound(d)'
  BY <1>2, <1>3 DEF Bound
<1>. QED
  BY <1>4, InPlaceRegistry DEF FallsSilent

LEMMA InitRegistry == Init => RegistryInv
  BY ConstantsAssumption, PlayerType
  DEF Init, RegistryInv, FreshIds, RegistriesAgree, IntentHasBody, OnlyOwnersSteer,
      InWorld, Connections

LEMMA NextRegistry == QueueInv /\ RegistryInv /\ [Next]_vars => RegistryInv'
<1>. SUFFICES ASSUME QueueInv, RegistryInv, [Next]_vars PROVE RegistryInv'
  OBVIOUS
<1>1. TypeOK
  BY DEF QueueInv
<1>2. CASE CloseConnections
  <2>1. mClosing \cap mConnections \in SUBSET Connections
    BY <1>1 DEF TypeOK
  <2>. QED
    BY <1>1, <1>2, <2>1, RemovalRegistry DEF CloseConnections
<1>3. CASE TimeoutSweep
  <2>1. TimedOut \in SUBSET Connections
    BY DEF TimedOut
  <2>. QED
    BY <1>1, <1>3, <2>1, RemovalRegistry DEF TimeoutSweep
<1>4. CASE \E c \in Connections : LogoutRequest(c)
  <2>1. PICK c \in Connections : removePlayers({c})
    BY <1>4 DEF LogoutRequest
  <2>2. {c} \in SUBSET Connections
    OBVIOUS
  <2>. QED
    BY <1>1, <2>1, <2>2, RemovalRegistry
<1>5. CASE JoinSuccess
  BY <1>5, JoinSuccessRegistry
<1>6. CASE Datagram
  BY <1>1, <1>6, ClientHelloRegistry, ClientInputRegistry DEF Datagram
<1>7. CASE \E c \in Connections : FallsSilent(c)
  BY <1>1, <1>7, FallsSilentRegistry
<1>8. CASE UNCHANGED playerVars
  BY <1>8, RegistryFrame
<1>9. \/ CloseConnections \/ TimeoutSweep \/ (\E c \in Connections : LogoutRequest(c))
      \/ JoinSuccess \/ Datagram \/ (\E c \in Connections : FallsSilent(c))
      \/ UNCHANGED playerVars
  BY DEF Next, EndOfPhase, Callback, DbPolled, UdpDrained, JoinRefused, SessionDeleted,
         DbLost, Accept, DbExecutes, PumpFails, PeerCloses, JoinMismatch, JoinRequest,
         SessionExpires, vars
<1>. QED
  BY <1>2, <1>3, <1>4, <1>5, <1>6, <1>7, <1>8, <1>9

LEMMA SpecRegistry == Spec => []RegistryInv
  BY InitRegistry, NextRegistry, SpecQueue, PTL DEF Spec

\* The three registries tell one story in every reachable state, however joins,
\* logouts, disconnections and timeouts interleave.
THEOREM RegistriesAlwaysAgree == Spec => []RegistriesAgree
<1>1. RegistryInv => RegistriesAgree
  BY DEF RegistryInv
<1>. QED
  BY <1>1, SpecRegistry, PTL

\* Whatever datagrams arrive, no body moves but for a registered player with a
\* proven address.
THEOREM OnlyOwnersEverSteer == Spec => []OnlyOwnersSteer
<1>1. RegistryInv => OnlyOwnersSteer
  BY DEF RegistryInv
<1>. QED
  BY <1>1, SpecRegistry, PTL
-----------------------------------------------------------------------------
(* Redemption. *)

\* The deletion of t's session is queued and not yet executed.
Doomed(t) == \E i \in DOMAIN rpcs : /\ rpcs[i].op = "deleteSession"
                                    /\ rpcs[i].token = t
                                    /\ rpcs[i].answer = "none"

\* Taking an answered call from the front of the queue leaves the deletions
\* that are still to be executed in it.
LEMMA DoomedTail ==
  ASSUME QueueInv, Replied, NEW t \in Tokens, Doomed(t),
         rpcs' = Tail(rpcs) \/ rpcs' = TokenRedeemed
  PROVE  Doomed(t)'
<1>1. rpcs \in Seq(Rpc) /\ rpcs # << >> /\ Head(rpcs).answer # "none"
  BY DEF QueueInv, TypeOK, Replied
<1>2. /\ Tail(rpcs) \in Seq(Rpc) /\ Head(rpcs) \in Rpc /\ Head(rpcs) = rpcs[1]
      /\ Len(rpcs) \in Nat /\ Len(rpcs) > 0 /\ DOMAIN rpcs = 1..Len(rpcs)
      /\ DOMAIN Tail(rpcs) = 1..(Len(rpcs) - 1)
      /\ \A j \in 1..(Len(rpcs) - 1) : Tail(rpcs)[j] = rpcs[j + 1]
  BY <1>1, QueueTail
<1>3. /\ 1..(Len(rpcs) - 1) \subseteq DOMAIN rpcs'
      /\ \A j \in 1..(Len(rpcs) - 1) : rpcs'[j] = rpcs[j + 1]
  <2>1. CASE rpcs' = Tail(rpcs)
    BY <1>2, <2>1
  <2>2. CASE rpcs' = TokenRedeemed
    <3> DEFINE r == [op |-> "deleteSession", connection |-> Head(rpcs).connection,
                     token |-> Head(rpcs).token, answer |-> "none"]
    <3>1. r \in Rpc /\ rpcs' = Append(Tail(rpcs), r)
      BY <1>2, <2>2 DEF Rpc, TokenRedeemed
    <3>2. Len(Tail(rpcs)) = Len(rpcs) - 1
      BY <1>1
    <3>3. /\ DOMAIN rpcs' = 1..(Len(Tail(rpcs)) + 1)
          /\ \A j \in 1..Len(Tail(rpcs)) : rpcs'[j] = Tail(rpcs)[j]
      BY <1>2, <3>1, QueueAppend
    <3>4. Len(Tail(rpcs)) + 1 = Len(rpcs)
      BY <1>2, <3>2
    <3>5. DOMAIN rpcs' = 1..Len(rpcs)
      BY <3>3, <3>4
    <3>6. \A j \in 1..(Len(rpcs) - 1) : rpcs'[j] = Tail(rpcs)[j]
      BY <3>2, <3>3
    <3>7. \A n \in Nat : 1..(n - 1) \subseteq 1..n
      OBVIOUS
    <3>. QED
      BY <1>2, <3>5, <3>6, <3>7
  <2>. QED
    BY <2>1, <2>2
<1>4. PICK i \in DOMAIN rpcs : /\ rpcs[i].op = "deleteSession"
                               /\ rpcs[i].token = t /\ rpcs[i].answer = "none"
  BY DEF Doomed
<1>5. i # 1
  BY <1>1, <1>2, <1>4
<1>6. i - 1 \in 1..(Len(rpcs) - 1) /\ rpcs'[i - 1] = rpcs[i]
  BY <1>2, <1>3, <1>5
<1>. QED
  BY <1>3, <1>4, <1>6 DEF Doomed

\* A redeemed token that is still a session is doomed as long as no link is lost.
LEMMA NextTokenSpent == QueueInv /\ TokenSpent /\ [Next]_vars => TokenSpent'
<1>. SUFFICES ASSUME QueueInv, TokenSpent, [Next]_vars,
                     NEW t \in sessions', redeemed'[t] > 0, dbFailures' = 0
              PROVE  Doomed(t)'
  BY DEF TokenSpent, Doomed
<1>1. /\ rpcs \in Seq(Rpc) /\ sessions \subseteq Tokens /\ redeemed \in [Tokens -> Nat]
      /\ dbFailures \in Nat
  BY ConstantsAssumption DEF QueueInv, TypeOK
<1>2. t \in sessions /\ t \in Tokens
  BY <1>1 DEF Next, EndOfPhase, Callback, CloseConnections, DbPolled, UdpDrained, TimeoutSweep,
         JoinSuccess, JoinRefused, SessionDeleted, DbLost, Datagram, ClientInput,
         ClientHello, Accept, DbExecutes, PumpFails, LogoutRequest, PeerCloses,
         FallsSilent, JoinMismatch, JoinRequest, SessionExpires, vars, dbVars
<1>3. ASSUME redeemed' = redeemed, dbFailures' = dbFailures PROVE Doomed(t)
  BY <1>2, <1>3 DEF TokenSpent, Doomed
<1>4. CASE JoinSuccess
  <2>1. Replied /\ rpcs' = TokenRedeemed /\ dbFailures' = dbFailures
        /\ redeemed' = [redeemed EXCEPT ![Head(rpcs).token] = @ + 1]
    BY <1>4 DEF JoinSuccess
  <2>2. CASE Head(rpcs).token = t
    <3> DEFINE r == [op |-> "deleteSession", connection |-> Head(rpcs).connection,
                     token |-> Head(rpcs).token, answer |-> "none"]
    <3>1. rpcs # << >>
      BY <2>1 DEF Replied
    <3>2. Tail(rpcs) \in Seq(Rpc) /\ Head(rpcs) \in Rpc
      BY <1>1, <3>1, QueueTail
    <3>3. r \in Rpc /\ rpcs' = Append(Tail(rpcs), r)
      BY <2>1, <3>2 DEF Rpc, TokenRedeemed
    <3>4. Len(Tail(rpcs)) + 1 \in DOMAIN rpcs' /\ rpcs'[Len(Tail(rpcs)) + 1] = r
      BY <3>2, <3>3, QueueAppend
    <3>. QED
      BY <2>2, <3>4 DEF Doomed
  <2>3. CASE Head(rpcs).token # t
    <3>1. redeemed'[t] = redeemed[t]
      BY <1>1, <1>2, <2>1, <2>3
    <3>2. Doomed(t)
      BY <1>2, <2>1, <3>1 DEF TokenSpent, Doomed
    <3>. QED
      BY <1>2, <2>1, <3>2, DoomedTail
  <2>. QED
    BY <2>2, <2>3
<1>5. CASE JoinRefused \/ SessionDeleted
  <2>1. /\ Replied /\ rpcs' = Tail(rpcs)
        /\ redeemed' = redeemed /\ dbFailures' = dbFailures
    BY <1>5 DEF JoinRefused, SessionDeleted, clientVars
  <2>. QED
    BY <1>2, <1>3, <2>1, DoomedTail
<1>6. CASE DbLost
  BY <1>1, <1>6 DEF DbLost
<1>7. CASE DbExecutes
  <2>1. redeemed' = redeemed /\ dbFailures' = dbFailures
    BY <1>7 DEF DbExecutes, clientVars
  <2>2. PICK i \in DOMAIN rpcs : /\ rpcs[i].op = "deleteSession"
                                 /\ rpcs[i].token = t /\ rpcs[i].answer = "none"
    BY <1>3, <2>1 DEF Doomed
  <2>3. PICK j \in DOMAIN rpcs :
          /\ \E w : rpcs' = [rpcs EXCEPT ![j].answer = w]
          /\ rpcs[j].op # "lookupSession" => sessions' = sessions \ {rpcs[j].token}
    BY <1>7 DEF DbExecutes
  <2>4. j # i
    BY <2>2, <2>3
  <2>5. i \in DOMAIN rpcs' /\ rpcs'[i] = rpcs[i]
    BY <1>1, <2>3, <2>4
  <2>. QED
    BY <2>2, <2>5 DEF Doomed
<1>8. CASE \E c \in Connections, u \in Tokens : JoinRequest(c, u)
  <2>1. PICK c \in Connections, u \in Tokens : JoinRequest(c, u)
    BY <1>8
  <2>2. redeemed' = redeemed /\ dbFailures' = dbFailures
    BY <2>1 DEF JoinRequest
  <2>3. /\ DOMAIN rpcs \subseteq DOMAIN rpcs'
        /\ \A i \in DOMAIN rpcs : rpcs'[i] = rpcs[i]
    <3> DEFINE r == [op |-> "lookupSession", connection |-> c, token |-> u, answer |-> "none"]
    <3>1. r \in Rpc
      BY DEF Rpc
    <3>2. rpcs' = rpcs \/ rpcs' = Append(rpcs, r)
      BY <2>1 DEF JoinRequest
    <3>. HIDE DEF r
    <3>. QED
      BY <1>1, <3>1, <3>2, QueueAppend, SMTT(30)
  <2>. QED
    BY <1>3, <2>2, <2>3 DEF Doomed
<1>9. CASE UNCHANGED <<rpcs, redeemed, dbFailures>>
  BY <1>3, <1>9 DEF Doomed
<1>10. \/ JoinSuccess \/ JoinRefused \/ SessionDeleted \/ DbLost \/ DbExecutes
       \/ (\E c \in Connections, u \in Tokens : JoinRequest(c, u))
       \/ UNCHANGED <<rpcs, redeemed, dbFailures>>
  BY DEF Next, EndOfPhase, Callback, CloseConnections, DbPolled, UdpDrained, TimeoutSweep,
         Datagram, ClientInput, ClientHello, Accept, PumpFails, LogoutRequest, PeerCloses,
         FallsSilent, JoinMismatch, SessionExpires, vars, dbVars, clientVars
<1>. QED
  BY <1>4, <1>5, <1>6, <1>7, <1>8, <1>9, <1>10

\* While the link to the database holds, a token that let someone in is on its
\* way out: its deletion is queued ahead of any lookup made after the join.
THEOREM TokenAlwaysSpent == Spec => []TokenSpent
<1>1. Init => TokenSpent
  BY DEF Init, TokenSpent
<1>. QED
  BY <1>1, NextTokenSpent, SpecQueue, PTL DEF Spec
-----------------------------------------------------------------------------
(* Clients that do not overlap: they use a connection for one join and wait  *)
(* for its answer.  What is known of the connection of a lookup under way    *)
(* is then still so when the answer comes, one turn of the loop or many      *)
(* later.                                                                    *)

\* The connection a lookup was made for is open, not on its way out, and has
\* nobody in the world.
LookupsWait ==
  \A i \in Lookups : LET c == rpcs[i].connection
                     IN  /\ c \in asked /\ c \in mConnections
                         /\ c \notin eof /\ c \notin mClosing /\ ~InWorld(c)

\* Two lookups under way differ in connection and in token.
LookupsDiffer ==
  \A i, j \in Lookups : i # j => /\ rpcs[i].connection # rpcs[j].connection
                                 /\ rpcs[i].token # rpcs[j].token

PlayersAsked == \A c \in Connections : InWorld(c) => c \in asked

\* A connection is closed for a peer that closed it or a player who fell silent.
ClosingKnown == mClosing \subseteq asked \cup eof

Orderly == /\ LookupsWait /\ LookupsDiffer /\ PlayersAsked /\ ClosingKnown
           /\ NoGhosts /\ NoPhantoms /\ ToldOwnId

\* What a callback leaves in the queue: the calls behind the first, one place
\* further up, and perhaps a deletion at the end.
LEMMA TakenFromQueue ==
  ASSUME QueueInv, Replied, rpcs' = Tail(rpcs) \/ rpcs' = TokenRedeemed
  PROVE  /\ 1 \in DOMAIN rpcs /\ Head(rpcs) = rpcs[1] /\ Head(rpcs) \in Rpc
         /\ \A i \in Lookups' : /\ i \in Nat /\ i # 0
                                /\ i + 1 \in Lookups /\ rpcs'[i] = rpcs[i + 1]
         /\ \A j \in DOMAIN rpcs : j \in Nat /\ (j # 1 =>
               j > 1 /\ j - 1 \in DOMAIN rpcs' /\ rpcs'[j - 1] = rpcs[j])
<1>1. rpcs \in Seq(Rpc) /\ rpcs # << >>
  BY DEF QueueInv, TypeOK, Replied
<1>2. /\ Tail(rpcs) \in Seq(Rpc) /\ Head(rpcs) \in Rpc /\ Head(rpcs) = rpcs[1]
      /\ Len(rpcs) \in Nat /\ Len(rpcs) > 0 /\ DOMAIN rpcs = 1..Len(rpcs)
      /\ DOMAIN Tail(rpcs) = 1..(Len(rpcs) - 1)
      /\ \A j \in 1..(Len(rpcs) - 1) : Tail(rpcs)[j] = rpcs[j + 1]
  BY <1>1, QueueTail
<1>3. /\ \A j \in 1..(Len(rpcs) - 1) : j \in DOMAIN rpcs' /\ rpcs'[j] = rpcs[j + 1]
      /\ \A j \in DOMAIN rpcs' : j \in 1..(Len(rpcs) - 1) \/ rpcs'[j].op = "deleteSession"
  <2>1. CASE rpcs' = Tail(rpcs)
    BY <1>2, <2>1
  <2>2. CASE rpcs' = TokenRedeemed
    <3> DEFINE r == [op |-> "deleteSession", connection |-> Head(rpcs).connection,
                     token |-> Head(rpcs).token, answer |-> "none"]
    <3>1. r \in Rpc /\ rpcs' = Append(Tail(rpcs), r) /\ r.op = "deleteSession"
      BY <1>2, <2>2 DEF Rpc, TokenRedeemed
    <3>2. Len(Tail(rpcs)) = Len(rpcs) - 1
      BY <1>1
    <3> HIDE DEF r
    <3>3. /\ DOMAIN rpcs' = 1..(Len(Tail(rpcs)) + 1)
          /\ \A j \in 1..Len(Tail(rpcs)) : rpcs'[j] = Tail(rpcs)[j]
          /\ rpcs'[Len(Tail(rpcs)) + 1] = r
      BY <1>2, <3>1, QueueAppend
    <3>4. DOMAIN rpcs' = 1..Len(rpcs) /\ rpcs'[Len(rpcs)] = r
      <4>1. Len(Tail(rpcs)) + 1 = Len(rpcs)
        BY <1>2, <3>2
      <4>. QED
        BY <3>3, <4>1
    <3>5. \A j \in 1..(Len(rpcs) - 1) : rpcs'[j] = rpcs[j + 1]
      BY <1>2, <3>2, <3>3
    <3>6. \A n \in Nat : /\ \A j \in 1..(n - 1) : j \in 1..n
                         /\ \A j \in 1..n : j \in 1..(n - 1) \/ j = n
      OBVIOUS
    <3>. QED
      BY <1>2, <3>1, <3>4, <3>5, <3>6
  <2>. QED
    BY <2>1, <2>2
<1>4. ASSUME NEW i \in Lookups'
      PROVE  i \in Nat /\ i # 0 /\ i + 1 \in Lookups /\ rpcs'[i] = rpcs[i + 1]
  <2>1. i \in DOMAIN rpcs' /\ rpcs'[i].op = "lookupSession"
    BY DEF Lookups
  <2>2. i \in 1..(Len(rpcs) - 1) /\ rpcs'[i] = rpcs[i + 1]
    BY <1>3, <2>1
  <2>3. i \in Nat /\ i # 0 /\ i + 1 \in 1..Len(rpcs)
    BY <1>2, <2>2
  <2>. QED
    BY <1>2, <2>1, <2>2, <2>3 DEF Lookups
<1>5. ASSUME NEW j \in DOMAIN rpcs
      PROVE  j \in Nat /\ (j # 1 => j > 1 /\ j - 1 \in DOMAIN rpcs' /\ rpcs'[j - 1] = rpcs[j])
  <2>1. j \in Nat /\ (j # 1 => j > 1 /\ j - 1 \in 1..(Len(rpcs) - 1) /\ (j - 1) + 1 = j)
    BY <1>2
  <2>. QED
    BY <1>3, <2>1
<1>6. 1 \in DOMAIN rpcs
  BY <1>2
<1>. QED
  BY <1>2, <1>4, <1>5, <1>6

\* Which connections have a player, and which, is a matter of the ids alone.
LEMMA SamePlayers ==
  ASSUME \A c \in Connections : playersByConnection'[c].playerId = playersByConnection[c].playerId
  PROVE  /\ \A c \in Connections : InWorld(c)' = InWorld(c)
         /\ \A c \in Connections, p \in PlayerIds : Owns(c, p)' = Owns(c, p)
  BY DEF InWorld, Owns

LEMMA EntryUpdated ==
  ASSUME TypeOK, NEW d \in Connections, NEW a, NEW b,
         \/ playersByConnection' = [playersByConnection EXCEPT ![d].stale = b]
         \/ playersByConnection' = [playersByConnection EXCEPT ![d].udpAddress = a, ![d].stale = b]
  PROVE  \A c \in Connections : playersByConnection'[c].playerId = playersByConnection[c].playerId
<1>1. playersByConnection \in [Connections -> Player]
  BY DEF TypeOK
<1>2. \A c \in Connections : c # d => playersByConnection'[c] = playersByConnection[c]
  BY <1>1
<1>3. playersByConnection'[d].playerId = playersByConnection[d].playerId
  BY <1>1 DEF Player
<1>. QED
  BY <1>2, <1>3

LEMMA LookupConnections ==
  ASSUME TypeOK
  PROVE  \A i \in Lookups : /\ i \in DOMAIN rpcs /\ rpcs[i] \in Rpc
                            /\ rpcs[i].connection \in Connections /\ rpcs[i].token \in Tokens
<1>1. rpcs \in Seq(Rpc)
  BY DEF TypeOK
<1>2. \A i \in DOMAIN rpcs : rpcs[i] \in Rpc
  BY <1>1
<1>3. \A r \in Rpc : r.connection \in Connections /\ r.token \in Tokens
  BY DEF Rpc
<1>. QED
  BY <1>2, <1>3 DEF Lookups

\* Steps that change neither players nor queue: connections come and go at
\* the far end, and datagrams arrive.
LEMMA SamePlayersOrderly ==
  ASSUME TypeOK, Orderly, UNCHANGED <<bodies, told>>, Lookups' = Lookups,
         \A i \in Lookups : /\ rpcs'[i].connection = rpcs[i].connection
                            /\ rpcs'[i].token = rpcs[i].token,
         \A c \in Connections : playersByConnection'[c].playerId = playersByConnection[c].playerId,
         mConnections \subseteq mConnections', asked \subseteq asked', eof \subseteq eof',
         mClosing' \subseteq mClosing \cup asked \cup eof,
         \A i \in Lookups : rpcs[i].connection \notin eof' \cup mClosing'
  PROVE  Orderly'
<1>1. /\ \A c \in Connections : InWorld(c)' = InWorld(c)
      /\ \A c \in Connections, p \in PlayerIds : Owns(c, p)' = Owns(c, p)
  BY SamePlayers
<1>2. bodies \subseteq PlayerIds /\ \A i \in Lookups : rpcs[i].connection \in Connections
  BY LookupConnections DEF TypeOK
<1>3. LookupsWait'
  BY <1>1, <1>2 DEF Orderly, LookupsWait
<1>4. LookupsDiffer'
  BY DEF Orderly, LookupsDiffer
<1>5. PlayersAsked' /\ NoGhosts'
  BY <1>1 DEF Orderly, PlayersAsked, NoGhosts
<1>6. NoPhantoms'
  BY <1>1, <1>2 DEF Orderly, NoPhantoms
<1>7. ToldOwnId'
  BY <1>1 DEF Orderly, ToldOwnId
<1>8. ClosingKnown'
  BY DEF Orderly, ClosingKnown
<1>. QED
  BY <1>3, <1>4, <1>5, <1>6, <1>7, <1>8 DEF Orderly

\* Players leave: on logout, with their connection, or for their silence.
LEMMA RemovalOrderly ==
  ASSUME TypeOK, Orderly, NEW cs \in SUBSET Connections, removePlayers(cs),
         UNCHANGED <<rpcs, asked, eof>>,
         \A c \in Connections : c \notin cs => told'[c] = told[c],
         mConnections \ (mClosing \cap cs) \subseteq mConnections',
         mClosing' \subseteq mClosing \cup {c \in Connections : InWorld(c)}
  PROVE  Orderly'
<1> DEFINE leaving == {p \in PlayerIds : \E c \in cs : Owns(c, p)}
<1>1. /\ \A c \in Connections : playersByConnection'[c] =
             IF c \in cs THEN Nobody ELSE playersByConnection[c]
      /\ bodies' = bodies \ leaving
  BY DEF removePlayers
<1>2. \A c \in Connections : /\ InWorld(c)' <=> (c \notin cs /\ InWorld(c))
                             /\ c \notin cs => \A p \in PlayerIds : Owns(c, p)' = Owns(c, p)
  BY <1>1, PlayerType DEF InWorld, Owns
<1>3. bodies \subseteq PlayerIds /\ \A i \in Lookups : rpcs[i].connection \in Connections
  BY LookupConnections DEF TypeOK
<1>4. Lookups' = Lookups
  BY DEF Lookups
<1>5. LookupsWait'
  BY <1>2, <1>3, <1>4 DEF Orderly, LookupsWait
<1>6. LookupsDiffer'
  BY <1>4 DEF Orderly, LookupsDiffer
<1>7. PlayersAsked'
  BY <1>2 DEF Orderly, PlayersAsked
<1>8. NoGhosts'
  BY <1>2 DEF Orderly, NoGhosts
<1>9. NoPhantoms'
  <2>. SUFFICES ASSUME NEW p \in bodies' PROVE \E c \in Connections : Owns(c, p)'
    BY DEF NoPhantoms
  <2>1. p \in bodies /\ p \in PlayerIds /\ p \notin leaving
    BY <1>1, <1>3
  <2>2. PICK c \in Connections : Owns(c, p)
    BY <2>1 DEF Orderly, NoPhantoms
  <2>3. c \notin cs
    BY <2>1, <2>2
  <2>. QED
    BY <1>2, <2>1, <2>2, <2>3
<1>10. ToldOwnId'
  <2>1. ASSUME NEW c \in Connections, InWorld(c)'
        PROVE  told'[c] = playersByConnection'[c].playerId
    BY <1>1, <1>2, <2>1 DEF Orderly, ToldOwnId
  <2>. QED
    BY <2>1 DEF ToldOwnId
<1>11. ClosingKnown'
  BY DEF Orderly, ClosingKnown, PlayersAsked
<1>. QED
  BY <1>5, <1>6, <1>7, <1>8, <1>9, <1>10, <1>11 DEF Orderly

\* A join request, or one that is refused at once, on a connection not yet used.
LEMMA AskOrderly ==
  ASSUME QueueInv, Orderly, ~Overlapping, NEW c \in Connections,
         JoinMismatch(c) \/ \E t \in Tokens : JoinRequest(c, t)
  PROVE  Orderly'
<1>1. /\ c \in mConnections /\ c \notin eof /\ c \notin asked /\ asked' = asked \cup {c}
      /\ UNCHANGED <<mConnections, mClosing, eof, playersByConnection, bodies>>
  BY DEF JoinMismatch, JoinRequest, Readable, FirstUse, tcpVars, playerVars
<1>2. ~InWorld(c) /\ c \notin mClosing
  BY <1>1 DEF Orderly, PlayersAsked, ClosingKnown
<1>3. TypeOK /\ rpcs \in Seq(Rpc)
  BY DEF QueueInv, TypeOK
<1>4. CASE JoinMismatch(c)
  <2>1. UNCHANGED rpcs /\ Lookups' = Lookups /\ \A d \in Connections : d # c => told'[d] = told[d]
    BY <1>3, <1>4 DEF JoinMismatch, dbVars, Lookups, TypeOK
  <2>2. \A d \in Connections : InWorld(d)' = InWorld(d)
    BY <1>1 DEF InWorld
  <2>3. LookupsWait' /\ LookupsDiffer' /\ PlayersAsked' /\ ClosingKnown' /\ NoGhosts'
    BY <1>1, <2>1, LookupConnections, <1>3 DEF Orderly, LookupsWait, LookupsDiffer,
       PlayersAsked, ClosingKnown, NoGhosts, InWorld
  <2>4. NoPhantoms'
    BY <1>1 DEF Orderly, NoPhantoms, Owns
  <2>5. ToldOwnId'
    BY <1>1, <1>2, <2>1, <2>2 DEF Orderly, ToldOwnId
  <2>. QED
    BY <2>3, <2>4, <2>5 DEF Orderly
<1>5. ASSUME NEW t \in Tokens, JoinRequest(c, t) PROVE Orderly'
  <2> DEFINE r == [op |-> "lookupSession", connection |-> c, token |-> t, answer |-> "none"]
             n == Len(rpcs) + 1
  <2>1. r \in Rpc /\ rpcs' = Append(rpcs, r) /\ UNCHANGED told /\ ~Redeeming(t)
    BY <1>2, <1>5 DEF JoinRequest, Rpc, FirstUse
  <2>2. r.connection = c /\ r.token = t
    OBVIOUS
  <2> HIDE DEF r
  <2>3. /\ Len(rpcs) \in Nat /\ DOMAIN rpcs = 1..Len(rpcs) /\ DOMAIN rpcs' = 1..n
        /\ \A i \in 1..Len(rpcs) : rpcs'[i] = rpcs[i]
        /\ rpcs'[n] = r
    BY <1>3, <2>1, QueueAppend
  <2>4. \A i \in 1..n : i \in 1..Len(rpcs) \/ i = n
    BY <2>3
  <2> HIDE DEF n
  <2>5. \A i \in Lookups' : \/ i \in Lookups /\ rpcs'[i] = rpcs[i]
                            \/ i = n /\ rpcs'[i] = r
    BY <2>3, <2>4 DEF Lookups
  <2>6. \A i \in Lookups : rpcs[i].connection # c /\ rpcs[i].token # t
    BY <1>1, <2>1 DEF Orderly, LookupsWait, Redeeming
  <2>7. LookupsWait'
    BY <1>1, <1>2, <2>2, <2>5 DEF Orderly, LookupsWait, InWorld
  <2>8. LookupsDiffer'
    BY <2>2, <2>5, <2>6 DEF Orderly, LookupsDiffer
  <2>9. PlayersAsked' /\ ClosingKnown' /\ NoGhosts'
    BY <1>1 DEF Orderly, PlayersAsked, ClosingKnown, NoGhosts, InWorld
  <2>10. NoPhantoms'
    BY <1>1 DEF Orderly, NoPhantoms, Owns
  <2>11. ToldOwnId'
    BY <1>1, <2>1 DEF Orderly, ToldOwnId, InWorld
  <2>. QED
    BY <2>7, <2>8, <2>9, <2>10, <2>11 DEF Orderly
<1>. QED
  BY <1>4, <1>5

\* The callback that lets a player in finds the connection as the lookup left it.
LEMMA JoinSuccessOrderly ==
  ASSUME QueueInv, RegistryInv, Orderly, JoinSuccess
  PROVE  Orderly'
<1> DEFINE c == Head(rpcs).connection
           n == nextPlayerId
<1>1. TypeOK /\ Replied /\ rpcs' = TokenRedeemed
  BY DEF QueueInv, JoinSuccess
<1>2. /\ 1 \in DOMAIN rpcs /\ Head(rpcs) = rpcs[1] /\ Head(rpcs) \in Rpc
      /\ \A i \in Lookups' : /\ i \in Nat /\ i # 0
                             /\ i + 1 \in Lookups /\ rpcs'[i] = rpcs[i + 1]
  BY <1>1, TakenFromQueue
<1>3. 1 \in Lookups
  BY <1>2 DEF JoinSuccess, QueueInv, AnswersFit, Lookups
<1>4. /\ c \in Connections /\ c \in asked /\ c \in mConnections /\ ~InWorld(c)
  BY <1>2, <1>3 DEF Orderly, LookupsWait, Rpc
<1>5. n \in PlayerIds /\ n # 0
  <2>1. n \in PlayerIds
    BY JoinSuccessQueue
  <2>. QED
    BY <2>1, ConstantsAssumption DEF PlayerIds
<1>6. /\ playersByConnection' = [playersByConnection EXCEPT ![c] = NewPlayer(Head(rpcs))]
      /\ bodies' = bodies \cup {n}
      /\ told' = [d \in Connections |-> IF d = c THEN n ELSE told[d]]
      /\ UNCHANGED <<mConnections, mClosing, eof, asked>>
  BY <1>4 DEF JoinSuccess, sendJoinResponse, tcpVars
<1>7. NewPlayer(Head(rpcs)).playerId = n
  BY DEF NewPlayer
<1>8. playersByConnection \in [Connections -> Player] /\ bodies \subseteq PlayerIds
  BY <1>1 DEF TypeOK
<1> HIDE DEF c, n
<1>9. /\ playersByConnection'[c].playerId = n
      /\ \A d \in Connections : d # c => playersByConnection'[d] = playersByConnection[d]
  BY <1>4, <1>6, <1>7, <1>8
<1>10. LookupsWait'
  <2>. SUFFICES ASSUME NEW i \in Lookups'
                PROVE  /\ rpcs'[i].connection \in asked' /\ rpcs'[i].connection \in mConnections'
                       /\ rpcs'[i].connection \notin eof' /\ rpcs'[i].connection \notin mClosing'
                       /\ playersByConnection'[rpcs'[i].connection].playerId = 0
    BY DEF LookupsWait, InWorld
  <2>1. i + 1 \in Lookups /\ rpcs'[i] = rpcs[i + 1] /\ i + 1 # 1
    BY <1>2
  <2>2. rpcs[i + 1].connection # c
    BY <1>2, <1>3, <2>1 DEF Orderly, LookupsDiffer, c
  <2>3. rpcs[i + 1].connection \in Connections
    BY <1>1, <2>1, LookupConnections
  <2>. QED
    BY <1>6, <1>9, <2>1, <2>2, <2>3 DEF Orderly, LookupsWait, InWorld
<1>11. LookupsDiffer'
  <2>. SUFFICES ASSUME NEW i \in Lookups', NEW j \in Lookups', i # j
                PROVE  /\ rpcs'[i].connection # rpcs'[j].connection
                       /\ rpcs'[i].token # rpcs'[j].token
    BY DEF LookupsDiffer
  <2>1. i + 1 # j + 1
    BY <1>2
  <2>. QED
    BY <1>2, <2>1 DEF Orderly, LookupsDiffer
<1>12. PlayersAsked' /\ NoGhosts'
  BY <1>4, <1>6, <1>9 DEF Orderly, PlayersAsked, NoGhosts, InWorld
<1>13. ClosingKnown'
  BY <1>6 DEF Orderly, ClosingKnown
<1>14. NoPhantoms'
  <2>1. SUFFICES \A p \in bodies' : \E d \in Connections :
                   playersByConnection'[d].playerId = p /\ p # 0
    BY DEF NoPhantoms, Owns
  <2>2. ASSUME NEW p \in bodies
        PROVE  \E d \in Connections : playersByConnection'[d].playerId = p /\ p # 0
    <3>1. PICK d \in Connections : Owns(d, p)
      BY DEF Orderly, NoPhantoms
    <3>2. d # c
      BY <1>4, <3>1 DEF Owns, InWorld
    <3>. QED
      BY <1>9, <3>1, <3>2 DEF Owns
  <2>. QED
    BY <1>4, <1>5, <1>6, <1>9, <2>2
<1>15. ToldOwnId'
  BY <1>4, <1>6, <1>9 DEF Orderly, ToldOwnId, InWorld
<1>. QED
  BY <1>10, <1>11, <1>12, <1>13, <1>14, <1>15 DEF Orderly

\* A refusal is sent on connections that have nobody in the world.
LEMMA JoinRefusedOrderly ==
  ASSUME QueueInv, Orderly, JoinRefused \/ SessionDeleted
  PROVE  Orderly'
<1>1. /\ TypeOK /\ Replied /\ rpcs' = Tail(rpcs)
      /\ UNCHANGED <<mConnections, mClosing, eof, asked, playersByConnection, bodies>>
  BY DEF QueueInv, JoinRefused, SessionDeleted, tcpVars, playerVars, clientVars
<1>2. /\ 1 \in DOMAIN rpcs /\ Head(rpcs) = rpcs[1] /\ Head(rpcs) \in Rpc
      /\ \A i \in Lookups' : /\ i \in Nat /\ i # 0
                             /\ i + 1 \in Lookups /\ rpcs'[i] = rpcs[i + 1]
  BY <1>1, TakenFromQueue
<1>3. \A d \in Connections : InWorld(d) => told'[d] = told[d]
  <2>1. CASE JoinRefused
    <3>1. 1 \in Lookups
      BY <1>2, <2>1 DEF JoinRefused, QueueInv, AnswersFit, Lookups
    <3>2. ~InWorld(Head(rpcs).connection)
      BY <1>2, <3>1 DEF Orderly, LookupsWait
    <3>. QED
      BY <2>1, <3>2 DEF JoinRefused, sendJoinResponse
  <2>2. CASE SessionDeleted
    BY <2>2 DEF SessionDeleted, clientVars
  <2>. QED
    BY <2>1, <2>2
<1>4. LookupsWait'
  BY <1>1, <1>2 DEF Orderly, LookupsWait, InWorld
<1>5. LookupsDiffer'
  <2>. SUFFICES ASSUME NEW i \in Lookups', NEW j \in Lookups', i # j
                PROVE  /\ rpcs'[i].connection # rpcs'[j].connection
                       /\ rpcs'[i].token # rpcs'[j].token
    BY DEF LookupsDiffer
  <2>1. i + 1 # j + 1
    BY <1>2
  <2>. QED
    BY <1>2, <2>1 DEF Orderly, LookupsDiffer
<1>6. PlayersAsked' /\ NoGhosts' /\ ClosingKnown'
  BY <1>1 DEF Orderly, PlayersAsked, NoGhosts, ClosingKnown, InWorld
<1>7. NoPhantoms'
  BY <1>1 DEF Orderly, NoPhantoms, Owns
<1>8. ToldOwnId'
  BY <1>1, <1>3 DEF Orderly, ToldOwnId, InWorld
<1>. QED
  BY <1>4, <1>5, <1>6, <1>7, <1>8 DEF Orderly

LEMMA DbLostOrderly ==
  ASSUME QueueInv, Orderly, DbLost
  PROVE  Orderly'
<1>1. /\ rpcs' = << >>
      /\ UNCHANGED <<mConnections, mClosing, eof, asked, playersByConnection, bodies>>
  BY DEF DbLost, tcpVars, playerVars
<1>2. Lookups' = {}
  BY <1>1 DEF Lookups
<1>3. \A d \in Connections : InWorld(d) => told'[d] = told[d]
  BY DEF DbLost, sendJoinResponse, Orderly, LookupsWait
<1>4. LookupsWait' /\ LookupsDiffer'
  BY <1>2 DEF LookupsWait, LookupsDiffer
<1>5. PlayersAsked' /\ NoGhosts' /\ ClosingKnown'
  BY <1>1 DEF Orderly, PlayersAsked, NoGhosts, ClosingKnown, InWorld
<1>6. NoPhantoms'
  BY <1>1 DEF Orderly, NoPhantoms, Owns
<1>7. ToldOwnId'
  BY <1>1, <1>3 DEF Orderly, ToldOwnId, InWorld
<1>. QED
  BY <1>4, <1>5, <1>6, <1>7 DEF Orderly

\* An answer changes no call otherwise.
LEMMA AnsweredQueue ==
  ASSUME TypeOK, DbExecutes
  PROVE  /\ DOMAIN rpcs' = DOMAIN rpcs /\ Lookups' = Lookups
         /\ \A i \in DOMAIN rpcs : /\ rpcs'[i].op = rpcs[i].op
                                   /\ rpcs'[i].connection = rpcs[i].connection
                                   /\ rpcs'[i].token = rpcs[i].token
<1>1. PICK k \in DOMAIN rpcs, w \in {"found", "missing", "done"} :
        rpcs' = [rpcs EXCEPT ![k].answer = w]
  BY DEF DbExecutes
<1>2. rpcs \in Seq(Rpc)
  BY DEF TypeOK
<1>3. \A i \in DOMAIN rpcs : rpcs[i] \in Rpc
  BY <1>2
<1>4. DOMAIN rpcs' = DOMAIN rpcs /\ \A i \in DOMAIN rpcs : i # k => rpcs'[i] = rpcs[i]
  BY <1>1, <1>2
<1>5. rpcs'[k] = [rpcs[k] EXCEPT !.answer = w]
  BY <1>1, <1>2
<1>6. /\ rpcs'[k].op = rpcs[k].op /\ rpcs'[k].connection = rpcs[k].connection
      /\ rpcs'[k].token = rpcs[k].token
  BY <1>3, <1>5 DEF Rpc
<1>. QED
  BY <1>4, <1>6 DEF Lookups

LEMMA InitOrderly == Init => Orderly
<1>. SUFFICES ASSUME Init PROVE Orderly
  OBVIOUS
<1>1. Lookups = {}
  BY DEF Init, Lookups
<1>2. \A c \in Connections : ~InWorld(c)
  BY PlayerType DEF Init, InWorld
<1>. QED
  BY <1>1, <1>2 DEF Init, Orderly, LookupsWait, LookupsDiffer, PlayersAsked, ClosingKnown,
                    NoGhosts, NoPhantoms, ToldOwnId

LEMMA NextOrderly ==
  ~Overlapping /\ QueueInv /\ RegistryInv /\ Orderly /\ [Next]_vars => Orderly'
<1>. SUFFICES ASSUME ~Overlapping, QueueInv, RegistryInv, Orderly, [Next]_vars PROVE Orderly'
  OBVIOUS
<1>1. TypeOK
  BY DEF QueueInv
<1>2. CASE CloseConnections
  <2>1. mClosing \cap mConnections \in SUBSET Connections
    BY <1>1 DEF TypeOK
  <2>2. /\ removePlayers(mClosing \cap mConnections) /\ UNCHANGED <<rpcs, asked, eof, told>>
        /\ mConnections' = mConnections \ mClosing /\ mClosing' = {}
    BY <1>2 DEF CloseConnections, dbVars, clientVars
  <2>. QED
    BY <1>1, <2>1, <2>2, RemovalOrderly
<1>3. CASE TimeoutSweep
  <2>1. TimedOut \in SUBSET Connections /\ \A c \in TimedOut : InWorld(c)
    BY DEF TimedOut
  <2>2. /\ removePlayers(TimedOut) /\ UNCHANGED <<rpcs, asked, eof, told, mConnections>>
        /\ mClosing' = mClosing \cup TimedOut
    BY <1>3 DEF TimeoutSweep, dbVars, clientVars
  <2>. QED
    BY <1>1, <2>1, <2>2, RemovalOrderly
<1>4. ASSUME NEW c \in Connections, LogoutRequest(c) PROVE Orderly'
  <2>1. /\ removePlayers({c}) /\ UNCHANGED <<rpcs, asked, eof, mConnections, mClosing>>
        /\ told' = [told EXCEPT ![c] = 0]
    BY <1>4 DEF LogoutRequest, dbVars, tcpVars
  <2>2. {c} \in SUBSET Connections /\ \A d \in Connections : d \notin {c} => told'[d] = told[d]
    BY <1>1, <2>1 DEF TypeOK
  <2>. QED
    BY <1>1, <2>1, <2>2, RemovalOrderly
<1>5. ASSUME NEW c \in Connections, JoinMismatch(c) \/ \E t \in Tokens : JoinRequest(c, t)
      PROVE  Orderly'
  BY <1>5, AskOrderly
<1>6. CASE Callback
  BY <1>6, JoinSuccessOrderly, JoinRefusedOrderly DEF Callback
<1>7. CASE DbLost
  BY <1>7, DbLostOrderly
<1>8. ASSUME NEW a \in Addresses, NEW p \in PlayerIds,
             ClientInput(p, a) \/ \E t \in Tokens : ClientHello(p, t, a)
      PROVE  \A c \in Connections : playersByConnection'[c].playerId = playersByConnection[c].playerId
  <2>1. CASE ClientInput(p, a)
    BY <1>1, <2>1, EntryUpdated DEF ClientInput
  <2>2. CASE \E t \in Tokens : ClientHello(p, t, a)
    <3>1. connectionByPlayer[p] \in Connections
      BY <1>1, <2>2, ConstantsAssumption DEF TypeOK, ClientHello, Connections
    <3>. QED
      BY <1>1, <2>2, <3>1, EntryUpdated DEF ClientHello
  <2>. QED
    BY <1>8, <2>1, <2>2
<1>9. ASSUME NEW c \in Connections, PeerCloses(c)
      PROVE  \A i \in Lookups : rpcs[i].connection \notin eof'
  BY <1>9 DEF PeerCloses, Waits, Joining, Orderly, LookupsWait
<1>10. ASSUME NEW c \in Connections, PumpFails(c)
       PROVE  /\ \A i \in Lookups : rpcs[i].connection \notin mClosing'
              /\ mClosing' \subseteq mClosing \cup eof
  BY <1>10 DEF PumpFails, Orderly, LookupsWait
<1>11. \A i \in Lookups : rpcs[i].connection \notin eof \cup mClosing
  BY DEF Orderly, LookupsWait
<1>12. CASE Datagram \/ \E c \in Connections : FallsSilent(c)
  <2>1. /\ UNCHANGED <<bodies, told, rpcs, mConnections, mClosing, eof, asked>>
    BY <1>12 DEF Datagram, ClientInput, ClientHello, FallsSilent, tcpVars, dbVars, clientVars
  <2>2. \A c \in Connections : playersByConnection'[c].playerId = playersByConnection[c].playerId
    BY <1>1, <1>8, <1>12, EntryUpdated DEF Datagram, FallsSilent
  <2>3. Lookups' = Lookups
    BY <2>1 DEF Lookups
  <2>. QED
    BY <1>1, <1>11, <2>1, <2>2, <2>3, SamePlayersOrderly
<1>13. CASE DbExecutes
  <2>1. /\ UNCHANGED <<bodies, told, playersByConnection, mConnections, mClosing, eof, asked>>
    BY <1>13 DEF DbExecutes, tcpVars, playerVars, clientVars
  <2>2. /\ Lookups' = Lookups
        /\ \A i \in Lookups : /\ rpcs'[i].connection = rpcs[i].connection
                               /\ rpcs'[i].token = rpcs[i].token
    BY <1>1, <1>13, AnsweredQueue DEF Lookups
  <2>. QED
    BY <1>1, <1>11, <2>1, <2>2, SamePlayersOrderly
<1>14. CASE \/ UNCHANGED vars \/ Accept \/ DbPolled \/ UdpDrained
            \/ (\E t \in Tokens : SessionExpires(t))
            \/ (\E c \in Connections : PumpFails(c) \/ PeerCloses(c))
  <2>1. UNCHANGED <<bodies, told, playersByConnection, rpcs, asked>>
    BY <1>14 DEF vars, Accept, DbPolled, UdpDrained, SessionExpires, PumpFails, PeerCloses,
                 playerVars, dbVars, clientVars
  <2>2. /\ mConnections \subseteq mConnections' /\ eof \subseteq eof'
        /\ mClosing' \subseteq mClosing \cup eof
    BY <1>10, <1>14 DEF vars, Accept, DbPolled, UdpDrained, SessionExpires, PumpFails, PeerCloses,
                 tcpVars
  <2>3. \A i \in Lookups : rpcs[i].connection \notin eof' \cup mClosing'
    BY <1>9, <1>10, <1>11, <1>14 DEF vars, Accept, DbPolled, UdpDrained, SessionExpires,
       PumpFails, PeerCloses, tcpVars
  <2>4. Lookups' = Lookups
    BY <2>1 DEF Lookups
  <2>. QED
    BY <1>1, <2>1, <2>2, <2>3, <2>4, SamePlayersOrderly
<1>. QED
  BY <1>2, <1>3, <1>4, <1>5, <1>6, <1>7, <1>12, <1>13, <1>14 DEF Next, EndOfPhase

LEMMA SpecOrderly == ASSUME ~Overlapping PROVE Spec => []Orderly
  BY InitOrderly, NextOrderly, SpecQueue, SpecRegistry, PTL DEF Spec

\* Nobody is in the world without a connection, when no client overlaps.
THEOREM OrderlyClientsLeaveNoGhosts == ASSUME ~Overlapping PROVE Spec => []NoGhosts
<1>1. Orderly => NoGhosts
  BY DEF Orderly
<1>. QED
  BY <1>1, SpecOrderly, PTL

\* Every body is some connection's player, when no client overlaps.
THEOREM OrderlyClientsLeaveNoPhantoms == ASSUME ~Overlapping PROVE Spec => []NoPhantoms
<1>1. Orderly => NoPhantoms
  BY DEF Orderly
<1>. QED
  BY <1>1, SpecOrderly, PTL

\* A client plays the id it was last told, when no client overlaps.
THEOREM OrderlyClientsKnowTheirId == ASSUME ~Overlapping PROVE Spec => []ToldOwnId
<1>1. Orderly => ToldOwnId
  BY DEF Orderly
<1>. QED
  BY <1>1, SpecOrderly, PTL
-----------------------------------------------------------------------------
(* One-time redemption, again for clients that do not overlap: the queue is  *)
(* executed in order, so a lookup made after a join finds the session gone.  *)

Deletes(j, t) == /\ rpcs[j].op = "deleteSession" /\ rpcs[j].token = t
                 /\ rpcs[j].answer = "none"

\* The lookups of a token that has let someone in will not find its session.
TooLate(t) ==
  \A i \in Lookups : rpcs[i].token = t =>
    /\ rpcs[i].answer # "found"
    /\ rpcs[i].answer = "none" => \/ t \notin sessions
                                  \/ \E j \in DOMAIN rpcs : j < i /\ Deletes(j, t)

RedemptionInv ==
  dbFailures = 0 => \A t \in Tokens : redeemed[t] <= 1 /\ (redeemed[t] > 0 => TooLate(t))

\* Answered calls leave the queue, and deletions join it at its end.
LEMMA TakenTooLate ==
  ASSUME QueueInv, Replied, rpcs' = Tail(rpcs) \/ rpcs' = TokenRedeemed,
         UNCHANGED sessions, NEW t \in Tokens, TooLate(t)
  PROVE  TooLate(t)'
<1>1. /\ 1 \in DOMAIN rpcs /\ Head(rpcs) = rpcs[1]
      /\ \A i \in Lookups' : /\ i \in Nat /\ i # 0
                             /\ i + 1 \in Lookups /\ rpcs'[i] = rpcs[i + 1]
      /\ \A j \in DOMAIN rpcs : j \in Nat /\ (j # 1 =>
            j > 1 /\ j - 1 \in DOMAIN rpcs' /\ rpcs'[j - 1] = rpcs[j])
  BY TakenFromQueue
<1>. SUFFICES ASSUME NEW i \in Lookups', rpcs'[i].token = t
              PROVE  /\ rpcs'[i].answer # "found"
                     /\ rpcs'[i].answer = "none" => \/ t \notin sessions'
                                                    \/ \E j \in DOMAIN rpcs' : j < i /\ Deletes(j, t)'
  BY DEF TooLate
<1>2. i \in Nat /\ i + 1 \in Lookups /\ rpcs'[i] = rpcs[i + 1]
  BY <1>1
<1>3. ASSUME NEW j \in DOMAIN rpcs, j < i + 1, Deletes(j, t)
      PROVE  \E k \in DOMAIN rpcs' : k < i /\ Deletes(k, t)'
  <2>1. j # 1
    BY <1>1, <1>3 DEF Replied, Deletes
  <2>2. j - 1 \in DOMAIN rpcs' /\ rpcs'[j - 1] = rpcs[j] /\ j \in Nat
    BY <1>1, <2>1
  <2>3. j - 1 < i
    BY <1>2, <1>3, <2>2
  <2>. QED
    BY <1>3, <2>2, <2>3 DEF Deletes
<1>. QED
  BY <1>2, <1>3 DEF TooLate

\* The database executes the first call it has not answered.
LEMMA ExecutedTooLate ==
  ASSUME TypeOK, DbExecutes, NEW t \in Tokens, TooLate(t)
  PROVE  TooLate(t)'
<1>1. PICK k \in DOMAIN rpcs :
        /\ rpcs[k].answer = "none"
        /\ \A j \in 1..(k - 1) : rpcs[j].answer # "none"
        /\ IF rpcs[k].op = "lookupSession"
           THEN /\ rpcs' = [rpcs EXCEPT ![k].answer =
                              IF rpcs[k].token \in sessions THEN "found" ELSE "missing"]
                /\ UNCHANGED sessions
           ELSE /\ rpcs' = [rpcs EXCEPT ![k].answer = "done"]
                /\ sessions' = sessions \ {rpcs[k].token}
  BY DEF DbExecutes
<1>2. rpcs \in Seq(Rpc)
  BY DEF TypeOK
<1>3. DOMAIN rpcs = 1..Len(rpcs) /\ Len(rpcs) \in Nat /\ \A i \in DOMAIN rpcs : rpcs[i] \in Rpc
  BY <1>2
<1>4. /\ DOMAIN rpcs' = DOMAIN rpcs /\ Lookups' = Lookups
      /\ \A i \in DOMAIN rpcs : rpcs'[i].op = rpcs[i].op /\ rpcs'[i].token = rpcs[i].token
      /\ \A i \in DOMAIN rpcs : i # k => rpcs'[i] = rpcs[i]
  BY <1>1, <1>2, AnsweredQueue
<1>5. /\ rpcs[k].op = "lookupSession" =>
             rpcs'[k].answer = IF rpcs[k].token \in sessions THEN "found" ELSE "missing"
      /\ sessions' \subseteq sessions
  BY <1>1, <1>3 DEF Rpc
<1>. SUFFICES ASSUME NEW i \in Lookups, rpcs[i].token = t
              PROVE  /\ rpcs'[i].answer # "found"
                     /\ rpcs'[i].answer = "none" => \/ t \notin sessions'
                                                    \/ \E j \in DOMAIN rpcs' : j < i /\ Deletes(j, t)'
  BY <1>4 DEF TooLate, Lookups
<1>6. i \in DOMAIN rpcs /\ rpcs[i].op = "lookupSession"
  BY DEF Lookups
<1>7. CASE i = k
  <2>1. ASSUME NEW j \in DOMAIN rpcs, j < k, Deletes(j, t) PROVE FALSE
    <3>1. j \in 1..(k - 1)
      BY <1>3, <2>1
    <3>. QED
      BY <1>1, <2>1, <3>1 DEF Deletes
  <2>2. t \notin sessions
    BY <1>1, <1>7, <2>1 DEF TooLate
  <2>. QED
    BY <1>5, <1>6, <1>7, <2>2
<1>8. CASE i # k
  <2>1. rpcs'[i] = rpcs[i]
    BY <1>4, <1>6, <1>8
  <2>2. ASSUME NEW j \in DOMAIN rpcs, j < i, Deletes(j, t)
        PROVE  t \notin sessions' \/ \E m \in DOMAIN rpcs' : m < i /\ Deletes(m, t)'
    <3>1. CASE j = k
      BY <1>1, <2>2, <3>1 DEF Deletes
    <3>2. CASE j # k
      BY <1>4, <2>2, <3>2 DEF Deletes
    <3>. QED
      BY <3>1, <3>2
  <2>. QED
    BY <1>5, <2>1, <2>2 DEF TooLate
<1>. QED
  BY <1>7, <1>8

\* A lookup joins the queue behind the deletion it must not overtake.
LEMMA AskedTooLate ==
  ASSUME QueueInv, TokenSpent, NEW c \in Connections, NEW u \in Tokens, JoinRequest(c, u),
         NEW t \in Tokens, redeemed[t] > 0, dbFailures = 0, TooLate(t)
  PROVE  TooLate(t)'
<1> DEFINE r == [op |-> "lookupSession", connection |-> c, token |-> u, answer |-> "none"]
           n == Len(rpcs) + 1
<1>1. /\ rpcs \in Seq(Rpc) /\ UNCHANGED sessions
      /\ r \in Rpc /\ (rpcs' = rpcs \/ rpcs' = Append(rpcs, r))
  BY DEF QueueInv, TypeOK, JoinRequest, Rpc
<1>2. r.answer = "none"
  OBVIOUS
<1> HIDE DEF r
<1>3. CASE rpcs' = rpcs
  BY <1>1, <1>3 DEF TooLate, Lookups, Deletes
<1>4. CASE rpcs' = Append(rpcs, r)
  <2>1. /\ Len(rpcs) \in Nat /\ DOMAIN rpcs = 1..Len(rpcs) /\ DOMAIN rpcs' = 1..n
        /\ \A i \in 1..Len(rpcs) : rpcs'[i] = rpcs[i]
        /\ rpcs'[n] = r
    BY <1>1, <1>4, QueueAppend
  <2>2. \A i \in 1..n : i \in 1..Len(rpcs) \/ i = n
    BY <2>1
  <2>3. \A i \in 1..Len(rpcs) : i \in 1..n /\ i < n
    BY <2>1
  <2> HIDE DEF n
  <2>4. \A j \in DOMAIN rpcs : Deletes(j, t) => j \in DOMAIN rpcs' /\ Deletes(j, t)' /\ j < n
    BY <2>1, <2>3 DEF Deletes
  <2>. SUFFICES ASSUME NEW i \in Lookups', rpcs'[i].token = t
                PROVE  /\ rpcs'[i].answer # "found"
                       /\ rpcs'[i].answer = "none" => \/ t \notin sessions'
                                                      \/ \E j \in DOMAIN rpcs' : j < i /\ Deletes(j, t)'
    BY DEF TooLate
  <2>5. i \in DOMAIN rpcs' /\ rpcs'[i].op = "lookupSession"
    BY DEF Lookups
  <2>6. CASE i \in 1..Len(rpcs)
    <3>1. i \in Lookups /\ rpcs'[i] = rpcs[i]
      BY <2>1, <2>5, <2>6 DEF Lookups
    <3>. QED
      BY <1>1, <2>4, <3>1 DEF TooLate
  <2>7. CASE i = n
    <3>1. t \in sessions => \E j \in DOMAIN rpcs : Deletes(j, t)
      BY DEF TokenSpent, Deletes
    <3>. QED
      BY <1>1, <1>2, <2>1, <2>4, <2>7, <3>1
  <2>. QED
    BY <2>1, <2>2, <2>5, <2>6, <2>7
<1>. QED
  BY <1>1, <1>3, <1>4

LEMMA NextRedemption ==
  QueueInv /\ TokenSpent /\ Orderly /\ RedemptionInv /\ [Next]_vars => RedemptionInv'
<1>. SUFFICES ASSUME QueueInv, TokenSpent, Orderly, RedemptionInv, [Next]_vars,
                     dbFailures' = 0, NEW t \in Tokens
              PROVE  redeemed'[t] <= 1 /\ (redeemed'[t] > 0 => TooLate(t)')
  BY DEF RedemptionInv
<1>1. /\ TypeOK /\ rpcs \in Seq(Rpc) /\ redeemed \in [Tokens -> Nat] /\ redeemed[t] \in Nat
      /\ dbFailures \in Nat
  BY ConstantsAssumption DEF QueueInv, TypeOK
<1>2. CASE DbLost
  BY <1>1, <1>2 DEF DbLost
<1>3. CASE JoinSuccess
  <2>1. /\ Replied /\ rpcs' = TokenRedeemed /\ UNCHANGED <<dbFailures, sessions>>
        /\ redeemed' = [redeemed EXCEPT ![Head(rpcs).token] = @ + 1]
        /\ Head(rpcs).answer = "found"
    BY <1>3 DEF JoinSuccess
  <2>2. /\ 1 \in DOMAIN rpcs /\ Head(rpcs) = rpcs[1] /\ Head(rpcs) \in Rpc
        /\ \A i \in Lookups' : /\ i \in Nat /\ i # 0
                               /\ i + 1 \in Lookups /\ rpcs'[i] = rpcs[i + 1]
    BY <2>1, TakenFromQueue
  <2>3. 1 \in Lookups
    BY <2>1, <2>2 DEF QueueInv, AnswersFit, Lookups
  <2>4. CASE Head(rpcs).token = t
    <3>1. ~(redeemed[t] > 0)
      BY <2>1, <2>2, <2>3, <2>4 DEF RedemptionInv, TooLate
    <3>2. redeemed'[t] = 1
      <4>1. redeemed'[t] = redeemed[t] + 1
        BY <1>1, <2>1, <2>4
      <4>. QED
        BY <1>1, <3>1, <4>1
    <3>3. ASSUME NEW i \in Lookups' PROVE rpcs'[i].token # t
      <4>1. i + 1 \in Lookups /\ i + 1 # 1 /\ rpcs'[i] = rpcs[i + 1]
        BY <2>2
      <4>. QED
        BY <2>2, <2>3, <2>4, <4>1 DEF Orderly, LookupsDiffer
    <3>. QED
      BY <3>2, <3>3 DEF TooLate
  <2>5. CASE Head(rpcs).token # t
    <3>1. redeemed'[t] = redeemed[t]
      BY <1>1, <2>1, <2>5
    <3>. QED
      BY <2>1, <3>1, TakenTooLate DEF RedemptionInv
  <2>. QED
    BY <2>4, <2>5
<1>4. CASE JoinRefused \/ SessionDeleted
  <2>1. /\ Replied /\ rpcs' = Tail(rpcs) /\ UNCHANGED <<dbFailures, sessions, redeemed>>
    BY <1>4 DEF JoinRefused, SessionDeleted, clientVars
  <2>. QED
    BY <2>1, TakenTooLate DEF RedemptionInv
<1>5. CASE DbExecutes
  <2>1. UNCHANGED <<dbFailures, redeemed>>
    BY <1>5 DEF DbExecutes, clientVars
  <2>. QED
    BY <1>1, <1>5, <2>1, ExecutedTooLate DEF RedemptionInv
<1>6. ASSUME NEW c \in Connections, NEW u \in Tokens, JoinRequest(c, u)
      PROVE  redeemed'[t] <= 1 /\ (redeemed'[t] > 0 => TooLate(t)')
  <2>1. UNCHANGED <<dbFailures, redeemed>>
    BY <1>6 DEF JoinRequest
  <2>. QED
    BY <1>6, <2>1, AskedTooLate DEF RedemptionInv
<1>7. CASE UNCHANGED <<rpcs, redeemed, dbFailures>> /\ sessions' \subseteq sessions
  <2>1. TooLate(t) => TooLate(t)'
    BY <1>7 DEF TooLate, Lookups, Deletes
  <2>. QED
    BY <1>7, <2>1 DEF RedemptionInv
<1>8. \/ JoinSuccess \/ JoinRefused \/ SessionDeleted \/ DbLost \/ DbExecutes
      \/ (\E c \in Connections, u \in Tokens : JoinRequest(c, u))
      \/ UNCHANGED <<rpcs, redeemed, dbFailures>> /\ sessions' \subseteq sessions
  BY DEF Next, EndOfPhase, Callback, CloseConnections, DbPolled, UdpDrained, TimeoutSweep,
         Datagram, ClientInput, ClientHello, Accept, PumpFails, LogoutRequest, PeerCloses,
         FallsSilent, JoinMismatch, SessionExpires, vars, dbVars, clientVars
<1>. QED
  BY <1>2, <1>3, <1>4, <1>5, <1>6, <1>7, <1>8

\* A token lets at most one player in as long as the database link holds, when
\* no client overlaps.
THEOREM OrderlyTokensRedeemedOnce == ASSUME ~Overlapping PROVE Spec => []RedeemedOnceWhileLinked
<1>1. Init => RedemptionInv
  BY DEF Init, RedemptionInv
<1>2. RedemptionInv => RedeemedOnceWhileLinked
  BY DEF RedemptionInv, RedeemedOnceWhileLinked, RedeemedOnce
<1>3. Spec => []RedemptionInv
  BY <1>1, NextRedemption, SpecQueue, TokenAlwaysSpent, SpecOrderly, PTL DEF Spec
<1>. QED
  BY <1>2, <1>3, PTL
=============================================================================
