-------------------------- MODULE SimulationProofs --------------------------
(***************************************************************************)
(* Proofs about the world server's clock and the snapshots it sends:       *)
(* WorldClock, for any length of the day, any bounds and any commands, and *)
(* Replication, for any size of a byte and of the client's buffer, any     *)
(* number of players and datagrams, and any order of delivery.             *)
(*                                                                         *)
(* The clock: the anchor determines two readings, the one at asOf, which   *)
(* mTimeOfDay holds, and the one now, which with what was lost is the      *)
(* exact time.  Re-anchoring keeps both if what lies between them is       *)
(* booked as lost.  All of it is arithmetic modulo Day.                    *)
(*                                                                         *)
(* The snapshots: what was encoded is decoded, however long the snapshot,  *)
(* or it is refused, because a snapshot that was cut off has fewer bytes   *)
(* left than its count of entities asks for.  Everything on its way is the *)
(* datagram of a tick and carries its number, so what is applied is the    *)
(* whole of that tick's world.  That it is no older than what was shown    *)
(* follows from the numbers, and with the client's delay, from the order   *)
(* of all that is under way.                                               *)
(***************************************************************************)
EXTENDS WorldClock, Replication, WellFoundedInduction, TLAPS

-----------------------------------------------------------------------------
(* The clock.                                                              *)

\* What the anchor says the time of day is at the real time t, before wrapping.
Elapsed(c, t) == c.mAnchorTimeOfDay + (t - c.mAnchorRealSeconds) * c.mTimeSpeed

\* The reading the clock holds is the anchor's as of the time it was computed.
ReadingIsAnchored ==
  /\ clock.mAnchorRealSeconds <= asOf
  /\ clock.mTimeOfDay = Elapsed(clock, asOf) % Day

\* The exact time is what the anchor says now, and what was lost.
ExactIsAnchored == exact = (Elapsed(clock, now) + lost) % Day

IInv == TypeOK /\ ReadingIsAnchored /\ ExactIsAnchored
-----------------------------------------------------------------------------
(* Arithmetic modulo a day.                                                *)

LEMMA Division ==
  ASSUME NEW a \in Int, NEW d \in Nat \ {0}
  PROVE  /\ a % d \in 0..(d - 1)
         /\ a \div d \in Int
         /\ a = (a \div d) * d + (a % d)
  OBVIOUS

LEMMA NoMultipleBetween ==
  ASSUME NEW k \in Int, NEW d \in Nat \ {0}, k * d < d, k * d > -d
  PROVE  k = 0
  OBVIOUS

\* A number has one remainder.
LEMMA RemainderUnique ==
  ASSUME NEW a \in Int, NEW d \in Nat \ {0}, NEW q \in Int, NEW r \in 0..(d - 1),
         a = q * d + r
  PROVE  a % d = r
<1>. DEFINE k == q - (a \div d)
<1>1. /\ a = (a \div d) * d + (a % d)
      /\ a % d \in 0..(d - 1)
      /\ a \div d \in Int
  BY Division
<1>2. k * d = (a % d) - r /\ k \in Int
  BY <1>1
<1>3. k * d < d /\ k * d > -d
  BY <1>1, <1>2
<1>. HIDE DEF k
<1>4. k = 0
  BY <1>2, <1>3, NoMultipleBetween
<1>. QED
  BY <1>1, <1>2, <1>4

\* A number below d is its own remainder.
LEMMA RemainderOfSmall ==
  ASSUME NEW d \in Nat \ {0}, NEW r \in 0..(d - 1)
  PROVE  r % d = r
  BY RemainderUnique, r = 0 * d + r

\* Wrapping a summand first changes nothing.
LEMMA RemainderOfSum ==
  ASSUME NEW a \in Int, NEW b \in Int, NEW d \in Nat \ {0}
  PROVE  ((a % d) + b) % d = (a + b) % d
<1>. DEFINE qa == a \div d
            q == (a + b) \div d
            r == (a + b) % d
<1>1. a = qa * d + (a % d) /\ qa \in Int /\ a % d \in Int
  BY Division
<1>2. a + b \in Int
  OBVIOUS
<1>3. a + b = q * d + r /\ q \in Int /\ r \in 0..(d - 1)
  BY <1>2, Division
<1>. HIDE DEF q, qa, r
<1>4. (a % d) + b = (q - qa) * d + r
  BY <1>1, <1>3
<1>5. (a % d) + b \in Int /\ q - qa \in Int
  BY <1>1, <1>3
<1>6. ((a % d) + b) % d = r
  BY <1>3, <1>4, <1>5, RemainderUnique
<1>. QED
  BY <1>6 DEF r
-----------------------------------------------------------------------------
(* The clock.                                                              *)

LEMMA OneMoreUnit ==
  ASSUME NEW a \in Int, NEW t \in Int, NEW x \in Int, NEW v \in Int, NEW l \in Int
  PROVE  ((a + (t - x) * v) + l) + v = (a + ((t + 1) - x) * v) + l
  OBVIOUS

LEMMA SplitSpan ==
  ASSUME NEW a \in Int, NEW t \in Int, NEW u \in Int, NEW x \in Int, NEW v \in Int
  PROVE  a + (t - x) * v = (a + (u - x) * v) + (t - u) * v
<1>1. (t - x) * v = ((u - x) + (t - u)) * v
  OBVIOUS
<1>2. ((u - x) + (t - u)) * v = (u - x) * v + (t - u) * v
  OBVIOUS
<1>. QED
  BY <1>1, <1>2

LEMMA ElapsedInt ==
  ASSUME NEW c \in Clock, NEW t \in Int
  PROVE  Elapsed(c, t) \in Int
  BY ClockAssumption DEF Clock, TimeOfDay, Elapsed

\* A clock re-anchored now has its reading at the anchor.
LEMMA ElapsedAtAnchor ==
  ASSUME NEW c \in Clock, c.mAnchorRealSeconds = now, c.mAnchorTimeOfDay = c.mTimeOfDay,
         now \in Nat
  PROVE  Elapsed(c, now) = c.mTimeOfDay
<1>1. /\ c.mTimeOfDay \in Int
      /\ c.mTimeSpeed \in Int
  BY ClockAssumption DEF Clock, TimeOfDay
<1>2. (now - now) * c.mTimeSpeed = 0
  BY <1>1
<1>. QED
  BY <1>1, <1>2 DEF Elapsed

\* Putting the clock to a time, anchored there, re-establishes the invariant.
LEMMA PutKeepsIInv ==
  ASSUME IInv, NEW c \in Clock, Put(c), UNCHANGED now,
         c.mAnchorRealSeconds = now, c.mAnchorTimeOfDay = c.mTimeOfDay,
         pending' \in Seq(Command), Len(pending') <= MaxPending
  PROVE  IInv'
<1>. USE ClockAssumption
<1>1. /\ clock' = c /\ asOf' = now /\ now' = now /\ lost' = 0 /\ exact' = c.mTimeOfDay
      /\ commanded' = TRUE /\ simulatedLatencyMs' = simulatedLatencyMs
  BY DEF Put
<1>2. now \in 0..MaxNow /\ c.mTimeOfDay \in 0..(Day - 1)
  BY DEF IInv, TypeOK, Clock, TimeOfDay
<1>3. TypeOK'
  BY <1>1, <1>2 DEF IInv, TypeOK, TimeOfDay
<1>4. Elapsed(c, now) = c.mTimeOfDay
  BY <1>2, ElapsedAtAnchor
<1>5. c.mTimeOfDay % Day = c.mTimeOfDay
  BY <1>2, RemainderOfSmall
<1>6. ReadingIsAnchored'
  BY <1>1, <1>2, <1>4, <1>5 DEF ReadingIsAnchored, Elapsed
<1>7. ExactIsAnchored'
  BY <1>1, <1>2, <1>4, <1>5, SMTT(30) DEF ExactIsAnchored, Elapsed
<1>. QED
  BY <1>3, <1>6, <1>7 DEF IInv

\* A change of speed books the time since the last reading as lost.
LEMMA ChangeSpeedKeepsIInv ==
  ASSUME IInv, NEW speed \in 0..kMaxSpeed, ChangeSpeed(speed), UNCHANGED now,
         pending' \in Seq(Command), Len(pending') <= MaxPending
  PROVE  IInv'
<1>. USE ClockAssumption
<1>. DEFINE since == (now - asOf) * clock.mTimeSpeed
<1>1. /\ clock' = [[clock EXCEPT !.mAnchorTimeOfDay = clock.mTimeOfDay, !.mAnchorRealSeconds = now]
                     EXCEPT !.mTimeSpeed = speed]
      /\ lost' = (lost + since) % Day
      /\ asOf' = now /\ commanded' = TRUE /\ now' = now
      /\ exact' = exact /\ simulatedLatencyMs' = simulatedLatencyMs
  BY DEF ChangeSpeed, setTimeSpeed, reanchor
<1>2. /\ now \in 0..MaxNow /\ clock \in Clock /\ asOf \in 0..now /\ lost \in 0..(Day - 1)
      /\ exact \in 0..(Day - 1)
  BY DEF IInv, TypeOK, TimeOfDay
<1>3. /\ clock.mTimeOfDay \in 0..(Day - 1) /\ clock.mTimeSpeed \in 0..kMaxSpeed
      /\ clock.mAnchorTimeOfDay \in 0..(Day - 1) /\ clock.mAnchorRealSeconds \in 0..MaxNow
  BY <1>2 DEF Clock, TimeOfDay
<1>4. since \in Int /\ lost + since \in Int
  BY <1>2, <1>3
<1>5. /\ clock' \in Clock
      /\ clock'.mTimeOfDay = clock.mTimeOfDay
      /\ clock'.mAnchorTimeOfDay = clock.mTimeOfDay
      /\ clock'.mAnchorRealSeconds = now
  BY <1>1, <1>2, <1>3 DEF Clock, TimeOfDay
<1>6. lost' \in 0..(Day - 1)
  BY <1>1, <1>4, Division
<1>7. TypeOK'
  BY <1>1, <1>2, <1>5, <1>6 DEF IInv, TypeOK, TimeOfDay
<1>8. Elapsed(clock', now) = clock.mTimeOfDay
  BY <1>2, <1>5, ElapsedAtAnchor
<1>9. ReadingIsAnchored'
  <2>1. clock.mTimeOfDay % Day = clock.mTimeOfDay
    BY <1>3, RemainderOfSmall
  <2>. QED
    BY <1>1, <1>2, <1>5, <1>8, <2>1 DEF ReadingIsAnchored, Elapsed
<1>10. ExactIsAnchored'
  <2>. DEFINE then == Elapsed(clock, asOf)
              m == clock.mTimeOfDay
  <2>1. then \in Int /\ m = then % Day
    BY <1>2, ElapsedInt DEF IInv, ReadingIsAnchored
  <2>2. Elapsed(clock, now) = then + since
    <3>. DEFINE a == clock.mAnchorTimeOfDay
                x == clock.mAnchorRealSeconds
                v == clock.mTimeSpeed
    <3>1. a \in Int /\ x \in Int /\ v \in Int /\ now \in Int /\ asOf \in Int
      BY <1>2, <1>3
    <3>. HIDE DEF a, x, v
    <3>2. a + (now - x) * v = (a + (asOf - x) * v) + (now - asOf) * v
      BY <3>1, SplitSpan
    <3>. QED
      BY <3>2, Zenon DEF Elapsed, a, x, v
  <2>3. exact = (then + (since + lost)) % Day
    <3>1. exact = (Elapsed(clock, now) + lost) % Day
      BY DEF IInv, ExactIsAnchored
    <3>2. then + since + lost = then + (since + lost)
      BY <1>2, <1>4, <2>1
    <3>. QED
      BY <2>2, <3>1, <3>2
  <2>4. m \in Int /\ since + lost \in Int /\ lost' \in Int /\ lost \in Int
    BY <1>2, <1>3, <1>4, <1>6, SMTT(30)
  <2>. HIDE DEF since, m, then
  <2>5. exact = (m + (since + lost)) % Day
    BY <2>1, <2>3, <2>4, RemainderOfSum
  <2>6. (lost' + m) % Day = ((lost + since) + m) % Day
    BY <1>1, <1>4, <2>4, RemainderOfSum
  <2>7. (lost + since) + m = m + (since + lost) /\ lost' + m = m + lost'
    BY <1>4, <2>4
  <2>8. exact = (m + lost') % Day
    BY <2>5, <2>6, <2>7
  <2>. QED
    BY <1>1, <1>8, <2>8 DEF m, ExactIsAnchored, Elapsed
<1>. QED
  BY <1>7, <1>9, <1>10 DEF IInv

\* Carrying out a command, whoever gave it.
LEMMA ApplyKeepsIInv ==
  ASSUME IInv, NEW cmd \in Command, Apply(cmd), UNCHANGED now,
         pending' \in Seq(Command), Len(pending') <= MaxPending
  PROVE  IInv'
<1>. USE ClockAssumption
<1>1. clock \in Clock /\ now \in 0..MaxNow /\ cmd.value \in Int
  BY DEF IInv, TypeOK, Command
<1>2. CASE cmd.kind = "reset" /\ Put(resetClock(clock))
  <2>. DEFINE c == resetClock(clock)
  <2>. DEFINE tod == now % Day
  <2>1. tod \in TimeOfDay
    BY <1>1, Division DEF TimeOfDay
  <2>. DEFINE b == [clock EXCEPT !.mTimeSpeed = 1, !.mTimeOfDay = tod]
  <2>2. b \in Clock
    <3>. HIDE DEF tod
    <3>1. 1 \in 0..kMaxSpeed
      OBVIOUS
    <3>. QED
      BY <1>1, <2>1, <3>1 DEF Clock
  <2>. HIDE DEF b
  <2>3. reanchor(b) \in Clock /\ reanchor(b).mAnchorRealSeconds = now
        /\ reanchor(b).mAnchorTimeOfDay = reanchor(b).mTimeOfDay
    BY <1>1, <2>2 DEF reanchor, Clock
  <2>4. c = reanchor(b)
    BY DEF resetClock, wallClockTimeOfDay, b
  <2>. HIDE DEF c
  <2>. QED
    BY <1>2, <2>3, <2>4, PutKeepsIInv DEF c
<1>3. CASE cmd.kind = "set" /\ Put(setTimeOfDay(clock, cmd.value))
  <2>. DEFINE c == setTimeOfDay(clock, cmd.value)
  <2>1. cmd.value % Day \in TimeOfDay
    BY <1>1, Division DEF TimeOfDay
  <2>2. c \in Clock /\ c.mAnchorRealSeconds = now /\ c.mAnchorTimeOfDay = c.mTimeOfDay
    BY <1>1, <2>1 DEF setTimeOfDay, reanchor, Clock
  <2>. QED
    BY <1>3, <2>2, PutKeepsIInv
<1>4. CASE cmd.kind = "speed" /\ ChangeSpeed(clamp(cmd.value, 0, kMaxSpeed))
  <2>1. clamp(cmd.value, 0, kMaxSpeed) \in 0..kMaxSpeed
    BY <1>1 DEF clamp
  <2>. QED
    BY <1>4, <2>1, ChangeSpeedKeepsIInv
<1>5. CASE /\ cmd.kind = "latency"
           /\ simulatedLatencyMs' = Capped(cmd.value)
           /\ UNCHANGED clockVars
  <2>1. Capped(cmd.value) \in 0..kMaxLatency
    BY <1>1 DEF Capped
  <2>. QED
    BY <1>5, <2>1 DEF IInv, TypeOK, ReadingIsAnchored, ExactIsAnchored, Elapsed, clockVars
<1>6. CASE cmd.kind = "status" /\ UNCHANGED <<clockVars, simulatedLatencyMs>>
  BY <1>6 DEF IInv, TypeOK, ReadingIsAnchored, ExactIsAnchored, Elapsed, clockVars
<1>. QED
  BY <1>2, <1>3, <1>4, <1>5, <1>6 DEF Apply
-----------------------------------------------------------------------------
LEMMA InitIInv == Init => IInv
<1>. SUFFICES ASSUME Init PROVE IInv
  OBVIOUS
<1>. USE ClockAssumption
<1>1. 0 % Day = 0
  BY RemainderOfSmall
<1>2. /\ clock = [mTimeOfDay |-> 0, mAnchorTimeOfDay |-> 0, mAnchorRealSeconds |-> 0,
                  mTimeSpeed |-> 1]
      /\ now = 0 /\ exact = 0 /\ lost = 0 /\ asOf = 0
  BY <1>1 DEF Init, init, resetClock, reanchor, wallClockTimeOfDay
<1>3. Elapsed(clock, 0) = 0
  BY <1>2 DEF Elapsed
<1>4. TypeOK
  <2>1. pending \in Seq(Command) /\ Len(pending) = 0
    BY DEF Init
  <2>2. clock \in Clock /\ 0 \in TimeOfDay
    BY <1>2 DEF Clock, TimeOfDay
  <2>3. commanded \in BOOLEAN
    BY DEF Init
  <2>4. simulatedLatencyMs \in 0..kMaxLatency
    BY DEF Init
  <2>. QED
    BY <1>2, <2>1, <2>2, <2>3, <2>4 DEF TypeOK
<1>. QED
  BY <1>1, <1>2, <1>3, <1>4 DEF IInv, ReadingIsAnchored, ExactIsAnchored

LEMMA PassKeepsIInv == IInv /\ Pass => IInv'
<1>. SUFFICES ASSUME IInv, Pass PROVE IInv'
  OBVIOUS
<1>. USE ClockAssumption
<1>1. /\ now' = now + 1 /\ now < MaxNow
      /\ exact' = (exact + clock.mTimeSpeed) % Day
      /\ UNCHANGED <<clock, lost, asOf, commanded, simulatedLatencyMs, pending>>
  BY DEF Pass
<1>2. /\ now \in 0..MaxNow /\ clock \in Clock /\ asOf \in 0..now /\ lost \in 0..(Day - 1)
      /\ exact \in 0..(Day - 1)
  BY DEF IInv, TypeOK, TimeOfDay
<1>3. /\ clock.mTimeSpeed \in 0..kMaxSpeed /\ clock.mAnchorTimeOfDay \in 0..(Day - 1)
      /\ clock.mAnchorRealSeconds \in 0..MaxNow
  BY <1>2 DEF Clock, TimeOfDay
<1>4. exact' \in 0..(Day - 1)
  <2>1. exact + clock.mTimeSpeed \in Int
    BY <1>2, <1>3
  <2>. QED
    BY <1>1, <2>1, Division
<1>5. TypeOK'
  BY <1>1, <1>2, <1>4 DEF IInv, TypeOK, TimeOfDay
<1>6. ReadingIsAnchored'
  BY <1>1 DEF IInv, ReadingIsAnchored, Elapsed
<1>7. ExactIsAnchored'
  <2>. DEFINE e == Elapsed(clock, now) + lost
              v == clock.mTimeSpeed
  <2>1. e \in Int /\ v \in Int
    BY <1>2, <1>3, ElapsedInt
  <2>2. exact' = (e + v) % Day
    <3>1. exact' = ((e % Day) + v) % Day
      BY <1>1 DEF IInv, ExactIsAnchored
    <3>. HIDE DEF e, v
    <3>. QED
      BY <2>1, <3>1, RemainderOfSum
  <2>3. e + v = Elapsed(clock, now + 1) + lost
    <3>1. clock.mAnchorTimeOfDay \in Int /\ clock.mAnchorRealSeconds \in Int
          /\ now \in Int /\ lost \in Int
      BY <1>2, <1>3
    <3>. DEFINE a == clock.mAnchorTimeOfDay
                x == clock.mAnchorRealSeconds
    <3>2. a \in Int /\ x \in Int
      BY <3>1
    <3>. HIDE DEF a, x, v
    <3>3. ((a + (now - x) * v) + lost) + v = (a + ((now + 1) - x) * v) + lost
      BY <2>1, <3>1, <3>2, OneMoreUnit
    <3>. QED
      BY <3>3, Zenon DEF Elapsed, a, x, v
  <2>. QED
    BY <1>1, <2>2, <2>3 DEF ExactIsAnchored, Elapsed
<1>. QED
  BY <1>5, <1>6, <1>7 DEF IInv

LEMMA TickKeepsIInv == IInv /\ Tick => IInv'
<1>. SUFFICES ASSUME IInv, Tick PROVE IInv'
  OBVIOUS
<1>. USE ClockAssumption
<1>1. /\ clock' = [clock EXCEPT !.mTimeOfDay = Elapsed(clock, now) % Day]
      /\ asOf' = now
      /\ UNCHANGED <<now, exact, lost, commanded, simulatedLatencyMs, pending>>
  BY DEF Tick, stepClock, Elapsed
<1>2. /\ now \in 0..MaxNow /\ clock \in Clock /\ asOf \in 0..now
  BY DEF IInv, TypeOK
<1>3. Elapsed(clock, now) % Day \in TimeOfDay
  <2>1. Elapsed(clock, now) \in Int
    BY <1>2, ElapsedInt
  <2>. QED
    BY <2>1, Division DEF TimeOfDay
<1>4. /\ clock' \in Clock
      /\ clock'.mTimeOfDay = Elapsed(clock, now) % Day
      /\ clock'.mAnchorTimeOfDay = clock.mAnchorTimeOfDay
      /\ clock'.mAnchorRealSeconds = clock.mAnchorRealSeconds
      /\ clock'.mTimeSpeed = clock.mTimeSpeed
      /\ clock.mAnchorRealSeconds \in 0..MaxNow
  BY <1>1, <1>2, <1>3 DEF Clock
<1>5. TypeOK'
  BY <1>1, <1>2, <1>4 DEF IInv, TypeOK
<1>6. ReadingIsAnchored'
  BY <1>1, <1>2, <1>4 DEF IInv, ReadingIsAnchored, Elapsed
<1>7. ExactIsAnchored'
  BY <1>1, <1>4 DEF IInv, ExactIsAnchored, Elapsed
<1>. QED
  BY <1>5, <1>6, <1>7 DEF IInv

LEMMA NextIInv == IInv /\ [Next]_vars => IInv'
<1>. SUFFICES ASSUME IInv, [Next]_vars PROVE IInv'
  OBVIOUS
<1>. USE ClockAssumption
<1>1. pending \in Seq(Command) /\ Len(pending) <= MaxPending
  BY DEF IInv, TypeOK
<1>2. CASE Pass
  BY <1>2, PassKeepsIInv
<1>3. CASE Tick
  BY <1>3, TickKeepsIInv
<1>4. CASE AdminAllowed
  <2>1. /\ Apply(Head(pending)) /\ UNCHANGED now /\ pending' = Tail(pending)
        /\ Head(pending) \in Command
        /\ Tail(pending) \in Seq(Command) /\ Len(Tail(pending)) <= MaxPending
    BY <1>1, <1>4 DEF AdminAllowed
  <2>. QED
    BY <2>1, ApplyKeepsIInv
<1>5. CASE AdminRefused
  <2>1. Tail(pending) \in Seq(Command) /\ Len(Tail(pending)) <= MaxPending
    BY <1>1, <1>5 DEF AdminRefused
  <2>. QED
    BY <1>5, <2>1 DEF AdminRefused, IInv, TypeOK, ReadingIsAnchored, ExactIsAnchored, Elapsed,
                      clockVars
<1>6. ASSUME NEW cmd \in Command, ConsoleCommand(cmd) PROVE IInv'
  <2>1. Apply(cmd) /\ UNCHANGED now /\ pending' = pending
    BY <1>6 DEF ConsoleCommand
  <2>. QED
    BY <1>1, <2>1, ApplyKeepsIInv
<1>7. ASSUME NEW cmd \in Command, AdminRequest(cmd) PROVE IInv'
  <2>1. Append(pending, cmd) \in Seq(Command) /\ Len(Append(pending, cmd)) <= MaxPending
    BY <1>1, <1>7 DEF AdminRequest
  <2>. QED
    BY <1>7, <2>1 DEF AdminRequest, IInv, TypeOK, ReadingIsAnchored, ExactIsAnchored, Elapsed,
                      clockVars
<1>8. CASE UNCHANGED vars
  BY <1>8 DEF vars, clockVars, IInv, TypeOK, ReadingIsAnchored, ExactIsAnchored, Elapsed
<1>. QED
  BY <1>2, <1>3, <1>4, <1>5, <1>6, <1>7, <1>8 DEF Next

LEMMA AlwaysIInv == Spec => []IInv
  BY InitIInv, NextIInv, PTL DEF Spec

\* Whatever the length of the day, the rates and the commands, the clock a tick
\* of Simulation::step shows is the exact one less what went by between a
\* change of speed and the tick before it.
THEOREM ClockNeverDrifts == Spec => []OnlyUntickedTimeIsLost
<1>1. IInv => OnlyUntickedTimeIsLost
  <2>. SUFFICES ASSUME IInv, asOf = now PROVE (clock.mTimeOfDay + lost) % Day = exact
    BY DEF OnlyUntickedTimeIsLost
  <2>1. clock \in Clock /\ now \in Int /\ lost \in Int
    BY ClockAssumption DEF IInv, TypeOK, TimeOfDay
  <2>2. Elapsed(clock, now) \in Int
    BY <2>1, ElapsedInt
  <2>3. clock.mTimeOfDay = Elapsed(clock, now) % Day
    BY DEF IInv, ReadingIsAnchored
  <2>4. exact = (Elapsed(clock, now) + lost) % Day
    BY DEF IInv, ExactIsAnchored
  <2>. QED
    BY <2>1, <2>2, <2>3, <2>4, RemainderOfSum, ClockAssumption
<1>. QED
  BY <1>1, AlwaysIInv, PTL
-----------------------------------------------------------------------------
(* The snapshots.                                                          *)

\* The datagram of the k-th tick, and what the client's buffer leaves of its
\* snapshot.
PacketOf(k) == writeUdpHeader(kSnapshotType, k - 1) \o encodeSnapshot(history[k])
BodyOf(k) == SubSeq(receiveFrom(PacketOf(k)), HeaderSize + 1, Len(receiveFrom(PacketOf(k))))

\* The tick a datagram on its way is from.
TickOf(datagram) == take(datagram, u32 + u16, u32) + 1

Bytes == 0..(Byte - 1)
Entity == [id : EntityIds, type : {kCube, kPlayer}, pose : 0..MaxTick, lastInputSequence : 0..MaxTick]
Snapshot == [tick : 0..MaxTick, serverTimeMs : 0..MaxTick, timeOfDay : 0..MaxTick, entities : Seq(Entity)]

\* The simulation: one snapshot a tick, and every player has an id of its own.
Simulated ==
  /\ mTick \in 0..MaxTick /\ mTimeOfDay = mTick /\ outgoingSequence = mTick
  /\ mPlayers \in Seq(Entity) /\ mNextEntityId \in (kCubeEntityId + 1)..(kCubeEntityId + MaxPlayers + 1)
  /\ Len(mPlayers) + kCubeEntityId < mNextEntityId
  /\ \A i \in 1..Len(mPlayers) :
       /\ kCubeEntityId < mPlayers[i].id /\ mPlayers[i].id < mNextEntityId
       /\ mPlayers[i].pose <= mTick /\ mPlayers[i].lastInputSequence <= mTick
  /\ \A i, j \in 1..Len(mPlayers) : i < j => mPlayers[i].id < mPlayers[j].id

\* The world at each tick, as it was sent.
Recorded ==
  /\ history \in Seq(Snapshot) /\ Len(history) = mTick
  /\ \A k \in 1..mTick :
       /\ history[k].tick = k /\ Len(history[k].entities) <= 1 + MaxPlayers
       /\ \A i, j \in 1..Len(history[k].entities) :
            i < j => history[k].entities[i].id < history[k].entities[j].id

\* Nothing but the datagrams of ticks is on its way.
Sent(datagram) == \E k \in 1..mTick : datagram = PacketOf(k)
Heard(body) == \E k \in 1..mTick : body = BodyOf(k)

Genuine ==
  /\ \A i \in 1..Len(wire) : Sent(wire[i])
  /\ \A i \in 1..Len(delayedOutgoing) : Sent(delayedOutgoing[i])
  /\ \A i \in 1..Len(mDelayedIncoming) : Heard(mDelayedIncoming[i])

Flags == held \in BOOLEAN /\ fakeLatency \in BOOLEAN
Counters ==
  /\ wire \in Seq(Seq(Bytes)) /\ delayedOutgoing \in Seq(Seq(Bytes))
  /\ mDelayedIncoming \in Seq(Seq(Bytes))
  /\ shown \in 0..mTick /\ mSnapshotsReceived \in Nat /\ mLastSnapshotSequence \in Nat

ReplicationInv == Flags /\ Counters /\ Simulated /\ Recorded /\ Genuine /\ WholeSnapshots

\* A body, if it is applied at all, is newer than a tick, or older.
NewerThan(body, t) == decodeSnapshot(body).ok => t < decodeSnapshot(body).tick
OlderThan(body, t) == decodeSnapshot(body).ok => decodeSnapshot(body).tick < t

\* Without the client's delay, the snapshot shown is the last one that passed the check.
Direct ==
  /\ mDelayedIncoming = <<>>
  /\ IF mSnapshotsReceived = 0 THEN shown = 0 ELSE shown = mLastSnapshotSequence + 1

\* With it, everything on its way is in the order of the ticks: what the client holds
\* back, before what is on the wire, before what the server holds back.
InOrder(h, w, o, s) ==
  /\ \A i, j \in 1..Len(w) : i < j => TickOf(w[i]) < TickOf(w[j])
  /\ \A i, j \in 1..Len(o) : i < j => TickOf(o[i]) < TickOf(o[j])
  /\ \A i \in 1..Len(w) : \A j \in 1..Len(o) : TickOf(w[i]) < TickOf(o[j])
  /\ \A i \in 1..Len(w) : s < TickOf(w[i])
  /\ \A i \in 1..Len(o) : s < TickOf(o[i])
  /\ \A i \in 1..Len(h) : NewerThan(h[i], s)
  /\ \A i \in 1..Len(h) : \A j \in 1..Len(w) : OlderThan(h[i], TickOf(w[j]))
  /\ \A i \in 1..Len(h) : \A j \in 1..Len(o) : OlderThan(h[i], TickOf(o[j]))
  /\ \A i, j \in 1..Len(h) :
       i < j /\ decodeSnapshot(h[j]).ok => OlderThan(h[i], decodeSnapshot(h[j]).tick)

Queued ==
  /\ ~held => delayedOutgoing = <<>>
  /\ InOrder(mDelayedIncoming, wire, delayedOutgoing, shown)

OrderInv == IF fakeLatency THEN Queued ELSE Direct
-----------------------------------------------------------------------------
(* Induction, and the functions a recursion defines.                       *)

LEMMA Least ==
  ASSUME NEW T \in SUBSET Nat, T # {}
  PROVE  \E x \in T : \A y \in T : x <= y
<1>. DEFINE R == OpToRel(<, Nat)
<1>1. IsWellFoundedOn(R, Nat)
  BY NatLessThanWellFounded
<1>2. \A x, y \in Nat : y < x => <<y, x>> \in R
  BY DEF OpToRel
<1>. HIDE DEF R
<1>3. PICK x \in T : \A y \in T : ~(<<y, x>> \in R)
  BY <1>1, WFMin
<1>4. ASSUME NEW y \in T PROVE x <= y
  <2>1. x \in Nat /\ y \in Nat /\ ~(y < x)
    BY <1>2, <1>3
  <2>. QED
    BY <2>1
<1>. QED
  BY <1>4

LEMMA Induction ==
  ASSUME NEW S, 0 \in S, \A n \in Nat : n \in S => n + 1 \in S
  PROVE  Nat \subseteq S
<1>. SUFFICES ASSUME Nat \ S # {} PROVE FALSE
  OBVIOUS
<1>1. PICK x \in Nat \ S : \A y \in Nat \ S : x <= y
  BY Least
<1>2. x - 1 \in Nat /\ x - 1 \in S
  BY <1>1
<1>. QED
  BY <1>1, <1>2

LEMMA PowerDefined ==
  ASSUME NEW w \in Nat
  PROVE  \E f : f = [n \in 0..w |-> IF n = 0 THEN 1 ELSE Byte * f[n - 1]]
<1>. DEFINE S == {m \in Nat : \E f : f = [n \in 0..m |-> IF n = 0 THEN 1 ELSE Byte * f[n - 1]]}
<1>1. 0 \in S
  <2>. DEFINE f == [n \in 0..0 |-> 1]
  <2>1. f = [n \in 0..0 |-> IF n = 0 THEN 1 ELSE Byte * f[n - 1]]
    OBVIOUS
  <2>. QED
    BY <2>1
<1>2. ASSUME NEW m \in Nat, m \in S PROVE m + 1 \in S
  <2>1. PICK f : f = [n \in 0..m |-> IF n = 0 THEN 1 ELSE Byte * f[n - 1]]
    BY <1>2
  <2>. DEFINE g == [n \in 0..(m + 1) |-> IF n = m + 1 THEN Byte * f[m] ELSE f[n]]
  <2>2. g = [n \in 0..(m + 1) |-> IF n = 0 THEN 1 ELSE Byte * g[n - 1]]
    BY <2>1
  <2>3. m + 1 \in Nat
    OBVIOUS
  <2>. HIDE DEF g
  <2>. QED
    BY <2>2, <2>3
<1>. HIDE DEF S
<1>3. w \in S
  BY <1>1, <1>2, Induction
<1>. QED
  BY <1>3 DEF S

LEMMA Powers ==
  /\ Power[0] = 1
  /\ \A n \in 1..8 : Power[n] = Byte * Power[n - 1]
  /\ \A n \in 0..8 : Power[n] \in Nat \ {0}
<1>. DEFINE F(f) == [n \in 0..8 |-> IF n = 0 THEN 1 ELSE Byte * f[n - 1]]
<1>1. \E f : f = F(f)
  BY PowerDefined
<1>2. Power = CHOOSE f : f = F(f)
  BY DEF Power, u64
<1>3. Power = F(Power)
  BY <1>1, <1>2
<1>4. Power[0] = 1 /\ \A n \in 1..8 : Power[n] = Byte * Power[n - 1]
  BY <1>3
<1>. DEFINE S == {n \in Nat : n <= 8 => Power[n] \in Nat \ {0}}
<1>5. 0 \in S
  BY <1>4
<1>6. ASSUME NEW n \in Nat, n \in S PROVE n + 1 \in S
  <2>. SUFFICES ASSUME n + 1 <= 8 PROVE Power[n + 1] \in Nat \ {0}
    OBVIOUS
  <2>1. n + 1 \in 1..8 /\ (n + 1) - 1 = n /\ Power[n] \in Nat \ {0}
    BY <1>6
  <2>2. Power[n + 1] = Byte * Power[n]
    BY <1>4, <2>1
  <2>. QED
    BY <2>1, <2>2, WireAssumption
<1>. HIDE DEF S
<1>7. Nat \subseteq S
  BY <1>5, <1>6, Induction
<1>8. \A n \in 0..8 : Power[n] \in Nat \ {0}
  BY <1>7 DEF S
<1>. QED
  BY <1>4, <1>8

LEMMA ValueDefined ==
  ASSUME NEW step, NEW w \in Nat
  PROVE  \E f : f = [i \in 0..w |-> IF i = 0 THEN 0 ELSE f[i - 1] + step[i]]
<1>. DEFINE S == {m \in Nat : \E f : f = [i \in 0..m |-> IF i = 0 THEN 0 ELSE f[i - 1] + step[i]]}
<1>1. 0 \in S
  <2>. DEFINE f == [i \in 0..0 |-> 0]
  <2>1. f = [i \in 0..0 |-> IF i = 0 THEN 0 ELSE f[i - 1] + step[i]]
    OBVIOUS
  <2>. QED
    BY <2>1
<1>2. ASSUME NEW m \in Nat, m \in S PROVE m + 1 \in S
  <2>1. PICK f : f = [i \in 0..m |-> IF i = 0 THEN 0 ELSE f[i - 1] + step[i]]
    BY <1>2
  <2>. DEFINE g == [i \in 0..(m + 1) |-> IF i = m + 1 THEN f[m] + step[m + 1] ELSE f[i]]
  <2>2. g = [i \in 0..(m + 1) |-> IF i = 0 THEN 0 ELSE g[i - 1] + step[i]]
    BY <2>1
  <2>3. m + 1 \in Nat
    OBVIOUS
  <2>. HIDE DEF g
  <2>. QED
    BY <2>2, <2>3
<1>. HIDE DEF S
<1>3. w \in S
  BY <1>1, <1>2, Induction
<1>. QED
  BY <1>3 DEF S

-----------------------------------------------------------------------------
(* ByteWriter and ByteReader.                                              *)

\* One more byte of a number.
LEMMA OneMoreByte ==
  ASSUME NEW v \in Nat, NEW p \in Nat \ {0}, NEW b \in Nat \ {0}
  PROVE  /\ v % (b * p) = (v % p) + ((v \div p) % b) * p
         /\ v \div p \in Nat /\ (v \div p) % b \in 0..(b - 1)
<1>. DEFINE q == v \div p
            r == v % p
            t == q \div b
            d == q % b
<1>1. v = q * p + r /\ r \in 0..(p - 1) /\ q \in Int
  BY Division
<1>2. q \in Nat
  BY <1>1
<1>3. q = t * b + d /\ d \in 0..(b - 1) /\ t \in Int
  BY <1>2, Division
<1>. HIDE DEF q, r, t, d
<1>4. d * p + r \in 0..(b * p - 1)
  <2>1. d \in Nat /\ r \in Nat /\ d <= b - 1 /\ r <= p - 1
    BY <1>1, <1>3
  <2>2. d * p <= (b - 1) * p
    BY <2>1
  <2>3. (b - 1) * p = b * p - p /\ d * p \in Nat /\ b * p \in Nat
    BY <2>1
  <2>. QED
    BY <2>1, <2>2, <2>3
<1>5. v = t * (b * p) + (d * p + r)
  <2>1. v = (t * b + d) * p + r
    BY <1>1, <1>3
  <2>2. (t * b + d) * p = t * (b * p) + d * p
    BY <1>3
  <2>3. t * (b * p) \in Int /\ d * p \in Int /\ r \in Int
    BY <1>1, <1>3
  <2>. QED
    BY <2>1, <2>2, <2>3
<1>6. b * p \in Nat \ {0} /\ d * p + r = r + d * p
  BY <1>1, <1>3
<1>7. v % (b * p) = d * p + r
  <2>1. PICK c : c = b * p
    OBVIOUS
  <2>2. PICK s : s = d * p + r
    OBVIOUS
  <2>3. c \in Nat \ {0} /\ s \in 0..(c - 1) /\ v = t * c + s /\ t \in Int /\ v \in Int
    BY <1>3, <1>4, <1>5, <1>6, <2>1, <2>2
  <2>4. v % c = s
    BY <2>3, RemainderUnique
  <2>. QED
    BY <2>1, <2>2, <2>4
<1>. QED
  BY <1>2, <1>3, <1>6, <1>7 DEF q, r, d

LEMMA LittleBytes ==
  ASSUME NEW v \in Nat, NEW width \in 1..8
  PROVE  /\ little(v, width) \in Seq(0..(Byte - 1)) /\ Len(little(v, width)) = width
         /\ \A i \in 1..width : little(v, width)[i] = (v \div Power[i - 1]) % Byte
<1>1. ASSUME NEW i \in 1..width PROVE (v \div Power[i - 1]) % Byte \in 0..(Byte - 1)
  <2>1. Power[i - 1] \in Nat \ {0}
    BY Powers
  <2>. QED
    BY <2>1, OneMoreByte, WireAssumption
<1>. QED
  BY <1>1 DEF little

\* What ByteReader takes is what ByteWriter was given, as far as it fits.
LEMMA TakeLittle ==
  ASSUME NEW v \in Nat, NEW width \in 1..8, NEW data, NEW offset,
         \A i \in 1..width : data[offset + i] = little(v, width)[i]
  PROVE  take(data, offset, width) = v % Power[width]
<1>. DEFINE step == [i \in 1..width |-> data[offset + i] * Power[i - 1]]
            F(f) == [i \in 0..width |-> IF i = 0 THEN 0 ELSE f[i - 1] + data[offset + i] * Power[i - 1]]
<1>1. PICK value : value = CHOOSE f : f = F(f)
  OBVIOUS
<1>2. \E f : f = F(f)
  <2>0. PICK s : s = step
    OBVIOUS
  <2>1. PICK f : f = [i \in 0..width |-> IF i = 0 THEN 0 ELSE f[i - 1] + s[i]]
    <3>. HIDE DEF step, F
    <3>1. width \in Nat
      OBVIOUS
    <3>. QED
      BY <3>1, ValueDefined
  <2>2. [i \in 0..width |-> IF i = 0 THEN 0 ELSE f[i - 1] + s[i]] = F(f)
    BY <2>0
  <2>. QED
    BY <2>1, <2>2
<1>3. value = F(value)
  BY <1>1, <1>2
<1>4. take(data, offset, width) = value[width]
  BY <1>1 DEF take
<1>5. value[0] = 0 /\ \A i \in 1..width : value[i] = value[i - 1] + data[offset + i] * Power[i - 1]
  BY <1>3
<1>. HIDE DEF F, step
<1>. DEFINE S == {n \in Nat : n <= width => value[n] = v % Power[n]}
<1>6. 0 \in S
  <2>1. v % 1 = 0
    OBVIOUS
  <2>. QED
    BY <1>5, <2>1, Powers
<1>7. ASSUME NEW n \in Nat, n \in S PROVE n + 1 \in S
  <2>. SUFFICES ASSUME n + 1 <= width PROVE value[n + 1] = v % Power[n + 1]
    OBVIOUS
  <2>1. n + 1 \in 1..width /\ n + 1 \in 1..8 /\ (n + 1) - 1 = n /\ n \in 0..8
    OBVIOUS
  <2>2. value[n] = v % Power[n]
    BY <1>7
  <2>3. value[n + 1] = value[n] + data[offset + (n + 1)] * Power[n]
    BY <1>5, <2>1
  <2>4. data[offset + (n + 1)] = (v \div Power[n]) % Byte
    BY <2>1, LittleBytes
  <2>5. Power[n + 1] = Byte * Power[n] /\ Power[n] \in Nat \ {0}
    BY <2>1, Powers
  <2>6. v % (Byte * Power[n]) = (v % Power[n]) + ((v \div Power[n]) % Byte) * Power[n]
    BY <2>5, OneMoreByte, WireAssumption
  <2>. QED
    BY <2>2, <2>3, <2>4, <2>5, <2>6
<1>. HIDE DEF S
<1>8. width \in S
  BY <1>6, <1>7, Induction
<1>. QED
  BY <1>4, <1>8 DEF S

\* The fields are wide enough for what is written into them.
LEMMA Widths ==
  /\ 1 < Power[1] /\ 3 < Power[2] /\ 7 < Power[4]
  /\ 1 + MaxPlayers < Power[2] /\ 1 + MaxPlayers < Power[4]
  /\ MaxTick < Power[4] /\ MaxTick < Power[8]
  /\ MaxTick \in Nat /\ MaxPlayers \in Nat /\ Capacity \in Nat
<1>1. ASSUME NEW n \in 1..8 PROVE Power[n] >= 2 * Power[n - 1] /\ Power[n] >= Power[n - 1] /\ Power[n] \in Nat
  <2>1. Power[n] = Byte * Power[n - 1] /\ Power[n - 1] \in Nat \ {0}
    BY Powers
  <2>2. Byte \in Nat /\ Byte >= 2
    BY WireAssumption
  <2>3. Byte * Power[n - 1] >= 2 * Power[n - 1] /\ Byte * Power[n - 1] \in Nat
    BY <2>1, <2>2
  <2>. QED
    BY <2>1, <2>3
<1>2. /\ Power[1] >= 2 * Power[0] /\ Power[1] \in Nat /\ Power[2] >= 2 * Power[1] /\ Power[2] \in Nat
      /\ Power[3] >= 2 * Power[2] /\ Power[3] \in Nat /\ Power[4] >= 2 * Power[3] /\ Power[4] \in Nat
  <2>1. 1 \in 1..8 /\ 2 \in 1..8 /\ 3 \in 1..8 /\ 4 \in 1..8 /\ 1 - 1 = 0 /\ 2 - 1 = 1 /\ 3 - 1 = 2 /\ 4 - 1 = 3
    OBVIOUS
  <2>. QED
    BY <1>1, <2>1
<1>3. /\ Power[5] >= Power[4] /\ Power[5] \in Nat /\ Power[6] >= Power[5] /\ Power[6] \in Nat
      /\ Power[7] >= Power[6] /\ Power[7] \in Nat /\ Power[8] >= Power[7] /\ Power[8] \in Nat
  <2>1. 5 \in 1..8 /\ 6 \in 1..8 /\ 7 \in 1..8 /\ 8 \in 1..8 /\ 5 - 1 = 4 /\ 6 - 1 = 5 /\ 7 - 1 = 6 /\ 8 - 1 = 7
    OBVIOUS
  <2>. QED
    BY <1>1, <2>1
<1>4. /\ MaxTick \in Nat /\ MaxPlayers \in Nat /\ Capacity \in Nat
      /\ MaxTick < Power[4] /\ 1 + MaxPlayers < Power[2]
  BY ReplicationAssumption DEF u32, u16
<1>. QED
  BY <1>2, <1>3, <1>4, Powers

-----------------------------------------------------------------------------
(* Sequences of bytes.                                                     *)

LEMMA Joined ==
  ASSUME NEW S, NEW a \in Seq(S), NEW b \in Seq(S)
  PROVE  /\ a \o b \in Seq(S) /\ Len(a \o b) = Len(a) + Len(b)
         /\ Len(a) \in Nat /\ Len(b) \in Nat
         /\ \A k \in 1..Len(a) : (a \o b)[k] = a[k]
         /\ \A k \in 1..Len(b) : (a \o b)[Len(a) + k] = b[k]
<1>1. /\ a \o b \in Seq(S) /\ Len(a \o b) = Len(a) + Len(b)
      /\ Len(a) \in Nat /\ Len(b) \in Nat
  OBVIOUS
<1>2. \A k \in 1..Len(a) : (a \o b)[k] = a[k]
  BY <1>1
<1>3. \A k \in 1..Len(b) : (a \o b)[Len(a) + k] = b[k]
  <2>. TAKE k \in 1..Len(b)
  <2>1. Len(a) + k \in 1..(Len(a) + Len(b)) /\ ~(Len(a) + k <= Len(a)) /\ (Len(a) + k) - Len(a) = k
    BY <1>1
  <2>. QED
    BY <1>1, <2>1
<1>. QED
  BY <1>1, <1>2, <1>3

LEMMA FirstBytes ==
  ASSUME NEW S, NEW a \in Seq(S), NEW n \in 0..Len(a)
  PROVE  /\ SubSeq(a, 1, n) \in Seq(S) /\ Len(SubSeq(a, 1, n)) = n
         /\ \A k \in 1..n : SubSeq(a, 1, n)[k] = a[k]
<1>1. Len(a) \in Nat /\ n \in Nat /\ n <= Len(a)
  OBVIOUS
<1>2. \A k \in 1..n : a[k] \in S
  BY <1>1
<1>. QED
  BY <1>1, <1>2

LEMMA LaterBytes ==
  ASSUME NEW S, NEW a \in Seq(S), NEW from \in 0..Len(a)
  PROVE  /\ SubSeq(a, from + 1, Len(a)) \in Seq(S) /\ Len(SubSeq(a, from + 1, Len(a))) = Len(a) - from
         /\ \A k \in 1..(Len(a) - from) : SubSeq(a, from + 1, Len(a))[k] = a[from + k]
<1>1. Len(a) \in Nat /\ from \in Nat /\ from <= Len(a)
  OBVIOUS
<1>2. \A k \in (from + 1)..Len(a) : a[k] \in S
  BY <1>1
<1>3. SubSeq(a, from + 1, Len(a)) \in Seq(S) /\ Len(SubSeq(a, from + 1, Len(a))) = Len(a) - from
  BY <1>1, <1>2
<1>4. \A k \in 1..(Len(a) - from) : SubSeq(a, from + 1, Len(a))[k] = a[from + k]
  BY <1>1, <1>3
<1>. QED
  BY <1>3, <1>4

\* A piece of a sequence, at a place of it, stays there in a longer one.
Holds(bytes, at, piece) ==
  at + Len(piece) <= Len(bytes) /\ \A k \in 1..Len(piece) : bytes[at + k] = piece[k]

\* The data are those bytes from a place on, as many as there are.
Carried(data, offset, bytes, n) == \A k \in 1..n : data[offset + k] = bytes[k]

LEMMA HoldsStill ==
  ASSUME NEW S, NEW a \in Seq(S), NEW b \in Seq(S), NEW piece \in Seq(S), NEW at \in Nat,
         Holds(a, at, piece)
  PROVE  Holds(a \o b, at, piece)
<1>1. /\ Len(a) \in Nat /\ Len(b) \in Nat /\ Len(piece) \in Nat /\ Len(a \o b) = Len(a) + Len(b)
      /\ at + Len(piece) <= Len(a)
  BY Joined DEF Holds
<1>2. ASSUME NEW k \in 1..Len(piece) PROVE (a \o b)[at + k] = piece[k]
  <2>1. at + k \in 1..Len(a)
    BY <1>1
  <2>. QED
    BY <2>1, Joined DEF Holds
<1>. QED
  BY <1>1, <1>2 DEF Holds

LEMMA JoinedBytes ==
  ASSUME NEW a \in Seq(Bytes), NEW b \in Seq(Bytes), NEW c, c = a \o b
  PROVE  c \in Seq(Bytes) /\ Len(c) = Len(a) + Len(b)
<1>1. PICK B : B = Bytes
  OBVIOUS
<1>2. a \in Seq(B) /\ b \in Seq(B)
  BY <1>1
<1>3. a \o b \in Seq(B) /\ Len(a \o b) = Len(a) + Len(b)
  BY <1>2, Joined
<1>. QED
  BY <1>1, <1>3

LEMMA HoldsLast ==
  ASSUME NEW S, NEW a \in Seq(S), NEW b \in Seq(S), NEW at, at = Len(a)
  PROVE  Holds(a \o b, at, b)
  BY Joined DEF Holds

LEMMA HoldsFirst ==
  ASSUME NEW S, NEW a \in Seq(S)
  PROVE  Holds(a, 0, a)
  BY DEF Holds

-----------------------------------------------------------------------------
(* encodeSnapshot and decodeSnapshot.                                      *)

LEMMA EntityBytes ==
  ASSUME NEW e \in Entity
  PROVE  /\ encodeEntity(e) \in Seq(Bytes) /\ Len(encodeEntity(e)) = 13
         /\ Holds(encodeEntity(e), 0, little(e.id, 4)) /\ Holds(encodeEntity(e), 4, little(e.type, 1))
         /\ Holds(encodeEntity(e), 5, little(e.pose, 4))
         /\ Holds(encodeEntity(e), 9, little(e.lastInputSequence, 4))
<1>1. e.id \in Nat /\ e.type \in Nat /\ e.pose \in Nat /\ e.lastInputSequence \in Nat
  BY Widths DEF Entity, EntityIds, kCubeEntityId, kCube, kPlayer
<1>2. PICK a : a = little(e.id, 4)
  OBVIOUS
<1>3. PICK b : b = little(e.type, 1)
  OBVIOUS
<1>4. PICK c : c = little(e.pose, 4)
  OBVIOUS
<1>5. PICK d : d = little(e.lastInputSequence, 4)
  OBVIOUS
<1>6. 1 \in 1..8 /\ 4 \in 1..8
  OBVIOUS
<1>7. /\ a \in Seq(Bytes) /\ Len(a) = 4 /\ b \in Seq(Bytes) /\ Len(b) = 1
      /\ c \in Seq(Bytes) /\ Len(c) = 4 /\ d \in Seq(Bytes) /\ Len(d) = 4
  BY <1>1, <1>2, <1>3, <1>4, <1>5, <1>6, LittleBytes DEF Bytes
<1>8. encodeEntity(e) = ((a \o b) \o c) \o d
  BY <1>2, <1>3, <1>4, <1>5 DEF encodeEntity, u32, u8, f32
<1>9. PICK ab : ab = a \o b
  OBVIOUS
<1>10. ab \in Seq(Bytes) /\ Len(ab) = 5 /\ Holds(ab, 0, a) /\ Holds(ab, 4, b)
  <2>1. Holds(a, 0, a)
    BY <1>7, HoldsFirst
  <2>2. ab \in Seq(Bytes) /\ Len(ab) = Len(a) + Len(b)
    BY <1>7, <1>9, JoinedBytes
  <2>3. Holds(ab, 0, a)
    BY <1>7, <1>9, <2>1, HoldsStill
  <2>4. Holds(ab, 4, b)
    BY <1>7, <1>9, HoldsLast
  <2>. QED
    BY <1>7, <2>2, <2>3, <2>4
<1>11. PICK abc : abc = ab \o c
  OBVIOUS
<1>12. abc \in Seq(Bytes) /\ Len(abc) = 9 /\ Holds(abc, 0, a) /\ Holds(abc, 4, b) /\ Holds(abc, 5, c)
  <2>1. abc \in Seq(Bytes) /\ Len(abc) = Len(ab) + Len(c)
    BY <1>7, <1>10, <1>11, JoinedBytes
  <2>2. Holds(abc, 0, a) /\ Holds(abc, 4, b)
    BY <1>7, <1>10, <1>11, HoldsStill
  <2>3. Holds(abc, 5, c)
    BY <1>7, <1>10, <1>11, HoldsLast
  <2>. QED
    BY <1>7, <1>10, <2>1, <2>2, <2>3
<1>13. PICK abcd : abcd = abc \o d
  OBVIOUS
<1>14. /\ abcd \in Seq(Bytes) /\ Len(abcd) = 13 /\ Holds(abcd, 0, a) /\ Holds(abcd, 4, b)
       /\ Holds(abcd, 5, c) /\ Holds(abcd, 9, d)
  <2>1. abcd \in Seq(Bytes) /\ Len(abcd) = Len(abc) + Len(d)
    BY <1>7, <1>12, <1>13, JoinedBytes
  <2>2. Holds(abcd, 0, a) /\ Holds(abcd, 4, b) /\ Holds(abcd, 5, c)
    BY <1>7, <1>12, <1>13, HoldsStill
  <2>3. Holds(abcd, 9, d)
    BY <1>7, <1>12, <1>13, HoldsLast
  <2>. QED
    BY <1>7, <1>12, <2>1, <2>2, <2>3
<1>. QED
  BY <1>2, <1>3, <1>4, <1>5, <1>8, <1>9, <1>11, <1>13, <1>14

\* A piece of what the data carry is carried.
LEMMA PieceCarried ==
  ASSUME NEW bytes, NEW at \in Nat, NEW piece, NEW width \in Nat, Len(piece) = width,
         Holds(bytes, at, piece),
         NEW data, NEW offset \in Nat, NEW n \in Nat, Carried(data, offset, bytes, n),
         at + width <= n
  PROVE  Carried(data, offset + at, piece, width)
<1>1. ASSUME NEW k \in 1..width PROVE data[(offset + at) + k] = piece[k]
  <2>1. at + k \in 1..n /\ (offset + at) + k = offset + (at + k)
    OBVIOUS
  <2>2. bytes[at + k] = piece[k]
    BY DEF Holds
  <2>. QED
    BY <2>1, <2>2 DEF Carried
<1>. QED
  BY <1>1 DEF Carried

\* A field read where it was written.
\* The same for data that begin where bytes begin.
LEMMA FieldCarried ==
  ASSUME NEW bytes, NEW at \in Nat, NEW piece, NEW width \in Nat, Len(piece) = width,
         Holds(bytes, at, piece),
         NEW data, Len(data) \in Nat, Carried(data, 0, bytes, Len(data)), at + width <= Len(data)
  PROVE  Carried(data, at, piece, width)
<1>1. Carried(data, 0 + at, piece, width)
  <2>1. PICK n \in Nat : n = Len(data)
    OBVIOUS
  <2>2. 0 \in Nat /\ Carried(data, 0, bytes, n) /\ at + width <= n
    BY <2>1
  <2>. QED
    BY <2>2, PieceCarried
<1>2. 0 + at = at
  OBVIOUS
<1>. QED
  BY <1>1, <1>2

LEMMA TakeCarried ==
  ASSUME NEW v \in Nat, NEW width \in 1..8, v < Power[width], NEW data, NEW place,
         Carried(data, place, little(v, width), width)
  PROVE  take(data, place, width) = v
<1>1. \A i \in 1..width : data[place + i] = little(v, width)[i]
  BY DEF Carried
<1>2. take(data, place, width) = v % Power[width]
  BY <1>1, TakeLittle
<1>3. Power[width] \in Nat \ {0}
  BY Powers
<1>4. v \in 0..(Power[width] - 1)
  BY <1>3
<1>5. v % Power[width] = v
  BY <1>3, <1>4, RemainderOfSmall
<1>. QED
  BY <1>2, <1>5

LEMMA EntityDecoded ==
  ASSUME NEW e \in Entity, NEW data, NEW offset \in Nat,
         \A k \in 1..13 : data[offset + k] = encodeEntity(e)[k]
  PROVE  decodeEntity(data, offset) = e
<1>1. PICK bytes : bytes = encodeEntity(e)
  OBVIOUS
<1>2. /\ bytes \in Seq(Bytes)
      /\ Holds(bytes, 0, little(e.id, 4)) /\ Holds(bytes, 4, little(e.type, 1))
      /\ Holds(bytes, 5, little(e.pose, 4)) /\ Holds(bytes, 9, little(e.lastInputSequence, 4))
  BY <1>1, EntityBytes
<1>3. Carried(data, offset, bytes, 13)
  BY <1>1 DEF Carried
<1>4. /\ e.id \in Nat /\ e.type \in Nat /\ e.pose \in Nat /\ e.lastInputSequence \in Nat
      /\ e.id <= 1 + MaxPlayers /\ e.type <= 1 /\ e.pose <= MaxTick /\ e.lastInputSequence <= MaxTick
  BY Widths DEF Entity, EntityIds, kCubeEntityId, kCube, kPlayer
<1>5. /\ e.id < Power[4] /\ e.type < Power[1] /\ e.pose < Power[4] /\ e.lastInputSequence < Power[4]
  <2>1. Power[1] \in Nat /\ Power[4] \in Nat
    BY Powers
  <2>. QED
    BY <1>4, <2>1, Widths
<1>6. 1 \in 1..8 /\ 4 \in 1..8 /\ 13 \in Nat /\ 0 + 4 <= 13 /\ 4 + 1 <= 13 /\ 5 + 4 <= 13 /\ 9 + 4 <= 13
      /\ 0 \in Nat /\ 4 \in Nat /\ 5 \in Nat /\ 9 \in Nat
  OBVIOUS
<1>7. take(data, offset + 0, 4) = e.id
  <2>1. Len(little(e.id, 4)) = 4
    BY <1>4, <1>6, LittleBytes
  <2>2. Holds(bytes, 0, little(e.id, 4))
    BY <1>2
  <2>3. Carried(data, offset + 0, little(e.id, 4), 4)
    BY <1>3, <1>6, <2>1, <2>2, PieceCarried
  <2>. QED
    BY <1>4, <1>5, <1>6, <2>3, TakeCarried
<1>8. take(data, offset + 4, 1) = e.type
  <2>1. Len(little(e.type, 1)) = 1
    BY <1>4, <1>6, LittleBytes
  <2>2. Holds(bytes, 4, little(e.type, 1))
    BY <1>2
  <2>3. Carried(data, offset + 4, little(e.type, 1), 1)
    BY <1>3, <1>6, <2>1, <2>2, PieceCarried
  <2>. QED
    BY <1>4, <1>5, <1>6, <2>3, TakeCarried
<1>9. take(data, offset + 5, 4) = e.pose
  <2>1. Len(little(e.pose, 4)) = 4
    BY <1>4, <1>6, LittleBytes
  <2>2. Holds(bytes, 5, little(e.pose, 4))
    BY <1>2
  <2>3. Carried(data, offset + 5, little(e.pose, 4), 4)
    BY <1>3, <1>6, <2>1, <2>2, PieceCarried
  <2>. QED
    BY <1>4, <1>5, <1>6, <2>3, TakeCarried
<1>10. take(data, offset + 9, 4) = e.lastInputSequence
  <2>1. Len(little(e.lastInputSequence, 4)) = 4
    BY <1>4, <1>6, LittleBytes
  <2>2. Holds(bytes, 9, little(e.lastInputSequence, 4))
    BY <1>2
  <2>3. Carried(data, offset + 9, little(e.lastInputSequence, 4), 4)
    BY <1>3, <1>6, <2>1, <2>2, PieceCarried
  <2>. QED
    BY <1>4, <1>5, <1>6, <2>3, TakeCarried
<1>11. offset + 0 = offset /\ offset + 4 + 1 = offset + 5 /\ offset + 4 + 1 + 4 = offset + 9
  OBVIOUS
<1>12. e = [id |-> e.id, type |-> e.type, pose |-> e.pose, lastInputSequence |-> e.lastInputSequence]
  BY DEF Entity
<1>. QED
  BY <1>7, <1>8, <1>9, <1>10, <1>11, <1>12 DEF decodeEntity, u32, u8, f32

LEMMA FlattenDefined ==
  ASSUME NEW seqs, NEW w \in Nat
  PROVE  \E f : f = [i \in 1..w |-> IF i = 1 THEN seqs[i] ELSE f[i - 1] \o seqs[i]]
<1>. DEFINE S == {m \in Nat : \E f : f = [i \in 1..m |-> IF i = 1 THEN seqs[i] ELSE f[i - 1] \o seqs[i]]}
<1>1. 0 \in S
  <2>. DEFINE f == [i \in 1..0 |-> 0]
  <2>1. f = [i \in 1..0 |-> IF i = 1 THEN seqs[i] ELSE f[i - 1] \o seqs[i]]
    OBVIOUS
  <2>. HIDE DEF f
  <2>. QED
    BY <2>1
<1>2. ASSUME NEW m \in Nat, m \in S PROVE m + 1 \in S
  <2>1. PICK f : f = [i \in 1..m |-> IF i = 1 THEN seqs[i] ELSE f[i - 1] \o seqs[i]]
    BY <1>2
  <2>. DEFINE g == [i \in 1..(m + 1) |-> IF i = m + 1 THEN IF m = 0 THEN seqs[1] ELSE f[m] \o seqs[m + 1]
                                                     ELSE f[i]]
  <2>2. g = [i \in 1..(m + 1) |-> IF i = 1 THEN seqs[i] ELSE g[i - 1] \o seqs[i]]
    <3>1. ASSUME NEW i \in 1..(m + 1)
          PROVE  g[i] = IF i = 1 THEN seqs[i] ELSE g[i - 1] \o seqs[i]
      <4>1. CASE i = m + 1 /\ m = 0
        BY <4>1
      <4>2. CASE i = m + 1 /\ m # 0
        <5>1. i # 1 /\ i - 1 = m /\ m \in 1..(m + 1) /\ m # m + 1
          BY <4>2
        <5>2. g[i] = f[m] \o seqs[m + 1] /\ g[m] = f[m]
          BY <4>2, <5>1
        <5>. QED
          BY <4>2, <5>1, <5>2
      <4>3. CASE i # m + 1
        <5>1. i \in 1..m
          BY <4>3
        <5>2. g[i] = f[i] /\ f[i] = IF i = 1 THEN seqs[i] ELSE f[i - 1] \o seqs[i]
          BY <2>1, <4>3, <5>1
        <5>3. i # 1 => i - 1 \in 1..(m + 1) /\ i - 1 # m + 1
          BY <5>1
        <5>4. i # 1 => g[i - 1] = f[i - 1]
          BY <5>3
        <5>. QED
          BY <5>2, <5>4
      <4>. QED
        BY <4>1, <4>2, <4>3
    <3>. QED
      BY <3>1
  <2>3. m + 1 \in Nat
    OBVIOUS
  <2>. HIDE DEF g
  <2>. QED
    BY <2>2, <2>3
<1>. HIDE DEF S
<1>3. w \in S
  BY <1>1, <1>2, Induction
<1>. QED
  BY <1>3 DEF S

\* The encoded entities follow each other, each at its place.
LEMMA Flattened ==
  ASSUME NEW seqs \in Seq(Seq(Bytes)), \A i \in 1..Len(seqs) : Len(seqs[i]) = 13
  PROVE  /\ FlattenSeq(seqs) \in Seq(Bytes) /\ Len(FlattenSeq(seqs)) = Len(seqs) * 13
         /\ \A i \in 1..Len(seqs) : Holds(FlattenSeq(seqs), (i - 1) * 13, seqs[i])
<1>. DEFINE N == Len(seqs)
            F(f) == [i \in 1..N |-> IF i = 1 THEN seqs[i] ELSE f[i - 1] \o seqs[i]]
<1>0. N \in Nat /\ \A i \in 1..N : seqs[i] \in Seq(Bytes)
  OBVIOUS
<1>1. CASE N = 0
  <2>1. FlattenSeq(seqs) = seqs /\ seqs = << >>
    BY <1>1 DEF FlattenSeq
  <2>. QED
    BY <1>1, <2>1
<1>2. CASE N # 0
  <2>1. PICK f : f = CHOOSE g : g = F(g)
    OBVIOUS
  <2>2. \E g : g = F(g)
    BY <1>0, FlattenDefined
  <2>3. f = F(f)
    BY <2>1, <2>2
  <2>4. FlattenSeq(seqs) = f[N]
    BY <1>2, <2>1 DEF FlattenSeq
  <2>5. f[1] = seqs[1] /\ \A i \in 2..N : f[i] = f[i - 1] \o seqs[i]
    <3>1. 1 \in 1..N
      BY <1>0, <1>2
    <3>2. f[1] = seqs[1]
      BY <2>3, <3>1
    <3>3. ASSUME NEW i \in 2..N PROVE f[i] = f[i - 1] \o seqs[i]
      <4>1. i \in 1..N /\ i # 1
        BY <1>0
      <4>. QED
        BY <2>3, <4>1
    <3>. QED
      BY <3>2, <3>3
  <2>. HIDE DEF F, N
  <2>. DEFINE P(n) == /\ f[n] \in Seq(Bytes) /\ Len(f[n]) = n * 13
                      /\ \A i \in 1..n : Holds(f[n], (i - 1) * 13, seqs[i])
              S == {n \in Nat : n + 1 <= N => P(n + 1)}
  <2>6. 0 \in S
    <3>1. 1 \in 1..N
      BY <1>0, <1>2
    <3>2. f[1] \in Seq(Bytes) /\ Len(f[1]) = 13
      BY <1>0, <2>5, <3>1 DEF N
    <3>3. Holds(f[1], 0, seqs[1])
      BY <2>5, <3>2, HoldsFirst
    <3>4. (1 - 1) * 13 = 0 /\ 1 * 13 = 13 /\ 0 + 1 = 1 /\ \A i \in 1..1 : i = 1
      OBVIOUS
    <3>5. \A i \in 1..1 : Holds(f[1], (i - 1) * 13, seqs[i])
      BY <3>3, <3>4
    <3>6. P(1)
      BY <3>2, <3>4, <3>5
    <3>. QED
      BY <3>4, <3>6
  <2>7. ASSUME NEW n \in Nat, n \in S PROVE n + 1 \in S
    <3>. SUFFICES ASSUME (n + 1) + 1 <= N PROVE P((n + 1) + 1)
      OBVIOUS
    <3>1. P(n + 1)
      BY <1>0, <2>7
    <3>2. PICK m : m = (n + 1) + 1
      OBVIOUS
    <3>3. m \in 2..N /\ m \in 1..N /\ m - 1 = n + 1 /\ m \in Nat
      BY <1>0, <3>2
    <3>4. f[m] = f[n + 1] \o seqs[m] /\ seqs[m] \in Seq(Bytes) /\ Len(seqs[m]) = 13
      BY <1>0, <2>5, <3>3 DEF N
    <3>5. f[m] \in Seq(Bytes) /\ Len(f[m]) = (n + 1) * 13 + 13
      <4>1. f[n + 1] \in Seq(Bytes) /\ Len(f[n + 1]) = (n + 1) * 13
        BY <3>1
      <4>. HIDE DEF S, P
      <4>2. f[m] \in Seq(Bytes) /\ Len(f[m]) = Len(f[n + 1]) + Len(seqs[m])
        <5>1. PICK a : a = f[n + 1]
          OBVIOUS
        <5>2. PICK b : b = seqs[m]
          OBVIOUS
        <5>3. a \o b \in Seq(Bytes) /\ Len(a \o b) = Len(a) + Len(b)
          BY <3>4, <4>1, <5>1, <5>2, Joined
        <5>. QED
          BY <3>4, <5>1, <5>2, <5>3
      <4>. QED
        BY <3>4, <4>1, <4>2
    <3>6. ASSUME NEW i \in 1..m PROVE Holds(f[m], (i - 1) * 13, seqs[i])
      <4>1. CASE i <= n + 1
        <5>1. i \in 1..(n + 1) /\ i \in 1..N /\ (i - 1) * 13 \in Nat
          BY <1>0, <3>3, <4>1
        <5>2. Holds(f[n + 1], (i - 1) * 13, seqs[i]) /\ seqs[i] \in Seq(Bytes) /\ f[n + 1] \in Seq(Bytes)
          BY <1>0, <3>1, <5>1
        <5>3. PICK at \in Nat : at = (i - 1) * 13
          BY <5>1
        <5>4. Holds(f[n + 1] \o seqs[m], at, seqs[i])
          BY <3>4, <5>2, <5>3, HoldsStill
        <5>. QED
          BY <3>4, <5>3, <5>4
      <4>2. CASE ~(i <= n + 1)
        <5>1. i = m /\ (i - 1) * 13 = (n + 1) * 13
          BY <3>3, <4>2
        <5>2. Holds(f[n + 1] \o seqs[m], (n + 1) * 13, seqs[m])
          BY <3>1, <3>4, HoldsLast
        <5>. QED
          BY <3>4, <5>1, <5>2
      <4>. QED
        BY <4>1, <4>2
    <3>7. (n + 1) * 13 + 13 = m * 13
      BY <3>2
    <3>8. P(m)
      BY <3>5, <3>6, <3>7
    <3>. QED
      BY <3>2, <3>8
  <2>. HIDE DEF S, P
  <2>8. PICK n \in Nat : n + 1 = N
    <3>1. N - 1 \in Nat /\ (N - 1) + 1 = N
      BY <1>0, <1>2
    <3>. QED
      BY <3>1
  <2>9. n \in S
    BY <2>6, <2>7, Induction
  <2>10. P(N)
    BY <1>0, <2>8, <2>9 DEF S
  <2>. QED
    BY <2>4, <2>10 DEF P, N
<1>. QED
  BY <1>1, <1>2

LEMMA SnapshotBytes ==
  ASSUME NEW s \in Snapshot
  PROVE  /\ encodeSnapshot(s) \in Seq(Bytes)
         /\ Len(s.entities) \in Nat /\ Len(encodeSnapshot(s)) = 18 + Len(s.entities) * 13
         /\ Holds(encodeSnapshot(s), 0, little(s.tick, 4))
         /\ Holds(encodeSnapshot(s), 12, little(s.timeOfDay, 4))
         /\ Holds(encodeSnapshot(s), 16, little(Len(s.entities), 2))
         /\ \A i \in 1..Len(s.entities) :
              /\ s.entities[i] \in Entity
              /\ Holds(encodeSnapshot(s), 18 + (i - 1) * 13, encodeEntity(s.entities[i]))
<1>1. /\ s.tick \in Nat /\ s.serverTimeMs \in Nat /\ s.timeOfDay \in Nat
      /\ s.entities \in Seq(Entity) /\ Len(s.entities) \in Nat
      /\ \A i \in 1..Len(s.entities) : s.entities[i] \in Entity
  BY Widths DEF Snapshot
<1>2. PICK n : n = Len(s.entities)
  OBVIOUS
<1>3. PICK a : a = little(s.tick, 4)
  OBVIOUS
<1>4. PICK b : b = little(s.serverTimeMs, 8)
  OBVIOUS
<1>5. PICK c : c = little(s.timeOfDay, 4)
  OBVIOUS
<1>6. PICK d : d = little(n, 2)
  OBVIOUS
<1>7. PICK seqs : seqs = [i \in DOMAIN s.entities |-> encodeEntity(s.entities[i])]
  OBVIOUS
<1>8. PICK e : e = FlattenSeq(seqs)
  OBVIOUS
<1>9. /\ a \in Seq(Bytes) /\ Len(a) = 4 /\ b \in Seq(Bytes) /\ Len(b) = 8
      /\ c \in Seq(Bytes) /\ Len(c) = 4 /\ d \in Seq(Bytes) /\ Len(d) = 2
  <2>1. 2 \in 1..8 /\ 4 \in 1..8 /\ 8 \in 1..8
    OBVIOUS
  <2>. QED
    BY <1>1, <1>2, <1>3, <1>4, <1>5, <1>6, <2>1, LittleBytes DEF Bytes
<1>10. /\ seqs \in Seq(Seq(Bytes)) /\ Len(seqs) = n
       /\ \A i \in 1..n : seqs[i] = encodeEntity(s.entities[i]) /\ Len(seqs[i]) = 13
  <2>1. DOMAIN s.entities = 1..n /\ n \in Nat
    BY <1>1, <1>2
  <2>2. \A i \in 1..n : encodeEntity(s.entities[i]) \in Seq(Bytes) /\ Len(encodeEntity(s.entities[i])) = 13
    BY <1>1, <1>2, EntityBytes
  <2>. QED
    BY <1>7, <2>1, <2>2
<1>11. /\ e \in Seq(Bytes) /\ Len(e) = n * 13
       /\ \A i \in 1..n : Holds(e, (i - 1) * 13, seqs[i])
  BY <1>8, <1>10, Flattened
<1>12. encodeSnapshot(s) = (((a \o b) \o c) \o d) \o e
  BY <1>2, <1>3, <1>4, <1>5, <1>6, <1>7, <1>8 DEF encodeSnapshot, u32, u64, f32, u16
<1>13. PICK ab : ab = a \o b
  OBVIOUS
<1>14. ab \in Seq(Bytes) /\ Len(ab) = 12 /\ Holds(ab, 0, a)
  <2>1. Holds(a, 0, a)
    BY <1>9, HoldsFirst
  <2>2. ab \in Seq(Bytes) /\ Len(ab) = Len(a) + Len(b)
    BY <1>9, <1>13, JoinedBytes
  <2>3. Holds(ab, 0, a)
    BY <1>9, <1>13, <2>1, HoldsStill
  <2>. QED
    BY <1>9, <2>2, <2>3
<1>15. PICK abc : abc = ab \o c
  OBVIOUS
<1>16. abc \in Seq(Bytes) /\ Len(abc) = 16 /\ Holds(abc, 0, a) /\ Holds(abc, 12, c)
  <2>1. abc \in Seq(Bytes) /\ Len(abc) = Len(ab) + Len(c)
    BY <1>9, <1>14, <1>15, JoinedBytes
  <2>2. Holds(abc, 0, a)
    BY <1>9, <1>14, <1>15, HoldsStill
  <2>3. Holds(abc, 12, c)
    BY <1>9, <1>14, <1>15, HoldsLast
  <2>. QED
    BY <1>9, <1>14, <2>1, <2>2, <2>3
<1>17. PICK abcd : abcd = abc \o d
  OBVIOUS
<1>18. /\ abcd \in Seq(Bytes) /\ Len(abcd) = 18 /\ Holds(abcd, 0, a) /\ Holds(abcd, 12, c)
       /\ Holds(abcd, 16, d)
  <2>1. abcd \in Seq(Bytes) /\ Len(abcd) = Len(abc) + Len(d)
    BY <1>9, <1>16, <1>17, JoinedBytes
  <2>2. Holds(abcd, 0, a) /\ Holds(abcd, 12, c)
    BY <1>9, <1>16, <1>17, HoldsStill
  <2>3. Holds(abcd, 16, d)
    BY <1>9, <1>16, <1>17, HoldsLast
  <2>. QED
    BY <1>9, <1>16, <2>1, <2>2, <2>3
<1>19. PICK all : all = abcd \o e
  OBVIOUS
<1>20. /\ all \in Seq(Bytes) /\ Len(all) = 18 + n * 13
       /\ Holds(all, 0, a) /\ Holds(all, 12, c) /\ Holds(all, 16, d)
  <2>1. all \in Seq(Bytes) /\ Len(all) = Len(abcd) + Len(e)
    BY <1>11, <1>18, <1>19, JoinedBytes
  <2>2. Holds(all, 0, a) /\ Holds(all, 12, c) /\ Holds(all, 16, d)
    BY <1>9, <1>11, <1>18, <1>19, HoldsStill
  <2>. QED
    BY <1>11, <1>18, <2>1, <2>2
<1>21. ASSUME NEW i \in 1..n PROVE Holds(all, 18 + (i - 1) * 13, seqs[i])
  <2>1. n \in Nat /\ (i - 1) * 13 \in Nat
    BY <1>1, <1>2
  <2>2. PICK at \in Nat : at = (i - 1) * 13
    BY <2>1
  <2>3. at + Len(seqs[i]) <= Len(e) /\ \A k \in 1..Len(seqs[i]) : e[at + k] = seqs[i][k]
    BY <1>11, <2>2 DEF Holds
  <2>4. Len(seqs[i]) = 13 /\ Len(e) \in Nat
    BY <1>10, <1>11
  <2>5. ASSUME NEW k \in 1..13 PROVE all[(18 + at) + k] = seqs[i][k]
    <3>0. at + 13 <= Len(e) /\ Len(e) \in Nat /\ Len(abcd) = 18
      BY <1>18, <2>3, <2>4
    <3>1. at + k \in 1..Len(e) /\ (18 + at) + k = Len(abcd) + (at + k)
      BY <3>0
    <3>2. all[Len(abcd) + (at + k)] = e[at + k]
      <4>1. e \in Seq(Bytes) /\ abcd \in Seq(Bytes)
        BY <1>11, <1>18
      <4>2. \A j \in 1..Len(e) : all[Len(abcd) + j] = e[j]
        BY <1>19, <4>1, Joined
      <4>. QED
        BY <3>1, <4>2
    <3>. QED
      BY <2>3, <2>4, <3>1, <3>2
  <2>6. (18 + at) + 13 <= Len(all)
    <3>1. Len(all) = Len(abcd) + Len(e)
      BY <1>11, <1>18, <1>19, JoinedBytes
    <3>. QED
      BY <1>18, <2>3, <2>4, <3>1
  <2>. QED
    BY <2>2, <2>4, <2>5, <2>6 DEF Holds
<1>22. encodeSnapshot(s) = all
  BY <1>12, <1>13, <1>15, <1>17, <1>19
<1>. QED
  BY <1>1, <1>2, <1>3, <1>5, <1>6, <1>10, <1>20, <1>21, <1>22

\* What decodeSnapshot accepts of an encoded snapshot, cut anywhere, is that snapshot.
LEMMA SnapshotDecoded ==
  ASSUME NEW s \in Snapshot, Len(s.entities) <= 1 + MaxPlayers,
         NEW data \in Seq(Bytes), Len(data) <= Len(encodeSnapshot(s)),
         \A k \in 1..Len(data) : data[k] = encodeSnapshot(s)[k], decodeSnapshot(data).ok
  PROVE  /\ decodeSnapshot(data).tick = s.tick /\ decodeSnapshot(data).timeOfDay = s.timeOfDay
         /\ decodeSnapshot(data).entities = s.entities
<1>. DEFINE count == take(data, 16, 2)
<1>1. /\ Len(data) \in Nat /\ Len(s.entities) \in Nat
      /\ s.tick \in Nat /\ s.tick <= MaxTick /\ s.timeOfDay \in Nat /\ s.timeOfDay <= MaxTick
  BY Widths DEF Snapshot
<1>2. u32 + u64 + f32 = 16 /\ u32 + u64 = 12 /\ SnapshotSize = 18 /\ EntitySize = 13 /\ u16 = 2 /\ u32 = 4 /\ f32 = 4
  BY DEF u8, u16, u32, u64, f32, SnapshotSize, EntitySize
<1>3. Len(data) >= 18 /\ Complete(data, count)
  <2>1. ~(Len(data) < 18)
    BY <1>2 DEF decodeSnapshot
  <2>2. Complete(data, count)
    BY <1>2 DEF decodeSnapshot
  <2>. QED
    BY <1>1, <2>1, <2>2
<1>4. decodeSnapshot(data) =
        [ok |-> TRUE, tick |-> take(data, 0, 4), serverTimeMs |-> take(data, u32, u64),
         timeOfDay |-> take(data, 12, 4),
         entities |-> [i \in 1..count |-> decodeEntity(data, 18 + (i - 1) * 13)]]
  <2>1. ~(Len(data) < SnapshotSize)
    BY <1>1, <1>2, <1>3
  <2>2. ~(count > kMaxEntitiesPerSnapshot \/ ~Complete(data, count))
    BY <1>2 DEF decodeSnapshot
  <2>. QED
    BY <1>2, <2>1, <2>2 DEF decodeSnapshot
<1>5. PICK E : E = encodeSnapshot(s)
  OBVIOUS
<1>6. /\ Holds(E, 0, little(s.tick, 4)) /\ Holds(E, 12, little(s.timeOfDay, 4))
      /\ Holds(E, 16, little(Len(s.entities), 2))
      /\ Len(E) = 18 + Len(s.entities) * 13
  BY <1>5, SnapshotBytes
<1>7. Carried(data, 0, E, Len(data))
  <2>1. \A k \in 1..Len(data) : 0 + k = k
    BY <1>1
  <2>. QED
    BY <1>5, <2>1 DEF Carried
<1>8. s.tick < Power[4] /\ s.timeOfDay < Power[4] /\ Len(s.entities) < Power[2]
  <2>1. Power[4] \in Nat /\ Power[2] \in Nat
    BY Powers
  <2>. QED
    BY <1>1, <2>1, Widths, SMTT(30)
<1>9. /\ 2 \in 1..8 /\ 4 \in 1..8 /\ 0 \in Nat /\ 12 \in Nat /\ 16 \in Nat /\ 2 \in Nat /\ 4 \in Nat
      /\ 0 + 4 <= Len(data) /\ 12 + 4 <= Len(data) /\ 16 + 2 <= Len(data)
      /\ 0 + 0 = 0 /\ 0 + 12 = 12 /\ 0 + 16 = 16
  BY <1>1, <1>3
<1>10. take(data, 0, 4) = s.tick
  <2>1. Len(little(s.tick, 4)) = 4
    BY <1>1, <1>9, LittleBytes
  <2>2. Holds(E, 0, little(s.tick, 4))
    BY <1>6
  <2>3. Carried(data, 0, little(s.tick, 4), 4)
    <3>1. 0 \in Nat /\ 4 \in Nat /\ 0 + 4 <= Len(data) /\ Len(data) \in Nat
      BY <1>1, <1>9
    <3>. QED
      BY <1>7, <2>1, <2>2, <3>1, FieldCarried
  <2>. QED
    BY <1>1, <1>8, <1>9, <2>3, TakeCarried
<1>11. take(data, 12, 4) = s.timeOfDay
  <2>1. Len(little(s.timeOfDay, 4)) = 4
    BY <1>1, <1>9, LittleBytes
  <2>2. Holds(E, 12, little(s.timeOfDay, 4))
    BY <1>6
  <2>3. Carried(data, 12, little(s.timeOfDay, 4), 4)
    <3>1. 12 \in Nat /\ 4 \in Nat /\ 12 + 4 <= Len(data) /\ Len(data) \in Nat
      BY <1>1, <1>9
    <3>. QED
      BY <1>7, <2>1, <2>2, <3>1, FieldCarried
  <2>. QED
    BY <1>1, <1>8, <1>9, <2>3, TakeCarried
<1>12. take(data, 16, 2) = Len(s.entities)
  <2>1. Len(little(Len(s.entities), 2)) = 2
    BY <1>1, <1>9, LittleBytes
  <2>2. Holds(E, 16, little(Len(s.entities), 2))
    BY <1>6
  <2>3. Carried(data, 16, little(Len(s.entities), 2), 2)
    <3>1. 16 \in Nat /\ 2 \in Nat /\ 16 + 2 <= Len(data) /\ Len(data) \in Nat
      BY <1>1, <1>9
    <3>. QED
      BY <1>7, <2>1, <2>2, <3>1, FieldCarried
  <2>. QED
    BY <1>1, <1>8, <1>9, <2>3, TakeCarried
<1>13. ASSUME NEW i \in 1..Len(s.entities)
       PROVE  decodeEntity(data, 18 + (i - 1) * 13) = s.entities[i]
  <2>1. s.entities[i] \in Entity /\ Holds(E, 18 + (i - 1) * 13, encodeEntity(s.entities[i]))
    BY <1>5, SnapshotBytes
  <2>2. PICK at \in Nat : at = 18 + (i - 1) * 13
    <3>1. 18 + (i - 1) * 13 \in Nat
      BY <1>1
    <3>. QED
      BY <3>1
  <2>3. PICK piece : piece = encodeEntity(s.entities[i])
    OBVIOUS
  <2>4. Len(piece) = 13
    BY <2>1, <2>3, EntityBytes
  <2>5. at + 13 <= Len(data)
    <3>1. Len(data) >= 18 + Len(s.entities) * 13
      BY <1>2, <1>3, <1>12 DEF Complete
    <3>. QED
      BY <1>1, <2>2, <3>1
  <2>6. Carried(data, at, piece, 13)
    <3>1. Holds(E, at, piece) /\ 13 \in Nat /\ Len(data) \in Nat
      BY <1>1, <2>1, <2>2, <2>3
    <3>. QED
      BY <1>7, <2>4, <2>5, <3>1, FieldCarried
  <2>7. \A k \in 1..13 : data[at + k] = encodeEntity(s.entities[i])[k]
    BY <2>3, <2>6 DEF Carried
  <2>. QED
    BY <2>1, <2>2, <2>7, EntityDecoded, ZenonT(60)
<1>14. [i \in 1..count |-> decodeEntity(data, 18 + (i - 1) * 13)] = s.entities
  <2>1. s.entities \in Seq(Entity)
    BY DEF Snapshot
  <2>2. s.entities = [i \in 1..Len(s.entities) |-> s.entities[i]]
    BY <2>1
  <2>. QED
    BY <1>12, <1>13, <2>2
<1>. QED
  BY <1>4, <1>10, <1>11, <1>14

-----------------------------------------------------------------------------
(* The datagram of a snapshot.                                             *)

LEMMA PacketBytes ==
  ASSUME NEW s \in Snapshot, NEW q \in 0..MaxTick, NEW P,
         P = writeUdpHeader(kSnapshotType, q) \o encodeSnapshot(s)
  PROVE  /\ P \in Seq(Bytes) /\ Len(P) = 10 + Len(encodeSnapshot(s))
         /\ Len(encodeSnapshot(s)) \in Nat
         /\ Holds(P, 0, little(7, 4)) /\ Holds(P, 4, little(3, 2)) /\ Holds(P, 6, little(q, 4))
         /\ Holds(P, 10, encodeSnapshot(s))
<1>1. PICK a : a = little(7, 4)
  OBVIOUS
<1>2. PICK b : b = little(3, 2)
  OBVIOUS
<1>3. PICK c : c = little(q, 4)
  OBVIOUS
<1>4. PICK e : e = encodeSnapshot(s)
  OBVIOUS
<1>5. /\ a \in Seq(Bytes) /\ Len(a) = 4 /\ b \in Seq(Bytes) /\ Len(b) = 2
      /\ c \in Seq(Bytes) /\ Len(c) = 4
  <2>1. 2 \in 1..8 /\ 4 \in 1..8 /\ 7 \in Nat /\ 3 \in Nat /\ q \in Nat
    BY Widths
  <2>. QED
    BY <1>1, <1>2, <1>3, <2>1, LittleBytes DEF Bytes
<1>6. e \in Seq(Bytes) /\ Len(e) \in Nat
  BY <1>4, SnapshotBytes
<1>7. P = ((a \o b) \o c) \o e
  BY <1>1, <1>2, <1>3, <1>4 DEF writeUdpHeader, kUdpMagic, kSnapshotType, u32, u16
<1>8. PICK ab : ab = a \o b
  OBVIOUS
<1>9. ab \in Seq(Bytes) /\ Len(ab) = 6 /\ Holds(ab, 0, a) /\ Holds(ab, 4, b)
  <2>1. Holds(a, 0, a)
    BY <1>5, HoldsFirst
  <2>2. ab \in Seq(Bytes) /\ Len(ab) = Len(a) + Len(b)
    BY <1>5, <1>8, Joined
  <2>3. Holds(ab, 0, a)
    BY <1>5, <1>8, <2>1, HoldsStill
  <2>4. Holds(ab, 4, b)
    BY <1>5, <1>8, HoldsLast
  <2>. QED
    BY <1>5, <2>2, <2>3, <2>4
<1>10. PICK abc : abc = ab \o c
  OBVIOUS
<1>11. abc \in Seq(Bytes) /\ Len(abc) = 10 /\ Holds(abc, 0, a) /\ Holds(abc, 4, b) /\ Holds(abc, 6, c)
  <2>1. abc \in Seq(Bytes) /\ Len(abc) = Len(ab) + Len(c)
    BY <1>5, <1>9, <1>10, Joined
  <2>2. Holds(abc, 0, a) /\ Holds(abc, 4, b)
    BY <1>5, <1>9, <1>10, HoldsStill
  <2>3. Holds(abc, 6, c)
    BY <1>5, <1>9, <1>10, HoldsLast
  <2>. QED
    BY <1>5, <1>9, <2>1, <2>2, <2>3
<1>12. P = abc \o e
  BY <1>7, <1>8, <1>10
<1>13. P \in Seq(Bytes) /\ Len(P) = Len(abc) + Len(e)
  <2>1. abc \in Seq(Bytes) /\ e \in Seq(Bytes)
    BY <1>6, <1>11
  <2>2. abc \o e \in Seq(Bytes) /\ Len(abc \o e) = Len(abc) + Len(e)
    BY <2>1, Joined
  <2>. QED
    BY <1>12, <2>2
<1>14. Holds(P, 0, a) /\ Holds(P, 4, b) /\ Holds(P, 6, c)
  BY <1>5, <1>6, <1>11, <1>12, HoldsStill
<1>15. Holds(P, 10, e)
  BY <1>6, <1>11, <1>12, HoldsLast
<1>. QED
  BY <1>1, <1>2, <1>3, <1>4, <1>6, <1>11, <1>13, <1>14, <1>15

\* A datagram says which tick it is from.
LEMMA PacketTick ==
  ASSUME NEW s \in Snapshot, NEW q \in 0..MaxTick, NEW P,
         P = writeUdpHeader(kSnapshotType, q) \o encodeSnapshot(s)
  PROVE  TickOf(P) = q + 1
<1>1. /\ P \in Seq(Bytes) /\ Len(P) \in Nat /\ Len(P) >= 10 /\ Holds(P, 6, little(q, 4))
  <2>1. /\ P \in Seq(Bytes) /\ Holds(P, 6, little(q, 4)) /\ Len(encodeSnapshot(s)) \in Nat
        /\ Len(P) = 10 + Len(encodeSnapshot(s))
    BY PacketBytes
  <2>. QED
    BY <2>1
<1>2. q \in Nat /\ q < Power[4]
  <2>1. Power[4] \in Nat
    BY Powers
  <2>. QED
    BY <2>1, Widths
<1>3. 4 \in 1..8 /\ 0 \in Nat /\ 6 \in Nat /\ 4 \in Nat /\ 6 + 4 <= Len(P) /\ 0 + 6 = 6
  BY <1>1
<1>4. Carried(P, 0, P, Len(P))
  <2>1. \A k \in 1..Len(P) : 0 + k = k
    BY <1>1
  <2>. QED
    BY <2>1 DEF Carried
<1>5. Len(little(q, 4)) = 4
  BY <1>2, <1>3, LittleBytes
<1>6. Carried(P, 0 + 6, little(q, 4), 4)
  BY <1>1, <1>3, <1>4, <1>5, PieceCarried
<1>7. take(P, 6, 4) = q
  BY <1>2, <1>3, <1>6, TakeCarried
<1>. QED
  BY <1>7 DEF TickOf, u32, u16

\* What a receive leaves of it: the first bytes.
LEMMA ReceivedBytes ==
  ASSUME NEW P \in Seq(Bytes)
  PROVE  /\ receiveFrom(P) \in Seq(Bytes) /\ Len(receiveFrom(P)) \in Nat /\ Len(receiveFrom(P)) <= Len(P)
         /\ Carried(receiveFrom(P), 0, P, Len(receiveFrom(P)))
<1>1. PICK n : n = IF Len(P) <= Capacity THEN Len(P) ELSE Capacity
  OBVIOUS
<1>2. n \in 0..Len(P) /\ n \in Nat /\ Len(P) \in Nat
  BY <1>1, Widths
<1>3. receiveFrom(P) = SubSeq(P, 1, n)
  BY <1>1 DEF receiveFrom
<1>4. /\ SubSeq(P, 1, n) \in Seq(Bytes) /\ Len(SubSeq(P, 1, n)) = n
      /\ \A k \in 1..n : SubSeq(P, 1, n)[k] = P[k]
  BY <1>2, FirstBytes
<1>5. \A k \in 1..n : 0 + k = k
  BY <1>2
<1>. QED
  BY <1>2, <1>3, <1>4, <1>5 DEF Carried

LEMMA HeaderRead ==
  ASSUME NEW s \in Snapshot, NEW q \in 0..MaxTick, NEW P,
         P = writeUdpHeader(kSnapshotType, q) \o encodeSnapshot(s),
         readUdpHeader(receiveFrom(P)).ok
  PROVE  readUdpHeader(receiveFrom(P)).sequence = q
<1>1. /\ P \in Seq(Bytes) /\ Holds(P, 6, little(q, 4))
  BY PacketBytes
<1>2. PICK data : data = receiveFrom(P)
  OBVIOUS
<1>3. Len(data) \in Nat /\ Carried(data, 0, P, Len(data))
  BY <1>1, <1>2, ReceivedBytes
<1>4. HeaderSize = 10 /\ u32 + u16 = 6 /\ u32 = 4
  BY DEF HeaderSize, u32, u16
<1>5. ~(Len(data) < 10) /\ readUdpHeader(data).sequence = take(data, 6, 4)
  <2>1. ~(Len(data) < HeaderSize \/ take(data, 0, u32) # kUdpMagic)
    BY <1>2 DEF readUdpHeader
  <2>. QED
    BY <1>4, <2>1 DEF readUdpHeader
<1>6. q \in Nat /\ q < Power[4]
  <2>1. Power[4] \in Nat
    BY Powers
  <2>. QED
    BY <2>1, Widths
<1>7. 4 \in 1..8 /\ 0 \in Nat /\ 6 \in Nat /\ 4 \in Nat /\ 6 + 4 <= Len(data) /\ 0 + 6 = 6
  BY <1>3, <1>5
<1>8. Len(little(q, 4)) = 4
  BY <1>6, <1>7, LittleBytes
<1>9. Carried(data, 0 + 6, little(q, 4), 4)
  BY <1>1, <1>3, <1>7, <1>8, PieceCarried
<1>10. take(data, 6, 4) = q
  BY <1>6, <1>7, <1>9, TakeCarried
<1>. QED
  BY <1>2, <1>5, <1>10

LEMMA NothingCut ==
  ASSUME NEW S, NEW a \in Seq(S), NEW n \in Nat, n = Len(a), ~(n >= 10)
  PROVE  SubSeq(a, 10 + 1, n) = << >>
  OBVIOUS

\* Of n bytes, ten are the header's, and the rest begin a body of m.
LEMMA BodyFits ==
  ASSUME NEW m \in Nat, NEW p, p = 10 + m, NEW n \in Nat, n <= p, n >= 10, NEW l, l = n - 10
  PROVE  l \in Nat /\ l <= m
  OBVIOUS

LEMMA BehindHeader ==
  ASSUME NEW n \in Nat, NEW m \in Nat, NEW l \in Nat, l = n - 10, l <= m, NEW k \in 1..l
  PROVE  k \in 1..(n - 10) /\ 10 + k \in 1..n /\ k \in 1..m /\ 0 + (10 + k) = 10 + k
  OBVIOUS

LEMMA BodyDecoded ==
  ASSUME NEW s \in Snapshot, Len(s.entities) <= 1 + MaxPlayers, NEW q \in 0..MaxTick, NEW P,
         P = writeUdpHeader(kSnapshotType, q) \o encodeSnapshot(s), NEW body,
         body = SubSeq(receiveFrom(P), HeaderSize + 1, Len(receiveFrom(P)))
  PROVE  /\ body \in Seq(Bytes)
         /\ decodeSnapshot(body).ok =>
              /\ decodeSnapshot(body).tick = s.tick /\ decodeSnapshot(body).timeOfDay = s.timeOfDay
              /\ decodeSnapshot(body).entities = s.entities
<1>1. PICK E : E = encodeSnapshot(s)
  OBVIOUS
<1>2. P \in Seq(Bytes) /\ Len(P) = 10 + Len(E) /\ Len(E) \in Nat /\ Holds(P, 10, E)
  BY <1>1, PacketBytes
<1>3. PICK data : data = receiveFrom(P)
  OBVIOUS
<1>4. /\ data \in Seq(Bytes) /\ Len(data) \in Nat /\ Len(data) <= Len(P) /\ Carried(data, 0, P, Len(data))
  BY <1>2, <1>3, ReceivedBytes
<1>5. body = SubSeq(data, 10 + 1, Len(data))
  BY <1>3 DEF HeaderSize, u32, u16
<1>6. body \in Seq(Bytes) /\ Len(body) \in Nat /\ Len(body) <= Len(E) /\ \A k \in 1..Len(body) : body[k] = E[k]
  <2>1. CASE Len(data) >= 10
    <3>1. 10 \in 0..Len(data)
      BY <1>4, <2>1
    <3>2. /\ body \in Seq(Bytes) /\ Len(body) = Len(data) - 10
          /\ \A k \in 1..(Len(data) - 10) : body[k] = data[10 + k]
      <4>1. PICK B : B = Bytes
        OBVIOUS
      <4>2. data \in Seq(B)
        BY <1>4, <4>1
      <4>3. PICK f : f = 10
        OBVIOUS
      <4>4. f \in 0..Len(data) /\ body = SubSeq(data, f + 1, Len(data))
        BY <1>5, <3>1, <4>3
      <4>5. /\ body \in Seq(B) /\ Len(body) = Len(data) - f
            /\ \A k \in 1..(Len(data) - f) : body[k] = data[f + k]
        BY <4>2, <4>4, LaterBytes, ZenonT(60)
      <4>. QED
        BY <4>1, <4>3, <4>5
    <3>3. /\ Len(body) \in Nat /\ Len(body) <= Len(E) /\ Len(body) = Len(data) - 10
          /\ Len(data) \in Nat /\ Len(E) \in Nat
      <4>1. /\ Len(P) = 10 + Len(E) /\ Len(E) \in Nat /\ Len(data) \in Nat /\ Len(data) <= Len(P)
            /\ Len(body) = Len(data) - 10
        BY <1>2, <1>4, <3>2
      <4>. QED
        BY <2>1, <4>1, BodyFits, ZenonT(60)
    <3>4. ASSUME NEW k \in 1..Len(body) PROVE body[k] = E[k]
      <4>1. k \in 1..(Len(data) - 10) /\ 10 + k \in 1..Len(data) /\ k \in 1..Len(E) /\ 0 + (10 + k) = 10 + k
        BY <3>3, BehindHeader, ZenonT(60)
      <4>2. body[k] = data[10 + k]
        BY <3>2, <4>1
      <4>3. data[10 + k] = P[10 + k]
        BY <1>4, <4>1 DEF Carried
      <4>4. P[10 + k] = E[k]
        BY <1>2, <4>1 DEF Holds
      <4>. QED
        BY <4>2, <4>3, <4>4
    <3>. QED
      BY <3>2, <3>3, <3>4
  <2>2. CASE ~(Len(data) >= 10)
    <3>1. body = << >>
      BY <1>4, <1>5, <2>2, NothingCut
    <3>0. << >> \in Seq(Bytes) /\ Len(<< >>) = 0
      OBVIOUS
    <3>2. body \in Seq(Bytes) /\ Len(body) = 0
      BY <3>0, <3>1, Zenon
    <3>3. Len(body) \in Nat /\ Len(body) <= Len(E) /\ 1..Len(body) = {}
      BY <1>2, <3>2
    <3>4. \A k \in 1..Len(body) : body[k] = E[k]
      BY <3>3
    <3>. QED
      BY <3>2, <3>3, <3>4
  <2>. QED
    BY <2>1, <2>2
<1>. QED
  BY <1>1, <1>6, SnapshotDecoded

-----------------------------------------------------------------------------
(* The simulation.                                                         *)

LEMMA Removed ==
  ASSUME NEW S, NEW s \in Seq(S), NEW k \in DOMAIN s
  PROVE  /\ RemoveAt(s, k) \in Seq(S) /\ Len(RemoveAt(s, k)) = Len(s) - 1 /\ Len(s) \in Nat /\ k \in 1..Len(s)
         /\ \A j \in 1..(Len(s) - 1) : RemoveAt(s, k)[j] = IF j < k THEN s[j] ELSE s[j + 1]
<1>1. k \in 1..Len(s) /\ Len(s) \in Nat
  OBVIOUS
<1>2. PICK a : a = SubSeq(s, 1, k - 1)
  OBVIOUS
<1>3. PICK b : b = SubSeq(s, k + 1, Len(s))
  OBVIOUS
<1>4. a \in Seq(S) /\ Len(a) = k - 1 /\ \A j \in 1..(k - 1) : a[j] = s[j]
  <2>1. k - 1 \in 0..Len(s)
    BY <1>1
  <2>. QED
    BY <1>2, <2>1, FirstBytes
<1>5. b \in Seq(S) /\ Len(b) = Len(s) - k /\ \A j \in 1..(Len(s) - k) : b[j] = s[k + j]
  <2>1. k \in 0..Len(s)
    BY <1>1
  <2>. QED
    BY <1>3, <2>1, LaterBytes
<1>6. RemoveAt(s, k) = a \o b
  BY <1>2, <1>3 DEF RemoveAt
<1>7. /\ a \o b \in Seq(S) /\ Len(a \o b) = Len(a) + Len(b)
      /\ \A j \in 1..Len(a) : (a \o b)[j] = a[j]
      /\ \A j \in 1..Len(b) : (a \o b)[Len(a) + j] = b[j]
  <2>1. a \in Seq(S) /\ b \in Seq(S)
    BY <1>4, <1>5
  <2>. QED
    BY <2>1, Joined
<1>8. Len(a \o b) = Len(s) - 1
  <2>1. Len(a) = k - 1 /\ Len(b) = Len(s) - k /\ Len(a \o b) = Len(a) + Len(b)
    BY <1>4, <1>5, <1>7
  <2>. QED
    BY <1>1, <2>1
<1>9. ASSUME NEW j \in 1..(Len(s) - 1) PROVE (a \o b)[j] = IF j < k THEN s[j] ELSE s[j + 1]
  <2>1. CASE j < k
    <3>1. j \in 1..(k - 1)
      BY <1>1, <2>1
    <3>. QED
      BY <1>4, <1>7, <2>1, <3>1
  <2>2. CASE ~(j < k)
    <3>1. PICK i : i = j - (k - 1)
      OBVIOUS
    <3>2. i \in 1..(Len(s) - k) /\ j = (k - 1) + i /\ k + i = j + 1
      BY <1>1, <2>2, <3>1
    <3>. QED
      BY <1>4, <1>5, <1>7, <2>2, <3>2, ZenonT(60)
  <2>. QED
    BY <2>1, <2>2
<1>. QED
  BY <1>1, <1>6, <1>7, <1>8, <1>9

\* What stays of a sequence was in it, in the same order.
Place(k, j) == IF j < k THEN j ELSE j + 1

LEMMA Kept ==
  ASSUME NEW S, NEW s \in Seq(S), NEW k \in DOMAIN s, NEW t, t = RemoveAt(s, k)
  PROVE  /\ t \in Seq(S) /\ Len(t) = Len(s) - 1 /\ Len(t) \in Nat /\ Len(s) \in Nat
         /\ \A j \in 1..Len(t) : Place(k, j) \in 1..Len(s) /\ t[j] = s[Place(k, j)]
         /\ \A i, j \in 1..Len(t) : i < j => Place(k, i) < Place(k, j)
<1>1. /\ t \in Seq(S) /\ Len(t) = Len(s) - 1 /\ Len(s) \in Nat /\ k \in 1..Len(s)
  BY Removed
<1>2. \A j \in 1..(Len(s) - 1) : t[j] = IF j < k THEN s[j] ELSE s[j + 1]
  BY Removed
<1>3. ASSUME NEW j \in 1..Len(t) PROVE Place(k, j) \in 1..Len(s) /\ t[j] = s[Place(k, j)]
  BY <1>1, <1>2 DEF Place
<1>4. ASSUME NEW i \in 1..Len(t), NEW j \in 1..Len(t), i < j PROVE Place(k, i) < Place(k, j)
  <2>1. i \in Nat /\ j \in Nat /\ k \in Nat
    BY <1>1
  <2>. QED
    BY <1>4, <2>1 DEF Place
<1>5. Len(t) \in Nat
  BY <1>1
<1>. QED
  BY <1>1, <1>3, <1>4, <1>5

LEMMA Constants ==
  /\ kCubeEntityId = 1 /\ kCube = 0 /\ kPlayer = 1 /\ EntityIds = 1..(1 + MaxPlayers)
  BY DEF kCubeEntityId, kCube, kPlayer, EntityIds

LEMMA EntityFields ==
  ASSUME NEW e \in Entity
  PROVE  /\ e.id \in 1..(1 + MaxPlayers) /\ e.id \in Nat /\ e.type \in {0, 1}
         /\ e.pose \in 0..MaxTick /\ e.pose \in Nat
         /\ e.lastInputSequence \in 0..MaxTick /\ e.lastInputSequence \in Nat
  BY Constants, Widths DEF Entity

LEMMA AddPlayerSimulated ==
  ASSUME Simulated, addPlayer
  PROVE  Simulated'
<1>1. PICK p : p = [id |-> mNextEntityId, type |-> kPlayer, pose |-> 0, lastInputSequence |-> 0]
  OBVIOUS
<1>2. /\ mPlayers' = Append(mPlayers, p) /\ mNextEntityId' = mNextEntityId + 1
      /\ mNextEntityId <= 1 + MaxPlayers
      /\ mTick' = mTick /\ mTimeOfDay' = mTimeOfDay /\ outgoingSequence' = outgoingSequence
  BY <1>1, Constants DEF addPlayer, sender
<1>3. /\ mTick \in 0..MaxTick /\ mTimeOfDay = mTick /\ outgoingSequence = mTick
      /\ mPlayers \in Seq(Entity) /\ Len(mPlayers) \in Nat
      /\ mNextEntityId \in 2..(1 + MaxPlayers + 1) /\ Len(mPlayers) + 1 < mNextEntityId
  BY Constants DEF Simulated
<1>4. MaxPlayers \in Nat /\ MaxTick \in Nat
  BY Widths
<1>5. mNextEntityId \in 1..(1 + MaxPlayers) /\ 0 \in 0..MaxTick /\ mNextEntityId \in Nat
  BY <1>2, <1>3, <1>4
<1>6. p \in Entity /\ p.id = mNextEntityId /\ p.pose = 0 /\ p.lastInputSequence = 0
  BY <1>1, <1>5, Constants DEF Entity
<1>7. /\ mPlayers' \in Seq(Entity) /\ Len(mPlayers') = Len(mPlayers) + 1
      /\ mPlayers'[Len(mPlayers) + 1] = p
      /\ \A i \in 1..Len(mPlayers) : mPlayers'[i] = mPlayers[i]
  BY <1>2, <1>3, <1>6
<1>8. /\ mNextEntityId' \in 2..(1 + MaxPlayers + 1) /\ Len(mPlayers') + 1 < mNextEntityId'
  BY <1>2, <1>3, <1>4, <1>7
<1>9. ASSUME NEW i \in 1..Len(mPlayers')
      PROVE  /\ 1 < mPlayers'[i].id /\ mPlayers'[i].id < mNextEntityId + 1
             /\ mPlayers'[i].pose <= mTick /\ mPlayers'[i].lastInputSequence <= mTick
             /\ i # Len(mPlayers) + 1 => mPlayers'[i].id < mNextEntityId
  <2>1. CASE i = Len(mPlayers) + 1
    BY <1>3, <1>5, <1>6, <1>7, <2>1
  <2>2. CASE i # Len(mPlayers) + 1
    <3>1. i \in 1..Len(mPlayers)
      BY <1>3, <1>7, <2>2
    <3>2. /\ 1 < mPlayers[i].id /\ mPlayers[i].id < mNextEntityId
          /\ mPlayers[i].pose <= mTick /\ mPlayers[i].lastInputSequence <= mTick
      BY <3>1, Constants DEF Simulated
    <3>3. mPlayers[i].id \in Nat
      BY <1>3, <3>1, EntityFields
    <3>4. mPlayers[i].id < mNextEntityId + 1
      BY <1>5, <3>2, <3>3
    <3>. QED
      BY <1>7, <3>1, <3>2, <3>4
  <2>. QED
    BY <2>1, <2>2
<1>10. ASSUME NEW i \in 1..Len(mPlayers'), NEW j \in 1..Len(mPlayers'), i < j
       PROVE  mPlayers'[i].id < mPlayers'[j].id
  <2>1. i \in 1..Len(mPlayers) /\ i # Len(mPlayers) + 1
    BY <1>3, <1>7, <1>10
  <2>2. CASE j = Len(mPlayers) + 1
    BY <1>6, <1>7, <1>9, <2>1, <2>2
  <2>3. CASE j # Len(mPlayers) + 1
    <3>1. j \in 1..Len(mPlayers)
      BY <1>3, <1>7, <2>3
    <3>. QED
      BY <1>7, <1>10, <2>1, <3>1 DEF Simulated
  <2>. QED
    BY <2>2, <2>3
<1>. QED
  BY <1>2, <1>3, <1>7, <1>8, <1>9, <1>10, Constants DEF Simulated

LEMMA RemovePlayerSimulated ==
  ASSUME Simulated, NEW n \in DOMAIN mPlayers, removePlayer(n)
  PROVE  Simulated'
<1>1. /\ mPlayers' = RemoveAt(mPlayers, n) /\ mNextEntityId' = mNextEntityId
      /\ mTick' = mTick /\ mTimeOfDay' = mTimeOfDay /\ outgoingSequence' = outgoingSequence
  BY DEF removePlayer, sender
<1>2. /\ mPlayers \in Seq(Entity) /\ mNextEntityId \in Nat /\ Len(mPlayers) + 1 < mNextEntityId
      /\ Len(mPlayers) \in Nat
  BY Constants, Widths DEF Simulated
<1>3. PICK t : t = mPlayers'
  OBVIOUS
<1>4. /\ t \in Seq(Entity) /\ Len(t) = Len(mPlayers) - 1 /\ Len(t) \in Nat
      /\ \A j \in 1..Len(t) : Place(n, j) \in 1..Len(mPlayers) /\ t[j] = mPlayers[Place(n, j)]
      /\ \A i, j \in 1..Len(t) : i < j => Place(n, i) < Place(n, j)
  <2>1. PICK s : s = mPlayers
    OBVIOUS
  <2>2. s \in Seq(Entity) /\ n \in DOMAIN s /\ t = RemoveAt(s, n)
    BY <1>1, <1>2, <1>3, <2>1
  <2>3. /\ t \in Seq(Entity) /\ Len(t) = Len(s) - 1 /\ Len(t) \in Nat /\ Len(s) \in Nat
        /\ \A j \in 1..Len(t) : Place(n, j) \in 1..Len(s) /\ t[j] = s[Place(n, j)]
        /\ \A i, j \in 1..Len(t) : i < j => Place(n, i) < Place(n, j)
    BY <2>2, Kept
  <2>. QED
    BY <2>1, <2>3
<1>5. Len(t) + 1 < mNextEntityId
  BY <1>2, <1>4
<1>6. \A i \in 1..Len(t) :
        /\ 1 < t[i].id /\ t[i].id < mNextEntityId
        /\ t[i].pose <= mTick /\ t[i].lastInputSequence <= mTick
  BY <1>4, Constants DEF Simulated
<1>7. \A i, j \in 1..Len(t) : i < j => t[i].id < t[j].id
  BY <1>4 DEF Simulated
<1>. QED
  BY <1>1, <1>3, <1>4, <1>5, <1>6, <1>7, Constants DEF Simulated

\* The world after a step, and its snapshot.
LEMMA TickSimulated ==
  ASSUME Simulated, ServerTick
  PROVE  Simulated'
<1>1. /\ mTick < MaxTick /\ mTick' = mTick + 1 /\ mTimeOfDay' = mTimeOfDay + 1
      /\ outgoingSequence' = outgoingSequence + 1 /\ mNextEntityId' = mNextEntityId
      /\ mPlayers' = Moved(mPlayers)
  BY DEF ServerTick
<1>2. /\ mTick \in 0..MaxTick /\ mTimeOfDay = mTick /\ outgoingSequence = mTick
      /\ mPlayers \in Seq(Entity) /\ mNextEntityId \in Nat /\ Len(mPlayers) \in Nat
      /\ MaxTick \in Nat
  BY Constants, Widths DEF Simulated
<1>3. DOMAIN mPlayers = 1..Len(mPlayers)
  BY <1>2
<1>4. ASSUME NEW i \in 1..Len(mPlayers)
      PROVE  /\ mPlayers'[i] \in Entity /\ mPlayers'[i].id = mPlayers[i].id
             /\ mPlayers'[i].pose = mPlayers[i].pose + 1
             /\ mPlayers'[i].lastInputSequence = mPlayers[i].lastInputSequence + 1
             /\ mPlayers'[i].pose <= mTick + 1 /\ mPlayers'[i].lastInputSequence <= mTick + 1
  <2>1. mPlayers[i] \in Entity
    BY <1>2
  <2>2. mPlayers[i].pose <= mTick /\ mPlayers[i].lastInputSequence <= mTick
    BY DEF Simulated
  <2>3. /\ mPlayers[i].pose \in Nat /\ mPlayers[i].lastInputSequence \in Nat
    BY <2>1, EntityFields
  <2>4. /\ mPlayers[i].pose + 1 \in 0..MaxTick /\ mPlayers[i].lastInputSequence + 1 \in 0..MaxTick
        /\ mPlayers[i].pose + 1 <= mTick + 1 /\ mPlayers[i].lastInputSequence + 1 <= mTick + 1
    BY <1>1, <1>2, <2>2, <2>3, SMTT(30)
  <2>5. mPlayers'[i] = [mPlayers[i] EXCEPT !.pose = @ + 1, !.lastInputSequence = @ + 1]
    BY <1>1, <1>3 DEF Moved
  <2>. QED
    BY <2>1, <2>4, <2>5 DEF Entity
<1>5. mPlayers' \in Seq(Entity) /\ Len(mPlayers') = Len(mPlayers)
  <2>1. mPlayers' = [i \in 1..Len(mPlayers) |-> mPlayers'[i]]
    BY <1>1, <1>3 DEF Moved
  <2>. QED
    BY <1>2, <1>4, <2>1
<1>6. mTick' \in 0..MaxTick /\ mTimeOfDay' = mTick' /\ outgoingSequence' = mTick'
  BY <1>1, <1>2
<1>. QED
  BY <1>1, <1>2, <1>4, <1>5, <1>6 DEF Simulated

LEMMA TickSnapshot ==
  ASSUME Simulated, Simulated', ServerTick, NEW s, s = buildSnapshot(mTick', mTimeOfDay', mPlayers')
  PROVE  /\ s \in Snapshot /\ s.tick = mTick' /\ Len(s.entities) <= 1 + MaxPlayers
         /\ \A i, j \in 1..Len(s.entities) : i < j => s.entities[i].id < s.entities[j].id
<1>1. /\ mTick' \in 0..MaxTick /\ mTimeOfDay' = mTick' /\ mPlayers' \in Seq(Entity)
      /\ Len(mPlayers') \in Nat /\ mNextEntityId' \in 2..(1 + MaxPlayers + 1)
      /\ Len(mPlayers') + 1 < mNextEntityId' /\ MaxPlayers \in Nat /\ MaxTick \in Nat
  BY Constants, Widths DEF Simulated
<1>2. PICK cube : cube = [id |-> kCubeEntityId, type |-> kCube, pose |-> mTick', lastInputSequence |-> 0]
  OBVIOUS
<1>3. cube \in Entity /\ cube.id = 1
  <2>1. 1 \in 1..(1 + MaxPlayers) /\ 0 \in 0..MaxTick
    BY <1>1
  <2>. QED
    BY <1>1, <1>2, <2>1, Constants DEF Entity
<1>4. PICK c : c = <<cube>>
  OBVIOUS
<1>5. c \in Seq(Entity) /\ Len(c) = 1 /\ c[1] = cube
  BY <1>3, <1>4
<1>6. PICK p : p = mPlayers'
  OBVIOUS
<1>7. s = [tick |-> mTick', serverTimeMs |-> mTick', timeOfDay |-> mTick', entities |-> c \o p]
  BY <1>1, <1>2, <1>4, <1>6 DEF buildSnapshot
<1>8. PICK all : all = c \o p
  OBVIOUS
<1>9. p \in Seq(Entity) /\ Len(p) \in Nat
  BY <1>1, <1>6
<1>10. /\ all \in Seq(Entity) /\ Len(all) = Len(c) + Len(p)
       /\ \A k \in 1..Len(c) : all[k] = c[k]
       /\ \A k \in 1..Len(p) : all[Len(c) + k] = p[k]
  <2>1. c \in Seq(Entity) /\ p \in Seq(Entity)
    BY <1>5, <1>9
  <2>. QED
    BY <1>8, <2>1, Joined
<1>11. Len(all) = 1 + Len(p) /\ all[1] = cube /\ \A k \in 1..Len(p) : all[1 + k] = p[k]
  <2>1. 1 \in 1..Len(c)
    BY <1>5
  <2>. QED
    BY <1>5, <1>10, <2>1
<1>12. Len(all) <= 1 + MaxPlayers
  <2>1. Len(p) + 1 < mNextEntityId'
    BY <1>1, <1>6
  <2>. QED
    BY <1>1, <1>9, <1>11, <2>1
<1>13. /\ s.tick = mTick' /\ s.entities = all /\ s \in Snapshot
  <2>1. PICK t : t = mTick'
    OBVIOUS
  <2>2. /\ s = [tick |-> t, serverTimeMs |-> t, timeOfDay |-> t, entities |-> all]
        /\ t \in 0..MaxTick /\ all \in Seq(Entity)
    BY <1>1, <1>7, <1>8, <1>10, <2>1
  <2>3. s.tick = t /\ s.entities = all /\ s \in Snapshot
    BY <2>2 DEF Snapshot
  <2>. QED
    BY <2>1, <2>3
<1>14. ASSUME NEW i \in 1..Len(all), NEW j \in 1..Len(all), i < j PROVE all[i].id < all[j].id
  <2>1. PICK k : k = j - 1
    OBVIOUS
  <2>2. k \in 1..Len(p) /\ j = 1 + k
    BY <1>9, <1>11, <1>14, <2>1
  <2>3. all[j] = p[k]
    BY <1>11, <2>2
  <2>4. CASE i = 1
    <3>1. 1 < p[k].id
      BY <1>6, <2>2, Constants DEF Simulated
    <3>. QED
      BY <1>3, <1>11, <2>3, <2>4, <3>1
  <2>5. CASE i # 1
    <3>1. PICK h : h = i - 1
      OBVIOUS
    <3>2. h \in 1..Len(p) /\ i = 1 + h /\ h < k
      BY <1>9, <1>11, <1>14, <2>2, <2>5, <3>1
    <3>3. all[i] = p[h]
      BY <1>11, <3>2
    <3>4. p[h].id < p[k].id
      BY <1>6, <2>2, <3>2 DEF Simulated
    <3>. QED
      BY <2>3, <3>3, <3>4
  <2>. QED
    BY <2>4, <2>5
<1>. QED
  BY <1>12, <1>13, <1>14

LEMMA TickRecorded ==
  ASSUME Simulated, Recorded, ServerTick
  PROVE  /\ Recorded' /\ mTick' = mTick + 1 /\ mTick \in Nat
         /\ \A k \in 1..mTick : history'[k] = history[k]
<1>1. PICK s : s = buildSnapshot(mTick', mTimeOfDay', mPlayers')
  OBVIOUS
<1>2. history' = Append(history, s) /\ mTick' = mTick + 1
  BY <1>1 DEF ServerTick
<1>3. /\ s \in Snapshot /\ s.tick = mTick' /\ Len(s.entities) <= 1 + MaxPlayers
      /\ \A i, j \in 1..Len(s.entities) : i < j => s.entities[i].id < s.entities[j].id
  BY <1>1, TickSimulated, TickSnapshot
<1>4. history \in Seq(Snapshot) /\ Len(history) = mTick /\ mTick \in Nat
  BY Widths DEF Recorded, Simulated
<1>5. /\ history' \in Seq(Snapshot) /\ Len(history') = mTick + 1 /\ history'[mTick + 1] = s
      /\ \A k \in 1..mTick : history'[k] = history[k]
  BY <1>2, <1>3, <1>4
<1>6. ASSUME NEW k \in 1..mTick'
      PROVE  /\ history'[k].tick = k /\ Len(history'[k].entities) <= 1 + MaxPlayers
             /\ \A i, j \in 1..Len(history'[k].entities) :
                  i < j => history'[k].entities[i].id < history'[k].entities[j].id
  <2>1. CASE k = mTick + 1
    BY <1>2, <1>3, <1>5, <2>1
  <2>2. CASE k # mTick + 1
    <3>1. k \in 1..mTick
      BY <1>2, <1>4, <2>2
    <3>. QED
      BY <1>5, <3>1 DEF Recorded
  <2>. QED
    BY <2>1, <2>2
<1>. QED
  BY <1>2, <1>4, <1>5, <1>6 DEF Recorded

\* The datagrams and bodies of the ticks so far.
LEMMA PacketFacts ==
  ASSUME Simulated, Recorded, NEW k \in 1..mTick
  PROVE  /\ PacketOf(k) \in Seq(Bytes) /\ TickOf(PacketOf(k)) = k
         /\ readUdpHeader(receiveFrom(PacketOf(k))).ok =>
              readUdpHeader(receiveFrom(PacketOf(k))).sequence = k - 1
         /\ BodyOf(k) \in Seq(Bytes)
         /\ decodeSnapshot(BodyOf(k)).ok =>
              /\ decodeSnapshot(BodyOf(k)).tick = k
              /\ decodeSnapshot(BodyOf(k)).timeOfDay = history[k].timeOfDay
              /\ decodeSnapshot(BodyOf(k)).entities = history[k].entities
<1>1. PICK s : s = history[k]
  OBVIOUS
<1>2. s \in Snapshot /\ s.tick = k /\ Len(s.entities) <= 1 + MaxPlayers
  BY <1>1 DEF Recorded
<1>3. PICK q : q = k - 1
  OBVIOUS
<1>4. q \in 0..MaxTick /\ q + 1 = k
  BY <1>3, Widths DEF Simulated
<1>5. PICK P : P = PacketOf(k)
  OBVIOUS
<1>6. P = writeUdpHeader(kSnapshotType, q) \o encodeSnapshot(s)
  BY <1>1, <1>3, <1>5 DEF PacketOf
<1>7. PICK body : body = BodyOf(k)
  OBVIOUS
<1>8. body = SubSeq(receiveFrom(P), HeaderSize + 1, Len(receiveFrom(P)))
  BY <1>5, <1>7 DEF BodyOf
<1>9. P \in Seq(Bytes)
  BY <1>2, <1>4, <1>6, PacketBytes
<1>10. TickOf(P) = k
  BY <1>2, <1>4, <1>6, PacketTick
<1>11. readUdpHeader(receiveFrom(P)).ok => readUdpHeader(receiveFrom(P)).sequence = q
  BY <1>2, <1>4, <1>6, HeaderRead
<1>12. /\ body \in Seq(Bytes)
       /\ decodeSnapshot(body).ok =>
            /\ decodeSnapshot(body).tick = s.tick /\ decodeSnapshot(body).timeOfDay = s.timeOfDay
            /\ decodeSnapshot(body).entities = s.entities
  BY <1>2, <1>4, <1>6, <1>8, BodyDecoded, ZenonT(60)
<1>. QED
  BY <1>1, <1>2, <1>3, <1>5, <1>7, <1>9, <1>10, <1>11, <1>12

-----------------------------------------------------------------------------
(* The datagrams and the client.                                           *)

\* A step that ends no tick leaves the record and its datagrams as they are.
LEMMA StillRecorded ==
  ASSUME Recorded, history' = history, mTick' = mTick
  PROVE  /\ Recorded'
         /\ \A d : Sent(d) => Sent(d)'
         /\ \A d : Heard(d) => Heard(d)'
<1>1. Recorded'
  BY DEF Recorded
<1>2. \A k \in 1..mTick : PacketOf(k)' = PacketOf(k) /\ BodyOf(k)' = BodyOf(k)
  BY DEF PacketOf, BodyOf
<1>. QED
  BY <1>1, <1>2 DEF Sent, Heard

LEMMA StillWhole ==
  ASSUME WholeSnapshots, shown' = shown, shownTime' = shownTime, mEntities' = mEntities,
         shown # 0 => history'[shown] = history[shown]
  PROVE  WholeSnapshots'
  BY DEF WholeSnapshots

LEMMA StillSimulated ==
  ASSUME Simulated, simulation' = simulation, outgoingSequence' = outgoingSequence
  PROVE  Simulated' /\ history' = history /\ mTick' = mTick
<1>1. /\ mTick' = mTick /\ mTimeOfDay' = mTimeOfDay /\ mPlayers' = mPlayers
      /\ mNextEntityId' = mNextEntityId /\ history' = history
  BY DEF simulation
<1>. QED
  BY <1>1 DEF Simulated

\* A step that moves no datagram and shows nothing.
LEMMA QuietKeeps ==
  ASSUME ReplicationInv, Simulated', history' = history, mTick' = mTick,
         held' \in BOOLEAN, delayedOutgoing' = delayedOutgoing, wire' = wire, client' = client
  PROVE  ReplicationInv'
<1>1. /\ mDelayedIncoming' = mDelayedIncoming /\ mLastSnapshotSequence' = mLastSnapshotSequence
      /\ mSnapshotsReceived' = mSnapshotsReceived /\ mEntities' = mEntities
      /\ shownTime' = shownTime /\ shown' = shown
  BY DEF client
<1>2. Flags'
  BY DEF client, ReplicationInv, Flags
<1>3. Counters'
  BY <1>1 DEF ReplicationInv, Counters
<1>4. Recorded' /\ (\A d : Sent(d) => Sent(d)') /\ (\A d : Heard(d) => Heard(d)')
  BY StillRecorded DEF ReplicationInv
<1>5. Genuine'
  BY <1>1, <1>4 DEF ReplicationInv, Genuine
<1>6. WholeSnapshots'
  BY <1>1, StillWhole DEF ReplicationInv
<1>. QED
  BY <1>2, <1>3, <1>4, <1>5, <1>6 DEF ReplicationInv

LEMMA Lengthened ==
  ASSUME NEW S, NEW s \in Seq(S), NEW d \in S, NEW t, t = Append(s, d)
  PROVE  /\ t \in Seq(S) /\ Len(t) = Len(s) + 1 /\ Len(s) \in Nat /\ t[Len(s) + 1] = d
         /\ \A i \in 1..Len(s) : t[i] = s[i]
         /\ \A i \in 1..Len(t) : i \in 1..Len(s) \/ i = Len(s) + 1
  OBVIOUS

LEMMA Shortened ==
  ASSUME NEW S, NEW s \in Seq(S), s # << >>, NEW t, t = Tail(s)
  PROVE  /\ Head(s) = s[1] /\ 1 \in 1..Len(s) /\ Head(s) \in S
         /\ t \in Seq(S) /\ Len(t) = Len(s) - 1 /\ Len(s) \in Nat /\ Len(t) \in Nat
         /\ \A i \in 1..Len(t) : i + 1 \in 1..Len(s) /\ t[i] = s[i + 1]
<1>1. Len(s) \in Nat /\ Len(s) > 0
  OBVIOUS
<1>2. /\ Head(s) = s[1] /\ 1 \in 1..Len(s) /\ Head(s) \in S
  BY <1>1
<1>3. t \in Seq(S) /\ Len(t) = Len(s) - 1
  BY <1>1
<1>4. \A i \in 1..Len(t) : i + 1 \in 1..Len(s)
  BY <1>1, <1>3
<1>5. \A i \in 1..Len(t) : t[i] = s[i + 1]
  BY <1>1, <1>3
<1>6. Len(t) \in Nat
  BY <1>1, <1>3
<1>. QED
  BY <1>1, <1>2, <1>3, <1>4, <1>5, <1>6

LEMMA TickKeeps ==
  ASSUME ReplicationInv, ServerTick
  PROVE  ReplicationInv'
<1>1. Flags /\ Counters /\ Simulated /\ Recorded /\ Genuine /\ WholeSnapshots
  BY DEF ReplicationInv
<1>2. Simulated'
  BY <1>1, TickSimulated
<1>3. /\ Recorded' /\ mTick' = mTick + 1 /\ mTick \in Nat
      /\ \A k \in 1..mTick : history'[k] = history[k]
  BY <1>1, TickRecorded
<1>4. PICK s : s = buildSnapshot(mTick', mTimeOfDay', mPlayers')
  OBVIOUS
<1>5. PICK d : d = Packet(s)
  OBVIOUS
<1>6. /\ history' = Append(history, s) /\ held' = held
      /\ \/ delayedOutgoing' = Append(delayedOutgoing, d) /\ wire' = wire
         \/ wire' = Append(wire, d) /\ delayedOutgoing' = delayedOutgoing
  BY <1>4, <1>5 DEF ServerTick
<1>7. /\ fakeLatency' = fakeLatency /\ mDelayedIncoming' = mDelayedIncoming
      /\ mLastSnapshotSequence' = mLastSnapshotSequence
      /\ mSnapshotsReceived' = mSnapshotsReceived /\ mEntities' = mEntities
      /\ shownTime' = shownTime /\ shown' = shown
  BY DEF ServerTick, client
<1>8. Sent(d)'
  <2>1. PICK n : n = mTick + 1
    OBVIOUS
  <2>2. n \in 1..mTick' /\ n - 1 = mTick
    BY <1>3, <2>1
  <2>3. history'[n] = s
    BY <1>1, <1>3, <1>6, <2>1 DEF Recorded
  <2>4. outgoingSequence = n - 1
    BY <1>1, <2>2 DEF Simulated
  <2>5. d = writeUdpHeader(kSnapshotType, n - 1) \o encodeSnapshot(history'[n])
    BY <1>5, <2>3, <2>4 DEF Packet
  <2>6. d = PacketOf(n)'
    BY <2>5 DEF PacketOf
  <2>. QED
    BY <2>2, <2>6 DEF Sent
<1>9. /\ \A x : Sent(x) => Sent(x)'
      /\ \A x : Heard(x) => Heard(x)'
  <2>1. \A k \in 1..mTick : k \in 1..mTick'
    BY <1>3
  <2>2. \A k \in 1..mTick : PacketOf(k)' = PacketOf(k) /\ BodyOf(k)' = BodyOf(k)
    BY <1>3 DEF PacketOf, BodyOf
  <2>. QED
    BY <2>1, <2>2 DEF Sent, Heard
<1>10. d \in Seq(Bytes)
  <2>1. s \in Snapshot
    BY <1>1, <1>2, <1>4, TickSnapshot
  <2>2. PICK q \in 0..MaxTick : q = outgoingSequence
    BY <1>1 DEF Simulated
  <2>3. d = writeUdpHeader(kSnapshotType, q) \o encodeSnapshot(s)
    BY <1>5, <2>2 DEF Packet
  <2>. QED
    BY <2>1, <2>3, PacketBytes
<1>11. /\ wire \in Seq(Seq(Bytes)) /\ delayedOutgoing \in Seq(Seq(Bytes))
       /\ \A i \in 1..Len(wire) : Sent(wire[i])
       /\ \A i \in 1..Len(delayedOutgoing) : Sent(delayedOutgoing[i])
       /\ \A i \in 1..Len(mDelayedIncoming) : Heard(mDelayedIncoming[i])
  BY <1>1 DEF Counters, Genuine
<1>12. PICK w, o, h : w = wire' /\ o = delayedOutgoing' /\ h = mDelayedIncoming'
  OBVIOUS
<1>13. w \in Seq(Seq(Bytes)) /\ \A i \in 1..Len(w) : Sent(w[i])'
  <2>1. CASE w = wire
    BY <1>9, <1>11, <2>1
  <2>2. CASE w = Append(wire, d)
    <3>1. /\ w \in Seq(Seq(Bytes)) /\ w[Len(wire) + 1] = d
          /\ \A i \in 1..Len(wire) : w[i] = wire[i]
          /\ \A i \in 1..Len(w) : i \in 1..Len(wire) \/ i = Len(wire) + 1
      BY <1>10, <1>11, <2>2, Lengthened
    <3>. QED
      BY <1>8, <1>9, <1>11, <3>1
  <2>. QED
    BY <1>6, <1>12, <2>1, <2>2
<1>14. o \in Seq(Seq(Bytes)) /\ \A i \in 1..Len(o) : Sent(o[i])'
  <2>1. CASE o = delayedOutgoing
    BY <1>9, <1>11, <2>1
  <2>2. CASE o = Append(delayedOutgoing, d)
    <3>1. /\ o \in Seq(Seq(Bytes)) /\ o[Len(delayedOutgoing) + 1] = d
          /\ \A i \in 1..Len(delayedOutgoing) : o[i] = delayedOutgoing[i]
          /\ \A i \in 1..Len(o) : i \in 1..Len(delayedOutgoing) \/ i = Len(delayedOutgoing) + 1
      BY <1>10, <1>11, <2>2, Lengthened
    <3>. QED
      BY <1>8, <1>9, <1>11, <3>1
  <2>. QED
    BY <1>6, <1>12, <2>1, <2>2
<1>15. Genuine'
  <2>1. \A i \in 1..Len(h) : Heard(h[i])'
    BY <1>7, <1>9, <1>11, <1>12
  <2>. QED
    BY <1>12, <1>13, <1>14, <2>1 DEF Genuine
<1>16. Counters'
  <2>1. shown' \in 0..mTick'
    BY <1>1, <1>3, <1>7 DEF Counters
  <2>. QED
    BY <1>1, <1>7, <1>12, <1>13, <1>14, <2>1 DEF Counters
<1>17. Flags'
  BY <1>1, <1>6, <1>7 DEF Flags
<1>18. WholeSnapshots'
  <2>1. shown # 0 => history'[shown] = history[shown]
    BY <1>1, <1>3 DEF Counters
  <2>. QED
    BY <1>1, <1>7, <2>1, StillWhole
<1>. QED
  BY <1>2, <1>3, <1>16, <1>17, <1>18, <1>15 DEF ReplicationInv

\* A step that moves datagrams and no more.
LEMMA MovedKeeps ==
  ASSUME ReplicationInv, simulation' = simulation, outgoingSequence' = outgoingSequence,
         held' = held, client' = client,
         wire' \in Seq(Seq(Bytes)), delayedOutgoing' \in Seq(Seq(Bytes)),
         \A i \in 1..Len(wire') : Sent(wire'[i]),
         \A i \in 1..Len(delayedOutgoing') : Sent(delayedOutgoing'[i])
  PROVE  ReplicationInv'
<1>1. /\ mDelayedIncoming' = mDelayedIncoming /\ mLastSnapshotSequence' = mLastSnapshotSequence
      /\ mSnapshotsReceived' = mSnapshotsReceived /\ mEntities' = mEntities
      /\ shownTime' = shownTime /\ shown' = shown
  BY DEF client
<1>2. Flags'
  BY DEF client, ReplicationInv, Flags
<1>3. Simulated' /\ history' = history /\ mTick' = mTick
  BY StillSimulated DEF ReplicationInv
<1>4. Counters'
  BY <1>1, <1>3 DEF ReplicationInv, Counters
<1>5. Recorded' /\ (\A d : Sent(d) => Sent(d)') /\ (\A d : Heard(d) => Heard(d)')
  BY <1>3, StillRecorded DEF ReplicationInv
<1>6. Genuine'
  BY <1>1, <1>5 DEF ReplicationInv, Genuine
<1>7. WholeSnapshots'
  BY <1>1, <1>3, StillWhole DEF ReplicationInv
<1>. QED
  BY <1>2, <1>3, <1>4, <1>5, <1>6, <1>7 DEF ReplicationInv

LEMMA ReleaseKeeps ==
  ASSUME ReplicationInv, Release
  PROVE  ReplicationInv'
<1>1. /\ delayedOutgoing # <<>> /\ wire' = Append(wire, Head(delayedOutgoing))
      /\ delayedOutgoing' = Tail(delayedOutgoing)
      /\ simulation' = simulation /\ outgoingSequence' = outgoingSequence
  BY DEF Release
<1>2. held' = held /\ client' = client
  BY DEF Release
<1>3. /\ wire \in Seq(Seq(Bytes)) /\ delayedOutgoing \in Seq(Seq(Bytes))
      /\ \A i \in 1..Len(wire) : Sent(wire[i])
      /\ \A i \in 1..Len(delayedOutgoing) : Sent(delayedOutgoing[i])
  BY DEF ReplicationInv, Counters, Genuine
<1>4. PICK t : t = Tail(delayedOutgoing)
  OBVIOUS
<1>5. PICK d : d = Head(delayedOutgoing)
  OBVIOUS
<1>6. /\ d = delayedOutgoing[1] /\ 1 \in 1..Len(delayedOutgoing) /\ d \in Seq(Bytes)
      /\ t \in Seq(Seq(Bytes))
      /\ \A i \in 1..Len(t) : i + 1 \in 1..Len(delayedOutgoing) /\ t[i] = delayedOutgoing[i + 1]
  BY <1>1, <1>3, <1>4, <1>5, Shortened
<1>7. \A i \in 1..Len(t) : Sent(t[i])
  BY <1>3, <1>6
<1>8. Sent(d)
  BY <1>3, <1>6
<1>9. wire' \in Seq(Seq(Bytes)) /\ \A i \in 1..Len(wire') : Sent(wire'[i])
  BY <1>1, <1>3, <1>5, <1>6, <1>8, Lengthened
<1>. QED
  BY <1>1, <1>2, <1>4, <1>6, <1>7, <1>9, MovedKeeps

LEMMA DuplicateKeeps ==
  ASSUME ReplicationInv, NEW n \in DOMAIN wire, Duplicate(n)
  PROVE  ReplicationInv'
<1>1. /\ wire' = Append(wire, wire[n]) /\ simulation' = simulation /\ outgoingSequence' = outgoingSequence
      /\ delayedOutgoing' = delayedOutgoing
  BY DEF Duplicate, sender
<1>2. held' = held /\ client' = client
  BY DEF Duplicate, sender
<1>3. /\ wire \in Seq(Seq(Bytes)) /\ delayedOutgoing \in Seq(Seq(Bytes))
      /\ \A i \in 1..Len(wire) : Sent(wire[i])
      /\ \A i \in 1..Len(delayedOutgoing) : Sent(delayedOutgoing[i])
  BY DEF ReplicationInv, Counters, Genuine
<1>4. n \in 1..Len(wire) /\ wire[n] \in Seq(Bytes)
  BY <1>3
<1>5. PICK d : d = wire[n]
  OBVIOUS
<1>6. Sent(d)
  BY <1>3, <1>4, <1>5
<1>7. wire' \in Seq(Seq(Bytes)) /\ \A i \in 1..Len(wire') : Sent(wire'[i])
  BY <1>1, <1>3, <1>4, <1>5, <1>6, Lengthened
<1>. QED
  BY <1>1, <1>2, <1>3, <1>7, MovedKeeps

\* One datagram fewer.
LEMMA WireWithout ==
  ASSUME ReplicationInv, NEW n \in DOMAIN wire, wire' = RemoveAt(wire, n)
  PROVE  wire' \in Seq(Seq(Bytes)) /\ \A i \in 1..Len(wire') : Sent(wire'[i])
<1>1. wire \in Seq(Seq(Bytes)) /\ \A i \in 1..Len(wire) : Sent(wire[i])
  BY DEF ReplicationInv, Counters, Genuine
<1>2. PICK s : s = wire
  OBVIOUS
<1>3. PICK t : t = wire'
  OBVIOUS
<1>4. s \in Seq(Seq(Bytes)) /\ n \in DOMAIN s /\ t = RemoveAt(s, n)
  BY <1>1, <1>2, <1>3
<1>5. PICK S : S = Seq(Bytes)
  OBVIOUS
<1>6. s \in Seq(S) /\ n \in DOMAIN s /\ t = RemoveAt(s, n)
  BY <1>4, <1>5
<1>7. t \in Seq(S) /\ \A j \in 1..Len(t) : Place(n, j) \in 1..Len(s) /\ t[j] = s[Place(n, j)]
  BY <1>6, Kept
<1>. QED
  BY <1>1, <1>2, <1>3, <1>5, <1>7

LEMMA LoseKeeps ==
  ASSUME ReplicationInv, NEW n \in DOMAIN wire, Lose(n)
  PROVE  ReplicationInv'
<1>1. /\ wire' = RemoveAt(wire, n) /\ simulation' = simulation /\ outgoingSequence' = outgoingSequence
      /\ delayedOutgoing' = delayedOutgoing
  BY DEF Lose, sender
<1>2. held' = held /\ client' = client
  BY DEF Lose, sender
<1>3. /\ delayedOutgoing \in Seq(Seq(Bytes))
      /\ \A i \in 1..Len(delayedOutgoing) : Sent(delayedOutgoing[i])
  BY DEF ReplicationInv, Counters, Genuine
<1>4. wire' \in Seq(Seq(Bytes)) /\ \A i \in 1..Len(wire') : Sent(wire'[i])
  BY <1>1, WireWithout
<1>. QED
  BY <1>1, <1>2, <1>3, <1>4, MovedKeeps

-----------------------------------------------------------------------------
\* A snapshot's entities have ids of their own, so each is shown as it is there.
LEMMA EntityShown ==
  ASSUME NEW snapshot, NEW es, snapshot.entities = es, es \in Seq(Entity),
         \A i, j \in 1..Len(es) : i < j => es[i].id < es[j].id,
         NEW n \in 1..Len(es)
  PROVE  EntitiesAfter(snapshot)[es[n].id] = es[n]
<1>1. Len(es) \in Nat /\ DOMAIN es = 1..Len(es) /\ es[n] \in Entity
  OBVIOUS
<1>2. PICK id : id = es[n].id
  OBVIOUS
<1>3. id \in EntityIds
  BY <1>1, <1>2 DEF Entity
<1>4. PICK c : c = CHOOSE i \in DOMAIN es : es[i].id = id
  OBVIOUS
<1>5. c \in 1..Len(es) /\ es[c].id = id
  BY <1>1, <1>2, <1>4
<1>6. c = n
  <2>1. es[c].id \in Nat /\ es[n].id \in Nat
    BY <1>1, <1>5, EntityFields
  <2>2. ~(c < n)
    BY <1>2, <1>5, <2>1
  <2>3. ~(n < c)
    BY <1>2, <1>5, <2>1
  <2>4. c \in Nat /\ n \in Nat
    BY <1>1, <1>5
  <2>. QED
    BY <2>2, <2>3, <2>4
<1>7. EntitiesAfter(snapshot)[id] =
        IF \E i \in DOMAIN es : es[i].id = id
        THEN es[CHOOSE i \in DOMAIN es : es[i].id = id] ELSE mEntities[id]
  BY <1>3 DEF EntitiesAfter
<1>. QED
  BY <1>1, <1>2, <1>4, <1>6, <1>7

\* A body that is applied leaves the client with the whole of one tick's world.
LEMMA Applied ==
  ASSUME Simulated, Recorded, Counters, WholeSnapshots, history' = history, mTick' = mTick,
         NEW body, Heard(body), NEW q \in Nat, applySnapshotPacket(body, q)
  PROVE  /\ shown' \in 0..mTick' /\ mSnapshotsReceived' \in Nat /\ mLastSnapshotSequence' \in Nat
         /\ WholeSnapshots'
<1>1. PICK k \in 1..mTick : body = BodyOf(k)
  BY DEF Heard
<1>2. PICK s : s = decodeSnapshot(body)
  OBVIOUS
<1>3. mTick \in Nat /\ mSnapshotsReceived \in Nat /\ shown \in 0..mTick /\ mLastSnapshotSequence \in Nat
  BY Widths DEF Simulated, Counters
<1>4. CASE s.ok
  <2>1. /\ shownTime' = s.timeOfDay /\ mEntities' = EntitiesAfter(s) /\ shown' = s.tick
        /\ mLastSnapshotSequence' = q /\ mSnapshotsReceived' = mSnapshotsReceived + 1
    BY <1>2, <1>4 DEF applySnapshotPacket
  <2>2. /\ s.tick = k /\ s.timeOfDay = history[k].timeOfDay
        /\ s.entities = history[k].entities
    BY <1>1, <1>2, <1>4, PacketFacts
  <2>3. PICK es : es = history[k].entities
    OBVIOUS
  <2>4. es \in Seq(Entity) /\ \A i, j \in 1..Len(es) : i < j => es[i].id < es[j].id
    <3>1. history[k] \in Snapshot
      BY DEF Recorded
    <3>2. es \in Seq(Entity)
      BY <2>3, <3>1 DEF Snapshot
    <3>. QED
      BY <2>3, <3>2 DEF Recorded
  <2>5. \A i \in 1..Len(es) : mEntities'[es[i].id] = es[i]
    BY <2>1, <2>2, <2>3, <2>4, EntityShown
  <2>6. DOMAIN es = 1..Len(es)
    BY <2>4
  <2>7. shown' = k /\ shownTime' = history'[k].timeOfDay /\ es = history'[k].entities
    BY <2>1, <2>2, <2>3
  <2>8. WholeSnapshots'
    BY <2>5, <2>6, <2>7 DEF WholeSnapshots
  <2>9. shown' \in 0..mTick' /\ mSnapshotsReceived' \in Nat /\ mLastSnapshotSequence' \in Nat
    BY <1>3, <2>1, <2>7
  <2>. QED
    BY <2>8, <2>9
<1>5. CASE ~s.ok
  <2>1. /\ shownTime' = shownTime /\ mEntities' = mEntities /\ shown' = shown
        /\ mLastSnapshotSequence' = mLastSnapshotSequence /\ mSnapshotsReceived' = mSnapshotsReceived
    BY <1>2, <1>5 DEF applySnapshotPacket
  <2>2. WholeSnapshots'
    BY <2>1, StillWhole
  <2>. QED
    BY <1>3, <2>1, <2>2
<1>. QED
  BY <1>4, <1>5

\* What a datagram on the wire is.
LEMMA OnTheWire ==
  ASSUME ReplicationInv, NEW n \in DOMAIN wire, NEW k \in 1..mTick, wire[n] = PacketOf(k)
  PROVE  /\ readUdpHeader(receiveFrom(wire[n])).ok => readUdpHeader(receiveFrom(wire[n])).sequence = k - 1
         /\ SubSeq(receiveFrom(wire[n]), HeaderSize + 1, Len(receiveFrom(wire[n]))) = BodyOf(k)
         /\ BodyOf(k) \in Seq(Bytes) /\ TickOf(wire[n]) = k /\ k - 1 \in Nat
<1>1. Simulated /\ Recorded
  BY DEF ReplicationInv
<1>2. /\ TickOf(PacketOf(k)) = k
      /\ readUdpHeader(receiveFrom(PacketOf(k))).ok =>
              readUdpHeader(receiveFrom(PacketOf(k))).sequence = k - 1
      /\ BodyOf(k) \in Seq(Bytes)
  BY <1>1, PacketFacts
<1>3. k - 1 \in Nat
  BY Widths DEF Simulated
<1>4. SubSeq(receiveFrom(wire[n]), HeaderSize + 1, Len(receiveFrom(wire[n]))) = BodyOf(k)
  BY DEF BodyOf
<1>. QED
  BY <1>2, <1>3, <1>4

LEMMA ReceiveKeeps ==
  ASSUME ReplicationInv, NEW n \in DOMAIN wire, Receive(n)
  PROVE  ReplicationInv'
<1>1. Flags /\ Counters /\ Simulated /\ Recorded /\ Genuine /\ WholeSnapshots
  BY DEF ReplicationInv
<1>2. /\ wire' = RemoveAt(wire, n) /\ simulation' = simulation /\ outgoingSequence' = outgoingSequence
      /\ delayedOutgoing' = delayedOutgoing /\ held' = held
  BY DEF Receive, sender
<1>3. wire' \in Seq(Seq(Bytes)) /\ \A i \in 1..Len(wire') : Sent(wire'[i])
  BY <1>2, WireWithout
<1>4. /\ delayedOutgoing' \in Seq(Seq(Bytes))
      /\ \A i \in 1..Len(delayedOutgoing') : Sent(delayedOutgoing'[i])
  BY <1>1, <1>2 DEF Counters, Genuine
<1>5. Simulated' /\ history' = history /\ mTick' = mTick
  BY <1>1, <1>2, StillSimulated
<1>6. Recorded' /\ (\A d : Sent(d) => Sent(d)') /\ (\A d : Heard(d) => Heard(d)')
  BY <1>1, <1>5, StillRecorded
<1>7. n \in 1..Len(wire)
  BY <1>1 DEF Counters
<1>8. PICK k \in 1..mTick : wire[n] = PacketOf(k)
  BY <1>1, <1>7 DEF Genuine, Sent
<1>9. PICK header : header = readUdpHeader(receiveFrom(wire[n]))
  OBVIOUS
<1>10. PICK body : body = SubSeq(receiveFrom(wire[n]), HeaderSize + 1, Len(receiveFrom(wire[n])))
  OBVIOUS
<1>11. /\ header.ok => header.sequence = k - 1
       /\ body = BodyOf(k) /\ body \in Seq(Bytes) /\ k - 1 \in Nat
  BY <1>8, <1>9, <1>10, OnTheWire
<1>12. Heard(body)
  BY <1>11 DEF Heard
<1>13. \/ client' = client
       \/ /\ header.ok /\ mDelayedIncoming' = Append(mDelayedIncoming, body)
          /\ mLastSnapshotSequence' = header.sequence
          /\ fakeLatency' = fakeLatency /\ mSnapshotsReceived' = mSnapshotsReceived
          /\ mEntities' = mEntities /\ shownTime' = shownTime /\ shown' = shown
       \/ /\ header.ok /\ applySnapshotPacket(body, header.sequence)
          /\ fakeLatency' = fakeLatency /\ mDelayedIncoming' = mDelayedIncoming
  BY <1>9, <1>10 DEF Receive
<1>14. CASE client' = client
  BY <1>2, <1>3, <1>4, <1>14, MovedKeeps
<1>15. CASE /\ header.ok /\ mDelayedIncoming' = Append(mDelayedIncoming, body)
            /\ mLastSnapshotSequence' = header.sequence
            /\ fakeLatency' = fakeLatency /\ mSnapshotsReceived' = mSnapshotsReceived
            /\ mEntities' = mEntities /\ shownTime' = shownTime /\ shown' = shown
  <2>1. mDelayedIncoming \in Seq(Seq(Bytes)) /\ \A i \in 1..Len(mDelayedIncoming) : Heard(mDelayedIncoming[i])
    BY <1>1 DEF Counters, Genuine
  <2>2. PICK h : h = mDelayedIncoming'
    OBVIOUS
  <2>3. /\ h \in Seq(Seq(Bytes)) /\ h[Len(mDelayedIncoming) + 1] = body
        /\ \A i \in 1..Len(mDelayedIncoming) : h[i] = mDelayedIncoming[i]
        /\ \A i \in 1..Len(h) : i \in 1..Len(mDelayedIncoming) \/ i = Len(mDelayedIncoming) + 1
    BY <1>11, <1>15, <2>1, <2>2, Lengthened
  <2>4. \A i \in 1..Len(h) : Heard(h[i])
    BY <1>12, <2>1, <2>3
  <2>5. Genuine'
    BY <1>3, <1>4, <1>6, <2>2, <2>4 DEF Genuine
  <2>6. mLastSnapshotSequence' \in Nat /\ shown' \in 0..mTick' /\ mSnapshotsReceived' \in Nat
    BY <1>1, <1>5, <1>11, <1>15 DEF Counters
  <2>7. Counters'
    BY <1>3, <1>4, <2>2, <2>3, <2>6 DEF Counters
  <2>8. WholeSnapshots'
    BY <1>1, <1>5, <1>15, StillWhole
  <2>9. Flags'
    BY <1>1, <1>2, <1>15 DEF Flags
  <2>. QED
    BY <1>5, <1>6, <2>5, <2>7, <2>8, <2>9 DEF ReplicationInv
<1>16. CASE /\ header.ok /\ applySnapshotPacket(body, header.sequence)
            /\ fakeLatency' = fakeLatency /\ mDelayedIncoming' = mDelayedIncoming
  <2>1. PICK q \in Nat : q = header.sequence
    BY <1>11, <1>16
  <2>2. applySnapshotPacket(body, q)
    BY <1>16, <2>1
  <2>3. /\ shown' \in 0..mTick' /\ mSnapshotsReceived' \in Nat /\ mLastSnapshotSequence' \in Nat
        /\ WholeSnapshots'
    BY <1>1, <1>5, <1>12, <2>2, Applied
  <2>4. /\ mDelayedIncoming' \in Seq(Seq(Bytes))
        /\ \A i \in 1..Len(mDelayedIncoming') : Heard(mDelayedIncoming'[i])
    BY <1>1, <1>16 DEF Counters, Genuine
  <2>5. Genuine'
    BY <1>3, <1>4, <1>6, <2>4 DEF Genuine
  <2>6. Counters'
    BY <1>3, <1>4, <2>3, <2>4 DEF Counters
  <2>7. Flags'
    BY <1>1, <1>2, <1>16 DEF Flags
  <2>. QED
    BY <1>5, <1>6, <2>3, <2>5, <2>6, <2>7 DEF ReplicationInv
<1>. QED
  BY <1>13, <1>14, <1>15, <1>16

LEMMA FlushKeeps ==
  ASSUME ReplicationInv, flushDelayed
  PROVE  ReplicationInv'
<1>1. Flags /\ Counters /\ Simulated /\ Recorded /\ Genuine /\ WholeSnapshots
  BY DEF ReplicationInv
<1>2. /\ mDelayedIncoming # <<>> /\ mDelayedIncoming' = Tail(mDelayedIncoming)
      /\ simulation' = simulation /\ sender' = sender /\ wire' = wire /\ fakeLatency' = fakeLatency
  BY DEF flushDelayed
<1>3. outgoingSequence' = outgoingSequence /\ delayedOutgoing' = delayedOutgoing /\ held' = held
  BY <1>2 DEF sender
<1>4. Simulated' /\ history' = history /\ mTick' = mTick
  BY <1>1, <1>2, <1>3, StillSimulated
<1>5. Recorded' /\ (\A d : Sent(d) => Sent(d)') /\ (\A d : Heard(d) => Heard(d)')
  BY <1>1, <1>4, StillRecorded
<1>6. mDelayedIncoming \in Seq(Seq(Bytes)) /\ \A i \in 1..Len(mDelayedIncoming) : Heard(mDelayedIncoming[i])
  BY <1>1 DEF Counters, Genuine
<1>7. PICK body : body = Head(mDelayedIncoming)
  OBVIOUS
<1>8. PICK t : t = mDelayedIncoming'
  OBVIOUS
<1>9. /\ body = mDelayedIncoming[1] /\ 1 \in 1..Len(mDelayedIncoming)
      /\ t \in Seq(Seq(Bytes))
      /\ \A i \in 1..Len(t) : i + 1 \in 1..Len(mDelayedIncoming) /\ t[i] = mDelayedIncoming[i + 1]
  BY <1>2, <1>6, <1>7, <1>8, Shortened
<1>10. Heard(body) /\ \A i \in 1..Len(t) : Heard(t[i])
  BY <1>6, <1>9
<1>11. PICK q \in Nat : q = mLastSnapshotSequence
  BY <1>1 DEF Counters
<1>12. applySnapshotPacket(body, q)
  BY <1>7, <1>11 DEF flushDelayed
<1>13. /\ shown' \in 0..mTick' /\ mSnapshotsReceived' \in Nat /\ mLastSnapshotSequence' \in Nat
       /\ WholeSnapshots'
  BY <1>1, <1>4, <1>10, <1>12, Applied
<1>14. Genuine'
  BY <1>1, <1>2, <1>3, <1>5, <1>8, <1>10 DEF Genuine
<1>15. Counters'
  BY <1>1, <1>2, <1>3, <1>8, <1>9, <1>13 DEF Counters
<1>16. Flags'
  BY <1>1, <1>2, <1>3 DEF Flags
<1>. QED
  BY <1>4, <1>5, <1>13, <1>14, <1>15, <1>16 DEF ReplicationInv

LEMMA ReplicationStarts ==
  ASSUME ReplicationInit
  PROVE  ReplicationInv
<1>1. /\ mTick = 0 /\ mTimeOfDay = 0 /\ mPlayers = <<>> /\ mNextEntityId = 2
      /\ history = <<>> /\ outgoingSequence = 0 /\ delayedOutgoing = <<>> /\ wire = <<>>
      /\ mDelayedIncoming = <<>> /\ mLastSnapshotSequence = 0 /\ mSnapshotsReceived = 0 /\ shown = 0
  BY Constants DEF ReplicationInit
<1>2. MaxTick \in Nat /\ MaxPlayers \in Nat
  BY Widths
<1>3. Flags
  BY DEF ReplicationInit, Flags
<1>4. Counters
  BY <1>1 DEF Counters
<1>5. Simulated
  <2>1. 0 \in 0..MaxTick /\ 2 \in 2..(1 + MaxPlayers + 1)
    BY <1>2
  <2>2. mPlayers \in Seq(Entity) /\ Len(mPlayers) = 0
    BY <1>1
  <2>. QED
    BY <1>1, <2>1, <2>2, Constants DEF Simulated
<1>6. Recorded
  BY <1>1 DEF Recorded
<1>7. Genuine
  BY <1>1 DEF Genuine
<1>8. WholeSnapshots
  BY <1>1 DEF WholeSnapshots
<1>. QED
  BY <1>3, <1>4, <1>5, <1>6, <1>7, <1>8 DEF ReplicationInv

LEMMA ReplicationSteps ==
  ASSUME ReplicationInv, [ReplicationNext]_replicationVars
  PROVE  ReplicationInv'
<1>1. Simulated /\ Flags
  BY DEF ReplicationInv
<1>2. CASE addPlayer
  <2>1. Simulated'
    BY <1>1, <1>2, AddPlayerSimulated
  <2>2. /\ history' = history /\ mTick' = mTick /\ held' = held
        /\ delayedOutgoing' = delayedOutgoing /\ wire' = wire /\ client' = client
    BY <1>2 DEF addPlayer, sender
  <2>3. held' \in BOOLEAN
    BY <1>1, <2>2 DEF Flags
  <2>. QED
    BY <2>1, <2>2, <2>3, QuietKeeps
<1>3. ASSUME NEW i \in DOMAIN mPlayers, removePlayer(i) PROVE ReplicationInv'
  <2>1. Simulated'
    BY <1>1, <1>3, RemovePlayerSimulated
  <2>2. /\ history' = history /\ mTick' = mTick /\ held' = held
        /\ delayedOutgoing' = delayedOutgoing /\ wire' = wire /\ client' = client
    BY <1>3 DEF removePlayer, sender
  <2>3. held' \in BOOLEAN
    BY <1>1, <2>2 DEF Flags
  <2>. QED
    BY <2>1, <2>2, <2>3, QuietKeeps
<1>4. CASE SetLatency
  <2>1. /\ simulation' = simulation /\ outgoingSequence' = outgoingSequence
        /\ delayedOutgoing' = delayedOutgoing /\ wire' = wire /\ client' = client
    BY <1>4 DEF SetLatency
  <2>2. held' \in BOOLEAN
    BY <1>4 DEF SetLatency
  <2>3. Simulated' /\ history' = history /\ mTick' = mTick
    BY <1>1, <2>1, StillSimulated
  <2>. QED
    BY <2>1, <2>2, <2>3, QuietKeeps
<1>5. CASE UNCHANGED replicationVars
  <2>1. simulation' = simulation /\ sender' = sender /\ wire' = wire /\ client' = client
    BY <1>5 DEF replicationVars
  <2>2. /\ outgoingSequence' = outgoingSequence /\ held' = held
        /\ delayedOutgoing' = delayedOutgoing
    BY <2>1 DEF sender
  <2>3. held' \in BOOLEAN
    BY <1>1, <2>2 DEF Flags
  <2>4. Simulated' /\ history' = history /\ mTick' = mTick
    BY <1>1, <2>1, <2>2, StillSimulated
  <2>. QED
    BY <2>1, <2>2, <2>3, <2>4, QuietKeeps
<1>. QED
  BY <1>2, <1>3, <1>4, <1>5, TickKeeps, ReleaseKeeps, LoseKeeps, DuplicateKeeps, ReceiveKeeps, FlushKeeps
     DEF ReplicationNext

\* Every type the replication model states holds in every state: what is on the
\* wire are bytes, and the client shows a tick that has been (world server's tick,
\* main.cpp, and NetClient's receive).
THEOREM ReplicationTypes == ReplicationSpec => []ReplicationTypeOK
<1>1. ReplicationInv => ReplicationTypeOK
  <2>. SUFFICES ASSUME ReplicationInv PROVE ReplicationTypeOK
    OBVIOUS
  <2>1. mTick \in 0..MaxTick /\ mTimeOfDay \in Nat /\ outgoingSequence \in Nat
    BY Widths DEF ReplicationInv, Simulated
  <2>2. \A i \in DOMAIN mPlayers : mPlayers[i].id \in EntityIds
    <3>1. mPlayers \in Seq(Entity)
      BY DEF ReplicationInv, Simulated
    <3>2. \A e \in Entity : e.id \in EntityIds
      BY DEF Entity
    <3>3. \A i \in DOMAIN mPlayers : mPlayers[i] \in Entity
      BY <3>1
    <3>. QED
      BY <3>2, <3>3
  <2>3. held \in BOOLEAN /\ fakeLatency \in BOOLEAN
    BY DEF ReplicationInv, Flags
  <2>4. \A i \in DOMAIN wire : wire[i] \in Seq(0..(Byte - 1))
    BY DEF ReplicationInv, Counters, Bytes
  <2>5. shown \in 0..mTick /\ mSnapshotsReceived \in Nat /\ mLastSnapshotSequence \in Nat
    BY DEF ReplicationInv, Counters
  <2>. QED
    BY <2>1, <2>2, <2>3, <2>4, <2>5 DEF ReplicationTypeOK
<1>. QED
  BY <1>1, ReplicationStarts, ReplicationSteps, PTL DEF ReplicationSpec

\* What the client shows is the world of one tick, whatever the network and the
\* client's buffer do to the datagrams (applySnapshotPacket, net_client.cpp, on the
\* bytes of writeSnapshot).
THEOREM ShownSnapshotsWhole == ReplicationSpec => []WholeSnapshots
<1>1. ReplicationInv => WholeSnapshots
  BY DEF ReplicationInv
<1>. QED
  BY <1>1, ReplicationStarts, ReplicationSteps, PTL DEF ReplicationSpec

-----------------------------------------------------------------------------
(* The order of the snapshots, where the client holds them back.           *)

LEMMA OrderWithoutOne ==
  ASSUME NEW h, NEW o, NEW s, NEW S, NEW w \in Seq(S), InOrder(h, w, o, s),
         NEW n \in DOMAIN w, NEW t, t = RemoveAt(w, n)
  PROVE  InOrder(h, t, o, s)
<1>1. w \in Seq(S) /\ n \in DOMAIN w /\ t = RemoveAt(w, n)
  OBVIOUS
<1>2. /\ t \in Seq(S) /\ Len(t) = Len(w) - 1 /\ Len(t) \in Nat /\ Len(w) \in Nat
      /\ \A j \in 1..Len(t) : Place(n, j) \in 1..Len(w) /\ t[j] = w[Place(n, j)]
      /\ \A i, j \in 1..Len(t) : i < j => Place(n, i) < Place(n, j)
  BY <1>1, Kept
<1>3. ASSUME NEW i \in 1..Len(t), NEW j \in 1..Len(t), i < j PROVE TickOf(t[i]) < TickOf(t[j])
  BY <1>2, <1>3 DEF InOrder
<1>4. ASSUME NEW i \in 1..Len(t) PROVE /\ s < TickOf(t[i])
                                       /\ \A j \in 1..Len(o) : TickOf(t[i]) < TickOf(o[j])
                                       /\ \A j \in 1..Len(h) : OlderThan(h[j], TickOf(t[i]))
  BY <1>2 DEF InOrder
<1>. QED
  BY <1>3, <1>4 DEF InOrder

LEMMA OrderSentNext ==
  ASSUME NEW h, NEW s, NEW S, NEW w \in Seq(S), NEW o, InOrder(h, w, o, s), o = <<>>,
         NEW d \in S, NEW t, t = Append(w, d), s < TickOf(d),
         \A i \in 1..Len(w) : TickOf(w[i]) < TickOf(d),
         \A i \in 1..Len(h) : OlderThan(h[i], TickOf(d))
  PROVE  InOrder(h, t, o, s)
<1>1. /\ Len(t) = Len(w) + 1 /\ Len(w) \in Nat /\ t[Len(w) + 1] = d
      /\ \A i \in 1..Len(w) : t[i] = w[i]
      /\ \A i \in 1..Len(t) : i \in 1..Len(w) \/ i = Len(w) + 1
  BY Lengthened
<1>2. ASSUME NEW i \in 1..Len(t), NEW j \in 1..Len(t), i < j PROVE TickOf(t[i]) < TickOf(t[j])
  <2>1. i \in 1..Len(w)
    BY <1>1, <1>2
  <2>. QED
    BY <1>1, <1>2, <2>1 DEF InOrder
<1>3. ASSUME NEW i \in 1..Len(t)
      PROVE  s < TickOf(t[i]) /\ \A j \in 1..Len(h) : OlderThan(h[j], TickOf(t[i]))
  BY <1>1 DEF InOrder
<1>4. \A j \in 1..Len(o) : FALSE
  OBVIOUS
<1>. QED
  BY <1>2, <1>3, <1>4 DEF InOrder

LEMMA OrderHeldNext ==
  ASSUME NEW h, NEW s, NEW w, NEW S, NEW o \in Seq(S), InOrder(h, w, o, s),
         NEW d \in S, NEW t, t = Append(o, d), s < TickOf(d),
         \A i \in 1..Len(w) : TickOf(w[i]) < TickOf(d),
         \A i \in 1..Len(o) : TickOf(o[i]) < TickOf(d),
         \A i \in 1..Len(h) : OlderThan(h[i], TickOf(d))
  PROVE  InOrder(h, w, t, s)
<1>1. /\ Len(t) = Len(o) + 1 /\ Len(o) \in Nat /\ t[Len(o) + 1] = d
      /\ \A i \in 1..Len(o) : t[i] = o[i]
      /\ \A i \in 1..Len(t) : i \in 1..Len(o) \/ i = Len(o) + 1
  BY Lengthened
<1>2. ASSUME NEW i \in 1..Len(t), NEW j \in 1..Len(t), i < j PROVE TickOf(t[i]) < TickOf(t[j])
  <2>1. i \in 1..Len(o)
    BY <1>1, <1>2
  <2>. QED
    BY <1>1, <1>2, <2>1 DEF InOrder
<1>3. ASSUME NEW i \in 1..Len(t)
      PROVE  /\ s < TickOf(t[i]) /\ \A j \in 1..Len(h) : OlderThan(h[j], TickOf(t[i]))
             /\ \A j \in 1..Len(w) : TickOf(w[j]) < TickOf(t[i])
  BY <1>1 DEF InOrder
<1>. QED
  BY <1>2, <1>3 DEF InOrder

LEMMA OrderReleased ==
  ASSUME NEW h, NEW s, NEW S, NEW w \in Seq(S), NEW o \in Seq(S), InOrder(h, w, o, s), o # << >>,
         NEW t, t = Append(w, Head(o)), NEW u, u = Tail(o)
  PROVE  InOrder(h, t, u, s)
<1>1. /\ Head(o) = o[1] /\ 1 \in 1..Len(o) /\ Head(o) \in S
      /\ \A i \in 1..Len(u) : i + 1 \in 1..Len(o) /\ u[i] = o[i + 1]
  BY Shortened
<1>2. /\ Len(t) = Len(w) + 1 /\ Len(w) \in Nat /\ t[Len(w) + 1] = o[1]
      /\ \A i \in 1..Len(w) : t[i] = w[i]
      /\ \A i \in 1..Len(t) : i \in 1..Len(w) \/ i = Len(w) + 1
  BY <1>1, Lengthened
<1>3. ASSUME NEW i \in 1..Len(t), NEW j \in 1..Len(t), i < j PROVE TickOf(t[i]) < TickOf(t[j])
  <2>1. i \in 1..Len(w)
    BY <1>2, <1>3
  <2>. QED
    BY <1>1, <1>2, <1>3, <2>1 DEF InOrder
<1>4. ASSUME NEW i \in 1..Len(u), NEW j \in 1..Len(u), i < j PROVE TickOf(u[i]) < TickOf(u[j])
  <2>1. i \in Nat /\ j \in Nat
    BY <1>4
  <2>2. i + 1 < j + 1
    BY <1>4, <2>1
  <2>. QED
    BY <1>1, <2>2 DEF InOrder
<1>5. ASSUME NEW i \in 1..Len(t), NEW j \in 1..Len(u) PROVE TickOf(t[i]) < TickOf(u[j])
  <2>1. 1 < j + 1 /\ j + 1 \in 1..Len(o) /\ u[j] = o[j + 1]
    BY <1>1
  <2>2. CASE i \in 1..Len(w)
    BY <1>2, <2>1, <2>2 DEF InOrder
  <2>3. CASE i = Len(w) + 1
    BY <1>1, <1>2, <2>1, <2>3 DEF InOrder
  <2>. QED
    BY <1>2, <2>2, <2>3
<1>6. ASSUME NEW i \in 1..Len(t)
      PROVE  s < TickOf(t[i]) /\ \A j \in 1..Len(h) : OlderThan(h[j], TickOf(t[i]))
  BY <1>1, <1>2 DEF InOrder
<1>7. ASSUME NEW i \in 1..Len(u)
      PROVE  s < TickOf(u[i]) /\ \A j \in 1..Len(h) : OlderThan(h[j], TickOf(u[i]))
  BY <1>1 DEF InOrder
<1>. QED
  BY <1>3, <1>4, <1>5, <1>6, <1>7 DEF InOrder

\* The first datagram on the wire becomes the last one the client holds back.
LEMMA OrderReceived ==
  ASSUME NEW s, NEW o, NEW S, NEW h \in Seq(S), NEW w \in Seq(S), InOrder(h, w, o, s),
         1 \in DOMAIN w, NEW t, t = RemoveAt(w, 1),
         NEW body \in S, decodeSnapshot(body).ok => decodeSnapshot(body).tick = TickOf(w[1]),
         NEW g, g = Append(h, body)
  PROVE  InOrder(g, t, o, s)
<1>1. InOrder(h, t, o, s)
  BY OrderWithoutOne
<1>2. /\ Len(g) = Len(h) + 1 /\ Len(h) \in Nat /\ g[Len(h) + 1] = body
      /\ \A i \in 1..Len(h) : g[i] = h[i]
      /\ \A i \in 1..Len(g) : i \in 1..Len(h) \/ i = Len(h) + 1
  BY Lengthened
<1>3. 1 \in 1..Len(w)
  OBVIOUS
<1>4. \A j \in 1..Len(t) : TickOf(w[1]) < TickOf(t[j])
  <2>1. PICK n : n = 1
    OBVIOUS
  <2>2. w \in Seq(S) /\ n \in DOMAIN w /\ t = RemoveAt(w, n)
    BY <2>1
  <2>3. /\ t \in Seq(S) /\ Len(t) = Len(w) - 1 /\ Len(t) \in Nat /\ Len(w) \in Nat
        /\ \A j \in 1..Len(t) : Place(n, j) \in 1..Len(w) /\ t[j] = w[Place(n, j)]
        /\ \A i, j \in 1..Len(t) : i < j => Place(n, i) < Place(n, j)
    BY <2>2, Kept
  <2>4. Len(t) \in Nat
    BY <2>3
  <2>5. \A j \in 1..Len(t) : 1 < Place(n, j)
    BY <2>1, <2>4 DEF Place
  <2>. QED
    BY <1>3, <2>3, <2>5 DEF InOrder
<1>5. NewerThan(body, s)
  BY <1>3 DEF NewerThan, InOrder
<1>6. /\ \A j \in 1..Len(t) : OlderThan(body, TickOf(t[j]))
      /\ \A j \in 1..Len(o) : OlderThan(body, TickOf(o[j]))
  BY <1>3, <1>4 DEF OlderThan, InOrder
<1>7. ASSUME NEW i \in 1..Len(g), NEW j \in 1..Len(g), i < j, decodeSnapshot(g[j]).ok
      PROVE  OlderThan(g[i], decodeSnapshot(g[j]).tick)
  <2>1. i \in 1..Len(h)
    BY <1>2, <1>7
  <2>2. CASE j \in 1..Len(h)
    BY <1>2, <1>7, <2>1, <2>2 DEF InOrder
  <2>3. CASE j = Len(h) + 1
    <3>1. OlderThan(h[i], TickOf(w[1]))
      BY <1>3, <2>1 DEF InOrder
    <3>. QED
      BY <1>2, <1>7, <2>1, <2>3, <3>1
  <2>. QED
    BY <1>2, <2>2, <2>3
<1>8. ASSUME NEW i \in 1..Len(g)
      PROVE  /\ NewerThan(g[i], s)
             /\ \A j \in 1..Len(t) : OlderThan(g[i], TickOf(t[j]))
             /\ \A j \in 1..Len(o) : OlderThan(g[i], TickOf(o[j]))
  <2>1. CASE i \in 1..Len(h)
    BY <1>1, <1>2, <2>1 DEF InOrder
  <2>2. CASE i = Len(h) + 1
    BY <1>2, <1>5, <1>6, <2>2
  <2>. QED
    BY <1>2, <2>1, <2>2
<1>. QED
  BY <1>1, <1>7, <1>8 DEF InOrder

\* The first snapshot held back is taken, and shown when it can be decoded.
LEMMA OrderFlushed ==
  ASSUME NEW s, NEW w, NEW o, NEW S, NEW h \in Seq(S), h # << >>, InOrder(h, w, o, s),
         NEW g, g = Tail(h), NEW r,
         \/ decodeSnapshot(h[1]).ok /\ r = decodeSnapshot(h[1]).tick
         \/ ~decodeSnapshot(h[1]).ok /\ r = s
  PROVE  InOrder(g, w, o, r) /\ (s < r \/ r = s)
<1>1. 1 \in 1..Len(h) /\ \A i \in 1..Len(g) : i + 1 \in 1..Len(h) /\ g[i] = h[i + 1]
  BY Shortened
<1>2. ASSUME NEW i \in 1..Len(g), NEW j \in 1..Len(g), i < j, decodeSnapshot(g[j]).ok
      PROVE  OlderThan(g[i], decodeSnapshot(g[j]).tick)
  <2>1. i \in Nat /\ j \in Nat
    OBVIOUS
  <2>2. i + 1 < j + 1
    BY <1>2, <2>1
  <2>. QED
    BY <1>1, <1>2, <2>2 DEF InOrder
<1>3. ASSUME NEW i \in 1..Len(g)
      PROVE  /\ \A j \in 1..Len(w) : OlderThan(g[i], TickOf(w[j]))
             /\ \A j \in 1..Len(o) : OlderThan(g[i], TickOf(o[j]))
  BY <1>1 DEF InOrder
<1>4. CASE decodeSnapshot(h[1]).ok /\ r = decodeSnapshot(h[1]).tick
  <2>1. s < r
    BY <1>1, <1>4 DEF InOrder, NewerThan
  <2>2. (\A j \in 1..Len(w) : r < TickOf(w[j])) /\ \A j \in 1..Len(o) : r < TickOf(o[j])
    BY <1>1, <1>4 DEF InOrder, OlderThan
  <2>3. ASSUME NEW i \in 1..Len(g) PROVE NewerThan(g[i], r)
    <3>1. i + 1 \in 1..Len(h) /\ g[i] = h[i + 1] /\ 1 < i + 1
      BY <1>1
    <3>2. decodeSnapshot(h[i + 1]).ok => OlderThan(h[1], decodeSnapshot(h[i + 1]).tick)
      BY <1>1, <3>1 DEF InOrder
    <3>. QED
      BY <1>4, <3>1, <3>2 DEF NewerThan, OlderThan
  <2>. QED
    BY <1>2, <1>3, <2>1, <2>2, <2>3 DEF InOrder
<1>5. CASE ~decodeSnapshot(h[1]).ok /\ r = s
  <2>1. ASSUME NEW i \in 1..Len(g) PROVE NewerThan(g[i], r)
    BY <1>1, <1>5 DEF InOrder
  <2>. QED
    BY <1>2, <1>3, <1>5, <2>1 DEF InOrder
<1>. QED
  BY <1>4, <1>5

\* What a step without a tick and without the client leaves of the order.
LEMMA OrderQuiet ==
  ASSUME OrderInv, client' = client, delayedOutgoing' = delayedOutgoing, wire' = wire,
         fakeLatency => (~held' => delayedOutgoing = <<>>)
  PROVE  OrderInv' /\ shown' = shown /\ fakeLatency' = fakeLatency
<1>1. /\ fakeLatency' = fakeLatency /\ mDelayedIncoming' = mDelayedIncoming
      /\ mLastSnapshotSequence' = mLastSnapshotSequence
      /\ mSnapshotsReceived' = mSnapshotsReceived /\ shown' = shown
  BY DEF client
<1>2. CASE fakeLatency
  <2>1. InOrder(mDelayedIncoming, wire, delayedOutgoing, shown)
    BY <1>2 DEF OrderInv, Queued
  <2>2. InOrder(mDelayedIncoming', wire', delayedOutgoing', shown')
    BY <1>1, <2>1
  <2>. QED
    BY <1>1, <1>2, <2>2 DEF OrderInv, Queued
<1>3. CASE ~fakeLatency
  BY <1>1, <1>3 DEF OrderInv, Direct
<1>. QED
  BY <1>2, <1>3

\* A step that moves datagrams, and nothing for the client.
LEMMA OrderMoved ==
  ASSUME OrderInv, client' = client,
         fakeLatency => /\ ~held' => delayedOutgoing' = <<>>
                        /\ InOrder(mDelayedIncoming, wire', delayedOutgoing', shown)
  PROVE  OrderInv' /\ shown' = shown /\ fakeLatency' = fakeLatency
<1>1. /\ fakeLatency' = fakeLatency /\ mDelayedIncoming' = mDelayedIncoming
      /\ mLastSnapshotSequence' = mLastSnapshotSequence
      /\ mSnapshotsReceived' = mSnapshotsReceived /\ shown' = shown
  BY DEF client
<1>2. CASE fakeLatency
  <2>1. InOrder(mDelayedIncoming', wire', delayedOutgoing', shown')
    BY <1>1, <1>2
  <2>. QED
    BY <1>1, <1>2, <2>1 DEF OrderInv, Queued
<1>3. CASE ~fakeLatency
  BY <1>1, <1>3 DEF OrderInv, Direct
<1>. QED
  BY <1>2, <1>3

LEMMA TickOrder ==
  ASSUME ReplicationInv, OrderInv, ServerTick
  PROVE  OrderInv' /\ shown' = shown /\ fakeLatency' = fakeLatency
<1>1. Counters /\ Simulated /\ Recorded /\ Genuine
  BY DEF ReplicationInv
<1>2. client' = client /\ held' = held
  BY DEF ServerTick
<1>3. PICK s : s = buildSnapshot(mTick', mTimeOfDay', mPlayers')
  OBVIOUS
<1>4. PICK d : d = Packet(s)
  OBVIOUS
<1>5. IF held THEN delayedOutgoing' = Append(delayedOutgoing, d) /\ wire' = wire
      ELSE wire' = Append(wire, d) /\ delayedOutgoing' = delayedOutgoing
  BY <1>3, <1>4 DEF ServerTick
<1>6. Simulated'
  BY <1>1, TickSimulated
<1>7. PICK n \in 0..MaxTick : n = mTick /\ mTick' = n + 1 /\ outgoingSequence = n
  BY <1>1 DEF Simulated, ServerTick
<1>8. s \in Snapshot /\ s.tick = n + 1 /\ Len(s.entities) <= 1 + MaxPlayers
  BY <1>1, <1>3, <1>6, <1>7, TickSnapshot
<1>9. d = writeUdpHeader(kSnapshotType, n) \o encodeSnapshot(s)
  BY <1>4, <1>7 DEF Packet
<1>10. d \in Seq(Bytes) /\ TickOf(d) = n + 1
  BY <1>8, <1>9, PacketBytes, PacketTick
<1>11. n \in Nat
  BY <1>7, Widths
<1>12. shown < TickOf(d)
  BY <1>1, <1>7, <1>10, <1>11 DEF Counters
<1>13. \A x : Sent(x) => TickOf(x) < TickOf(d)
  <2>1. ASSUME NEW x, NEW k \in 1..mTick, x = PacketOf(k) PROVE TickOf(x) < TickOf(d)
    <3>1. TickOf(x) = k
      BY <1>1, <2>1, PacketFacts
    <3>. QED
      BY <1>7, <1>10, <1>11, <3>1
  <2>. QED
    BY <2>1 DEF Sent
<1>14. \A x : Heard(x) => OlderThan(x, TickOf(d))
  <2>1. ASSUME NEW x, NEW k \in 1..mTick, x = BodyOf(k), decodeSnapshot(x).ok
        PROVE  decodeSnapshot(x).tick < TickOf(d)
    <3>1. decodeSnapshot(x).tick = k
      BY <1>1, <2>1, PacketFacts
    <3>. QED
      BY <1>7, <1>10, <1>11, <3>1
  <2>. QED
    BY <2>1 DEF Heard, OlderThan
<1>15. ASSUME fakeLatency
       PROVE  /\ ~held' => delayedOutgoing' = <<>>
              /\ InOrder(mDelayedIncoming, wire', delayedOutgoing', shown)
  <2>1. /\ ~held => delayedOutgoing = <<>>
        /\ InOrder(mDelayedIncoming, wire, delayedOutgoing, shown)
    BY <1>15 DEF OrderInv, Queued
  <2>2. /\ \A i \in 1..Len(wire) : TickOf(wire[i]) < TickOf(d)
        /\ \A i \in 1..Len(delayedOutgoing) : TickOf(delayedOutgoing[i]) < TickOf(d)
        /\ \A i \in 1..Len(mDelayedIncoming) : OlderThan(mDelayedIncoming[i], TickOf(d))
    BY <1>1, <1>13, <1>14 DEF Genuine
  <2>3. PICK w, o, h, r : w = wire /\ o = delayedOutgoing /\ h = mDelayedIncoming /\ r = shown
    OBVIOUS
  <2>4. w \in Seq(Seq(Bytes)) /\ o \in Seq(Seq(Bytes))
    BY <1>1, <2>3 DEF Counters
  <2>5. /\ InOrder(h, w, o, r) /\ r < TickOf(d)
        /\ \A i \in 1..Len(w) : TickOf(w[i]) < TickOf(d)
        /\ \A i \in 1..Len(o) : TickOf(o[i]) < TickOf(d)
        /\ \A i \in 1..Len(h) : OlderThan(h[i], TickOf(d))
    BY <1>12, <2>1, <2>2, <2>3
  <2>6. CASE held
    <3>1. PICK t : t = Append(o, d)
      OBVIOUS
    <3>2. InOrder(h, w, t, r)
      BY <1>10, <2>4, <2>5, <3>1, OrderHeldNext
    <3>. QED
      BY <1>2, <1>5, <2>3, <2>6, <3>1, <3>2
  <2>7. CASE ~held
    <3>1. PICK t : t = Append(w, d)
      OBVIOUS
    <3>2. o = <<>>
      BY <2>1, <2>3, <2>7
    <3>3. InOrder(h, t, o, r)
      BY <1>10, <2>4, <2>5, <3>1, <3>2, OrderSentNext
    <3>. QED
      BY <1>2, <1>5, <2>1, <2>3, <2>7, <3>1, <3>3
  <2>. QED
    BY <2>6, <2>7
<1>. QED
  BY <1>2, <1>15, OrderMoved

LEMMA ReleaseOrder ==
  ASSUME ReplicationInv, OrderInv, Release
  PROVE  OrderInv' /\ shown' = shown /\ fakeLatency' = fakeLatency
<1>1. /\ delayedOutgoing # <<>> /\ wire' = Append(wire, Head(delayedOutgoing))
      /\ delayedOutgoing' = Tail(delayedOutgoing) /\ held' = held /\ client' = client
  BY DEF Release
<1>2. ASSUME fakeLatency
      PROVE  /\ ~held' => delayedOutgoing' = <<>>
             /\ InOrder(mDelayedIncoming, wire', delayedOutgoing', shown)
  <2>1. /\ ~held => delayedOutgoing = <<>>
        /\ InOrder(mDelayedIncoming, wire, delayedOutgoing, shown)
    BY <1>2 DEF OrderInv, Queued
  <2>2. PICK w, o, h, r : w = wire /\ o = delayedOutgoing /\ h = mDelayedIncoming /\ r = shown
    OBVIOUS
  <2>3. PICK t, u : t = wire' /\ u = delayedOutgoing'
    OBVIOUS
  <2>4. w \in Seq(Seq(Bytes)) /\ o \in Seq(Seq(Bytes))
    BY <2>2 DEF ReplicationInv, Counters
  <2>5. InOrder(h, w, o, r) /\ o # << >> /\ t = Append(w, Head(o)) /\ u = Tail(o)
    BY <1>1, <2>1, <2>2, <2>3
  <2>6. InOrder(h, t, u, r)
    BY <2>4, <2>5, OrderReleased
  <2>. QED
    BY <1>1, <2>1, <2>2, <2>3, <2>6
<1>. QED
  BY <1>1, <1>2, OrderMoved

\* A datagram that is lost, or received in vain.
LEMMA LostOrder ==
  ASSUME ReplicationInv, OrderInv, NEW n \in DOMAIN wire, wire' = RemoveAt(wire, n),
         delayedOutgoing' = delayedOutgoing, held' = held, client' = client
  PROVE  OrderInv' /\ shown' = shown /\ fakeLatency' = fakeLatency
<1>1. ASSUME fakeLatency
      PROVE  /\ ~held' => delayedOutgoing' = <<>>
             /\ InOrder(mDelayedIncoming, wire', delayedOutgoing', shown)
  <2>1. /\ ~held => delayedOutgoing = <<>>
        /\ InOrder(mDelayedIncoming, wire, delayedOutgoing, shown)
    BY <1>1 DEF OrderInv, Queued
  <2>2. PICK w, o, h, r : w = wire /\ o = delayedOutgoing /\ h = mDelayedIncoming /\ r = shown
    OBVIOUS
  <2>3. PICK t : t = wire'
    OBVIOUS
  <2>4. w \in Seq(Seq(Bytes)) /\ n \in DOMAIN w /\ t = RemoveAt(w, n) /\ InOrder(h, w, o, r)
    BY <2>1, <2>2, <2>3 DEF ReplicationInv, Counters
  <2>5. InOrder(h, t, o, r)
    BY <2>4, OrderWithoutOne
  <2>. QED
    BY <2>1, <2>2, <2>3, <2>5
<1>. QED
  BY <1>1, OrderMoved

LEMMA ReceiveOrder ==
  ASSUME TRUE \notin Disorderly, ReplicationInv, OrderInv, NEW n \in DOMAIN wire, Receive(n)
  PROVE  OrderInv' /\ shown' >= shown /\ fakeLatency' = fakeLatency
<1>1. Flags /\ Counters /\ Simulated /\ Recorded /\ Genuine
  BY DEF ReplicationInv
<1>2. /\ wire' = RemoveAt(wire, n) /\ delayedOutgoing' = delayedOutgoing /\ held' = held
  BY DEF Receive, sender
<1>3. n \in 1..Len(wire)
  BY <1>1 DEF Counters
<1>4. PICK k \in 1..mTick : wire[n] = PacketOf(k)
  BY <1>1, <1>3 DEF Genuine, Sent
<1>5. PICK header : header = readUdpHeader(receiveFrom(wire[n]))
  OBVIOUS
<1>6. PICK body : body = SubSeq(receiveFrom(wire[n]), HeaderSize + 1, Len(receiveFrom(wire[n])))
  OBVIOUS
<1>7. /\ header.ok => header.sequence = k - 1
      /\ body = BodyOf(k) /\ body \in Seq(Bytes) /\ k - 1 \in Nat /\ TickOf(wire[n]) = k
  BY <1>4, <1>5, <1>6, OnTheWire
<1>8. decodeSnapshot(body).ok => decodeSnapshot(body).tick = k
  BY <1>1, <1>7, PacketFacts
<1>9. shown \in Nat /\ mSnapshotsReceived \in Nat /\ mLastSnapshotSequence \in Nat /\ k \in Nat
  BY <1>1, Widths DEF Counters, Simulated
<1>10. \/ client' = client
       \/ /\ fakeLatency /\ mDelayedIncoming' = Append(mDelayedIncoming, body)
          /\ fakeLatency' = fakeLatency /\ shown' = shown
       \/ /\ header.ok /\ ~fakeLatency /\ ~Stale(header.sequence)
          /\ applySnapshotPacket(body, header.sequence)
          /\ fakeLatency' = fakeLatency /\ mDelayedIncoming' = mDelayedIncoming
  BY <1>5, <1>6 DEF Receive
<1>11. CASE client' = client
  <2>1. OrderInv' /\ shown' = shown /\ fakeLatency' = fakeLatency
    BY <1>2, <1>11, LostOrder
  <2>. QED
    BY <1>9, <2>1
<1>12. CASE /\ fakeLatency /\ mDelayedIncoming' = Append(mDelayedIncoming, body)
            /\ fakeLatency' = fakeLatency /\ shown' = shown
  <2>1. fakeLatency = TRUE
    BY <1>1, <1>12 DEF Flags
  <2>2. n = 1
    BY <2>1 DEF Receive
  <2>3. /\ ~held => delayedOutgoing = <<>>
        /\ InOrder(mDelayedIncoming, wire, delayedOutgoing, shown)
    BY <1>12 DEF OrderInv, Queued
  <2>4. PICK w, o, h, s : w = wire /\ o = delayedOutgoing /\ h = mDelayedIncoming /\ s = shown
    OBVIOUS
  <2>5. PICK t, g : t = wire' /\ g = mDelayedIncoming'
    OBVIOUS
  <2>6. /\ w \in Seq(Seq(Bytes)) /\ h \in Seq(Seq(Bytes)) /\ 1 \in DOMAIN w
        /\ t = RemoveAt(w, 1) /\ g = Append(h, body) /\ InOrder(h, w, o, s)
    BY <1>1, <1>2, <1>12, <2>2, <2>3, <2>4, <2>5 DEF Counters
  <2>7. decodeSnapshot(body).ok => decodeSnapshot(body).tick = TickOf(w[1])
    BY <1>7, <1>8, <2>2, <2>4
  <2>8. InOrder(g, t, o, s)
    BY <1>7, <2>6, <2>7, OrderReceived
  <2>9. InOrder(mDelayedIncoming', wire', delayedOutgoing', shown')
    BY <1>2, <1>12, <2>4, <2>5, <2>8
  <2>10. Queued'
    BY <1>2, <2>3, <2>9 DEF Queued
  <2>. QED
    BY <1>9, <1>12, <2>10 DEF OrderInv
<1>13. CASE /\ header.ok /\ ~fakeLatency /\ ~Stale(header.sequence)
            /\ applySnapshotPacket(body, header.sequence)
            /\ fakeLatency' = fakeLatency /\ mDelayedIncoming' = mDelayedIncoming
  <2>1. /\ mDelayedIncoming = <<>>
        /\ IF mSnapshotsReceived = 0 THEN shown = 0 ELSE shown = mLastSnapshotSequence + 1
    BY <1>13 DEF OrderInv, Direct
  <2>2. PICK q : q = header.sequence
    OBVIOUS
  <2>3. q = k - 1 /\ applySnapshotPacket(body, q) /\ ~(mSnapshotsReceived > 0 /\ q <= mLastSnapshotSequence)
    BY <1>7, <1>13, <2>2 DEF Stale
  <2>4. CASE decodeSnapshot(body).ok
    <3>1. /\ shown' = k /\ mLastSnapshotSequence' = q /\ mSnapshotsReceived' = mSnapshotsReceived + 1
      BY <1>8, <2>3, <2>4 DEF applySnapshotPacket
    <3>2. shown' = mLastSnapshotSequence' + 1 /\ mSnapshotsReceived' # 0
      BY <1>9, <2>3, <3>1
    <3>3. shown' >= shown
      BY <1>9, <2>1, <2>3, <3>1
    <3>4. Direct'
      BY <1>13, <2>1, <3>2 DEF Direct
    <3>. QED
      BY <1>13, <3>3, <3>4 DEF OrderInv
  <2>5. CASE ~decodeSnapshot(body).ok
    <3>1. /\ shown' = shown /\ mLastSnapshotSequence' = mLastSnapshotSequence
          /\ mSnapshotsReceived' = mSnapshotsReceived
      BY <2>3, <2>5 DEF applySnapshotPacket
    <3>2. Direct'
      BY <1>13, <2>1, <3>1 DEF Direct
    <3>3. shown' >= shown
      BY <1>9, <3>1
    <3>. QED
      BY <1>13, <3>2, <3>3 DEF OrderInv
  <2>. QED
    BY <2>4, <2>5
<1>. QED
  BY <1>10, <1>11, <1>12, <1>13

LEMMA FlushOrder ==
  ASSUME ReplicationInv, ReplicationInv', OrderInv, flushDelayed
  PROVE  OrderInv' /\ shown' >= shown /\ fakeLatency' = fakeLatency
<1>1. /\ mDelayedIncoming # <<>> /\ mDelayedIncoming' = Tail(mDelayedIncoming)
      /\ sender' = sender /\ wire' = wire /\ fakeLatency' = fakeLatency
  BY DEF flushDelayed
<1>2. fakeLatency
  BY <1>1 DEF OrderInv, Direct
<1>3. /\ ~held => delayedOutgoing = <<>>
      /\ InOrder(mDelayedIncoming, wire, delayedOutgoing, shown)
  BY <1>2 DEF OrderInv, Queued
<1>4. delayedOutgoing' = delayedOutgoing /\ held' = held
  BY <1>1 DEF sender
<1>5. PICK w, o, h, s : w = wire /\ o = delayedOutgoing /\ h = mDelayedIncoming /\ s = shown
  OBVIOUS
<1>6. PICK g, r : g = mDelayedIncoming' /\ r = shown'
  OBVIOUS
<1>7. h \in Seq(Seq(Bytes)) /\ h # << >> /\ InOrder(h, w, o, s) /\ g = Tail(h)
  BY <1>1, <1>3, <1>5, <1>6 DEF ReplicationInv, Counters
<1>8. Head(h) = h[1]
  BY <1>7, Shortened
<1>9. PICK body : body = h[1]
  OBVIOUS
<1>10. applySnapshotPacket(body, mLastSnapshotSequence)
  BY <1>5, <1>8, <1>9 DEF flushDelayed
<1>11. \/ decodeSnapshot(body).ok /\ r = decodeSnapshot(body).tick
       \/ ~decodeSnapshot(body).ok /\ r = s
  <2>1. PICK d : d = decodeSnapshot(body)
    OBVIOUS
  <2>2. CASE d.ok
    <3>1. shown' = d.tick
      BY <1>10, <2>1, <2>2 DEF applySnapshotPacket
    <3>. QED
      BY <1>6, <2>1, <2>2, <3>1
  <2>3. CASE ~d.ok
    <3>1. shown' = shown
      BY <1>10, <2>1, <2>3 DEF applySnapshotPacket
    <3>. QED
      BY <1>5, <1>6, <2>1, <2>3, <3>1
  <2>. QED
    BY <2>2, <2>3
<1>12. InOrder(g, w, o, r) /\ (s < r \/ r = s)
  <2>1. PICK S : S = Seq(Bytes)
    OBVIOUS
  <2>2. h \in Seq(S) /\ h # << >> /\ InOrder(h, w, o, s) /\ g = Tail(h)
    BY <1>7, <2>1
  <2>3. \/ decodeSnapshot(h[1]).ok /\ r = decodeSnapshot(h[1]).tick
        \/ ~decodeSnapshot(h[1]).ok /\ r = s
    BY <1>9, <1>11, Zenon
  <2>. QED
    BY <2>2, <2>3, OrderFlushed, ZenonT(60)
<1>13. InOrder(mDelayedIncoming', wire', delayedOutgoing', shown')
  BY <1>1, <1>4, <1>5, <1>6, <1>12
<1>14. Queued'
  BY <1>3, <1>4, <1>13 DEF Queued
<1>15. shown \in Nat /\ shown' \in Nat
  BY Widths DEF ReplicationInv, Counters, Simulated
<1>16. shown' >= shown
  BY <1>5, <1>6, <1>12, <1>15
<1>. QED
  BY <1>1, <1>2, <1>14, <1>16 DEF OrderInv

LEMMA OrderStarts ==
  ASSUME ReplicationInit
  PROVE  OrderInv
<1>1. /\ wire = <<>> /\ delayedOutgoing = <<>> /\ mDelayedIncoming = <<>>
      /\ mSnapshotsReceived = 0 /\ shown = 0
  BY DEF ReplicationInit
<1>2. Direct
  BY <1>1 DEF Direct
<1>3. Queued
  <2>1. PICK e : e = << >>
    OBVIOUS
  <2>2. \A i \in 1..Len(e) : FALSE
    BY <2>1
  <2>3. InOrder(e, e, e, 0)
    BY <2>2 DEF InOrder
  <2>. QED
    BY <1>1, <2>1, <2>3 DEF Queued
<1>. QED
  BY <1>2, <1>3 DEF OrderInv

LEMMA OrderSteps ==
  ASSUME TRUE \notin Disorderly, ReplicationInv, ReplicationInv', OrderInv,
         [ReplicationNext]_replicationVars
  PROVE  OrderInv' /\ shown' >= shown
<1>1. shown \in Nat /\ Flags
  BY Widths DEF ReplicationInv, Counters, Simulated
<1>2. SUFFICES OrderInv' /\ (shown' = shown \/ shown' >= shown)
  BY <1>1
<1>3. ASSUME client' = client, delayedOutgoing' = delayedOutgoing, wire' = wire, held' = held
      PROVE  OrderInv' /\ shown' = shown
  <2>1. fakeLatency => (~held' => delayedOutgoing = <<>>)
    BY <1>3 DEF OrderInv, Queued
  <2>. QED
    BY <1>3, <2>1, OrderQuiet
<1>4. CASE addPlayer
  BY <1>3, <1>4 DEF addPlayer, sender
<1>5. ASSUME NEW i \in DOMAIN mPlayers, removePlayer(i) PROVE OrderInv' /\ shown' = shown
  BY <1>3, <1>5 DEF removePlayer, sender
<1>6. CASE UNCHANGED replicationVars
  BY <1>3, <1>6 DEF replicationVars, sender
<1>7. CASE SetLatency
  <2>1. /\ delayedOutgoing' = delayedOutgoing /\ wire' = wire /\ client' = client /\ held' = ~held
        /\ held => delayedOutgoing = <<>> \/ fakeLatency \in Disorderly
    BY <1>7 DEF SetLatency
  <2>2. ASSUME fakeLatency, ~held' PROVE delayedOutgoing = <<>>
    <3>1. held
      BY <2>1, <2>2
    <3>2. fakeLatency = TRUE
      BY <1>1, <2>2 DEF Flags
    <3>. QED
      BY <2>1, <3>1, <3>2
  <2>. QED
    BY <2>1, <2>2, OrderQuiet
<1>8. ASSUME NEW i \in DOMAIN wire, Lose(i) PROVE OrderInv' /\ shown' = shown
  <2>1. wire' = RemoveAt(wire, i) /\ delayedOutgoing' = delayedOutgoing /\ held' = held /\ client' = client
    BY <1>8 DEF Lose, sender
  <2>. QED
    BY <2>1, LostOrder
<1>9. ASSUME NEW i \in DOMAIN wire, Duplicate(i) PROVE OrderInv' /\ shown' = shown
  <2>1. client' = client /\ fakeLatency \in Disorderly
    BY <1>9 DEF Duplicate
  <2>2. ~fakeLatency
    BY <1>1, <2>1 DEF Flags
  <2>. QED
    BY <2>1, <2>2, OrderMoved
<1>10. ASSUME NEW i \in DOMAIN wire, Receive(i) PROVE OrderInv' /\ shown' >= shown
  BY <1>10, ReceiveOrder
<1>11. CASE flushDelayed
  BY <1>11, FlushOrder
<1>12. CASE ServerTick
  BY <1>12, TickOrder
<1>13. CASE Release
  BY <1>13, ReleaseOrder
<1>. QED
  BY <1>4, <1>5, <1>6, <1>7, <1>8, <1>9, <1>10, <1>11, <1>12, <1>13 DEF ReplicationNext

\* The client never shows an earlier world than it did (NetClient's sequence check,
\* net_client.cpp).  Without NET_FAKE_LATENCY_MS this needs nothing of the network; with it
\* the check comes before the delay, and the datagrams have to come in the order of the ticks.
THEOREM ShownNeverOlder ==
  ASSUME TRUE \notin Disorderly
  PROVE  ReplicationSpec => NeverOlder
<1>1. /\ ReplicationInv /\ OrderInv /\ [ReplicationNext]_replicationVars
      => ReplicationInv' /\ OrderInv' /\ [shown' >= shown]_replicationVars
  <2>. SUFFICES ASSUME ReplicationInv, OrderInv, [ReplicationNext]_replicationVars
                PROVE  ReplicationInv' /\ OrderInv' /\ shown' >= shown
    OBVIOUS
  <2>1. ReplicationInv'
    BY ReplicationSteps
  <2>. QED
    BY <2>1, OrderSteps
<1>. QED
  BY <1>1, ReplicationStarts, OrderStarts, PTL DEF ReplicationSpec, NeverOlder
=============================================================================
