----------------------------- MODULE WorldClock ------------------------------
(***************************************************************************)
(* The world clock of server/worldserver/src/simulation.cpp, an anchor and *)
(* a rate, with everything that changes it: the start of the server, the   *)
(* ticks, the console's commands, and the commands of game masters, which  *)
(* wait for a session lookup while ticks go on.  The simulated latency is  *)
(* set by the same commands.                                               *)
(*                                                                         *)
(* Real time is counted in units of which Day make a day, and the time of  *)
(* day in the same units; rates are whole numbers.  Rounding is left out.  *)
(***************************************************************************)
EXTENDS Integers, Sequences

CONSTANTS Day,
          kMaxSpeed,        \* 20000 in the code
          kMaxLatency,      \* 2000 in the code
          Values,           \* the numbers commands carry
          Configured,       \* TIME_SPEED, or 86400 / DAY_LENGTH_SECONDS
          MaxNow,           \* bound on real time
          MaxPending        \* bound on commands waiting for their lookup

ASSUME ClockAssumption == /\ Day \in Nat \ {0}
                          /\ kMaxSpeed \in Nat \ {0} /\ kMaxLatency \in Nat
                          /\ Values \subseteq Int /\ Configured \in Int
                          /\ MaxNow \in Nat /\ MaxPending \in Nat

VARIABLES now,                  \* real time since the server started
          clock,                \* the clock of the Simulation
          simulatedLatencyMs,
          pending,              \* game masters' commands awaiting their lookup
          exact,                \* what a clock that never loses time would show
          lost,                 \* time that changes of speed have lost
          asOf,                 \* when the clock's reading was last computed
          commanded             \* whether a command has changed the clock

clockVars == <<clock, exact, lost, asOf, commanded>>
vars == <<now, clockVars, simulatedLatencyMs, pending>>

TimeOfDay == 0..(Day - 1)
Clock == [mTimeOfDay : TimeOfDay, mAnchorTimeOfDay : TimeOfDay,
          mAnchorRealSeconds : 0..MaxNow, mTimeSpeed : 0..kMaxSpeed]
Command == [kind : {"set", "speed", "reset", "latency", "status"}, value : Values]

TypeOK ==
  /\ now \in 0..MaxNow
  /\ clock \in Clock
  /\ simulatedLatencyMs \in 0..kMaxLatency
  /\ pending \in Seq(Command) /\ Len(pending) <= MaxPending
  /\ exact \in TimeOfDay /\ lost \in TimeOfDay
  /\ asOf \in 0..now
  /\ commanded \in BOOLEAN
-----------------------------------------------------------------------------
(* The functions of Simulation, as what they make of a clock. *)

\* The server is started at the beginning of a day.
wallClockTimeOfDay == now % Day

clamp(v, low, high) == IF v < low THEN low ELSE IF v > high THEN high ELSE v

AnchorTimeOnly(c) == [c EXCEPT !.mAnchorTimeOfDay = c.mTimeOfDay]
reanchor(c) == [c EXCEPT !.mAnchorTimeOfDay = c.mTimeOfDay, !.mAnchorRealSeconds = now]

setTimeOfDay(c, value) == reanchor([c EXCEPT !.mTimeOfDay = value % Day])

setTimeSpeed(c, speed) == [reanchor(c) EXCEPT !.mTimeSpeed = speed]

resetClock(c) == reanchor([c EXCEPT !.mTimeSpeed = 1, !.mTimeOfDay = wallClockTimeOfDay])

\* The clock's part of step.
stepClock(c) ==
  [c EXCEPT !.mTimeOfDay = (c.mAnchorTimeOfDay
                              + (now - c.mAnchorRealSeconds) * c.mTimeSpeed) % Day]

\* init takes the configured speed, then resets the clock.
Rate == IF Configured > 0 THEN Configured ELSE 1
init == resetClock([mTimeOfDay |-> 0, mAnchorTimeOfDay |-> 0,
                    mAnchorRealSeconds |-> 0, mTimeSpeed |-> Rate])

Init ==
  /\ now = 0
  /\ clock = init
  /\ simulatedLatencyMs = 0
  /\ pending = <<>>
  /\ exact = 0 /\ lost = 0 /\ asOf = 0 /\ commanded = FALSE
-----------------------------------------------------------------------------
(* Time and ticks. *)

Pass ==
  /\ now < MaxNow
  /\ now' = now + 1
  /\ exact' = (exact + clock.mTimeSpeed) % Day
  /\ UNCHANGED <<clock, lost, asOf, commanded, simulatedLatencyMs, pending>>

Tick ==
  /\ clock' = stepClock(clock)
  /\ asOf' = now
  /\ UNCHANGED <<now, exact, lost, commanded, simulatedLatencyMs, pending>>
-----------------------------------------------------------------------------
(* Commands. *)

\* The clock is put to a time: what was lost before no longer matters.
Put(c) ==
  /\ clock' = c
  /\ exact' = c.mTimeOfDay /\ lost' = 0
  /\ asOf' = now /\ commanded' = TRUE
  /\ UNCHANGED simulatedLatencyMs

ChangeSpeed(speed) ==
  /\ clock' = setTimeSpeed(clock, speed)
  /\ lost' = (lost + (now - asOf) * clock.mTimeSpeed) % Day
  /\ asOf' = now /\ commanded' = TRUE
  /\ UNCHANGED <<exact, simulatedLatencyMs>>

\* A latency is unsigned: a negative number is a large one, and is capped.
Capped(value) == IF value < 0 \/ value > kMaxLatency THEN kMaxLatency ELSE value

\* Carrying a command out.
Apply(cmd) ==
  \/ cmd.kind = "reset" /\ Put(resetClock(clock))
  \/ cmd.kind = "set" /\ Put(setTimeOfDay(clock, cmd.value))
  \/ cmd.kind = "speed" /\ ChangeSpeed(clamp(cmd.value, 0, kMaxSpeed))
  \/ /\ cmd.kind = "latency"
     /\ simulatedLatencyMs' = Capped(cmd.value)
     /\ UNCHANGED clockVars
  \/ cmd.kind = "status" /\ UNCHANGED <<clockVars, simulatedLatencyMs>>

\* The console: at once, and only times of the day it can parse.
ConsoleCommand(cmd) ==
  /\ cmd.kind = "set" => cmd.value \in TimeOfDay
  /\ Apply(cmd)
  /\ UNCHANGED <<now, pending>>

\* AdminSetTimeRequest, AdminStatusRequest and AdminSetLatencyRequest begin with
\* a lookup of the caller's session.
AdminRequest(cmd) ==
  /\ cmd.kind = "latency" => cmd.value >= 0
  /\ Len(pending) < MaxPending
  /\ pending' = Append(pending, cmd)
  /\ UNCHANGED <<now, clockVars, simulatedLatencyMs>>

\* The lookup's callback, for a caller who is a game master.
AdminAllowed ==
  /\ pending # <<>>
  /\ Apply(Head(pending))
  /\ pending' = Tail(pending)
  /\ UNCHANGED now

\* The callback where the lookup failed or found no session, or a session whose
\* level is too low.
AdminRefused ==
  /\ pending # <<>>
  /\ pending' = Tail(pending)
  /\ UNCHANGED <<now, clockVars, simulatedLatencyMs>>

Next == \/ Pass \/ Tick \/ AdminAllowed \/ AdminRefused
        \/ \E cmd \in Command : ConsoleCommand(cmd) \/ AdminRequest(cmd)

Spec == Init /\ [][Next]_vars
-----------------------------------------------------------------------------
(* Correctness. *)

\* However commands and ticks interleave, the clock a tick shows is the exact
\* one, less what went by between a change of speed and the tick before it: it
\* never jumps and never drifts.
OnlyUntickedTimeIsLost == asOf = now => (clock.mTimeOfDay + lost) % Day = exact
-----------------------------------------------------------------------------
(* What the comments and the README say, and the code does not do. *)

\* "The clock runs at TIME_SPEED times real time", until a command changes it.
RunsAsConfigured ==
  ~commanded /\ asOf = now => clock.mTimeOfDay = (Rate * now) % Day

\* The clock "stays exact": a change of speed applies from now on, and loses
\* none of the time before it.
StaysExact == asOf = now => clock.mTimeOfDay = exact
=============================================================================
