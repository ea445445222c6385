---------------------------- MODULE InputStream -----------------------------
(***************************************************************************)
(* One player's movement inputs, from the key press to the acknowledgement:*)
(* the client's Prediction numbers, remembers and sends them, UDP loses,   *)
(* duplicates and reorders them, the world server may hold them back to    *)
(* simulate latency, Simulation::setInput keeps one of them, step applies  *)
(* it, and a snapshot carries its number back for Prediction::reconcile.   *)
(*                                                                         *)
(* An input is its sequence number, whether it asks for a jump, and its    *)
(* age: `issue' counts the inputs ever produced, so it tells the newer of  *)
(* two inputs even where sequence numbers do not.                          *)
(***************************************************************************)
EXTENDS Naturals, Sequences, SequencesExt

CONSTANTS
  Faults,       \* what the network does: "loss", "duplication", "reordering"
  EarlyInput,   \* whether inputs are sent before the first snapshot arrives
  SeqSpace,     \* number of sequence numbers: 2^32 in the code
  kMaxPending,  \* bound of the client's history: 256 in the code
  MaxIssue, MaxTicks, MaxSessions, MaxInFlight   \* bounds of the model

ASSUME StreamAssumption ==
  /\ Faults \subseteq {"loss", "duplication", "reordering"}
  /\ EarlyInput \in BOOLEAN
  /\ {SeqSpace, kMaxPending, MaxIssue, MaxTicks, MaxSessions, MaxInFlight} \subseteq Nat \ {0}
  /\ SeqSpace > 1

VARIABLES
  session,                  \* how often the player has logged in
  \* Prediction and NetClient
  mActive, mNextSequence, mPending, mSnapshotsReceived, mLastSnapshotSequence,
  mLastReconciledSnapshot,
  ownAck,                   \* lastInputSequence in the replicated own entity
  ownIssue,                 \* the input that entity state is the outcome of
  issue,                    \* inputs produced so far, over all sessions
  \* the network, per direction, in sending order
  inputs, snapshots,
  \* main.cpp and Simulation
  simulatedLatency, delayedInputs, input, lastInputSequence, outgoingSequence,
  \* history, for the properties
  heard,                    \* newest issue given to setInput this session
  dropped,                  \* newest issue reconcile has taken as accounted for
  jumps                     \* issue -> steps that jumped because of it

clientVars == <<mActive, mNextSequence, mPending, mSnapshotsReceived,
                mLastSnapshotSequence, mLastReconciledSnapshot, ownAck, ownIssue, issue, dropped>>
networkVars == <<inputs, snapshots>>
serverVars == <<simulatedLatency, delayedInputs, input, lastInputSequence,
                outgoingSequence, heard, jumps>>
vars == <<session, clientVars, networkVars, serverVars>>

Sequence == 0..(SeqSpace - 1)
Input == [sequence : Sequence, issue : 0..MaxIssue, jump : BOOLEAN]
NoInput == [sequence |-> 0, issue |-> 0, jump |-> FALSE]
Snapshot == [sequence : 0..MaxTicks, ack : Sequence, applied : 0..MaxIssue]

TypeOK ==
  /\ session \in 1..MaxSessions
  /\ mActive \in BOOLEAN
  /\ mNextSequence \in Sequence
  /\ mPending \in Seq(Input) /\ Len(mPending) <= kMaxPending
  /\ {mSnapshotsReceived, mLastSnapshotSequence, mLastReconciledSnapshot} \subseteq 0..MaxTicks
  /\ ownAck \in Sequence
  /\ {issue, ownIssue, heard, dropped} \subseteq 0..MaxIssue
  /\ inputs \in Seq(Input) /\ delayedInputs \in Seq(Input)
  /\ snapshots \in Seq(Snapshot)
  /\ simulatedLatency \in BOOLEAN
  /\ input \in Input
  /\ lastInputSequence \in Sequence
  /\ outgoingSequence \in 0..MaxTicks
  /\ jumps \in [1..MaxIssue -> Nat]

Init ==
  /\ session = 1
  /\ mActive = FALSE
  /\ mNextSequence = 1
  /\ mPending = << >>
  /\ mSnapshotsReceived = 0 /\ mLastSnapshotSequence = 0
  /\ mLastReconciledSnapshot = 0
  /\ ownAck = 0
  /\ issue = 0 /\ ownIssue = 0 /\ heard = 0 /\ dropped = 0
  /\ inputs = << >> /\ snapshots = << >> /\ delayedInputs = << >>
  /\ simulatedLatency = FALSE
  /\ input = NoInput
  /\ lastInputSequence = 0
  /\ outgoingSequence = 0
  /\ jumps = [n \in 1..MaxIssue |-> 0]

-----------------------------------------------------------------------------
(* The client. *)

\* The history after one more input, its oldest entries dropped at the bound.
Remember(history, i) ==
  LET longer == Append(history, i)
  IN  IF Len(longer) > kMaxPending THEN Tail(longer) ELSE longer

\* A client tick in the game: Prediction::step, then NetClient::sendInput.
ClientTick(jump) ==
  /\ EarlyInput \/ mActive
  /\ issue < MaxIssue
  /\ Len(inputs) < MaxInFlight
  /\ LET i == [sequence |-> mNextSequence, issue |-> issue + 1, jump |-> jump]
     IN  /\ mPending' = IF mActive THEN Remember(mPending, i) ELSE mPending
         /\ inputs' = Append(inputs, i)
  /\ mNextSequence' = (mNextSequence + 1) % SeqSpace
  /\ issue' = issue + 1
  /\ UNCHANGED <<session, mActive, mSnapshotsReceived, mLastSnapshotSequence,
                 mLastReconciledSnapshot, ownAck, ownIssue, dropped, snapshots, serverVars>>

\* The position a network without reordering delivers next is the first.
Deliverable(channel) == IF "reordering" \in Faults THEN DOMAIN channel
                        ELSE {k \in DOMAIN channel : k = 1}

\* What is left of a channel after delivery of its k-th datagram.
Delivered(channel, k) ==
  {RemoveAt(channel, k)} \cup (IF "duplication" \in Faults THEN {channel} ELSE {})

AnySnapshot(s) == TRUE
Newer(s) == mSnapshotsReceived = 0 \/ s.sequence > mLastSnapshotSequence

\* pumpWorld takes a snapshot datagram, unless an equal or newer one came first.
ReceiveSnapshot(k) ==
  /\ k \in Deliverable(snapshots)
  /\ LET s == snapshots[k]
     IN  IF Newer(s)
         THEN /\ mSnapshotsReceived < MaxTicks
              /\ mSnapshotsReceived' = mSnapshotsReceived + 1
              /\ mLastSnapshotSequence' = s.sequence
              /\ ownAck' = s.ack /\ ownIssue' = s.applied
         ELSE UNCHANGED <<mSnapshotsReceived, mLastSnapshotSequence, ownAck, ownIssue>>
  /\ snapshots' \in Delivered(snapshots, k)
  /\ UNCHANGED <<session, mActive, mNextSequence, mPending, mLastReconciledSnapshot,
                 issue, dropped, inputs, serverVars>>

\* How many inputs from the front reconcile takes as accounted for.
Acknowledged(ack) ==
  IF \A k \in DOMAIN mPending : mPending[k].sequence <= ack
  THEN Len(mPending)
  ELSE (CHOOSE k \in DOMAIN mPending :
          /\ mPending[k].sequence > ack
          /\ \A j \in 1..(k - 1) : mPending[j].sequence <= ack) - 1

\* applyReplication, own character: the first snapshot starts prediction, and
\* numbering, anew; a later one that is not yet reconciled is.
StartPrediction ==
  /\ ~mActive
  /\ mSnapshotsReceived > 0
  /\ mActive' = TRUE
  /\ mPending' = << >>
  /\ mNextSequence' = 1
  /\ UNCHANGED <<session, mSnapshotsReceived, mLastSnapshotSequence, ownAck, ownIssue,
                 mLastReconciledSnapshot, issue, dropped, networkVars, serverVars>>

Reconcile ==
  /\ mActive
  /\ mSnapshotsReceived # mLastReconciledSnapshot
  /\ mLastReconciledSnapshot' = mSnapshotsReceived
  /\ LET n == Acknowledged(ownAck)
     IN  /\ mPending' = SubSeq(mPending, n + 1, Len(mPending))
         /\ dropped' = IF n = 0 THEN dropped ELSE mPending[n].issue
  /\ UNCHANGED <<session, mActive, mNextSequence, mSnapshotsReceived,
                 mLastSnapshotSequence, ownAck, ownIssue, issue, networkVars, serverVars>>
-----------------------------------------------------------------------------
(* The world server. *)

KeepsLast(i) == TRUE
Accepts(i) == i.sequence = 0 \/ i.sequence >= input.sequence

\* Simulation::setInput.
setInput(i) ==
  /\ input' = IF Accepts(i) THEN i ELSE input
  /\ heard' = IF i.issue > heard THEN i.issue ELSE heard

\* The UDP drain takes an input datagram and holds it back or applies it.
ReceiveInput(k) ==
  /\ k \in Deliverable(inputs)
  /\ inputs' \in Delivered(inputs, k)
  /\ IF simulatedLatency
     THEN /\ Len(delayedInputs) < MaxInFlight
          /\ delayedInputs' = Append(delayedInputs, inputs[k])
          /\ UNCHANGED <<input, heard>>
     ELSE /\ setInput(inputs[k])
          /\ UNCHANGED delayedInputs
  /\ UNCHANGED <<session, clientVars, snapshots, simulatedLatency, lastInputSequence,
                 outgoingSequence, jumps>>

\* The front of the simulated link has been held long enough.
ReleaseInput ==
  /\ delayedInputs # << >>
  /\ setInput(Head(delayedInputs))
  /\ delayedInputs' = Tail(delayedInputs)
  /\ UNCHANGED <<session, clientVars, networkVars, simulatedLatency,
                 lastInputSequence, outgoingSequence, jumps>>

\* AdminSetLatency or the console turns simulated latency on or off.
SetLatency ==
  /\ simulatedLatency' = ~simulatedLatency
  /\ UNCHANGED <<session, clientVars, networkVars, delayedInputs, input,
                 lastInputSequence, outgoingSequence, heard, jumps>>

JumpHeld(i) == i
JumpConsumed(i) == [i EXCEPT !.jump = FALSE]

\* Simulation::step for the player, then the snapshot sent to it.
ServerTick ==
  /\ outgoingSequence < MaxTicks
  /\ Len(snapshots) < MaxInFlight
  /\ lastInputSequence' = input.sequence
  /\ jumps' = IF input.jump THEN [jumps EXCEPT ![input.issue] = @ + 1] ELSE jumps
  /\ input' = JumpConsumed(input)
  /\ snapshots' = Append(snapshots, [sequence |-> outgoingSequence,
                                     ack |-> input.sequence, applied |-> input.issue])
  /\ outgoingSequence' = outgoingSequence + 1
  /\ UNCHANGED <<session, clientVars, inputs, simulatedLatency, delayedInputs, heard>>
-----------------------------------------------------------------------------
LoseInput ==
  /\ "loss" \in Faults
  /\ inputs # << >>
  /\ inputs' = Tail(inputs)
  /\ UNCHANGED <<session, clientVars, snapshots, serverVars>>

LoseSnapshot ==
  /\ "loss" \in Faults
  /\ snapshots # << >>
  /\ snapshots' = Tail(snapshots)
  /\ UNCHANGED <<session, clientVars, inputs, serverVars>>

\* The player logs out, or is dropped, and logs in again: a new player on the
\* server, new sockets, and on the client a shut-down Prediction, whose
\* numbering goes on where it was.  Inputs the server still holds back are for
\* the old player id, and setInput will ignore them.
LoginAgain ==
  /\ session < MaxSessions
  /\ session' = session + 1
  /\ mActive' = FALSE
  /\ mPending' = << >>
  /\ mSnapshotsReceived' = 0 /\ mLastSnapshotSequence' = 0 /\ ownAck' = 0 /\ ownIssue' = 0
  /\ inputs' = << >> /\ snapshots' = << >> /\ delayedInputs' = << >>
  /\ input' = NoInput
  /\ lastInputSequence' = 0
  /\ outgoingSequence' = 0
  /\ heard' = 0 /\ dropped' = 0
  /\ UNCHANGED <<mNextSequence, mLastReconciledSnapshot, issue, simulatedLatency, jumps>>

Next == \/ StartPrediction \/ Reconcile \/ ReleaseInput \/ SetLatency \/ ServerTick
        \/ LoseInput \/ LoseSnapshot \/ LoginAgain
        \/ \E jump \in BOOLEAN : ClientTick(jump)
        \/ \E k \in DOMAIN inputs : ReceiveInput(k)
        \/ \E k \in DOMAIN snapshots : ReceiveSnapshot(k)

Spec == Init /\ [][Next]_vars
-----------------------------------------------------------------------------
\* "The server uses the newest one it has at each tick": of the inputs it was
\* given this session, the one it holds is the newest, however the network and
\* the simulated latency mixed them up.
NewestIntentUsed == input.issue = heard

\* "Everything up to and including the acknowledged sequence is already
\* accounted for": an input the client no longer replays is not newer than the
\* input behind the server state it replays from.
ForgottenAreAccounted == dropped <= ownIssue

\* "The jump is consumed": one jump intent makes the character jump once.
OneJumpPerIntent == \A n \in 1..issue : jumps[n] <= 1
=============================================================================
