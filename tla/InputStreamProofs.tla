-------------------------- MODULE InputStreamProofs ---------------------------
(***************************************************************************)
(* Proofs about InputStream, for any history bound, any number of inputs,  *)
(* ticks and sessions, and any of the network's faults.                    *)
(*                                                                         *)
(* The argument: in one session, sequence numbers and ages run in step, so *)
(* comparing the numbers compares the ages; the session's first input      *)
(* fixes the distance between the two (Numbered).  Snapshots then carry    *)
(* ages that grow with their own numbers (Ordered), so what reconcile      *)
(* drops is covered by the state it replays from.                          *)
(***************************************************************************)
EXTENDS InputStream, WellFoundedInduction, TLAPS
-----------------------------------------------------------------------------
(* Sequences. *)

LEMMA Elements ==
  ASSUME NEW S, NEW s \in Seq(S)
  PROVE  /\ ToSet(s) \subseteq S /\ DOMAIN s = 1..Len(s) /\ Len(s) \in Nat
         /\ \A k \in DOMAIN s : s[k] \in S /\ s[k] \in ToSet(s)
  BY DEF ToSet

LEMMA EmptyHasNone == ToSet(<< >>) = {}
  BY DEF ToSet

LEMMA Appended ==
  ASSUME NEW S, NEW s \in Seq(S), NEW x \in S
  PROVE  /\ Append(s, x) \in Seq(S) /\ Len(Append(s, x)) = Len(s) + 1
         /\ ToSet(Append(s, x)) = ToSet(s) \cup {x}
         /\ \A k \in 1..Len(s) : Append(s, x)[k] = s[k]
         /\ Append(s, x)[Len(s) + 1] = x
<1>1. /\ Append(s, x) \in Seq(S) /\ Len(Append(s, x)) = Len(s) + 1 /\ Len(s) \in Nat
      /\ DOMAIN s = 1..Len(s) /\ DOMAIN Append(s, x) = 1..(Len(s) + 1)
      /\ \A k \in 1..Len(s) : Append(s, x)[k] = s[k]
      /\ Append(s, x)[Len(s) + 1] = x
  OBVIOUS
<1>2. 1..(Len(s) + 1) = 1..Len(s) \cup {Len(s) + 1}
  BY <1>1
<1>. QED
  BY <1>1, <1>2 DEF ToSet

LEMMA Tailed ==
  ASSUME NEW S, NEW s \in Seq(S), s # << >>
  PROVE  /\ Tail(s) \in Seq(S) /\ Len(Tail(s)) = Len(s) - 1
         /\ Head(s) = s[1] /\ Head(s) \in S /\ Head(s) \in ToSet(s)
         /\ \A k \in 1..(Len(s) - 1) : Tail(s)[k] = s[k + 1]
         /\ ToSet(Tail(s)) \subseteq ToSet(s)
<1>1. /\ Tail(s) \in Seq(S) /\ Len(Tail(s)) = Len(s) - 1 /\ Len(s) \in Nat /\ Len(s) > 0
      /\ Head(s) = s[1] /\ Head(s) \in S
      /\ DOMAIN s = 1..Len(s) /\ DOMAIN Tail(s) = 1..(Len(s) - 1)
      /\ \A k \in 1..(Len(s) - 1) : Tail(s)[k] = s[k + 1]
  OBVIOUS
<1>2. 1 \in 1..Len(s) /\ \A k \in 1..(Len(s) - 1) : k + 1 \in 1..Len(s)
  BY <1>1
<1>. QED
  BY <1>1, <1>2 DEF ToSet

LEMMA Removed ==
  ASSUME NEW S, NEW s \in Seq(S), NEW k \in DOMAIN s
  PROVE  /\ RemoveAt(s, k) \in Seq(S)
         /\ DOMAIN RemoveAt(s, k) = 1..(Len(s) - 1)
         /\ \A j \in 1..(Len(s) - 1) : RemoveAt(s, k)[j] = IF j < k THEN s[j] ELSE s[j + 1]
         /\ ToSet(RemoveAt(s, k)) \subseteq ToSet(s)
<1>1. k \in 1..Len(s) /\ Len(s) \in Nat /\ DOMAIN s = 1..Len(s)
  OBVIOUS
<1>. DEFINE a == SubSeq(s, 1, k - 1)
            b == SubSeq(s, k + 1, Len(s))
<1>2. a \in Seq(S) /\ Len(a) = k - 1 /\ \A j \in 1..(k - 1) : a[j] = s[j]
  BY <1>1
<1>3. b \in Seq(S) /\ Len(b) = Len(s) - k /\ \A j \in 1..(Len(s) - k) : b[j] = s[k + j]
  BY <1>1
<1>4. RemoveAt(s, k) = a \o b
  BY DEF RemoveAt
<1>. HIDE DEF a, b
<1>5. a \o b \in Seq(S)
  BY <1>2, <1>3
<1>6. Len(a \o b) = Len(s) - 1
  <2>1. Len(a \o b) = Len(a) + Len(b)
    <3>1. a \in Seq(S) /\ b \in Seq(S)
      BY <1>2, <1>3
    <3>. QED
      BY <3>1
  <2>. QED
    BY <1>1, <1>2, <1>3, <2>1
<1>7. DOMAIN RemoveAt(s, k) = 1..(Len(s) - 1)
  BY <1>4, <1>5, <1>6
<1>8. ASSUME NEW j \in 1..(Len(s) - 1)
      PROVE  RemoveAt(s, k)[j] = IF j < k THEN s[j] ELSE s[j + 1]
  <2>1. (a \o b)[j] = IF j <= Len(a) THEN a[j] ELSE b[j - Len(a)]
    <3>1. j \in 1..(Len(a) + Len(b))
      BY <1>1, <1>2, <1>3
    <3>. QED
      BY <1>2, <1>3, <3>1, SMTT(30)
  <2>2. CASE j < k
    BY <1>1, <1>2, <1>4, <2>1, <2>2
  <2>3. CASE ~(j < k)
    <3>1. j - Len(a) \in 1..(Len(s) - k) /\ k + (j - Len(a)) = j + 1 /\ ~(j <= Len(a))
      BY <1>1, <1>2, <2>3
    <3>. QED
      BY <1>3, <1>4, <2>1, <2>3, <3>1
  <2>. QED
    BY <2>2, <2>3
<1>9. \A j \in 1..(Len(s) - 1) : j \in 1..Len(s) /\ j + 1 \in 1..Len(s)
  BY <1>1
<1>10. ToSet(RemoveAt(s, k)) \subseteq ToSet(s)
  BY <1>1, <1>7, <1>8, <1>9 DEF ToSet
<1>. QED
  BY <1>4, <1>5, <1>7, <1>8, <1>10

LEMMA Suffix ==
  ASSUME NEW S, NEW s \in Seq(S), NEW n \in 0..Len(s)
  PROVE  LET t == SubSeq(s, n + 1, Len(s))
         IN  t \in Seq(S) /\ Len(t) <= Len(s) /\ ToSet(t) \subseteq ToSet(s)
<1>. DEFINE t == SubSeq(s, n + 1, Len(s))
<1>1. /\ t \in Seq(S) /\ Len(t) = Len(s) - n /\ Len(s) \in Nat /\ n \in Nat
      /\ \A j \in 1..(Len(s) - n) : t[j] = s[n + j]
  OBVIOUS
<1>. HIDE DEF t
<1>2. DOMAIN t = 1..(Len(s) - n) /\ DOMAIN s = 1..Len(s)
  BY <1>1
<1>3. \A j \in 1..(Len(s) - n) : n + j \in 1..Len(s)
  BY <1>1
<1>4. ToSet(t) \subseteq ToSet(s)
  BY <1>1, <1>2, <1>3 DEF ToSet
<1>5. Len(t) <= Len(s)
  BY <1>1
<1>. QED
  BY <1>1, <1>4, <1>5 DEF t

\* A set of numbers has a least one.
LEMMA Least ==
  ASSUME NEW T \in SUBSET Nat, T # {}
  PROVE  \E x \in T : \A y \in T : x <= y
<1>1. PICK x \in T : \A y \in T : ~(<<y, x>> \in OpToRel(<, Nat))
  BY NatLessThanWellFounded, WFMin
<1>2. \A y \in T : ~(y < x)
  BY <1>1 DEF OpToRel
<1>. QED
  BY <1>2

\* What is left of a channel after a delivery was in it before.
LEMMA LeftInChannel ==
  ASSUME NEW S, NEW s \in Seq(S), NEW k \in DOMAIN s, NEW t \in Delivered(s, k)
  PROVE  t \in Seq(S) /\ ToSet(t) \subseteq ToSet(s)
  BY Removed DEF Delivered
-----------------------------------------------------------------------------
(* Types. *)

LEMMA Bounds ==
  /\ SeqSpace \in Nat /\ SeqSpace > 1 /\ kMaxPending \in Nat /\ kMaxPending > 0
  /\ MaxIssue \in Nat /\ MaxTicks \in Nat /\ MaxSessions \in Nat /\ MaxSessions > 0
  /\ EarlyInput \in BOOLEAN
  BY StreamAssumption

LEMMA InputFields ==
  \A i \in Input : /\ i.sequence \in Sequence /\ i.sequence \in Nat
                   /\ i.issue \in 0..MaxIssue /\ i.issue \in Nat /\ i.jump \in BOOLEAN
  BY Bounds DEF Input, Sequence

LEMMA NoInputTyped == NoInput \in Input /\ NoInput.sequence = 0 /\ NoInput.issue = 0 /\ ~NoInput.jump
  BY Bounds DEF NoInput, Input, Sequence

LEMMA SnapshotFields ==
  \A s \in Snapshot : /\ s.sequence \in 0..MaxTicks /\ s.sequence \in Nat
                      /\ s.ack \in Sequence /\ s.ack \in Nat
                      /\ s.applied \in 0..MaxIssue /\ s.applied \in Nat
  BY Bounds DEF Snapshot, Sequence

\* The history grows by one input, within its bound.
LEMMA Remembered ==
  ASSUME NEW h \in Seq(Input), Len(h) <= kMaxPending, NEW i \in Input
  PROVE  /\ Remember(h, i) \in Seq(Input) /\ Len(Remember(h, i)) <= kMaxPending
         /\ ToSet(Remember(h, i)) \subseteq ToSet(h) \cup {i}
<1>. DEFINE longer == Append(h, i)
<1>1. /\ longer \in Seq(Input) /\ Len(longer) = Len(h) + 1 /\ Len(h) \in Nat
      /\ ToSet(longer) = ToSet(h) \cup {i}
  BY Appended
<1>. HIDE DEF longer
<1>2. CASE Len(longer) > kMaxPending
  <2>1. longer # << >>
    BY <1>1
  <2>2. Tail(longer) \in Seq(Input) /\ Len(Tail(longer)) = Len(longer) - 1
        /\ ToSet(Tail(longer)) \subseteq ToSet(longer)
    BY <1>1, <2>1, Tailed
  <2>3. Remember(h, i) = Tail(longer)
    BY <1>2 DEF Remember, longer
  <2>4. Len(Tail(longer)) <= kMaxPending
    BY <1>1, <2>2, Bounds
  <2>. QED
    BY <1>1, <2>2, <2>3, <2>4
<1>3. CASE ~(Len(longer) > kMaxPending)
  <2>1. Remember(h, i) = longer
    BY <1>3 DEF Remember, longer
  <2>2. Len(longer) <= kMaxPending
    BY <1>1, <1>3, Bounds
  <2>. QED
    BY <1>1, <2>1, <2>2
<1>. QED
  BY <1>2, <1>3

\* reconcile drops a prefix of the history, all of it acknowledged.
LEMMA AcknowledgedPrefix ==
  ASSUME TypeOK, NEW ack \in Nat
  PROVE  /\ Acknowledged(ack) \in 0..Len(mPending)
         /\ Acknowledged(ack) # 0 => /\ Acknowledged(ack) \in DOMAIN mPending
                                     /\ mPending[Acknowledged(ack)].sequence <= ack
<1>1. mPending \in Seq(Input)
  BY DEF TypeOK
<1>2. DOMAIN mPending = 1..Len(mPending) /\ Len(mPending) \in Nat
      /\ \A k \in DOMAIN mPending : mPending[k].sequence \in Nat
  BY <1>1, Elements, InputFields
<1>3. CASE \A k \in DOMAIN mPending : mPending[k].sequence <= ack
  <2>1. Acknowledged(ack) = Len(mPending)
    BY <1>3 DEF Acknowledged
  <2>. QED
    BY <1>2, <1>3, <2>1
<1>4. CASE \E k \in DOMAIN mPending : ~(mPending[k].sequence <= ack)
  <2>. DEFINE T == {k \in DOMAIN mPending : mPending[k].sequence > ack}
              First(k) == /\ mPending[k].sequence > ack
                          /\ \A j \in 1..(k - 1) : mPending[j].sequence <= ack
  <2>1. T \in SUBSET Nat /\ T # {}
    BY <1>2, <1>4
  <2>2. PICK m \in T : \A y \in T : m <= y
    BY <2>1, Least
  <2>3. m \in DOMAIN mPending /\ First(m)
    <3>1. ASSUME NEW j \in 1..(m - 1) PROVE mPending[j].sequence <= ack
      <4>1. j \in DOMAIN mPending /\ j < m /\ j \in Nat /\ m \in Nat
        BY <1>2, <2>2
      <4>2. j \notin T
        BY <2>2, <4>1
      <4>. QED
        BY <1>2, <4>1, <4>2
    <3>. QED
      BY <2>2, <3>1
  <2>. DEFINE f == CHOOSE k \in DOMAIN mPending : First(k)
  <2>4. f \in DOMAIN mPending /\ First(f)
    BY <2>3
  <2>5. Acknowledged(ack) = f - 1
    BY <1>4 DEF Acknowledged
  <2>. HIDE DEF f
  <2>6. f - 1 \in 0..Len(mPending) /\ (f - 1 # 0 => f - 1 \in 1..(f - 1) /\ f - 1 \in DOMAIN mPending)
    BY <1>2, <2>4
  <2>. QED
    BY <2>4, <2>5, <2>6
<1>. QED
  BY <1>3, <1>4

\* Sequence numbers wrap around within their space.
LEMMA NextSequence ==
  ASSUME NEW n \in Sequence
  PROVE  /\ (n + 1) % SeqSpace \in Sequence
         /\ n + 1 < SeqSpace => (n + 1) % SeqSpace = n + 1
  BY Bounds DEF Sequence

LEMMA InitTypes == Init => TypeOK
<1>. SUFFICES ASSUME Init PROVE TypeOK
  OBVIOUS
<1>1. << >> \in Seq(Input) /\ << >> \in Seq(Snapshot) /\ Len(<< >>) = 0
  OBVIOUS
<1>2. 0 \in Sequence /\ 1 \in Sequence /\ 0 \in 0..MaxTicks /\ 0 \in 0..MaxIssue
      /\ 1 \in 1..MaxSessions /\ 0 <= kMaxPending
  BY Bounds DEF Sequence
<1>3. [n \in 1..MaxIssue |-> 0] \in [1..MaxIssue -> Nat]
  OBVIOUS
<1>. QED
  BY <1>1, <1>2, <1>3, NoInputTyped DEF Init, TypeOK

\* What an input needs to be sent, and the number it takes.
LEMMA ClientTickGuard ==
  ASSUME TypeOK, NEW jump \in BOOLEAN, ClientTick(jump)
  PROVE  /\ EarlyInput \/ mActive
         /\ issue \in Nat /\ MaxIssue \in Nat /\ issue < MaxIssue
         /\ issue + 1 \in 0..MaxIssue /\ issue + 1 \in 1..MaxIssue
<1>1. (EarlyInput \/ mActive) /\ issue < MaxIssue
  BY Zenon DEF ClientTick
<1>2. issue \in 0..MaxIssue
  BY DEF TypeOK
<1>3. MaxIssue \in Nat
  BY Bounds
<1>. QED
  BY <1>1, <1>2, <1>3

LEMMA ClientTickTypes ==
  ASSUME TypeOK, NEW jump \in BOOLEAN, ClientTick(jump)
  PROVE  TypeOK'
<1>. DEFINE i == [sequence |-> mNextSequence, issue |-> issue + 1, jump |-> jump]
<1>1. issue + 1 \in 0..MaxIssue
  BY ClientTickGuard
<1>2. i \in Input
  BY <1>1 DEF TypeOK, Input
<1>3. /\ inputs' = Append(inputs, i) /\ issue' = issue + 1
      /\ mPending' \in {mPending, Remember(mPending, i)}
      /\ mNextSequence' = (mNextSequence + 1) % SeqSpace
  BY DEF ClientTick
<1>. HIDE DEF i
<1>4. mPending' \in Seq(Input) /\ Len(mPending') <= kMaxPending
  <2>1. mPending \in Seq(Input) /\ Len(mPending) <= kMaxPending
    BY DEF TypeOK
  <2>2. Remember(mPending, i) \in Seq(Input) /\ Len(Remember(mPending, i)) <= kMaxPending
    BY <1>2, <2>1, Remembered
  <2>. QED
    BY <1>3, <2>1, <2>2
<1>5. inputs' \in Seq(Input)
  BY <1>2, <1>3, Appended DEF TypeOK
<1>6. mNextSequence' \in Sequence
  BY <1>3, NextSequence DEF TypeOK
<1>. QED
  BY <1>1, <1>3, <1>4, <1>5, <1>6 DEF TypeOK, ClientTick, serverVars

LEMMA ReceiveSnapshotTypes ==
  ASSUME TypeOK, NEW k \in DOMAIN snapshots, ReceiveSnapshot(k)
  PROVE  TypeOK'
<1>1. snapshots \in Seq(Snapshot) /\ snapshots' \in Delivered(snapshots, k)
  BY DEF TypeOK, ReceiveSnapshot
<1>2. snapshots[k] \in Snapshot /\ snapshots' \in Seq(Snapshot)
  BY <1>1, LeftInChannel, Elements
<1>3. mSnapshotsReceived < MaxTicks => mSnapshotsReceived + 1 \in 0..MaxTicks
  BY Bounds, SMTT(30) DEF TypeOK
<1>4. /\ mSnapshotsReceived' \in 0..MaxTicks /\ mLastSnapshotSequence' \in 0..MaxTicks
      /\ ownAck' \in Sequence /\ ownIssue' \in 0..MaxIssue
  BY <1>2, <1>3, SnapshotFields DEF ReceiveSnapshot, TypeOK
<1>. QED
  BY <1>2, <1>4 DEF TypeOK, ReceiveSnapshot, serverVars

LEMMA ReconcileTypes ==
  ASSUME TypeOK, Reconcile
  PROVE  TypeOK'
<1>. DEFINE n == Acknowledged(ownAck)
<1>1. ownAck \in Nat /\ mPending \in Seq(Input) /\ Len(mPending) <= kMaxPending
  BY Bounds DEF TypeOK, Sequence
<1>2. n \in 0..Len(mPending) /\ (n # 0 => n \in DOMAIN mPending)
  BY <1>1, AcknowledgedPrefix
<1>3. mPending' = SubSeq(mPending, n + 1, Len(mPending))
      /\ dropped' = IF n = 0 THEN dropped ELSE mPending[n].issue
  BY DEF Reconcile
<1>. HIDE DEF n
<1>4. mPending' \in Seq(Input) /\ Len(mPending') <= Len(mPending)
  BY <1>1, <1>2, <1>3, Suffix
<1>5. Len(mPending') <= kMaxPending
  <2>1. Len(mPending') \in Nat /\ Len(mPending) \in Nat
    BY <1>1, <1>4, Elements
  <2>. QED
    BY <1>1, <1>4, <2>1, Bounds
<1>6. dropped' \in 0..MaxIssue
  BY <1>1, <1>2, <1>3, Elements, InputFields DEF TypeOK
<1>. QED
  BY <1>4, <1>5, <1>6 DEF TypeOK, Reconcile, networkVars, serverVars

LEMMA ReceiveInputTypes ==
  ASSUME TypeOK, NEW k \in DOMAIN inputs, ReceiveInput(k)
  PROVE  TypeOK'
<1>1. inputs \in Seq(Input) /\ inputs' \in Delivered(inputs, k) /\ delayedInputs \in Seq(Input)
  BY DEF TypeOK, ReceiveInput
<1>2. inputs[k] \in Input /\ inputs' \in Seq(Input)
  BY <1>1, LeftInChannel, Elements
<1>3. Append(delayedInputs, inputs[k]) \in Seq(Input)
  BY <1>1, <1>2, Appended
<1>4. /\ delayedInputs' \in Seq(Input) /\ input' \in Input /\ heard' \in 0..MaxIssue
  BY <1>2, <1>3, InputFields DEF ReceiveInput, setInput, TypeOK
<1>. QED
  BY <1>2, <1>4 DEF TypeOK, ReceiveInput, clientVars

LEMMA ReleaseInputTypes ==
  ASSUME TypeOK, ReleaseInput
  PROVE  TypeOK'
<1>1. delayedInputs \in Seq(Input) /\ delayedInputs # << >> /\ delayedInputs' = Tail(delayedInputs)
  BY DEF TypeOK, ReleaseInput
<1>2. delayedInputs' \in Seq(Input) /\ Head(delayedInputs) \in Input
  BY <1>1, Tailed
<1>3. input' \in Input /\ heard' \in 0..MaxIssue
  BY <1>2, InputFields DEF ReleaseInput, setInput, TypeOK
<1>. QED
  BY <1>2, <1>3 DEF TypeOK, ReleaseInput, clientVars, networkVars

LEMMA ServerTickTypes ==
  ASSUME TypeOK, ServerTick
  PROVE  TypeOK'
<1>. DEFINE s == [sequence |-> outgoingSequence, ack |-> input.sequence, applied |-> input.issue]
<1>1. input \in Input /\ snapshots \in Seq(Snapshot) /\ jumps \in [1..MaxIssue -> Nat]
  BY DEF TypeOK
<1>2. s \in Snapshot
  BY <1>1, InputFields DEF TypeOK, Snapshot
<1>3. snapshots' = Append(snapshots, s)
  BY DEF ServerTick
<1>. HIDE DEF s
<1>4. snapshots' \in Seq(Snapshot)
  BY <1>1, <1>2, <1>3, Appended
<1>5. input' \in Input
  BY <1>1 DEF ServerTick, JumpConsumed, Input
<1>6. jumps' \in [1..MaxIssue -> Nat]
  <2>1. CASE input.jump /\ input.issue \in 1..MaxIssue
    <3>1. jumps[input.issue] + 1 \in Nat
      BY <1>1, <2>1
    <3>. QED
      BY <1>1, <2>1, <3>1 DEF ServerTick
  <2>2. CASE input.jump /\ input.issue \notin 1..MaxIssue
    BY <1>1, <2>2 DEF ServerTick
  <2>3. CASE ~input.jump
    BY <1>1, <2>3 DEF ServerTick
  <2>. QED
    BY <2>1, <2>2, <2>3
<1>7. outgoingSequence' \in 0..MaxTicks
  BY Bounds DEF TypeOK, ServerTick
<1>8. lastInputSequence' \in Sequence
  BY <1>1, InputFields DEF ServerTick
<1>. QED
  BY <1>4, <1>5, <1>6, <1>7, <1>8 DEF TypeOK, ServerTick, clientVars

LEMMA LossTypes ==
  ASSUME TypeOK, LoseInput \/ LoseSnapshot
  PROVE  TypeOK'
<1>1. CASE LoseInput
  <2>1. inputs' \in Seq(Input)
    BY <1>1, Tailed DEF LoseInput, TypeOK
  <2>. QED
    BY <1>1, <2>1 DEF LoseInput, TypeOK, clientVars, serverVars
<1>2. CASE LoseSnapshot
  <2>1. snapshots' \in Seq(Snapshot)
    BY <1>2, Tailed DEF LoseSnapshot, TypeOK
  <2>. QED
    BY <1>2, <2>1 DEF LoseSnapshot, TypeOK, clientVars, serverVars
<1>. QED
  BY <1>1, <1>2

LEMMA SessionTypes ==
  ASSUME TypeOK, StartPrediction \/ LoginAgain \/ SetLatency
  PROVE  TypeOK'
<1>1. << >> \in Seq(Input) /\ << >> \in Seq(Snapshot) /\ Len(<< >>) = 0
  OBVIOUS
<1>2. 0 \in Sequence /\ 1 \in Sequence /\ 0 \in 0..MaxTicks /\ 0 \in 0..MaxIssue /\ 0 <= kMaxPending
  BY Bounds DEF Sequence
<1>3. CASE StartPrediction
  BY <1>1, <1>2, <1>3 DEF StartPrediction, TypeOK, networkVars, serverVars
<1>4. CASE LoginAgain
  <2>1. session' \in 1..MaxSessions
    BY <1>4, Bounds DEF LoginAgain, TypeOK
  <2>. QED
    BY <1>1, <1>2, <1>4, <2>1, NoInputTyped DEF LoginAgain, TypeOK
<1>5. CASE SetLatency
  BY <1>5 DEF SetLatency, TypeOK, clientVars, networkVars
<1>. QED
  BY <1>3, <1>4, <1>5

LEMMA NextTypes == TypeOK /\ [Next]_vars => TypeOK'
<1>1. TypeOK /\ UNCHANGED vars => TypeOK'
  BY DEF vars, TypeOK, clientVars, networkVars, serverVars
<1>. QED
  BY <1>1, ClientTickTypes, ReceiveSnapshotTypes, ReconcileTypes, ReceiveInputTypes,
     ReleaseInputTypes, ServerTickTypes, LossTypes, SessionTypes DEF Next

\* Every variable keeps its type, the client's history its bound.
THEOREM StreamTypeCorrect == Spec => []TypeOK
  BY InitTypes, NextTypes, PTL DEF Spec
-----------------------------------------------------------------------------
(* One jump per intent: without duplication an input is in one place only. *)

\* No two inputs of a channel are the same.
Distinct(s) == \A j, k \in DOMAIN s : s[j].issue = s[k].issue => j = k

\* An input under way is not the one the server holds, and has not jumped yet.
Fresh(i) == i.issue \in 1..issue /\ i.issue # input.issue /\ jumps[i.issue] = 0

JumpInv ==
  /\ Distinct(inputs) /\ Distinct(delayedInputs)
  /\ \A i \in ToSet(inputs), d \in ToSet(delayedInputs) : i.issue # d.issue
  /\ \A i \in ToSet(inputs) : Fresh(i)
  /\ \A d \in ToSet(delayedInputs) : Fresh(d)
  /\ input.issue <= issue
  /\ input.jump => input.issue > 0 /\ jumps[input.issue] = 0
  /\ \A n \in 1..MaxIssue : jumps[n] <= 1 /\ (n > issue => jumps[n] = 0)

LEMMA DistinctEmpty == Distinct(<< >>)
  BY DEF Distinct

LEMMA DistinctRemoved ==
  ASSUME NEW s \in Seq(Input), Distinct(s), NEW k \in DOMAIN s
  PROVE  /\ Distinct(RemoveAt(s, k))
         /\ \A x \in ToSet(RemoveAt(s, k)) : x.issue # s[k].issue
<1>. DEFINE r == RemoveAt(s, k)
            At(j) == IF j < k THEN j ELSE j + 1
<1>1. /\ DOMAIN r = 1..(Len(s) - 1)
      /\ \A j \in 1..(Len(s) - 1) : r[j] = IF j < k THEN s[j] ELSE s[j + 1]
  BY Removed
<1>2. DOMAIN s = 1..Len(s) /\ Len(s) \in Nat
  OBVIOUS
<1>. HIDE DEF r
<1>3. /\ \A j \in 1..(Len(s) - 1) : At(j) \in 1..Len(s) /\ At(j) # k
      /\ \A i, j \in 1..(Len(s) - 1) : At(i) = At(j) => i = j
  BY <1>2
<1>4. \A j \in DOMAIN r : r[j] = s[At(j)]
  BY <1>1
<1>. HIDE DEF At
<1>5. Distinct(r)
  BY <1>1, <1>2, <1>3, <1>4 DEF Distinct
<1>6. \A j \in DOMAIN r : r[j].issue # s[k].issue
  BY <1>1, <1>2, <1>3, <1>4 DEF Distinct
<1>7. \A x \in ToSet(r) : x.issue # s[k].issue
  BY <1>6 DEF ToSet
<1>. QED
  BY <1>5, <1>7 DEF r

LEMMA DistinctTail ==
  ASSUME NEW s \in Seq(Input), Distinct(s), s # << >>
  PROVE  /\ Distinct(Tail(s))
         /\ \A x \in ToSet(Tail(s)) : x.issue # Head(s).issue
<1>. DEFINE r == Tail(s)
<1>1. /\ r \in Seq(Input) /\ Len(r) = Len(s) - 1 /\ Head(s) = s[1]
      /\ \A j \in 1..(Len(s) - 1) : r[j] = s[j + 1]
  BY Tailed
<1>2. DOMAIN s = 1..Len(s) /\ Len(s) \in Nat /\ Len(s) > 0
  OBVIOUS
<1>3. DOMAIN r = 1..(Len(s) - 1)
  BY <1>1
<1>. HIDE DEF r
<1>4. /\ 1 \in DOMAIN s
      /\ \A j \in DOMAIN r : j + 1 \in DOMAIN s /\ j + 1 # 1
      /\ \A i, j \in DOMAIN r : i + 1 = j + 1 => i = j
  BY <1>2, <1>3
<1>5. Distinct(r)
  BY <1>1, <1>3, <1>4 DEF Distinct
<1>6. \A j \in DOMAIN r : r[j].issue # Head(s).issue
  BY <1>1, <1>3, <1>4 DEF Distinct
<1>7. \A x \in ToSet(r) : x.issue # Head(s).issue
  BY <1>6 DEF ToSet
<1>. QED
  BY <1>5, <1>7 DEF r

LEMMA DistinctAppended ==
  ASSUME NEW s \in Seq(Input), Distinct(s), NEW i \in Input,
         \A x \in ToSet(s) : x.issue # i.issue
  PROVE  Distinct(Append(s, i))
<1>. DEFINE r == Append(s, i)
<1>1. /\ Len(r) = Len(s) + 1 /\ r[Len(s) + 1] = i /\ r \in Seq(Input)
      /\ \A j \in 1..Len(s) : r[j] = s[j]
  BY Appended
<1>2. DOMAIN s = 1..Len(s) /\ Len(s) \in Nat
  OBVIOUS
<1>3. DOMAIN r = 1..(Len(s) + 1)
  BY <1>1
<1>. HIDE DEF r
<1>4. \A j \in DOMAIN r : j \in DOMAIN s \/ j = Len(s) + 1
  BY <1>2, <1>3
<1>5. \A j \in DOMAIN s : r[j] = s[j] /\ r[j].issue # i.issue
  BY <1>1, <1>2 DEF ToSet
<1>6. Distinct(r)
  BY <1>1, <1>4, <1>5 DEF Distinct
<1>. QED
  BY <1>6 DEF r

LEMMA JumpInit == Init => JumpInv
<1>. SUFFICES ASSUME Init PROVE JumpInv
  OBVIOUS
<1>1. inputs = << >> /\ delayedInputs = << >> /\ input = NoInput /\ issue = 0
      /\ \A n \in 1..MaxIssue : jumps[n] = 0
  BY DEF Init
<1>. QED
  BY <1>1, EmptyHasNone, DistinctEmpty, NoInputTyped DEF JumpInv

\* setInput with an input no longer under way.
LEMMA JumpSetInput ==
  ASSUME TypeOK, JumpInv, NEW i \in Input, Fresh(i), setInput(i),
         NEW ins \in Seq(Input), NEW held \in Seq(Input),
         inputs' = ins, delayedInputs' = held, UNCHANGED <<issue, jumps>>,
         ToSet(ins) \subseteq ToSet(inputs), ToSet(held) \subseteq ToSet(delayedInputs),
         Distinct(ins), Distinct(held),
         \A x \in ToSet(ins) : x.issue # i.issue,
         \A x \in ToSet(held) : x.issue # i.issue
  PROVE  JumpInv'
<1>1. input' \in {input, i}
  BY DEF setInput
<1>2. i.issue \in Nat /\ issue \in Nat /\ input.issue \in Nat
  BY InputFields, Bounds DEF TypeOK
<1>3. i.issue > 0 /\ i.issue <= issue /\ jumps[i.issue] = 0
  BY <1>2 DEF Fresh
<1>4. (\A x \in ToSet(ins) : Fresh(x))'
  BY <1>1 DEF JumpInv, Fresh
<1>5. (\A x \in ToSet(held) : Fresh(x))'
  BY <1>1 DEF JumpInv, Fresh
<1>6. (input.issue <= issue)' /\ (input.jump => input.issue > 0 /\ jumps[input.issue] = 0)'
  BY <1>1, <1>3 DEF JumpInv
<1>. QED
  BY <1>4, <1>5, <1>6 DEF JumpInv

LEMMA JumpClientTick ==
  ASSUME TypeOK, JumpInv, NEW jump \in BOOLEAN, ClientTick(jump)
  PROVE  JumpInv'
<1>. DEFINE i == [sequence |-> mNextSequence, issue |-> issue + 1, jump |-> jump]
<1>1. /\ inputs \in Seq(Input) /\ delayedInputs \in Seq(Input) /\ input \in Input
      /\ issue \in Nat /\ issue + 1 \in 1..MaxIssue /\ MaxIssue \in Nat
  <2>1. inputs \in Seq(Input) /\ delayedInputs \in Seq(Input) /\ input \in Input
    BY DEF TypeOK
  <2>. QED
    BY <2>1, ClientTickGuard
<1>2. i \in Input /\ i.issue = issue + 1
  BY <1>1, Bounds DEF TypeOK, Input
<1>3. /\ inputs' = Append(inputs, i) /\ issue' = issue + 1
      /\ UNCHANGED <<delayedInputs, input, jumps>>
  BY DEF ClientTick, serverVars
<1>. HIDE DEF i
<1>4. \A n \in Nat : n \in 1..issue => n # issue + 1 /\ n \in 1..(issue + 1)
  BY <1>1
<1>5. /\ \A x \in ToSet(inputs) : x \in Input /\ x.issue \in 1..issue
      /\ \A x \in ToSet(delayedInputs) : x \in Input /\ x.issue \in 1..issue
  BY <1>1, Elements DEF JumpInv, Fresh
<1>6. /\ \A x \in ToSet(inputs) : x.issue # i.issue
      /\ \A x \in ToSet(delayedInputs) : x.issue # i.issue
  BY <1>2, <1>4, <1>5, InputFields
<1>7. Distinct(inputs') /\ ToSet(inputs') = ToSet(inputs) \cup {i}
  BY <1>1, <1>2, <1>3, <1>6, DistinctAppended, Appended DEF JumpInv
<1>8. \A x \in {i} : Fresh(x)'
  <2>1. input.issue \in Nat /\ input.issue <= issue
    BY <1>1, InputFields DEF JumpInv
  <2>2. issue + 1 # input.issue /\ issue + 1 \in 1..(issue + 1) /\ issue + 1 > issue
    BY <1>1, <2>1
  <2>3. jumps[issue + 1] = 0
    BY <1>1, <2>2 DEF JumpInv
  <2>. QED
    BY <1>2, <1>3, <2>2, <2>3 DEF Fresh
<1>9. /\ \A x \in ToSet(inputs) : Fresh(x)'
      /\ \A x \in ToSet(delayedInputs) : Fresh(x)'
  BY <1>3, <1>4, <1>5, InputFields DEF JumpInv, Fresh
<1>10. (input.issue <= issue)'
  <2>1. input.issue \in Nat /\ input.issue <= issue
    BY <1>1, InputFields DEF JumpInv
  <2>. QED
    BY <1>1, <1>3, <2>1
<1>11. \A n \in 1..MaxIssue : jumps[n] <= 1 /\ (n > issue + 1 => jumps[n] = 0)
  <2>1. \A n \in 1..MaxIssue : n > issue + 1 => n > issue
    BY <1>1
  <2>. QED
    BY <2>1 DEF JumpInv
<1>12. (\A x \in ToSet(inputs), d \in ToSet(delayedInputs) : x.issue # d.issue)'
  BY <1>3, <1>6, <1>7 DEF JumpInv
<1>. QED
  BY <1>3, <1>7, <1>8, <1>9, <1>10, <1>11, <1>12 DEF JumpInv

LEMMA JumpReceiveInput ==
  ASSUME "duplication" \notin Faults, TypeOK, JumpInv, NEW k \in DOMAIN inputs, ReceiveInput(k)
  PROVE  JumpInv'
<1>. DEFINE i == inputs[k]
            rest == RemoveAt(inputs, k)
<1>1. inputs \in Seq(Input) /\ delayedInputs \in Seq(Input)
  BY DEF TypeOK
<1>2. inputs' = rest /\ UNCHANGED <<issue, jumps>>
  BY DEF ReceiveInput, Delivered, clientVars
<1>3. rest \in Seq(Input) /\ ToSet(rest) \subseteq ToSet(inputs)
  BY <1>1, Removed
<1>4. Distinct(rest) /\ \A x \in ToSet(rest) : x.issue # i.issue
  BY <1>1, DistinctRemoved DEF JumpInv
<1>5. i \in Input /\ i \in ToSet(inputs)
  BY <1>1, Elements
<1>6. Fresh(i) /\ \A x \in ToSet(delayedInputs) : x.issue # i.issue
  BY <1>5 DEF JumpInv
<1>7. CASE simulatedLatency
  <2>1. delayedInputs' = Append(delayedInputs, i) /\ input' = input
    BY <1>7 DEF ReceiveInput
  <2>. HIDE DEF i, rest
  <2>2. Distinct(delayedInputs') /\ ToSet(delayedInputs') = ToSet(delayedInputs) \cup {i}
    BY <1>1, <1>5, <1>6, <2>1, DistinctAppended, Appended DEF JumpInv
  <2>. QED
    BY <1>2, <1>3, <1>4, <1>6, <2>1, <2>2 DEF JumpInv, Fresh
<1>8. CASE ~simulatedLatency
  <2>1. setInput(i) /\ delayedInputs' = delayedInputs
    BY <1>8 DEF ReceiveInput
  <2>. HIDE DEF i, rest
  <2>2. Distinct(delayedInputs)
    BY DEF JumpInv
  <2>. QED
    BY <1>1, <1>2, <1>3, <1>4, <1>5, <1>6, <2>1, <2>2, JumpSetInput
<1>. QED
  BY <1>7, <1>8

LEMMA JumpReleaseInput ==
  ASSUME TypeOK, JumpInv, ReleaseInput
  PROVE  JumpInv'
<1>. DEFINE i == Head(delayedInputs)
            rest == Tail(delayedInputs)
<1>1. inputs \in Seq(Input) /\ delayedInputs \in Seq(Input) /\ delayedInputs # << >>
  BY DEF TypeOK, ReleaseInput
<1>2. delayedInputs' = rest /\ setInput(i) /\ UNCHANGED <<inputs, issue, jumps>>
  BY DEF ReleaseInput, clientVars, networkVars
<1>3. rest \in Seq(Input) /\ ToSet(rest) \subseteq ToSet(delayedInputs)
      /\ i \in Input /\ i \in ToSet(delayedInputs)
  BY <1>1, Tailed
<1>4. Distinct(rest) /\ \A x \in ToSet(rest) : x.issue # i.issue
  BY <1>1, DistinctTail DEF JumpInv
<1>. HIDE DEF i, rest
<1>5. Fresh(i) /\ Distinct(inputs) /\ \A x \in ToSet(inputs) : x.issue # i.issue
  BY <1>3 DEF JumpInv
<1>. QED
  BY <1>1, <1>2, <1>3, <1>4, <1>5, JumpSetInput

LEMMA JumpServerTick ==
  ASSUME TypeOK, JumpInv, ServerTick
  PROVE  JumpInv'
<1>1. /\ input' = [input EXCEPT !.jump = FALSE] /\ UNCHANGED <<issue, inputs, delayedInputs>>
      /\ jumps' = IF input.jump THEN [jumps EXCEPT ![input.issue] = @ + 1] ELSE jumps
  BY DEF ServerTick, JumpConsumed, clientVars
<1>2. input \in Input /\ jumps \in [1..MaxIssue -> Nat] /\ MaxIssue \in Nat /\ issue \in 0..MaxIssue
  BY Bounds DEF TypeOK
<1>3. input'.issue = input.issue /\ ~input'.jump
  BY <1>1, <1>2 DEF Input
<1>4. \A n \in 1..MaxIssue : n # input.issue => jumps'[n] = jumps[n]
  BY <1>1, <1>2
<1>5. \A x : Fresh(x) => Fresh(x)'
  <2>1. 1..issue \subseteq 1..MaxIssue
    BY <1>2
  <2>. QED
    BY <1>1, <1>3, <1>4, <2>1 DEF Fresh
<1>6. ASSUME NEW n \in 1..MaxIssue
      PROVE  jumps'[n] <= 1 /\ (n > issue => jumps'[n] = 0)
  <2>1. CASE n = input.issue /\ input.jump
    <3>1. jumps[n] = 0 /\ n <= issue
      BY <2>1 DEF JumpInv
    <3>2. jumps'[n] = jumps[n] + 1
      BY <1>1, <1>2, <2>1
    <3>. QED
      BY <1>2, <3>1, <3>2
  <2>2. CASE ~(n = input.issue /\ input.jump)
    <3>1. jumps'[n] = jumps[n]
      BY <1>1, <1>4, <2>2
    <3>. QED
      BY <3>1 DEF JumpInv
  <2>. QED
    BY <2>1, <2>2
<1>. QED
  BY <1>1, <1>3, <1>5, <1>6 DEF JumpInv

LEMMA JumpNext == "duplication" \notin Faults /\ TypeOK /\ JumpInv /\ [Next]_vars => JumpInv'
<1>. SUFFICES ASSUME "duplication" \notin Faults, TypeOK, JumpInv, [Next]_vars PROVE JumpInv'
  OBVIOUS
<1>1. CASE LoseInput
  <2>1. inputs \in Seq(Input) /\ inputs # << >> /\ inputs' = Tail(inputs)
    BY <1>1 DEF TypeOK, LoseInput
  <2>2. ToSet(inputs') \subseteq ToSet(inputs) /\ Distinct(inputs')
    BY <2>1, Tailed, DistinctTail DEF JumpInv
  <2>. QED
    BY <1>1, <2>2 DEF LoseInput, JumpInv, Fresh, clientVars, serverVars
<1>2. CASE LoginAgain
  BY <1>2, EmptyHasNone, DistinctEmpty, NoInputTyped, Bounds
     DEF LoginAgain, JumpInv, TypeOK
<1>3. CASE UNCHANGED <<inputs, delayedInputs, input, jumps, issue>>
  BY <1>3 DEF JumpInv, Fresh, Distinct
<1>4. CASE StartPrediction \/ Reconcile \/ SetLatency \/ LoseSnapshot \/ UNCHANGED vars
           \/ \E k \in DOMAIN snapshots : ReceiveSnapshot(k)
  BY <1>3, <1>4 DEF StartPrediction, Reconcile, SetLatency, LoseSnapshot, ReceiveSnapshot,
                    vars, clientVars, networkVars, serverVars
<1>. QED
  BY <1>1, <1>2, <1>4, JumpClientTick, JumpReceiveInput, JumpReleaseInput, JumpServerTick DEF Next

\* Without duplicated datagrams, however they are lost or reordered, delayed on
\* the server or sent early, one jump intent makes the character jump once:
\* step consumes the intent, and the input is never given to setInput again.
THEOREM JumpsAreConsumed ==
  ASSUME "duplication" \notin Faults
  PROVE  Spec => []OneJumpPerIntent
<1>1. JumpInv /\ TypeOK => OneJumpPerIntent
  <2>1. TypeOK => 1..issue \subseteq 1..MaxIssue
    BY Bounds DEF TypeOK
  <2>. QED
    BY <2>1 DEF JumpInv, OneJumpPerIntent
<1>2. TypeOK /\ JumpInv /\ [Next]_vars => JumpInv'
  BY JumpNext
<1>. QED
  BY <1>1, <1>2, JumpInit, InitTypes, NextTypes, PTL DEF Spec
-----------------------------------------------------------------------------
(* Numbers and ages, in a session that sends no input before its first     *)
(* snapshot and fewer than there are sequence numbers.                     *)

\* A number and an age that belong to one input of a session whose first input
\* has age b + 1, or to none.
Fits(b, seq, age) == (seq = 0 /\ age = 0) \/ (seq > 0 /\ age = seq + b)
FitsInput(b, i) == i.sequence > 0 /\ i.issue = i.sequence + b

Numbered(b) ==
  /\ \A i \in ToSet(inputs) : FitsInput(b, i)
  /\ \A i \in ToSet(delayedInputs) : FitsInput(b, i)
  /\ \A i \in ToSet(mPending) : FitsInput(b, i)
  /\ Fits(b, input.sequence, input.issue)
  /\ \A s \in ToSet(snapshots) : Fits(b, s.ack, s.applied)
  /\ Fits(b, ownAck, ownIssue)
  /\ mActive /\ issue < MaxIssue => mNextSequence > 0 /\ mNextSequence + b = issue + 1

\* Before prediction starts the session has sent nothing.
Idle ==
  ~mActive => /\ inputs = << >> /\ delayedInputs = << >> /\ mPending = << >>
              /\ input = NoInput /\ heard = 0
              /\ ownAck = 0 /\ ownIssue = 0 /\ dropped = 0
              /\ \A s \in ToSet(snapshots) : s.ack = 0 /\ s.applied = 0

\* Ages grow along the path an input takes, and with the snapshots' numbers.
Ordered ==
  /\ mActive => mSnapshotsReceived > 0
  /\ input.issue = heard
  /\ dropped <= ownIssue /\ ownIssue <= input.issue
  /\ \A s \in ToSet(snapshots) : s.sequence < outgoingSequence /\ s.applied <= input.issue
  /\ \A s, t \in ToSet(snapshots) : s.sequence <= t.sequence => s.applied <= t.applied
  /\ mSnapshotsReceived > 0 =>
       \A s \in ToSet(snapshots) : s.sequence > mLastSnapshotSequence => ownIssue <= s.applied

SessionInv == (\E b \in 0..MaxIssue : Numbered(b)) /\ Idle /\ Ordered

LEMMA StreamNumbers ==
  ASSUME TypeOK
  PROVE  /\ {issue, ownIssue, heard, dropped, ownAck, mNextSequence, outgoingSequence,
             mSnapshotsReceived, mLastSnapshotSequence, MaxIssue, SeqSpace} \subseteq Nat
         /\ input.sequence \in Nat /\ input.issue \in Nat
         /\ \A s \in ToSet(snapshots) : s \in Snapshot
         /\ \A i \in ToSet(inputs) : i \in Input
         /\ \A i \in ToSet(delayedInputs) : i \in Input
         /\ \A i \in ToSet(mPending) : i \in Input
<1>1. /\ snapshots \in Seq(Snapshot) /\ inputs \in Seq(Input) /\ delayedInputs \in Seq(Input)
      /\ mPending \in Seq(Input) /\ input \in Input
  BY DEF TypeOK
<1>2. {issue, ownIssue, heard, dropped, ownAck, mNextSequence, outgoingSequence,
       mSnapshotsReceived, mLastSnapshotSequence, MaxIssue, SeqSpace} \subseteq Nat
  BY Bounds DEF TypeOK, Sequence
<1>. QED
  BY <1>1, <1>2, Elements, InputFields

LEMMA SessionInit == Init => SessionInv
<1>. SUFFICES ASSUME Init PROVE SessionInv
  OBVIOUS
<1>1. /\ inputs = << >> /\ delayedInputs = << >> /\ mPending = << >> /\ snapshots = << >>
      /\ input = NoInput /\ ownAck = 0 /\ ownIssue = 0 /\ heard = 0 /\ dropped = 0
      /\ ~mActive /\ mSnapshotsReceived = 0
  BY DEF Init
<1>2. Numbered(0)
  BY <1>1, EmptyHasNone, NoInputTyped DEF Numbered, Fits
<1>3. Idle
  BY <1>1, EmptyHasNone DEF Idle
<1>4. Ordered
  BY <1>1, EmptyHasNone, NoInputTyped DEF Ordered
<1>. QED
  BY <1>2, <1>3, <1>4, Bounds DEF SessionInv

\* setInput keeps the newest of the inputs it is given.
LEMMA NewestKept ==
  ASSUME TypeOK, NEW b \in Nat, Fits(b, input.sequence, input.issue), input.issue = heard,
         NEW i \in Input, FitsInput(b, i), setInput(i)
  PROVE  /\ Fits(b, input'.sequence, input'.issue)
         /\ input'.issue = heard' /\ input.issue <= input'.issue
<1>1. /\ i.sequence \in Nat /\ i.issue \in Nat /\ i.sequence > 0 /\ i.issue = i.sequence + b
      /\ input.sequence \in Nat /\ input.issue \in Nat /\ heard \in Nat
  BY StreamNumbers, InputFields DEF FitsInput
<1>2. CASE i.sequence >= input.sequence
  <2>1. input' = i /\ heard' = IF i.issue > heard THEN i.issue ELSE heard
    BY <1>2 DEF setInput, Accepts
  <2>2. input.issue <= i.issue
    BY <1>1, <1>2 DEF Fits
  <2>3. heard' = i.issue
    BY <1>1, <2>1, <2>2
  <2>. QED
    BY <1>1, <2>1, <2>2, <2>3 DEF Fits
<1>3. CASE ~(i.sequence >= input.sequence)
  <2>1. input' = input /\ heard' = IF i.issue > heard THEN i.issue ELSE heard
    BY <1>1, <1>3 DEF setInput, Accepts
  <2>2. i.issue <= input.issue
    BY <1>1, <1>3 DEF Fits
  <2>3. heard' = heard
    BY <1>1, <2>1, <2>2
  <2>. QED
    BY <1>1, <2>1, <2>3
<1>. QED
  BY <1>2, <1>3

\* What the server does to an input, as far as the client and the snapshots see.
LEMMA SessionSetInput ==
  ASSUME TypeOK, SessionInv, mActive, UNCHANGED <<clientVars, snapshots, outgoingSequence>>,
         ToSet(inputs') \subseteq ToSet(inputs),
         ToSet(delayedInputs') \subseteq ToSet(delayedInputs),
         NEW i \in ToSet(inputs) \cup ToSet(delayedInputs), setInput(i)
  PROVE  SessionInv'
<1>1. PICK b \in 0..MaxIssue : Numbered(b)
  BY DEF SessionInv
<1>2. b \in Nat /\ i \in Input /\ FitsInput(b, i)
  BY <1>1, StreamNumbers, Bounds DEF Numbered
<1>3. /\ Fits(b, input'.sequence, input'.issue)
      /\ input'.issue = heard' /\ input.issue <= input'.issue
  BY <1>1, <1>2, NewestKept DEF Numbered, SessionInv, Ordered
<1>4. /\ mPending' = mPending /\ ownAck' = ownAck /\ ownIssue' = ownIssue /\ mActive' = mActive
      /\ issue' = issue /\ mNextSequence' = mNextSequence /\ dropped' = dropped
      /\ mSnapshotsReceived' = mSnapshotsReceived
      /\ mLastSnapshotSequence' = mLastSnapshotSequence
      /\ snapshots' = snapshots /\ outgoingSequence' = outgoingSequence
  BY DEF clientVars
<1>5. Numbered(b)'
  BY <1>1, <1>3, <1>4 DEF Numbered
<1>6. Idle'
  BY <1>4 DEF Idle
<1>7. Ordered'
  <2>1. /\ ownIssue \in Nat /\ input.issue \in Nat /\ input'.issue \in Nat
        /\ \A s \in ToSet(snapshots) : s.applied \in Nat
    <3>1. input' \in Input
      BY <1>2 DEF setInput, TypeOK
    <3>. QED
      BY <3>1, StreamNumbers, InputFields, SnapshotFields
  <2>2. ownIssue <= input'.issue /\ \A s \in ToSet(snapshots) : s.applied <= input'.issue
    BY <1>3, <2>1 DEF SessionInv, Ordered
  <2>. QED
    BY <1>3, <1>4, <2>2 DEF SessionInv, Ordered
<1>. QED
  BY <1>5, <1>6, <1>7 DEF SessionInv

LEMMA SessionReceiveInput ==
  ASSUME TypeOK, SessionInv, NEW k \in DOMAIN inputs, ReceiveInput(k)
  PROVE  SessionInv'
<1>1. /\ inputs \in Seq(Input) /\ delayedInputs \in Seq(Input)
      /\ inputs' \in Delivered(inputs, k) /\ UNCHANGED <<clientVars, snapshots, outgoingSequence>>
  BY DEF TypeOK, ReceiveInput
<1>2. inputs[k] \in Input /\ inputs[k] \in ToSet(inputs) /\ ToSet(inputs') \subseteq ToSet(inputs)
  BY <1>1, Elements, LeftInChannel
<1>3. mActive
  <2>1. inputs # << >>
    BY <1>2, EmptyHasNone
  <2>. QED
    BY <2>1 DEF SessionInv, Idle
<1>4. CASE simulatedLatency
  <2>1. delayedInputs' = Append(delayedInputs, inputs[k]) /\ UNCHANGED <<input, heard>>
    BY <1>4 DEF ReceiveInput
  <2>2. ToSet(delayedInputs') = ToSet(delayedInputs) \cup {inputs[k]}
    BY <1>1, <1>2, <2>1, Appended
  <2>3. PICK b \in 0..MaxIssue : Numbered(b)
    BY DEF SessionInv
  <2>4. Numbered(b)'
    BY <1>1, <1>2, <2>1, <2>2, <2>3 DEF Numbered, clientVars
  <2>5. Idle' /\ Ordered'
    BY <1>1, <1>3, <2>1 DEF SessionInv, Idle, Ordered, clientVars
  <2>. QED
    BY <2>4, <2>5 DEF SessionInv
<1>5. CASE ~simulatedLatency
  <2>1. setInput(inputs[k]) /\ delayedInputs' = delayedInputs
    BY <1>5 DEF ReceiveInput
  <2>. QED
    BY <1>1, <1>2, <1>3, <2>1, SessionSetInput
<1>. QED
  BY <1>4, <1>5

LEMMA SessionReleaseInput ==
  ASSUME TypeOK, SessionInv, ReleaseInput
  PROVE  SessionInv'
<1>1. /\ delayedInputs \in Seq(Input) /\ delayedInputs # << >> /\ delayedInputs' = Tail(delayedInputs)
      /\ setInput(Head(delayedInputs))
      /\ UNCHANGED <<clientVars, snapshots, outgoingSequence>> /\ inputs' = inputs
  BY DEF TypeOK, ReleaseInput, networkVars
<1>2. Head(delayedInputs) \in ToSet(delayedInputs) /\ ToSet(delayedInputs') \subseteq ToSet(delayedInputs)
  BY <1>1, Tailed
<1>3. mActive
  BY <1>1 DEF SessionInv, Idle
<1>. QED
  BY <1>1, <1>2, <1>3, SessionSetInput

LEMMA SessionClientTick ==
  ASSUME ~EarlyInput, MaxIssue < SeqSpace, TypeOK, SessionInv, NEW jump \in BOOLEAN, ClientTick(jump)
  PROVE  SessionInv'
<1>. DEFINE i == [sequence |-> mNextSequence, issue |-> issue + 1, jump |-> jump]
<1>1. PICK b \in 0..MaxIssue : Numbered(b)
  BY DEF SessionInv
<1>2. /\ b \in Nat /\ mActive /\ issue < MaxIssue /\ inputs \in Seq(Input) /\ mPending \in Seq(Input)
      /\ Len(mPending) <= kMaxPending
      /\ mNextSequence \in Sequence
      /\ issue \in Nat /\ MaxIssue \in Nat /\ mNextSequence \in Nat /\ SeqSpace \in Nat
  <2>1. /\ inputs \in Seq(Input) /\ mPending \in Seq(Input) /\ Len(mPending) <= kMaxPending
        /\ mNextSequence \in Sequence
    BY DEF TypeOK
  <2>2. mNextSequence \in Nat /\ SeqSpace \in Nat
    BY StreamNumbers
  <2>3. mActive /\ issue < MaxIssue /\ issue \in Nat /\ MaxIssue \in Nat
    BY ClientTickGuard
  <2>4. b \in Nat
    BY <2>3
  <2>. QED
    BY <2>1, <2>2, <2>3, <2>4
<1>3. mNextSequence > 0 /\ mNextSequence + b = issue + 1
  BY <1>1, <1>2 DEF Numbered
<1>4. i \in Input /\ i.sequence = mNextSequence /\ i.issue = issue + 1
  BY <1>2 DEF Input
<1>5. /\ inputs' = Append(inputs, i) /\ issue' = issue + 1
      /\ mPending' = Remember(mPending, i)
      /\ mNextSequence' = (mNextSequence + 1) % SeqSpace
      /\ UNCHANGED <<mActive, mSnapshotsReceived, mLastSnapshotSequence, ownAck, ownIssue, dropped,
                     snapshots, delayedInputs, input, heard, outgoingSequence>>
  BY <1>2 DEF ClientTick, serverVars
<1>. HIDE DEF i
<1>6. FitsInput(b, i)
  BY <1>2, <1>3, <1>4 DEF FitsInput
<1>7. ToSet(inputs') = ToSet(inputs) \cup {i} /\ ToSet(mPending') \subseteq ToSet(mPending) \cup {i}
  BY <1>2, <1>4, <1>5, Appended, Remembered
<1>8. issue' < MaxIssue => mNextSequence' > 0 /\ mNextSequence' + b = issue' + 1
  <2>. SUFFICES ASSUME issue + 1 < MaxIssue
                PROVE  mNextSequence' > 0 /\ mNextSequence' + b = issue + 1 + 1
    BY <1>5
  <2>1. mNextSequence + 1 < SeqSpace
    BY <1>2, <1>3
  <2>2. mNextSequence' = mNextSequence + 1
    BY <1>2, <1>5, <2>1, NextSequence
  <2>. QED
    BY <1>2, <1>3, <2>2
<1>9. Numbered(b)'
  BY <1>1, <1>5, <1>6, <1>7, <1>8 DEF Numbered
<1>10. Idle' /\ Ordered'
  BY <1>2, <1>5 DEF SessionInv, Idle, Ordered
<1>. QED
  BY <1>9, <1>10 DEF SessionInv

LEMMA SessionReceiveSnapshot ==
  ASSUME TypeOK, SessionInv, NEW k \in DOMAIN snapshots, ReceiveSnapshot(k)
  PROVE  SessionInv'
<1>. DEFINE s == snapshots[k]
<1>1. PICK b \in 0..MaxIssue : Numbered(b)
  BY DEF SessionInv
<1>2. /\ snapshots \in Seq(Snapshot) /\ snapshots' \in Delivered(snapshots, k)
      /\ UNCHANGED <<mActive, mNextSequence, mPending, issue, dropped, inputs, delayedInputs,
                     input, heard, outgoingSequence>>
  BY DEF TypeOK, ReceiveSnapshot, serverVars
<1>3. s \in ToSet(snapshots) /\ s \in Snapshot /\ ToSet(snapshots') \subseteq ToSet(snapshots)
  BY <1>2, Elements, LeftInChannel
<1>4. CASE Newer(s)
  <2>1. /\ mSnapshotsReceived' = mSnapshotsReceived + 1 /\ mLastSnapshotSequence' = s.sequence
        /\ ownAck' = s.ack /\ ownIssue' = s.applied
    BY <1>4 DEF ReceiveSnapshot
  <2>. HIDE DEF s
  <2>2. /\ mSnapshotsReceived \in Nat /\ s.applied \in Nat /\ s.sequence \in Nat /\ dropped \in Nat
        /\ ownIssue \in Nat /\ mLastSnapshotSequence \in Nat
        /\ \A t \in ToSet(snapshots) : t.sequence \in Nat /\ t.applied \in Nat
    BY <1>3, StreamNumbers, SnapshotFields
  <2>3. Numbered(b)'
    BY <1>1, <1>2, <1>3, <2>1 DEF Numbered
  <2>4. Idle'
    BY <1>2, <1>3, <2>1 DEF SessionInv, Idle
  <2>5. dropped <= s.applied
    <3>1. CASE mSnapshotsReceived = 0
      <4>1. dropped = 0
        BY <2>2, <3>1 DEF SessionInv, Idle, Ordered
      <4>. QED
        BY <2>2, <4>1
    <3>2. CASE mSnapshotsReceived # 0
      <4>1. s.sequence > mLastSnapshotSequence /\ mSnapshotsReceived > 0
        BY <1>4, <2>2, <3>2 DEF Newer
      <4>2. ownIssue <= s.applied /\ dropped <= ownIssue
        BY <1>3, <4>1 DEF SessionInv, Ordered
      <4>. QED
        BY <2>2, <4>2
    <3>. QED
      BY <3>1, <3>2
  <2>6. \A t \in ToSet(snapshots) : t.sequence > s.sequence => s.applied <= t.applied
    BY <1>3, <2>2 DEF SessionInv, Ordered
  <2>7. mSnapshotsReceived + 1 > 0
    BY <2>2
  <2>8. Ordered'
    BY <1>2, <1>3, <2>1, <2>5, <2>6, <2>7 DEF SessionInv, Ordered
  <2>. QED
    BY <2>3, <2>4, <2>8 DEF SessionInv
<1>5. CASE ~Newer(s)
  <2>1. UNCHANGED <<mSnapshotsReceived, mLastSnapshotSequence, ownAck, ownIssue>>
    BY <1>5 DEF ReceiveSnapshot
  <2>2. Numbered(b)'
    BY <1>1, <1>2, <1>3, <2>1 DEF Numbered
  <2>3. Idle' /\ Ordered'
    BY <1>2, <1>3, <2>1 DEF SessionInv, Idle, Ordered
  <2>. QED
    BY <2>2, <2>3 DEF SessionInv
<1>. QED
  BY <1>4, <1>5

LEMMA SessionStartPrediction ==
  ASSUME TypeOK, SessionInv, StartPrediction
  PROVE  SessionInv'
<1>1. /\ ~mActive /\ mActive' /\ mSnapshotsReceived > 0 /\ mPending' = << >> /\ mNextSequence' = 1
      /\ UNCHANGED <<mSnapshotsReceived, mLastSnapshotSequence, ownAck, ownIssue, issue, dropped,
                     inputs, snapshots, delayedInputs, input, heard, outgoingSequence>>
  BY DEF StartPrediction, networkVars, serverVars, TypeOK
<1>2. PICK b \in 0..MaxIssue : b = issue
  BY DEF TypeOK
<1>3. /\ inputs = << >> /\ delayedInputs = << >> /\ input = NoInput /\ ownAck = 0 /\ ownIssue = 0
      /\ \A s \in ToSet(snapshots) : s.ack = 0 /\ s.applied = 0
  BY <1>1 DEF SessionInv, Idle
<1>4. 1 > 0 /\ 1 + b = issue + 1
  BY <1>2, Bounds
<1>5. Numbered(b)'
  BY <1>1, <1>3, <1>4, EmptyHasNone, NoInputTyped DEF Numbered, Fits
<1>6. Idle' /\ Ordered'
  BY <1>1 DEF SessionInv, Idle, Ordered
<1>. QED
  BY <1>5, <1>6 DEF SessionInv

LEMMA SessionReconcile ==
  ASSUME TypeOK, SessionInv, Reconcile
  PROVE  SessionInv'
<1>. DEFINE n == Acknowledged(ownAck)
<1>1. PICK b \in 0..MaxIssue : Numbered(b)
  BY DEF SessionInv
<1>2. /\ mActive /\ mPending' = SubSeq(mPending, n + 1, Len(mPending))
      /\ dropped' = IF n = 0 THEN dropped ELSE mPending[n].issue
      /\ UNCHANGED <<mActive, mNextSequence, mSnapshotsReceived, mLastSnapshotSequence, ownAck, ownIssue,
                     issue, inputs, snapshots, delayedInputs, input, heard, outgoingSequence>>
  BY DEF Reconcile, networkVars, serverVars
<1>3. b \in Nat /\ ownAck \in Nat /\ ownIssue \in Nat /\ mPending \in Seq(Input)
  BY StreamNumbers, Bounds, SMTT(30) DEF TypeOK
<1>4. /\ n \in 0..Len(mPending)
      /\ n # 0 => n \in DOMAIN mPending /\ mPending[n].sequence <= ownAck
  BY <1>3, AcknowledgedPrefix
<1>. HIDE DEF n
<1>5. ToSet(mPending') \subseteq ToSet(mPending)
  BY <1>2, <1>3, <1>4, Suffix
<1>6. Numbered(b)'
  BY <1>1, <1>2, <1>5 DEF Numbered
<1>7. dropped' <= ownIssue
  <2>1. CASE n = 0
    BY <1>2, <2>1 DEF SessionInv, Ordered
  <2>2. CASE n # 0
    <3>1. mPending[n] \in ToSet(mPending) /\ mPending[n] \in Input
      BY <1>3, <1>4, <2>2, Elements
    <3>2. /\ mPending[n].sequence > 0 /\ mPending[n].issue = mPending[n].sequence + b
          /\ mPending[n].sequence \in Nat
      BY <1>1, <3>1, InputFields DEF Numbered, FitsInput
    <3>3. (ownAck = 0 /\ ownIssue = 0) \/ (ownAck > 0 /\ ownIssue = ownAck + b)
      BY <1>1 DEF Numbered, Fits
    <3>4. mPending[n].issue <= ownIssue
      BY <1>3, <1>4, <2>2, <3>2, <3>3
    <3>. QED
      BY <1>2, <2>2, <3>4
  <2>. QED
    BY <2>1, <2>2
<1>8. Idle' /\ Ordered'
  BY <1>2, <1>7 DEF SessionInv, Idle, Ordered
<1>. QED
  BY <1>6, <1>8 DEF SessionInv

LEMMA SessionServerTick ==
  ASSUME TypeOK, SessionInv, ServerTick
  PROVE  SessionInv'
<1>. DEFINE s == [sequence |-> outgoingSequence, ack |-> input.sequence, applied |-> input.issue]
<1>1. PICK b \in 0..MaxIssue : Numbered(b)
  BY DEF SessionInv
<1>2. /\ snapshots' = Append(snapshots, s) /\ input' = [input EXCEPT !.jump = FALSE]
      /\ outgoingSequence' = outgoingSequence + 1
      /\ UNCHANGED <<mActive, mNextSequence, mPending, mSnapshotsReceived, mLastSnapshotSequence,
                     ownAck, ownIssue, issue, dropped, inputs, delayedInputs, heard>>
  BY DEF ServerTick, JumpConsumed, clientVars
<1>3. input \in Input /\ snapshots \in Seq(Snapshot)
  BY DEF TypeOK
<1>4. /\ s \in Snapshot /\ s.sequence = outgoingSequence
      /\ s.ack = input.sequence /\ s.applied = input.issue
  BY <1>3, InputFields DEF TypeOK, Snapshot
<1>5. input'.sequence = input.sequence /\ input'.issue = input.issue /\ (input = NoInput => input' = NoInput)
  <2>1. [NoInput EXCEPT !.jump = FALSE] = NoInput
    BY Zenon, NoInputTyped DEF NoInput, Input
  <2>2. input'.sequence = input.sequence /\ input'.issue = input.issue
    BY <1>2, <1>3 DEF Input
  <2>. QED
    BY <1>2, <2>1, <2>2
<1>. HIDE DEF s
<1>6. ToSet(snapshots') = ToSet(snapshots) \cup {s}
  BY <1>2, <1>3, <1>4, Appended
<1>7. Numbered(b)'
  BY <1>1, <1>2, <1>4, <1>5, <1>6 DEF Numbered
<1>8. Idle'
  BY <1>2, <1>4, <1>5, <1>6, NoInputTyped DEF SessionInv, Idle
<1>9. Ordered'
  <2>1. /\ outgoingSequence \in Nat /\ input.issue \in Nat /\ ownIssue \in Nat
        /\ \A t \in ToSet(snapshots) : t.sequence \in Nat /\ t.applied \in Nat
    BY StreamNumbers, SnapshotFields
  <2>2. \A t \in ToSet(snapshots) : t.sequence < outgoingSequence /\ t.applied <= input.issue
    BY DEF SessionInv, Ordered
  <2>3. \A t \in ToSet(snapshots') : t.sequence < outgoingSequence + 1 /\ t.applied <= input.issue
    BY <1>4, <1>6, <2>1, <2>2
  <2>4. \A t \in ToSet(snapshots) : t.applied <= s.applied /\ ~(s.sequence <= t.sequence)
    BY <1>4, <2>1, <2>2
  <2>5. s.applied <= s.applied /\ ownIssue <= s.applied
    BY <1>4, <2>1 DEF SessionInv, Ordered
  <2>6. \A t, u \in ToSet(snapshots') : t.sequence <= u.sequence => t.applied <= u.applied
    BY <1>6, <2>4, <2>5 DEF SessionInv, Ordered
  <2>7. mSnapshotsReceived > 0 =>
          \A t \in ToSet(snapshots') : t.sequence > mLastSnapshotSequence => ownIssue <= t.applied
    BY <1>6, <2>5 DEF SessionInv, Ordered
  <2>. QED
    BY <1>2, <1>5, <2>3, <2>6, <2>7 DEF SessionInv, Ordered
<1>. QED
  BY <1>7, <1>8, <1>9 DEF SessionInv

LEMMA SessionLoginAgain ==
  ASSUME TypeOK, SessionInv, LoginAgain
  PROVE  SessionInv'
<1>1. /\ ~mActive' /\ mPending' = << >> /\ mSnapshotsReceived' = 0 /\ ownAck' = 0 /\ ownIssue' = 0
      /\ inputs' = << >> /\ snapshots' = << >> /\ delayedInputs' = << >> /\ input' = NoInput
      /\ heard' = 0 /\ dropped' = 0
  BY DEF LoginAgain
<1>2. Numbered(0)'
  BY <1>1, EmptyHasNone, NoInputTyped DEF Numbered, Fits
<1>3. Idle'
  BY <1>1, EmptyHasNone DEF Idle
<1>4. Ordered'
  BY <1>1, EmptyHasNone, NoInputTyped DEF Ordered
<1>. QED
  BY <1>2, <1>3, <1>4, Bounds DEF SessionInv

\* A step that only loses datagrams, or changes nothing the session is about.
LEMMA SessionLosses ==
  ASSUME TypeOK, SessionInv,
         ToSet(inputs') \subseteq ToSet(inputs), ToSet(snapshots') \subseteq ToSet(snapshots),
         inputs = << >> => inputs' = << >>,
         UNCHANGED <<mActive, mNextSequence, mPending, mSnapshotsReceived, mLastSnapshotSequence,
                     ownAck, ownIssue, issue, dropped, delayedInputs, input, heard, outgoingSequence>>
  PROVE  SessionInv'
<1>1. PICK b \in 0..MaxIssue : Numbered(b)
  BY DEF SessionInv
<1>2. Numbered(b)'
  BY <1>1 DEF Numbered
<1>3. Idle' /\ Ordered'
  BY DEF SessionInv, Idle, Ordered
<1>. QED
  BY <1>2, <1>3 DEF SessionInv

LEMMA SessionNext ==
  ASSUME ~EarlyInput, MaxIssue < SeqSpace, TypeOK, SessionInv, [Next]_vars
  PROVE  SessionInv'
<1>1. CASE LoseInput
  <2>1. inputs \in Seq(Input) /\ inputs # << >> /\ inputs' = Tail(inputs)
        /\ UNCHANGED <<clientVars, snapshots, serverVars>>
    BY <1>1 DEF TypeOK, LoseInput
  <2>2. ToSet(inputs') \subseteq ToSet(inputs)
    BY <2>1, Tailed
  <2>. QED
    BY <2>1, <2>2, SessionLosses DEF clientVars, serverVars
<1>2. CASE LoseSnapshot
  <2>1. snapshots \in Seq(Snapshot) /\ snapshots # << >> /\ snapshots' = Tail(snapshots)
        /\ UNCHANGED <<clientVars, inputs, serverVars>>
    BY <1>2 DEF TypeOK, LoseSnapshot
  <2>2. ToSet(snapshots') \subseteq ToSet(snapshots)
    BY <2>1, Tailed
  <2>. QED
    BY <2>1, <2>2, SessionLosses DEF clientVars, serverVars
<1>3. CASE SetLatency \/ UNCHANGED vars
  <2>1. UNCHANGED <<clientVars, networkVars, delayedInputs, input, heard, outgoingSequence>>
    BY <1>3 DEF SetLatency, vars, serverVars
  <2>. QED
    BY <2>1, SessionLosses DEF clientVars, networkVars
<1>. QED
  BY <1>1, <1>2, <1>3, SessionClientTick, SessionReceiveInput, SessionReceiveSnapshot,
     SessionStartPrediction, SessionReconcile, SessionReleaseInput, SessionServerTick,
     SessionLoginAgain DEF Next

\* When nothing is sent before the first snapshot and no sequence number comes
\* round again, the server always holds the newest input it was given, whatever
\* the network lost, duplicated or reordered: setInput may compare the numbers.
THEOREM ServerUsesNewest ==
  ASSUME ~EarlyInput, MaxIssue < SeqSpace
  PROVE  Spec => []NewestIntentUsed
<1>1. SessionInv => NewestIntentUsed
  BY DEF SessionInv, Ordered, NewestIntentUsed
<1>2. TypeOK /\ SessionInv /\ [Next]_vars => SessionInv'
  BY SessionNext
<1>. QED
  BY <1>1, <1>2, SessionInit, InitTypes, NextTypes, PTL DEF Spec

\* Under the same two conditions an input reconcile has dropped from the history
\* is never newer than the one behind the state the client replays from: no
\* input is forgotten that the server has not yet used or passed over.
THEOREM DroppedAreAccounted ==
  ASSUME ~EarlyInput, MaxIssue < SeqSpace
  PROVE  Spec => []ForgottenAreAccounted
<1>1. SessionInv => ForgottenAreAccounted
  BY DEF SessionInv, Ordered, ForgottenAreAccounted
<1>2. TypeOK /\ SessionInv /\ [Next]_vars => SessionInv'
  BY SessionNext
<1>. QED
  BY <1>1, <1>2, SessionInit, InitTypes, NextTypes, PTL DEF Spec
=============================================================================
