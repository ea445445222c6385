-------------------------- MODULE TransportProofs ---------------------------
(***************************************************************************)
(* Proofs about the two ends of a TCP connection: DbClient, for any number *)
(* of calls and any size of the space of request ids, and the framing      *)
(* below it, MessageStream, for any messages, any size of the kernel's     *)
(* buffer and any limit on payloads.                                       *)
(*                                                                         *)
(* The client: while it is connected, the requests on the wire carry the   *)
(* ids just before mNextRequestId, in order, and the table of handlers     *)
(* holds exactly their calls.  Since fewer than IdSpace of them are under  *)
(* way when a new one is sent, the next id is free, wrapped around or not, *)
(* so emplace never loses a handler and a reply never finds the handler of *)
(* another call.                                                           *)
(*                                                                         *)
(* The framing: there is one stream of cells, the frames of all messages   *)
(* sent one after the other.  The receiver's buffer begins in it where the *)
(* frame of the last message handed out ends, and what the kernel holds    *)
(* and what is still to be written follow without a gap.  So the size in   *)
(* front of the buffer is that of the next message, wherever the stream    *)
(* was cut.                                                                *)
(***************************************************************************)
EXTENDS DbClient, MessageStream, TLAPS

-----------------------------------------------------------------------------
(* The client of the database.                                             *)

\* The id that is n before id, around the wrap.
Back(id, n) == IF id >= n THEN id - n ELSE id + IdSpace - n

Index == 1..Len(wire)

\* The requests on the wire, by id and by age.
WireIds == \A i \in Index : wire[i].id = Back(mNextRequestId, Len(wire) + 1 - i)
WireCalls == /\ Len(wire) <= MaxPending
             /\ \A i \in Index : wire[i].call < nextCall
             /\ \A i, j \in Index : i < j => wire[i].call < wire[j].call

\* The table of handlers is the wire, read by id.
TableIsWire ==
  IF mConnected
  THEN /\ \A i \in Index : mPending[wire[i].id] = wire[i].call
       /\ \A d \in Ids : mPending[d] # 0 => \E i \in Index : wire[i].id = d
       /\ failing = {}
  ELSE mPending = NoHandlers

\* A call waits for its callback as long as it is on the wire or failing.
Waiting == /\ mConnected => \A i \in Index : callbacks[wire[i].call] = 0
           /\ \A k \in failing : callbacks[k] = 0 /\ k < nextCall
           /\ \A k \in Calls : k < nextCall /\ callbacks[k] = 0 =>
                \/ k \in failing
                \/ mConnected /\ \E i \in Index : wire[i].call = k

\* Calls not yet made have left no trace.
Untouched == \A k \in Calls : k >= nextCall =>
               callbacks[k] = 0 /\ executed[k] = 0 /\ answer[k] = 0

\* What is on the wire has been executed once, up to done, and not yet after.
ExecutedUpToDone ==
  \A i \in Index : executed[wire[i].call] = IF i <= done THEN 1 ELSE 0

\* An answer comes with the callback, never before it.
AnswerWithCallback == \A k \in Calls : callbacks[k] = 0 => answer[k] = 0

IInv == /\ TypeOK
        /\ WireIds /\ WireCalls /\ TableIsWire /\ Waiting
        /\ Untouched /\ ExecutedUpToDone
        /\ AtMostOneCallback /\ RightAnswer /\ AnswerWithCallback

-----------------------------------------------------------------------------
\* Stepping an id forward and looking back n + 1 is looking back n from it.
LEMMA BackAfter ==
  ASSUME NEW id \in Ids, NEW n \in 0..(IdSpace - 1)
  PROVE  /\ After(id) \in Ids
         /\ Back(After(id), n + 1) = Back(id, n)
  BY BoundsAssumption DEF After, Back, Ids

\* The next request id is free while fewer than MaxPending calls are under way.
LEMMA NextIdFree ==
  ASSUME IInv, mConnected, Len(wire) < MaxPending
  PROVE  mPending[mNextRequestId] = 0
<1>1. SUFFICES ASSUME mPending[mNextRequestId] # 0 PROVE FALSE
  OBVIOUS
<1>2. mNextRequestId \in Ids
  BY DEF IInv, TypeOK
<1>3. PICK i \in Index : wire[i].id = mNextRequestId
  BY <1>1, <1>2 DEF IInv, TableIsWire
<1>4. Len(wire) \in Nat
  BY DEF IInv, TypeOK
<1>5. wire[i].id = Back(mNextRequestId, Len(wire) + 1 - i)
  BY DEF IInv, WireIds
<1>6. Len(wire) + 1 - i \in 1..(IdSpace - 1)
  BY <1>4, BoundsAssumption DEF Index
<1>7. \A n \in 1..(IdSpace - 1) : Back(mNextRequestId, n) # mNextRequestId
  BY <1>2, BoundsAssumption DEF Back, Ids
<1>. QED
  BY <1>3, <1>5, <1>6, <1>7

\* A request on the wire has an id and a call, which is not 0.
LEMMA WireElement ==
  ASSUME TypeOK, NEW i \in Index
  PROVE  /\ wire[i].id \in Ids /\ wire[i].call \in Calls
         /\ wire[i].call \in Nat \ {0}
         /\ i \in Nat \ {0} /\ i <= Len(wire) /\ Len(wire) \in Nat
<1>1. wire[i] \in Message /\ Len(wire) \in Nat
  BY DEF TypeOK, Index
<1>. QED
  BY <1>1, BoundsAssumption DEF Message, Index, Calls

\* Two requests on the wire never share an id.
LEMMA WireIdsDistinct ==
  ASSUME IInv, NEW i \in Index, NEW j \in Index, i # j
  PROVE  wire[i].id # wire[j].id
<1>1. /\ Len(wire) \in Nat
      /\ Len(wire) <= MaxPending
      /\ mNextRequestId \in Ids
  BY DEF IInv, TypeOK, WireCalls
<1>2. /\ wire[i].id = Back(mNextRequestId, Len(wire) + 1 - i)
      /\ wire[j].id = Back(mNextRequestId, Len(wire) + 1 - j)
  BY DEF IInv, WireIds
<1>. QED
  BY <1>1, <1>2, BoundsAssumption DEF Back, Ids, Index

LEMMA InitIInv == Init => IInv
<1>. SUFFICES ASSUME Init PROVE IInv
  OBVIOUS
<1>1. Len(wire) = 0 /\ Index = {}
  BY DEF Init, Index
<1>2. 1 % IdSpace \in Ids
  BY BoundsAssumption DEF Ids
<1>3. wire \in Seq(Message) /\ done \in 0..Len(wire)
  BY DEF Init
<1>4. mPending \in [Ids -> 0..MaxCalls] /\ answer \in [Calls -> 0..MaxCalls]
  BY BoundsAssumption DEF Init, NoHandlers
<1>5. mConnected \in BOOLEAN /\ linkUp \in BOOLEAN /\ failing \subseteq Calls
  BY DEF Init
<1>6. /\ nextCall \in 1..(MaxCalls + 1)
      /\ callbacks \in [Calls -> Nat] /\ executed \in [Calls -> Nat]
  BY BoundsAssumption DEF Init
<1>7. TypeOK
  BY <1>2, <1>3, <1>4, <1>5, <1>6 DEF Init, TypeOK
<1>. QED
  BY <1>1, <1>7, BoundsAssumption DEF Init, IInv, WireIds, WireCalls, TableIsWire,
     Waiting, Untouched, ExecutedUpToDone, AtMostOneCallback, RightAnswer,
     AnswerWithCallback, Calls, NoHandlers

\* The next state keeps the invariant: one lemma per action that does more than
\* change one flag.

LEMMA SendIInv == IInv /\ Send => IInv'
<1>. SUFFICES ASSUME IInv, Send PROVE IInv'
  OBVIOUS
<1>. DEFINE m == [id |-> mNextRequestId, call |-> nextCall]
            L == Len(wire)
<1>1. /\ L \in Nat /\ L < MaxPending /\ MaxPending <= IdSpace /\ done \in 0..L
      /\ mNextRequestId \in Ids /\ nextCall \in Calls /\ m \in Message
      /\ mPending \in [Ids -> 0..MaxCalls] /\ wire \in Seq(Message)
      /\ IdSpace \in Nat /\ MaxPending \in Nat
  BY BoundsAssumption, SMTT(30) DEF IInv, TypeOK, Send, Calls, Message
<1>2. mPending[mNextRequestId] = 0
  BY NextIdFree DEF Send
<1>3. mPending' = [mPending EXCEPT ![mNextRequestId] = nextCall]
  BY <1>2 DEF Send, Register
<1>4. /\ wire' \in Seq(Message) /\ Len(wire') = L + 1
      /\ \A i \in 1..L : wire'[i] = wire[i]
      /\ wire'[L + 1] = m
  BY <1>1 DEF Send
<1>5. Index' = Index \cup {L + 1}
  BY <1>1, <1>4 DEF Index
<1>6. mNextRequestId' \in Ids
  BY <1>1, BackAfter, BoundsAssumption DEF Send, Ids
<1>7. TypeOK'
  <2>1. mPending' \in [Ids -> 0..MaxCalls]
    BY <1>1, <1>3 DEF Calls
  <2>2. nextCall' \in 1..(MaxCalls + 1) /\ done' \in 0..Len(wire')
    BY <1>1, <1>4, BoundsAssumption DEF Send, Calls
  <2>. QED
    BY <1>4, <1>6, <2>1, <2>2 DEF IInv, TypeOK, Send
<1>8. WireIds'
  <2>1. SUFFICES ASSUME NEW i \in Index'
                 PROVE  wire'[i].id = Back(mNextRequestId', Len(wire') + 1 - i)
    BY DEF WireIds, Index
  <2>2. L + 1 - i \in 0..(IdSpace - 1) /\ i \in Nat
    <3>1. i \in 1..(L + 1)
      BY <1>1, <1>5 DEF Index
    <3>. QED
      BY <1>1, <3>1
  <2>3. Back(mNextRequestId', Len(wire') + 1 - i) = Back(mNextRequestId, L + 1 - i)
    <3>. DEFINE n == L + 1 - i
    <3>1. n \in 0..(IdSpace - 1) /\ Len(wire') + 1 - i = n + 1
      BY <1>1, <1>4, <2>2
    <3>. HIDE DEF n
    <3>2. Back(After(mNextRequestId), n + 1) = Back(mNextRequestId, n)
      BY <1>1, <3>1, BackAfter
    <3>. QED
      BY <3>1, <3>2 DEF Send, n
  <2>4. CASE i \in Index
    BY <1>4, <2>3, <2>4 DEF IInv, WireIds, Index
  <2>5. CASE i = L + 1
    <3>1. L + 1 - i = 0
      BY <1>1, <2>5
    <3>2. Back(mNextRequestId, 0) = mNextRequestId
      BY <1>1 DEF Back, Ids
    <3>. QED
      BY <1>4, <2>3, <2>5, <3>1, <3>2
  <2>. QED
    BY <1>5, <2>4, <2>5
<1>9. WireCalls'
  <2>1. \A i \in Index : wire'[i].call = wire[i].call /\ wire[i].call < nextCall
    BY <1>4 DEF IInv, WireCalls, Index
  <2>2. wire'[L + 1].call = nextCall /\ nextCall' = nextCall + 1 /\ nextCall \in Nat
    BY <1>1, <1>4 DEF Send, Calls
  <2>3. \A i \in Index' : wire'[i].call < nextCall'
    BY <1>5, <2>1, <2>2, WireElement DEF IInv
  <2>4. \A i, j \in Index' : i < j => wire'[i].call < wire'[j].call
    BY <1>1, <1>5, <2>1, <2>2, WireElement DEF IInv, WireCalls
  <2>. QED
    BY <1>1, <1>4, <2>3, <2>4 DEF WireCalls
<1>10. TableIsWire'
  <2>1. \A i \in Index : wire[i].id # mNextRequestId
    BY <1>2, WireElement DEF IInv, TableIsWire, Send
  <2>2. \A i \in Index' : mPending'[wire'[i].id] = wire'[i].call
    <3>1. ASSUME NEW i \in Index PROVE mPending'[wire'[i].id] = wire'[i].call
      <4>1. wire'[i] = wire[i] /\ wire[i].id \in Ids
        BY <1>4, WireElement DEF IInv, Index
      <4>2. mPending[wire[i].id] = wire[i].call
        BY DEF IInv, TableIsWire, Send
      <4>. QED
        BY <1>1, <1>3, <2>1, <4>1, <4>2
    <3>2. mPending'[wire'[L + 1].id] = wire'[L + 1].call
      BY <1>1, <1>3, <1>4
    <3>. QED
      BY <1>5, <3>1, <3>2
  <2>3. \A d \in Ids : mPending'[d] # 0 => \E i \in Index' : wire'[i].id = d
    <3>1. SUFFICES ASSUME NEW d \in Ids, mPending'[d] # 0
                   PROVE  \E i \in Index' : wire'[i].id = d
      OBVIOUS
    <3>2. CASE d = mNextRequestId
      BY <1>4, <1>5, <3>2
    <3>3. CASE d # mNextRequestId
      <4>1. mPending[d] # 0
        BY <1>1, <1>3, <3>1, <3>3
      <4>2. PICK i \in Index : wire[i].id = d
        BY <4>1 DEF IInv, TableIsWire, Send
      <4>. QED
        BY <1>4, <1>5, <4>2 DEF Index
    <3>. QED
      BY <3>2, <3>3
  <2>4. mConnected' /\ failing' = {}
    BY DEF IInv, TableIsWire, Send
  <2>. QED
    BY <2>2, <2>3, <2>4 DEF TableIsWire, Ids
<1>11. Waiting'
  <2>1. mConnected /\ mConnected' /\ failing' = {} /\ failing = {} /\ callbacks' = callbacks
    BY DEF IInv, TableIsWire, Send
  <2>2. \A i \in Index' : callbacks'[wire'[i].call] = 0
    <3>1. ASSUME NEW i \in Index PROVE callbacks'[wire'[i].call] = 0
      BY <1>4, <2>1 DEF IInv, Waiting, Index
    <3>2. callbacks'[wire'[L + 1].call] = 0
      BY <1>1, <1>4, <2>1 DEF IInv, Untouched, Calls
    <3>. QED
      BY <1>5, <3>1, <3>2
  <2>3. \A k \in Calls : k < nextCall' /\ callbacks'[k] = 0 =>
          \E i \in Index' : wire'[i].call = k
    <3>1. SUFFICES ASSUME NEW k \in Calls, k < nextCall + 1, callbacks[k] = 0
                   PROVE  \E i \in Index' : wire'[i].call = k
      BY <2>1 DEF Send
    <3>2. CASE k = nextCall
      BY <1>4, <1>5, <3>2
    <3>3. CASE k < nextCall
      <4>1. PICK i \in Index : wire[i].call = k
        BY <2>1, <3>1, <3>3 DEF IInv, Waiting
      <4>. QED
        BY <1>4, <1>5, <4>1 DEF Index
    <3>. QED
      BY <1>1, <3>1, <3>2, <3>3 DEF Calls
  <2>. QED
    BY <2>1, <2>2, <2>3 DEF Waiting, Calls
<1>12. Untouched'
  BY <1>1 DEF IInv, Untouched, Send, Calls
<1>13. ExecutedUpToDone'
  <2>1. ASSUME NEW i \in Index
        PROVE  executed'[wire'[i].call] = IF i <= done' THEN 1 ELSE 0
    BY <1>4 DEF IInv, ExecutedUpToDone, Send, Index
  <2>2. executed'[wire'[L + 1].call] = IF L + 1 <= done' THEN 1 ELSE 0
    BY <1>1, <1>4 DEF IInv, Untouched, Send, Calls
  <2>. QED
    BY <1>5, <2>1, <2>2 DEF ExecutedUpToDone
<1>14. AtMostOneCallback' /\ RightAnswer' /\ AnswerWithCallback'
  BY DEF IInv, AtMostOneCallback, RightAnswer, AnswerWithCallback, Send, Calls
<1>. QED
  BY <1>7, <1>8, <1>9, <1>10, <1>11, <1>12, <1>13, <1>14 DEF IInv

LEMMA RefuseIInv == IInv /\ Refuse => IInv'
<1>. SUFFICES ASSUME IInv, Refuse PROVE IInv'
  OBVIOUS
<1>1. /\ nextCall \in Calls /\ callbacks \in [Calls -> Nat] /\ ~mConnected
      /\ callbacks' = [callbacks EXCEPT ![nextCall] = @ + 1]
      /\ callbacks[nextCall] = 0 /\ answer[nextCall] = 0
      /\ nextCall' = nextCall + 1 /\ nextCall \in Nat
  BY BoundsAssumption DEF IInv, TypeOK, Untouched, Refuse, Calls
<1>2. TypeOK'
  <2>1. callbacks' \in [Calls -> Nat] /\ nextCall' \in 1..(MaxCalls + 1)
    BY <1>1, BoundsAssumption DEF Calls
  <2>. QED
    BY <2>1 DEF IInv, TypeOK, Refuse
<1>3. WireIds' /\ TableIsWire' /\ ExecutedUpToDone'
  BY DEF IInv, WireIds, TableIsWire, ExecutedUpToDone, Refuse, Index, NoHandlers
<1>4. WireCalls'
  BY <1>1, WireElement DEF IInv, WireCalls, Refuse, Index
<1>5. Waiting'
  <2>1. ~mConnected' /\ failing' = failing
    BY DEF Refuse
  <2>2. \A k \in failing : callbacks'[k] = 0 /\ k < nextCall'
    BY <1>1 DEF IInv, Waiting, TypeOK, Calls
  <2>3. \A k \in Calls : k < nextCall' /\ callbacks'[k] = 0 => k \in failing
    BY <1>1 DEF IInv, Waiting, Calls
  <2>. QED
    BY <2>1, <2>2, <2>3 DEF Waiting
<1>6. Untouched' /\ AtMostOneCallback' /\ RightAnswer' /\ AnswerWithCallback'
  BY <1>1 DEF IInv, Untouched, AtMostOneCallback, RightAnswer, AnswerWithCallback,
     Refuse, Calls
<1>. QED
  BY <1>2, <1>3, <1>4, <1>5, <1>6 DEF IInv

LEMMA DbExecuteIInv == IInv /\ DbExecute => IInv'
<1>. SUFFICES ASSUME IInv, DbExecute PROVE IInv'
  OBVIOUS
<1>. DEFINE k == wire[done + 1].call
<1>1. /\ done \in Nat /\ done + 1 \in Index /\ Len(wire) \in Nat
      /\ executed \in [Calls -> Nat]
  BY DEF IInv, TypeOK, DbExecute, Index
<1>2. k \in Calls /\ executed[k] = 0
  BY <1>1, WireElement DEF IInv, ExecutedUpToDone
<1>3. /\ executed' = [executed EXCEPT ![k] = 1]
      /\ done' = done + 1
      /\ wire' = wire /\ Index' = Index
  BY <1>1, <1>2 DEF DbExecute, Index
<1>4. TypeOK'
  <2>1. executed' \in [Calls -> Nat] /\ done' \in 0..Len(wire')
    BY <1>1, <1>2, <1>3 DEF Index
  <2>. QED
    BY <2>1 DEF IInv, TypeOK, DbExecute
<1>5. WireIds' /\ WireCalls' /\ TableIsWire' /\ Waiting' /\ AtMostOneCallback'
      /\ AnswerWithCallback'
  BY DEF IInv, WireIds, WireCalls, TableIsWire, Waiting, AtMostOneCallback,
     AnswerWithCallback, DbExecute, Index, NoHandlers
<1>6. ExecutedUpToDone'
  <2>1. \A i \in Index : i # done + 1 => wire[i].call # k
    <3>1. SUFFICES ASSUME NEW i \in Index, i # done + 1 PROVE wire[i].call # k
      OBVIOUS
    <3>2. i < done + 1 \/ done + 1 < i
      BY <1>1, <3>1, WireElement DEF IInv
    <3>. QED
      BY <1>1, <3>2, WireElement DEF IInv, WireCalls
  <2>2. ASSUME NEW i \in Index
        PROVE  executed'[wire[i].call] = IF i <= done + 1 THEN 1 ELSE 0
    <3>1. i \in Nat /\ wire[i].call \in Calls
      BY WireElement DEF IInv
    <3>2. executed[wire[i].call] = IF i <= done THEN 1 ELSE 0
      BY DEF IInv, ExecutedUpToDone
    <3>3. CASE i = done + 1
      BY <1>1, <1>2, <1>3, <3>3
    <3>4. CASE i # done + 1
      BY <1>1, <1>2, <1>3, <2>1, <3>1, <3>2, <3>4
    <3>. QED
      BY <3>3, <3>4
  <2>. QED
    BY <1>3, <2>2 DEF ExecutedUpToDone
<1>7. Untouched'
  <2>1. k < nextCall /\ nextCall' = nextCall /\ callbacks' = callbacks /\ answer' = answer
    BY <1>1 DEF IInv, WireCalls, DbExecute
  <2>2. k \in Nat /\ nextCall \in Nat
    BY <1>1, WireElement DEF IInv, TypeOK
  <2>. QED
    BY <1>1, <1>2, <1>3, <2>1, <2>2 DEF IInv, Untouched, Calls
<1>8. RightAnswer'
  BY <1>1, <1>2, <1>3 DEF IInv, RightAnswer, DbExecute
<1>. QED
  BY <1>4, <1>5, <1>6, <1>7, <1>8 DEF IInv

LEMMA PollReplyIInv == IInv /\ PollReply => IInv'
<1>. SUFFICES ASSUME IInv, PollReply PROVE IInv'
  OBVIOUS
<1>. DEFINE L == Len(wire)
            d == wire[1].id
            k == wire[1].call
<1>1. /\ L \in Nat /\ L > 0 /\ done \in 1..L /\ wire \in Seq(Message)
      /\ mConnected /\ failing = {}
      /\ callbacks \in [Calls -> Nat] /\ mPending \in [Ids -> 0..MaxCalls]
      /\ answer \in [Calls -> 0..MaxCalls]
  BY DEF IInv, TypeOK, TableIsWire, PollReply
<1>2. 1 \in Index
  BY <1>1 DEF Index
<1>3. /\ d \in Ids /\ k \in Calls /\ k \in Nat \ {0}
      /\ mPending[d] = k /\ callbacks[k] = 0 /\ executed[k] = 1
  BY <1>1, <1>2, WireElement DEF IInv, TableIsWire, Waiting, ExecutedUpToDone
<1>4. Head(wire) = wire[1]
  BY <1>1
<1>5. /\ mPending' = [mPending EXCEPT ![d] = 0]
      /\ callbacks' = [callbacks EXCEPT ![k] = 1]
      /\ answer' = [answer EXCEPT ![k] = k]
      /\ done' = done - 1
      /\ mConnected' = mConnected /\ failing' = failing /\ nextCall' = nextCall
      /\ mNextRequestId' = mNextRequestId /\ executed' = executed
  BY <1>1, <1>3, <1>4 DEF PollReply, TakeHandler
<1>6. /\ wire' \in Seq(Message) /\ Len(wire') = L - 1
      /\ \A i \in 1..(L - 1) : wire'[i] = wire[i + 1]
  BY <1>1 DEF PollReply
<1>7. /\ Index' = 1..(L - 1)
      /\ \A i \in Index' : i \in Nat /\ i + 1 \in Index /\ i + 1 # 1 /\ wire'[i] = wire[i + 1]
      /\ \A i \in Index : i # 1 => i - 1 \in Index' /\ wire'[i - 1] = wire[i]
  BY <1>1, <1>6 DEF Index
<1>8. TypeOK'
  <2>1. /\ mPending' \in [Ids -> 0..MaxCalls] /\ callbacks' \in [Calls -> Nat]
        /\ answer' \in [Calls -> 0..MaxCalls]
    BY <1>1, <1>3, <1>5, BoundsAssumption DEF Calls
  <2>2. done' \in 0..Len(wire')
    BY <1>1, <1>5, <1>6
  <2>. QED
    BY <1>6, <2>1, <2>2 DEF IInv, TypeOK, PollReply
<1>9. WireIds'
  <2>1. SUFFICES ASSUME NEW i \in Index'
                 PROVE  wire'[i].id = Back(mNextRequestId, Len(wire') + 1 - i)
    BY <1>5 DEF WireIds
  <2>2. Len(wire') + 1 - i = L + 1 - (i + 1)
    BY <1>1, <1>6, <1>7
  <2>3. wire[i + 1].id = Back(mNextRequestId, L + 1 - (i + 1))
    BY <1>7 DEF IInv, WireIds
  <2>. QED
    BY <1>7, <2>2, <2>3
<1>10. WireCalls'
  <2>1. \A i \in Index' : wire'[i].call < nextCall'
    BY <1>5, <1>7 DEF IInv, WireCalls
  <2>2. \A i, j \in Index' : i < j => wire'[i].call < wire'[j].call
    BY <1>7 DEF IInv, WireCalls
  <2>3. Len(wire') <= MaxPending
    BY <1>1, <1>6, BoundsAssumption DEF IInv, WireCalls
  <2>. QED
    BY <2>1, <2>2, <2>3 DEF WireCalls
<1>11. TableIsWire'
  <2>1. ASSUME NEW i \in Index' PROVE mPending'[wire'[i].id] = wire'[i].call
    <3>1. wire[i + 1].id \in Ids /\ wire[i + 1].id # d
      BY <1>2, <1>7, WireElement, WireIdsDistinct DEF IInv
    <3>2. mPending[wire[i + 1].id] = wire[i + 1].call
      BY <1>1, <1>7 DEF IInv, TableIsWire
    <3>. QED
      BY <1>1, <1>5, <1>7, <3>1, <3>2
  <2>2. ASSUME NEW e \in Ids, mPending'[e] # 0 PROVE \E i \in Index' : wire'[i].id = e
    <3>1. e # d /\ mPending[e] # 0
      BY <1>1, <1>5, <2>2
    <3>2. PICK i \in Index : wire[i].id = e
      BY <1>1, <3>1 DEF IInv, TableIsWire
    <3>. QED
      BY <1>7, <3>1, <3>2
  <2>. QED
    BY <1>1, <1>5, <2>1, <2>2 DEF TableIsWire
<1>12. Waiting'
  <2>1. ASSUME NEW i \in Index' PROVE callbacks'[wire'[i].call] = 0
    <3>1. wire[i + 1].call \in Calls /\ wire[i + 1].call # k
      <4>1. 1 < i + 1
        BY <1>7
      <4>2. k < wire[i + 1].call
        BY <1>2, <1>7, <4>1 DEF IInv, WireCalls
      <4>3. i + 1 \in Index /\ wire[i + 1].call \in Calls
        BY <1>1, <1>7, WireElement DEF IInv
      <4>. QED
        BY <1>3, <4>2, <4>3 DEF Calls
    <3>2. callbacks[wire[i + 1].call] = 0
      BY <1>1, <1>7 DEF IInv, Waiting
    <3>. QED
      BY <1>1, <1>5, <1>7, <3>1, <3>2
  <2>2. ASSUME NEW c \in Calls, c < nextCall, callbacks'[c] = 0
        PROVE  \E i \in Index' : wire'[i].call = c
    <3>1. c # k /\ callbacks[c] = 0
      BY <1>1, <1>3, <1>5, <2>2
    <3>2. PICK i \in Index : wire[i].call = c
      BY <1>1, <2>2, <3>1 DEF IInv, Waiting
    <3>. QED
      BY <1>7, <3>1, <3>2
  <2>. QED
    BY <1>1, <1>5, <2>1, <2>2 DEF Waiting
<1>13. Untouched'
  <2>1. k < nextCall /\ nextCall \in Nat
    BY <1>2 DEF IInv, WireCalls, TypeOK
  <2>. QED
    BY <1>1, <1>3, <1>5, <2>1 DEF IInv, Untouched, Calls
<1>14. ExecutedUpToDone'
  <2>1. ASSUME NEW i \in Index'
        PROVE  executed'[wire'[i].call] = IF i <= done' THEN 1 ELSE 0
    <3>1. executed[wire[i + 1].call] = IF i + 1 <= done THEN 1 ELSE 0
      BY <1>7 DEF IInv, ExecutedUpToDone
    <3>2. i + 1 <= done <=> i <= done'
      BY <1>1, <1>5, <1>7
    <3>. QED
      BY <1>5, <1>7, <3>1, <3>2
  <2>. QED
    BY <2>1 DEF ExecutedUpToDone
<1>15. AtMostOneCallback' /\ RightAnswer' /\ AnswerWithCallback'
  BY <1>1, <1>3, <1>5 DEF IInv, AtMostOneCallback, RightAnswer, AnswerWithCallback
<1>. QED
  BY <1>8, <1>9, <1>10, <1>11, <1>12, <1>13, <1>14, <1>15 DEF IInv

LEMMA PollLostIInv == IInv /\ PollLost => IInv'
<1>. SUFFICES ASSUME IInv, PollLost PROVE IInv'
  OBVIOUS
<1>1. /\ mConnected /\ ~mConnected' /\ failing' = MovedHandlers
      /\ mPending' = NoHandlers /\ wire' = wire /\ Index' = Index
      /\ callbacks' = callbacks /\ nextCall' = nextCall
      /\ mPending \in [Ids -> 0..MaxCalls] /\ failing = {}
  BY DEF IInv, TypeOK, TableIsWire, PollLost, Index
<1>2. \A k \in MovedHandlers : \E i \in Index : wire[i].call = k
  BY <1>1 DEF IInv, TableIsWire, MovedHandlers
<1>3. \A i \in Index : wire[i].call \in MovedHandlers
  <2>1. SUFFICES ASSUME NEW i \in Index PROVE wire[i].call \in MovedHandlers
    OBVIOUS
  <2>2. wire[i].id \in Ids /\ wire[i].call # 0 /\ mPending[wire[i].id] = wire[i].call
    BY <1>1, WireElement DEF IInv, TableIsWire
  <2>. QED
    BY <2>2 DEF MovedHandlers
<1>4. TypeOK'
  <2>1. mPending' \in [Ids -> 0..MaxCalls]
    BY <1>1, BoundsAssumption DEF NoHandlers
  <2>2. failing' \subseteq Calls
    BY <1>1, <1>2, WireElement DEF IInv
  <2>3. mConnected' \in BOOLEAN
    BY DEF PollLost
  <2>. QED
    BY <2>1, <2>2, <2>3 DEF IInv, TypeOK, PollLost
<1>5. Waiting'
  BY <1>1, <1>2, <1>3 DEF IInv, Waiting, WireCalls
<1>6. WireIds' /\ WireCalls' /\ Untouched' /\ ExecutedUpToDone'
  BY <1>1 DEF IInv, WireIds, WireCalls, Untouched, ExecutedUpToDone, PollLost
<1>7. TableIsWire' /\ AtMostOneCallback' /\ RightAnswer' /\ AnswerWithCallback'
  BY <1>1 DEF IInv, TableIsWire, NoHandlers, AtMostOneCallback, RightAnswer,
     AnswerWithCallback, PollLost
<1>. QED
  BY <1>4, <1>5, <1>6, <1>7 DEF IInv

LEMMA FailHandlerIInv ==
  ASSUME IInv, NEW k \in Calls, FailHandler(k)
  PROVE  IInv'
<1>1. /\ ~mConnected /\ k \in failing /\ callbacks[k] = 0 /\ k < nextCall
      /\ callbacks \in [Calls -> Nat]
  BY DEF IInv, TypeOK, TableIsWire, Waiting, FailHandler
<1>2. /\ callbacks' = [callbacks EXCEPT ![k] = 1]
      /\ failing' = failing \ {k}
      /\ mConnected' = mConnected /\ nextCall' = nextCall
  BY <1>1 DEF FailHandler
<1>3. TypeOK'
  <2>1. callbacks' \in [Calls -> Nat] /\ failing' \subseteq Calls
    BY <1>1, <1>2 DEF IInv, TypeOK
  <2>. QED
    BY <2>1 DEF IInv, TypeOK, FailHandler
<1>4. WireIds' /\ WireCalls' /\ TableIsWire' /\ ExecutedUpToDone'
  BY <1>1 DEF IInv, WireIds, WireCalls, TableIsWire, ExecutedUpToDone, FailHandler, Index,
     NoHandlers
<1>5. Waiting'
  <2>1. \A c \in failing' : callbacks'[c] = 0 /\ c < nextCall'
    BY <1>1, <1>2 DEF IInv, Waiting, TypeOK
  <2>2. \A c \in Calls : c < nextCall' /\ callbacks'[c] = 0 => c \in failing'
    BY <1>1, <1>2 DEF IInv, Waiting
  <2>. QED
    BY <1>1, <1>2, <2>1, <2>2 DEF Waiting
<1>6. Untouched' /\ AtMostOneCallback' /\ RightAnswer' /\ AnswerWithCallback'
  <2>1. nextCall \in Nat
    BY DEF IInv, TypeOK
  <2>. QED
    BY <1>1, <1>2, <2>1 DEF IInv, Untouched, AtMostOneCallback, RightAnswer,
       AnswerWithCallback, FailHandler, Calls
<1>. QED
  BY <1>3, <1>4, <1>5, <1>6 DEF IInv

LEMMA ConnectIInv == IInv /\ connect => IInv'
<1>. SUFFICES ASSUME IInv, connect PROVE IInv'
  OBVIOUS
<1>1. wire' = << >> /\ Len(wire') = 0 /\ Index' = {}
  BY DEF connect, Index
<1>2. TypeOK'
  <2>1. mConnected' \in BOOLEAN /\ linkUp' \in BOOLEAN
    BY DEF connect
  <2>2. wire' \in Seq(Message) /\ done' \in 0..Len(wire')
    BY <1>1 DEF connect
  <2>. QED
    BY <2>1, <2>2 DEF IInv, TypeOK, connect
<1>3. TableIsWire'
  BY <1>1 DEF IInv, TableIsWire, connect, NoHandlers
<1>4. WireIds' /\ WireCalls' /\ ExecutedUpToDone'
  BY <1>1, BoundsAssumption DEF WireIds, WireCalls, ExecutedUpToDone
<1>5. Waiting'
  BY <1>1 DEF IInv, Waiting, connect
<1>6. Untouched' /\ AtMostOneCallback' /\ RightAnswer' /\ AnswerWithCallback'
  BY DEF IInv, Untouched, AtMostOneCallback, RightAnswer, AnswerWithCallback, connect
<1>. QED
  BY <1>2, <1>3, <1>4, <1>5, <1>6 DEF IInv

\* Every step keeps the invariant.
LEMMA NextIInv == IInv /\ [Next]_vars => IInv'
<1>. SUFFICES ASSUME IInv, [Next]_vars PROVE IInv'
  OBVIOUS
<1>1. CASE Break
  <2>1. TypeOK'
    BY <1>1 DEF IInv, TypeOK, Break
  <2>. QED
    BY <1>1, <2>1 DEF IInv, WireIds, WireCalls, TableIsWire, Waiting, Untouched,
       ExecutedUpToDone, AtMostOneCallback, RightAnswer, AnswerWithCallback, Break,
       Index, NoHandlers
<1>2. CASE UNCHANGED vars
  <2>1. TypeOK'
    BY <1>2 DEF IInv, TypeOK, vars
  <2>. QED
    BY <1>2, <2>1 DEF IInv, WireIds, WireCalls, TableIsWire, Waiting, Untouched,
       ExecutedUpToDone, AtMostOneCallback, RightAnswer, AnswerWithCallback, vars,
       Index, NoHandlers
<1>. QED
  BY <1>1, <1>2, SendIInv, RefuseIInv, DbExecuteIInv, PollReplyIInv, PollLostIInv,
     FailHandlerIInv, ConnectIInv DEF Next

\* Every reachable state satisfies the invariant.
LEMMA SpecIInv == Spec => []IInv
  BY InitIInv, NextIInv, PTL DEF Spec
-----------------------------------------------------------------------------
\* The variables keep their types; request ids stay within their width.
THEOREM TypeCorrect == Spec => []TypeOK
<1>1. IInv => TypeOK
  BY DEF IInv
<1>. QED
  BY <1>1, SpecIInv, PTL

\* poll and failAllPending between them never run a callback twice, and never
\* give a callback the answer to another request, after any losses of the
\* connection and any wrap of the request ids.
THEOREM CallbacksCorrect == Spec => [](AtMostOneCallback /\ RightAnswer)
<1>1. IInv => AtMostOneCallback /\ RightAnswer
  BY DEF IInv
<1>. QED
  BY <1>1, SpecIInv, PTL

\* No handler is lost: not by emplace on a taken id, not by failAllPending, not
\* by a reconnection.
THEOREM NothingForgotten == Spec => []NoCallForgotten
<1>1. IInv => NoCallForgotten
  <2>1. SUFFICES ASSUME IInv, NEW k \in 1..(nextCall - 1), callbacks[k] = 0, k \notin failing
                 PROVE  \E i \in Ids : /\ mPending[i] = k
                                       /\ \A j \in Ids : mPending[j] = k => j = i
    BY DEF NoCallForgotten
  <2>2. k \in Calls /\ k < nextCall /\ k # 0
    BY <2>1, BoundsAssumption DEF IInv, TypeOK, Calls
  <2>3. mConnected
    BY <2>1, <2>2 DEF IInv, Waiting
  <2>4. PICK i \in Index : wire[i].call = k
    BY <2>1, <2>2 DEF IInv, Waiting
  <2>5. wire[i].id \in Ids /\ mPending[wire[i].id] = k
    BY <2>1, <2>3, <2>4, WireElement DEF IInv, TableIsWire
  <2>6. ASSUME NEW j \in Ids, mPending[j] = k PROVE j = wire[i].id
    <3>1. PICK m \in Index : wire[m].id = j
      BY <2>1, <2>2, <2>3, <2>6 DEF IInv, TableIsWire
    <3>2. wire[m].call = k
      BY <2>1, <2>3, <2>6, <3>1 DEF IInv, TableIsWire
    <3>3. ~(m < i) /\ ~(i < m)
      BY <2>1, <2>2, <2>4, <3>2 DEF IInv, WireCalls, Calls
    <3>. QED
      BY <2>1, <2>4, <3>1, <3>3, WireElement DEF IInv
  <2>. QED
    BY <2>5, <2>6
<1>. QED
  BY <1>1, SpecIInv, PTL
-----------------------------------------------------------------------------
(* The client implements RpcService. *)

\* Making a call issues it.
LEMMA SendIssues ==
  ASSUME IInv, Send PROVE Service!Issue(nextCall)
<1>1. nextCall \in Calls /\ nextCall' = nextCall + 1
      /\ callbacks' = callbacks /\ answer' = answer /\ executed' = executed
  BY BoundsAssumption DEF IInv, TypeOK, Send, Calls
<1>2. callbacks[nextCall] = 0
  BY <1>1 DEF IInv, Untouched, TypeOK
<1>3. callState[nextCall] = "idle"
  BY <1>1 DEF callState, Calls
<1>4. callState' = [callState EXCEPT ![nextCall] = "pending"]
  <2>1. \A k \in Calls : k # nextCall => (k >= nextCall' <=> k >= nextCall)
    BY <1>1, BoundsAssumption DEF Calls
  <2>2. ~(nextCall >= nextCall')
    BY <1>1 DEF Calls
  <2>. QED
    BY <1>1, <1>2, <2>1, <2>2 DEF callState
<1>. QED
  BY <1>1, <1>3, <1>4 DEF Service!Issue

\* A call made while not connected is refused.
LEMMA RefuseRefuses ==
  ASSUME IInv, Refuse PROVE Service!Refuse(nextCall)
<1>1. nextCall \in Calls /\ nextCall' = nextCall + 1
      /\ callbacks' = [callbacks EXCEPT ![nextCall] = @ + 1]
      /\ answer' = answer /\ executed' = executed
      /\ callbacks \in [Calls -> Nat]
  BY BoundsAssumption DEF IInv, TypeOK, Refuse, Calls
<1>2. callbacks[nextCall] = 0 /\ answer[nextCall] = 0
  BY <1>1 DEF IInv, Untouched, TypeOK
<1>3. callState[nextCall] = "idle"
  BY <1>1 DEF callState, Calls
<1>4. callState' = [callState EXCEPT ![nextCall] = "failed"]
  <2>1. \A k \in Calls : k # nextCall => /\ (k >= nextCall' <=> k >= nextCall)
                                         /\ callbacks'[k] = callbacks[k]
    BY <1>1, BoundsAssumption DEF Calls
  <2>2. ~(nextCall >= nextCall') /\ callbacks'[nextCall] = 1
    BY <1>1, <1>2 DEF Calls
  <2>3. callState'[nextCall] = "failed"
    BY <1>1, <1>2, <2>2 DEF callState
  <2>4. \A k \in Calls : k # nextCall => callState'[k] = callState[k]
    BY <1>1, <2>1 DEF callState
  <2>. QED
    BY <1>1, <2>3, <2>4 DEF callState
<1>. QED
  BY <1>1, <1>3, <1>4 DEF Service!Refuse

\* The database executes a call that was made and has no answer yet.
LEMMA DbExecuteExecutes ==
  ASSUME IInv, DbExecute
  PROVE  \E k \in Calls : Service!Execute(k)
<1> DEFINE was == {c \in Calls : executed[c] > 0}
<1>1. done + 1 \in Index /\ done \in Nat
  BY DEF IInv, TypeOK, DbExecute, Index
<1>0. PICK k \in Calls : k = wire[done + 1].call
  BY <1>1, WireElement DEF IInv
<1>2. k \in Calls /\ k < nextCall /\ executed[k] = 0
  <2>1. k < nextCall
    BY <1>0, <1>1 DEF IInv, WireCalls
  <2>2. executed[k] = 0
    BY <1>0, <1>1 DEF IInv, ExecutedUpToDone
  <2>. QED
    BY <2>1, <2>2
<1>3. answer[k] = 0
  BY <1>2 DEF IInv, RightAnswer
<1>4. nextCall' = nextCall /\ callbacks' = callbacks /\ answer' = answer
      /\ executed' = [executed EXCEPT ![k] = @ + 1] /\ executed \in [Calls -> Nat]
  BY <1>0 DEF IInv, TypeOK, DbExecute
<1>5. callState[k] \in {"pending", "failed"}
  <2>1. ~(k >= nextCall)
    BY <1>2 DEF IInv, TypeOK, Calls
  <2>. QED
    BY <1>2, <1>3, <2>1 DEF callState
<1>6. callState' = callState
  BY <1>4 DEF callState
<1>7. k \notin was
  BY <1>2
<1>8. was' = was \cup {k}
  <2>1. \A c \in Calls : executed'[c] = IF c = k THEN 1 ELSE executed[c]
    BY <1>2, <1>4
  <2>2. \A c \in Calls : executed'[c] > 0 <=> executed[c] > 0 \/ c = k
    BY <2>1, <1>4
  <2>. QED
    BY <1>2, <2>2
<1>9. Service!Execute(k)
  BY <1>5, <1>6, <1>7, <1>8 DEF Service!Execute
<1>. QED
  BY <1>2, <1>9

\* A reply that poll hands out makes its call succeed.
LEMMA PollReplySucceeds ==
  ASSUME IInv, PollReply
  PROVE  wire[1].call \in Calls /\ Service!Succeed(wire[1].call)
<1> DEFINE d == wire[1].id
           k == wire[1].call
           was == {c \in Calls : executed[c] > 0}
<1>1. /\ Len(wire) \in Nat /\ Len(wire) > 0 /\ done \in 1..Len(wire)
      /\ wire \in Seq(Message) /\ mConnected
      /\ callbacks \in [Calls -> Nat] /\ answer \in [Calls -> 0..MaxCalls]
  BY DEF IInv, TypeOK, PollReply
<1>2. 1 \in Index
  BY <1>1 DEF Index
<1>3. /\ d \in Ids /\ k \in Calls /\ k \in Nat \ {0}
      /\ mPending[d] = k /\ callbacks[k] = 0 /\ executed[k] = 1
  BY <1>1, <1>2, WireElement DEF IInv, TableIsWire, Waiting, ExecutedUpToDone
<1>4. Head(wire) = wire[1]
  BY <1>1
<1>5. /\ callbacks' = [callbacks EXCEPT ![k] = 1]
      /\ answer' = [answer EXCEPT ![k] = k]
      /\ nextCall' = nextCall /\ executed' = executed
  BY <1>1, <1>3, <1>4 DEF PollReply
<1>6. ~(k >= nextCall)
  BY <1>2, <1>3 DEF IInv, WireCalls, TypeOK
<1>7. callState[k] = "pending"
  BY <1>3, <1>6 DEF callState
<1>8. callState' = [callState EXCEPT ![k] = "ok"]
  <2>1. callState'[k] = "ok"
    BY <1>1, <1>3, <1>5, <1>6 DEF callState
  <2>2. \A c \in Calls : c # k => callState'[c] = callState[c]
    BY <1>1, <1>5 DEF callState
  <2>. QED
    BY <1>3, <2>1, <2>2 DEF callState
<1>9. k \in was /\ was' = was
  BY <1>3, <1>5
<1>. QED
  BY <1>3, <1>7, <1>8, <1>9 DEF Service!Succeed

\* A handler that failAllPending invokes makes its call fail.
LEMMA FailHandlerFails ==
  ASSUME IInv, NEW k \in Calls, FailHandler(k) PROVE Service!Fail(k)
<1>1. /\ callbacks \in [Calls -> Nat]
      /\ callbacks[k] = 0 /\ k < nextCall
  BY DEF IInv, TypeOK, Waiting, FailHandler
<1>2. answer[k] = 0
  BY <1>1 DEF IInv, AnswerWithCallback
<1>3. /\ callbacks' = [callbacks EXCEPT ![k] = 1]
      /\ answer' = answer /\ nextCall' = nextCall /\ executed' = executed
  BY <1>1 DEF FailHandler
<1>4. ~(k >= nextCall)
  BY <1>1 DEF IInv, TypeOK, Calls
<1>5. callState[k] = "pending"
  BY <1>1, <1>4 DEF callState
<1>6. callState' = [callState EXCEPT ![k] = "failed"]
  <2>1. callState'[k] = "failed"
    BY <1>1, <1>2, <1>3, <1>4 DEF callState
  <2>2. \A c \in Calls : c # k => callState'[c] = callState[c]
    BY <1>1, <1>3 DEF callState
  <2>. QED
    BY <2>1, <2>2 DEF callState
<1>. QED
  BY <1>3, <1>5, <1>6 DEF Service!Fail

\* Every step of the client is a step of the service or changes none of its
\* variables.
LEMMA NextImplements ==
  IInv /\ [Next]_vars => [Service!RpcNext]_(Service!rpcVars)
<1>. SUFFICES ASSUME IInv, [Next]_vars PROVE [Service!RpcNext]_(Service!rpcVars)
  OBVIOUS
<1>0. Service!Calls = Calls
  BY DEF Calls, Service!Calls
<1>1. ASSUME NEW k \in Calls,
             \/ Service!Issue(k) \/ Service!Refuse(k) \/ Service!Execute(k)
             \/ Service!Succeed(k) \/ Service!Fail(k)
      PROVE  Service!RpcNext
  BY <1>0, <1>1 DEF Service!RpcNext
<1>2. ASSUME UNCHANGED <<nextCall, callbacks, answer, executed>>
      PROVE  UNCHANGED Service!rpcVars
  BY <1>2 DEF Service!rpcVars, callState
<1>3. CASE Send
  <2>1. nextCall \in Calls
    BY <1>3, BoundsAssumption DEF IInv, TypeOK, Send, Calls
  <2>. QED
    BY <1>1, <1>3, <2>1, SendIssues
<1>4. CASE Refuse
  <2>1. nextCall \in Calls
    BY <1>4, BoundsAssumption DEF IInv, TypeOK, Refuse, Calls
  <2>. QED
    BY <1>1, <1>4, <2>1, RefuseRefuses
<1>5. CASE DbExecute
  <2>1. PICK k \in Calls : Service!Execute(k)
    BY <1>5, DbExecuteExecutes
  <2>. QED
    BY <1>1, <2>1
<1>6. CASE PollReply
  BY <1>1, <1>6, PollReplySucceeds
<1>7. CASE \E k \in Calls : FailHandler(k)
  BY <1>1, <1>7, FailHandlerFails
<1>8. CASE Break \/ PollLost \/ connect
  BY <1>2, <1>8 DEF Break, PollLost, connect
<1>9. CASE UNCHANGED vars
  BY <1>2, <1>9 DEF vars
<1>. QED
  BY <1>3, <1>4, <1>5, <1>6, <1>7, <1>8, <1>9 DEF Next

\* The client keeps the promise its callers rely on: a call is executed at
\* most once and its callback runs once, with the answer of that execution or
\* with a failure.
THEOREM ClientImplementsService == Spec => ImplementsService
<1>1. Init => Service!RpcInit
  BY BoundsAssumption DEF Init, Service!RpcInit, Service!Calls, callState, Calls
<1>. QED
  BY <1>1, SpecIInv, NextImplements, PTL DEF Spec, ImplementsService, Service!RpcSpec
-----------------------------------------------------------------------------
(* The framing of messages.                                                *)

\* Of the stream of all cells ever sent and the places at which its frames end:
\* each frame is where it says.
Laid(stream, ends) ==
  /\ stream \in Seq(Nat) /\ ends \in [0..Len(sent) -> 0..Len(stream)]
  /\ ends[0] = 0 /\ Len(stream) = ends[Len(sent)]
  /\ \A i \in 1..Len(sent) :
       /\ ends[i] = ends[i - 1] + Len(Frame(sent[i]))
       /\ \A k \in 1..Len(Frame(sent[i])) : stream[ends[i - 1] + k] = Frame(sent[i])[k]

\* The cells of a buffer are those of the stream from a place on.
Carries(stream, from, buffer) ==
  /\ from + Len(buffer) <= Len(stream)
  /\ \A k \in 1..Len(buffer) : stream[from + k] = buffer[k]

\* The cells still to be written, in a sender that has not closed, are the rest.
Queued(stream, from) ==
  /\ from + (Len(mWriteBuffer) - mWriteOffset) = Len(stream)
  /\ \A k \in 1..(Len(mWriteBuffer) - mWriteOffset) :
       stream[from + k] = mWriteBuffer[mWriteOffset + k]

\* What the receiver has buffered begins where the last message handed out ended;
\* what the kernel has, and what is still to be written, follow.
Placed(stream, begin) ==
  /\ Carries(stream, begin, mReadBuffer)
  /\ Carries(stream, begin + Len(mReadBuffer), kernel)
  /\ ~closed => Queued(stream, begin + Len(mReadBuffer) + Len(kernel))

Framed ==
  reader # "closed" =>
    \E stream, ends : Laid(stream, ends) /\ Placed(stream, ends[Len(received)])

StreamInv == StreamTypeOK /\ Framed
-----------------------------------------------------------------------------
\* Sequences of cells.
LEMMA Joined ==
  ASSUME NEW a \in Seq(Nat), NEW b \in Seq(Nat)
  PROVE  /\ a \o b \in Seq(Nat) /\ Len(a \o b) = Len(a) + Len(b)
         /\ Len(a) \in Nat /\ Len(b) \in Nat
         /\ \A k \in 1..Len(a) : (a \o b)[k] = a[k] /\ a[k] \in Nat
         /\ \A k \in 1..Len(b) : (a \o b)[Len(a) + k] = b[k] /\ b[k] \in Nat
<1>1. /\ a \o b \in Seq(Nat) /\ Len(a \o b) = Len(a) + Len(b)
      /\ Len(a) \in Nat /\ Len(b) \in Nat
  OBVIOUS
<1>2. \A k \in 1..Len(a) : (a \o b)[k] = a[k] /\ a[k] \in Nat
  BY <1>1
<1>3. \A k \in 1..Len(b) : (a \o b)[Len(a) + k] = b[k] /\ b[k] \in Nat
  <2>. TAKE k \in 1..Len(b)
  <2>1. Len(a) + k \in 1..(Len(a) + Len(b)) /\ ~(Len(a) + k <= Len(a)) /\ (Len(a) + k) - Len(a) = k
    BY <1>1
  <2>. QED
    BY <1>1, <2>1
<1>. QED
  BY <1>1, <1>2, <1>3

LEMMA Cut ==
  ASSUME NEW a \in Seq(Nat), NEW from \in 0..Len(a), NEW to \in from..Len(a)
  PROVE  /\ SubSeq(a, from + 1, to) \in Seq(Nat) /\ Len(SubSeq(a, from + 1, to)) = to - from
         /\ \A k \in 1..(to - from) : SubSeq(a, from + 1, to)[k] = a[from + k]
<1>1. Len(a) \in Nat /\ from \in Nat /\ to \in Nat /\ from <= to /\ to <= Len(a)
  OBVIOUS
<1>2. \A k \in (from + 1)..to : a[k] \in Nat
  BY <1>1
<1>3. /\ SubSeq(a, from + 1, to) \in Seq(Nat) /\ Len(SubSeq(a, from + 1, to)) = to - from
  BY <1>1, <1>2
<1>4. \A k \in 1..(to - from) : SubSeq(a, from + 1, to)[k] = a[from + k]
  BY <1>1, <1>3
<1>. QED
  BY <1>3, <1>4

\* A frame is the size, the type and the payload.
LEMMA FrameOf ==
  ASSUME NEW m \in Messages
  PROVE  /\ m = [type |-> m.type, payload |-> m.payload]
         /\ m.type \in Nat /\ m.payload \in Seq(Nat) /\ Len(m.payload) \in Nat
         /\ Frame(m) \in Seq(Nat) /\ Len(Frame(m)) \in Nat
         /\ Len(Frame(m)) = kHeaderSize + Len(m.payload)
         /\ Frame(m)[1] = Len(m.payload) /\ Frame(m)[2] = m.type
         /\ \A k \in 1..Len(m.payload) : Frame(m)[kHeaderSize + k] = m.payload[k]
<1>1. /\ m = [type |-> m.type, payload |-> m.payload]
      /\ m.type \in Nat /\ m.payload \in Seq(Nat) /\ Len(m.payload) \in Nat
  BY StreamAssumption
<1>. DEFINE h == <<Len(m.payload), m.type>>
<1>2. h \in Seq(Nat) /\ Len(h) = 2 /\ h[1] = Len(m.payload) /\ h[2] = m.type
  BY <1>1
<1>. HIDE DEF h
<1>3. Frame(m) = h \o m.payload
  BY DEF Frame, h
<1>4. 1 \in 1..Len(h) /\ 2 \in 1..Len(h)
  BY <1>2
<1>. DEFINE p == m.payload
<1>5. p \in Seq(Nat)
  BY <1>1
<1>. HIDE DEF p
<1>6. /\ h \o p \in Seq(Nat) /\ Len(h \o p) = Len(h) + Len(p)
      /\ \A k \in 1..Len(h) : (h \o p)[k] = h[k]
      /\ \A k \in 1..Len(p) : (h \o p)[Len(h) + k] = p[k]
  BY <1>2, <1>5, Joined
<1>7. (h \o p)[1] = h[1] /\ (h \o p)[2] = h[2]
  BY <1>4, <1>6
<1>8. Frame(m) \in Seq(Nat) /\ Len(Frame(m)) = Len(h) + Len(p) /\ Len(p) = Len(m.payload)
  BY <1>3, <1>6 DEF p
<1>9. Len(Frame(m)) \in Nat /\ Len(Frame(m)) = kHeaderSize + Len(m.payload)
  BY <1>1, <1>2, <1>8 DEF kHeaderSize
<1>10. Frame(m)[1] = Len(m.payload) /\ Frame(m)[2] = m.type
  BY <1>2, <1>3, <1>7 DEF p
<1>11. \A k \in 1..Len(m.payload) : Frame(m)[kHeaderSize + k] = m.payload[k]
  <2>1. Len(h) = kHeaderSize
    BY <1>2 DEF kHeaderSize
  <2>. QED
    BY <1>3, <1>6, <2>1 DEF p
<1>. QED
  BY <1>1, <1>8, <1>9, <1>10, <1>11

LEMMA StreamInvInit == StreamInit => StreamInv
<1>. SUFFICES ASSUME StreamInit PROVE StreamInv
  OBVIOUS
<1>1. StreamTypeOK
  <2>1. closed \in BOOLEAN
    BY DEF StreamInit
  <2>2. << >> \in Seq(Nat) /\ << >> \in Seq(Messages) /\ Len(<< >>) = 0 /\ 0 <= Capacity /\ 0 <= MaxSent
    BY StreamAssumption
  <2>. QED
    BY <2>1, <2>2 DEF StreamInit, StreamTypeOK
<1>. DEFINE stream == << >>
            ends == [i \in 0..0 |-> 0]
<1>2. Laid(stream, ends)
  BY DEF Laid, StreamInit
<1>3. Placed(stream, ends[Len(received)])
  BY DEF Placed, Carries, Queued, StreamInit
<1>. QED
  BY <1>1, <1>2, <1>3 DEF StreamInv, Framed
-----------------------------------------------------------------------------
(* The sender.                                                             *)

LEMMA Within ==
  ASSUME NEW a \in Nat, NEW l \in Nat, NEW n \in Nat, a + l <= n
  PROVE  \A k \in 1..l : a + k \in 1..n
  OBVIOUS

\* Cells moved to the end of the n behind p, of the left ones that lie there up to l.
LEMMA MovedWithin ==
  ASSUME NEW p \in Nat, NEW n \in Nat, NEW left \in Nat, NEW moved \in 0..left,
         NEW l, (p + n) + left = l
  PROVE  p + (n + moved) <= l
  OBVIOUS

LEMMA MovedAt ==
  ASSUME NEW p \in Nat, NEW n \in Nat, NEW left \in Nat, NEW moved \in 0..left,
         NEW k \in 1..(n + moved), ~(k <= n), NEW j, j = k - n
  PROVE  j \in 1..moved /\ j \in 1..left /\ k = n + j /\ p + k = (p + n) + j
  OBVIOUS

\* A message appended to what was sent is laid behind it.
LEMMA LaidOneMore ==
  ASSUME StreamTypeOK, NEW m \in Messages, sent' = Append(sent, m),
         NEW stream, NEW ends, Laid(stream, ends),
         NEW more, more = [i \in 0..(Len(sent) + 1) |->
                             IF i <= Len(sent) THEN ends[i] ELSE ends[Len(sent)] + Len(Frame(m))]
  PROVE  Laid(stream \o Frame(m), more)'
<1>. DEFINE n == Len(sent)
            F == Frame(m)
            s == stream \o F
<1>1. /\ n \in Nat /\ Len(sent') = n + 1 /\ sent'[n + 1] = m
      /\ \A i \in 1..n : sent'[i] = sent[i] /\ sent[i] \in Messages
  BY DEF StreamTypeOK
<1>2. F \in Seq(Nat) /\ Len(F) \in Nat
  BY FrameOf
<1>3. /\ stream \in Seq(Nat) /\ ends \in [0..n -> 0..Len(stream)] /\ ends[0] = 0 /\ Len(stream) = ends[n]
      /\ \A i \in 1..n : ends[i] = ends[i - 1] + Len(Frame(sent[i]))
      /\ \A i \in 1..n : \A k \in 1..Len(Frame(sent[i])) :
           stream[ends[i - 1] + k] = Frame(sent[i])[k]
  BY DEF Laid
<1>. HIDE DEF F
<1>4. /\ s \in Seq(Nat) /\ Len(s) = Len(stream) + Len(F) /\ Len(stream) \in Nat
      /\ \A k \in 1..Len(stream) : s[k] = stream[k]
      /\ \A k \in 1..Len(F) : s[Len(stream) + k] = F[k]
  BY <1>2, <1>3, Joined
<1>. HIDE DEF s
<1>5. more = [i \in 0..(n + 1) |-> IF i <= n THEN ends[i] ELSE ends[n] + Len(F)]
  BY DEF F
<1>. HIDE DEF n
<1>6. /\ more \in [0..(n + 1) -> 0..Len(s)] /\ more[0] = 0 /\ more[n + 1] = ends[n] + Len(F)
      /\ \A i \in 0..n : more[i] = ends[i] /\ ends[i] \in 0..Len(stream)
  <2>1. \A i \in 0..n : i \in 0..(n + 1) /\ i <= n
    BY <1>1
  <2>2. \A i \in 0..n : ends[i] \in 0..Len(stream)
    BY <1>3
  <2>3. \A i \in 0..n : more[i] = ends[i]
    BY <1>5, <2>1
  <2>4. n + 1 \in 0..(n + 1) /\ ~(n + 1 <= n) /\ 0 \in 0..n
    BY <1>1
  <2>5. more[n + 1] = ends[n] + Len(F) /\ more[0] = 0
    BY <1>3, <1>5, <2>3, <2>4
  <2>6. \A x \in 0..Len(stream) : x \in 0..Len(s)
    BY <1>2, <1>4
  <2>7. ends[n] + Len(F) \in 0..Len(s)
    BY <1>2, <1>3, <1>4
  <2>8. \A i \in 0..(n + 1) : i \in 0..n \/ i = n + 1
    BY <1>1
  <2>9. \A i \in 0..(n + 1) : more[i] \in 0..Len(s)
    BY <2>2, <2>3, <2>5, <2>6, <2>7, <2>8
  <2>. QED
    BY <1>5, <2>2, <2>3, <2>5, <2>9
<1>7. ASSUME NEW i \in 1..(n + 1)
      PROVE  /\ more[i] = more[i - 1] + Len(Frame(sent'[i]))
             /\ \A k \in 1..Len(Frame(sent'[i])) : s[more[i - 1] + k] = Frame(sent'[i])[k]
  <2>1. CASE i <= n
    <3>1. i \in 1..n /\ i \in 0..n /\ i - 1 \in 0..n
      BY <1>1, <2>1
    <3>2. /\ more[i] = ends[i] /\ more[i - 1] = ends[i - 1] /\ sent'[i] = sent[i]
          /\ ends[i] = ends[i - 1] + Len(Frame(sent[i]))
          /\ ends[i] \in 0..Len(stream) /\ ends[i - 1] \in 0..Len(stream)
      BY <1>1, <1>3, <1>6, <3>1
    <3>3. Len(Frame(sent[i])) \in Nat
      BY <1>1, <3>1, FrameOf
    <3>4. ASSUME NEW k \in 1..Len(Frame(sent[i]))
          PROVE  s[ends[i - 1] + k] = Frame(sent[i])[k]
      <4>1. ends[i - 1] + k \in 1..Len(stream)
        <5>1. ends[i - 1] \in Nat /\ Len(stream) \in Nat /\ ends[i - 1] + Len(Frame(sent[i])) <= Len(stream)
          BY <1>4, <3>2
        <5>. QED
          BY <3>3, <5>1, Within
      <4>. QED
        BY <1>3, <1>4, <3>1, <4>1
    <3>. QED
      BY <3>2, <3>4
  <2>2. CASE ~(i <= n)
    <3>1. i = n + 1 /\ i - 1 = n /\ n \in 0..n
      BY <1>1, <2>2
    <3>2. more[i] = ends[n] + Len(F) /\ more[i - 1] = ends[n] /\ sent'[i] = m
      BY <1>1, <1>6, <3>1
    <3>3. Frame(sent'[i]) = F
      BY <3>2 DEF F
    <3>4. \A k \in 1..Len(F) : s[ends[n] + k] = F[k]
      BY <1>3, <1>4
    <3>. QED
      BY <3>2, <3>3, <3>4
  <2>. QED
    BY <2>1, <2>2
<1>8. Len(s) = more[n + 1]
  BY <1>3, <1>4, <1>6
<1>9. Laid(s, more)'
  <2>1. n + 1 = Len(sent')
    BY <1>1
  <2>2. /\ s \in Seq(Nat) /\ more \in [0..Len(sent') -> 0..Len(s)] /\ more[0] = 0
        /\ Len(s) = more[Len(sent')]
    BY <1>4, <1>6, <1>8, <2>1
  <2>3. \A i \in 1..Len(sent') :
          /\ more[i] = more[i - 1] + Len(Frame(sent'[i]))
          /\ \A k \in 1..Len(Frame(sent'[i])) : s[more[i - 1] + k] = Frame(sent'[i])[k]
    BY <1>7, <2>1
  <2>. QED
    BY <2>2, <2>3 DEF Laid
<1>. QED
  BY <1>9 DEF s, F

\* flush moves cells of the buffer to the kernel, and counts what is left.
LEMMA Flushed ==
  ASSUME StreamTypeOK, NEW buffer \in Seq(Nat), mWriteOffset < Len(buffer), flush(buffer)
  PROVE  /\ kernel' \in Seq(Nat) /\ Len(kernel') <= Capacity /\ mWriteBuffer' \in Seq(Nat)
         /\ mWriteBuffer' = <<>> => mWriteOffset' = 0
         /\ mWriteBuffer' # <<>> => mWriteOffset' \in 0..(Len(mWriteBuffer') - 1)
         /\ \E moved \in 0..(Len(buffer) - mWriteOffset) :
              /\ Len(kernel') = Len(kernel) + moved
              /\ \A k \in 1..Len(kernel) : kernel'[k] = kernel[k]
              /\ \A k \in 1..moved : kernel'[Len(kernel) + k] = buffer[mWriteOffset + k]
              /\ Len(mWriteBuffer') - mWriteOffset' = Len(buffer) - mWriteOffset - moved
              /\ \A k \in 1..(Len(buffer) - mWriteOffset - moved) :
                   mWriteBuffer'[mWriteOffset' + k] = buffer[mWriteOffset + (moved + k)]
<1>. DEFINE off == mWriteOffset
            room == Capacity - Len(kernel)
            pending == Len(buffer) - off
            moved == IF pending <= room THEN pending ELSE room
            cut == SubSeq(buffer, off + 1, off + moved)
<1>1. /\ off \in Nat /\ Len(buffer) \in Nat /\ pending \in Nat /\ pending > 0
      /\ kernel \in Seq(Nat) /\ Len(kernel) \in Nat /\ room \in Nat /\ Capacity \in Nat
  <2>1. off \in Nat
    BY DEF StreamTypeOK
  <2>2. kernel \in Seq(Nat) /\ Len(kernel) <= Capacity
    BY DEF StreamTypeOK
  <2>3. Capacity \in Nat /\ Len(kernel) \in Nat /\ Len(buffer) \in Nat
    BY <2>2, StreamAssumption
  <2>. QED
    BY <2>1, <2>2, <2>3
<1>2. moved \in 0..pending /\ moved <= room
  BY <1>1
<1>3. off \in 0..Len(buffer) /\ off + moved \in off..Len(buffer) /\ (off + moved) - off = moved
  BY <1>1, <1>2
<1>4. /\ kernel' = kernel \o cut
      /\ mWriteBuffer' = IF off + moved = Len(buffer) THEN <<>> ELSE buffer
      /\ mWriteOffset' = IF off + moved = Len(buffer) THEN 0 ELSE off + moved
  BY DEF flush, NewOffset
<1>. HIDE DEF moved, off
<1>5. /\ cut \in Seq(Nat) /\ Len(cut) = moved
      /\ \A k \in 1..moved : cut[k] = buffer[off + k]
  BY <1>3, Cut
<1>. HIDE DEF cut
<1>6. /\ kernel' \in Seq(Nat) /\ Len(kernel') = Len(kernel) + moved
      /\ \A k \in 1..Len(kernel) : kernel'[k] = kernel[k]
      /\ \A k \in 1..moved : kernel'[Len(kernel) + k] = buffer[off + k]
  BY <1>1, <1>4, <1>5, Joined
<1>7. Len(kernel') <= Capacity
  BY <1>1, <1>2, <1>6
<1>8. /\ mWriteBuffer' \in Seq(Nat)
      /\ (mWriteBuffer' = <<>> => mWriteOffset' = 0)
      /\ mWriteBuffer' # <<>> => mWriteOffset' \in 0..(Len(mWriteBuffer') - 1)
      /\ Len(mWriteBuffer') - mWriteOffset' = pending - moved
      /\ \A k \in 1..(pending - moved) :
           mWriteBuffer'[mWriteOffset' + k] = buffer[off + (moved + k)]
  <2>1. CASE off + moved = Len(buffer)
    <3>1. mWriteBuffer' = <<>> /\ mWriteOffset' = 0 /\ pending - moved = 0 /\ Len(<< >>) = 0
      BY <1>1, <1>2, <1>4, <2>1
    <3>. QED
      BY <3>1
  <2>2. CASE off + moved # Len(buffer)
    <3>1. mWriteBuffer' = buffer /\ mWriteOffset' = off + moved
      BY <1>4, <2>2
    <3>2. off + moved \in 0..(Len(buffer) - 1) /\ Len(buffer) - (off + moved) = pending - moved
      BY <1>1, <1>2, <2>2
    <3>3. buffer # << >>
      BY <1>1
    <3>4. \A k \in 1..(pending - moved) : (off + moved) + k = off + (moved + k)
      BY <1>1, <1>2
    <3>. QED
      BY <3>1, <3>2, <3>3, <3>4
  <2>. QED
    BY <2>1, <2>2
<1>9. pending - moved = Len(buffer) - off - moved
  BY <1>1, <1>2
<1>10. \E z \in 0..pending :
         /\ Len(kernel') = Len(kernel) + z
         /\ \A k \in 1..Len(kernel) : kernel'[k] = kernel[k]
         /\ \A k \in 1..z : kernel'[Len(kernel) + k] = buffer[off + k]
         /\ Len(mWriteBuffer') - mWriteOffset' = pending - z
         /\ \A k \in 1..(pending - z) : mWriteBuffer'[mWriteOffset' + k] = buffer[off + (z + k)]
  BY <1>2, <1>6, <1>8
<1>. QED
  BY <1>6, <1>7, <1>8, <1>10 DEF off

LEMMA Leftover ==
  ASSUME NEW r \in Nat, NEW off, NEW w \in Nat, off \in 0..w, NEW f \in Nat, NEW b, NEW left,
         NEW a, NEW z, left = b - off, b = w + f, r + (w - off) = a, z = a + f
  PROVE  r + left = z /\ r \in Nat /\ left \in Nat /\ left = (w - off) + f
  OBVIOUS

LEMMA SendKeeps ==
  ASSUME StreamInv, NEW m \in Messages, send(m)
  PROVE  StreamInv'
<1>. DEFINE F == Frame(m)
            buffer == mWriteBuffer \o F
            n == Len(sent)
<1>1. /\ sent' = Append(sent, m) /\ n < MaxSent /\ ~closed
      /\ closed' = closed /\ mReadBuffer' = mReadBuffer /\ reader' = reader /\ received' = received
      /\ flush(buffer) \/ FlushFails(buffer)
  BY DEF send
<1>2. F \in Seq(Nat) /\ Len(F) \in Nat /\ Len(F) > 0
  BY FrameOf DEF kHeaderSize
<1>3. /\ StreamTypeOK /\ Framed /\ mWriteBuffer \in Seq(Nat)
      /\ mWriteOffset \in 0..Len(mWriteBuffer) /\ Len(mWriteBuffer) \in Nat
  <2>1. /\ mWriteBuffer \in Seq(Nat)
        /\ (mWriteBuffer = <<>> => mWriteOffset = 0)
        /\ mWriteBuffer # <<>> => mWriteOffset \in 0..(Len(mWriteBuffer) - 1)
    BY DEF StreamInv, StreamTypeOK
  <2>. QED
    BY <2>1 DEF StreamInv
<1>. HIDE DEF F
<1>4. /\ buffer \in Seq(Nat) /\ Len(buffer) = Len(mWriteBuffer) + Len(F)
      /\ \A k \in 1..Len(mWriteBuffer) : buffer[k] = mWriteBuffer[k]
      /\ \A k \in 1..Len(F) : buffer[Len(mWriteBuffer) + k] = F[k]
  BY <1>2, <1>3, Joined
<1>. HIDE DEF buffer
<1>5. mWriteOffset < Len(buffer)
  BY <1>2, <1>3, <1>4
<1>6. /\ sent' \in Seq(Messages) /\ Len(sent') <= MaxSent /\ Len(received') <= Len(sent')
      /\ Len(sent') = n + 1 /\ n \in Nat /\ Len(received) \in 0..n
  BY <1>1, <1>3, StreamAssumption DEF StreamTypeOK
<1>7. StreamTypeOK'
  <2>0. closed' \in BOOLEAN /\ ~closed'
    BY <1>1, <1>3 DEF StreamTypeOK
  <2>1. /\ mReadBuffer' \in Seq(Nat) /\ reader' \in {"idle", "dispatch", "closed"}
        /\ received' \in Seq(Messages)
    BY <1>1, <1>3 DEF StreamTypeOK
  <2>2. /\ mWriteBuffer' \in Seq(Nat)
        /\ (mWriteBuffer' = <<>> => mWriteOffset' = 0)
        /\ mWriteBuffer' # <<>> => mWriteOffset' \in 0..(Len(mWriteBuffer') - 1)
        /\ kernel' \in Seq(Nat) /\ Len(kernel') <= Capacity
    <3>1. CASE flush(buffer)
      BY <1>3, <1>4, <1>5, <3>1, Flushed
    <3>2. CASE FlushFails(buffer)
      <4>1. mWriteBuffer' = buffer /\ mWriteOffset' = mWriteOffset /\ kernel' = kernel
        BY <3>2 DEF FlushFails
      <4>2. mWriteOffset \in 0..(Len(buffer) - 1) /\ buffer # << >>
        BY <1>3, <1>4, <1>5
      <4>. QED
        BY <1>3, <1>4, <4>1, <4>2 DEF StreamTypeOK
    <3>. QED
      BY <1>1, <3>1, <3>2
  <2>3. sent' \in Seq(Messages) /\ Len(sent') <= MaxSent /\ Len(received') <= Len(sent')
    BY <1>6
  <2>. HIDE DEF n
  <2>. QED
    BY <2>0, <2>1, <2>2, <2>3 DEF StreamTypeOK
<1>8. ASSUME reader # "closed"
      PROVE  \E stream, ends : Laid(stream, ends)' /\ Placed(stream, ends[Len(received)])'
  <2>1. PICK stream, ends : Laid(stream, ends) /\ Placed(stream, ends[Len(received)])
    BY <1>3, <1>8 DEF Framed
  <2>2. PICK begin : begin = ends[Len(received)]
    OBVIOUS
  <2>3. PICK r : r = begin + Len(mReadBuffer) + Len(kernel)
    OBVIOUS
  <2>4. PICK left : left = Len(buffer) - mWriteOffset
    OBVIOUS
  <2>. DEFINE s == stream \o F
  <2>0. PICK more : more = [i \in 0..(n + 1) |-> IF i <= n THEN ends[i] ELSE ends[n] + Len(F)]
    OBVIOUS
  <2>5. Laid(s, more)'
    <3>1. StreamTypeOK /\ sent' = Append(sent, m) /\ Laid(stream, ends)
      BY <1>1, <1>3, <2>1
    <3>2. more = [i \in 0..(Len(sent) + 1) |->
                    IF i <= Len(sent) THEN ends[i] ELSE ends[Len(sent)] + Len(Frame(m))]
      BY <2>0 DEF F
    <3>3. Laid(stream \o Frame(m), more)'
      BY <3>1, <3>2, LaidOneMore
    <3>. QED
      BY <3>3 DEF F
  <2>6. more[Len(received')] = begin
    BY <1>1, <1>6, <2>0, <2>2
  <2>7. stream \in Seq(Nat) /\ Len(stream) \in Nat /\ begin \in Nat
    BY <1>6, <2>1, <2>2 DEF Laid
  <2>8. Len(s) = Len(stream) + Len(F)
    BY <1>2, <2>7, Joined
  <2>9. /\ \A k \in 1..Len(stream) : s[k] = stream[k]
        /\ \A k \in 1..Len(F) : s[Len(stream) + k] = F[k]
    BY <1>2, <2>7, Joined
  <2>10. /\ begin + Len(mReadBuffer) <= Len(stream)
         /\ begin + Len(mReadBuffer) + Len(kernel) <= Len(stream)
         /\ r + (Len(mWriteBuffer) - mWriteOffset) = Len(stream)
    BY <1>1, <2>1, <2>2, <2>3 DEF Placed, Carries, Queued
  <2>11. /\ \A k \in 1..Len(mReadBuffer) : stream[begin + k] = mReadBuffer[k]
         /\ \A k \in 1..Len(kernel) : stream[begin + Len(mReadBuffer) + k] = kernel[k]
         /\ \A k \in 1..(Len(mWriteBuffer) - mWriteOffset) :
              stream[r + k] = mWriteBuffer[mWriteOffset + k]
    BY <1>1, <2>1, <2>2, <2>3 DEF Placed, Carries, Queued
  <2>. HIDE DEF s
  <2>12. Len(mReadBuffer) \in Nat /\ Len(kernel) \in Nat
    BY <1>3 DEF StreamTypeOK
  <2>13. Len(buffer) = Len(mWriteBuffer) + Len(F) /\ Len(s) \in Nat
    BY <1>2, <1>4, <2>7, <2>8
  <2>14. r + left = Len(s) /\ r \in Nat /\ left \in Nat
         /\ left = (Len(mWriteBuffer) - mWriteOffset) + Len(F)
    <3>1. mWriteOffset \in 0..Len(mWriteBuffer) /\ Len(mWriteBuffer) \in Nat /\ Len(F) \in Nat
      BY <1>2, <1>3
    <3>2. r \in Nat
      BY <2>3, <2>7, <2>12
    <3>3. /\ left = Len(buffer) - mWriteOffset /\ Len(buffer) = Len(mWriteBuffer) + Len(F)
          /\ r + (Len(mWriteBuffer) - mWriteOffset) = Len(stream)
          /\ Len(s) = Len(stream) + Len(F)
      BY <2>4, <2>8, <2>10, <2>13
    <3>. QED
      BY <3>1, <3>2, <3>3, Leftover
  <2>15. ASSUME NEW k \in 1..left PROVE s[r + k] = buffer[mWriteOffset + k]
    <3>1. CASE k <= Len(mWriteBuffer) - mWriteOffset
      <4>1. /\ k \in 1..(Len(mWriteBuffer) - mWriteOffset) /\ mWriteOffset + k \in 1..Len(mWriteBuffer)
            /\ r + k \in 1..Len(stream)
        BY <1>3, <2>7, <2>10, <2>14, <3>1
      <4>. QED
        BY <1>4, <2>9, <2>11, <4>1
    <3>2. CASE ~(k <= Len(mWriteBuffer) - mWriteOffset)
      <4>1. PICK j : j = k - (Len(mWriteBuffer) - mWriteOffset)
        OBVIOUS
      <4>2. j \in 1..Len(F) /\ r + k = Len(stream) + j /\ mWriteOffset + k = Len(mWriteBuffer) + j
        <5>1. mWriteOffset \in 0..Len(mWriteBuffer) /\ Len(mWriteBuffer) \in Nat /\ Len(F) \in Nat
          BY <1>2, <1>3
        <5>2. r \in Nat /\ left = (Len(mWriteBuffer) - mWriteOffset) + Len(F) /\ k \in Nat /\ k <= left
          BY <2>14
        <5>3. r + (Len(mWriteBuffer) - mWriteOffset) = Len(stream)
          BY <2>10
        <5>. QED
          BY <3>2, <4>1, <5>1, <5>2, <5>3
      <4>. QED
        BY <1>4, <2>9, <4>2
    <3>. QED
      BY <3>1, <3>2
  <2>16. flush(buffer)
    BY <1>1, <1>8 DEF FlushFails
  <2>17. PICK moved \in 0..left :
           /\ Len(kernel') = Len(kernel) + moved
           /\ \A k \in 1..Len(kernel) : kernel'[k] = kernel[k]
           /\ \A k \in 1..moved : kernel'[Len(kernel) + k] = buffer[mWriteOffset + k]
           /\ Len(mWriteBuffer') - mWriteOffset' = left - moved
           /\ \A k \in 1..(left - moved) :
                mWriteBuffer'[mWriteOffset' + k] = buffer[mWriteOffset + (moved + k)]
    BY <1>3, <1>4, <1>5, <2>4, <2>16, Flushed
  <2>18. Carries(s, begin, mReadBuffer)'
    <3>1. \A k \in 1..Len(mReadBuffer) : begin + k \in 1..Len(stream)
      BY <2>7, <2>10, <2>12, Within
    <3>2. begin + Len(mReadBuffer) <= Len(s)
      BY <1>2, <2>7, <2>8, <2>10, <2>12
    <3>. QED
      BY <1>1, <2>9, <2>11, <3>1, <3>2 DEF Carries
  <2>19. Carries(s, begin + Len(mReadBuffer), kernel)'
    <3>1. PICK p : p = begin + Len(mReadBuffer)
      OBVIOUS
    <3>2. p \in Nat /\ Len(kernel) \in Nat /\ left \in Nat
      BY <2>7, <2>12, <2>14, <3>1
    <3>3. begin + Len(mReadBuffer) + Len(kernel') <= Len(s)
      <4>1. (p + Len(kernel)) + left = Len(s)
        BY <2>3, <2>14, <3>1
      <4>2. p + (Len(kernel) + moved) <= Len(s)
        BY <3>2, <4>1, MovedWithin
      <4>. QED
        BY <2>17, <3>1, <4>2
    <3>4. ASSUME NEW k \in 1..Len(kernel')
          PROVE  s[begin + Len(mReadBuffer) + k] = kernel'[k]
      <4>1. CASE k <= Len(kernel)
        <5>1. k \in 1..Len(kernel) /\ begin + Len(mReadBuffer) \in Nat
          BY <2>7, <2>12, <2>17, <4>1
        <5>2. begin + Len(mReadBuffer) + k \in 1..Len(stream)
          BY <2>7, <2>10, <2>12, <5>1, Within
        <5>. QED
          BY <2>9, <2>11, <2>17, <5>1, <5>2
      <4>2. CASE ~(k <= Len(kernel))
        <5>1. PICK j : j = k - Len(kernel)
          OBVIOUS
        <5>2. j \in 1..moved /\ j \in 1..left /\ k = Len(kernel) + j
              /\ begin + Len(mReadBuffer) + k = r + j
          <6>1. k \in 1..(Len(kernel) + moved)
            BY <2>17
          <6>2. j \in 1..moved /\ j \in 1..left /\ k = Len(kernel) + j /\ p + k = (p + Len(kernel)) + j
            BY <3>2, <4>2, <5>1, <6>1, MovedAt
          <6>. QED
            BY <2>3, <3>1, <6>2
        <5>. QED
          BY <2>15, <2>17, <5>2
      <4>. QED
        BY <4>1, <4>2
    <3>. QED
      BY <1>1, <3>3, <3>4 DEF Carries
  <2>20. Queued(s, r + moved)'
    <3>1. (r + moved) + (left - moved) = Len(s)
      BY <2>14, <2>17
    <3>2. ASSUME NEW k \in 1..(left - moved)
          PROVE  s[(r + moved) + k] = mWriteBuffer'[mWriteOffset' + k]
      <4>1. moved + k \in 1..left /\ (r + moved) + k = r + (moved + k)
        BY <2>14, <2>17
      <4>. QED
        BY <2>15, <2>17, <4>1
    <3>. QED
      BY <2>17, <3>1, <3>2 DEF Queued
  <2>21. begin + Len(mReadBuffer') + Len(kernel') = r + moved
    BY <1>1, <2>3, <2>7, <2>12, <2>17
  <2>22. Placed(s, begin)'
    BY <2>18, <2>19, <2>20, <2>21 DEF Placed
  <2>23. Placed(s, more[Len(received)])'
    BY <2>6, <2>22
  <2>. QED
    BY <2>5, <2>23
<1>9. Framed'
  BY <1>1, <1>8 DEF Framed
<1>. QED
  BY <1>7, <1>9 DEF StreamInv
-----------------------------------------------------------------------------
(* Closing, and the receiver's pump.                                       *)

LEMMA CloseKeeps ==
  ASSUME StreamInv, Close
  PROVE  StreamInv'
<1>1. /\ sent' = sent /\ mReadBuffer' = mReadBuffer /\ reader' = reader /\ received' = received
      /\ kernel' = kernel /\ mWriteBuffer' = <<>> /\ mWriteOffset' = 0
  BY DEF Close
<1>2. closed' = TRUE
  BY DEF Close
<1>3. StreamTypeOK'
  <2>1. << >> \in Seq(Nat)
    OBVIOUS
  <2>. QED
    BY <1>1, <1>2, <2>1 DEF StreamInv, StreamTypeOK
<1>4. ASSUME reader # "closed"
      PROVE  \E stream, ends : Laid(stream, ends)' /\ Placed(stream, ends[Len(received)])'
  <2>1. PICK stream, ends : Laid(stream, ends) /\ Placed(stream, ends[Len(received)])
    BY <1>4 DEF StreamInv, Framed
  <2>2. Laid(stream, ends)'
    BY <1>1, <2>1 DEF Laid
  <2>3. Placed(stream, ends[Len(received)])'
    BY <1>1, <1>2, <2>1 DEF Placed, Carries
  <2>. QED
    BY <2>2, <2>3
<1>5. Framed'
  BY <1>1, <1>4 DEF Framed
<1>. QED
  BY <1>3, <1>5 DEF StreamInv

LEMMA PumpKeeps ==
  ASSUME StreamInv, pump
  PROVE  StreamInv'
<1>1. /\ sent' = sent /\ received' = received /\ kernel' = <<>>
      /\ mWriteBuffer' = mWriteBuffer /\ mWriteOffset' = mWriteOffset
      /\ mReadBuffer' = mReadBuffer \o kernel /\ reader # "closed"
      /\ reader' \in {"dispatch", "closed"}
  BY DEF pump, writer
<1>2. closed' = closed
  BY DEF pump, writer
<1>3. mReadBuffer \in Seq(Nat) /\ kernel \in Seq(Nat)
  BY DEF StreamInv, StreamTypeOK
<1>4. /\ mReadBuffer' \in Seq(Nat) /\ Len(mReadBuffer') = Len(mReadBuffer) + Len(kernel)
      /\ Len(mReadBuffer) \in Nat /\ Len(kernel) \in Nat
  BY <1>1, <1>3, Joined
<1>5. /\ \A k \in 1..Len(mReadBuffer) : mReadBuffer'[k] = mReadBuffer[k]
      /\ \A k \in 1..Len(kernel) : mReadBuffer'[Len(mReadBuffer) + k] = kernel[k]
  BY <1>1, <1>3, Joined
<1>6. StreamTypeOK'
  <2>1. << >> \in Seq(Nat) /\ Len(<< >>) = 0 /\ 0 <= Capacity
    BY StreamAssumption
  <2>2. kernel' \in Seq(Nat) /\ Len(kernel') <= Capacity /\ mReadBuffer' \in Seq(Nat)
        /\ reader' \in {"idle", "dispatch", "closed"}
    BY <1>1, <1>4, <2>1
  <2>. QED
    BY <1>1, <1>2, <2>2 DEF StreamInv, StreamTypeOK
<1>7. \E stream, ends : Laid(stream, ends)' /\ Placed(stream, ends[Len(received)])'
  <2>1. PICK stream, ends : Laid(stream, ends) /\ Placed(stream, ends[Len(received)])
    BY <1>1 DEF StreamInv, Framed
  <2>2. PICK begin : begin = ends[Len(received)]
    OBVIOUS
  <2>3. Laid(stream, ends)'
    BY <1>1, <2>1 DEF Laid
  <2>4. /\ begin \in Nat /\ Len(stream) \in Nat
    <3>1. Len(received) \in 0..Len(sent)
      BY DEF StreamInv, StreamTypeOK
    <3>. QED
      BY <2>1, <2>2, <3>1 DEF Laid
  <2>5. /\ Carries(stream, begin, mReadBuffer)
        /\ Carries(stream, begin + Len(mReadBuffer), kernel)
        /\ ~closed => Queued(stream, begin + Len(mReadBuffer) + Len(kernel))
    BY <2>1, <2>2 DEF Placed
  <2>6. Carries(stream, begin, mReadBuffer')
    <3>1. begin + Len(mReadBuffer') <= Len(stream)
      <4>1. begin + Len(mReadBuffer) + Len(kernel) <= Len(stream)
        BY <2>5 DEF Carries
      <4>. QED
        BY <1>4, <2>4, <4>1
    <3>2. ASSUME NEW k \in 1..Len(mReadBuffer')
          PROVE  stream[begin + k] = mReadBuffer'[k]
      <4>1. CASE k <= Len(mReadBuffer)
        <5>1. k \in 1..Len(mReadBuffer)
          BY <1>4, <4>1
        <5>. QED
          BY <1>5, <2>5, <5>1 DEF Carries
      <4>2. CASE ~(k <= Len(mReadBuffer))
        <5>1. PICK j : j = k - Len(mReadBuffer)
          OBVIOUS
        <5>2. /\ j \in 1..Len(kernel) /\ k = Len(mReadBuffer) + j
              /\ begin + k = begin + Len(mReadBuffer) + j
          BY <1>4, <2>4, <4>2, <5>1
        <5>. QED
          BY <1>5, <2>5, <5>2 DEF Carries
      <4>. QED
        BY <4>1, <4>2
    <3>. QED
      BY <3>1, <3>2 DEF Carries
  <2>7. Carries(stream, begin + Len(mReadBuffer'), kernel')
    <3>1. begin + Len(mReadBuffer') + Len(kernel') <= Len(stream)
      <4>1. begin + Len(mReadBuffer') <= Len(stream)
        BY <2>6 DEF Carries
      <4>2. Len(kernel') = 0
        BY <1>1
      <4>. QED
        BY <1>4, <2>4, <4>1, <4>2
    <3>. QED
      BY <1>1, <3>1 DEF Carries
  <2>8. PICK r : r = begin + Len(mReadBuffer) + Len(kernel)
    OBVIOUS
  <2>9. Placed(stream, begin)'
    <3>1. begin + Len(mReadBuffer') + Len(kernel') = r
      <4>1. Len(kernel') = 0
        BY <1>1
      <4>. QED
        BY <1>4, <2>4, <2>8, <4>1
    <3>2. (~closed => Queued(stream, r))'
      BY <1>1, <1>2, <2>5, <2>8 DEF Queued
    <3>3. Carries(stream, begin, mReadBuffer)' /\ Carries(stream, begin + Len(mReadBuffer), kernel)'
      BY <2>6, <2>7 DEF Carries
    <3>. QED
      BY <3>1, <3>2, <3>3 DEF Placed
  <2>10. Placed(stream, ends[Len(received)])'
    BY <1>1, <2>2, <2>9
  <2>. QED
    BY <2>3, <2>10
<1>8. Framed'
  BY <1>7 DEF Framed
<1>. QED
  BY <1>6, <1>8 DEF StreamInv

LEMMA NoMoreKeeps ==
  ASSUME StreamInv, NoMore
  PROVE  StreamInv'
<1>1. /\ sent' = sent /\ received' = received /\ kernel' = kernel /\ mReadBuffer' = mReadBuffer
      /\ mWriteBuffer' = mWriteBuffer /\ mWriteOffset' = mWriteOffset
      /\ reader # "closed" /\ reader' = "idle"
  BY DEF NoMore, writer
<1>2. closed' = closed
  BY DEF NoMore, writer
<1>3. StreamTypeOK'
  BY <1>1, <1>2 DEF StreamInv, StreamTypeOK
<1>4. PICK stream, ends : Laid(stream, ends) /\ Placed(stream, ends[Len(received)])
  BY <1>1 DEF StreamInv, Framed
<1>5. Laid(stream, ends)'
  BY <1>1, <1>4 DEF Laid
<1>6. Placed(stream, ends[Len(received)])'
  BY <1>1, <1>2, <1>4 DEF Placed, Carries, Queued
<1>. QED
  BY <1>3, <1>5, <1>6 DEF StreamInv, Framed
-----------------------------------------------------------------------------
(* What next hands out.                                                    *)

\* Two sequences with the same elements in the same places are the same.
LEMMA SameCells ==
  ASSUME NEW S, NEW a \in Seq(S), NEW b \in Seq(S), Len(a) = Len(b),
         \A k \in 1..Len(a) : a[k] = b[k]
  PROVE  a = b
  OBVIOUS

\* The read buffer begins with the frame of the first message not yet handed out.
LEMMA FirstFrame ==
  ASSUME StreamTypeOK, HasNext, NEW stream, NEW ends, Laid(stream, ends),
         Placed(stream, ends[Len(received)])
  PROVE  /\ Len(received) \in Nat /\ Len(received) + 1 \in 1..Len(sent)
         /\ sent[Len(received) + 1] \in Messages /\ Fits(sent[Len(received) + 1])
         /\ mReadBuffer[1] = Len(sent[Len(received) + 1].payload)
         /\ sent[Len(received) + 1] =
              [type |-> mReadBuffer[2],
               payload |-> SubSeq(mReadBuffer, kHeaderSize + 1, kHeaderSize + mReadBuffer[1])]
         /\ kHeaderSize + mReadBuffer[1] \in 0..Len(mReadBuffer)
         /\ ends[Len(received) + 1] = ends[Len(received)] + (kHeaderSize + mReadBuffer[1])
<1>1. /\ mReadBuffer \in Seq(Nat) /\ Len(mReadBuffer) \in Nat /\ kMaxPayloadSize \in Nat
      /\ sent \in Seq(Messages) /\ Len(sent) \in Nat /\ Len(received) \in 0..Len(sent)
  BY StreamAssumption DEF StreamTypeOK
<1>2. PICK n : n = Len(received)
  OBVIOUS
<1>3. PICK begin : begin = ends[n]
  OBVIOUS
<1>4. /\ Len(mReadBuffer) >= 2 /\ mReadBuffer[1] <= kMaxPayloadSize /\ mReadBuffer[1] \in Nat
      /\ Len(mReadBuffer) >= 2 + mReadBuffer[1]
  BY <1>1 DEF HasNext, WholeArrived, Claims, kHeaderSize
<1>5. /\ stream \in Seq(Nat) /\ Len(stream) \in Nat /\ begin \in Nat /\ Len(stream) = ends[Len(sent)]
  BY <1>1, <1>2, <1>3 DEF Laid
<1>6. begin + Len(mReadBuffer) <= Len(stream) /\ \A k \in 1..Len(mReadBuffer) : stream[begin + k] = mReadBuffer[k]
  BY <1>2, <1>3 DEF Placed, Carries
<1>7. n + 1 \in 1..Len(sent) /\ n \in Nat
  <2>1. n # Len(sent)
    BY <1>1, <1>3, <1>4, <1>5, <1>6
  <2>. QED
    BY <1>1, <1>2, <2>1
<1>8. PICK m \in Messages : m = sent[n + 1]
  BY <1>1, <1>7
<1>9. /\ ends[n + 1] = begin + Len(Frame(m))
      /\ \A k \in 1..Len(Frame(m)) : stream[begin + k] = Frame(m)[k]
  <2>1. (n + 1) - 1 = n
    BY <1>7
  <2>. QED
    BY <1>3, <1>7, <1>8, <2>1 DEF Laid
<1>10. /\ m = [type |-> m.type, payload |-> m.payload]
       /\ m.payload \in Seq(Nat) /\ Len(m.payload) \in Nat
       /\ Len(Frame(m)) = 2 + Len(m.payload)
       /\ Frame(m)[1] = Len(m.payload) /\ Frame(m)[2] = m.type
       /\ \A k \in 1..Len(m.payload) : Frame(m)[2 + k] = m.payload[k]
  BY FrameOf DEF kHeaderSize
<1>11. 1 \in 1..Len(mReadBuffer) /\ 2 \in 1..Len(mReadBuffer) /\ 1 \in 1..Len(Frame(m)) /\ 2 \in 1..Len(Frame(m))
  BY <1>1, <1>4, <1>10
<1>12. mReadBuffer[1] = Len(m.payload) /\ mReadBuffer[2] = m.type
  BY <1>6, <1>9, <1>10, <1>11
<1>13. PICK p : p = SubSeq(mReadBuffer, 2 + 1, 2 + Len(m.payload))
  OBVIOUS
<1>14. p = m.payload
  <2>1. 2 \in 0..Len(mReadBuffer) /\ 2 + Len(m.payload) \in 2..Len(mReadBuffer)
        /\ (2 + Len(m.payload)) - 2 = Len(m.payload)
    BY <1>1, <1>4, <1>10, <1>12
  <2>2. /\ p \in Seq(Nat) /\ Len(p) = Len(m.payload)
        /\ \A k \in 1..Len(m.payload) : p[k] = mReadBuffer[2 + k]
    BY <1>1, <1>13, <2>1, Cut
  <2>3. ASSUME NEW k \in 1..Len(m.payload) PROVE p[k] = m.payload[k]
    <3>1. 2 + k \in 1..Len(mReadBuffer) /\ 2 + k \in 1..Len(Frame(m))
      BY <1>10, <2>1
    <3>. QED
      BY <1>6, <1>9, <1>10, <2>2, <3>1
  <2>. QED
    BY <1>10, <2>2, <2>3, SameCells
<1>15. m = [type |-> mReadBuffer[2], payload |-> SubSeq(mReadBuffer, 2 + 1, 2 + mReadBuffer[1])]
  BY <1>10, <1>12, <1>13, <1>14
<1>16. 2 + mReadBuffer[1] \in 0..Len(mReadBuffer) /\ ends[n + 1] = begin + (2 + mReadBuffer[1])
  BY <1>1, <1>4, <1>9, <1>10, <1>12
<1>17. Fits(m)
  BY <1>4, <1>12 DEF Fits
<1>. QED
  BY <1>2, <1>3, <1>7, <1>8, <1>12, <1>15, <1>16, <1>17 DEF kHeaderSize

LEMMA NextMessage ==
  ASSUME StreamInv, next
  PROVE  /\ Len(received) \in Nat /\ Len(received) + 1 \in 1..Len(sent)
         /\ sent[Len(received) + 1] \in Messages /\ Fits(sent[Len(received) + 1])
         /\ received' = Append(received, sent[Len(received) + 1])
<1>1. StreamTypeOK /\ HasNext /\ reader # "closed"
  BY DEF next, StreamInv
<1>2. PICK stream, ends : Laid(stream, ends) /\ Placed(stream, ends[Len(received)])
  BY <1>1 DEF StreamInv, Framed
<1>3. received' = Append(received, [type |-> mReadBuffer[2],
                payload |-> SubSeq(mReadBuffer, kHeaderSize + 1, kHeaderSize + mReadBuffer[1])])
  BY DEF next
<1>. QED
  BY <1>1, <1>2, <1>3, FirstFrame

LEMMA NextKeeps ==
  ASSUME StreamInv, next
  PROVE  StreamInv'
<1>1. /\ sent' = sent /\ kernel' = kernel /\ reader' = reader
      /\ mWriteBuffer' = mWriteBuffer /\ mWriteOffset' = mWriteOffset
      /\ reader # "closed"
  BY DEF next, writer
<1>2. closed' = closed
  BY DEF next, writer
<1>3. StreamTypeOK /\ HasNext
  BY DEF next, StreamInv
<1>4. PICK stream, ends : Laid(stream, ends) /\ Placed(stream, ends[Len(received)])
  BY <1>1 DEF StreamInv, Framed
<1>5. PICK size : size = kHeaderSize + mReadBuffer[1]
  OBVIOUS
<1>6. mReadBuffer' = SubSeq(mReadBuffer, size + 1, Len(mReadBuffer))
  BY <1>5 DEF next, Erased
<1>7. size \in 0..Len(mReadBuffer) /\ ends[Len(received) + 1] = ends[Len(received)] + size
  BY <1>3, <1>4, <1>5, FirstFrame
<1>8. /\ Len(received) \in Nat /\ Len(received) + 1 \in 1..Len(sent)
      /\ sent[Len(received) + 1] \in Messages
      /\ received' = Append(received, sent[Len(received) + 1])
  BY NextMessage
<1>9. mReadBuffer \in Seq(Nat) /\ Len(mReadBuffer) \in Nat /\ Len(kernel) \in Nat
  BY <1>3 DEF StreamTypeOK
<1>10. /\ mReadBuffer' \in Seq(Nat) /\ Len(mReadBuffer') = Len(mReadBuffer) - size
       /\ \A k \in 1..(Len(mReadBuffer) - size) : mReadBuffer'[k] = mReadBuffer[size + k]
  <2>1. Len(mReadBuffer) \in size..Len(mReadBuffer)
    BY <1>7, <1>9
  <2>. QED
    BY <1>6, <1>7, <1>9, <2>1, Cut
<1>11. received' \in Seq(Messages) /\ Len(received') = Len(received) + 1 /\ Len(received') <= Len(sent)
  BY <1>3, <1>8 DEF StreamTypeOK
<1>12. StreamTypeOK'
  BY <1>1, <1>2, <1>3, <1>10, <1>11 DEF StreamTypeOK
<1>13. PICK begin : begin = ends[Len(received)]
  OBVIOUS
<1>14. begin \in Nat /\ Len(stream) \in Nat
  <2>1. Len(received) \in 0..Len(sent)
    BY <1>8
  <2>. QED
    BY <1>4, <1>13, <2>1 DEF Laid
<1>15. /\ Carries(stream, begin, mReadBuffer)
       /\ Carries(stream, begin + Len(mReadBuffer), kernel)
       /\ ~closed => Queued(stream, begin + Len(mReadBuffer) + Len(kernel))
  BY <1>4, <1>13 DEF Placed
<1>16. PICK then : then = begin + size
  OBVIOUS
<1>17. then \in Nat /\ then + Len(mReadBuffer') = begin + Len(mReadBuffer)
       /\ then + Len(mReadBuffer') + Len(kernel) = begin + Len(mReadBuffer) + Len(kernel)
  BY <1>7, <1>9, <1>10, <1>14, <1>16
<1>18. Carries(stream, then, mReadBuffer')
  <2>1. then + Len(mReadBuffer') <= Len(stream)
    BY <1>15, <1>17 DEF Carries
  <2>2. ASSUME NEW k \in 1..Len(mReadBuffer') PROVE stream[then + k] = mReadBuffer'[k]
    <3>1. size + k \in 1..Len(mReadBuffer) /\ then + k = begin + (size + k) /\ k \in 1..(Len(mReadBuffer) - size)
      BY <1>7, <1>9, <1>10, <1>14, <1>16
    <3>. QED
      BY <1>10, <1>15, <3>1 DEF Carries
  <2>. QED
    BY <2>1, <2>2 DEF Carries
<1>19. Placed(stream, then)'
  BY <1>1, <1>2, <1>15, <1>17, <1>18 DEF Placed, Carries, Queued
<1>20. ends[Len(received')] = then
  BY <1>7, <1>11, <1>13, <1>16
<1>21. Placed(stream, ends[Len(received)])'
  BY <1>19, <1>20
<1>22. Laid(stream, ends)'
  BY <1>1, <1>4 DEF Laid
<1>23. Framed'
  BY <1>21, <1>22 DEF Framed
<1>. QED
  BY <1>12, <1>23 DEF StreamInv
-----------------------------------------------------------------------------
LEMMA StreamInvStep == StreamInv /\ [StreamNext]_streamVars => StreamInv'
<1>. SUFFICES ASSUME StreamInv, [StreamNext]_streamVars PROVE StreamInv'
  OBVIOUS
<1>1. ASSUME NEW m \in Messages, send(m) PROVE StreamInv'
  BY <1>1, SendKeeps
<1>2. CASE Close
  BY <1>2, CloseKeeps
<1>3. CASE pump
  BY <1>3, PumpKeeps
<1>4. CASE next
  BY <1>4, NextKeeps
<1>5. CASE NoMore
  BY <1>5, NoMoreKeeps
<1>6. CASE UNCHANGED streamVars
  <2>1. /\ sent' = sent /\ received' = received /\ kernel' = kernel /\ mReadBuffer' = mReadBuffer
        /\ mWriteBuffer' = mWriteBuffer /\ mWriteOffset' = mWriteOffset /\ reader' = reader
    BY <1>6 DEF streamVars, writer
  <2>2. closed' = closed
    BY <1>6 DEF streamVars, writer
  <2>3. StreamTypeOK'
    BY <2>1, <2>2 DEF StreamInv, StreamTypeOK
  <2>4. ASSUME reader # "closed"
        PROVE  \E stream, ends : Laid(stream, ends)' /\ Placed(stream, ends[Len(received)])'
    <3>1. PICK stream, ends : Laid(stream, ends) /\ Placed(stream, ends[Len(received)])
      BY <2>4 DEF StreamInv, Framed
    <3>2. Laid(stream, ends)'
      BY <2>1, <3>1 DEF Laid
    <3>3. Placed(stream, ends[Len(received)])'
      BY <2>1, <2>2, <3>1 DEF Placed, Carries, Queued
    <3>. QED
      BY <3>2, <3>3
  <2>. QED
    BY <2>1, <2>3, <2>4 DEF StreamInv, Framed
<1>. QED
  BY <1>1, <1>2, <1>3, <1>4, <1>5, <1>6 DEF StreamNext

\* The buffers, the offset and the counts of a connection keep their types: what
\* flush leaves unsent begins inside the write buffer, the kernel never holds more
\* than it has room for, and no more comes out of next than went into send.
THEOREM StreamTypes == StreamSpec => []StreamTypeOK
<1>1. StreamInv => StreamTypeOK
  BY DEF StreamInv
<1>. QED
  BY <1>1, StreamInvInit, StreamInvStep, PTL DEF StreamSpec
-----------------------------------------------------------------------------
(* The framing keeps what FifoChannel promises.                            *)

\* What is on its way, after a message more and after the first of it is taken.
LEMMA TransitAppend ==
  ASSUME NEW s \in Seq(Messages), NEW m \in Messages, NEW n \in 0..Len(s)
  PROVE  SubSeq(Append(s, m), n + 1, Len(Append(s, m))) = Append(SubSeq(s, n + 1, Len(s)), m)
<1>1. Len(s) \in Nat /\ n \in Nat /\ n <= Len(s)
  OBVIOUS
<1>. DEFINE a == SubSeq(Append(s, m), n + 1, Len(Append(s, m)))
            t == SubSeq(s, n + 1, Len(s))
            b == Append(t, m)
<1>2. /\ Append(s, m) \in Seq(Messages) /\ Len(Append(s, m)) = Len(s) + 1
      /\ Append(s, m)[Len(s) + 1] = m /\ \A i \in 1..Len(s) : Append(s, m)[i] = s[i]
  BY <1>1
<1>3. /\ a \in Seq(Messages) /\ Len(a) = (Len(s) + 1) - n
      /\ \A i \in 1..((Len(s) + 1) - n) : a[i] = Append(s, m)[n + i]
  BY <1>1, <1>2
<1>4. /\ t \in Seq(Messages) /\ Len(t) = Len(s) - n
      /\ \A i \in 1..(Len(s) - n) : t[i] = s[n + i]
  BY <1>1
<1>. HIDE DEF a, t
<1>5. /\ b \in Seq(Messages) /\ Len(b) = (Len(s) - n) + 1 /\ b[(Len(s) - n) + 1] = m
      /\ \A i \in 1..(Len(s) - n) : b[i] = t[i]
  BY <1>4
<1>. HIDE DEF b
<1>6. ASSUME NEW i \in 1..Len(a) PROVE a[i] = b[i]
  <2>1. CASE i <= Len(s) - n
    <3>1. i \in 1..(Len(s) - n) /\ n + i \in 1..Len(s) /\ i \in 1..((Len(s) + 1) - n)
      BY <1>1, <1>3, <2>1
    <3>. QED
      BY <1>2, <1>3, <1>4, <1>5, <3>1
  <2>2. CASE ~(i <= Len(s) - n)
    <3>0. i \in 1..((Len(s) + 1) - n)
      BY <1>3
    <3>1. i = (Len(s) - n) + 1 /\ n + i = Len(s) + 1
      BY <1>1, <2>2, <3>0
    <3>. QED
      BY <1>2, <1>3, <1>5, <3>0, <3>1
  <2>. QED
    BY <2>1, <2>2
<1>7. Len(a) = Len(b) /\ Len(a) \in Nat
  BY <1>1, <1>3, <1>5
<1>8. a = b
  BY <1>3, <1>5, <1>6, <1>7, SameCells
<1>. QED
  BY <1>8 DEF a, b, t

LEMMA TransitTail ==
  ASSUME NEW s \in Seq(Messages), NEW n \in Nat, n + 1 \in 1..Len(s)
  PROVE  /\ SubSeq(s, n + 1, Len(s)) # << >>
         /\ Head(SubSeq(s, n + 1, Len(s))) = s[n + 1]
         /\ Tail(SubSeq(s, n + 1, Len(s))) = SubSeq(s, (n + 1) + 1, Len(s))
<1>1. Len(s) \in Nat /\ n < Len(s)
  OBVIOUS
<1>. DEFINE t == SubSeq(s, n + 1, Len(s))
            u == SubSeq(s, (n + 1) + 1, Len(s))
<1>2. /\ t \in Seq(Messages) /\ Len(t) = Len(s) - n
      /\ \A i \in 1..(Len(s) - n) : t[i] = s[n + i]
  BY <1>1
<1>3. /\ u \in Seq(Messages) /\ Len(u) = Len(s) - (n + 1)
      /\ \A i \in 1..(Len(s) - (n + 1)) : u[i] = s[(n + 1) + i]
  BY <1>1
<1>. HIDE DEF t, u
<1>4. t # << >> /\ 1 \in 1..(Len(s) - n)
  BY <1>1, <1>2
<1>5. Head(t) = s[n + 1]
  BY <1>2, <1>4
<1>6. /\ Tail(t) \in Seq(Messages) /\ Len(Tail(t)) = Len(t) - 1
      /\ \A i \in 1..(Len(t) - 1) : Tail(t)[i] = t[i + 1]
  BY <1>2, <1>4
<1>7. ASSUME NEW i \in 1..Len(u) PROVE Tail(t)[i] = u[i]
  <2>1. i \in 1..(Len(t) - 1) /\ i + 1 \in 1..(Len(s) - n) /\ n + (i + 1) = (n + 1) + i
        /\ i \in 1..(Len(s) - (n + 1))
    BY <1>1, <1>2, <1>3
  <2>. QED
    BY <1>2, <1>3, <1>6, <2>1
<1>8. Len(Tail(t)) = Len(u) /\ Len(u) \in Nat
  BY <1>1, <1>2, <1>3, <1>6
<1>9. Tail(t) = u
  BY <1>3, <1>6, <1>7, <1>8, SameCells
<1>. QED
  BY <1>4, <1>5, <1>9 DEF t, u

\* A step of the connection is one of the channel's, or none of its business.
LEMMA StepImplementsChannel ==
  ASSUME StreamInv, [StreamNext]_streamVars
  PROVE  [Channel!Next]_Channel!channelVars
<1>. DEFINE transit == SubSeq(sent, Len(received) + 1, Len(sent))
            open == reader # "closed"
<1>1. /\ sent \in Seq(Messages) /\ received \in Seq(Messages) /\ Len(received) \in 0..Len(sent)
      /\ Len(sent) \in Nat
  BY DEF StreamInv, StreamTypeOK
<1>2. ASSUME NEW m \in Messages, send(m) PROVE Channel!Send
  <2>1. sent' = Append(sent, m) /\ received' = received /\ reader' = reader
    BY <1>2 DEF send
  <2>2. transit' = Append(transit, m)
    BY <1>1, <2>1, TransitAppend
  <2>. QED
    BY <2>1, <2>2 DEF Channel!Send
<1>3. CASE next
  <2>1. /\ Len(received) \in Nat /\ Len(received) + 1 \in 1..Len(sent)
        /\ sent[Len(received) + 1] \in Messages /\ Fits(sent[Len(received) + 1])
        /\ received' = Append(received, sent[Len(received) + 1])
    BY <1>3, NextMessage
  <2>2. sent' = sent /\ reader' = reader /\ reader # "closed"
    BY <1>3 DEF next, writer
  <2>3. Len(received') = Len(received) + 1
    BY <1>1, <2>1
  <2>4. /\ transit # << >> /\ Head(transit) = sent[Len(received) + 1]
        /\ Tail(transit) = SubSeq(sent, (Len(received) + 1) + 1, Len(sent))
    BY <1>1, <2>1, TransitTail
  <2>5. transit' = Tail(transit)
    BY <2>2, <2>3, <2>4
  <2>6. Channel!Receive
    <3>1. Head(transit) \in {m \in Messages : Fits(m)}
      BY <2>1, <2>4
    <3>2. received' = Append(received, Head(transit))
      BY <2>1, <2>4
    <3>. QED
      BY <2>2, <2>4, <2>5, <3>1, <3>2 DEF Channel!Receive
  <2>. QED
    BY <2>6 DEF Channel!Next
<1>4. CASE pump
  <2>1. sent' = sent /\ received' = received /\ reader = "idle" /\ reader' \in {"dispatch", "closed"}
    BY <1>4 DEF pump, writer
  <2>2. CASE reader' = "closed"
    <3>1. Channel!GiveUp
      BY <2>1, <2>2 DEF Channel!GiveUp
    <3>. QED
      BY <3>1 DEF Channel!Next
  <2>3. CASE reader' # "closed"
    BY <2>1, <2>3 DEF Channel!channelVars
  <2>. QED
    BY <2>2, <2>3
<1>5. CASE Close \/ NoMore \/ UNCHANGED streamVars
  <2>1. sent' = sent /\ received' = received /\ (reader' # "closed") = (reader # "closed")
    BY <1>5 DEF Close, NoMore, streamVars, writer
  <2>. QED
    BY <2>1 DEF Channel!channelVars
<1>. QED
  BY <1>2, <1>3, <1>4, <1>5 DEF StreamNext, Channel!Next

\* MessageStream's framing keeps its promise on every connection: whatever the
\* messages, the kernel's room and the places at which frames are cut, next hands
\* out whole messages, in the order they were given to send, none twice and none
\* that was not sent, until the receiver gives the connection up.
THEOREM StreamImplementsChannel == StreamSpec => ImplementsChannel
<1>1. StreamInit => Channel!Init
  <2>. SUFFICES ASSUME StreamInit PROVE Channel!Init
    OBVIOUS
  <2>1. sent = << >> /\ received = << >> /\ reader = "idle"
    BY DEF StreamInit
  <2>2. SubSeq(sent, Len(received) + 1, Len(sent)) = << >>
    BY <2>1
  <2>. QED
    BY <2>1, <2>2 DEF Channel!Init
<1>2. StreamInv /\ [StreamNext]_streamVars => [Channel!Next]_Channel!channelVars
  BY StepImplementsChannel
<1>. QED
  BY <1>1, <1>2, StreamInvInit, StreamInvStep, PTL DEF StreamSpec, ImplementsChannel, Channel!Spec
=============================================================================
