------------------------------ MODULE DbClient ------------------------------
(***************************************************************************)
(* The database client the auth and world servers embed                    *)
(* (server/common/src/db_client.cpp): request ids, the table of pending    *)
(* handlers, replies, connection loss and reconnection.                    *)
(*                                                                         *)
(* The k-th RPC of a behaviour is "call k": its number stands for its      *)
(* request payload, for the reply the database computes from it, and for   *)
(* the caller's callback.  Request ids are 32 bits in the code and wrap;   *)
(* IdSpace is 2^32 there and small here.                                   *)
(***************************************************************************)
EXTENDS Naturals, Sequences

CONSTANTS MaxCalls,    \* bound on the calls of one behaviour
          IdSpace,     \* number of request ids
          MaxPending   \* bound on unanswered calls (memory, in the code)

ASSUME BoundsAssumption == /\ MaxCalls \in Nat
                           /\ IdSpace \in Nat \ {0}
                           /\ MaxPending \in Nat
                           /\ MaxPending <= IdSpace

VARIABLES
  mConnected,      \* what the client believes of its connection
  linkUp,          \* whether the connection really still stands
  mNextRequestId,
  mPending,        \* request id -> call whose handler is registered, or 0
  failing,         \* calls whose handlers failAllPending still has to invoke
  wire,            \* unanswered requests in the order they were sent
  done,            \* how many of them, from the front, have been executed
  nextCall,        \* the next call a caller will make
  callbacks,       \* call -> how often its callback ran
  answer,          \* call -> the call whose answer it was given, 0 for failure
  executed         \* call -> how often the database executed it

vars == <<mConnected, linkUp, mNextRequestId, mPending, failing, wire, done,
          nextCall, callbacks, answer, executed>>

Calls == 1..MaxCalls
Ids == 0..(IdSpace - 1)
Message == [id : Ids, call : Calls]

TypeOK ==
  /\ mConnected \in BOOLEAN
  /\ linkUp \in BOOLEAN
  /\ mNextRequestId \in Ids
  /\ mPending \in [Ids -> 0..MaxCalls]
  /\ failing \subseteq Calls
  /\ wire \in Seq(Message)
  /\ done \in 0..Len(wire)
  /\ nextCall \in 1..(MaxCalls + 1)
  /\ callbacks \in [Calls -> Nat]
  /\ answer \in [Calls -> 0..MaxCalls]
  /\ executed \in [Calls -> Nat]

NoHandlers == [i \in Ids |-> 0]

Init ==
  /\ mConnected = FALSE
  /\ linkUp = FALSE
  /\ mNextRequestId = 1 % IdSpace
  /\ mPending = NoHandlers
  /\ failing = {}
  /\ wire = << >>
  /\ done = 0
  /\ nextCall = 1
  /\ callbacks = [k \in Calls |-> 0]
  /\ answer = [k \in Calls |-> 0]
  /\ executed = [k \in Calls |-> 0]
-----------------------------------------------------------------------------
(* Operations.  A callback may make further calls; since handlers run one  *)
(* at a time, a call from inside a callback is a Send or Refuse step that  *)
(* follows the step that invoked the callback.                             *)

AfterStuck(id) == id
After(id) == IF id = IdSpace - 1 THEN 0 ELSE id + 1

\* emplace never replaces a handler that is already registered.
Register(id, k) ==
  IF mPending[id] = 0 THEN [mPending EXCEPT ![id] = k] ELSE mPending

\* poll takes a handler out of the table before it invokes it.
LeaveHandler(id) == mPending
TakeHandler(id) == [mPending EXCEPT ![id] = 0]

\* failAllPending moves the whole table out before it invokes any handler.
NothingMoved == {}
MovedHandlers == {mPending[i] : i \in Ids} \ {0}

\* Any RPC of the class while connected.  The kernel takes the bytes even when
\* the peer is gone and the client has yet to notice.
Send ==
  /\ mConnected
  /\ nextCall <= MaxCalls
  /\ Len(wire) < MaxPending
  /\ wire' = Append(wire, [id |-> mNextRequestId, call |-> nextCall])
  /\ mPending' = Register(mNextRequestId, nextCall)
  /\ mNextRequestId' = After(mNextRequestId)
  /\ nextCall' = nextCall + 1
  /\ UNCHANGED <<mConnected, linkUp, failing, done, callbacks, answer, executed>>

\* Any RPC of the class while not connected: the callback runs at once.
Refuse ==
  /\ ~mConnected
  /\ nextCall <= MaxCalls
  /\ callbacks' = [callbacks EXCEPT ![nextCall] = @ + 1]
  /\ nextCall' = nextCall + 1
  /\ UNCHANGED <<mConnected, linkUp, mNextRequestId, mPending, failing, wire,
                 done, answer, executed>>

\* The database server answers the requests of a connection one by one, in
\* order.  It may still be at it when the link is already lost for the client.
DbExecute ==
  /\ done < Len(wire)
  /\ executed' = [executed EXCEPT ![wire[done + 1].call] = @ + 1]
  /\ done' = done + 1
  /\ UNCHANGED <<mConnected, linkUp, mNextRequestId, mPending, failing, wire,
                 nextCall, callbacks, answer>>

\* The connection dies; replies not yet read die with it, because pump reports
\* the close before any buffered message is handed out.
Break ==
  /\ linkUp
  /\ linkUp' = FALSE
  /\ UNCHANGED <<mConnected, mNextRequestId, mPending, failing, wire, done,
                 nextCall, callbacks, answer, executed>>

\* poll, one turn of its loop: a reply whose id has a handler is given to it.
PollReply ==
  /\ mConnected
  /\ linkUp
  /\ done > 0
  /\ LET reply == Head(wire)
         k == mPending[reply.id]
     IN  IF k = 0
         THEN UNCHANGED <<mPending, callbacks, answer>>  \* unsolicited
         ELSE /\ mPending' = TakeHandler(reply.id)
              /\ callbacks' = [callbacks EXCEPT ![k] = @ + 1]
              /\ answer' = [answer EXCEPT ![k] = reply.call]
  /\ wire' = Tail(wire)
  /\ done' = done - 1
  /\ UNCHANGED <<mConnected, linkUp, mNextRequestId, failing, nextCall, executed>>

\* poll finds the connection closed and failAllPending moves the handlers out.
PollLost ==
  /\ mConnected
  /\ ~linkUp
  /\ mConnected' = FALSE
  /\ failing' = MovedHandlers
  /\ mPending' = NoHandlers
  /\ UNCHANGED <<linkUp, mNextRequestId, wire, done, nextCall, callbacks,
                 answer, executed>>

\* failAllPending, one turn of its loop.
FailHandler(k) ==
  /\ k \in failing
  /\ failing' = failing \ {k}
  /\ callbacks' = [callbacks EXCEPT ![k] = @ + 1]
  /\ UNCHANGED <<mConnected, linkUp, mNextRequestId, mPending, wire, done,
                 nextCall, answer, executed>>

\* connect succeeds.  A new stream replaces the old one with all it buffered;
\* mNextRequestId carries on.  The servers call it in their reconnect loop,
\* which starts when poll has returned, that is, when every handler has run.
connect ==
  /\ ~mConnected
  /\ failing = {}
  /\ mConnected' = TRUE
  /\ linkUp' = TRUE
  /\ wire' = << >>
  /\ done' = 0
  /\ UNCHANGED <<mNextRequestId, mPending, failing, nextCall, callbacks,
                 answer, executed>>

Next == \/ Send \/ Refuse \/ DbExecute \/ Break
        \/ PollReply \/ PollLost \/ connect
        \/ \E k \in Calls : FailHandler(k)

Spec == Init /\ [][Next]_vars

\* The servers' main loops poll and reconnect forever, failAllPending is a
\* loop over a finite table, and the database server answers every request it
\* reads.  Nothing obliges callers to call, or the link to break.
Fairness == /\ WF_vars(DbExecute) /\ WF_vars(PollReply) /\ WF_vars(PollLost)
            /\ WF_vars(connect)
            /\ \A k \in Calls : WF_vars(FailHandler(k))

FairSpec == Spec /\ Fairness
-----------------------------------------------------------------------------
(* Correctness. *)

\* No callback runs twice, whether by a reply, by failAllPending or by both
\* (poll erases the handler before it invokes it; failAllPending moves them).
AtMostOneCallback == \A k \in Calls : callbacks[k] <= 1

\* A callback is given the answer to its own request, and only one the
\* database really executed, even after connections were lost and request
\* ids have wrapped around.
RightAnswer ==
  \A k \in Calls : answer[k] # 0 => answer[k] = k /\ executed[k] = 1

\* No handler is dropped: a call that has been made and not called back is
\* still registered, under exactly one request id, or is about to be failed.
NoCallForgotten ==
  \A k \in 1..(nextCall - 1) :
    callbacks[k] = 0 =>
      \/ k \in failing
      \/ \E i \in Ids : mPending[i] = k /\ \A j \in Ids : mPending[j] = k => j = i

\* Every callback eventually runs, however often the connection is lost.
EveryCallCalledBack ==
  \A k \in Calls : (nextCall > k) ~> (callbacks[k] = 1)

\* The client implements the service its callers rely on.
callState ==
  [k \in Calls |-> IF k >= nextCall THEN "idle"
                   ELSE IF callbacks[k] = 0 THEN "pending"
                   ELSE IF answer[k] = 0 THEN "failed" ELSE "ok"]

Service == INSTANCE RpcService
             WITH state <- callState,
                  executed <- {k \in Calls : executed[k] > 0}

ImplementsService == Service!RpcSpec
=============================================================================
