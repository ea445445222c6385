----------------------------- MODULE RpcService -----------------------------
(***************************************************************************)
(* What the database client promises the auth and world servers that call  *)
(* it: a call is executed by the database at most once, and its callback   *)
(* runs exactly once, either with the answer of that very execution or     *)
(* with a failure.  A failure says nothing about execution: the database   *)
(* may have executed the call, or may yet do so.                           *)
(***************************************************************************)
EXTENDS Naturals

CONSTANT MaxCalls      \* bound on the calls of one behaviour

Calls == 1..MaxCalls

VARIABLES state,       \* call -> what its caller has seen
          executed     \* the calls the database has executed

rpcVars == <<state, executed>>

RpcInit == /\ state = [k \in Calls |-> "idle"]
           /\ executed = {}

Issue(k) == /\ state[k] = "idle"
            /\ state' = [state EXCEPT ![k] = "pending"]
            /\ UNCHANGED executed

\* A call made while there is no connection fails before it returns.
Refuse(k) == /\ state[k] = "idle"
             /\ state' = [state EXCEPT ![k] = "failed"]
             /\ UNCHANGED executed

Execute(k) == /\ state[k] \in {"pending", "failed"}
              /\ k \notin executed
              /\ executed' = executed \cup {k}
              /\ UNCHANGED state

Succeed(k) == /\ state[k] = "pending"
              /\ k \in executed
              /\ state' = [state EXCEPT ![k] = "ok"]
              /\ UNCHANGED executed

Fail(k) == /\ state[k] = "pending"
           /\ state' = [state EXCEPT ![k] = "failed"]
           /\ UNCHANGED executed

RpcNext == \E k \in Calls :
             Issue(k) \/ Refuse(k) \/ Execute(k) \/ Succeed(k) \/ Fail(k)

RpcSpec == RpcInit /\ [][RpcNext]_rpcVars
=============================================================================
