------------------------------- MODULE Sockets ------------------------------
(***************************************************************************)
(* The socket wrappers of common/net/src/socket.cpp.  A TcpSocket or a     *)
(* UdpSocket object owns at most one handle of the operating system, which *)
(* gives out the lowest number that is free.  A value s of this module is  *)
(* what all objects own and which handles are open.                        *)
(*                                                                         *)
(* A connection is seen from its socket in one of the states of Link:      *)
(* "pending" until the peer answers, "up", "refused", "ended" by the peer, *)
(* and "shut" once its own handle is closed.                               *)
(***************************************************************************)
EXTENDS Naturals

CONSTANTS Objects, MaxHandles

Handles == 1..MaxHandles
kInvalidSocket == 0

ASSUME SocketAssumption == MaxHandles \in Nat \ {0}

SocketState == [mHandle : [Objects -> Handles \cup {kInvalidSocket}], open : SUBSET Handles]
NoSockets == [mHandle |-> [o \in Objects |-> kInvalidSocket], open |-> {}]

valid(s, o) == s.mHandle[o] # kInvalidSocket

close(s, o) ==
  IF valid(s, o)
  THEN [mHandle |-> [s.mHandle EXCEPT ![o] = kInvalidSocket], open |-> s.open \ {s.mHandle[o]}]
  ELSE s

\* The part of connect, listen and open that makes a socket, where the system
\* has one to give.
opened(s, o) ==
  LET t == close(s, o)
      free == Handles \ t.open
      handle == CHOOSE h \in free : \A g \in free : h <= g
  IN  [mHandle |-> [t.mHandle EXCEPT ![o] = handle], open |-> t.open \cup {handle}]

\* Move construction of dst.
SharedByMove(s, dst, src) == [s EXCEPT !.mHandle[dst] = s.mHandle[src]]
moved(s, dst, src) ==
  [s EXCEPT !.mHandle[dst] = s.mHandle[src], !.mHandle[src] = kInvalidSocket]

\* The destructors of a set of objects that go out of scope.
destroyed(s, gone) ==
  [mHandle |-> [o \in Objects |-> IF o \in gone THEN kInvalidSocket ELSE s.mHandle[o]],
   open |-> s.open \ {s.mHandle[o] : o \in gone}]

\* Every open handle has one owner, and nobody owns a closed one.
OwnedOnce(s) ==
  /\ \A h \in s.open : \E o \in Objects : s.mHandle[o] = h
  /\ \A o \in Objects : valid(s, o) => s.mHandle[o] \in s.open
  /\ \A o, p \in Objects : valid(s, o) /\ s.mHandle[o] = s.mHandle[p] => o = p
-----------------------------------------------------------------------------
Link == {"none", "pending", "up", "refused", "ended", "shut", "gone"}

\* SO_ERROR is also 0 while the attempt is still under way.
connectResult(link) == link # "refused"

\* Bytes leave only over a connection that is up; on one that is pending, send
\* would block, which it reports as success.
sends(link) == link = "up"

\* receive's end: the peer has closed, or the connection never came about.
broken(link) == link \in {"refused", "ended"}

\* waitReadable: poll reports input, a hang-up or an error.
readable(link, input) == input \/ broken(link)
=============================================================================
