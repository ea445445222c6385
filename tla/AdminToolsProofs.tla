--------------------------- MODULE AdminToolsProofs ---------------------------
(***************************************************************************)
(* Proofs about AdminTools, for any commands, any number of requests, any  *)
(* time to wait and any number of crashes.                                 *)
(*                                                                         *)
(* The argument: where the tool is in its main function says which of its  *)
(* objects own a handle (Handled); a request is carried out at most once,  *)
(* on its way to "over", and the only answer a tool can read on its        *)
(* connection is the one to its current request (Served).                  *)
(***************************************************************************)
EXTENDS AdminTools, TLAPS
-----------------------------------------------------------------------------
(* Sockets: handles keep one owner.                                        *)

LEMMA StateFields ==
  ASSUME NEW s \in SocketState
  PROVE  /\ s.mHandle \in [Objects -> Handles \cup {kInvalidSocket}] /\ s.open \in SUBSET Handles
         /\ s = [mHandle |-> s.mHandle, open |-> s.open]
         /\ kInvalidSocket \notin Handles
  BY DEF SocketState, Handles, kInvalidSocket

LEMMA DestroyedOwned ==
  ASSUME NEW s \in SocketState, OwnedOnce(s), NEW gone \in SUBSET Objects
  PROVE  /\ destroyed(s, gone) \in SocketState /\ OwnedOnce(destroyed(s, gone))
         /\ \A o \in Objects : valid(destroyed(s, gone), o) <=> valid(s, o) /\ o \notin gone
<1>. DEFINE d == destroyed(s, gone)
<1>1. /\ d.mHandle = [o \in Objects |-> IF o \in gone THEN kInvalidSocket ELSE s.mHandle[o]]
      /\ d.open = s.open \ {s.mHandle[o] : o \in gone}
      /\ d = [mHandle |-> d.mHandle, open |-> d.open]
  BY DEF destroyed
<1>2. d \in SocketState
  BY StateFields DEF destroyed, SocketState
<1>. HIDE DEF d
<1>3. \A o \in Objects : d.mHandle[o] = IF o \in gone THEN kInvalidSocket ELSE s.mHandle[o]
  BY <1>1
<1>4. \A o \in Objects : valid(d, o) <=> valid(s, o) /\ o \notin gone
  BY <1>3 DEF valid
<1>5. \A h \in d.open : \E o \in Objects : d.mHandle[o] = h
  BY <1>1, <1>3 DEF OwnedOnce
<1>6. \A o \in Objects : valid(d, o) => d.mHandle[o] \in d.open
  BY <1>1, <1>3, <1>4 DEF OwnedOnce, valid
<1>7. \A o, p \in Objects : valid(d, o) /\ d.mHandle[o] = d.mHandle[p] => o = p
  BY <1>3 DEF OwnedOnce, valid
<1>. QED
  BY <1>2, <1>4, <1>5, <1>6, <1>7 DEF OwnedOnce, d

LEMMA MovedOwned ==
  ASSUME NEW s \in SocketState, OwnedOnce(s), NEW dst \in Objects, NEW src \in Objects, dst # src,
         ~valid(s, dst), valid(s, src)
  PROVE  /\ moved(s, dst, src) \in SocketState /\ OwnedOnce(moved(s, dst, src))
         /\ \A o \in Objects : valid(moved(s, dst, src), o) <=> o = dst \/ (valid(s, o) /\ o # src)
<1>. DEFINE m == moved(s, dst, src)
<1>1. /\ m.mHandle = [[s.mHandle EXCEPT ![dst] = s.mHandle[src]] EXCEPT ![src] = kInvalidSocket]
      /\ m.open = s.open /\ m = [mHandle |-> m.mHandle, open |-> m.open]
  BY StateFields DEF moved, SocketState
<1>. HIDE DEF m
<1>2. \A o \in Objects : m.mHandle[o] = IF o = src THEN kInvalidSocket
                                        ELSE IF o = dst THEN s.mHandle[src] ELSE s.mHandle[o]
  BY <1>1, StateFields
<1>3. m.mHandle \in [Objects -> Handles \cup {kInvalidSocket}]
  BY <1>1, StateFields
<1>4. m \in SocketState
  BY <1>1, <1>3, StateFields DEF SocketState
<1>5. \A o \in Objects : valid(m, o) <=> o = dst \/ (valid(s, o) /\ o # src)
  BY <1>2 DEF valid
<1>6. \A h \in m.open : \E o \in Objects : m.mHandle[o] = h
  <2>. SUFFICES ASSUME NEW h \in s.open PROVE \E o \in Objects : m.mHandle[o] = h
    BY <1>1
  <2>1. PICK o \in Objects : s.mHandle[o] = h
    BY DEF OwnedOnce
  <2>2. h # kInvalidSocket
    BY StateFields
  <2>3. o # dst
    BY <2>1, <2>2 DEF valid
  <2>. QED
    BY <1>2, <2>1, <2>3
<1>7. \A o \in Objects : valid(m, o) => m.mHandle[o] \in m.open
  BY <1>1, <1>2 DEF OwnedOnce, valid
<1>8. \A o, p \in Objects : valid(m, o) /\ m.mHandle[o] = m.mHandle[p] => o = p
  BY <1>2 DEF OwnedOnce, valid
<1>. QED
  BY <1>4, <1>5, <1>6, <1>7, <1>8 DEF OwnedOnce, m

\* A tool with at most two sockets gets a handle that is free.
LEMMA OpenedOwned ==
  ASSUME NEW s \in SocketState, OwnedOnce(s), NEW obj \in Objects, ~valid(s, obj),
         NEW a \in Objects, NEW b \in Objects, \A o \in Objects : valid(s, o) => o \in {a, b}
  PROVE  /\ opened(s, obj) \in SocketState /\ OwnedOnce(opened(s, obj))
         /\ \A o \in Objects : valid(opened(s, obj), o) <=> o = obj \/ valid(s, o)
<1>. DEFINE free == Handles \ s.open
            Lowest(h) == \A g \in free : h <= g
            handle == CHOOSE h \in free : Lowest(h)
            n == opened(s, obj)
<1>1. close(s, obj) = s
  BY DEF close
<1>2. /\ n.mHandle = [s.mHandle EXCEPT ![obj] = handle] /\ n.open = s.open \cup {handle}
      /\ n = [mHandle |-> n.mHandle, open |-> n.open]
  BY <1>1 DEF opened
<1>3. \E h \in free : Lowest(h)
  <2>1. 1 \in Handles /\ 2 \in Handles /\ 3 \in Handles /\ Handles \subseteq Nat
    BY ToolAssumption, SocketAssumption DEF Handles
  <2>2. \A h \in s.open : h = s.mHandle[a] \/ h = s.mHandle[b]
    BY StateFields DEF OwnedOnce, valid
  <2>3. 1 \in free \/ 2 \in free \/ 3 \in free
    BY <2>1, <2>2
  <2>4. \A g \in free : g \in Nat /\ g # 0
    BY <2>1 DEF Handles
  <2>5. CASE 1 \in free
    BY <2>4, <2>5
  <2>6. CASE 1 \notin free /\ 2 \in free
    <3>1. \A g \in free : g # 1
      BY <2>6
    <3>. QED
      BY <2>4, <2>6, <3>1
  <2>7. CASE 1 \notin free /\ 2 \notin free
    <3>1. \A g \in free : g # 1 /\ g # 2
      BY <2>7
    <3>. QED
      BY <2>3, <2>4, <2>7, <3>1
  <2>. QED
    BY <2>5, <2>6, <2>7
<1>4. handle \in free
  BY <1>3
<1>. HIDE DEF handle, n
<1>5. handle \in Handles /\ handle \notin s.open /\ handle # kInvalidSocket
  BY <1>4, StateFields
<1>6. \A o \in Objects : n.mHandle[o] = IF o = obj THEN handle ELSE s.mHandle[o]
  BY <1>2, StateFields
<1>7. n \in SocketState
  <2>1. n.mHandle \in [Objects -> Handles \cup {kInvalidSocket}] /\ n.open \in SUBSET Handles
    BY <1>2, <1>5, StateFields
  <2>. QED
    BY <1>2, <2>1 DEF SocketState
<1>8. \A o \in Objects : valid(n, o) <=> o = obj \/ valid(s, o)
  BY <1>5, <1>6 DEF valid
<1>9. \A h \in n.open : \E o \in Objects : n.mHandle[o] = h
  <2>1. ASSUME NEW h \in s.open PROVE \E o \in Objects : n.mHandle[o] = h
    <3>1. PICK o \in Objects : s.mHandle[o] = h
      BY DEF OwnedOnce
    <3>2. o # obj
      BY <3>1, StateFields DEF valid
    <3>. QED
      BY <1>6, <3>1, <3>2
  <2>. QED
    BY <1>2, <1>6, <2>1
<1>10. \A o \in Objects : valid(n, o) => n.mHandle[o] \in n.open
  BY <1>2, <1>6 DEF OwnedOnce, valid
<1>11. \A o, p \in Objects : valid(n, o) /\ n.mHandle[o] = n.mHandle[p] => o = p
  BY <1>5, <1>6 DEF OwnedOnce, valid
<1>. QED
  BY <1>7, <1>8, <1>9, <1>10, <1>11 DEF OwnedOnce, n
-----------------------------------------------------------------------------
(* The inductive invariant.                                                *)

\* Which tool is where in its main function, and with which kind of request.
Pursuits ==
  /\ pc = "start" => requests = << >>
  /\ pc \in {"connecting", "awaiting", "joined", "listening"} => requests # << >>
  /\ pc \in {"signedIn", "prompt", "confirm"} => program = "console"
  /\ pc \in {"loggedIn", "joined", "listening"} => program = "worldcli"
  /\ program # "worldcli" /\ requests # << >> => request.kind \notin {"join", "logout"}
  /\ pc = "connecting" => request.kind # "logout"
  /\ program = "worldcli" /\ requests # << >> => request.kind \in {"login", "join", "logout"}
  /\ program = "authcli" /\ requests # << >> => current = 1
  /\ program = "authcli" /\ pc = "exited" /\ exitCode = 0 =>
       requests # << >> /\ requests[1].told = "done"

\* Whether an object owns a handle there.
Holds(o) ==
  \/ o = "socket" /\ pc = "connecting" /\ request.kind # "join"
  \/ o = "worldSocket" /\ pc = "connecting" /\ request.kind = "join"
  \/ o = "stream" /\ \/ pc \in {"awaiting", "loggedIn", "joined", "listening"}
                     \/ pc = "connecting" /\ request.kind = "join"
  \/ o = "world" /\ \/ pc \in {"joined", "listening"}
                    \/ pc = "awaiting" /\ request.kind \in {"join", "logout"}
  \/ o = "udp" /\ (pc = "listening" \/ (pc = "awaiting" /\ request.kind = "logout"))

Handled == OwnedOnce(sockets) /\ \A o \in Objects : valid(sockets, o) <=> Holds(o)

\* A request has its own connection, but for worldcli's logout, which uses the
\* one its join was answered on.
OwnConnection(r) ==
  \/ requests[r].conn = r
  \/ /\ r = current /\ r > 1 /\ requests[r].conn = r - 1 /\ asked[r - 1] = "over"
     /\ requests[r].kind = "logout" /\ pc \in {"awaiting", "exited"}

\* What was told of a request is true, and it is not carried out before it is over.
Truthful(r) ==
  /\ effects[r] <= 1
  /\ asked[r] # "over" => effects[r] = 0
  /\ requests[r].told = "done" => effects[r] = 1
  /\ requests[r].told \in {"refused", "expired", "unreachable"} =>
       effects[r] = 0 /\ asked[r] \in {"no", "over"}

\* An answer on its way is the only one, and the one to request r.
AnswerTo(r, box) ==
  box # << >> => /\ Len(box) = 1 /\ asked[r] = "over"
                 /\ effects[r] = IF box[1] = "done" THEN 1 ELSE 0

Served ==
  /\ \A r \in 1..current : Truthful(r) /\ OwnConnection(r)
  /\ \A r \in Requests : r > current => asked[r] = "no" /\ effects[r] = 0 /\ inbox[r] = << >>
  /\ pc = "connecting" => /\ asked[current] = "no" /\ inbox[current] = << >>
                          /\ request.told = "nothing" /\ request.conn = current
  /\ pc = "awaiting" => request.told = "nothing" /\ AnswerTo(current, inbox[request.conn])
  /\ pc \in {"joined", "listening"} =>
       inbox[current] = << >> /\ request.told = "done" /\ request.conn = current

ToolInv == TypeOK /\ Pursuits /\ Handled /\ Served

LEMMA Bounds ==
  /\ kMaxSlices \in Nat /\ kMaxSlices > 0 /\ MaxRequests \in Nat /\ MaxCrashes \in Nat
  /\ Objects = {"socket", "stream", "worldSocket", "world", "udp"}
  BY ToolAssumption

LEMMA ToolInit == Init => ToolInv
<1>. SUFFICES ASSUME Init PROVE ToolInv
  OBVIOUS
<1>1. NoSockets \in SocketState /\ OwnedOnce(NoSockets) /\ \A o \in Objects : ~valid(NoSockets, o)
  BY DEF NoSockets, SocketState, OwnedOnce, valid, kInvalidSocket
<1>2. requests = << >> /\ current = 0 /\ << >> \in Seq(Request)
  BY DEF Init, current
<1>3. /\ link \in [Requests -> Link] /\ effects \in [Requests -> Nat]
      /\ inbox \in [Requests -> Seq({"done", "refused", "expired"})]
      /\ asked \in [Requests -> {"no", "sent", "read", "over"}]
  BY DEF Init, Link
<1>4. TypeOK
  <2>1. 0 \in 0..kMaxSlices /\ 0 \in 0..MaxRequests /\ 0 \in 0..MaxCrashes /\ 0 <= MaxRequests
    BY Bounds
  <2>2. /\ program \in {"console", "authcli", "worldcli"} /\ oneShot \in BOOLEAN
        /\ pc \in Pcs /\ exitCode \in {0, 1} /\ requests \in Seq(Request) /\ current <= MaxRequests
    BY <1>2, <2>1 DEF Init, Pcs
  <2>3. /\ sockets \in SocketState /\ waited \in 0..kMaxSlices /\ heard \in BOOLEAN
        /\ session \in {"none", "valid", "expired", "redeemed"}
        /\ inWorld \in 0..MaxRequests /\ hello \in {"none", "sent", "bound"}
        /\ up \subseteq Servers /\ crashes \in 0..MaxCrashes
    BY <1>1, <2>1 DEF Init
  <2>. QED
    BY <1>3, <2>2, <2>3 DEF TypeOK
<1>5. Pursuits
  BY <1>2 DEF Init, Pursuits
<1>6. Handled
  BY <1>1 DEF Init, Handled, Holds
<1>7. Served
  BY <1>2 DEF Init, Served
<1>. QED
  BY <1>4, <1>5, <1>6, <1>7 DEF ToolInv
-----------------------------------------------------------------------------
(* The services: the tool stands still.                                    *)

LEMMA Standing ==
  ASSUME Pursuits, Handled, UNCHANGED process
  PROVE  Pursuits' /\ Handled'
<1>1. UNCHANGED <<program, pc, exitCode, requests, sockets>>
  BY DEF process
<1>. QED
  BY <1>1 DEF Pursuits, Handled, Holds, current, request

LEMMA Numbers ==
  ASSUME TypeOK
  PROVE  /\ current \in Nat /\ current <= MaxRequests /\ 1..current \subseteq Requests
         /\ Requests \subseteq Nat /\ MaxRequests \in Nat
         /\ DOMAIN requests = 1..current
         /\ \A r \in 1..current : requests[r] \in Request /\ requests[r].conn \in Requests
         /\ requests # << >> => current \in 1..current /\ request \in Request
<1>1. requests \in Seq(Request) /\ current = Len(requests) /\ current <= MaxRequests
  BY DEF TypeOK, current
<1>2. current \in Nat /\ DOMAIN requests = 1..current /\ \A r \in 1..current : requests[r] \in Request
  BY <1>1
<1>3. 1..current \subseteq Requests /\ Requests \subseteq Nat /\ MaxRequests \in Nat
  BY <1>1, <1>2, Bounds DEF Requests
<1>4. requests # << >> => current \in 1..current
  BY <1>1, <1>2
<1>5. \A q \in Request : q.conn \in Requests
  BY DEF Request
<1>. QED
  BY <1>1, <1>2, <1>3, <1>4, <1>5 DEF request

\* Requests go on towards their end without being carried out.
LEMMA Progressing ==
  ASSUME TypeOK, Pursuits, Served, UNCHANGED <<pc, requests, effects, inbox>>,
         \A r \in Requests : \/ asked'[r] = asked[r]
                             \/ asked[r] \in {"sent", "read"} /\ asked'[r] \in {"read", "over"}
  PROVE  Served'
<1>1. current' = current /\ request' = request
  BY DEF current, request
<1>2. 1..current \subseteq Requests /\ current \in Nat
  BY Numbers
<1>3. \A r \in 1..current : Truthful(r)'
  BY <1>2 DEF Served, Truthful
<1>4. \A r \in 1..current : OwnConnection(r)'
  <2>1. \A r \in 1..current : r > 1 => r - 1 \in 1..current
    BY <1>2
  <2>. QED
    BY <1>1, <1>2, <2>1 DEF Served, OwnConnection
<1>5. (\A r \in Requests : r > current => asked[r] = "no" /\ effects[r] = 0 /\ inbox[r] = << >>)'
  BY <1>1 DEF Served
<1>6. pc = "connecting" \/ pc = "awaiting" =>
        /\ asked[current] = "no" => asked'[current] = "no"
        /\ asked[current] = "over" => asked'[current] = "over"
  BY <1>2, Numbers DEF Pursuits
<1>7. (pc = "connecting" => /\ asked[current] = "no" /\ inbox[current] = << >>
                            /\ request.told = "nothing" /\ request.conn = current)'
  BY <1>1, <1>6 DEF Served
<1>8. (pc = "awaiting" => request.told = "nothing" /\ AnswerTo(current, inbox[request.conn]))'
  BY <1>1, <1>6 DEF Served, AnswerTo
<1>9. (pc \in {"joined", "listening"} =>
         inbox[current] = << >> /\ request.told = "done" /\ request.conn = current)'
  BY <1>1 DEF Served
<1>. QED
  BY <1>1, <1>3, <1>4, <1>5, <1>7, <1>8, <1>9 DEF Served

\* The type invariant, in the tool's part and the servers' part.
ToolTypes ==
  /\ program \in {"console", "authcli", "worldcli"} /\ oneShot \in BOOLEAN
  /\ pc \in Pcs /\ exitCode \in {0, 1}
  /\ requests \in Seq(Request) /\ current <= MaxRequests
  /\ sockets \in SocketState
  /\ waited \in 0..kMaxSlices /\ heard \in BOOLEAN

ServiceTypes ==
  /\ link \in [Requests -> Link]
  /\ inbox \in [Requests -> Seq({"done", "refused", "expired"})]
  /\ asked \in [Requests -> {"no", "sent", "read", "over"}]
  /\ effects \in [Requests -> Nat]
  /\ session \in {"none", "valid", "expired", "redeemed"}
  /\ inWorld \in 0..MaxRequests /\ hello \in {"none", "sent", "bound"}
  /\ up \subseteq Servers /\ crashes \in 0..MaxCrashes

LEMMA TypeParts == /\ TypeOK <=> ToolTypes /\ ServiceTypes
                   /\ TypeOK' <=> ToolTypes' /\ ServiceTypes'
  BY DEF TypeOK, ToolTypes, ServiceTypes

LEMMA ToolTypesStand ==
  ASSUME ToolTypes, UNCHANGED process
  PROVE  ToolTypes'
  BY DEF ToolTypes, process, current

\* The server's decision on a request it has read, and its answer.
LEMMA Deciding ==
  ASSUME ToolInv, NEW r \in Requests, Decide(r)
  PROVE  ToolInv'
<1>1. TypeOK /\ Pursuits /\ Handled /\ Served /\ ToolTypes /\ ServiceTypes
  BY TypeParts DEF ToolInv
<1>2. PICK verdict \in Verdicts(requests[r].kind) :
       /\ effects' = [effects EXCEPT ![r] = @ + (IF verdict = "done" THEN 1 ELSE 0)]
       /\ session' = IF verdict = "done" THEN SessionAfter(requests[r].kind) ELSE session
       /\ inWorld' = InWorldAfter(r, verdict)
       /\ inbox' = IF link[requests[r].conn] = "up"
                   THEN [inbox EXCEPT ![requests[r].conn] = Append(@, verdict)] ELSE inbox
  BY DEF Decide
<1>3. /\ asked[r] = "read" /\ asked' = [asked EXCEPT ![r] = "over"]
      /\ UNCHANGED <<process, link, hello, up, crashes>>
  BY DEF Decide
<1>4. Pursuits' /\ Handled' /\ ToolTypes'
  BY <1>1, <1>3, Standing, ToolTypesStand
<1>5. /\ current' = current /\ request' = request /\ requests' = requests /\ pc' = pc
  BY <1>3 DEF process, current, request
<1>6. verdict \in {"done", "refused", "expired"}
  BY <1>2 DEF Verdicts
<1>7. /\ current \in Nat /\ 1..current \subseteq Requests /\ Requests \subseteq Nat
      /\ Requests = 1..MaxRequests /\ MaxRequests \in Nat
  BY <1>1, Numbers DEF Requests
<1>8. /\ asked \in [Requests -> {"no", "sent", "read", "over"}] /\ effects \in [Requests -> Nat]
      /\ inbox \in [Requests -> Seq({"done", "refused", "expired"})]
  BY <1>1 DEF ServiceTypes
<1>9. r \in 1..current /\ requests[r].conn \in Requests
  <2>1. r \in 1..current
    BY <1>1, <1>3, <1>7 DEF Served
  <2>. QED
    BY <1>1, <2>1, Numbers
<1>10. /\ asked'[r] = "over" /\ effects[r] = 0 /\ effects'[r] = (IF verdict = "done" THEN 1 ELSE 0)
       /\ \A q \in Requests : q # r => asked'[q] = asked[q] /\ effects'[q] = effects[q]
  <2>1. effects[r] = 0
    BY <1>1, <1>3, <1>9 DEF Served, Truthful
  <2>. QED
    BY <1>2, <1>3, <1>8, <2>1
<1>11. \A c \in Requests : c # requests[r].conn => inbox'[c] = inbox[c]
  BY <1>2, <1>8
<1>12. ServiceTypes'
  <2>1. effects[r] + (IF verdict = "done" THEN 1 ELSE 0) \in Nat
    BY <1>8
  <2>2. effects' \in [Requests -> Nat]
    BY <1>2, <1>8, <2>1
  <2>3. asked' \in [Requests -> {"no", "sent", "read", "over"}]
    BY <1>3, <1>8
  <2>4. Append(inbox[requests[r].conn], verdict) \in Seq({"done", "refused", "expired"})
    BY <1>6, <1>8, <1>9
  <2>5. inbox' \in [Requests -> Seq({"done", "refused", "expired"})]
    BY <1>2, <1>8, <2>4
  <2>6. inWorld' \in 0..MaxRequests
    BY <1>1, <1>2, <1>7 DEF InWorldAfter, ServiceTypes
  <2>7. session' \in {"none", "valid", "expired", "redeemed"}
    BY <1>1, <1>2 DEF SessionAfter, ServiceTypes
  <2>. QED
    BY <1>1, <1>3, <2>2, <2>3, <2>5, <2>6, <2>7 DEF ServiceTypes
<1>13. Served'
  <2>1. ASSUME NEW q \in 1..current PROVE Truthful(q)'
    <3>1. q \in Requests /\ Truthful(q)
      BY <1>1, <1>7 DEF Served
    <3>2. CASE q # r
      BY <1>5, <1>10, <3>1, <3>2 DEF Truthful
    <3>3. CASE q = r
      <4>1. requests[r].told \notin {"done", "refused", "expired", "unreachable"}
        BY <1>3, <1>10, <3>1, <3>3 DEF Truthful
      <4>. QED
        BY <1>5, <1>10, <3>3, <4>1 DEF Truthful
    <3>. QED
      BY <3>2, <3>3
  <2>2. ASSUME NEW q \in 1..current PROVE OwnConnection(q)'
    <3>1. OwnConnection(q) /\ (q > 1 => q - 1 \in Requests)
      BY <1>1, <1>7 DEF Served
    <3>. QED
      BY <1>5, <1>10, <3>1 DEF OwnConnection
  <2>3. ASSUME NEW q \in Requests, q > current
        PROVE  asked'[q] = "no" /\ effects'[q] = 0 /\ inbox'[q] = << >>
    <3>1. q # r
      BY <1>7, <1>9, <2>3
    <3>2. q # requests[r].conn
      <4>1. OwnConnection(r)
        BY <1>1, <1>9 DEF Served
      <4>. QED
        BY <1>7, <1>9, <2>3, <4>1 DEF OwnConnection
    <3>. QED
      BY <1>1, <1>10, <1>11, <2>3, <3>1, <3>2 DEF Served
  <2>4. pc = "connecting" => /\ asked'[current] = "no" /\ inbox'[current] = << >>
                             /\ request.told = "nothing" /\ request.conn = current
    <3>. SUFFICES ASSUME pc = "connecting"
                  PROVE  asked'[current] = "no" /\ inbox'[current] = << >>
      BY <1>1 DEF Served
    <3>1. current \in Requests /\ current # r
      BY <1>1, <1>3, <1>7, Numbers DEF Served, Pursuits
    <3>2. requests[r].conn # current
      <4>1. OwnConnection(r)
        BY <1>1, <1>9 DEF Served
      <4>. QED
        BY <1>9, <3>1, <4>1 DEF OwnConnection
    <3>. QED
      BY <1>1, <1>10, <1>11, <3>1, <3>2 DEF Served
  <2>5. pc = "awaiting" => request.told = "nothing" /\ AnswerTo(current, inbox[request.conn])'
    <3>. SUFFICES ASSUME pc = "awaiting"
                  PROVE  AnswerTo(current, inbox[request.conn])'
      BY <1>1 DEF Served
    <3>1. /\ current \in 1..current /\ current \in Requests /\ request = requests[current]
          /\ request.conn \in Requests
      BY <1>1, <1>7, Numbers DEF Pursuits, request
    <3>2. AnswerTo(current, inbox[request.conn])
      BY <1>1 DEF Served
    <3>3. CASE r = current
      <4>1. inbox[request.conn] = << >>
        BY <1>3, <3>2, <3>3 DEF AnswerTo
      <4>2. inbox'[request.conn] = << >> \/ inbox'[request.conn] = Append(<< >>, verdict)
        BY <1>2, <1>8, <3>1, <3>3, <4>1
      <4>3. Len(Append(<< >>, verdict)) = 1 /\ Append(<< >>, verdict)[1] = verdict
        OBVIOUS
      <4>4. effects'[current] = (IF verdict = "done" THEN 1 ELSE 0) /\ asked'[current] = "over"
        BY <1>10, <3>3
      <4>. QED
        BY <1>5, <4>2, <4>3, <4>4 DEF AnswerTo
    <3>4. CASE r # current
      <4>1. requests[r].conn # request.conn
        <5>1. OwnConnection(r) /\ OwnConnection(current)
          BY <1>1, <1>9, <3>1 DEF Served
        <5>2. requests[r].conn = r
          BY <3>4, <5>1 DEF OwnConnection
        <5>3. request.conn # r
          BY <1>3, <3>1, <3>4, <5>1 DEF OwnConnection
        <5>. QED
          BY <5>2, <5>3
      <4>2. inbox'[request.conn] = inbox[request.conn]
        BY <1>11, <3>1, <4>1
      <4>3. asked'[current] = asked[current] /\ effects'[current] = effects[current]
        BY <1>10, <3>1, <3>4
      <4>. QED
        BY <1>5, <3>2, <4>2, <4>3 DEF AnswerTo
    <3>. QED
      BY <3>3, <3>4
  <2>6. pc \in {"joined", "listening"} =>
          inbox'[current] = << >> /\ request.told = "done" /\ request.conn = current
    <3>. SUFFICES ASSUME pc \in {"joined", "listening"}
                  PROVE  inbox'[current] = << >>
      BY <1>1 DEF Served
    <3>1. /\ current \in 1..current /\ current \in Requests /\ request = requests[current]
          /\ inbox[current] = << >> /\ request.told = "done"
      BY <1>1, <1>7, Numbers DEF Pursuits, Served, request
    <3>2. asked[current] = "over"
      <4>1. Truthful(current)
        BY <1>1, <3>1 DEF Served
      <4>. QED
        BY <3>1, <4>1 DEF Truthful
    <3>3. requests[r].conn = r /\ r # current
      <4>1. OwnConnection(r)
        BY <1>1, <1>9 DEF Served
      <4>. QED
        BY <1>3, <3>2, <4>1 DEF OwnConnection
    <3>. QED
      BY <1>11, <3>1, <3>3
  <2>. QED
    BY <1>5, <2>1, <2>2, <2>3, <2>4, <2>5, <2>6 DEF Served
<1>. QED
  BY <1>4, <1>12, <1>13, TypeParts DEF ToolInv

LEMMA ServicesStep ==
  ASSUME ToolInv, Services
  PROVE  ToolInv'
<1>1. TypeOK /\ Pursuits /\ Handled /\ Served /\ ToolTypes /\ ServiceTypes
  BY TypeParts DEF ToolInv
<1>2. CASE \E r \in Requests : Decide(r)
  BY <1>2, Deciding
<1>3. CASE ~(\E r \in Requests : Decide(r))
  <2>1. UNCHANGED <<process, effects, inbox>>
    BY <1>3 DEF Services, Accept, Refuse, Read, Disconnect, Bind, Sweep, Expire, Crash, Restart,
                network, servers
  <2>2. Pursuits' /\ Handled' /\ ToolTypes'
    BY <1>1, <2>1, Standing, ToolTypesStand
  <2>3. asked \in [Requests -> {"no", "sent", "read", "over"}] /\ link \in [Requests -> Link]
    BY <1>1 DEF ServiceTypes
  <2>4. /\ asked' \in [Requests -> {"no", "sent", "read", "over"}]
        /\ \A r \in Requests : \/ asked'[r] = asked[r]
                               \/ asked[r] \in {"sent", "read"} /\ asked'[r] \in {"read", "over"}
    <3>1. CASE \E c \in Requests : Read(c)
      BY <2>3, <3>1 DEF Read
    <3>2. CASE \E c \in Requests : Disconnect(c)
      BY <2>3, <3>2 DEF Disconnect
    <3>3. CASE \E server \in Servers : Crash(server)
      BY <2>3, <3>3 DEF Crash
    <3>4. CASE UNCHANGED asked
      BY <2>3, <3>4
    <3>. QED
      BY <1>3, <3>1, <3>2, <3>3, <3>4
         DEF Services, Accept, Refuse, Bind, Sweep, Expire, Restart, servers, network
  <2>5. Served'
    <3>1. UNCHANGED <<pc, requests, effects, inbox>>
      BY <2>1 DEF process
    <3>. QED
      BY <1>1, <2>4, <3>1, Progressing
  <2>6. link' \in [Requests -> Link]
    <3>1. {"up", "refused", "gone", "ended"} \subseteq Link
      BY DEF Link
    <3>2. CASE \E c \in Requests : Accept(c) \/ Refuse(c) \/ Disconnect(c)
      BY <2>3, <3>1, <3>2 DEF Accept, Refuse, Disconnect
    <3>3. CASE Sweep
      BY <2>3, <3>1, <3>3 DEF Sweep
    <3>4. CASE \E server \in Servers : Crash(server)
      BY <2>3, <3>1, <3>4 DEF Crash
    <3>5. CASE UNCHANGED link
      BY <2>3, <3>5
    <3>. QED
      BY <1>3, <3>2, <3>3, <3>4, <3>5 DEF Services, Read, Bind, Expire, Restart, servers, network
  <2>7. inWorld' \in 0..MaxRequests
    <3>1. inWorld' = inWorld \/ inWorld' = 0
      BY <1>3 DEF Services, Accept, Refuse, Read, Disconnect, WithoutPlayer, Bind, Sweep, Expire,
                  Crash, Restart, servers
    <3>. QED
      BY <1>1, <3>1, Bounds DEF ServiceTypes
  <2>8. up' \subseteq Servers /\ crashes' \in 0..MaxCrashes
    <3>1. CASE \E server \in Servers : Crash(server)
      <4>1. crashes' = crashes + 1 /\ crashes < MaxCrashes /\ up' \subseteq up
        BY <3>1 DEF Crash
      <4>. QED
        BY <1>1, <4>1, Bounds DEF ServiceTypes
    <3>2. CASE \E server \in Servers : Restart(server)
      BY <1>1, <3>2 DEF Restart, ServiceTypes
    <3>3. CASE UNCHANGED <<up, crashes>>
      BY <1>1, <3>3 DEF ServiceTypes
    <3>. QED
      BY <1>3, <3>1, <3>2, <3>3
         DEF Services, Accept, Refuse, Read, Disconnect, Bind, Sweep, Expire, servers
  <2>9. /\ session' \in {"none", "valid", "expired", "redeemed"}
        /\ hello' \in {"none", "sent", "bound"}
    BY <1>1, <1>3 DEF ServiceTypes, Services, Accept, Refuse, Read, Disconnect, Bind, Sweep, Expire,
                      Crash, Restart, servers
  <2>10. ServiceTypes'
    BY <1>1, <2>1, <2>4, <2>6, <2>7, <2>8, <2>9 DEF ServiceTypes
  <2>. QED
    BY <2>2, <2>5, <2>10, TypeParts DEF ToolInv
<1>. QED
  BY <1>2, <1>3
-----------------------------------------------------------------------------
(* The ends of a request and of the process.                               *)

\* What is left after a set of objects is destroyed.
LEMMA Destroying ==
  ASSUME TypeOK, Handled, NEW gone \in SUBSET Objects, Destroy(gone)
  PROVE  /\ sockets' \in SocketState /\ OwnedOnce(sockets') /\ link' \in [Requests -> Link]
         /\ \A o \in Objects : valid(sockets', o) <=> valid(sockets, o) /\ o \notin gone
<1>1. sockets' = destroyed(sockets, gone) /\ sockets \in SocketState /\ link \in [Requests -> Link]
  BY DEF Destroy, TypeOK
<1>2. /\ sockets' \in SocketState /\ OwnedOnce(sockets')
      /\ \A o \in Objects : valid(sockets', o) <=> valid(sockets, o) /\ o \notin gone
  BY <1>1, DestroyedOwned DEF Handled
<1>3. "shut" \in Link
  BY DEF Link
<1>4. link' \in [Requests -> Link]
  BY <1>1, <1>3 DEF Destroy
<1>. QED
  BY <1>2, <1>4

\* A tool at rest has no socket.
AtRest == /\ sockets' \in SocketState /\ OwnedOnce(sockets') /\ link' \in [Requests -> Link]
          /\ \A o \in Objects : ~valid(sockets', o)

LEMMA Exiting ==
  ASSUME TypeOK, Handled, NEW code, Exit(code)
  PROVE  AtRest /\ pc' = "exited" /\ exitCode' = code
  BY Destroying DEF Exit, AtRest

\* The kinds of request whose objects are a socket and a stream.
LEMMA EndingCommand ==
  ASSUME TypeOK, Pursuits, Handled, program = "console", CommandOver
  PROVE  /\ AtRest /\ pc' \in {"exited", "prompt"} /\ exitCode' \in {0, 1}
<1>1. exitCode \in {0, 1}
  BY DEF TypeOK
<1>2. CASE oneShot
  BY <1>2, Exiting DEF CommandOver
<1>3. CASE ~oneShot
  <2>1. pc' = "prompt" /\ Destroy({"socket", "stream"}) /\ exitCode' = exitCode
    BY <1>3 DEF CommandOver
  <2>2. \A o \in Objects : valid(sockets, o) => o \in {"socket", "stream"}
    BY DEF Handled, Holds, Pursuits
  <2>3. {"socket", "stream"} \in SUBSET Objects
    BY Bounds
  <2>. QED
    BY <1>1, <2>1, <2>2, <2>3, Destroying DEF AtRest
<1>. QED
  BY <1>2, <1>3

\* After a request: at rest, or on with worldcli's next step.
LEMMA Telling ==
  ASSUME TypeOK, Pursuits, Handled, pc \in {"connecting", "awaiting"}, NEW outcome, Tell(outcome),
         outcome = "done" => pc = "awaiting"
  PROVE  /\ requests' = [requests EXCEPT ![current].told = outcome]
         /\ exitCode' \in {0, 1} /\ link' \in [Requests -> Link] /\ sockets' \in SocketState
         /\ program = "authcli" /\ exitCode' = 0 => outcome = "done"
         /\ \/ AtRest /\ pc' = "exited"
            \/ /\ AtRest /\ program = "console" /\ pc' \in {"prompt", "signedIn"}
               /\ request.kind \notin {"join", "logout"}
            \/ /\ program = "worldcli" /\ outcome = "done" /\ request.kind = "login"
               /\ pc' = "loggedIn" /\ UNCHANGED sockets
            \/ /\ program = "worldcli" /\ outcome = "done" /\ request.kind = "join"
               /\ pc' = "joined" /\ UNCHANGED sockets
<1>1. /\ requests' = [requests EXCEPT ![current].told = outcome]
      /\ sockets \in SocketState /\ link \in [Requests -> Link] /\ exitCode \in {0, 1}
  BY DEF Tell, TypeOK
<1>2. requests # << >>
  BY DEF Pursuits
<1>3. CASE request.kind = "logout"
  <2>1. program = "worldcli"
    BY <1>2, <1>3 DEF Pursuits
  <2>2. Exit(0) \/ Exit(1)
    BY <1>3 DEF Tell
  <2>. QED
    BY <1>1, <2>1, <2>2, Exiting DEF AtRest
<1>4. CASE request.kind # "logout" /\ outcome # "done"
  <2>1. Failed
    BY <1>4 DEF Tell
  <2>2. CASE program = "console" /\ request.kind # "login"
    <3>1. CommandOver
      BY <2>1, <2>2 DEF Failed
    <3>. QED
      BY <1>1, <1>2, <2>2, <3>1, EndingCommand DEF AtRest, Pursuits
  <2>3. CASE ~(program = "console" /\ request.kind # "login")
    <3>1. Exit(1)
      BY <2>1, <2>3 DEF Failed
    <3>. QED
      BY <1>1, <3>1, Exiting DEF AtRest
  <2>. QED
    BY <2>2, <2>3
<1>5. CASE request.kind # "logout" /\ outcome = "done"
  <2>1. Succeeded
    BY <1>5 DEF Tell
  <2>2. CASE program = "authcli"
    <3>1. Exit(0)
      BY <2>1, <2>2 DEF Succeeded
    <3>. QED
      BY <1>1, <1>5, <3>1, Exiting DEF AtRest
  <2>3. CASE program = "worldcli" /\ request.kind = "login"
    BY <1>1, <1>5, <2>1, <2>3 DEF Succeeded
  <2>4. CASE program = "worldcli" /\ request.kind = "join"
    BY <1>1, <1>5, <2>1, <2>4 DEF Succeeded
  <2>5. CASE program = "console" /\ request.kind = "login"
    <3>1. pc' = "signedIn" /\ Destroy({"socket", "stream"}) /\ exitCode' = exitCode
      BY <2>1, <2>5 DEF Succeeded
    <3>2. \A o \in Objects : valid(sockets, o) => o \in {"socket", "stream"}
      BY <2>5 DEF Handled, Holds, Pursuits
    <3>3. {"socket", "stream"} \in SUBSET Objects
      BY Bounds
    <3>4. AtRest
      BY <3>1, <3>2, <3>3, Destroying DEF AtRest
    <3>. QED
      BY <1>1, <2>5, <3>1, <3>4 DEF AtRest
  <2>6. CASE program = "console" /\ request.kind # "login"
    <3>1. CommandOver
      BY <2>1, <2>6 DEF Succeeded
    <3>. QED
      BY <1>1, <1>2, <2>6, <3>1, EndingCommand DEF AtRest, Pursuits
  <2>7. program = "worldcli" => request.kind \in {"login", "join", "logout"}
    BY <1>2 DEF Pursuits
  <2>. QED
    BY <1>5, <2>2, <2>3, <2>4, <2>5, <2>6, <2>7 DEF TypeOK
<1>. QED
  BY <1>3, <1>4, <1>5
-----------------------------------------------------------------------------
(* The list of requests.                                                   *)

LEMMA Requested ==
  ASSUME TypeOK, current < MaxRequests, NEW q \in Request, requests' = Append(requests, q)
  PROVE  /\ requests' \in Seq(Request) /\ requests' # << >> /\ current' = current + 1
         /\ current' <= MaxRequests /\ current + 1 \in Requests
         /\ \A r \in 1..current : requests'[r] = requests[r]
         /\ requests'[current + 1] = q /\ request' = q
<1>1. requests \in Seq(Request) /\ current = Len(requests) /\ current \in Nat
  BY DEF TypeOK, current
<1>2. /\ requests' \in Seq(Request) /\ Len(requests') = current + 1
      /\ \A r \in 1..current : requests'[r] = requests[r]
      /\ requests'[current + 1] = q
  BY <1>1
<1>3. current + 1 \in Requests /\ current + 1 <= MaxRequests
  BY <1>1, Bounds DEF Requests
<1>4. current' = current + 1
  BY <1>2 DEF current
<1>5. request' = q
  BY <1>2, <1>4 DEF request
<1>6. requests' # << >>
  BY <1>1, <1>2
<1>. QED
  BY <1>2, <1>3, <1>4, <1>5, <1>6

Outcomes == {"done", "refused", "expired", "unreachable", "silent"}

LEMMA Retold ==
  ASSUME TypeOK, requests # << >>, NEW outcome \in Outcomes,
         requests' = [requests EXCEPT ![current].told = outcome]
  PROVE  /\ requests' \in Seq(Request) /\ requests' # << >> /\ current' = current
         /\ \A r \in 1..current : r # current => requests'[r] = requests[r]
         /\ requests'[current] = request' /\ request'.told = outcome
         /\ request'.kind = request.kind /\ request'.conn = request.conn
<1>1. /\ requests \in Seq(Request) /\ current = Len(requests) /\ current \in 1..current
      /\ request = requests[current] /\ request \in Request /\ current \in Nat
  BY Numbers DEF TypeOK, current, request
<1>. DEFINE q == [request EXCEPT !.told = outcome]
<1>2. q \in Request /\ q.told = outcome /\ q.kind = request.kind /\ q.conn = request.conn
  BY <1>1 DEF Request, Outcomes
<1>3. requests' = [requests EXCEPT ![current] = q]
  BY <1>1
<1>. HIDE DEF q
<1>4. requests' \in Seq(Request) /\ Len(requests') = current /\ requests'[current] = q
      /\ \A r \in 1..current : r # current => requests'[r] = requests[r]
  BY <1>1, <1>2, <1>3
<1>5. current' = current /\ request' = q
  BY <1>4 DEF current, request
<1>6. requests' # << >>
  BY <1>1, <1>4
<1>. QED
  BY <1>2, <1>4, <1>5, <1>6
-----------------------------------------------------------------------------
(* A new request.                                                          *)

\* Where a request of a kind is made.
Asks(kind) ==
  /\ kind \in Kinds \ {"logout"}
  /\ \/ program = "console" /\ kind # "join" /\ pc \in {"start", "signedIn", "prompt", "confirm"}
     \/ program = "authcli" /\ kind # "join" /\ pc = "start"
     \/ program = "worldcli" /\ kind = "login" /\ pc = "start"
     \/ program = "worldcli" /\ kind = "join" /\ pc = "loggedIn"

\* The servers' part of the invariant, with one more request nobody has read.
LEMMA OneMore ==
  ASSUME ToolInv, current < MaxRequests, NEW q \in Request, requests' = Append(requests, q),
         q.conn = current + 1, q.told \in {"nothing", "unreachable"}, UNCHANGED <<inbox, servers>>,
         pc \notin {"awaiting", "exited"}, pc' \notin {"awaiting", "joined", "listening"},
         pc' = "connecting" => q.told = "nothing"
  PROVE  Served'
<1>1. TypeOK /\ Served
  BY DEF ToolInv
<1>2. /\ current' = current + 1 /\ current + 1 \in Requests
      /\ \A r \in 1..current : requests'[r] = requests[r]
      /\ requests'[current + 1] = q /\ request' = q
  BY <1>1, Requested
<1>3. asked' = asked /\ effects' = effects /\ inbox' = inbox
  BY DEF servers
<1>4. current \in Nat
  BY <1>1, Numbers
<1>5. asked[current + 1] = "no" /\ effects[current + 1] = 0 /\ inbox[current + 1] = << >>
  <2>1. current + 1 > current
    BY <1>4
  <2>. QED
    BY <1>1, <1>2, <2>1 DEF Served
<1>6. ASSUME NEW r \in 1..(current + 1) PROVE Truthful(r)' /\ OwnConnection(r)'
  <2>1. CASE r = current + 1
    <3>1. requests'[r] = q /\ effects'[r] = 0 /\ asked'[r] = "no" /\ q.conn = r
      BY <1>2, <1>3, <1>5, <2>1
    <3>2. Truthful(r)'
      BY <3>1 DEF Truthful
    <3>3. OwnConnection(r)'
      BY <3>1 DEF OwnConnection
    <3>. QED
      BY <3>2, <3>3
  <2>2. CASE r # current + 1
    <3>1. r \in 1..current
      BY <1>4, <2>2
    <3>2. Truthful(r) /\ requests[r].conn = r
      BY <1>1, <3>1 DEF Served, OwnConnection
    <3>. QED
      BY <1>2, <1>3, <3>1, <3>2 DEF Truthful, OwnConnection
  <2>. QED
    BY <2>1, <2>2
<1>7. \A r \in Requests : r > current + 1 => r > current
  BY <1>4 DEF Requests
<1>8. (\A r \in Requests : r > current => asked[r] = "no" /\ effects[r] = 0 /\ inbox[r] = << >>)'
  BY <1>1, <1>2, <1>3, <1>7 DEF Served
<1>. QED
  BY <1>2, <1>3, <1>5, <1>6, <1>8 DEF Served

LEMMA Connecting ==
  ASSUME ToolInv, NEW kind, Asks(kind), Connect(kind)
  PROVE  ToolInv'
<1>1. TypeOK /\ Pursuits /\ Handled /\ Served /\ ToolTypes /\ ServiceTypes
  BY TypeParts DEF ToolInv
<1>2. current < MaxRequests /\ UNCHANGED <<program, oneShot, waited, heard, inbox, servers>>
  BY DEF Connect
<1>3. current \in Nat /\ current + 1 \in Requests
  BY <1>1, <1>2, Numbers, Bounds DEF Requests
<1>4. kind \in Kinds
  BY DEF Asks
<1>5. program = "authcli" => current = 0
  BY <1>1 DEF Asks, Pursuits, current
<1>6. pc \notin {"awaiting", "exited", "connecting"}
  BY DEF Asks
<1>7. UNCHANGED <<asked, effects, session, inWorld, hello, up, crashes>>
  BY <1>2 DEF servers
<1>8. CASE /\ sockets' = opened(sockets, SocketOf(kind))
           /\ requests' = Append(requests, [kind |-> kind, conn |-> current + 1, told |-> "nothing",
                                            handle |-> sockets'.mHandle[SocketOf(kind)]])
           /\ link' = [link EXCEPT ![current + 1] = "pending"]
           /\ pc' = "connecting"
           /\ UNCHANGED exitCode
  <2>. DEFINE obj == SocketOf(kind)
              h == sockets'.mHandle[obj]
              q == [kind |-> kind, conn |-> current + 1, told |-> "nothing", handle |-> h]
  <2>1. obj \in {"socket", "worldSocket"} /\ obj \in Objects /\ "stream" \in Objects
    BY Bounds DEF SocketOf
  <2>2. \A o \in Objects : valid(sockets, o) <=> o = "stream" /\ kind = "join"
    BY <1>1 DEF Handled, Holds, Asks
  <2>3. /\ sockets' \in SocketState /\ OwnedOnce(sockets')
        /\ \A o \in Objects : valid(sockets', o) <=> o = obj \/ valid(sockets, o)
    <3>1. /\ sockets \in SocketState /\ OwnedOnce(sockets) /\ ~valid(sockets, obj)
          /\ \A o \in Objects : valid(sockets, o) => o \in {"stream", "stream"}
      BY <1>1, <2>1, <2>2 DEF Handled, TypeOK
    <3>2. sockets' = opened(sockets, obj)
      BY <1>8
    <3>. HIDE DEF obj
    <3>. QED
      BY <2>1, <3>1, <3>2, OpenedOwned
  <2>4. h \in Handles \cup {kInvalidSocket}
    BY <2>1, <2>3, StateFields
  <2>. HIDE DEF h
  <2>5. q \in Request /\ q.conn = current + 1 /\ q.told = "nothing" /\ q.kind = kind
    BY <1>3, <1>4, <2>4 DEF Request
  <2>6. requests' = Append(requests, q)
    BY <1>8 DEF h
  <2>. HIDE DEF q
  <2>7. /\ requests' \in Seq(Request) /\ requests' # << >> /\ current' = current + 1
        /\ current' <= MaxRequests /\ request' = q
    BY <1>1, <1>2, <2>5, <2>6, Requested
  <2>8. Served'
    BY <1>2, <1>6, <1>8, <2>5, <2>6, OneMore
  <2>9. Pursuits'
    BY <1>2, <1>5, <1>8, <2>5, <2>7 DEF Pursuits, Asks
  <2>10. Handled'
    <3>1. \A o \in Objects : Holds(o)' <=> o = obj \/ (o = "stream" /\ kind = "join")
      BY <1>8, <2>5, <2>7 DEF Holds, SocketOf
    <3>. QED
      BY <2>2, <2>3, <3>1 DEF Handled
  <2>11. TypeOK'
    <3>1. ToolTypes'
      BY <1>1, <1>2, <1>8, <2>3, <2>7 DEF ToolTypes, Pcs
    <3>2. link' \in [Requests -> Link]
      BY <1>1, <1>8 DEF ServiceTypes, Link
    <3>3. ServiceTypes'
      BY <1>1, <1>2, <1>7, <3>2 DEF ServiceTypes
    <3>. QED
      BY <3>1, <3>3, TypeParts
  <2>. QED
    BY <2>8, <2>9, <2>10, <2>11 DEF ToolInv
<1>9. CASE /\ requests' = Append(requests, [kind |-> kind, conn |-> current + 1,
                                            told |-> "unreachable", handle |-> kInvalidSocket])
           /\ IF program = "console" /\ kind # "login" THEN CommandOver ELSE Exit(1)
  <2>. DEFINE q == [kind |-> kind, conn |-> current + 1, told |-> "unreachable",
                    handle |-> kInvalidSocket]
  <2>1. q \in Request /\ q.conn = current + 1 /\ q.told = "unreachable" /\ q.kind = kind
    BY <1>3, <1>4 DEF Request
  <2>2. requests' = Append(requests, q)
    BY <1>9
  <2>. HIDE DEF q
  <2>3. /\ requests' \in Seq(Request) /\ requests' # << >> /\ current' = current + 1
        /\ current' <= MaxRequests /\ request' = q
    BY <1>1, <1>2, <2>1, <2>2, Requested
  <2>4. /\ AtRest /\ exitCode' \in {0, 1}
        /\ pc' = "exited" \/ (program = "console" /\ pc' = "prompt")
        /\ program = "authcli" => exitCode' = 1
    BY <1>1, <1>9, Exiting, EndingCommand
  <2>5. Served'
    BY <1>2, <1>6, <2>1, <2>2, <2>4, OneMore
  <2>6. Pursuits'
    BY <1>2, <1>5, <2>1, <2>3, <2>4 DEF Pursuits, Asks
  <2>7. Handled'
    BY <2>4 DEF Handled, Holds, AtRest
  <2>8. TypeOK'
    <3>1. ToolTypes'
      BY <1>1, <1>2, <2>3, <2>4 DEF ToolTypes, Pcs, AtRest
    <3>2. ServiceTypes'
      BY <1>1, <1>2, <1>7, <2>4 DEF ServiceTypes, AtRest
    <3>. QED
      BY <3>1, <3>2, TypeParts
  <2>. QED
    BY <2>5, <2>6, <2>7, <2>8 DEF ToolInv
<1>. QED
  BY <1>8, <1>9 DEF Connect
-----------------------------------------------------------------------------
(* The end of a request.                                                   *)

LEMMA Settling ==
  ASSUME ToolInv, pc \in {"connecting", "awaiting"}, NEW outcome \in Outcomes, Tell(outcome),
         outcome = "done" => pc = "awaiting",
         outcome = "done" => effects[current] = 1 /\ inbox'[request.conn] = << >>,
         outcome \in {"refused", "expired", "unreachable"} =>
           effects[current] = 0 /\ asked[current] \in {"no", "over"},
         inbox' \in [Requests -> Seq({"done", "refused", "expired"})],
         \A c \in Requests : c # request.conn => inbox'[c] = inbox[c],
         UNCHANGED <<program, oneShot, waited, heard, servers>>
  PROVE  ToolInv'
<1>1. TypeOK /\ Pursuits /\ Handled /\ Served /\ ToolTypes /\ ServiceTypes
  BY TypeParts DEF ToolInv
<1>2. requests # << >>
  BY <1>1 DEF Pursuits
<1>3. /\ current \in Nat /\ current \in 1..current /\ 1..current \subseteq Requests
      /\ Requests \subseteq Nat /\ request = requests[current]
  BY <1>1, <1>2, Numbers DEF request
<1>4. UNCHANGED <<asked, effects, session, inWorld, hello, up, crashes>>
  BY DEF servers
<1>5. /\ requests' = [requests EXCEPT ![current].told = outcome]
      /\ exitCode' \in {0, 1} /\ link' \in [Requests -> Link] /\ sockets' \in SocketState
      /\ program = "authcli" /\ exitCode' = 0 => outcome = "done"
      /\ \/ AtRest /\ pc' = "exited"
         \/ /\ AtRest /\ program = "console" /\ pc' \in {"prompt", "signedIn"}
            /\ request.kind \notin {"join", "logout"}
         \/ /\ program = "worldcli" /\ outcome = "done" /\ request.kind = "login"
            /\ pc' = "loggedIn" /\ UNCHANGED sockets
         \/ /\ program = "worldcli" /\ outcome = "done" /\ request.kind = "join"
            /\ pc' = "joined" /\ UNCHANGED sockets
  BY <1>1, Telling
<1>6. /\ requests' \in Seq(Request) /\ requests' # << >> /\ current' = current
      /\ \A r \in 1..current : r # current => requests'[r] = requests[r]
      /\ requests'[current] = request' /\ request'.told = outcome
      /\ request'.kind = request.kind /\ request'.conn = request.conn
  BY <1>1, <1>2, <1>5, Retold
<1>7. TypeOK'
  <2>1. pc' \in Pcs
    BY <1>5 DEF Pcs
  <2>2. ToolTypes'
    BY <1>1, <1>5, <1>6, <2>1 DEF ToolTypes
  <2>3. ServiceTypes'
    BY <1>1, <1>4, <1>5 DEF ServiceTypes
  <2>. QED
    BY <2>2, <2>3, TypeParts
<1>8. Pursuits'
  <2>1. (program = "authcli" /\ pc = "exited" /\ exitCode = 0 =>
           requests # << >> /\ requests[1].told = "done")'
    <3>1. program = "authcli" => current = 1
      BY <1>1, <1>2 DEF Pursuits
    <3>. QED
      BY <1>5, <1>6, <3>1
  <2>. QED
    BY <1>1, <1>2, <1>5, <1>6, <2>1 DEF Pursuits
<1>9. Handled'
  <2>1. CASE AtRest /\ pc' \in {"exited", "prompt", "signedIn"}
    BY <2>1 DEF AtRest, Handled, Holds
  <2>2. CASE /\ program = "worldcli" /\ outcome = "done" /\ request.kind = "login"
             /\ pc' = "loggedIn" /\ UNCHANGED sockets
    BY <1>1, <1>6, <2>2 DEF Handled, Holds
  <2>3. CASE /\ program = "worldcli" /\ outcome = "done" /\ request.kind = "join"
             /\ pc' = "joined" /\ UNCHANGED sockets
    BY <1>1, <1>6, <2>3 DEF Handled, Holds
  <2>. QED
    BY <1>5, <2>1, <2>2, <2>3
<1>10. Served'
  <2>1. ASSUME NEW r \in 1..current PROVE Truthful(r)'
    <3>1. Truthful(r)
      BY <1>1 DEF Served
    <3>2. CASE r # current
      BY <1>4, <1>6, <3>1, <3>2 DEF Truthful
    <3>3. CASE r = current
      <4>1. requests'[r].told = outcome /\ asked'[r] = asked[r] /\ effects'[r] = effects[r]
        BY <1>4, <1>6, <3>3
      <4>. QED
        BY <3>1, <3>3, <4>1 DEF Truthful
    <3>. QED
      BY <3>2, <3>3
  <2>2. ASSUME NEW r \in 1..current PROVE OwnConnection(r)'
    <3>1. OwnConnection(r) /\ requests'[r].conn = requests[r].conn
      BY <1>1, <1>3, <1>6 DEF Served
    <3>2. CASE requests[r].conn = r
      BY <3>1, <3>2 DEF OwnConnection
    <3>3. CASE requests[r].conn # r
      <4>1. r = current
        BY <1>3, <3>1, <3>3 DEF OwnConnection
      <4>2. request.kind = "logout" /\ requests'[r].kind = "logout"
        BY <1>3, <1>6, <3>1, <3>3, <4>1 DEF OwnConnection
      <4>3. pc' = "exited"
        BY <1>5, <4>2
      <4>. QED
        BY <1>4, <1>6, <3>1, <3>3, <4>2, <4>3 DEF OwnConnection
    <3>. QED
      BY <3>2, <3>3
  <2>3. ASSUME NEW r \in Requests, r > current
        PROVE  asked'[r] = "no" /\ effects'[r] = 0 /\ inbox'[r] = << >>
    <3>1. OwnConnection(current)
      BY <1>1, <1>3 DEF Served
    <3>2. r # request.conn
      BY <1>3, <2>3, <3>1 DEF OwnConnection
    <3>. QED
      BY <1>1, <1>4, <2>3, <3>2 DEF Served
  <2>4. pc' = "joined" => inbox'[current] = << >> /\ request'.told = "done" /\ request'.conn = current
    <3>. SUFFICES ASSUME pc' = "joined" PROVE inbox'[current] = << >> /\ request.conn = current
      BY <1>5, <1>6
    <3>1. outcome = "done" /\ request.kind = "join"
      BY <1>5
    <3>2. request.conn = current
      <4>1. OwnConnection(current)
        BY <1>1, <1>3 DEF Served
      <4>. QED
        BY <1>3, <3>1, <4>1 DEF OwnConnection
    <3>. QED
      BY <3>1, <3>2
  <2>5. pc' \notin {"connecting", "awaiting", "listening"}
    BY <1>5
  <2>. QED
    BY <1>6, <2>1, <2>2, <2>3, <2>4, <2>5 DEF Served
<1>. QED
  BY <1>7, <1>8, <1>9, <1>10 DEF ToolInv

LEMMA Ending ==
  ASSUME ToolInv, Unreachable \/ Answered \/ GiveUp
  PROVE  ToolInv'
<1>1. TypeOK /\ Pursuits /\ Handled /\ Served /\ ToolTypes /\ ServiceTypes
  BY TypeParts DEF ToolInv
<1>2. inbox \in [Requests -> Seq({"done", "refused", "expired"})]
  BY <1>1 DEF ServiceTypes
<1>3. pc \in {"connecting", "awaiting"} =>
        /\ current \in 1..current /\ request = requests[current] /\ request.conn \in Requests
        /\ Truthful(current)
  BY <1>1, Numbers DEF Pursuits, request, Served
<1>4. CASE Unreachable
  <2>1. /\ pc = "connecting" /\ Tell("unreachable")
        /\ UNCHANGED <<program, oneShot, waited, heard, inbox, servers>>
    BY <1>4 DEF Unreachable
  <2>2. effects[current] = 0 /\ asked[current] = "no"
    BY <1>1, <1>3, <2>1 DEF Served, Truthful
  <2>3. "unreachable" \in Outcomes
    BY DEF Outcomes
  <2>. QED
    BY <1>2, <2>1, <2>2, <2>3, Settling
<1>5. CASE GiveUp
  <2>1. /\ pc = "awaiting" /\ Tell("silent")
        /\ UNCHANGED <<program, oneShot, waited, heard, inbox, servers>>
    BY <1>5 DEF GiveUp, Silence
  <2>2. "silent" \in Outcomes
    BY DEF Outcomes
  <2>. QED
    BY <1>2, <2>1, <2>2, Settling
<1>6. CASE Answered
  <2>. DEFINE box == inbox[request.conn]
  <2>1. /\ pc = "awaiting" /\ Tell(Head(box)) /\ box # << >>
        /\ inbox' = [inbox EXCEPT ![request.conn] = Tail(box)]
        /\ UNCHANGED <<program, oneShot, waited, heard, servers>>
    BY <1>6 DEF Answered, Heard
  <2>2. AnswerTo(current, box) /\ request.conn \in Requests
    BY <1>1, <1>3, <2>1 DEF Served
  <2>3. box \in Seq({"done", "refused", "expired"})
    BY <1>2, <2>2
  <2>4. inbox' \in [Requests -> Seq({"done", "refused", "expired"})]
        /\ inbox'[request.conn] = Tail(box)
        /\ \A c \in Requests : c # request.conn => inbox'[c] = inbox[c]
    <3>1. Tail(box) \in Seq({"done", "refused", "expired"})
      BY <2>1, <2>3
    <3>. QED
      BY <1>2, <2>1, <2>2, <3>1
  <2>. HIDE DEF box
  <2>5. Len(box) = 1 /\ asked[current] = "over" /\ effects[current] = IF box[1] = "done" THEN 1 ELSE 0
    BY <2>1, <2>2 DEF AnswerTo
  <2>6. Tail(box) = << >> /\ Head(box) = box[1] /\ Head(box) \in {"done", "refused", "expired"}
    <3>1. /\ Tail(box) \in Seq({"done", "refused", "expired"}) /\ Len(Tail(box)) = Len(box) - 1
          /\ Head(box) = box[1] /\ box[1] \in {"done", "refused", "expired"}
      BY <2>1, <2>3
    <3>2. Len(Tail(box)) = 0
      BY <2>5, <3>1
    <3>3. \A t \in Seq({"done", "refused", "expired"}) : Len(t) = 0 => t = << >>
      OBVIOUS
    <3>. QED
      BY <3>1, <3>2, <3>3
  <2>7. Head(box) \in Outcomes
    BY <2>6 DEF Outcomes
  <2>8. /\ Head(box) = "done" => effects[current] = 1 /\ inbox'[request.conn] = << >>
        /\ Head(box) \in {"refused", "expired", "unreachable"} =>
             effects[current] = 0 /\ asked[current] \in {"no", "over"}
    BY <2>4, <2>5, <2>6
  <2>. QED
    BY <2>1, <2>4, <2>7, <2>8, Settling
<1>. QED
  BY <1>4, <1>5, <1>6
-----------------------------------------------------------------------------
(* The other steps of a tool.                                              *)

LEMMA Sending ==
  ASSUME ToolInv, Send
  PROVE  ToolInv'
<1>1. TypeOK /\ Pursuits /\ Handled /\ Served /\ ToolTypes /\ ServiceTypes
  BY TypeParts DEF ToolInv
<1>2. /\ pc = "connecting" /\ pc' = "awaiting" /\ waited' = 0
      /\ sockets' = moved(sockets, StreamOf(request.kind), SocketOf(request.kind))
      /\ asked' = [asked EXCEPT ![current] = IF sends(link[current]) THEN "sent" ELSE "no"]
      /\ UNCHANGED <<program, oneShot, exitCode, requests, heard, link, inbox, effects, session,
                     inWorld, hello, up, crashes>>
  BY DEF Send, network
<1>3. current' = current /\ request' = request
  BY <1>2 DEF current, request
<1>4. /\ current \in Nat /\ current \in 1..current /\ 1..current \subseteq Requests
      /\ Requests \subseteq Nat /\ request = requests[current]
  BY <1>1, <1>2, Numbers DEF request, Pursuits
<1>5. /\ sockets' \in SocketState /\ OwnedOnce(sockets')
      /\ \A o \in Objects : valid(sockets', o) <=>
           o = StreamOf(request.kind) \/ (valid(sockets, o) /\ o # SocketOf(request.kind))
  <2>1. /\ StreamOf(request.kind) \in Objects /\ SocketOf(request.kind) \in Objects
        /\ StreamOf(request.kind) # SocketOf(request.kind)
        /\ valid(sockets, SocketOf(request.kind)) /\ ~valid(sockets, StreamOf(request.kind))
    BY <1>1, <1>2, Bounds DEF Handled, Holds, StreamOf, SocketOf
  <2>2. sockets \in SocketState /\ OwnedOnce(sockets)
    BY <1>1 DEF Handled, TypeOK
  <2>. QED
    BY <1>2, <2>1, <2>2, MovedOwned
<1>6. Handled'
  <2>1. \A o \in Objects : Holds(o)' <=>
           o = StreamOf(request.kind) \/ (Holds(o) /\ o # SocketOf(request.kind))
    BY <1>1, <1>2, <1>3 DEF Holds, StreamOf, SocketOf, Pursuits
  <2>. QED
    BY <1>1, <1>5, <2>1 DEF Handled
<1>7. Pursuits'
  BY <1>1, <1>2, <1>3 DEF Pursuits
<1>8. asked' \in [Requests -> {"no", "sent", "read", "over"}]
      /\ asked'[current] \in {"no", "sent"}
      /\ \A r \in Requests : r # current => asked'[r] = asked[r]
  BY <1>1, <1>2, <1>4 DEF ServiceTypes
<1>9. TypeOK'
  <2>1. ToolTypes'
    BY <1>1, <1>2, <1>3, <1>5, Bounds DEF ToolTypes, Pcs
  <2>2. ServiceTypes'
    BY <1>1, <1>2, <1>8 DEF ServiceTypes
  <2>. QED
    BY <2>1, <2>2, TypeParts
<1>10. Served'
  <2>1. /\ asked[current] = "no" /\ inbox[current] = << >>
        /\ request.told = "nothing" /\ request.conn = current
    BY <1>1, <1>2 DEF Served
  <2>2. ASSUME NEW r \in 1..current PROVE Truthful(r)' /\ OwnConnection(r)'
    <3>1. Truthful(r) /\ OwnConnection(r)
      BY <1>1 DEF Served
    <3>2. requests[r].conn = r
      BY <1>2, <3>1 DEF OwnConnection
    <3>3. CASE r = current
      BY <1>2, <1>3, <1>4, <1>8, <2>1, <3>1, <3>2, <3>3 DEF Truthful, OwnConnection
    <3>4. CASE r # current
      BY <1>2, <1>3, <1>4, <1>8, <3>1, <3>2, <3>4 DEF Truthful, OwnConnection
    <3>. QED
      BY <3>3, <3>4
  <2>3. \A r \in Requests : r > current => asked'[r] = "no" /\ effects'[r] = 0 /\ inbox'[r] = << >>
    <3>1. \A r \in Requests : r > current => r # current
      BY <1>4
    <3>. QED
      BY <1>1, <1>2, <1>8, <3>1 DEF Served
  <2>4. request'.told = "nothing" /\ AnswerTo(current, inbox[request.conn])'
    BY <1>2, <1>3, <2>1 DEF AnswerTo
  <2>. QED
    BY <1>2, <1>3, <2>2, <2>3, <2>4 DEF Served
<1>. QED
  BY <1>6, <1>7, <1>9, <1>10 DEF ToolInv

LEMMA LoggingOut ==
  ASSUME ToolInv, Logout
  PROVE  ToolInv'
<1>. DEFINE q == [kind |-> "logout", conn |-> current, told |-> "nothing", handle |-> kInvalidSocket]
<1>1. TypeOK /\ Pursuits /\ Handled /\ Served /\ ToolTypes /\ ServiceTypes
  BY TypeParts DEF ToolInv
<1>2. /\ pc = "listening" /\ pc' = "awaiting" /\ waited' = 0 /\ current < MaxRequests
      /\ requests' = Append(requests, q)
      /\ asked' = [asked EXCEPT ![current + 1] = IF sends(link[current]) THEN "sent" ELSE "no"]
      /\ UNCHANGED <<program, oneShot, exitCode, sockets, heard, link, inbox, effects, session,
                     inWorld, hello, up, crashes>>
  BY DEF Logout, network
<1>3. /\ current \in Nat /\ current \in 1..current /\ 1..current \subseteq Requests
      /\ Requests \subseteq Nat /\ request = requests[current]
  BY <1>1, <1>2, Numbers DEF request, Pursuits
<1>4. q \in Request /\ q.conn = current /\ q.told = "nothing" /\ q.kind = "logout"
  BY <1>3 DEF Request, Kinds
<1>. HIDE DEF q
<1>5. /\ requests' \in Seq(Request) /\ requests' # << >> /\ current' = current + 1
      /\ current' <= MaxRequests /\ current + 1 \in Requests
      /\ \A r \in 1..current : requests'[r] = requests[r]
      /\ requests'[current + 1] = q /\ request' = q
  BY <1>1, <1>2, <1>4, Requested
<1>6. asked' \in [Requests -> {"no", "sent", "read", "over"}]
      /\ asked'[current + 1] \in {"no", "sent"}
      /\ \A r \in Requests : r # current + 1 => asked'[r] = asked[r]
  BY <1>1, <1>2, <1>5 DEF ServiceTypes
<1>7. program = "worldcli" /\ Pursuits'
  BY <1>1, <1>2, <1>4, <1>5 DEF Pursuits
<1>8. Handled'
  BY <1>1, <1>2, <1>4, <1>5 DEF Handled, Holds
<1>9. TypeOK'
  <2>1. ToolTypes'
    BY <1>1, <1>2, <1>5, Bounds DEF ToolTypes, Pcs
  <2>2. ServiceTypes'
    BY <1>1, <1>2, <1>6 DEF ServiceTypes
  <2>. QED
    BY <2>1, <2>2, TypeParts
<1>10. Served'
  <2>1. inbox[current] = << >> /\ request.told = "done"
    BY <1>1, <1>2 DEF Served
  <2>2. asked[current] = "over"
    <3>1. Truthful(current)
      BY <1>1, <1>3 DEF Served
    <3>. QED
      BY <1>3, <2>1, <3>1 DEF Truthful
  <2>3. effects[current + 1] = 0
    <3>1. current + 1 > current
      BY <1>3
    <3>. QED
      BY <1>1, <1>5, <3>1 DEF Served
  <2>4. \A r \in 1..(current + 1) : r = current + 1 \/ (r \in 1..current /\ r # current + 1)
    BY <1>3
  <2>5. ASSUME NEW r \in 1..(current + 1) PROVE Truthful(r)' /\ OwnConnection(r)'
    <3>1. CASE r = current + 1
      <4>1. /\ requests'[r] = q /\ effects'[r] = 0 /\ asked'[r] \in {"no", "sent"}
            /\ r - 1 = current /\ r > 1 /\ r = current'
        <5>1. requests'[r] = q /\ effects'[r] = 0 /\ asked'[r] \in {"no", "sent"} /\ r = current'
          BY <1>2, <1>5, <1>6, <2>3, <3>1
        <5>2. r - 1 = current /\ r > 1
          BY <1>3, <3>1
        <5>. QED
          BY <5>1, <5>2
      <4>2. Truthful(r)'
        BY <1>4, <4>1 DEF Truthful
      <4>3. asked'[r - 1] = "over"
        <5>1. current # current + 1 /\ current \in Requests
          BY <1>3
        <5>. QED
          BY <1>6, <2>2, <4>1, <5>1
      <4>4. OwnConnection(r)'
        BY <1>2, <1>4, <4>1, <4>3 DEF OwnConnection
      <4>. QED
        BY <4>2, <4>4
    <3>2. CASE r \in 1..current /\ r # current + 1
      <4>1. Truthful(r) /\ requests[r].conn = r
        BY <1>1, <1>2, <3>2 DEF Served, OwnConnection
      <4>2. requests'[r] = requests[r] /\ asked'[r] = asked[r] /\ effects'[r] = effects[r]
        BY <1>2, <1>3, <1>5, <1>6, <3>2
      <4>. QED
        BY <4>1, <4>2 DEF Truthful, OwnConnection
    <3>. QED
      BY <2>4, <3>1, <3>2
  <2>6. \A r \in Requests : r > current + 1 => asked'[r] = "no" /\ effects'[r] = 0 /\ inbox'[r] = << >>
    <3>1. \A r \in Requests : r > current + 1 => r > current /\ r # current + 1
      BY <1>3
    <3>. QED
      BY <1>1, <1>2, <1>6, <3>1 DEF Served
  <2>7. request'.told = "nothing" /\ AnswerTo(current, inbox[request.conn])'
    BY <1>2, <1>4, <1>5, <2>1 DEF AnswerTo
  <2>. QED
    BY <1>2, <1>5, <2>5, <2>6, <2>7 DEF Served
<1>. QED
  BY <1>7, <1>8, <1>9, <1>10 DEF ToolInv

\* Steps that leave requests and servers alone.
LEMMA SameRequests ==
  ASSUME Served, UNCHANGED <<requests, inbox, asked, effects>>,
         \/ pc' = pc
         \/ pc' \in {"exited", "prompt", "confirm"} /\ pc \notin {"awaiting", "exited"}
         \/ pc = "joined" /\ pc' = "listening"
  PROVE  Served'
<1>1. current' = current /\ request' = request
  BY DEF current, request
<1>2. \A r \in 1..current : Truthful(r)'
  BY DEF Served, Truthful
<1>3. \A r \in 1..current : OwnConnection(r)'
  <2>1. CASE pc' = pc
    BY <1>1, <2>1 DEF Served, OwnConnection
  <2>2. CASE pc' # pc
    BY <2>2 DEF Served, OwnConnection
  <2>. QED
    BY <2>1, <2>2
<1>4. AnswerTo(current, inbox[request.conn]) => AnswerTo(current, inbox[request.conn])'
  BY <1>1 DEF AnswerTo
<1>. QED
  BY <1>1, <1>2, <1>3, <1>4 DEF Served

LEMMA Leaving ==
  ASSUME ToolInv, NoCredentials \/ Quit \/ NoUdp \/ (Abort /\ oneShot)
  PROVE  ToolInv'
<1>1. TypeOK /\ Pursuits /\ Handled /\ Served /\ ToolTypes /\ ServiceTypes
  BY TypeParts DEF ToolInv
<1>2. /\ Exit(0) \/ Exit(1)
      /\ UNCHANGED <<program, oneShot, requests, waited, heard, inbox, servers>>
      /\ pc \in {"start", "prompt", "signedIn", "confirm", "joined"} /\ program # "authcli"
  BY <1>1 DEF NoCredentials, Quit, NoUdp, Abort, AtPrompt, Pursuits
<1>3. AtRest /\ pc' = "exited" /\ exitCode' \in {0, 1}
  BY <1>1, <1>2, Exiting
<1>4. UNCHANGED <<asked, effects, session, inWorld, hello, up, crashes>>
  BY <1>2 DEF servers
<1>5. current' = current /\ request' = request
  BY <1>2 DEF current, request
<1>6. Served'
  BY <1>1, <1>2, <1>3, <1>4, SameRequests
<1>7. Pursuits' /\ Handled'
  BY <1>1, <1>2, <1>3, <1>5 DEF Pursuits, Handled, Holds, AtRest
<1>8. ToolTypes' /\ ServiceTypes'
  BY <1>1, <1>2, <1>3, <1>4, <1>5 DEF ToolTypes, ServiceTypes, AtRest, Pcs
<1>. QED
  BY <1>6, <1>7, <1>8, TypeParts DEF ToolInv

LEMMA GoingOn ==
  ASSUME ToolInv, Slice \/ Snapshot \/ DeleteAsks \/ (Abort /\ ~oneShot)
  PROVE  ToolInv'
<1>1. TypeOK /\ Pursuits /\ Handled /\ Served /\ ToolTypes /\ ServiceTypes
  BY TypeParts DEF ToolInv
<1>2. /\ UNCHANGED <<program, oneShot, exitCode, requests, sockets, link, inbox, servers>>
      /\ \/ pc' = pc
         \/ pc' = "confirm" /\ pc \in {"prompt", "signedIn"}
         \/ pc' = "prompt" /\ pc = "confirm"
  BY DEF Slice, Snapshot, DeleteAsks, Abort, AtPrompt, network
<1>3. waited' \in 0..kMaxSlices
  <2>1. waited \in 0..kMaxSlices
    BY <1>1 DEF ToolTypes
  <2>2. CASE Slice
    <3>1. waited < kMaxSlices /\ waited' = waited + 1
      BY <2>2 DEF Slice, WaitedOnce
    <3>. QED
      BY <2>1, <3>1, Bounds
  <2>. QED
    BY <2>1, <2>2 DEF Snapshot, DeleteAsks, Abort
<1>4. heard' \in BOOLEAN
  BY <1>1 DEF Slice, Snapshot, DeleteAsks, Abort, ToolTypes
<1>5. UNCHANGED <<asked, effects, session, inWorld, hello, up, crashes>>
  BY <1>2 DEF servers
<1>6. current' = current /\ request' = request
  BY <1>2 DEF current, request
<1>7. Served'
  BY <1>1, <1>2, <1>5, SameRequests
<1>8. Pursuits' /\ Handled'
  BY <1>1, <1>2, <1>6 DEF Pursuits, Handled, Holds
<1>9. ToolTypes' /\ ServiceTypes'
  BY <1>1, <1>2, <1>3, <1>4, <1>5, <1>6 DEF ToolTypes, ServiceTypes, Pcs
<1>. QED
  BY <1>7, <1>8, <1>9, TypeParts DEF ToolInv

LEMMA Listening ==
  ASSUME ToolInv, Listen
  PROVE  ToolInv'
<1>1. TypeOK /\ Pursuits /\ Handled /\ Served /\ ToolTypes /\ ServiceTypes
  BY TypeParts DEF ToolInv
<1>2. /\ pc = "joined" /\ pc' = "listening" /\ sockets' = opened(sockets, "udp") /\ hello' = "sent"
      /\ UNCHANGED <<program, oneShot, exitCode, requests, waited, heard, link, inbox, asked, effects,
                     session, inWorld, up, crashes>>
  BY DEF Listen, network
<1>3. current' = current /\ request' = request
  BY <1>2 DEF current, request
<1>4. \A o \in Objects : valid(sockets, o) <=> o \in {"stream", "world"}
  BY <1>1, <1>2 DEF Handled, Holds
<1>5. /\ sockets' \in SocketState /\ OwnedOnce(sockets')
      /\ \A o \in Objects : valid(sockets', o) <=> o = "udp" \/ valid(sockets, o)
  <2>1. /\ sockets \in SocketState /\ OwnedOnce(sockets) /\ "udp" \in Objects /\ "stream" \in Objects
        /\ "world" \in Objects /\ ~valid(sockets, "udp")
    BY <1>1, <1>4, Bounds DEF Handled, TypeOK
  <2>. QED
    BY <1>2, <1>4, <2>1, OpenedOwned
<1>6. Handled'
  BY <1>2, <1>4, <1>5 DEF Handled, Holds
<1>7. Served'
  BY <1>1, <1>2, SameRequests
<1>8. Pursuits'
  BY <1>1, <1>2, <1>3 DEF Pursuits
<1>9. ToolTypes' /\ ServiceTypes'
  BY <1>1, <1>2, <1>3, <1>5 DEF ToolTypes, ServiceTypes, Pcs
<1>. QED
  BY <1>6, <1>7, <1>8, <1>9, TypeParts DEF ToolInv

LEMMA ToolStep ==
  ASSUME ToolInv, Tool
  PROVE  ToolInv'
<1>1. Pursuits /\ program \in {"console", "authcli", "worldcli"}
  BY DEF ToolInv, TypeOK
<1>2. \A kind \in Commands : kind \notin {"login", "register", "join", "logout"}
  BY ToolAssumption
<1>3. CASE Start
  <2>1. Asks("login") /\ (program = "authcli" => Asks("register"))
    BY <1>1, <1>3 DEF Start, Asks, Kinds
  <2>. QED
    BY <1>3, <2>1, Connecting DEF Start
<1>4. CASE Welcome
  <2>1. Asks("status")
    BY <1>1, <1>4 DEF Welcome, Asks, Kinds, Pursuits
  <2>. QED
    BY <1>4, <2>1, Connecting DEF Welcome
<1>5. CASE DeleteYes \/ Confirm
  <2>1. Asks("delete")
    BY <1>1, <1>5 DEF DeleteYes, Confirm, AtPrompt, Asks, Kinds, Pursuits
  <2>. QED
    BY <1>5, <2>1, Connecting DEF DeleteYes, Confirm
<1>6. CASE Join
  <2>1. Asks("join")
    BY <1>1, <1>6 DEF Join, Asks, Kinds, Pursuits
  <2>. QED
    BY <1>6, <2>1, Connecting DEF Join
<1>7. ASSUME NEW kind \in Commands, Command(kind) PROVE ToolInv'
  <2>1. Asks(kind)
    BY <1>1, <1>2, <1>7 DEF Command, AtPrompt, Asks, Kinds, Pursuits
  <2>. QED
    BY <1>7, <2>1, Connecting DEF Command
<1>. QED
  BY <1>3, <1>4, <1>5, <1>6, <1>7, Ending, Sending, LoggingOut, Leaving, GoingOn, Listening DEF Tool

LEMMA ToolNext == ToolInv /\ [Next]_vars => ToolInv'
<1>1. ToolInv /\ UNCHANGED vars => ToolInv'
  <2>. SUFFICES ASSUME ToolInv, UNCHANGED vars PROVE ToolInv'
    OBVIOUS
  <2>1. TypeOK /\ Pursuits /\ Handled /\ Served /\ ToolTypes /\ ServiceTypes
    BY TypeParts DEF ToolInv
  <2>2. UNCHANGED process /\ UNCHANGED <<link, inbox, asked, effects, session, inWorld, hello, up, crashes>>
    BY DEF vars, network, servers
  <2>3. Pursuits' /\ Handled' /\ ToolTypes'
    BY <2>1, <2>2, Standing, ToolTypesStand
  <2>4. ServiceTypes'
    BY <2>1, <2>2 DEF ServiceTypes
  <2>5. Served'
    BY <2>1, <2>2, SameRequests DEF process
  <2>. QED
    BY <2>3, <2>4, <2>5, TypeParts DEF ToolInv
<1>. QED
  BY <1>1, ToolStep, ServicesStep DEF Next
-----------------------------------------------------------------------------
\* What a tool tells its user is what happened: "done" was carried out, once, a
\* refused or unreachable request was not and never will be, however late the
\* servers read, decide and answer and whenever they crash.
THEOREM ToolsTellTheTruth == Spec => []ToldIsTrue
<1>1. ToolInv => ToldIsTrue
  <2>. SUFFICES ASSUME ToolInv PROVE ToldIsTrue
    OBVIOUS
  <2>1. TypeOK /\ Pursuits /\ Served
    BY DEF ToolInv
  <2>2. \A r \in 1..current : Truthful(r)
    BY <2>1 DEF Served
  <2>3. program = "authcli" /\ pc = "exited" /\ exitCode = 0 => effects[1] = 1
    <3>. SUFFICES ASSUME program = "authcli", pc = "exited", exitCode = 0 PROVE effects[1] = 1
      OBVIOUS
    <3>1. requests # << >> /\ requests[1].told = "done" /\ current = 1
      BY <2>1 DEF Pursuits
    <3>2. 1 \in 1..current
      BY <3>1
    <3>. QED
      BY <2>2, <3>1, <3>2 DEF Truthful
  <2>. QED
    BY <2>2, <2>3 DEF ToldIsTrue, Truthful
<1>. QED
  BY <1>1, ToolInit, ToolNext, PTL DEF Spec

\* Every open handle belongs to one socket object through all openings, moves
\* and destructions, and none is left open at a prompt or after exit.
THEOREM ToolsOwnTheirHandles == Spec => []HandlesOwned
<1>1. ToolInv => HandlesOwned
  <2>. SUFFICES ASSUME ToolInv PROVE HandlesOwned
    OBVIOUS
  <2>1. Handled /\ sockets \in SocketState
    BY DEF ToolInv, TypeOK
  <2>2. ASSUME pc \in {"start", "signedIn", "prompt", "confirm", "exited"} PROVE sockets.open = {}
    <3>1. \A o \in Objects : ~valid(sockets, o)
      BY <2>1, <2>2 DEF Handled, Holds
    <3>. QED
      BY <2>1, <3>1, StateFields DEF Handled, OwnedOnce, valid
  <2>. QED
    BY <2>1, <2>2 DEF HandlesOwned, Handled
<1>. QED
  BY <1>1, ToolInit, ToolNext, PTL DEF Spec

\* Every variable of AdminTools keeps its type.
THEOREM ToolTypeCorrect == Spec => []TypeOK
<1>1. ToolInv => TypeOK
  BY DEF ToolInv
<1>. QED
  BY <1>1, ToolInit, ToolNext, PTL DEF Spec
=============================================================================
