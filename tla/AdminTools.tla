----------------------------- MODULE AdminTools ------------------------------
(***************************************************************************)
(* The command-line tools of server/tools: console, which sends every      *)
(* command over a connection of its own; authcli, which sends one request; *)
(* and worldcli, which logs in, joins the world, listens for snapshots and *)
(* logs out.  Each waits for an answer with a bound and then gives up,     *)
(* while the server may still carry out what it was asked.                 *)
(*                                                                         *)
(* The servers are here what the tools see of them: a request is read from *)
(* a connection, decided later, and answered if the connection is still    *)
(* there.  What they do in between is in AuthServer and WorldServer.       *)
(***************************************************************************)
EXTENDS Sockets, Sequences

CONSTANTS Commands,        \* what the console can be asked to send
          kMaxSlices,      \* waits of 50 ms before a tool gives up
          MaxRequests,     \* bound on the requests of a tool
          MaxCrashes       \* bound on the crashes of a server

ASSUME ToolAssumption ==
  /\ kMaxSlices \in Nat \ {0}
  /\ MaxRequests \in Nat
  /\ MaxCrashes \in Nat
  /\ Commands \cap {"login", "register", "join", "logout"} = {}
  /\ Objects = {"socket", "stream", "worldSocket", "world", "udp"}
  /\ MaxHandles >= 3     \* as many as a tool ever has open

VARIABLES program, oneShot,  \* which tool this is, and whether argv holds a command
          pc, exitCode,
          requests,          \* all requests of this run, the current one last
          sockets, waited,
          heard,             \* a snapshot has come
          link, inbox,       \* of each connection: its state, the answers on their way
          asked,             \* of each request: where the server is with it
          effects,           \* of each request: how often it was carried out
          session,           \* of the token the tool holds
          inWorld,           \* the connection whose player is in the world, or 0
          hello,             \* "none", "sent", "bound"
          up,                \* the servers that run
          crashes

process == <<program, oneShot, pc, exitCode, requests, sockets, waited, heard>>
network == <<link, inbox>>
servers == <<asked, effects, session, inWorld, hello, up, crashes>>
vars == <<process, network, servers>>

\* A connection has the number of the request that opened it.
Requests == 1..MaxRequests
Servers == {"auth", "world"}
Pcs == {"start", "connecting", "awaiting", "signedIn", "prompt", "confirm", "loggedIn",
        "joined", "listening", "exited"}

ServerOf(kind) ==
  IF kind \in {"login", "register", "account", "delete"} THEN "auth" ELSE "world"

\* The socket a request is connected with and the stream it is moved into: on
\* the stack of connectTo's caller, in worldcli twice.
SocketOf(kind) == IF kind = "join" THEN "worldSocket" ELSE "socket"
StreamOf(kind) == IF kind = "join" THEN "world" ELSE "stream"

current == Len(requests)
request == requests[current]

Init ==
  /\ program \in {"console", "authcli", "worldcli"}
  /\ oneShot \in BOOLEAN /\ (oneShot => program = "console")
  /\ pc = "start" /\ exitCode = 0
  /\ requests = <<>>
  /\ sockets = NoSockets
  /\ waited = 0
  /\ heard = FALSE
  /\ link = [c \in Requests |-> "none"]
  /\ inbox = [c \in Requests |-> <<>>]
  /\ asked = [r \in Requests |-> "no"]
  /\ effects = [r \in Requests |-> 0]
  /\ session = "none"
  /\ inWorld = 0
  /\ hello = "none"
  /\ up = Servers
  /\ crashes = 0
-----------------------------------------------------------------------------
(* The end of a request, and of the process.                               *)

\* Destructors close handles, and a peer sees its connection closed.
Destroy(gone) ==
  LET after == destroyed(sockets, gone)
  IN /\ sockets' = after
     /\ link' = [c \in Requests |->
                   IF /\ c <= current
                      /\ requests[c].handle \in sockets.open \ after.open
                      /\ link[c] \notin {"shut", "gone"}
                   THEN "shut" ELSE link[c]]

Exit(code) == pc' = "exited" /\ exitCode' = code /\ Destroy(Objects)

\* After a command: the prompt again, or the end of a one-shot run, which exits
\* with 0 whatever became of the command.
CommandOver ==
  IF oneShot
  THEN Exit(0)
  ELSE pc' = "prompt" /\ Destroy({"socket", "stream"}) /\ UNCHANGED exitCode

\* No answer, or one that refuses.
Failed ==
  IF program = "console" /\ request.kind # "login" THEN CommandOver ELSE Exit(1)

Succeeded ==
  CASE program = "authcli" -> Exit(0)
    [] program = "worldcli" /\ request.kind = "login" ->
         pc' = "loggedIn" /\ UNCHANGED <<exitCode, sockets, link>>
    [] program = "worldcli" /\ request.kind = "join" ->
         pc' = "joined" /\ UNCHANGED <<exitCode, sockets, link>>
    [] program = "console" /\ request.kind = "login" ->
         pc' = "signedIn" /\ Destroy({"socket", "stream"}) /\ UNCHANGED exitCode
    [] OTHER -> CommandOver

\* What the user is told of the current request.  worldcli exits after its
\* logout whether that was answered or not, with a code about the snapshots.
Tell(outcome) ==
  /\ requests' = [requests EXCEPT ![current].told = outcome]
  /\ IF request.kind = "logout" THEN Exit(IF heard THEN 0 ELSE 1)
     ELSE IF outcome = "done" THEN Succeeded ELSE Failed
-----------------------------------------------------------------------------
(* One request: connectTo, send, and the wait for the answer.              *)

\* connect has opened a socket, or the name did not resolve, or the system had
\* no socket to give: then the user is told at once.
Connect(kind) ==
  /\ current < MaxRequests
  /\ \/ /\ sockets' = opened(sockets, SocketOf(kind))
        /\ requests' = Append(requests, [kind |-> kind, conn |-> current + 1, told |-> "nothing",
                                         handle |-> sockets'.mHandle[SocketOf(kind)]])
        /\ link' = [link EXCEPT ![current + 1] = "pending"]
        /\ pc' = "connecting"
        /\ UNCHANGED exitCode
     \/ /\ requests' = Append(requests, [kind |-> kind, conn |-> current + 1,
                                         told |-> "unreachable", handle |-> kInvalidSocket])
        /\ IF program = "console" /\ kind # "login" THEN CommandOver ELSE Exit(1)
  /\ UNCHANGED <<program, oneShot, waited, heard, inbox, servers>>

Unreachable ==
  /\ pc = "connecting"
  /\ ~connectResult(link[current])
  /\ Tell("unreachable")
  /\ UNCHANGED <<program, oneShot, waited, heard, inbox, servers>>

\* The wait for the connection is over.  What is sent while it is still pending
\* stays in the write buffer, which nothing flushes.
Send ==
  /\ pc = "connecting"
  /\ connectResult(link[current])
  /\ sockets' = moved(sockets, StreamOf(request.kind), SocketOf(request.kind))
  /\ asked' = [asked EXCEPT ![current] = IF sends(link[current]) THEN "sent" ELSE "no"]
  /\ pc' = "awaiting"
  /\ waited' = 0
  /\ UNCHANGED <<program, oneShot, exitCode, requests, heard, network, effects, session, inWorld,
                 hello, up, crashes>>

\* One turn of the loop: wait, pump, and the next() that follows.  The console
\* has none after its last wait.  At the end of the stream pump gives up, even
\* if the answer came with it.
WaitedForEver == waited
WaitedOnce == waited + 1

Heard == inbox[request.conn] # <<>> /\ ~broken(link[request.conn])
LastLook == program # "console" \/ WaitedOnce < kMaxSlices

SilenceIsRefusal == "refused"
Silence == "silent"

Slice ==
  /\ pc = "awaiting"
  /\ waited < kMaxSlices
  /\ ~readable(link[request.conn], inbox[request.conn] # <<>>)
  /\ waited' = WaitedOnce
  /\ UNCHANGED <<program, oneShot, pc, exitCode, requests, sockets, heard, network, servers>>

Answered ==
  /\ pc = "awaiting"
  /\ waited < kMaxSlices
  /\ Heard /\ LastLook
  /\ Tell(Head(inbox[request.conn]))
  /\ inbox' = [inbox EXCEPT ![request.conn] = Tail(@)]
  /\ UNCHANGED <<program, oneShot, waited, heard, servers>>

GiveUp ==
  /\ pc = "awaiting"
  /\ \/ waited >= kMaxSlices
     \/ broken(link[request.conn])
     \/ Heard /\ ~LastLook
  /\ Tell(Silence)
  /\ UNCHANGED <<program, oneShot, waited, heard, inbox, servers>>
-----------------------------------------------------------------------------
(* The main functions.                                                     *)

\* Without a terminal and without credentials in the environment, or at the end
\* of the input while it prompts, the console exits at once.
NoCredentials ==
  /\ pc = "start"
  /\ program = "console"
  /\ Exit(1)
  /\ UNCHANGED <<program, oneShot, requests, waited, heard, inbox, servers>>

Start ==
  /\ pc = "start"
  /\ Connect("login") \/ (program = "authcli" /\ Connect("register"))

\* An interactive console shows the status before its first prompt.
Welcome == pc = "signedIn" /\ ~oneShot /\ Connect("status")

\* A line that names no command, or one with wrong arguments, sends nothing.
AtPrompt == pc = "prompt" \/ (pc = "signedIn" /\ oneShot)

Command(kind) == AtPrompt /\ kind # "delete" /\ Connect(kind)

DeleteYes == AtPrompt /\ "delete" \in Commands /\ Connect("delete")

DeleteAsks ==
  /\ AtPrompt
  /\ "delete" \in Commands
  /\ pc' = "confirm"
  /\ UNCHANGED <<program, oneShot, exitCode, requests, sockets, waited, heard, network, servers>>

Confirm == pc = "confirm" /\ Connect("delete")

\* Anything but a yes, the end of the input too.
Abort ==
  /\ pc = "confirm"
  /\ IF oneShot THEN Exit(0) ELSE pc' = "prompt" /\ UNCHANGED <<exitCode, sockets, link>>
  /\ UNCHANGED <<program, oneShot, requests, waited, heard, inbox, servers>>

Quit ==
  /\ AtPrompt
  /\ Exit(0)
  /\ UNCHANGED <<program, oneShot, requests, waited, heard, inbox, servers>>

Join == pc = "loggedIn" /\ Connect("join")

\* The socket for snapshots, the address of the world server, and one hello.
Listen ==
  /\ pc = "joined"
  /\ pc' = "listening"
  /\ sockets' = opened(sockets, "udp")
  /\ hello' = "sent"
  /\ UNCHANGED <<program, oneShot, exitCode, requests, waited, heard, network, asked, effects,
                 session, inWorld, up, crashes>>

NoUdp ==
  /\ pc = "joined"
  /\ Exit(1)
  /\ UNCHANGED <<program, oneShot, requests, waited, heard, inbox, servers>>

Snapshot ==
  /\ pc = "listening"
  /\ hello = "bound" /\ inWorld # 0
  /\ heard' = TRUE
  /\ UNCHANGED <<program, oneShot, pc, exitCode, requests, sockets, waited, network, servers>>

\* The time to listen is over: log out on the connection of the join.
Logout ==
  /\ pc = "listening"
  /\ current < MaxRequests
  /\ requests' = Append(requests, [kind |-> "logout", conn |-> current, told |-> "nothing",
                                   handle |-> kInvalidSocket])
  /\ asked' = [asked EXCEPT ![current + 1] = IF sends(link[current]) THEN "sent" ELSE "no"]
  /\ pc' = "awaiting"
  /\ waited' = 0
  /\ UNCHANGED <<program, oneShot, exitCode, sockets, heard, network, effects, session, inWorld,
                 hello, up, crashes>>

Tool ==
  \/ NoCredentials \/ Start \/ Welcome \/ Join \/ Listen \/ NoUdp \/ Logout \/ Snapshot
  \/ (\E kind \in Commands : Command(kind)) \/ DeleteYes \/ DeleteAsks \/ Confirm \/ Abort \/ Quit
  \/ Unreachable \/ Send \/ Slice \/ Answered \/ GiveUp
-----------------------------------------------------------------------------
(* The servers, as the tools see them.                                     *)

ServerAt(c) == ServerOf(requests[c].kind)

Accept(c) ==
  /\ link[c] = "pending" /\ ServerAt(c) \in up
  /\ link' = [link EXCEPT ![c] = "up"]
  /\ UNCHANGED <<process, inbox, servers>>

Refuse(c) ==
  /\ link[c] = "pending" /\ ServerAt(c) \notin up
  /\ link' = [link EXCEPT ![c] = "refused"]
  /\ UNCHANGED <<process, inbox, servers>>

\* A request that was sent before the connection was closed is read if it comes
\* before the close does.
Read(r) ==
  /\ asked[r] = "sent"
  /\ link[requests[r].conn] \in {"up", "shut"}
  /\ asked' = [asked EXCEPT ![r] = "read"]
  /\ UNCHANGED <<process, network, effects, session, inWorld, hello, up, crashes>>

\* What a server can answer.  The world server says that the session has expired
\* also when it could not look it up.
Verdicts(kind) ==
  CASE kind \in {"login", "register"} -> {"done", "refused"}
    [] kind = "logout" -> {"done"}
    [] kind \in {"account", "delete", "join"} ->
         IF session = "valid" THEN {"done", "refused"} ELSE {"refused"}
    [] OTHER -> IF session = "valid" THEN {"done", "refused", "expired"} ELSE {"expired"}

\* Of a player: in the world once its join is decided, until it is removed.
InWorldAfter(r, verdict) ==
  IF requests[r].kind = "join" /\ verdict = "done" THEN r
  ELSE IF requests[r].kind = "logout" /\ inWorld = requests[r].conn THEN 0 ELSE inWorld

SessionAfter(kind) ==
  CASE kind = "login" -> "valid" [] kind = "join" -> "redeemed" [] OTHER -> session

Decide(r) ==
  /\ asked[r] = "read"
  /\ \E verdict \in Verdicts(requests[r].kind) :
       /\ effects' = [effects EXCEPT ![r] = @ + (IF verdict = "done" THEN 1 ELSE 0)]
       /\ session' = IF verdict = "done" THEN SessionAfter(requests[r].kind) ELSE session
       /\ inWorld' = InWorldAfter(r, verdict)
       /\ inbox' = IF link[requests[r].conn] = "up"
                   THEN [inbox EXCEPT ![requests[r].conn] = Append(@, verdict)] ELSE inbox
  /\ asked' = [asked EXCEPT ![r] = "over"]
  /\ UNCHANGED <<process, link, hello, up, crashes>>

\* The end of the connection has come: what was not read is dropped with it.
KeepPlayer(c) == inWorld
WithoutPlayer(c) == IF inWorld = c THEN 0 ELSE inWorld

Disconnect(c) ==
  /\ link[c] = "shut"
  /\ link' = [link EXCEPT ![c] = "gone"]
  /\ inWorld' = WithoutPlayer(c)
  /\ asked' = [r \in Requests |-> IF /\ r <= current /\ requests[r].conn = c
                                     /\ asked[r] = "sent"
                                  THEN "over" ELSE asked[r]]
  /\ UNCHANGED <<process, inbox, effects, session, hello, up, crashes>>

Bind ==
  /\ hello = "sent" /\ inWorld # 0
  /\ hello' = "bound"
  /\ UNCHANGED <<process, network, asked, effects, session, inWorld, up, crashes>>

\* A player that was silent on UDP: worldcli sends nothing after its hello unless
\* it was given a movement to make.
Sweep ==
  /\ hello = "bound" /\ inWorld # 0
  /\ link' = [link EXCEPT ![inWorld] = IF @ = "up" THEN "ended" ELSE @]
  /\ inWorld' = 0
  /\ UNCHANGED <<process, inbox, asked, effects, session, hello, up, crashes>>

Expire ==
  /\ session = "valid"
  /\ session' = "expired"
  /\ UNCHANGED <<process, network, asked, effects, inWorld, hello, up, crashes>>

Crash(server) ==
  /\ server \in up
  /\ crashes < MaxCrashes
  /\ crashes' = crashes + 1
  /\ up' = up \ {server}
  /\ link' = [c \in Requests |->
                IF link[c] = "up" /\ ServerAt(c) = server THEN "ended" ELSE link[c]]
  /\ asked' = [r \in Requests |->
                 IF asked[r] \in {"sent", "read"} /\ ServerAt(r) = server
                 THEN "over" ELSE asked[r]]
  /\ inWorld' = IF server = "world" THEN 0 ELSE inWorld
  /\ UNCHANGED <<process, inbox, effects, session, hello>>

Restart(server) ==
  /\ server \notin up
  /\ up' = up \cup {server}
  /\ UNCHANGED <<process, network, asked, effects, session, inWorld, hello, crashes>>

Services ==
  \/ \E c \in Requests : Accept(c) \/ Refuse(c) \/ Read(c) \/ Decide(c) \/ Disconnect(c)
  \/ Bind \/ Sweep \/ Expire
  \/ \E server \in Servers : Crash(server) \/ Restart(server)

Next == Tool \/ Services

Spec == Init /\ [][Next]_vars

\* A tool goes on with its request and notices in the end that the time to wait
\* or to listen is over; what is typed at a prompt is up to its user.  A server
\* polls its connections.  A request is not bound to be decided, nor a
\* connection to come about.
FairSpec ==
  /\ Spec
  /\ WF_vars(Unreachable) /\ WF_vars(Send) /\ WF_vars(Slice) /\ WF_vars(Answered)
  /\ WF_vars(GiveUp) /\ WF_vars(Logout)
  /\ \A c \in Requests : WF_vars(Disconnect(c))
-----------------------------------------------------------------------------
(* Correctness.                                                            *)

Kinds == Commands \cup {"login", "register", "status", "delete", "join", "logout"}
Request == [kind : Kinds, conn : Requests,
            told : {"nothing", "done", "refused", "expired", "unreachable", "silent"},
            handle : Handles \cup {kInvalidSocket}]

TypeOK ==
  /\ program \in {"console", "authcli", "worldcli"} /\ oneShot \in BOOLEAN
  /\ pc \in Pcs /\ exitCode \in {0, 1}
  /\ requests \in Seq(Request) /\ current <= MaxRequests
  /\ sockets \in SocketState
  /\ waited \in 0..kMaxSlices /\ heard \in BOOLEAN
  /\ link \in [Requests -> Link]
  /\ inbox \in [Requests -> Seq({"done", "refused", "expired"})]
  /\ asked \in [Requests -> {"no", "sent", "read", "over"}]
  /\ effects \in [Requests -> Nat]
  /\ session \in {"none", "valid", "expired", "redeemed"}
  /\ inWorld \in 0..MaxRequests /\ hello \in {"none", "sent", "bound"}
  /\ up \subseteq Servers /\ crashes \in 0..MaxCrashes

\* What a tool tells its user is what happened: a command it reports as done was
\* carried out once, and one it reports as refused or unreachable was not and
\* never will be, however late the server decides, crashes or answers.  Only
\* after "no response" can it be either.  authcli's exit code says the same.
ToldIsTrue ==
  /\ \A r \in 1..current :
       /\ effects[r] <= 1
       /\ requests[r].told = "done" => effects[r] = 1
       /\ requests[r].told \in {"refused", "expired", "unreachable"} =>
            effects[r] = 0 /\ asked[r] \in {"no", "over"}
  /\ program = "authcli" /\ pc = "exited" /\ exitCode = 0 => effects[1] = 1

\* Every handle the tool has open belongs to one socket object, across the moves
\* from the socket that connects into the stream; a console keeps none open
\* while it waits for its user, and no process leaves one behind.
HandlesOwned ==
  /\ OwnedOnce(sockets)
  /\ pc \in {"start", "signedIn", "prompt", "confirm", "exited"} => sockets.open = {}

\* A tool never hangs on a request: whatever the server does, it ends in an
\* answer or in giving up.
EveryCommandEnds == pc \in {"connecting", "awaiting"} ~> pc \notin {"connecting", "awaiting"}

\* A player that worldcli was told it has leaves the world after worldcli has
\* exited, on any of its ways out.
Joined == \E r \in 1..current : requests[r].kind = "join" /\ requests[r].told = "done"
ToolPlayersLeave == pc = "exited" /\ Joined ~> inWorld = 0
-----------------------------------------------------------------------------
(* A statement the tools do not keep; see the README.                      *)

\* A session that expires under the console is renewed with the password it
\* keeps, so that no command is refused for it.
SessionRenewed ==
  \A r \in 1..current : requests[r].kind \in Commands => requests[r].told # "expired"
=============================================================================
