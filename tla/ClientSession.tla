--------------------------- MODULE ClientSession ----------------------------
(***************************************************************************)
(* One client from the login screen into the world and out again: the      *)
(* connection state machine of client/src/net_client.cpp, the screens and  *)
(* the world of client/src/application.cpp, and of the world server what   *)
(* the client can notice (the join's answer, the UDP hello, snapshots, the *)
(* timeout of a silent player).                                            *)
(*                                                                         *)
(* A frame is NetClient::poll followed by the rest of Application::update; *)
(* what the user does in drawUi comes between frames.  Snapshots name the  *)
(* other players in the world; the client's own is in all of them.         *)
(***************************************************************************)
EXTENDS Scene, FiniteSets

CONSTANTS Others,        \* the other players
          Limit,         \* UDP_TIMEOUT_SECONDS
          MaxSessions,   \* bound on logins
          MaxSnapshots,  \* bound on snapshots of one session
          Faults         \* among "loss" of datagrams, "crash" of the server and
                         \* "init", of the client's own start

\* The client's own character.
Own == "own"

ASSUME SessionAssumption == /\ Own \notin Others
                            /\ Limit \in Nat \ {0}
                            /\ MaxSessions \in Nat
                            /\ MaxSnapshots \in Nat
                            /\ Faults \subseteq {"loss", "crash", "init"}

VARIABLES
  mState,                   \* Application: the screen
  net,                      \* NetClient::mState
  mSnapshotsReceived,
  mEntities,                \* NetClient: the other players it has entities for
  scene,                    \* what exists of the world and its renderer
  active,                   \* whether prediction is running
  mLastReconciledSnapshot,
  upToDate,                 \* whether prediction has used the newest snapshot
  newest,                   \* the other players in the newest snapshot
  reported,                 \* the other players in any snapshot of this session
  link,                     \* the TCP connection to the world server
  bound,                    \* the server knows the client's UDP address
  silence,                  \* seconds since the server heard a datagram
  world,                    \* the other players in the world
  datagrams,                \* on their way to the server
  snapshots,                \* on their way to the client
  ticked,                   \* the client ran a tick in this second
  excused,                  \* in this session the menu was opened, a datagram
                            \* to the server was lost, or the server crashed
  sessions

screenVars == <<mState, scene, active, mLastReconciledSnapshot, upToDate>>
heard == <<newest, reported>>
netVars == <<net, mSnapshotsReceived, mEntities, heard>>
serverVars == <<link, bound, silence, world>>
vars == <<screenVars, netVars, serverVars, datagrams, snapshots, ticked, excused, sessions>>

\* The other players that have a renderable.
loaded == scene.mLoaded
drawn == scene.mPlayers \ {Own}

TypeOK ==
  /\ mState \in {"Login", "Connecting", "InGame", "Menu", "Closed"}
  /\ net \in {"Idle", "ConnectingAuth", "AwaitingLogin", "ConnectingWorld",
              "AwaitingJoin", "InWorld", "Failed"}
  /\ mSnapshotsReceived \in 0..MaxSnapshots
  /\ mEntities \subseteq Others
  /\ scene \in Scenes(Others \cup {Own})
  /\ active \in BOOLEAN
  /\ mLastReconciledSnapshot \in 0..MaxSnapshots
  /\ upToDate \in BOOLEAN
  /\ newest \subseteq Others
  /\ reported \subseteq Others
  /\ link \in {"none", "joining", "joined", "refused", "closed"}
  /\ bound \in BOOLEAN
  /\ silence \in 0..(Limit + 1)
  /\ world \subseteq Others
  /\ datagrams \subseteq {"hello", "input"}
  /\ snapshots \in SUBSET SUBSET Others
  /\ ticked \in BOOLEAN
  /\ excused \in BOOLEAN
  /\ sessions \in 0..MaxSessions

Init ==
  /\ net = "Idle"
  /\ \/ mState = "Login" /\ scene = initialised("done")
     \/ /\ "init" \in Faults
        /\ mState = "Closed"
        /\ \E stage \in InitStages \ {"done"} : scene = Torn(initialised(stage))
  /\ mSnapshotsReceived = 0 /\ mLastReconciledSnapshot = 0
  /\ mEntities = {} /\ newest = {} /\ reported = {}
  /\ active = FALSE /\ upToDate = TRUE
  /\ link = "none" /\ bound = FALSE /\ silence = 0
  /\ world \in SUBSET Others
  /\ datagrams = {} /\ snapshots = {}
  /\ ticked = FALSE /\ excused = FALSE
  /\ sessions = 0
-----------------------------------------------------------------------------
(* Application::update after poll has left the client in state n with the  *)
(* entities e and a number of snapshots received.                          *)

ScreenWaits(n) == IF mState = "Connecting" /\ n = "InWorld" THEN "InGame" ELSE mState
Screen(n) == CASE mState = "Connecting" /\ n = "InWorld" -> "InGame"
               [] mState # "Login" /\ n = "Failed" -> "Login"
               [] OTHER -> mState

\* loadWorld and unloadWorld.
SceneLeftLoaded(n) ==
  IF mState = "Connecting" /\ Screen(n) = "InGame" THEN build(scene) ELSE scene
SceneFor(n) ==
  CASE mState = "Connecting" /\ Screen(n) = "InGame" -> build(scene)
    [] mState \in {"InGame", "Menu"} /\ Screen(n) = "Login" -> destroy(scene)
    [] OTHER -> scene

\* The moon rides opposite the sun, so one of them is up, near the horizon both;
\* with a clock that is not a number neither is.
Skies == SUBSET Discs

\* Intent is sent on the ticks of the game screen only.
NoInput(n) == {}
Input(n) == IF Screen(n) = "InGame" /\ n = "InWorld" THEN {"input"} ELSE {}

\* The snapshot that reconcile has used.
Reconciled(received) == received

\* applyReplication: all entities are transformed, and removeAbsentPlayers keeps
\* the ones that mEntities still holds.
Replicate(s, e, received) ==
  LET present == e \cup (IF received > 0 THEN {Own} ELSE {})
  IN IF s.mLoaded
     THEN /\ scene' = PlayersAfter(s, present, present)
          /\ active' = (active \/ received > 0)
          /\ IF ~active
             THEN upToDate' = TRUE /\ UNCHANGED mLastReconciledSnapshot
             ELSE IF received # mLastReconciledSnapshot
             THEN upToDate' = TRUE /\ mLastReconciledSnapshot' = Reconciled(received)
             ELSE /\ upToDate' = (upToDate /\ received = mSnapshotsReceived)
                  /\ UNCHANGED mLastReconciledSnapshot
     ELSE /\ scene' = s
          /\ active' = (IF loaded THEN FALSE ELSE active)
          /\ UNCHANGED <<upToDate, mLastReconciledSnapshot>>

Update(n, e, received, hello) ==
  /\ mState # "Closed"
  /\ net' = n
  /\ mEntities' = e
  /\ mSnapshotsReceived' = received
  /\ mState' = Screen(n)
  /\ \E s \in {SceneFor(n)} :
       \E sky \in IF s.mLoaded THEN Skies ELSE {{}} : Replicate(applySky(s, sky), e, received)
  /\ datagrams' = IF n = "Failed" THEN {} ELSE datagrams \cup hello \cup Input(n)
  /\ snapshots' = IF n = "Failed" THEN {} ELSE snapshots
  /\ ticked' = TRUE

\* A frame in which poll finds nothing new but, maybe, the state n.
Moves(n, hello) == Update(n, mEntities, mSnapshotsReceived, hello)
-----------------------------------------------------------------------------
(* The frames, by what poll finds. *)

PollNothing ==
  /\ net \in {"Idle", "Failed", "ConnectingAuth", "AwaitingLogin", "ConnectingWorld"}
     \/ (net = "AwaitingJoin" /\ link = "joining")
  /\ Moves(net, {})
  /\ UNCHANGED <<heard, serverVars, excused, sessions>>

AuthReached ==
  /\ net = "ConnectingAuth"
  /\ \E n \in {"AwaitingLogin", "Failed"} : Moves(n, {})
  /\ UNCHANGED <<heard, serverVars, excused, sessions>>

\* pumpAuth: the login's answer, or the end of the connection.
LoginAnswered ==
  /\ net = "AwaitingLogin"
  /\ \E n \in {"ConnectingWorld", "Failed"} : Moves(n, {})
  /\ UNCHANGED <<heard, serverVars, excused, sessions>>

WorldReached ==
  /\ net = "ConnectingWorld"
  /\ \/ Moves("AwaitingJoin", {}) /\ link' = "joining"
     \/ Moves("Failed", {}) /\ UNCHANGED link
  /\ UNCHANGED <<heard, bound, silence, world, excused, sessions>>

\* pumpWorld takes the JoinResponse, or finds the connection closed.  Opening
\* the UDP socket may fail.
JoinAnswered ==
  /\ net = "AwaitingJoin"
  /\ link \in {"joined", "refused", "closed"}
  /\ \/ link = "joined" /\ Moves("InWorld", {"hello"}) /\ UNCHANGED <<link, bound>>
     \/ Moves("Failed", {}) /\ link' = "none" /\ bound' = FALSE
  /\ UNCHANGED <<heard, silence, world, excused, sessions>>

\* pumpWorld in the world, with no snapshot to read.  The hello is repeated
\* while none has been received, once a quarter of a second.
HelloOnce == {}
Hello == IF mSnapshotsReceived = 0 THEN {"hello"} ELSE {}

PollWorld(hello) ==
  /\ net = "InWorld"
  /\ link # "closed"
  /\ Moves("InWorld", hello)
  /\ UNCHANGED <<heard, serverVars, excused, sessions>>

PollSnapshot ==
  /\ net = "InWorld"
  /\ link # "closed"
  /\ mSnapshotsReceived < MaxSnapshots
  /\ \E s \in snapshots :
       /\ Update("InWorld", mEntities \cup s, mSnapshotsReceived + 1, {})
       /\ newest' = s
       /\ reported' = reported \cup s
  /\ UNCHANGED <<serverVars, excused, sessions>>

PollClosed ==
  /\ net = "InWorld"
  /\ link = "closed"
  /\ Moves("Failed", {})
  /\ link' = "none"
  /\ UNCHANGED <<heard, bound, silence, world, excused, sessions>>
-----------------------------------------------------------------------------
(* What the user does. *)

\* NetClient::disconnect.  The world server drops the player of a connection
\* that is closed.
EntitiesKept == mEntities
EntitiesDropped == {}
disconnect(n) ==
  /\ net' = n
  /\ mEntities' = EntitiesDropped
  /\ newest' = {} /\ reported' = {}
  /\ mSnapshotsReceived' = 0
  /\ datagrams' = {} /\ snapshots' = {}
  /\ link' = "none" /\ bound' = FALSE /\ silence' = 0

\* NetClient::login may fail before the connection attempt has begun.
login == \E n \in {"ConnectingAuth", "Failed"} : disconnect(n)

\* The screens: no login can be submitted while one is under way.
LoginOffered == mState = "Login"
MenuOffered == mState = "Menu"

\* beginLogin, with a name and a password; without, it changes nothing.
Submit ==
  /\ LoginOffered
  /\ sessions < MaxSessions
  /\ sessions' = sessions + 1
  /\ mState' = "Connecting"
  /\ login
  /\ excused' = FALSE
  /\ UNCHANGED <<scene, active, mLastReconciledSnapshot, upToDate, world, ticked>>

OpenMenu ==
  /\ mState = "InGame"
  /\ mState' = "Menu"
  /\ excused' = TRUE
  /\ UNCHANGED <<scene, active, mLastReconciledSnapshot, upToDate, netVars,
                 serverVars, datagrams, snapshots, ticked, sessions>>

Resume ==
  /\ MenuOffered
  /\ mState' = "InGame"
  /\ UNCHANGED <<scene, active, mLastReconciledSnapshot, upToDate, netVars,
                 serverVars, datagrams, snapshots, ticked, excused, sessions>>

\* Application::logout: tell the server, disconnect, unloadWorld.
Logout ==
  /\ MenuOffered
  /\ mState' = "Login"
  /\ disconnect("Idle")
  /\ scene' = destroy(scene) /\ active' = FALSE
  /\ UNCHANGED <<mLastReconciledSnapshot, upToDate, world, ticked, excused, sessions>>

\* A quit button or the window's own, at any time: run ends and ~Application
\* closes the connection and destroys what there is.
Quit ==
  /\ mState # "Closed"
  /\ mState' = "Closed"
  /\ disconnect("Idle")
  /\ scene' = Torn(scene)
  /\ UNCHANGED <<active, mLastReconciledSnapshot, upToDate, world, ticked, excused, sessions>>
-----------------------------------------------------------------------------
(* The world server and the network. *)

Playing == link = "joined"

AnswerJoin ==
  /\ link = "joining"
  /\ link' \in {"joined", "refused"}
  /\ bound' = FALSE /\ silence' = 0
  /\ UNCHANGED <<screenVars, netVars, world, datagrams, snapshots, ticked, excused, sessions>>

\* The UDP drain.  Only a hello binds; any datagram of a bound player counts.
Hears(d) ==
  /\ d \in datagrams
  /\ datagrams' = datagrams \ {d}
  /\ bound' = (bound \/ (Playing /\ d = "hello"))
  /\ silence' = IF Playing /\ bound' THEN 0 ELSE silence
  /\ UNCHANGED <<screenVars, netVars, link, world, snapshots, ticked, excused, sessions>>

\* A tick's snapshot.  Older ones still on their way are not kept apart.
Tick ==
  /\ Playing /\ bound
  /\ snapshots' = {world}
  /\ UNCHANGED <<screenVars, netVars, serverVars, datagrams, ticked, excused, sessions>>

\* A second passes.  A running client ticks many times a second, and what it
\* sends arrives, if at all, within one.
Second ==
  /\ ticked /\ datagrams = {}
  /\ ticked' = FALSE
  /\ silence' = IF Playing /\ bound /\ silence <= Limit THEN silence + 1 ELSE silence
  /\ UNCHANGED <<screenVars, netVars, link, bound, world, datagrams, snapshots, excused, sessions>>

\* The sweep: the player is removed and the connection closed.
Timeout ==
  /\ Playing /\ bound /\ silence > Limit
  /\ link' = "closed" /\ bound' = FALSE
  /\ UNCHANGED <<screenVars, netVars, silence, world, datagrams, snapshots, ticked, excused, sessions>>

OthersMove ==
  /\ world' \in SUBSET Others
  /\ UNCHANGED <<screenVars, netVars, link, bound, silence, datagrams, snapshots,
                 ticked, excused, sessions>>

Lose ==
  /\ "loss" \in Faults
  /\ \/ /\ \E d \in datagrams : datagrams' = datagrams \ {d}
        /\ excused' = TRUE
        /\ UNCHANGED snapshots
     \/ /\ \E s \in snapshots : snapshots' = snapshots \ {s}
        /\ UNCHANGED <<datagrams, excused>>
  /\ UNCHANGED <<screenVars, netVars, serverVars, ticked, sessions>>

Crash ==
  /\ "crash" \in Faults
  /\ link \in {"joining", "joined"}
  /\ link' = "closed" /\ bound' = FALSE
  /\ excused' = TRUE
  /\ UNCHANGED <<screenVars, netVars, silence, world, datagrams, snapshots, ticked, sessions>>

Answered == AuthReached \/ LoginAnswered \/ WorldReached \/ JoinAnswered

Next == \/ PollNothing \/ Answered \/ PollWorld({}) \/ PollWorld(Hello) \/ PollSnapshot
        \/ PollClosed \/ Submit \/ OpenMenu \/ Resume \/ Logout \/ Quit
        \/ AnswerJoin \/ Hears("hello") \/ Hears("input") \/ Tick \/ Second \/ Timeout
        \/ OthersMove \/ Lose \/ Crash

Spec == Init /\ [][Next]_vars

\* Frames never stop, the operating system reports the outcome of a connection
\* attempt and both servers answer, the server ticks, and the network does not
\* lose every datagram of a kind.  Nothing obliges the user to do anything.
Fairness == /\ WF_vars(PollNothing) /\ WF_vars(Answered) /\ WF_vars(PollClosed)
            /\ WF_vars(PollWorld(Hello)) /\ WF_vars(AnswerJoin) /\ WF_vars(Tick)
            /\ SF_vars(Hears("hello")) /\ SF_vars(PollSnapshot)

FairSpec == Spec /\ Fairness
-----------------------------------------------------------------------------
(* Correctness. *)

\* The screen and the session agree: the scene is there exactly in the game and
\* in its menu, and nothing of it, of the prediction or of other players is left
\* when the login screen is up; playing means being joined, or about to learn
\* that the connection is gone.
ScreenMatchesSession ==
  /\ loaded <=> mState \in {"InGame", "Menu"}
  /\ loaded => net = "InWorld"
  /\ ~loaded /\ mState # "Closed" => ~active /\ drawn = {}
  /\ net = "InWorld" => link \in {"joined", "closed"}

\* Everybody the newest snapshot reports is drawn, and nobody of an earlier
\* session is: what is drawn was reported in this one.
ReportedAreDrawn == loaded => newest \subseteq drawn /\ drawn \subseteq reported

\* Every object of the engine is destroyed once, before what it uses, and by no one
\* who does not have it; none of the world is left at the login screen, however
\* the session ended and whoever was drawn in it, and none at all after the end.
ResourcesInOrder ==
  /\ ~scene.misused
  /\ mState \in {"Login", "Connecting"} =>
       scene.alive = Range(AppObjects \o UiObjects) /\ scene.mPlayers = {}
  /\ mState = "Closed" => scene.alive = {} /\ scene.mPlayers = {}

\* What is rendered is what exists, and the discs are in the scene exactly when
\* the flags say so, in the second session as in the first.
SceneMatchesFlags ==
  /\ scene.inScene \subseteq scene.alive
  /\ loaded => scene.inScene \cap Discs = scene.discs

\* Who plays on without opening the menu is never dropped by a sound server and
\* network: the input of the ticks is enough to be heard within the limit, from
\* the first hello on.
PlayingOnIsHeard == link = "closed" => excused

\* A login attempt ends, in the world or back at the login screen with a reason.
LoginResolves == (mState = "Connecting") ~> (mState # "Connecting")

\* The hello is repeated until the stream starts: a client in the world hears
\* of it, though hellos and snapshots may be lost.
StreamStarts ==
  (net = "InWorld") ~> (mSnapshotsReceived > 0 \/ net # "InWorld")
-----------------------------------------------------------------------------
(* What comments of the code say, and the code does not do. *)

\* "The player is still in the world" while the menu is up.
PausedStaysInWorld == mState = "Menu" => link # "closed"

\* "Players who stopped being reported have left; drop their renderables."
LeftAreDropped == loaded => drawn \subseteq newest

\* The client "starts predicting from the first authoritative position", "then
\* reconciles against each later one".
EachReconciled == active => upToDate
=============================================================================
