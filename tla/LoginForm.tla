------------------------------ MODULE LoginForm ------------------------------
(***************************************************************************)
(* The client's forms: the immediate-mode widgets of client/src/ui, the    *)
(* two screens of screens.cpp and the part of application.cpp that collects*)
(* input and acts on what the screens return.  The callbacks of the window *)
(* system set flags at any time; a frame first takes the state of the      *)
(* network (update) and then hands the flags of the whole interval to the  *)
(* widgets (drawUi), with the cursor where it is at that moment.           *)
(***************************************************************************)
EXTENDS Naturals, Sequences, FiniteSets

CONSTANTS Positions,    \* of the cursor: the widget there on each of the screens
          maxLength,    \* of a text field
          MaxClicks,    \* bound on mouse buttons going down or up in a frame
          MaxKeys,      \* bound on keys going down or up in a frame
          MaxAttempts   \* bound on logins

\* The screens, in the order they draw their widgets.  No widget is named "none".
LoginWidgets == <<"username", "password", "submit", "quit">>
MenuWidgets == <<"resume", "logout", "menuQuit">>
TextFields == {"username", "password"}

\* What the cursor may be over on a screen.
PlacesOf(screen) == {screen[i] : i \in DOMAIN screen} \cup {"none"}

ASSUME FormAssumption ==
  /\ Positions \subseteq [login : PlacesOf(LoginWidgets), menu : PlacesOf(MenuWidgets)]
  /\ {maxLength, MaxClicks, MaxKeys, MaxAttempts} \subseteq Nat

VARIABLES mState,                     \* the screen
          mInput,                     \* the flags of this frame
          cursor, buttonDown, keyDown,\* mouse and keyboard as they are
          clicks, keys,               \* events since the last frame
          mFocused, mActive,          \* Ui: ids
          mUsername, mPassword,       \* each character is the number of logins
          mFocusInitialised,          \* that were over when it was typed
          grabbed,                    \* the widget the button went down on
          last,                       \* the button clicked in the frame just over
          attempts, over              \* logins begun, logins that have ended

physical == <<cursor, buttonDown, keyDown>>
form == <<mFocused, mActive, mUsername, mPassword, mFocusInitialised>>
ghosts == <<grabbed, attempts, over>>
vars == <<mState, mInput, physical, clicks, keys, form, ghosts, last>>

OnLogin(state) == state \in {"Login", "Connecting"}

\* The enum WidgetId numbers the widgets of both screens.
IdInScreen(w) ==
  IF \E i \in DOMAIN LoginWidgets : LoginWidgets[i] = w
  THEN CHOOSE i \in DOMAIN LoginWidgets : LoginWidgets[i] = w
  ELSE CHOOSE i \in DOMAIN MenuWidgets : MenuWidgets[i] = w
WidgetId(w) ==
  CHOOSE i \in 1..Len(LoginWidgets \o MenuWidgets) : (LoginWidgets \o MenuWidgets)[i] = w

Under(position, state) ==
  IF OnLogin(state) THEN position.login ELSE IF state = "Menu" THEN position.menu ELSE "none"

Inputs == [mousePressed : BOOLEAN, mouseReleased : BOOLEAN, characters : 0..MaxKeys,
           backspace : BOOLEAN, tab : BOOLEAN, enter : BOOLEAN, escape : BOOLEAN]
NoInput == [mousePressed |-> FALSE, mouseReleased |-> FALSE, characters |-> 0,
            backspace |-> FALSE, tab |-> FALSE, enter |-> FALSE, escape |-> FALSE]

Init ==
  /\ mState = "Login"
  /\ mInput = NoInput
  /\ cursor \in Positions /\ buttonDown = FALSE /\ keyDown = "none"
  /\ clicks = 0 /\ keys = 0
  /\ mFocused = 0 /\ mActive = 0
  /\ mUsername = <<>> /\ mPassword = <<>> /\ mFocusInitialised = FALSE
  /\ grabbed = "none" /\ last = "none"
  /\ attempts = 0 /\ over = 0
-----------------------------------------------------------------------------
(* The callbacks.                                                          *)

mouseButtonCallback ==
  /\ mState # "Closed"
  /\ clicks < MaxClicks
  /\ clicks' = clicks + 1
  /\ buttonDown' = ~buttonDown
  /\ mInput' = IF buttonDown THEN [mInput EXCEPT !.mouseReleased = TRUE]
                             ELSE [mInput EXCEPT !.mousePressed = TRUE]
  /\ last' = "none"
  /\ UNCHANGED <<mState, cursor, keyDown, keys, form, ghosts>>

\* One key at a time goes down, repeats, or comes up again; the flag follows, but escape's.
keyCallback(key) ==
  /\ mState # "Closed"
  /\ keys < MaxKeys
  /\ keys' = keys + 1
  /\ \/ keyDown = "none" /\ keyDown' = key /\ mInput' = [mInput EXCEPT ![key] = TRUE]
     \/ keyDown = key /\ keyDown' = key
        /\ mInput' = [mInput EXCEPT ![key] = (key # "escape") \/ @]
     \/ keyDown = key /\ keyDown' = "none"
        /\ mInput' = [mInput EXCEPT ![key] = (key = "escape") /\ @]
  /\ last' = "none"
  /\ UNCHANGED <<mState, cursor, buttonDown, clicks, form, ghosts>>

charCallback ==
  /\ mState # "Closed"
  /\ keys < MaxKeys
  /\ keys' = keys + 1
  /\ mInput' = [mInput EXCEPT !.characters = @ + 1]
  /\ last' = "none"
  /\ UNCHANGED <<mState, physical, clicks, form, ghosts>>
-----------------------------------------------------------------------------
(* The widgets, as one pass over a screen with the focus f and the active  *)
(* widget a they start with.  At most one widget is under the cursor.      *)

\* Of the widgets drawn up to w, the one that took the focus is the one pressed.
\* A text field edits with the focus it finds when it is drawn.
FocusAt(w, under, f, order) ==
  IF mInput.mousePressed /\ \E i, j \in DOMAIN order : order[i] = under /\ order[j] = w /\ i <= j
  THEN WidgetId(under) ELSE f

ActiveAfter(under, a) == IF mInput.mousePressed /\ under # "none" THEN WidgetId(under) ELSE a

\* A click: released over the widget that holds the button.
Clicked(w, under, a) ==
  /\ w = under
  /\ ActiveAfter(under, a) = WidgetId(w)
  /\ mInput.mouseReleased

Minimum(m, n) == IF m < n THEN m ELSE n

\* textField: the characters that fit, then one removed.
Edited(value, stamp) ==
  LET typed == Minimum(mInput.characters, maxLength - Len(value))
      longer == value \o [i \in 1..typed |-> stamp]
  IN IF mInput.backspace /\ longer # <<>> THEN SubSeq(longer, 1, Len(longer) - 1) ELSE longer

\* Ui::end: a press on the background clears the focus, a release what is
\* active, and tab moves through the text fields the screen has.
FocusAfter(under, f, a, fields) ==
  LET g == IF mInput.mousePressed /\ ActiveAfter(under, a) = 0 THEN 0
           ELSE IF mInput.mousePressed /\ under # "none" THEN WidgetId(under) ELSE f
  IN IF ~mInput.tab \/ fields = <<>> THEN g
     ELSE IF \E i \in 1..(Len(fields) - 1) : WidgetId(fields[i]) = g
     THEN WidgetId(fields[(CHOOSE i \in 1..(Len(fields) - 1) : WidgetId(fields[i]) = g) + 1])
     ELSE WidgetId(fields[1])

Released(a) == IF mInput.mouseReleased THEN 0 ELSE a
-----------------------------------------------------------------------------
(* A frame.                                                                *)

\* update: what became of the connection.
Outcomes(state) ==
  CASE state = "Connecting" -> {"nothing", "joined", "failed"}
    [] state \in {"InGame", "Menu"} -> {"nothing", "failed"}
    [] OTHER -> {"nothing"}

StateAfter(outcome) ==
  CASE outcome = "joined" -> "InGame" [] outcome = "failed" -> "Login" [] OTHER -> mState

PasswordKept(password) == password
PasswordCleared(password) == <<>>

\* What drawUi does with the screen: of several widgets that report something in
\* one frame the screens prefer quit, and the menu resume.
Requested(state, under, a, submitted) ==
  CASE OnLogin(state) /\ Clicked("quit", under, a) -> "quit"
    [] state = "Login" /\ (Clicked("submit", under, a) \/ submitted) -> "submit"
    [] state = "InGame" /\ mInput.escape -> "menu"
    [] state = "Menu" /\ (Clicked("resume", under, a) \/ mInput.escape) -> "resume"
    [] state = "Menu" /\ Clicked("logout", under, a) -> "logout"
    [] state = "Menu" /\ Clicked("menuQuit", under, a) -> "quit"
    [] OTHER -> "nothing"

\* The button that reports a click.
ClickOf(state, under, a) ==
  IF under # "none" /\ under \notin TextFields /\ Clicked(under, under, a) THEN under ELSE "none"

Frame(outcome) ==
  LET state == StateAfter(outcome)
      under == Under(cursor, state)
      ended == over + (IF outcome = "failed" THEN 1 ELSE 0)
      arrives == OnLogin(state) /\ ~mFocusInitialised
      f == IF arrives THEN WidgetId("username") ELSE mFocused
      password == IF outcome = "failed" THEN PasswordCleared(mPassword) ELSE mPassword
      EditsField(w) == OnLogin(state) /\ FocusAt(w, under, f, LoginWidgets) = WidgetId(w)
      submitted == mInput.enter /\ \E w \in TextFields : EditsField(w)
      username2 == IF EditsField("username") THEN Edited(mUsername, ended) ELSE mUsername
      password2 == IF EditsField("password") THEN Edited(password, ended) ELSE password
      request == Requested(state, under, mActive, submitted)
      begins == request = "submit" /\ username2 # <<>> /\ password2 # <<>>
  IN /\ mState # "Closed"
     /\ begins => attempts < MaxAttempts
     /\ mState' = CASE begins -> "Connecting"
                    [] request = "quit" -> "Closed"
                    [] request = "menu" -> "Menu"
                    [] request = "resume" -> "InGame"
                    [] request = "logout" -> "Login"
                    [] OTHER -> state
     /\ mUsername' = username2
     /\ mPassword' = IF request = "logout" THEN PasswordCleared(password2) ELSE password2
     /\ mFocusInitialised' = IF request = "logout" THEN FALSE ELSE OnLogin(state) \/ mFocusInitialised
     /\ mFocused' = FocusAfter(under, f, mActive, IF OnLogin(state) THEN <<"username", "password">>
                                                                    ELSE <<>>)
     /\ mActive' = Released(ActiveAfter(under, mActive))
     /\ mInput' = NoInput /\ clicks' = 0 /\ keys' = 0
     /\ cursor' \in Positions
     /\ grabbed' = IF mInput.mousePressed THEN under ELSE grabbed
     /\ last' = ClickOf(state, under, mActive)
     /\ attempts' = IF begins THEN attempts + 1 ELSE attempts
     /\ over' = IF request = "logout" THEN ended + 1 ELSE ended
     /\ UNCHANGED <<buttonDown, keyDown>>

Next ==
  \/ mouseButtonCallback
  \/ (\E key \in {"backspace", "tab", "enter", "escape"} : keyCallback(key))
  \/ charCallback
  \/ \E outcome \in Outcomes(mState) : Frame(outcome)

Spec == Init /\ [][Next]_vars
-----------------------------------------------------------------------------
(* Correctness.                                                            *)

TypeOK ==
  /\ mState \in {"Login", "Connecting", "InGame", "Menu", "Closed"}
  /\ mInput \in Inputs
  /\ cursor \in Positions /\ buttonDown \in BOOLEAN
  /\ keyDown \in {"none", "backspace", "tab", "enter", "escape"}
  /\ clicks \in 0..MaxClicks /\ keys \in 0..MaxKeys
  /\ mFocused \in 0..7 /\ mActive \in 0..7
  /\ mUsername \in Seq(Nat) /\ Len(mUsername) <= maxLength
  /\ mPassword \in Seq(Nat) /\ Len(mPassword) <= maxLength
  /\ mFocusInitialised \in BOOLEAN
  /\ attempts \in 0..MaxAttempts /\ over \in 0..attempts

\* A button reports a click only to a user who pressed the mouse button on it and
\* let go over it: not if the press was on another screen's button that the same
\* place showed before the connection was lost, joined or closed, nor while the
\* button is still down.
ClickIsMeant == [][last' # "none" => last' = grabbed' /\ ~buttonDown]_vars

\* A login is submitted only with a password typed since the last one ended:
\* enter held down, or a second click, does not send the refused password again,
\* and none is left in the form for whoever comes after a logout.
PasswordIsRetyped ==
  [][attempts' > attempts =>
       mPassword' # <<>> /\ \A i \in DOMAIN mPassword' : mPassword'[i] = over']_vars
-----------------------------------------------------------------------------
(* What comments of the code say, and the code does not do.                *)

\* "Focus the first field on arrival so the form can be typed into without
\* clicking it first."
FocusOnArrival ==
  [][mState \notin {"Login", "Closed"} /\ mState' = "Login" /\ ~mInput.mousePressed /\ ~mInput.tab
       => ~mFocusInitialised' \/ mFocused' = WidgetId("username")]_vars

\* Input typed between two frames is kept for the next: an enter that went down
\* since the last one is still there.
EnterIsKept == [][mInput.enter => mInput'.enter \/ mInput' = NoInput]_vars
=============================================================================
