---------------------------- MODULE LoginFormProofs ----------------------------
(***************************************************************************)
(* Proofs about LoginForm, for any places of the widgets, any number of    *)
(* logins and of keys in a frame, and fields of any length.                *)
(***************************************************************************)
EXTENDS LoginForm, TLAPS
-----------------------------------------------------------------------------
(* The widgets' ids.                                                       *)

Widgets == {"username", "password", "submit", "quit", "resume", "logout", "menuQuit"}

LEMMA WidgetPlaces ==
  /\ PlacesOf(LoginWidgets) \subseteq Widgets \cup {"none"}
  /\ PlacesOf(MenuWidgets) \subseteq Widgets \cup {"none"}
<1>1. /\ DOMAIN LoginWidgets = 1..4 /\ LoginWidgets[1] = "username" /\ LoginWidgets[2] = "password"
      /\ LoginWidgets[3] = "submit" /\ LoginWidgets[4] = "quit"
  BY DEF LoginWidgets
<1>2. /\ DOMAIN MenuWidgets = 1..3 /\ MenuWidgets[1] = "resume" /\ MenuWidgets[2] = "logout"
      /\ MenuWidgets[3] = "menuQuit"
  BY DEF MenuWidgets
<1>3. (\A i \in 1..4 : i \in {1, 2, 3, 4}) /\ (\A i \in 1..3 : i \in {1, 2, 3})
  OBVIOUS
<1>4. PlacesOf(LoginWidgets) \subseteq Widgets \cup {"none"}
  BY <1>1, <1>3 DEF PlacesOf, Widgets
<1>5. PlacesOf(MenuWidgets) \subseteq Widgets \cup {"none"}
  BY <1>2, <1>3 DEF PlacesOf, Widgets
<1>. QED
  BY <1>4, <1>5

\* The ids differ across the screens, not only within one.
LEMMA IdsDiffer ==
  /\ \A w \in Widgets : WidgetId(w) \in 1..7
  /\ \A v, w \in Widgets : WidgetId(v) = WidgetId(w) => v = w
<1>. DEFINE all == LoginWidgets \o MenuWidgets
<1>1. /\ Len(all) = 7
      /\ all[1] = "username" /\ all[2] = "password" /\ all[3] = "submit" /\ all[4] = "quit"
      /\ all[5] = "resume" /\ all[6] = "logout" /\ all[7] = "menuQuit"
  BY DEF LoginWidgets, MenuWidgets
<1>. HIDE DEF all
<1>2. 1 \in 1..7 /\ 2 \in 1..7 /\ 3 \in 1..7 /\ 4 \in 1..7 /\ 5 \in 1..7 /\ 6 \in 1..7 /\ 7 \in 1..7
  OBVIOUS
<1>3. \A w \in Widgets : \E i \in 1..Len(all) : all[i] = w
  BY <1>1, <1>2 DEF Widgets
<1>4. \A w : WidgetId(w) = CHOOSE i \in 1..Len(all) : all[i] = w
  BY DEF WidgetId, all
<1>5. \A w \in Widgets : WidgetId(w) \in 1..Len(all) /\ all[WidgetId(w)] = w
  BY <1>3, <1>4
<1>. QED
  BY <1>1, <1>5

\* What is under the cursor.
LEMMA UnderIsWidget ==
  ASSUME NEW p \in Positions, NEW state
  PROVE  Under(p, state) \in Widgets \cup {"none"}
<1>1. p.login \in Widgets \cup {"none"} /\ p.menu \in Widgets \cup {"none"}
  BY FormAssumption, WidgetPlaces
<1>. QED
  BY <1>1 DEF Under
-----------------------------------------------------------------------------
(* The flags of a frame.                                                   *)

Keys == {"backspace", "tab", "enter", "escape"}

LEMMA KeySet ==
  ASSUME NEW input \in Inputs, NEW key \in Keys, NEW b \in BOOLEAN
  PROVE  /\ [input EXCEPT ![key] = b] \in Inputs
         /\ [input EXCEPT ![key] = b].mousePressed = input.mousePressed
         /\ [input EXCEPT ![key] = b].mouseReleased = input.mouseReleased
         /\ [input EXCEPT ![key] = b].characters = input.characters
<1>1. CASE key = "backspace"
  BY <1>1 DEF Inputs
<1>2. CASE key = "tab"
  BY <1>2 DEF Inputs
<1>3. CASE key = "enter"
  BY <1>3 DEF Inputs
<1>4. CASE key = "escape"
  BY <1>4 DEF Inputs
<1>. QED
  BY <1>1, <1>2, <1>3, <1>4 DEF Keys

\* A text field takes the characters of the frame, and they all have its stamp.
LEMMA FieldEdited ==
  ASSUME NEW value \in Seq(Nat), Len(value) <= maxLength, NEW stamp \in Nat,
         mInput.characters \in Nat
  PROVE  /\ Edited(value, stamp) \in Seq(Nat) /\ Len(Edited(value, stamp)) <= maxLength
         /\ (\A i \in DOMAIN value : value[i] = stamp) =>
               \A i \in DOMAIN Edited(value, stamp) : Edited(value, stamp)[i] = stamp
<1>. DEFINE typed == Minimum(mInput.characters, maxLength - Len(value))
            more == [i \in 1..typed |-> stamp]
            longer == value \o more
<1>1. maxLength \in Nat /\ Len(value) \in Nat
  BY FormAssumption
<1>2. typed \in Nat /\ typed <= maxLength - Len(value)
  BY <1>1 DEF Minimum
<1>. HIDE DEF typed
<1>3. more \in Seq(Nat) /\ Len(more) = typed /\ \A i \in 1..typed : more[i] = stamp
  BY <1>2
<1>. HIDE DEF more
<1>4. /\ longer \in Seq(Nat) /\ Len(longer) = Len(value) + typed /\ DOMAIN longer = 1..(Len(value) + typed)
      /\ \A i \in 1..Len(value) : longer[i] = value[i]
      /\ \A i \in (Len(value) + 1)..(Len(value) + typed) : longer[i] = more[i - Len(value)]
  <2>1. longer \in Seq(Nat) /\ Len(longer) = Len(value) + Len(more)
    BY <1>3, SMTT(30)
  <2>2. \A i \in 1..Len(value) : longer[i] = value[i]
    BY <1>1, <1>2, <1>3
  <2>3. \A i \in (Len(value) + 1)..(Len(value) + typed) : longer[i] = more[i - Len(value)]
    BY <1>1, <1>2, <1>3
  <2>4. DOMAIN longer = 1..(Len(value) + typed)
    BY <1>3, <2>1
  <2>. QED
    BY <1>3, <2>1, <2>2, <2>3, <2>4
<1>. HIDE DEF longer
<1>5. (\A i \in DOMAIN value : value[i] = stamp) => \A i \in DOMAIN longer : longer[i] = stamp
  <2>. SUFFICES ASSUME \A i \in DOMAIN value : value[i] = stamp, NEW i \in DOMAIN longer
                PROVE  longer[i] = stamp
    OBVIOUS
  <2>1. CASE i <= Len(value)
    <3>1. i \in 1..Len(value) /\ i \in DOMAIN value
      BY <1>1, <1>4, <2>1
    <3>. QED
      BY <1>4, <3>1
  <2>2. CASE ~(i <= Len(value))
    <3>1. i \in (Len(value) + 1)..(Len(value) + typed) /\ i - Len(value) \in 1..typed
      BY <1>1, <1>2, <1>4, <2>2
    <3>. QED
      BY <1>3, <1>4, <3>1
  <2>. QED
    BY <2>1, <2>2
<1>6. Edited(value, stamp) = (IF mInput.backspace /\ longer # <<>>
                              THEN SubSeq(longer, 1, Len(longer) - 1) ELSE longer)
  BY DEF Edited, longer, more, typed
<1>7. Len(longer) <= maxLength
  BY <1>1, <1>2, <1>4
<1>8. CASE ~(mInput.backspace /\ longer # <<>>)
  BY <1>4, <1>5, <1>6, <1>7, <1>8
<1>9. CASE mInput.backspace /\ longer # <<>>
  <2>. DEFINE shorter == SubSeq(longer, 1, Len(longer) - 1)
  <2>1. Len(longer) \in Nat /\ Len(longer) # 0
    BY <1>4, <1>9
  <2>2. shorter \in Seq(Nat) /\ Len(shorter) = Len(longer) - 1
    BY <1>4, <2>1
  <2>3. \A i \in 1..(Len(longer) - 1) : shorter[i] = longer[i] /\ i \in DOMAIN longer
    BY <1>4, <2>1
  <2>4. DOMAIN shorter = 1..(Len(longer) - 1)
    BY <2>2
  <2>5. Len(shorter) <= maxLength
    BY <1>1, <1>7, <2>1, <2>2
  <2>6. Edited(value, stamp) = shorter
    BY <1>6, <1>9
  <2>. HIDE DEF shorter
  <2>. QED
    BY <1>5, <2>2, <2>3, <2>4, <2>5, <2>6
<1>. QED
  BY <1>8, <1>9

\* Whatever has the focus is a widget, or nothing has.
LEMMA FocusIsId ==
  ASSUME NEW under \in Widgets \cup {"none"}, NEW f \in 0..7, NEW a,
         NEW fields \in {<<"username", "password">>, <<>>}
  PROVE  FocusAfter(under, f, a, fields) \in 0..7
<1>. DEFINE g == IF mInput.mousePressed /\ ActiveAfter(under, a) = 0 THEN 0
                 ELSE IF mInput.mousePressed /\ under # "none" THEN WidgetId(under) ELSE f
            Next1 == \E i \in 1..(Len(fields) - 1) : WidgetId(fields[i]) = g
            n == CHOOSE i \in 1..(Len(fields) - 1) : WidgetId(fields[i]) = g
<1>1. \A w \in Widgets : WidgetId(w) \in 0..7
  BY IdsDiffer
<1>2. g \in 0..7
  BY <1>1
<1>. HIDE DEF g
<1>3. FocusAfter(under, f, a, fields) = (IF ~mInput.tab \/ fields = <<>> THEN g
                                         ELSE IF Next1 THEN WidgetId(fields[n + 1]) ELSE WidgetId(fields[1]))
  BY DEF FocusAfter, g
<1>4. CASE fields = <<>>
  BY <1>2, <1>3, <1>4
<1>5. CASE fields = <<"username", "password">>
  <2>1. fields[1] \in Widgets /\ fields[2] \in Widgets /\ Len(fields) = 2
    BY <1>5 DEF Widgets
  <2>2. Next1 => n = 1
    <3>1. Next1 => n \in 1..(Len(fields) - 1)
      OBVIOUS
    <3>. HIDE DEF n
    <3>. QED
      BY <2>1, <3>1
  <2>. HIDE DEF Next1, n
  <2>3. Next1 => n + 1 = 2
    BY <2>2
  <2>4. WidgetId(fields[1]) \in 0..7 /\ WidgetId(fields[2]) \in 0..7
    BY <1>1, <2>1
  <2>. QED
    BY <1>2, <1>3, <2>3, <2>4
<1>. QED
  BY <1>4, <1>5
-----------------------------------------------------------------------------
(* The invariants.                                                         *)

\* A login that has begun has ended or is the one of this screen.
Counted ==
  /\ mState \in {"Connecting", "InGame", "Menu"} => over + 1 = attempts
  /\ mState = "Login" => over = attempts

\* What is in the password's field was typed since the last login ended.
Stamped == \A i \in DOMAIN mPassword : mPassword[i] = over

FormInv == TypeOK /\ mInput.characters <= keys /\ Counted /\ Stamped

\* At most one edge of the button in a frame: an active widget is the one the
\* button went down on, and is active only while it is down or just released.
Held ==
  /\ clicks = 0 => ~mInput.mousePressed /\ ~mInput.mouseReleased
  /\ mInput.mousePressed => buttonDown /\ mActive = 0 /\ ~mInput.mouseReleased
  /\ mInput.mouseReleased => ~buttonDown
  /\ mActive # 0 => /\ buttonDown \/ mInput.mouseReleased
                    /\ grabbed \in Widgets /\ mActive = WidgetId(grabbed)

LEMMA FormInvInit == Init => FormInv /\ Held
<1>. SUFFICES ASSUME Init PROVE FormInv /\ Held
  OBVIOUS
<1>1. /\ 0 \in 0..MaxKeys /\ 0 \in 0..MaxClicks /\ 0 \in 0..MaxAttempts /\ 0 <= maxLength
      /\ 0 \in 0..7 /\ 0 \in 0..0
  BY FormAssumption
<1>2. <<>> \in Seq(Nat) /\ Len(<<>>) = 0 /\ DOMAIN <<>> = {}
  OBVIOUS
<1>3. NoInput \in Inputs /\ NoInput.characters = 0 /\ ~NoInput.mousePressed /\ ~NoInput.mouseReleased
  BY <1>1 DEF NoInput, Inputs
<1>4. TypeOK
  BY <1>1, <1>2, <1>3 DEF Init, TypeOK
<1>5. mInput.characters <= keys
  BY <1>3 DEF Init
<1>6. Counted /\ Stamped
  BY <1>2 DEF Init, Counted, Stamped
<1>7. Held
  BY <1>3 DEF Init, Held
<1>. QED
  BY <1>4, <1>5, <1>6, <1>7 DEF FormInv

\* What the window system's callbacks change.
LEMMA EventsKeep ==
  ASSUME FormInv, mouseButtonCallback \/ (\E key \in Keys : keyCallback(key)) \/ charCallback
  PROVE  FormInv' /\ last' = "none" /\ attempts' = attempts
<1>1. mInput \in Inputs /\ keys \in 0..MaxKeys /\ MaxKeys \in Nat /\ clicks \in 0..MaxClicks
      /\ MaxClicks \in Nat /\ mInput.characters \in 0..MaxKeys /\ mInput.characters <= keys
      /\ buttonDown \in BOOLEAN
  BY FormAssumption DEF FormInv, TypeOK, Inputs
<1>2. /\ UNCHANGED <<mState, cursor, mFocused, mActive, mUsername, mPassword, mFocusInitialised, grabbed, attempts, over>>
      /\ last' = "none"
  BY DEF mouseButtonCallback, keyCallback, charCallback, form, ghosts, physical
<1>3. Counted' /\ Stamped'
  BY <1>2 DEF FormInv, Counted, Stamped
<1>. DEFINE Typed == /\ mInput \in Inputs /\ buttonDown \in BOOLEAN
                     /\ keyDown \in {"none", "backspace", "tab", "enter", "escape"}
                     /\ clicks \in 0..MaxClicks /\ keys \in 0..MaxKeys
                     /\ mInput.characters <= keys
<1>4. ASSUME Typed' PROVE FormInv'
  <2>1. TypeOK'
    BY <1>2, <1>4 DEF FormInv, TypeOK
  <2>. QED
    BY <1>3, <1>4, <2>1 DEF FormInv
<1>5. SUFFICES Typed'
  BY <1>2, <1>4
<1>6. CASE mouseButtonCallback
  <2>1. /\ clicks < MaxClicks /\ clicks' = clicks + 1 /\ buttonDown' = ~buttonDown
        /\ mInput' = (IF buttonDown THEN [mInput EXCEPT !.mouseReleased = TRUE]
                                    ELSE [mInput EXCEPT !.mousePressed = TRUE])
        /\ keyDown' = keyDown /\ keys' = keys
    BY <1>6 DEF mouseButtonCallback
  <2>2. mInput' \in Inputs /\ mInput'.characters = mInput.characters
    BY <1>1, <2>1 DEF Inputs
  <2>3. clicks' \in 0..MaxClicks
    BY <1>1, <2>1
  <2>4. buttonDown' \in BOOLEAN
    BY <2>1
  <2>5. keyDown' \in {"none", "backspace", "tab", "enter", "escape"}
    BY <2>1 DEF FormInv, TypeOK
  <2>. QED
    BY <1>1, <2>1, <2>2, <2>3, <2>4, <2>5
<1>7. ASSUME NEW key \in Keys, keyCallback(key)
      PROVE  Typed'
  <2>1. \E b \in BOOLEAN : mInput' = [mInput EXCEPT ![key] = b]
    <3>1. mInput[key] \in BOOLEAN
      BY <1>1 DEF Inputs, Keys
    <3>2. CASE mInput' = [mInput EXCEPT ![key] = TRUE]
      BY <3>2
    <3>3. CASE mInput' = [mInput EXCEPT ![key] = (key # "escape") \/ mInput[key]]
      <4>1. ((key # "escape") \/ mInput[key]) \in BOOLEAN
        OBVIOUS
      <4>. QED
        BY <3>3, <4>1
    <3>4. CASE mInput' = [mInput EXCEPT ![key] = (key = "escape") /\ mInput[key]]
      <4>1. ((key = "escape") /\ mInput[key]) \in BOOLEAN
        OBVIOUS
      <4>. QED
        BY <3>4, <4>1
    <3>. QED
      BY <1>7, <3>2, <3>3, <3>4 DEF keyCallback
  <2>2. mInput' \in Inputs /\ mInput'.characters = mInput.characters
    <3>1. PICK b \in BOOLEAN : mInput' = [mInput EXCEPT ![key] = b]
      BY <2>1
    <3>2. /\ [mInput EXCEPT ![key] = b] \in Inputs
          /\ [mInput EXCEPT ![key] = b].characters = mInput.characters
      BY <1>1, KeySet
    <3>. QED
      BY <3>1, <3>2
  <2>3. /\ keys < MaxKeys /\ keys' = keys + 1 /\ keyDown' \in {"none", key}
        /\ buttonDown' = buttonDown /\ clicks' = clicks
    BY <1>7 DEF keyCallback
  <2>4. keys' \in 0..MaxKeys /\ mInput.characters <= keys'
    BY <1>1, <2>3
  <2>. QED
    BY <1>1, <2>2, <2>3, <2>4 DEF Keys
<1>8. CASE charCallback
  <2>1. /\ keys < MaxKeys /\ keys' = keys + 1
        /\ mInput' = [mInput EXCEPT !.characters = mInput.characters + 1]
        /\ UNCHANGED <<buttonDown, keyDown, clicks>>
    BY <1>8 DEF charCallback, physical
  <2>2. mInput.characters + 1 \in 0..MaxKeys /\ mInput.characters + 1 <= keys' /\ keys' \in 0..MaxKeys
    BY <1>1, <2>1
  <2>3. mInput' \in Inputs /\ mInput'.characters = mInput.characters + 1
    BY <1>1, <2>1, <2>2 DEF Inputs
  <2>4. keyDown' \in {"none", "backspace", "tab", "enter", "escape"}
    BY <2>1 DEF FormInv, TypeOK
  <2>. QED
    BY <1>1, <2>1, <2>2, <2>3, <2>4
<1>. QED
  BY <1>6, <1>7, <1>8

\* The same, of the mouse button.
LEMMA EventsHold ==
  ASSUME FormInv, Held, MaxClicks <= 1,
         mouseButtonCallback \/ (\E key \in Keys : keyCallback(key)) \/ charCallback
  PROVE  Held'
<1>1. mInput \in Inputs /\ clicks \in 0..MaxClicks /\ MaxClicks \in Nat /\ buttonDown \in BOOLEAN
      /\ mInput.mousePressed \in BOOLEAN /\ mInput.mouseReleased \in BOOLEAN
  BY FormAssumption DEF FormInv, TypeOK, Inputs
<1>2. mActive' = mActive /\ grabbed' = grabbed
  BY DEF mouseButtonCallback, keyCallback, charCallback, form, ghosts
<1>3. CASE mouseButtonCallback
  <2>1. /\ clicks < MaxClicks /\ clicks' = clicks + 1 /\ buttonDown' = ~buttonDown
        /\ mInput' = (IF buttonDown THEN [mInput EXCEPT !.mouseReleased = TRUE]
                                    ELSE [mInput EXCEPT !.mousePressed = TRUE])
    BY <1>3 DEF mouseButtonCallback
  <2>2. clicks = 0 /\ clicks' # 0
    BY <1>1, <2>1
  <2>3. mInput.mousePressed = FALSE /\ mInput.mouseReleased = FALSE
    BY <1>1, <2>2 DEF Held
  <2>4. mInput'.mouseReleased = buttonDown /\ mInput'.mousePressed = ~buttonDown
    BY <1>1, <2>1, <2>3 DEF Inputs
  <2>5. mActive # 0 => buttonDown
    BY <2>3 DEF Held
  <2>. QED
    BY <1>2, <2>1, <2>2, <2>3, <2>4, <2>5 DEF Held
<1>4. CASE (\E key \in Keys : keyCallback(key)) \/ charCallback
  <2>1. /\ mInput'.mousePressed = mInput.mousePressed /\ mInput'.mouseReleased = mInput.mouseReleased
        /\ UNCHANGED <<buttonDown, clicks>>
    <3>1. CASE charCallback
      BY <1>1, <3>1 DEF charCallback, physical, Inputs
    <3>2. ASSUME NEW key \in Keys, keyCallback(key)
          PROVE  /\ mInput'.mousePressed = mInput.mousePressed
                 /\ mInput'.mouseReleased = mInput.mouseReleased
                 /\ UNCHANGED <<buttonDown, clicks>>
      <4>1. UNCHANGED <<buttonDown, clicks>>
        BY <3>2 DEF keyCallback
      <4>2. key # "mousePressed" /\ key # "mouseReleased"
        BY DEF Keys
      <4>3. \E b : mInput' = [mInput EXCEPT ![key] = b]
        BY <3>2 DEF keyCallback
      <4>. QED
        BY <1>1, <4>1, <4>2, <4>3 DEF Inputs
    <3>. QED
      BY <1>4, <3>1, <3>2
  <2>. QED
    BY <1>2, <2>1 DEF Held
<1>. QED
  BY <1>3, <1>4

\* What a frame makes of a login's outcome, before the screen is drawn.
LEMMA OutcomeCounted ==
  ASSUME FormInv, NEW outcome \in Outcomes(mState), mState # "Closed",
         NEW ended, ended = over + (IF outcome = "failed" THEN 1 ELSE 0)
  PROVE  /\ StateAfter(outcome) \in {"Login", "Connecting", "InGame", "Menu"}
         /\ StateAfter(outcome) # "Login" => ended + 1 = attempts
         /\ StateAfter(outcome) = "Login" => ended = attempts
         /\ ended \in Nat /\ attempts \in Nat /\ attempts <= MaxAttempts
         /\ outcome # "failed" => ended = over
<1>1. over \in Nat /\ attempts \in Nat /\ attempts <= MaxAttempts
      /\ mState \in {"Login", "Connecting", "InGame", "Menu"}
  BY FormAssumption DEF FormInv, TypeOK
<1>2. CASE outcome = "failed"
  <2>1. mState # "Login" /\ StateAfter(outcome) = "Login" /\ ended = over + 1
    BY <1>2 DEF Outcomes, StateAfter
  <2>2. over + 1 = attempts
    BY <1>1, <2>1 DEF FormInv, Counted
  <2>. QED
    BY <1>1, <1>2, <2>1, <2>2
<1>3. CASE outcome # "failed"
  <2>1. /\ StateAfter(outcome) \in {"Login", "Connecting", "InGame", "Menu"} /\ ended = over
        /\ StateAfter(outcome) = "Login" <=> mState = "Login"
    BY <1>1, <1>3 DEF Outcomes, StateAfter
  <2>. QED
    BY <1>1, <1>3, <2>1 DEF FormInv, Counted
<1>. QED
  BY <1>2, <1>3

\* Which requests a screen can come up with.
LEMMA RequestOfScreen ==
  ASSUME NEW state \in {"Login", "Connecting", "InGame", "Menu"}, NEW under, NEW a, NEW submitted
  PROVE  /\ Requested(state, under, a, submitted) \in
              {"quit", "submit", "menu", "resume", "logout", "nothing"}
         /\ Requested(state, under, a, submitted) = "submit" => state = "Login"
         /\ Requested(state, under, a, submitted) = "menu" => state = "InGame"
         /\ Requested(state, under, a, submitted) \in {"resume", "logout"} => state = "Menu"
  BY DEF Requested, OnLogin

\* A frame, by its parts.
RequestsOf == {"quit", "submit", "menu", "resume", "logout", "nothing"}

FrameOf(state, ended, begins, password2, request) ==
  /\ Len(password2) <= maxLength
  /\ \A i \in DOMAIN password2 : password2[i] = ended
  /\ request = "submit" => state = "Login"
  /\ request = "menu" => state = "InGame"
  /\ request \in {"resume", "logout"} => state = "Menu"
  /\ begins => request = "submit" /\ password2 # <<>> /\ attempts < MaxAttempts
  /\ mState' = CASE begins -> "Connecting"
                 [] request = "quit" -> "Closed"
                 [] request = "menu" -> "Menu"
                 [] request = "resume" -> "InGame"
                 [] request = "logout" -> "Login"
                 [] OTHER -> state
  /\ mUsername' \in Seq(Nat) /\ Len(mUsername') <= maxLength
  /\ mPassword' = (IF request = "logout" THEN <<>> ELSE password2)
  /\ mFocusInitialised' \in BOOLEAN
  /\ mFocused' \in 0..7
  /\ attempts' = (IF begins THEN attempts + 1 ELSE attempts)
  /\ over' = (IF request = "logout" THEN ended + 1 ELSE ended)

LEMMA FrameParts ==
  ASSUME FormInv, NEW outcome \in Outcomes(mState), Frame(outcome),
         NEW ended, ended = over + (IF outcome = "failed" THEN 1 ELSE 0)
  PROVE  \E begins \in BOOLEAN, password2 \in Seq(Nat), request \in RequestsOf :
           FrameOf(StateAfter(outcome), ended, begins, password2, request)
<1>. DEFINE state == StateAfter(outcome)
            under == Under(cursor, state)
            arrives == OnLogin(state) /\ ~mFocusInitialised
            f == IF arrives THEN WidgetId("username") ELSE mFocused
            password == IF outcome = "failed" THEN PasswordCleared(mPassword) ELSE mPassword
            EditsField(w) == OnLogin(state) /\ FocusAt(w, under, f, LoginWidgets) = WidgetId(w)
            submitted == mInput.enter /\ \E w \in TextFields : EditsField(w)
            username2 == IF EditsField("username") THEN Edited(mUsername, ended) ELSE mUsername
            password2 == IF EditsField("password") THEN Edited(password, ended) ELSE password
            request == Requested(state, under, mActive, submitted)
            begins == request = "submit" /\ username2 # <<>> /\ password2 # <<>>
            fields == IF OnLogin(state) THEN <<"username", "password">> ELSE <<>>
<1>1. /\ mState # "Closed" /\ (begins => attempts < MaxAttempts)
      /\ mState' = CASE begins -> "Connecting"
                     [] request = "quit" -> "Closed"
                     [] request = "menu" -> "Menu"
                     [] request = "resume" -> "InGame"
                     [] request = "logout" -> "Login"
                     [] OTHER -> state
      /\ mUsername' = username2
      /\ mPassword' = (IF request = "logout" THEN PasswordCleared(password2) ELSE password2)
      /\ mFocusInitialised' = (IF request = "logout" THEN FALSE ELSE OnLogin(state) \/ mFocusInitialised)
      /\ mFocused' = FocusAfter(under, f, mActive, fields)
      /\ attempts' = (IF begins THEN attempts + 1 ELSE attempts)
      /\ over' = (IF request = "logout" THEN ended + 1 ELSE ended)
  BY DEF Frame
<1>0. StateAfter(outcome) \in {"Login", "Connecting", "InGame", "Menu"} /\ ended \in Nat
  BY <1>1, OutcomeCounted
<1>2. /\ mInput.characters \in Nat /\ over \in Nat /\ cursor \in Positions
      /\ mUsername \in Seq(Nat) /\ Len(mUsername) <= maxLength
      /\ mPassword \in Seq(Nat) /\ Len(mPassword) <= maxLength
      /\ mFocused \in 0..7 /\ mFocusInitialised \in BOOLEAN /\ maxLength \in Nat
  BY FormAssumption DEF FormInv, TypeOK, Inputs
<1>3. ended \in Nat
  BY <1>0
<1>4. /\ password \in Seq(Nat) /\ Len(password) <= maxLength
      /\ \A i \in DOMAIN password : password[i] = ended
  <2>1. CASE outcome = "failed"
    <3>1. password = <<>>
      BY <2>1 DEF PasswordCleared
    <3>2. <<>> \in Seq(Nat) /\ Len(<<>>) = 0 /\ DOMAIN <<>> = {}
      OBVIOUS
    <3>. HIDE DEF password
    <3>. QED
      BY <1>2, <3>1, <3>2
  <2>2. CASE outcome # "failed"
    <3>1. password = mPassword /\ ended = over
      BY <1>2, <2>2
    <3>. HIDE DEF password
    <3>. QED
      BY <1>2, <3>1 DEF FormInv, Stamped
  <2>. QED
    BY <2>1, <2>2
<1>. DEFINE Eu == EditsField("username")
            Ep == EditsField("password")
<1>. HIDE DEF password
<1>5. /\ password2 \in Seq(Nat) /\ Len(password2) <= maxLength
      /\ \A i \in DOMAIN password2 : password2[i] = ended
  <2>. HIDE DEF EditsField
  <2>1. CASE Ep
    BY <1>2, <1>3, <1>4, <2>1, FieldEdited
  <2>2. CASE ~Ep
    BY <1>4, <2>2
  <2>. QED
    BY <2>1, <2>2
<1>6. username2 \in Seq(Nat) /\ Len(username2) <= maxLength
  <2>. HIDE DEF EditsField
  <2>1. CASE Eu
    BY <1>2, <1>3, <2>1, FieldEdited
  <2>2. CASE ~Eu
    BY <1>2, <2>2
  <2>. QED
    BY <2>1, <2>2
<1>7. under \in Widgets \cup {"none"}
  BY <1>2, UnderIsWidget
<1>8. f \in 0..7
  <2>1. WidgetId("username") \in 0..7
    BY IdsDiffer DEF Widgets
  <2>. QED
    BY <1>2, <2>1
<1>9. mFocused' \in 0..7
  <2>. HIDE DEF under, f, state
  <2>1. fields \in {<<"username", "password">>, <<>>}
    OBVIOUS
  <2>. HIDE DEF fields
  <2>. QED
    BY <1>1, <1>7, <1>8, <2>1, FocusIsId
<1>10. mFocusInitialised' \in BOOLEAN
  BY <1>1, <1>2
<1>11. mPassword' = (IF request = "logout" THEN <<>> ELSE password2)
  BY <1>1 DEF PasswordCleared
<1>12. begins \in BOOLEAN /\ (begins => request = "submit" /\ password2 # <<>> /\ attempts < MaxAttempts)
  BY <1>1
<1>13. /\ request \in RequestsOf
       /\ request = "submit" => state = "Login"
       /\ request = "menu" => state = "InGame"
       /\ request \in {"resume", "logout"} => state = "Menu"
  <2>. HIDE DEF under, submitted
  <2>. QED
    BY <1>0, RequestOfScreen DEF RequestsOf
<1>. HIDE DEF f, password2, username2, submitted, request, state, begins, under, fields
<1>14. FrameOf(state, ended, begins, password2, request)
  BY <1>1, <1>5, <1>6, <1>9, <1>10, <1>11, <1>12, <1>13 DEF FrameOf
<1>15. FrameOf(StateAfter(outcome), ended, begins, password2, request)
  BY <1>14 DEF state
<1>. QED
  BY <1>5, <1>12, <1>13, <1>15

\* A frame keeps the count of logins and the stamps, and a login that it begins
\* has a password of its own.
LEMMA FrameKeeps ==
  ASSUME FormInv, NEW outcome \in Outcomes(mState), Frame(outcome)
  PROVE  /\ FormInv'
         /\ attempts' > attempts =>
              mPassword' # <<>> /\ \A i \in DOMAIN mPassword' : mPassword'[i] = over'
<1>. DEFINE state == StateAfter(outcome)
            ended == over + (IF outcome = "failed" THEN 1 ELSE 0)
<1>1. PICK begins \in BOOLEAN, password2 \in Seq(Nat), request \in RequestsOf :
             FrameOf(state, ended, begins, password2, request)
  BY FrameParts
<1>2. mState # "Closed"
  BY DEF Frame
<1>3. /\ state \in {"Login", "Connecting", "InGame", "Menu"}
      /\ state # "Login" => ended + 1 = attempts
      /\ state = "Login" => ended = attempts
      /\ ended \in Nat /\ attempts \in Nat /\ attempts <= MaxAttempts
  BY <1>2, OutcomeCounted
<1>. HIDE DEF state, ended
<1>4. begins => state = "Login" /\ request = "submit"
  BY <1>1 DEF FrameOf
<1>5. /\ mState' \in {"Login", "Connecting", "InGame", "Menu", "Closed"}
      /\ mState' = "Login" => ~begins /\ (request = "logout" \/ state = "Login")
      /\ mState' \in {"Connecting", "InGame", "Menu"} =>
           begins \/ (request # "logout" /\ state # "Login")
  <2>1. CASE begins
    <3>1. mState' = "Connecting"
      BY <1>1, <1>4, <2>1 DEF FrameOf
    <3>. QED
      BY <2>1, <3>1
  <2>2. CASE ~begins
    <3>1. request = "quit" => mState' = "Closed"
      BY <1>1, <2>2 DEF FrameOf
    <3>2. request = "menu" => mState' = "Menu" /\ state = "InGame"
      BY <1>1, <2>2 DEF FrameOf
    <3>3. request = "resume" => mState' = "InGame" /\ state = "Menu"
      BY <1>1, <2>2 DEF FrameOf
    <3>4. request = "logout" => mState' = "Login"
      BY <1>1, <2>2 DEF FrameOf
    <3>5. request \in {"submit", "nothing"} => mState' = state
      BY <1>1, <2>2 DEF FrameOf
    <3>. QED
      BY <1>1, <1>3, <2>2, <3>1, <3>2, <3>3, <3>4, <3>5 DEF RequestsOf
  <2>. QED
    BY <2>1, <2>2
<1>6. /\ attempts' = (IF begins THEN attempts + 1 ELSE attempts)
      /\ over' = (IF request = "logout" THEN ended + 1 ELSE ended)
      /\ begins => attempts < MaxAttempts
      /\ request = "logout" => state = "Menu" /\ ~begins
  BY <1>1 DEF FrameOf
<1>7. Counted'
  <2>1. mState' = "Login" => over' = attempts'
    BY <1>3, <1>5, <1>6
  <2>2. mState' \in {"Connecting", "InGame", "Menu"} => over' + 1 = attempts'
    BY <1>3, <1>4, <1>5, <1>6
  <2>. QED
    BY <2>1, <2>2 DEF Counted
<1>8. attempts' \in 0..MaxAttempts /\ over' \in 0..attempts'
  <2>1. MaxAttempts \in Nat
    BY FormAssumption
  <2>. QED
    BY <1>3, <1>4, <1>6, <2>1
<1>9. /\ mPassword' \in Seq(Nat) /\ Len(mPassword') <= maxLength
      /\ \A i \in DOMAIN mPassword' : mPassword'[i] = over'
  <2>1. CASE request = "logout"
    <3>1. mPassword' = <<>>
      BY <1>1, <2>1 DEF FrameOf
    <3>2. <<>> \in Seq(Nat) /\ Len(<<>>) = 0 /\ DOMAIN <<>> = {} /\ 0 <= maxLength
      BY FormAssumption
    <3>. QED
      BY <3>1, <3>2
  <2>2. CASE request # "logout"
    <3>1. mPassword' = password2 /\ over' = ended
      BY <1>1, <1>6, <2>2 DEF FrameOf
    <3>. QED
      BY <1>1, <3>1 DEF FrameOf
  <2>. QED
    BY <2>1, <2>2
<1>10. mActive' \in 0..7
  <2>1. Under(cursor, StateAfter(outcome)) \in Widgets \cup {"none"}
    BY UnderIsWidget DEF FormInv, TypeOK
  <2>2. mActive' = Released(ActiveAfter(Under(cursor, StateAfter(outcome)), mActive))
    BY DEF Frame
  <2>3. \A w \in Widgets : WidgetId(w) \in 0..7
    BY IdsDiffer
  <2>4. mActive \in 0..7 /\ 0 \in 0..7
    BY DEF FormInv, TypeOK
  <2>. QED
    BY <2>1, <2>2, <2>3, <2>4 DEF Released, ActiveAfter
<1>11. /\ mInput' = NoInput /\ clicks' = 0 /\ keys' = 0 /\ cursor' \in Positions
       /\ buttonDown' = buttonDown /\ keyDown' = keyDown
  BY DEF Frame
<1>12. TypeOK' /\ mInput'.characters <= keys'
  <2>1. 0 \in 0..MaxKeys /\ 0 \in 0..MaxClicks
    BY FormAssumption
  <2>2. NoInput \in Inputs /\ NoInput.characters = 0
    BY <2>1 DEF NoInput, Inputs
  <2>3. /\ mUsername' \in Seq(Nat) /\ Len(mUsername') <= maxLength
        /\ mFocusInitialised' \in BOOLEAN /\ mFocused' \in 0..7
    BY <1>1 DEF FrameOf
  <2>4. buttonDown' \in BOOLEAN /\ keyDown' \in {"none", "backspace", "tab", "enter", "escape"}
    BY <1>11 DEF FormInv, TypeOK
  <2>5. TypeOK'
    BY <1>5, <1>8, <1>9, <1>10, <1>11, <2>1, <2>2, <2>3, <2>4 DEF TypeOK
  <2>6. mInput'.characters = 0 /\ keys' = 0
    BY <1>11, <2>2
  <2>. QED
    BY <2>5, <2>6
<1>13. Stamped'
  BY <1>9 DEF Stamped
<1>14. ASSUME attempts' > attempts PROVE mPassword' # <<>>
  <2>1. begins
    BY <1>3, <1>6, <1>14
  <2>2. password2 # <<>> /\ request # "logout"
    BY <1>1, <1>4, <2>1 DEF FrameOf
  <2>. QED
    BY <1>1, <2>2 DEF FrameOf
<1>. QED
  BY <1>7, <1>9, <1>12, <1>13, <1>14 DEF FormInv

\* A frame with at most one edge of the button: who is active was pressed, and
\* a click is of the widget that was.
LEMMA FrameHolds ==
  ASSUME FormInv, Held, NEW outcome \in Outcomes(mState), Frame(outcome)
  PROVE  Held' /\ (last' # "none" => last' = grabbed' /\ ~buttonDown)
<1>. DEFINE under == Under(cursor, StateAfter(outcome))
<1>1. /\ mActive' = Released(ActiveAfter(under, mActive))
      /\ grabbed' = (IF mInput.mousePressed THEN under ELSE grabbed)
      /\ last' = ClickOf(StateAfter(outcome), under, mActive)
      /\ mInput' = NoInput /\ clicks' = 0 /\ buttonDown' = buttonDown
  BY DEF Frame
<1>2. under \in Widgets \cup {"none"}
  BY UnderIsWidget DEF FormInv, TypeOK
<1>3. "none" \notin Widgets /\ \A w \in Widgets : WidgetId(w) # 0
  <2>1. \A w \in Widgets : WidgetId(w) \in 1..7
    BY IdsDiffer
  <2>2. \A n \in 1..7 : n # 0
    OBVIOUS
  <2>. QED
    BY <2>1, <2>2 DEF Widgets
<1>. HIDE DEF under
<1>4. ~NoInput.mousePressed /\ ~NoInput.mouseReleased
  BY DEF NoInput
<1>5. ASSUME mActive' # 0
      PROVE  buttonDown /\ grabbed' \in Widgets /\ mActive' = WidgetId(grabbed')
  <2>1. ~mInput.mouseReleased /\ mActive' = ActiveAfter(under, mActive)
    BY <1>1, <1>5 DEF Released
  <2>2. CASE mInput.mousePressed
    <3>1. under # "none" /\ mActive' = WidgetId(under)
      BY <1>5, <2>1, <2>2 DEF ActiveAfter, Held
    <3>. QED
      BY <1>1, <1>2, <2>2, <3>1 DEF Held
  <2>3. CASE ~mInput.mousePressed
    <3>1. mActive' = mActive /\ grabbed' = grabbed
      BY <1>1, <2>1, <2>3 DEF ActiveAfter
    <3>. QED
      BY <1>5, <2>1, <3>1 DEF Held
  <2>. QED
    BY <2>2, <2>3
<1>6. Held'
  BY <1>1, <1>4, <1>5 DEF Held
<1>7. ASSUME last' # "none"
      PROVE  last' = grabbed' /\ ~buttonDown
  <2>1. under # "none" /\ last' = under /\ mInput.mouseReleased
        /\ ActiveAfter(under, mActive) = WidgetId(under)
    BY <1>1, <1>7 DEF ClickOf, Clicked
  <2>2. ~mInput.mousePressed /\ ~buttonDown
    BY <2>1 DEF Held
  <2>3. mActive = WidgetId(under) /\ under \in Widgets
    BY <1>2, <2>1, <2>2 DEF ActiveAfter
  <2>4. grabbed \in Widgets /\ WidgetId(grabbed) = WidgetId(under)
    BY <1>3, <2>3 DEF Held
  <2>5. grabbed = under
    BY <2>3, <2>4, IdsDiffer
  <2>. QED
    BY <1>1, <2>1, <2>2, <2>5
<1>. QED
  BY <1>6, <1>7

LEMMA StillKeeps ==
  ASSUME UNCHANGED vars
  PROVE  (FormInv => FormInv') /\ (Held => Held')
<1>1. UNCHANGED <<mState, mInput, cursor, buttonDown, keyDown, clicks, keys, mFocused, mActive,
                  mUsername, mPassword, mFocusInitialised, grabbed, attempts, over>>
  BY DEF vars, physical, form, ghosts
<1>. QED
  BY <1>1 DEF FormInv, TypeOK, Counted, Stamped, Held

LEMMA FormInvStep == FormInv /\ [Next]_vars => FormInv'
<1>. SUFFICES ASSUME FormInv, [Next]_vars PROVE FormInv'
  OBVIOUS
<1>1. CASE UNCHANGED vars
  BY <1>1, StillKeeps
<1>2. CASE mouseButtonCallback \/ (\E key \in Keys : keyCallback(key)) \/ charCallback
  BY <1>2, EventsKeep
<1>3. ASSUME NEW outcome \in Outcomes(mState), Frame(outcome) PROVE FormInv'
  BY <1>3, FrameKeeps
<1>. QED
  BY <1>1, <1>2, <1>3 DEF Next, Keys
-----------------------------------------------------------------------------
(* What they establish.                                                    *)

\* Type correctness of the form: fields never exceed maxLength, the ids are of
\* widgets, and no login ends that has not begun.
THEOREM FormTypeCorrect == Spec => []TypeOK
<1>1. FormInv => TypeOK
  BY DEF FormInv
<1>. QED
  BY <1>1, FormInvInit, FormInvStep, PTL DEF Spec

\* A login is submitted only with a password typed since the last one ended
\* (beginLogin, clearPassword in screens.h and application.cpp).
THEOREM PasswordsAreRetyped == Spec => PasswordIsRetyped
<1>1. ASSUME FormInv, [Next]_vars
      PROVE  [attempts' > attempts =>
                mPassword' # <<>> /\ \A i \in DOMAIN mPassword' : mPassword'[i] = over']_vars
  <2>1. CASE UNCHANGED vars
    BY <2>1
  <2>2. CASE mouseButtonCallback \/ (\E key \in Keys : keyCallback(key)) \/ charCallback
    <3>1. attempts' = attempts /\ attempts \in Nat
      BY <2>2, <1>1, EventsKeep DEF FormInv, TypeOK
    <3>2. ~(attempts' > attempts)
      BY <3>1
    <3>. QED
      BY <3>2
  <2>3. ASSUME NEW outcome \in Outcomes(mState), Frame(outcome)
        PROVE  attempts' > attempts =>
                 mPassword' # <<>> /\ \A i \in DOMAIN mPassword' : mPassword'[i] = over'
    BY <1>1, <2>3, FrameKeeps
  <2>. QED
    BY <1>1, <2>1, <2>2, <2>3 DEF Next, Keys
<1>. QED
  BY <1>1, FormInvInit, FormInvStep, PTL DEF Spec, PasswordIsRetyped

\* A button acts only on a press and a release that were both on it, whatever
\* screens the connection brings up in between, if the mouse button changes at
\* most once in a frame (Ui::button; the widget ids of both screens differ).
THEOREM ClicksAreMeant ==
  ASSUME MaxClicks <= 1
  PROVE  Spec => ClickIsMeant
<1>. DEFINE ClickInv == FormInv /\ Held
<1>1. Init => ClickInv
  BY FormInvInit
<1>2. ASSUME ClickInv, [Next]_vars
      PROVE  Held' /\ [last' # "none" => last' = grabbed' /\ ~buttonDown]_vars
  <2>1. CASE UNCHANGED vars
    BY <1>2, <2>1, StillKeeps
  <2>2. CASE mouseButtonCallback \/ (\E key \in Keys : keyCallback(key)) \/ charCallback
    BY <1>2, <2>2, EventsKeep, EventsHold
  <2>3. ASSUME NEW outcome \in Outcomes(mState), Frame(outcome)
        PROVE  Held' /\ (last' # "none" => last' = grabbed' /\ ~buttonDown)
    BY <1>2, <2>3, FrameHolds
  <2>. QED
    BY <1>2, <2>1, <2>2, <2>3 DEF Next, Keys
<1>3. ClickInv /\ [Next]_vars => ClickInv'
  BY <1>2, FormInvStep
<1>4. ClickInv /\ [Next]_vars => [last' # "none" => last' = grabbed' /\ ~buttonDown]_vars
  BY <1>2
<1>. HIDE DEF ClickInv
<1>. QED
  BY <1>1, <1>3, <1>4, PTL DEF Spec, ClickIsMeant
=============================================================================
