----------------------------- MODULE MCLoginForm -----------------------------
(* LoginForm for TLC.  Both screens are centred in the window: where one has *)
(* a widget the other may have one too.                                      *)
EXTENDS LoginForm

MCPositions == {[login |-> "none", menu |-> "none"],
                [login |-> "password", menu |-> "resume"],
                [login |-> "submit", menu |-> "menuQuit"],
                [login |-> "quit", menu |-> "logout"]}
=============================================================================
