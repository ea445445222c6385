------------------------------ MODULE Database ------------------------------
(***************************************************************************)
(* The accounts and sessions tables (server/sql/schema.sql), the SQL       *)
(* statements of server/dbserver/src/database.cpp, and the request         *)
(* handlers of server/dbserver/src/main.cpp that run one or two of them.   *)
(*                                                                         *)
(* A handler is the set of the outcomes it can have: the tables after it   *)
(* and the reply it sends.  A statement fails when Postgres is away; if it *)
(* goes away during the statement, the statement may have been executed    *)
(* all the same.                                                           *)
(***************************************************************************)
EXTENDS Naturals

CONSTANTS Names,     \* user names, up to case
          Secrets,   \* passwords; a password stands for its hash too
          Tokens,
          MaxAccounts \* bound on account ids

Player == 0
Admin == 2
Levels == {Player, Admin}
NoSecret == "no secret"

Account == [id : 0..MaxAccounts, secret : Secrets \cup {NoSecret}, level : Levels]
Session == [account : 0..MaxAccounts, expired : BOOLEAN]
NoAccount == [id |-> 0, secret |-> NoSecret, level |-> Player]
NoSession == [account |-> 0, expired |-> FALSE]

Tables == [accounts : [Names -> Account], sessions : [Tokens -> Session],
           nextId : 1..(MaxAccounts + 1)]

Exists(d, name) == d.accounts[name].id # 0
HasId(d, id) == id # 0 /\ \E n \in Names : d.accounts[n].id = id
Live(d, token) == d.sessions[token].account # 0 /\ ~d.sessions[token].expired
OwnerOf(d, token) == CHOOSE n \in Names : d.accounts[n].id = d.sessions[token].account
-----------------------------------------------------------------------------
(* The statements: what each does to the tables. *)

\* INSERT ... ON CONFLICT DO NOTHING; a taken name is left alone.
InsertOver(d, name, secret) ==
  [d EXCEPT !.accounts[name] = [id |-> d.nextId, secret |-> secret, level |-> Player],
            !.nextId = @ + 1]
createAccount(d, name, secret) ==
  IF Exists(d, name) THEN d ELSE InsertOver(d, name, secret)

setPermissionLevel(d, name, level) ==
  IF Exists(d, name) THEN [d EXCEPT !.accounts[name].level = level] ELSE d

\* DELETE; the sessions go with the account, by ON DELETE CASCADE.
deleteAccount(d, name) ==
  [d EXCEPT !.accounts[name] = NoAccount,
            !.sessions = [t \in Tokens |->
               IF Exists(d, name) /\ d.sessions[t].account = d.accounts[name].id
               THEN NoSession ELSE d.sessions[t]]]

createSession(d, id, token) ==
  [d EXCEPT !.sessions[token] = [account |-> id, expired |-> FALSE]]

deleteSession(d, token) == [d EXCEPT !.sessions[token] = NoSession]

purgeExpiredSessions(d) ==
  [d EXCEPT !.sessions = [t \in Tokens |->
     IF d.sessions[t].expired THEN NoSession ELSE d.sessions[t]]]
-----------------------------------------------------------------------------
(* The handlers.  `failing' says whether statements may fail this time. *)

Outcome(d, result) == [db |-> d, result |-> result, account |-> NoAccount]
Found(d, account) == [db |-> d, result |-> "Found", account |-> account]

\* A writing statement that fails, whether or not it was executed.
FailedWrite(failing, before, after) ==
  {Outcome(d, "Error") : d \in IF failing THEN {before, after} ELSE {}}

\* A failed lookup is answered like one that found nothing.
FailedLookup(failing, d) == IF failing THEN {Outcome(d, "Missing")} ELSE {}

AccountLookup(failing, d, name) ==
  {IF Exists(d, name) THEN Found(d, d.accounts[name]) ELSE Outcome(d, "Missing")}
    \cup FailedLookup(failing, d)

\* The reply carries the account's permission level, read by a join.
SessionLookup(failing, d, token) ==
  {IF Live(d, token) THEN Found(d, d.accounts[OwnerOf(d, token)]) ELSE Outcome(d, "Missing")}
    \cup FailedLookup(failing, d)

\* AccountCreate and AccountCreateWithLevel: a second statement sets the level,
\* and whether it succeeds is not looked at.
AccountCreate(failing, d, name, secret, level) ==
  LET created == createAccount(d, name, secret)
      raised == setPermissionLevel(created, name, level)
  IN  FailedWrite(failing, d, created) \cup
      IF Exists(d, name) THEN {Outcome(d, "Conflict")}
      ELSE {Outcome(raised, "Ok")} \cup
           (IF failing /\ level # Player THEN {Outcome(created, "Ok")} ELSE {})

AccountDelete(failing, d, name) ==
  {Outcome(deleteAccount(d, name), IF Exists(d, name) THEN "Ok" ELSE "NotFound")}
    \cup FailedWrite(failing, d, deleteAccount(d, name))

AccountSetLevel(failing, d, name, level) ==
  {Outcome(setPermissionLevel(d, name, level), IF Exists(d, name) THEN "Ok" ELSE "NotFound")}
    \cup FailedWrite(failing, d, setPermissionLevel(d, name, level))

SessionCreateUnchecked(failing, d, id, token) ==
  {Outcome(createSession(d, id, token), "Ok")}

\* SessionCreate: the foreign key refuses an account that is gone; touching
\* last_login_at is a second statement whose failure is reported for both.
SessionCreate(failing, d, id, token) ==
  IF ~HasId(d, id) THEN {Outcome(d, "Error")}
  ELSE {Outcome(createSession(d, id, token), "Ok")}
         \cup FailedWrite(failing, d, createSession(d, id, token))
=============================================================================
