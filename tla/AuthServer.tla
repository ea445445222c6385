----------------------------- MODULE AuthServer -----------------------------
(***************************************************************************)
(* Account management: the request handlers of the auth server             *)
(* (server/authserver/src/main.cpp) and the account commands of the world  *)
(* server's console, against the database server.                          *)
(*                                                                         *)
(* A request is a chain of database calls: its handler makes the first     *)
(* one, and each callback either answers the client or makes the next      *)
(* call.  Requests are slots 1..MaxRequests, in the order they arrive.     *)
(* Calls of different slots are executed in any order, since the links of  *)
(* two servers reach the database.                                         *)
(***************************************************************************)
EXTENDS Database

CONSTANTS Kinds,             \* the kinds of request that are made
          MaxRequests, MaxSqlErrors, MaxLinkLosses,
          Root, Bootstrap    \* account names: an admin's, and the old scheme's

Slots == 1..MaxRequests
rootToken == 0               \* the session the admin already has

AllKinds == {"login", "register", "adminCreate", "adminDelete", "adminSetLevel",
             "consoleCreate", "consoleDelete", "consoleLevel"}

ASSUME AuthAssumption == /\ {MaxRequests, MaxSqlErrors, MaxLinkLosses, MaxAccounts} \subseteq Nat
                         /\ Kinds \subseteq AllKinds
                         /\ {Root, Bootstrap} \subseteq Names /\ Root # Bootstrap
                         /\ Tokens = {rootToken} \cup Slots
                         /\ Secrets # {} /\ NoSecret \notin Secrets
                         /\ MaxAccounts > 1

VARIABLES db,          \* the tables
          requests,    \* slot -> the request and how far it is
          startup,     \* the auth server's start: its own chain of calls
          sqlErrors, linkLosses

vars == <<db, requests, startup, sqlErrors, linkLosses>>

AdminKinds == {"adminCreate", "adminDelete", "adminSetLevel"}

Calls == {"none", "AccountLookup", "SessionLookup", "AccountCreate", "AccountDelete",
          "AccountSetLevel", "SessionCreate"}

Results == {"", "Ok", "Found", "Missing", "NotFound", "Conflict", "Error"}
Verdicts == {"", "Success", "InvalidCredentials", "AccountExists", "ServerError",
             "NoSuchAccount", "InsufficientPermission", "SessionExpired",
             "MalformedRequest"}

\* call: the database call under way; reply: its answer, once executed.
\* account: what the lookup of the chain returned.  truth, written when a call is
\* executed, is what that call really came to; verdict is what the client is told.
Request == [kind : Kinds \cup {"none"}, name : Names, secret : Secrets, level : Levels,
            call : Calls, reply : Results, account : Account,
            truth : Verdicts \cup {"failed"}, verdict : Verdicts]

NoRequest(name, secret) ==
  [kind |-> "none", name |-> name, secret |-> secret, level |-> Player, call |-> "none",
   reply |-> "", account |-> NoAccount, truth |-> "", verdict |-> ""]

TypeOK ==
  /\ db \in Tables
  /\ requests \in [Slots -> Request]
  /\ startup \in {"AdminExists", "answered", "AccountDelete", "over"}
  /\ sqlErrors \in 0..MaxSqlErrors
  /\ linkLosses \in 0..MaxLinkLosses

AnySecret == CHOOSE w \in Secrets : TRUE

\* A database with an admin who has a session, and perhaps an admin account
\* left over from the old bootstrap scheme.
Init ==
  \E old \in BOOLEAN :
    LET root == [id |-> 1, secret |-> AnySecret, level |-> Admin]
        leftover == [id |-> 2, secret |-> AnySecret, level |-> Admin]
    IN  /\ db = [accounts |-> [n \in Names |-> IF n = Root THEN root
                                 ELSE IF n = Bootstrap /\ old THEN leftover ELSE NoAccount],
                 sessions |-> [t \in Tokens |-> IF t = rootToken
                                 THEN [account |-> 1, expired |-> FALSE] ELSE NoSession],
                 nextId |-> 3]
        /\ requests = [s \in Slots |-> NoRequest(Root, AnySecret)]
        /\ startup = "AdminExists"
        /\ sqlErrors = 0
        /\ linkLosses = 0

MayFail == sqlErrors < MaxSqlErrors
-----------------------------------------------------------------------------
(* Start: adminExists, and in its callback, whatever it says, deletion of a  *)
(* leftover bootstrap account.                                              *)

StartupExecutes ==
  \/ /\ startup = "AdminExists"
     /\ startup' = "answered"
     /\ UNCHANGED <<db, requests, sqlErrors, linkLosses>>
  \/ /\ startup = "AccountDelete"
     /\ startup' = "over"
     /\ \E o \in AccountDelete(MayFail, db, Bootstrap) :
          /\ db' = o.db
          /\ sqlErrors' = sqlErrors + (IF o.result = "Error" THEN 1 ELSE 0)
     /\ UNCHANGED <<requests, linkLosses>>

StartupKeepsLeftover ==
  /\ startup = "answered"
  /\ startup' = "over"
  /\ UNCHANGED <<db, requests, sqlErrors, linkLosses>>

StartupCallback ==
  /\ startup = "answered"
  /\ startup' = "AccountDelete"
  /\ UNCHANGED <<db, requests, sqlErrors, linkLosses>>
-----------------------------------------------------------------------------
(* Requests. *)

FirstCall(kind) ==
  CASE kind = "login" -> "AccountLookup"
    [] kind \in AdminKinds -> "SessionLookup"
    [] kind \in {"register", "consoleCreate"} -> "AccountCreate"
    [] kind = "consoleDelete" -> "AccountDelete"
    [] kind = "consoleLevel" -> "AccountSetLevel"

\* The arguments a kind does not carry are fixed.
Takes(kind, secret, level) ==
  /\ kind \in {"login", "register", "adminDelete", "consoleDelete"} => level = Player
  /\ kind \in {"adminDelete", "consoleDelete", "adminSetLevel", "consoleLevel"}
       => secret = AnySecret

IsNext(s) == /\ requests[s].kind = "none"
             /\ \A r \in 1..(s - 1) : requests[r].kind # "none"

\* A request cut short, of another protocol version, with a name, a password or
\* a level that is not allowed, or whose password cannot be hashed: answered at
\* once, one answer standing for all of them.
Reject(s, kind) ==
  /\ IsNext(s)
  /\ kind # "consoleDelete"
  /\ requests' = [requests EXCEPT ![s].kind = kind, ![s].verdict = "MalformedRequest"]
  /\ UNCHANGED <<db, startup, sqlErrors, linkLosses>>

\* A well-formed request reaches its handler.  Admin commands carry the admin's
\* token; register always asks for a player.
Receive(s, kind, name, secret, level) ==
  /\ IsNext(s)
  /\ Takes(kind, secret, level)
  /\ requests' = [requests EXCEPT ![s] =
       [NoRequest(name, secret) EXCEPT !.kind = kind, !.level = level,
                                       !.call = FirstCall(kind)]]
  /\ UNCHANGED <<db, startup, sqlErrors, linkLosses>>

\* The outcomes of the call slot s waits for.  A login's token is its slot.
Outcomes(failing, s) ==
  LET r == requests[s]
  IN  CASE r.call = "AccountLookup" -> AccountLookup(failing, db, r.name)
        [] r.call = "SessionLookup" -> SessionLookup(failing, db, rootToken)
        [] r.call = "AccountCreate" -> AccountCreate(failing, db, r.name, r.secret, r.level)
        [] r.call = "AccountDelete" -> AccountDelete(failing, db, r.name)
        [] r.call = "AccountSetLevel" -> AccountSetLevel(failing, db, r.name, r.level)
        [] r.call = "SessionCreate" -> SessionCreate(failing, db, r.account.id, s)

\* What a call with these tables before and after it has come to.
Truth(s, r, before, after) ==
  CASE r.call = "AccountLookup" ->
         IF Exists(before, r.name) /\ before.accounts[r.name].secret = r.secret
         THEN "" ELSE "InvalidCredentials"
    [] r.call = "SessionLookup" -> IF Live(before, rootToken) THEN "" ELSE "SessionExpired"
    [] r.call = "AccountCreate" ->
         IF Exists(before, r.name) THEN "AccountExists"
         ELSE IF Exists(after, r.name) /\ after.accounts[r.name].level = r.level
              THEN "Success" ELSE "failed"
    [] r.call = "AccountDelete" ->
         IF ~Exists(before, r.name) THEN "NoSuchAccount"
         ELSE IF ~Exists(after, r.name) THEN "Success" ELSE "failed"
    [] r.call = "AccountSetLevel" ->
         IF ~Exists(before, r.name) THEN "NoSuchAccount"
         ELSE IF after.accounts[r.name].level = r.level THEN "Success" ELSE "failed"
    [] r.call = "SessionCreate" ->
         IF after.sessions[s].account # 0 THEN "Success" ELSE "failed"

DbExecutes(s) ==
  /\ requests[s].call # "none"
  /\ requests[s].reply = ""
  /\ db.nextId <= MaxAccounts \/ requests[s].call # "AccountCreate"
  /\ \E o \in Outcomes(MayFail, s) :
       /\ db' = o.db
       /\ sqlErrors' = sqlErrors + (IF o \in Outcomes(FALSE, s) THEN 0 ELSE 1)
       /\ requests' = [requests EXCEPT ![s].reply = o.result,
                                       ![s].account = IF o.result = "Found" THEN o.account ELSE @,
                                       ![s].truth = Truth(s, requests[s], db, o.db)]
  /\ UNCHANGED <<startup, linkLosses>>

Answer(s, verdict) ==
  requests' = [requests EXCEPT ![s].call = "none", ![s].reply = "", ![s].verdict = verdict]

Ask(s, call) ==
  requests' = [requests EXCEPT ![s].call = call, ![s].reply = ""]

\* The verdict on a call that only creates, deletes or changes an account.  Of
\* the commands only the console's create looks for DbResult::Error.
WriteVerdictAlwaysSuccess(r) == "Success"
WriteVerdictSwapped(r) ==
  CASE r.reply = "Conflict" -> "NoSuchAccount"
    [] r.reply = "NotFound" -> "AccountExists"
    [] OTHER -> "Success"
WriteVerdict(r) ==
  CASE r.reply = "Conflict" -> "AccountExists"
    [] r.reply = "NotFound" -> "NoSuchAccount"
    [] r.reply = "Error" /\ r.kind = "consoleCreate" -> "ServerError"
    [] OTHER -> "Success"

Replied(s, call) == requests[s].call = call /\ requests[s].reply # ""

\* lookupAccount's callback in a login.
LoginLookedUp(s) ==
  /\ Replied(s, "AccountLookup")
  /\ IF requests[s].reply = "Found" /\ requests[s].account.secret = requests[s].secret
     THEN Ask(s, "SessionCreate")
     ELSE Answer(s, "InvalidCredentials")
  /\ UNCHANGED <<db, startup, sqlErrors, linkLosses>>

\* createSession's callback in a login.
LoginFinished(s) ==
  /\ Replied(s, "SessionCreate")
  /\ Answer(s, IF requests[s].reply = "Ok" THEN "Success" ELSE "ServerError")
  /\ UNCHANGED <<db, startup, sqlErrors, linkLosses>>

AdminCall(kind) == CASE kind = "adminCreate" -> "AccountCreate"
                     [] kind = "adminDelete" -> "AccountDelete"
                     [] kind = "adminSetLevel" -> "AccountSetLevel"

\* lookupSession's callback in an admin command.  Only here are the arguments of
\* a creation or a change of level looked at.
AdminLookedUp(s) ==
  /\ Replied(s, "SessionLookup")
  /\ \/ requests[s].reply # "Found" /\ Answer(s, "SessionExpired")
     \/ /\ requests[s].reply = "Found" /\ requests[s].account.level < Admin
        /\ Answer(s, "InsufficientPermission")
     \/ /\ requests[s].reply = "Found" /\ requests[s].account.level >= Admin
        /\ \/ Ask(s, AdminCall(requests[s].kind))
           \/ requests[s].kind # "adminDelete" /\ Answer(s, "MalformedRequest")
  /\ UNCHANGED <<db, startup, sqlErrors, linkLosses>>

\* The callbacks of the calls that create, delete or change an account, in the
\* handlers of register, of the admin commands and of the console's commands.
Finished(s, call) ==
  /\ Replied(s, call)
  /\ Answer(s, WriteVerdict(requests[s]))
  /\ UNCHANGED <<db, startup, sqlErrors, linkLosses>>

RegisterFinished(s) ==
  requests[s].kind = "register" /\ Finished(s, "AccountCreate")

AdminFinished(s) ==
  requests[s].kind \in AdminKinds /\ Finished(s, AdminCall(requests[s].kind))

ConsoleFinished(s) ==
  /\ requests[s].kind \in {"consoleCreate", "consoleDelete", "consoleLevel"}
  /\ Finished(s, FirstCall(requests[s].kind))

LinkLostSilently ==
  /\ linkLosses < MaxLinkLosses
  /\ linkLosses' = linkLosses + 1
  /\ startup' = "over"
  /\ requests' = [s \in Slots |-> [requests[s] EXCEPT !.call = "none", !.reply = ""]]
  /\ UNCHANGED <<db, sqlErrors>>

\* The links to the database are lost: failAllPending fails every pending call,
\* executed or not, and both servers reconnect.  At start-up the callback of
\* adminExists goes on to deleteAccount, which fails at once.
LinkLost ==
  /\ linkLosses < MaxLinkLosses
  /\ linkLosses' = linkLosses + 1
  /\ startup' = "over"
  /\ requests' = [s \in Slots |->
       IF requests[s].call = "none" THEN requests[s]
       ELSE [requests[s] EXCEPT !.call = "none", !.reply = "", !.verdict = "ServerError"]]
  /\ UNCHANGED <<db, sqlErrors>>
-----------------------------------------------------------------------------
SessionExpires(t) ==
  /\ Live(db, t)
  /\ db' = [db EXCEPT !.sessions[t].expired = TRUE]
  /\ UNCHANGED <<requests, startup, sqlErrors, linkLosses>>

\* The world server redeems the token of a login: deleteSession.
SessionRedeemed(t) ==
  /\ t # rootToken
  /\ Live(db, t)
  /\ db' = deleteSession(db, t)
  /\ UNCHANGED <<requests, startup, sqlErrors, linkLosses>>

Purge ==
  /\ \E t \in Tokens : db.sessions[t].expired
  /\ db' = purgeExpiredSessions(db)
  /\ UNCHANGED <<requests, startup, sqlErrors, linkLosses>>

Callback(s) == \/ LoginLookedUp(s) \/ LoginFinished(s)
               \/ RegisterFinished(s) \/ ConsoleFinished(s)
               \/ AdminLookedUp(s) \/ AdminFinished(s)

Next == \/ StartupExecutes \/ StartupCallback \/ LinkLost \/ Purge
        \/ \E t \in Tokens : SessionExpires(t) \/ SessionRedeemed(t)
        \/ \E s \in Slots : DbExecutes(s) \/ Callback(s) \/ \E k \in Kinds : Reject(s, k)
        \/ \E s \in Slots, k \in Kinds, n \in Names, w \in Secrets, l \in Levels :
             Receive(s, k, n, w, l)

Spec == Init /\ [][Next]_vars

\* The database server answers, and the servers poll for its answers.
Fairness == /\ WF_vars(StartupExecutes) /\ WF_vars(StartupCallback)
            /\ \A s \in Slots : WF_vars(DbExecutes(s)) /\ WF_vars(Callback(s))

FairSpec == Spec /\ Fairness
-----------------------------------------------------------------------------
\* Whoever holds a token got it by presenting the password of the account the
\* token opens, even when the account was deleted, and its name registered
\* anew, while the login was under way; and no session outlives its account.
TokenOpensOwnAccount ==
  \A s \in Slots : db.sessions[s].account # 0 =>
    \E n \in Names : /\ db.accounts[n].id = db.sessions[s].account
                     /\ db.accounts[n].secret = requests[s].secret

\* A request told Success has done what it asked for.
SuccessIsTrue ==
  \A s \in Slots : requests[s].verdict = "Success" => requests[s].truth = "Success"

\* A refusal names the real reason: InvalidCredentials, SessionExpired,
\* AccountExists and NoSuchAccount are only said when they were so.
RefusalIsTrue ==
  \A s \in Slots :
    requests[s].verdict \in {"InvalidCredentials", "SessionExpired",
                             "AccountExists", "NoSuchAccount"}
      => requests[s].truth = requests[s].verdict

\* Every request is answered.
EveryRequestAnswered ==
  \A s \in Slots : (requests[s].kind # "none") ~> (requests[s].verdict # "")

\* An account left over from the bootstrap scheme is removed at start.
LeftoverRemoved == <>[](db.accounts[Bootstrap].id # 2)
=============================================================================
