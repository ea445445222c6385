-------------------------- MODULE AuthServerProofs ---------------------------
(***************************************************************************)
(* Proofs about AuthServer and Database, for any number of accounts, of    *)
(* requests, of failing statements and of lost links.                      *)
(*                                                                         *)
(* The argument: account ids are given out once, and an account keeps its  *)
(* name and its password for as long as it exists.  So the account a login *)
(* looked up is, when its session is created, still the account with that  *)
(* id, or there is none and the foreign key refuses the session.           *)
(***************************************************************************)
EXTENDS AuthServer, TLAPS

\* Ids are unique and below the next one, and no session outlives its account.
DbInv(d) ==
  /\ d \in Tables
  /\ \A n \in Names : d.accounts[n].id < d.nextId
  /\ \A n, m \in Names :
       d.accounts[n].id # 0 /\ d.accounts[n].id = d.accounts[m].id => n = m
  /\ \A t \in Tokens : d.sessions[t].account # 0 =>
       \E n \in Names : d.accounts[n].id = d.sessions[t].account

\* From tables d to tables e, an account stays itself or is new.
Evolves(d, e) ==
  /\ d.nextId <= e.nextId
  /\ \A n \in Names : e.accounts[n].id # 0 =>
       \/ e.accounts[n].id >= d.nextId
       \/ e.accounts[n].id = d.accounts[n].id /\ e.accounts[n].secret = d.accounts[n].secret

\* From tables d to tables e, the sessions of the tokens ts end or stay.
SessionsShrink(d, e, ts) ==
  \A t \in ts : e.sessions[t].account \in {0, d.sessions[t].account}

Keeps(d, e) == DbInv(e) /\ Evolves(d, e) /\ SessionsShrink(d, e, Tokens)
-----------------------------------------------------------------------------
(* The statements of database.cpp.                                         *)

LEMMA NoAccountTyped == NoAccount \in Account /\ NoSession \in Session
  BY AuthAssumption DEF NoAccount, Account, NoSession, Session, Levels, Player

LEMMA Fields ==
  ASSUME NEW d \in Tables
  PROVE  /\ d.nextId \in Nat /\ d.nextId \in 1..(MaxAccounts + 1)
         /\ d.accounts \in [Names -> Account] /\ d.sessions \in [Tokens -> Session]
         /\ \A n \in Names : /\ d.accounts[n] \in Account /\ d.accounts[n].id \in Nat
                             /\ d.accounts[n].id \in 0..MaxAccounts
                             /\ d.accounts[n].level \in Levels
         /\ \A t \in Tokens : /\ d.sessions[t] \in Session /\ d.sessions[t].account \in Nat
<1>1. MaxAccounts \in Nat
  BY AuthAssumption
<1>2. d.accounts \in [Names -> Account] /\ d.sessions \in [Tokens -> Session]
      /\ d.nextId \in 1..(MaxAccounts + 1)
  BY DEF Tables
<1>3. \A a \in Account : a.id \in Nat /\ a.id \in 0..MaxAccounts /\ a.level \in Levels
  BY <1>1 DEF Account
<1>4. \A x \in Session : x.account \in Nat
  BY <1>1 DEF Session
<1>. QED
  BY <1>1, <1>2, <1>3, <1>4

LEMMA KeepsItself ==
  ASSUME NEW d, DbInv(d)
  PROVE  Keeps(d, d)
<1>1. d.nextId \in Nat
  BY AuthAssumption DEF DbInv, Tables
<1>. QED
  BY <1>1 DEF Keeps, Evolves, SessionsShrink

LEMMA KeepsTransitive ==
  ASSUME NEW d, NEW e, NEW f, DbInv(d), Keeps(d, e), Keeps(e, f)
  PROVE  Keeps(d, f)
<1>1. d.nextId \in Nat /\ e.nextId \in Nat /\ f.nextId \in Nat
  BY AuthAssumption DEF Keeps, DbInv, Tables
<1>2. \A n \in Names : f.accounts[n].id \in Nat
  BY Fields DEF Keeps, DbInv
<1>3. Evolves(d, f)
  BY <1>1, <1>2 DEF Keeps, Evolves
<1>4. SessionsShrink(d, f, Tokens)
  BY DEF Keeps, SessionsShrink
<1>. QED
  BY <1>3, <1>4 DEF Keeps

LEMMA CreateAccountKeeps ==
  ASSUME NEW d, DbInv(d), NEW name \in Names, NEW secret \in Secrets, d.nextId <= MaxAccounts
  PROVE  Keeps(d, createAccount(d, name, secret))
<1>. DEFINE a == [id |-> d.nextId, secret |-> secret, level |-> Player]
            e == InsertOver(d, name, secret)
<1>1. CASE Exists(d, name)
  BY <1>1, KeepsItself DEF createAccount
<1>2. CASE ~Exists(d, name)
  <2>1. /\ d.nextId \in 1..(MaxAccounts + 1) /\ d.accounts \in [Names -> Account]
        /\ d.sessions \in [Tokens -> Session]
    BY DEF DbInv, Tables
  <2>2. a \in Account /\ d.nextId + 1 \in 1..(MaxAccounts + 1)
    BY <2>1, AuthAssumption DEF Account, Levels
  <2>3. /\ e.accounts = [d.accounts EXCEPT ![name] = a]
        /\ e.sessions = d.sessions
        /\ e.nextId = d.nextId + 1
    BY <2>1 DEF InsertOver, DbInv, Tables
  <2>4. e \in Tables
    BY <2>1, <2>2 DEF InsertOver, DbInv, Tables
  <2>5. \A n \in Names : d.accounts[n].id \in Nat /\ d.accounts[n].id < d.nextId
    BY Fields DEF DbInv
  <2>6. \A n \in Names : /\ n # name => e.accounts[n] = d.accounts[n]
                         /\ n = name => e.accounts[n].id = d.nextId
    BY <2>1, <2>3
  <2>7. d.accounts[name].id = 0
    BY <1>2 DEF Exists
  <2>. HIDE DEF e, a
  <2>8. DbInv(e)
    <3>1. \A n \in Names : e.accounts[n].id < e.nextId
      <4>1. d.nextId \in Nat
        BY Fields DEF DbInv
      <4>. TAKE n \in Names
      <4>2. CASE n = name
        BY <4>1, <4>2, <2>3, <2>6
      <4>3. CASE n # name
        <5>1. e.accounts[n].id = d.accounts[n].id
          BY <4>3, <2>6
        <5>2. d.accounts[n].id \in Nat /\ d.accounts[n].id < d.nextId
          BY <2>5
        <5>. QED
          BY <4>1, <5>1, <5>2, <2>3
      <4>. QED
        BY <4>2, <4>3
    <3>2. \A n, m \in Names :
            e.accounts[n].id # 0 /\ e.accounts[n].id = e.accounts[m].id => n = m
      BY <2>1, <2>5, <2>6 DEF DbInv
    <3>3. \A t \in Tokens : e.sessions[t].account # 0 =>
            \E n \in Names : e.accounts[n].id = e.sessions[t].account
      <4>. SUFFICES ASSUME NEW t \in Tokens, e.sessions[t].account # 0
                    PROVE  \E n \in Names : e.accounts[n].id = e.sessions[t].account
        OBVIOUS
      <4>1. PICK n \in Names : d.accounts[n].id = d.sessions[t].account
        BY <2>3 DEF DbInv
      <4>. QED
        BY <4>1, <2>3, <2>6, <2>7
    <3>. QED
      BY <2>4, <3>1, <3>2, <3>3 DEF DbInv
  <2>9. Evolves(d, e)
    BY <2>1, <2>3, <2>6 DEF Evolves
  <2>10. SessionsShrink(d, e, Tokens)
    BY <2>3 DEF SessionsShrink
  <2>. QED
    BY <1>2, <2>8, <2>9, <2>10 DEF Keeps, createAccount, e
<1>. QED
  BY <1>1, <1>2

LEMMA SetPermissionLevelKeeps ==
  ASSUME NEW d, DbInv(d), NEW name \in Names, NEW level \in Levels
  PROVE  Keeps(d, setPermissionLevel(d, name, level))
<1>. DEFINE e == [d EXCEPT !.accounts[name].level = level]
<1>1. CASE ~Exists(d, name)
  BY <1>1, KeepsItself DEF setPermissionLevel
<1>2. CASE Exists(d, name)
  <2>1. /\ d.nextId \in 1..(MaxAccounts + 1) /\ d.accounts \in [Names -> Account]
        /\ d.sessions \in [Tokens -> Session]
    BY DEF DbInv, Tables
  <2>2. d.accounts[name] \in Account
    BY <2>1
  <2>3. [d.accounts[name] EXCEPT !.level = level] \in Account
    BY <2>2 DEF Account
  <2>4. /\ e.accounts = [d.accounts EXCEPT ![name] = [d.accounts[name] EXCEPT !.level = level]]
        /\ e.sessions = d.sessions
        /\ e.nextId = d.nextId
        /\ e \in Tables
    BY <2>1, <2>3 DEF DbInv, Tables
  <2>5. \A n \in Names : /\ e.accounts[n].id = d.accounts[n].id
                         /\ e.accounts[n].secret = d.accounts[n].secret
    BY <2>1, <2>2, <2>4 DEF Account
  <2>6. d.nextId \in Nat
    BY <2>1, AuthAssumption
  <2>. HIDE DEF e
  <2>7. Keeps(d, e)
    BY <2>4, <2>5, <2>6 DEF Keeps, DbInv, Evolves, SessionsShrink
  <2>. QED
    BY <1>2, <2>7 DEF setPermissionLevel, e
<1>. QED
  BY <1>1, <1>2

LEMMA DeleteAccountKeeps ==
  ASSUME NEW d, DbInv(d), NEW name \in Names
  PROVE  Keeps(d, deleteAccount(d, name))
<1>. DEFINE e == deleteAccount(d, name)
<1>1. /\ d.nextId \in 1..(MaxAccounts + 1) /\ d.accounts \in [Names -> Account]
      /\ d.sessions \in [Tokens -> Session]
  BY DEF DbInv, Tables
<1>2. /\ e.accounts = [d.accounts EXCEPT ![name] = NoAccount]
      /\ e.sessions = [t \in Tokens |->
               IF Exists(d, name) /\ d.sessions[t].account = d.accounts[name].id
               THEN NoSession ELSE d.sessions[t]]
      /\ e.nextId = d.nextId
      /\ e \in Tables
  BY <1>1, NoAccountTyped DEF deleteAccount, DbInv, Tables
<1>3. NoAccount.id = 0 /\ NoSession.account = 0
  BY DEF NoAccount, NoSession
<1>4. \A n \in Names : /\ n # name => e.accounts[n] = d.accounts[n]
                       /\ n = name => e.accounts[n].id = 0
  BY <1>1, <1>2, <1>3
<1>5. \A t \in Tokens : e.sessions[t].account # 0 =>
        /\ e.sessions[t].account = d.sessions[t].account
        /\ d.sessions[t].account # d.accounts[name].id
  BY <1>2, <1>3 DEF Exists
<1>6. d.nextId \in Nat /\ d.nextId > 0
  BY <1>1, AuthAssumption
<1>. HIDE DEF e
<1>7. DbInv(e)
  <2>1. \A n \in Names : e.accounts[n].id < e.nextId
    BY <1>2, <1>4, <1>6 DEF DbInv
  <2>2. \A n, m \in Names :
          e.accounts[n].id # 0 /\ e.accounts[n].id = e.accounts[m].id => n = m
    BY <1>4 DEF DbInv
  <2>3. \A t \in Tokens : e.sessions[t].account # 0 =>
          \E n \in Names : e.accounts[n].id = e.sessions[t].account
    <3>. SUFFICES ASSUME NEW t \in Tokens, e.sessions[t].account # 0
                  PROVE  \E n \in Names : e.accounts[n].id = e.sessions[t].account
      OBVIOUS
    <3>1. PICK n \in Names : d.accounts[n].id = d.sessions[t].account
      BY <1>5 DEF DbInv
    <3>. QED
      BY <3>1, <1>4, <1>5
  <2>. QED
    BY <1>2, <2>1, <2>2, <2>3 DEF DbInv
<1>8. Evolves(d, e)
  BY <1>2, <1>4, <1>6 DEF Evolves
<1>9. SessionsShrink(d, e, Tokens)
  BY <1>5 DEF SessionsShrink
<1>. QED
  BY <1>7, <1>8, <1>9 DEF Keeps, e

\* Statements that leave the accounts alone and create no session.
LEMMA SessionStatementKeeps ==
  ASSUME NEW d, DbInv(d), NEW ss \in [Tokens -> Session],
         \A t \in Tokens : ss[t].account \in {0, d.sessions[t].account}
  PROVE  Keeps(d, [d EXCEPT !.sessions = ss])
<1>. DEFINE e == [d EXCEPT !.sessions = ss]
<1>1. /\ e \in Tables /\ e.accounts = d.accounts /\ e.nextId = d.nextId /\ e.sessions = ss
      /\ d.nextId \in Nat
  BY AuthAssumption DEF DbInv, Tables
<1>. HIDE DEF e
<1>2. DbInv(e)
  <2>1. \A t \in Tokens : e.sessions[t].account # 0 =>
          \E n \in Names : e.accounts[n].id = e.sessions[t].account
    BY <1>1 DEF DbInv
  <2>. QED
    BY <1>1, <2>1 DEF DbInv
<1>3. Evolves(d, e) /\ SessionsShrink(d, e, Tokens)
  BY <1>1 DEF Evolves, SessionsShrink
<1>. QED
  BY <1>2, <1>3 DEF Keeps, e

\* The foreign key: a session is created for an account that exists.
LEMMA CreateSessionKeeps ==
  ASSUME NEW d, DbInv(d), NEW id \in 0..MaxAccounts, HasId(d, id), NEW token \in Tokens
  PROVE  LET e == createSession(d, id, token)
         IN  /\ DbInv(e) /\ Evolves(d, e) /\ SessionsShrink(d, e, Tokens \ {token})
             /\ e.accounts = d.accounts
             /\ e.sessions[token].account = id
<1>. DEFINE e == createSession(d, id, token)
<1>1. d.sessions \in [Tokens -> Session] /\ [account |-> id, expired |-> FALSE] \in Session
  BY DEF DbInv, Tables, Session
<1>2. /\ e \in Tables /\ e.accounts = d.accounts /\ e.nextId = d.nextId
      /\ e.sessions = [d.sessions EXCEPT ![token] = [account |-> id, expired |-> FALSE]]
  BY <1>1 DEF createSession, DbInv, Tables
<1>3. /\ e.sessions[token].account = id
      /\ \A t \in Tokens \ {token} : e.sessions[t] = d.sessions[t]
  BY <1>1, <1>2
<1>. HIDE DEF e
<1>4. DbInv(e)
  <2>1. \A t \in Tokens : e.sessions[t].account # 0 =>
          \E n \in Names : e.accounts[n].id = e.sessions[t].account
    BY <1>2, <1>3 DEF DbInv, HasId
  <2>. QED
    BY <1>2, <2>1 DEF DbInv
<1>5. Evolves(d, e) /\ SessionsShrink(d, e, Tokens \ {token})
  BY <1>2, Fields, <1>3 DEF DbInv, Evolves, SessionsShrink
<1>. QED
  BY <1>2, <1>3, <1>4, <1>5 DEF e
-----------------------------------------------------------------------------
(* The handlers of the database server's main.cpp: every outcome of each.  *)

\* What a handler that creates no session can do to the tables and answer.
Harmless(d, o) ==
  Keeps(d, o.db) /\ o.result \in Results \ {""} /\ o.account \in Account

LEMMA OutcomeFields ==
  ASSUME NEW d, NEW result
  PROVE  /\ Outcome(d, result).db = d /\ Outcome(d, result).result = result
         /\ Outcome(d, result).account = NoAccount
  BY DEF Outcome

LEMMA OutcomeHarmless ==
  ASSUME NEW d, NEW e, Keeps(d, e), NEW result \in Results \ {""}
  PROVE  Harmless(d, Outcome(e, result))
  BY OutcomeFields, NoAccountTyped DEF Harmless

LEMMA FailedWriteHarmless ==
  ASSUME NEW failing \in BOOLEAN, NEW d, DbInv(d), NEW e, Keeps(d, e),
         NEW o \in FailedWrite(failing, d, e)
  PROVE  failing /\ o.result = "Error" /\ Harmless(d, o)
<1>1. PICK x \in {d, e} : failing /\ o = Outcome(x, "Error")
  BY DEF FailedWrite
<1>2. Keeps(d, x)
  BY KeepsItself
<1>3. "Error" \in Results \ {""}
  BY DEF Results
<1>4. Harmless(d, Outcome(x, "Error"))
  BY <1>2, <1>3, OutcomeHarmless
<1>5. Outcome(x, "Error").result = "Error"
  BY OutcomeFields
<1>. QED
  BY <1>1, <1>4, <1>5

LEMMA AccountLookupOutcome ==
  ASSUME NEW failing \in BOOLEAN, NEW d, DbInv(d), NEW name \in Names,
         NEW o \in AccountLookup(failing, d, name)
  PROVE  /\ Harmless(d, o) /\ o.db = d
         /\ o.result = "Found" => Exists(d, name) /\ o.account = d.accounts[name]
         /\ ~failing /\ Exists(d, name) => o.result = "Found"
<1>1. Keeps(d, d) /\ d.accounts[name] \in Account /\ {"Found", "Missing"} \subseteq Results \ {""}
  BY KeepsItself, Fields DEF DbInv, Results
<1>2. CASE o = Outcome(d, "Missing") /\ (failing \/ ~Exists(d, name))
  <2>1. Harmless(d, Outcome(d, "Missing"))
    BY <1>1, OutcomeHarmless
  <2>2. Outcome(d, "Missing").db = d /\ Outcome(d, "Missing").result = "Missing"
    BY OutcomeFields
  <2>. QED
    BY <2>1, <2>2, <1>2
<1>3. CASE Exists(d, name) /\ o = Found(d, d.accounts[name])
  <2>1. o.db = d /\ o.result = "Found" /\ o.account = d.accounts[name]
    BY <1>3 DEF Found
  <2>. QED
    BY <1>1, <1>3, <2>1 DEF Harmless
<1>. QED
  BY <1>2, <1>3 DEF AccountLookup, FailedLookup

LEMMA SessionLookupOutcome ==
  ASSUME NEW failing \in BOOLEAN, NEW d, DbInv(d), NEW token \in Tokens,
         NEW o \in SessionLookup(failing, d, token)
  PROVE  /\ Harmless(d, o) /\ o.db = d
         /\ ~failing /\ Live(d, token) => o.result = "Found"
<1>1. Keeps(d, d) /\ {"Found", "Missing"} \subseteq Results \ {""}
  BY KeepsItself DEF DbInv, Results
<1>2. CASE o = Outcome(d, "Missing") /\ (failing \/ ~Live(d, token))
  BY <1>1, <1>2, OutcomeHarmless, OutcomeFields
<1>3. CASE Live(d, token) /\ o = Found(d, d.accounts[OwnerOf(d, token)])
  <2>1. OwnerOf(d, token) \in Names
    BY <1>3 DEF Live, OwnerOf, DbInv
  <2>2. d.accounts[OwnerOf(d, token)] \in Account
    BY <2>1, Fields DEF DbInv
  <2>3. o.db = d /\ o.result = "Found" /\ o.account = d.accounts[OwnerOf(d, token)]
    BY <1>3 DEF Found
  <2>. QED
    BY <1>1, <2>2, <2>3 DEF Harmless
<1>. QED
  BY <1>2, <1>3 DEF SessionLookup, FailedLookup

LEMMA AccountCreateOutcome ==
  ASSUME NEW failing \in BOOLEAN, NEW d, DbInv(d), NEW name \in Names, NEW secret \in Secrets,
         NEW level \in Levels, d.nextId <= MaxAccounts,
         NEW o \in AccountCreate(failing, d, name, secret, level)
  PROVE  /\ Harmless(d, o)
         /\ ~failing => \/ o.result = "Conflict" /\ Exists(d, name)
                        \/ /\ o.result = "Ok" /\ ~Exists(d, name)
                           /\ Exists(o.db, name) /\ o.db.accounts[name].level = level
<1>. DEFINE created == createAccount(d, name, secret)
            raised == setPermissionLevel(created, name, level)
<1>1. Keeps(d, d) /\ Keeps(d, created) /\ {"Ok", "Conflict", "Error"} \subseteq Results \ {""}
  BY KeepsItself, CreateAccountKeeps DEF Results
<1>2. DbInv(created)
  BY <1>1 DEF Keeps
<1>3. Keeps(d, raised)
  <2>1. Keeps(created, raised)
    BY <1>2, SetPermissionLevelKeeps
  <2>. HIDE DEF created, raised
  <2>. QED
    BY <1>1, <2>1, KeepsTransitive
<1>4. ASSUME ~Exists(d, name)
      PROVE  Exists(raised, name) /\ raised.accounts[name].level = level
  <2>1. d.nextId # 0 /\ d.accounts \in [Names -> Account]
    BY Fields, AuthAssumption DEF DbInv
  <2>2. created.accounts[name] = [id |-> d.nextId, secret |-> secret, level |-> Player]
    BY <1>4, <2>1 DEF createAccount, InsertOver, DbInv, Tables
  <2>3. Exists(created, name) /\ created \in Tables
    BY <2>1, <2>2, <1>2 DEF Exists, DbInv
  <2>. HIDE DEF created
  <2>4. raised = [created EXCEPT !.accounts[name].level = level]
    BY <2>3 DEF setPermissionLevel
  <2>5. raised.accounts[name] = [created.accounts[name] EXCEPT !.level = level]
    BY <2>3, <2>4 DEF Tables
  <2>. QED
    BY <2>1, <2>2, <2>5 DEF Exists
<1>. HIDE DEF created, raised
<1>5. CASE o \in FailedWrite(failing, d, created)
  BY <1>1, <1>5, FailedWriteHarmless
<1>6. CASE Exists(d, name) /\ o = Outcome(d, "Conflict")
  BY <1>1, <1>6, OutcomeHarmless, OutcomeFields
<1>7. CASE ~Exists(d, name) /\ o = Outcome(raised, "Ok")
  BY <1>1, <1>3, <1>4, <1>7, OutcomeHarmless, OutcomeFields
<1>8. CASE failing /\ o = Outcome(created, "Ok")
  BY <1>1, <1>8, OutcomeHarmless, OutcomeFields
<1>. QED
  BY <1>5, <1>6, <1>7, <1>8 DEF AccountCreate, created, raised

LEMMA AccountDeleteOutcome ==
  ASSUME NEW failing \in BOOLEAN, NEW d, DbInv(d), NEW name \in Names,
         NEW o \in AccountDelete(failing, d, name)
  PROVE  /\ Harmless(d, o)
         /\ o.result = "Error" => failing
         /\ ~failing => \/ o.result = "NotFound" /\ ~Exists(d, name)
                        \/ o.result = "Ok" /\ Exists(d, name) /\ ~Exists(o.db, name)
<1>. DEFINE e == deleteAccount(d, name)
<1>1. Keeps(d, e) /\ {"Ok", "NotFound", "Error"} \subseteq Results \ {""}
  BY DeleteAccountKeeps DEF Results
<1>2. ~Exists(e, name)
  BY Fields DEF deleteAccount, DbInv, Tables, Exists, NoAccount
<1>. HIDE DEF e
<1>3. CASE o \in FailedWrite(failing, d, e)
  BY <1>1, <1>3, FailedWriteHarmless
<1>4. ASSUME NEW result \in {"Ok", "NotFound"}, o = Outcome(e, result),
             result = IF Exists(d, name) THEN "Ok" ELSE "NotFound"
      PROVE  /\ Harmless(d, o) /\ o.result = result /\ o.db = e
  BY <1>1, <1>4, OutcomeHarmless, OutcomeFields
<1>5. \/ o \in FailedWrite(failing, d, e)
      \/ o = Outcome(e, IF Exists(d, name) THEN "Ok" ELSE "NotFound")
  BY DEF AccountDelete, e
<1>. QED
  BY <1>2, <1>3, <1>4, <1>5

LEMMA AccountSetLevelOutcome ==
  ASSUME NEW failing \in BOOLEAN, NEW d, DbInv(d), NEW name \in Names, NEW level \in Levels,
         NEW o \in AccountSetLevel(failing, d, name, level)
  PROVE  /\ Harmless(d, o)
         /\ ~failing => \/ o.result = "NotFound" /\ ~Exists(d, name)
                        \/ /\ o.result = "Ok" /\ Exists(d, name)
                           /\ o.db.accounts[name].level = level
<1>. DEFINE e == setPermissionLevel(d, name, level)
<1>1. Keeps(d, e) /\ {"Ok", "NotFound", "Error"} \subseteq Results \ {""}
  BY SetPermissionLevelKeeps DEF Results
<1>2. Exists(d, name) => e.accounts[name].level = level
  <2>1. d.accounts \in [Names -> Account] /\ d.accounts[name] \in Account
    BY Fields DEF DbInv
  <2>2. Exists(d, name) => e.accounts[name] = [d.accounts[name] EXCEPT !.level = level]
    BY <2>1 DEF setPermissionLevel, DbInv, Tables
  <2>. QED
    BY <2>1, <2>2 DEF Account
<1>. HIDE DEF e
<1>3. CASE o \in FailedWrite(failing, d, e)
  BY <1>1, <1>3, FailedWriteHarmless
<1>4. ASSUME NEW result \in {"Ok", "NotFound"}, o = Outcome(e, result),
             result = IF Exists(d, name) THEN "Ok" ELSE "NotFound"
      PROVE  /\ Harmless(d, o) /\ o.result = result /\ o.db = e
  BY <1>1, <1>4, OutcomeHarmless, OutcomeFields
<1>5. \/ o \in FailedWrite(failing, d, e)
      \/ o = Outcome(e, IF Exists(d, name) THEN "Ok" ELSE "NotFound")
  BY DEF AccountSetLevel, e
<1>. QED
  BY <1>2, <1>3, <1>4, <1>5

\* SessionCreate creates the session of an account that exists, or none.
CreatesAtMost(failing, d, id, token, o) ==
  /\ o.result \in {"Ok", "Error"} /\ o.account \in Account
  /\ \/ Keeps(d, o.db) /\ (o.result = "Ok" => failing)
     \/ /\ HasId(d, id)
        /\ DbInv(o.db) /\ Evolves(d, o.db) /\ SessionsShrink(d, o.db, Tokens \ {token})
        /\ o.db.accounts = d.accounts
        /\ o.db.sessions[token].account = id

LEMMA SessionCreateOutcome ==
  ASSUME NEW failing \in BOOLEAN, NEW d, DbInv(d), NEW id \in 0..MaxAccounts,
         NEW token \in Tokens, NEW o \in SessionCreate(failing, d, id, token)
  PROVE  CreatesAtMost(failing, d, id, token, o)
<1>. DEFINE e == createSession(d, id, token)
<1>1. Keeps(d, d)
  BY KeepsItself
<1>2. CASE o = Outcome(d, "Error")
  BY <1>1, <1>2, OutcomeFields, NoAccountTyped DEF CreatesAtMost
<1>3. CASE HasId(d, id) /\ \E result \in {"Ok", "Error"} : o = Outcome(e, result)
  <2>1. /\ DbInv(e) /\ Evolves(d, e) /\ SessionsShrink(d, e, Tokens \ {token})
        /\ e.accounts = d.accounts /\ e.sessions[token].account = id
    BY <1>3, CreateSessionKeeps
  <2>. QED
    BY <2>1, <1>3, OutcomeFields, NoAccountTyped DEF CreatesAtMost
<1>. QED
  BY <1>2, <1>3 DEF SessionCreate, FailedWrite
-----------------------------------------------------------------------------
(* The inductive invariant.                                                *)

\* The account a login looked up is remembered over the next call: whoever has
\* that id still has that password, and it is the one the client presented.
Remembers(d, r) ==
  /\ (r.call = "SessionCreate" \/ (r.call = "AccountLookup" /\ r.reply = "Found")) =>
       /\ r.account.id # 0 /\ r.account.id < d.nextId
       /\ \A n \in Names : d.accounts[n].id = r.account.id =>
                            d.accounts[n].secret = r.account.secret
  /\ r.call = "SessionCreate" => r.account.secret = r.secret

Owned(d, r, s) ==
  d.sessions[s].account # 0 =>
    \E n \in Names : /\ d.accounts[n].id = d.sessions[s].account
                     /\ d.accounts[n].secret = r.secret

\* What holds of the request in slot s, the tables being d.
SlotInv(d, r, s) ==
  /\ r \in Request
  /\ r.kind = "none" => r.call = "none" /\ r.verdict = "" /\ d.sessions[s].account = 0
  /\ r.call = "none" => r.reply = ""
  /\ r.call = "SessionLookup" => r.kind \in AdminKinds
  /\ Remembers(d, r)
  /\ Owned(d, r, s)

IInv == /\ TypeOK
        /\ DbInv(db)
        /\ \A s \in Slots : SlotInv(db, requests[s], s)

LEMMA SlotsAreTokens == Slots \subseteq Tokens /\ rootToken \in Tokens /\ rootToken \notin Slots
  BY AuthAssumption DEF Slots, rootToken

\* What the tables do without the slot's own call leaves its part alone.
LEMMA SlotInvKept ==
  ASSUME NEW d, NEW e, NEW r, NEW s \in Slots, DbInv(d), DbInv(e), Evolves(d, e),
         SessionsShrink(d, e, {s}), SlotInv(d, r, s)
  PROVE  SlotInv(e, r, s)
<1>1. s \in Tokens
  BY SlotsAreTokens
<1>2. d.nextId \in Nat /\ e.nextId \in Nat /\ d.nextId <= e.nextId
      /\ \A n \in Names : d.accounts[n].id \in Nat /\ e.accounts[n].id \in Nat
      /\ d.sessions[s].account \in Nat /\ e.sessions[s].account \in Nat
  BY <1>1, Fields DEF DbInv, Evolves
<1>3. e.sessions[s].account # 0 => e.sessions[s].account = d.sessions[s].account
  BY DEF SessionsShrink
<1>4. r.account.id \in Nat
  <2>1. MaxAccounts \in Nat /\ r.account \in Account
    BY AuthAssumption DEF SlotInv, Request
  <2>. QED
    BY <2>1 DEF Account
<1>5. Remembers(e, r)
  <2>1. ASSUME r.account.id # 0, r.account.id < d.nextId,
               NEW n \in Names, e.accounts[n].id = r.account.id
        PROVE  d.accounts[n].id = r.account.id /\ e.accounts[n].secret = d.accounts[n].secret
    BY <1>2, <1>4, <2>1 DEF Evolves
  <2>2. r.account.id < d.nextId => r.account.id < e.nextId
    BY <1>2, <1>4
  <2>. QED
    BY <2>1, <2>2 DEF SlotInv, Remembers
<1>6. Owned(e, r, s)
  <2>. SUFFICES ASSUME e.sessions[s].account # 0
                PROVE  \E n \in Names : /\ e.accounts[n].id = e.sessions[s].account
                                        /\ e.accounts[n].secret = r.secret
    BY DEF Owned
  <2>1. PICK n \in Names : e.accounts[n].id = e.sessions[s].account
    BY <1>1 DEF DbInv
  <2>2. PICK m \in Names : /\ d.accounts[m].id = e.sessions[s].account
                           /\ d.accounts[m].secret = r.secret
    BY <1>3 DEF SlotInv, Owned
  <2>3. e.accounts[n].id < d.nextId
    BY <2>1, <2>2 DEF DbInv
  <2>4. d.accounts[n].id = e.accounts[n].id /\ d.accounts[n].secret = e.accounts[n].secret
    BY <1>2, <2>1, <2>3 DEF Evolves
  <2>5. n = m
    BY <2>1, <2>2, <2>4 DEF DbInv
  <2>. QED
    BY <2>1, <2>2, <2>4, <2>5
<1>. QED
  BY <1>3, <1>5, <1>6 DEF SlotInv

LEMMA InitIInv == Init => IInv
<1>. SUFFICES ASSUME Init PROVE IInv
  OBVIOUS
<1>. DEFINE root == [id |-> 1, secret |-> AnySecret, level |-> Admin]
            leftover == [id |-> 2, secret |-> AnySecret, level |-> Admin]
            open == [account |-> 1, expired |-> FALSE]
<1>1. PICK old \in BOOLEAN :
        db = [accounts |-> [n \in Names |-> IF n = Root THEN root
                              ELSE IF n = Bootstrap /\ old THEN leftover ELSE NoAccount],
              sessions |-> [t \in Tokens |-> IF t = rootToken THEN open ELSE NoSession],
              nextId |-> 3]
  BY DEF Init
<1>2. AnySecret \in Secrets
  BY AuthAssumption DEF AnySecret
<1>3. MaxAccounts \in Nat /\ MaxAccounts > 1
  BY AuthAssumption
<1>4. root \in Account /\ leftover \in Account /\ open \in Session
  BY <1>2, <1>3 DEF Account, Session, Levels
<1>5. /\ root.id = 1 /\ leftover.id = 2 /\ open.account = 1
      /\ NoAccount.id = 0 /\ NoSession.account = 0
  BY DEF NoAccount, NoSession
<1>. HIDE DEF root, leftover, open
<1>6. db \in Tables
  BY <1>1, <1>3, <1>4, NoAccountTyped DEF Tables
<1>7. /\ \A n \in Names : db.accounts[n] = IF n = Root THEN root
                              ELSE IF n = Bootstrap /\ old THEN leftover ELSE NoAccount
      /\ \A t \in Tokens : db.sessions[t] = IF t = rootToken THEN open ELSE NoSession
      /\ db.nextId = 3
  BY <1>1
<1>8. DbInv(db)
  <2>1. \A n \in Names : db.accounts[n].id = IF n = Root THEN 1
                            ELSE IF n = Bootstrap /\ old THEN 2 ELSE 0
    <3>. TAKE n \in Names
    <3>1. db.accounts[n] = IF n = Root THEN root
                             ELSE IF n = Bootstrap /\ old THEN leftover ELSE NoAccount
      BY <1>7
    <3>2. CASE n = Root
      BY <3>1, <3>2, <1>5
    <3>3. CASE n # Root /\ n = Bootstrap /\ old
      BY <3>1, <3>3, <1>5
    <3>4. CASE n # Root /\ ~(n = Bootstrap /\ old)
      BY <3>1, <3>4, <1>5
    <3>. QED
      BY <3>2, <3>3, <3>4
  <2>2. \A n \in Names : db.accounts[n].id < db.nextId
    <3>. TAKE n \in Names
    <3>1. db.accounts[n].id \in {0, 1, 2} /\ db.nextId = 3
      BY <1>7, <2>1
    <3>. QED
      BY <3>1
  <2>3. \A n, m \in Names :
          db.accounts[n].id # 0 /\ db.accounts[n].id = db.accounts[m].id => n = m
    BY <2>1
  <2>4. \A t \in Tokens : db.sessions[t].account # 0 =>
          \E n \in Names : db.accounts[n].id = db.sessions[t].account
    BY <1>5, <1>7, AuthAssumption
  <2>. QED
    BY <1>6, <2>2, <2>3, <2>4 DEF DbInv
<1>. DEFINE r == NoRequest(Root, AnySecret)
<1>9. /\ r \in Request /\ r.kind = "none" /\ r.call = "none" /\ r.verdict = "" /\ r.reply = ""
  BY <1>2, AuthAssumption, NoAccountTyped
     DEF NoRequest, Request, Levels, Calls, Results, Verdicts
<1>. HIDE DEF r
<1>10. \A s \in Slots : SlotInv(db, r, s)
  BY <1>5, <1>7, <1>9, SlotsAreTokens DEF SlotInv, Remembers, Owned
<1>11. requests = [s \in Slots |-> r] /\ startup = "AdminExists" /\ sqlErrors = 0 /\ linkLosses = 0
  BY DEF Init, r
<1>12. sqlErrors \in 0..MaxSqlErrors /\ linkLosses \in 0..MaxLinkLosses
  <2>1. MaxSqlErrors \in Nat /\ MaxLinkLosses \in Nat /\ sqlErrors = 0 /\ linkLosses = 0
    BY <1>11, AuthAssumption
  <2>. QED
    BY <2>1
<1>13. \A s \in Slots : requests[s] = r
  BY <1>11
<1>14. \A s \in Slots : SlotInv(db, requests[s], s)
  BY <1>10, <1>13
<1>15. TypeOK
  BY <1>6, <1>9, <1>11, <1>12 DEF TypeOK
<1>. QED
  BY <1>8, <1>14, <1>15 DEF IInv

\* A step of the tables in which no slot has a part.
LEMMA TablesStep ==
  ASSUME IInv, Keeps(db, db'), UNCHANGED requests, startup' \in {"AdminExists", "answered",
         "AccountDelete", "over"}, sqlErrors' \in 0..MaxSqlErrors, UNCHANGED linkLosses
  PROVE  IInv'
<1>1. \A s \in Slots : SlotInv(db', requests[s], s)
  <2>. TAKE s \in Slots
  <2>1. SessionsShrink(db, db', {s})
    BY SlotsAreTokens DEF Keeps, SessionsShrink
  <2>. QED
    BY <2>1, SlotInvKept DEF IInv, Keeps
<1>2. TypeOK' /\ DbInv(db)'
  BY DEF IInv, TypeOK, Keeps, DbInv
<1>. QED
  BY <1>1, <1>2 DEF IInv

\* A step of one slot that leaves the tables alone.
LEMMA SlotStep ==
  ASSUME IInv, NEW s \in Slots, NEW r, SlotInv(db, r, s),
         requests' = [requests EXCEPT ![s] = r],
         UNCHANGED <<db, startup, sqlErrors, linkLosses>>
  PROVE  IInv'
<1>1. requests' \in [Slots -> Request]
  BY DEF IInv, TypeOK, SlotInv
<1>2. \A u \in Slots : SlotInv(db', requests'[u], u)
  BY DEF IInv, TypeOK
<1>. QED
  BY <1>1, <1>2 DEF IInv, TypeOK, DbInv

LEMMA StartupIInv == IInv /\ (StartupExecutes \/ StartupCallback) => IInv'
<1>. SUFFICES ASSUME IInv, StartupExecutes \/ StartupCallback PROVE IInv'
  OBVIOUS
<1>1. CASE startup' \in {"answered", "AccountDelete"} /\ UNCHANGED <<db, requests, sqlErrors, linkLosses>>
  <2>1. Keeps(db, db')
    BY <1>1, KeepsItself DEF IInv
  <2>. QED
    BY <1>1, <2>1, TablesStep DEF IInv, TypeOK
<1>2. ASSUME startup' = "over", UNCHANGED <<requests, linkLosses>>,
             NEW o \in AccountDelete(MayFail, db, Bootstrap), db' = o.db,
             sqlErrors' = sqlErrors + (IF o.result = "Error" THEN 1 ELSE 0)
      PROVE  IInv'
  <2>1. MayFail \in BOOLEAN /\ Bootstrap \in Names
    BY AuthAssumption DEF MayFail
  <2>2. Keeps(db, db') /\ (o.result = "Error" => MayFail)
    BY <1>2, <2>1, AccountDeleteOutcome DEF IInv, Harmless
  <2>3. sqlErrors' \in 0..MaxSqlErrors
    <3>1. MaxSqlErrors \in Nat /\ sqlErrors \in 0..MaxSqlErrors
      BY AuthAssumption DEF IInv, TypeOK
    <3>. QED
      BY <1>2, <2>2, <3>1 DEF MayFail
  <2>. QED
    BY <1>2, <2>2, <2>3, TablesStep
<1>. QED
  BY <1>1, <1>2 DEF StartupExecutes, StartupCallback

LEMMA ReceiveIInv ==
  ASSUME IInv, NEW s \in Slots, NEW k \in Kinds, NEW n \in Names, NEW w \in Secrets,
         NEW l \in Levels, Reject(s, k) \/ Receive(s, k, n, w, l)
  PROVE  IInv'
<1>. DEFINE r == requests[s]
<1>1. /\ r \in Request /\ r.kind = "none" /\ r.call = "none" /\ r.reply = ""
      /\ db.sessions[s].account = 0 /\ requests \in [Slots -> Request]
      /\ UNCHANGED <<db, startup, sqlErrors, linkLosses>>
  BY DEF IInv, SlotInv, IsNext, Reject, Receive, TypeOK
<1>2. k \in AllKinds /\ k # "none"
  BY AuthAssumption DEF AllKinds
<1>3. CASE Reject(s, k)
  <2>. DEFINE q == [r EXCEPT !.kind = k, !.verdict = "MalformedRequest"]
  <2>1. requests' = [requests EXCEPT ![s] = q]
    BY <1>1, <1>3 DEF Reject
  <2>2. q \in Request /\ q.kind = k /\ q.call = "none" /\ q.reply = ""
    BY <1>1 DEF Request, Verdicts
  <2>. HIDE DEF q
  <2>3. SlotInv(db, q, s)
    BY <1>1, <1>2, <2>2 DEF SlotInv, Remembers, Owned
  <2>. QED
    BY <1>1, <2>1, <2>3, SlotStep
<1>4. CASE Receive(s, k, n, w, l)
  <2>. DEFINE q == [NoRequest(n, w) EXCEPT !.kind = k, !.level = l, !.call = FirstCall(k)]
  <2>1. requests' = [requests EXCEPT ![s] = q]
    BY <1>1, <1>4 DEF Receive
  <2>2. /\ FirstCall(k) \in Calls \ {"none", "SessionCreate"}
        /\ FirstCall(k) = "SessionLookup" => k \in AdminKinds
    BY <1>2 DEF FirstCall, Calls, AllKinds, AdminKinds
  <2>3. q \in Request /\ q.kind = k /\ q.call = FirstCall(k) /\ q.reply = ""
    BY <2>2, NoAccountTyped DEF NoRequest, Request, Results, Verdicts
  <2>. HIDE DEF q
  <2>4. SlotInv(db, q, s)
    BY <1>1, <1>2, <2>2, <2>3 DEF SlotInv, Remembers, Owned
  <2>. QED
    BY <1>1, <2>1, <2>4, SlotStep
<1>. QED
  BY <1>3, <1>4

\* A request whose last call was answered.
LEMMA AnsweredRequest ==
  ASSUME NEW r \in Request, NEW v \in Verdicts
  PROVE  LET q == [r EXCEPT !.call = "none", !.reply = "", !.verdict = v]
         IN  q \in Request /\ q.kind = r.kind /\ q.call = "none" /\ q.reply = "" /\ q.secret = r.secret
<1>1. "none" \in Calls /\ "" \in Results
  BY DEF Calls, Results
<1>. QED
  BY <1>1 DEF Request

\* The callbacks: a slot whose call was answered is done, or makes the next call.
LEMMA AnswerIInv ==
  ASSUME IInv, NEW s \in Slots, NEW verdict \in Verdicts, requests[s].call # "none",
         Answer(s, verdict), UNCHANGED <<db, startup, sqlErrors, linkLosses>>
  PROVE  IInv'
<1>. DEFINE r == requests[s]
            q == [r EXCEPT !.call = "none", !.reply = "", !.verdict = verdict]
<1>1. r \in Request /\ SlotInv(db, r, s) /\ requests \in [Slots -> Request]
  BY DEF IInv, SlotInv, TypeOK
<1>2. requests' = [requests EXCEPT ![s] = q]
  BY <1>1 DEF Answer
<1>3. q \in Request /\ q.kind = r.kind /\ q.call = "none" /\ q.reply = "" /\ q.secret = r.secret
  <2>1. r \in Request
    BY <1>1
  <2>. HIDE DEF r
  <2>. QED
    BY <2>1, AnsweredRequest
<1>4. r.kind # "none"
  BY <1>1 DEF SlotInv
<1>. HIDE DEF q
<1>5. SlotInv(db, q, s)
  BY <1>1, <1>3, <1>4 DEF SlotInv, Remembers, Owned
<1>. QED
  BY <1>2, <1>5, SlotStep

LEMMA AskIInv ==
  ASSUME IInv, NEW s \in Slots, NEW call \in Calls \ {"none", "SessionLookup"},
         requests[s].call # "none", Ask(s, call),
         call = "SessionCreate" =>
           /\ requests[s].call = "AccountLookup" /\ requests[s].reply = "Found"
           /\ requests[s].account.secret = requests[s].secret,
         UNCHANGED <<db, startup, sqlErrors, linkLosses>>
  PROVE  IInv'
<1>. DEFINE r == requests[s]
            q == [r EXCEPT !.call = call, !.reply = ""]
<1>1. r \in Request /\ SlotInv(db, r, s) /\ requests \in [Slots -> Request]
  BY DEF IInv, SlotInv, TypeOK
<1>2. requests' = [requests EXCEPT ![s] = q]
  BY <1>1 DEF Ask
<1>3. /\ q \in Request /\ q.kind = r.kind /\ q.call = call /\ q.reply = ""
      /\ q.secret = r.secret /\ q.account = r.account
  BY <1>1 DEF Request, Calls, Results
<1>4. r.kind # "none"
  BY <1>1 DEF SlotInv
<1>5. Remembers(db, q)
  BY <1>1, <1>3 DEF SlotInv, Remembers
<1>6. Owned(db, q, s)
  BY <1>1, <1>3 DEF SlotInv, Owned
<1>. HIDE DEF q
<1>7. SlotInv(db, q, s)
  BY <1>3, <1>4, <1>5, <1>6 DEF SlotInv
<1>. QED
  BY <1>2, <1>7, SlotStep

LEMMA CallbackIInv ==
  ASSUME IInv, NEW s \in Slots, Callback(s)
  PROVE  IInv'
<1>1. UNCHANGED <<db, startup, sqlErrors, linkLosses>> /\ requests[s].call # "none"
  BY DEF Callback, LoginLookedUp, LoginFinished, RegisterFinished, ConsoleFinished,
         AdminLookedUp, AdminFinished, Finished, Replied, SlotInv, IInv
<1>2. CASE LoginLookedUp(s)
  <2>1. "InvalidCredentials" \in Verdicts /\ "SessionCreate" \in Calls \ {"none", "SessionLookup"}
    BY DEF Verdicts, Calls
  <2>. QED
    BY <1>1, <1>2, <2>1, AnswerIInv, AskIInv DEF LoginLookedUp, Replied
<1>3. CASE LoginFinished(s)
  <2>1. {"Success", "ServerError"} \subseteq Verdicts
    BY DEF Verdicts
  <2>. QED
    BY <1>1, <1>3, <2>1, AnswerIInv DEF LoginFinished
<1>4. CASE RegisterFinished(s) \/ ConsoleFinished(s) \/ AdminFinished(s)
  <2>1. WriteVerdict(requests[s]) \in Verdicts
    BY DEF WriteVerdict, Verdicts
  <2>2. Answer(s, WriteVerdict(requests[s]))
    BY <1>4 DEF RegisterFinished, ConsoleFinished, AdminFinished, Finished
  <2>. QED
    BY <1>1, <2>1, <2>2, AnswerIInv
<1>5. CASE AdminLookedUp(s)
  <2>1. {"SessionExpired", "InsufficientPermission", "MalformedRequest"} \subseteq Verdicts
    BY DEF Verdicts
  <2>2. requests[s].kind \in AdminKinds
    BY <1>5 DEF AdminLookedUp, Replied, IInv, SlotInv
  <2>3. AdminCall(requests[s].kind) \in Calls \ {"none", "SessionLookup", "SessionCreate"}
    BY <2>2 DEF AdminKinds, AdminCall, Calls
  <2>4. CASE Ask(s, AdminCall(requests[s].kind))
    BY <1>1, <2>3, <2>4, AskIInv
  <2>. QED
    BY <1>1, <1>5, <2>1, <2>4, AnswerIInv DEF AdminLookedUp
<1>. QED
  BY <1>2, <1>3, <1>4, <1>5 DEF Callback

LEMMA LinkLostIInv == IInv /\ LinkLost => IInv'
<1>. SUFFICES ASSUME IInv, LinkLost PROVE IInv'
  OBVIOUS
<1>1. linkLosses' \in 0..MaxLinkLosses
  <2>1. MaxLinkLosses \in Nat /\ linkLosses \in 0..MaxLinkLosses
    BY AuthAssumption DEF IInv, TypeOK
  <2>2. linkLosses < MaxLinkLosses /\ linkLosses' = linkLosses + 1
    BY DEF LinkLost
  <2>. QED
    BY <2>1, <2>2
<1>2. ASSUME NEW s \in Slots
      PROVE  SlotInv(db, requests'[s], s)
  <2>. DEFINE r == requests[s]
              q == [r EXCEPT !.call = "none", !.reply = "", !.verdict = "ServerError"]
  <2>1. r \in Request /\ SlotInv(db, r, s)
    BY DEF IInv, SlotInv
  <2>2. requests'[s] = IF r.call = "none" THEN r ELSE q
    BY DEF LinkLost
  <2>3. q \in Request /\ q.kind = r.kind /\ q.call = "none" /\ q.reply = "" /\ q.secret = r.secret
    <3>1. r \in Request /\ "ServerError" \in Verdicts
      BY <2>1 DEF Verdicts
    <3>. HIDE DEF r
    <3>. QED
      BY <3>1, AnsweredRequest
  <2>. HIDE DEF q
  <2>4. r.call # "none" => SlotInv(db, q, s)
    BY <2>1, <2>3 DEF SlotInv, Remembers, Owned
  <2>. QED
    BY <2>1, <2>2, <2>4
<1>3. requests' \in [Slots -> Request]
  BY <1>2 DEF LinkLost, SlotInv
<1>. QED
  BY <1>1, <1>2, <1>3 DEF LinkLost, IInv, TypeOK, DbInv

LEMMA SessionStepIInv ==
  ASSUME IInv, Purge \/ \E t \in Tokens : SessionExpires(t) \/ SessionRedeemed(t)
  PROVE  IInv'
<1>1. db.sessions \in [Tokens -> Session] /\ db \in Tables /\ DbInv(db)
  BY DEF IInv, DbInv, Tables
<1>2. NoSession \in Session /\ NoSession.account = 0
  BY NoAccountTyped DEF NoSession
<1>3. PICK ss \in [Tokens -> Session] :
        /\ \A t \in Tokens : ss[t].account \in {0, db.sessions[t].account}
        /\ db' = [db EXCEPT !.sessions = ss]
  <2>1. CASE Purge
    <3>. DEFINE ss == [t \in Tokens |-> IF db.sessions[t].expired THEN NoSession ELSE db.sessions[t]]
    <3>1. ss \in [Tokens -> Session] /\ \A t \in Tokens : ss[t].account \in {0, db.sessions[t].account}
      BY <1>1, <1>2
    <3>. QED
      BY <2>1, <3>1 DEF Purge, purgeExpiredSessions
  <2>2. ASSUME NEW u \in Tokens, NEW x \in Session, x.account \in {0, db.sessions[u].account},
               db' = [db EXCEPT !.sessions[u] = x]
        PROVE  \E ss \in [Tokens -> Session] :
                 /\ \A t \in Tokens : ss[t].account \in {0, db.sessions[t].account}
                 /\ db' = [db EXCEPT !.sessions = ss]
    <3>. DEFINE ss == [db.sessions EXCEPT ![u] = x]
    <3>1. ss \in [Tokens -> Session] /\ \A t \in Tokens : ss[t].account \in {0, db.sessions[t].account}
      BY <1>1, <2>2
    <3>2. db' = [db EXCEPT !.sessions = ss]
      BY <1>1, <2>2 DEF Tables
    <3>. QED
      BY <3>1, <3>2
  <2>3. ASSUME NEW u \in Tokens, SessionRedeemed(u)
        PROVE  db' = [db EXCEPT !.sessions[u] = NoSession]
    BY <2>3 DEF SessionRedeemed, deleteSession
  <2>4. ASSUME NEW u \in Tokens, SessionExpires(u)
        PROVE  \E x \in Session : /\ x.account \in {0, db.sessions[u].account}
                                  /\ db' = [db EXCEPT !.sessions[u] = x]
    <3>. DEFINE x == [db.sessions[u] EXCEPT !.expired = TRUE]
    <3>1. db.sessions[u] \in Session
      BY <1>1
    <3>2. x \in Session /\ x.account = db.sessions[u].account
      BY <3>1 DEF Session
    <3>3. db' = [db EXCEPT !.sessions[u] = x]
      BY <1>1, <2>4 DEF SessionExpires, Tables
    <3>. QED
      BY <3>2, <3>3
  <2>. QED
    BY <1>2, <2>1, <2>2, <2>3, <2>4
<1>4. Keeps(db, db')
  BY <1>1, <1>3, SessionStatementKeeps
<1>. QED
  BY <1>4, TablesStep DEF IInv, TypeOK, Purge, SessionExpires, SessionRedeemed

\* The database executes the call of a slot.
LEMMA DbExecutesIInv ==
  ASSUME IInv, NEW s \in Slots, DbExecutes(s)
  PROVE  IInv'
<1>. DEFINE r == requests[s]
<1>1. /\ SlotInv(db, r, s) /\ DbInv(db) /\ requests \in [Slots -> Request] /\ s \in Tokens
      /\ r \in Request /\ r.call \in Calls \ {"none"} /\ r.reply = "" /\ r.kind # "none"
      /\ db.nextId <= MaxAccounts \/ r.call # "AccountCreate"
      /\ UNCHANGED <<startup, linkLosses>>
  BY SlotsAreTokens DEF IInv, SlotInv, TypeOK, DbExecutes, Request
<1>2. PICK o \in Outcomes(MayFail, s) :
        /\ db' = o.db
        /\ sqlErrors' = sqlErrors + (IF o \in Outcomes(FALSE, s) THEN 0 ELSE 1)
        /\ requests' = [requests EXCEPT ![s].reply = o.result,
                                        ![s].account = IF o.result = "Found" THEN o.account ELSE @,
                                        ![s].truth = Truth(s, requests[s], db, o.db)]
  BY DEF DbExecutes
<1>. DEFINE truth == Truth(s, r, db, o.db)
            account == IF o.result = "Found" THEN o.account ELSE r.account
            q == [r EXCEPT !.reply = o.result, !.account = account, !.truth = truth]
<1>3. requests' = [requests EXCEPT ![s] = q]
  BY <1>1, <1>2
<1>4. sqlErrors' \in 0..MaxSqlErrors
  <2>1. MaxSqlErrors \in Nat /\ sqlErrors \in 0..MaxSqlErrors
    BY AuthAssumption DEF IInv, TypeOK
  <2>2. CASE MayFail
    <3>1. sqlErrors' \in {sqlErrors + 0, sqlErrors + 1}
      BY <1>2
    <3>2. sqlErrors < MaxSqlErrors
      BY <2>2 DEF MayFail
    <3>. QED
      BY <2>1, <3>1, <3>2
  <2>3. CASE ~MayFail
    <3>1. MayFail = FALSE
      BY <2>3 DEF MayFail
    <3>2. o \in Outcomes(FALSE, s)
      BY <3>1
    <3>. QED
      BY <2>1, <3>2, <1>2
  <2>. QED
    BY <2>2, <2>3
<1>5. truth \in Verdicts \cup {"failed"}
  BY <1>1 DEF Truth, Calls, Verdicts
<1>6. /\ r.name \in Names /\ r.secret \in Secrets /\ r.level \in Levels
      /\ r.account \in Account /\ r.account.id \in 0..MaxAccounts
  BY <1>1 DEF Request, Account
<1>7. MayFail \in BOOLEAN /\ rootToken \in Tokens
  BY SlotsAreTokens DEF MayFail
<1>. HIDE DEF truth
<1>8. ASSUME o.result \in Results \ {""}, o.account \in Account
      PROVE  /\ account \in Account
             /\ q \in Request /\ q.kind = r.kind /\ q.call = r.call /\ q.reply = o.result
             /\ q.account = account /\ q.secret = r.secret
  <2>1. account \in Account
    BY <1>6, <1>8
  <2>. HIDE DEF account
  <2>. QED
    BY <1>1, <1>5, <1>8, <2>1 DEF Request
\* The other slots, and this one too unless it creates its session.
<1>9. ASSUME DbInv(o.db), Evolves(db, o.db), SessionsShrink(db, o.db, Tokens \ {s}),
             SlotInv(o.db, q, s)
      PROVE  IInv'
  <2>1. \A u \in Slots \ {s} : SlotInv(db', requests'[u], u)
    <3>. TAKE u \in Slots \ {s}
    <3>1. SessionsShrink(db, o.db, {u})
      BY <1>9, SlotsAreTokens DEF SessionsShrink
    <3>2. requests'[u] = requests[u] /\ SlotInv(db, requests[u], u)
      BY <1>1, <1>3 DEF IInv
    <3>. QED
      BY <1>1, <1>2, <1>9, <3>1, <3>2, SlotInvKept
  <2>2. requests'[s] = q
    BY <1>1, <1>3
  <2>3. q \in Request
    BY <1>9 DEF SlotInv
  <2>. HIDE DEF q
  <2>4. \A u \in Slots : SlotInv(db', requests'[u], u)
    BY <1>2, <1>9, <2>1, <2>2
  <2>5. requests' \in [Slots -> Request]
    BY <1>1, <1>3, <2>3
  <2>6. TypeOK'
    BY <1>1, <1>2, <1>4, <1>9, <2>5 DEF IInv, TypeOK, DbInv
  <2>. QED
    BY <1>2, <1>9, <2>4, <2>6 DEF IInv
<1>10. ASSUME Harmless(db, o), r.call # "SessionCreate",
              r.call = "AccountLookup" /\ o.result = "Found" =>
                Exists(db, r.name) /\ o.account = db.accounts[r.name] /\ o.db = db
       PROVE  IInv'
  <2>1. DbInv(o.db) /\ Evolves(db, o.db) /\ SessionsShrink(db, o.db, Tokens)
    BY <1>10 DEF Harmless, Keeps
  <2>2. SessionsShrink(db, o.db, {s}) /\ SessionsShrink(db, o.db, Tokens \ {s})
    BY <2>1, <1>1 DEF SessionsShrink
  <2>3. SlotInv(o.db, r, s)
    BY <1>1, <2>1, <2>2, SlotInvKept
  <2>4. /\ q \in Request /\ q.kind = r.kind /\ q.call = r.call /\ q.reply = o.result
        /\ q.account = account /\ q.secret = r.secret
    BY <1>8, <1>10 DEF Harmless
  <2>. HIDE DEF q
  <2>5. Remembers(o.db, q)
    <3>1. CASE ~(r.call = "AccountLookup" /\ o.result = "Found")
      BY <1>10, <2>4, <3>1 DEF Remembers
    <3>2. CASE r.call = "AccountLookup" /\ o.result = "Found"
      <4>1. q.account = db.accounts[r.name] /\ db.accounts[r.name].id # 0 /\ o.db = db
        BY <1>10, <2>4, <3>2 DEF Exists
      <4>. QED
        BY <1>1, <1>6, <2>4, <3>2, <4>1 DEF Remembers, DbInv
    <3>. QED
      BY <3>1, <3>2
  <2>6. Owned(o.db, q, s)
    BY <2>3, <2>4 DEF SlotInv, Owned
  <2>7. SlotInv(o.db, q, s)
    BY <1>1, <2>4, <2>5, <2>6 DEF SlotInv
  <2>. QED
    BY <1>9, <2>1, <2>2, <2>7 DEF q
<1>. HIDE DEF q, account, r
<1>11. CASE r.call = "AccountLookup"
  <2>1. o \in AccountLookup(MayFail, db, r.name)
    BY <1>11 DEF Outcomes, r
  <2>2. /\ Harmless(db, o) /\ o.db = db
        /\ o.result = "Found" => Exists(db, r.name) /\ o.account = db.accounts[r.name]
    <3>1. DbInv(db)
      BY <1>1
    <3>. QED
      BY <3>1, <1>6, <1>7, <2>1, AccountLookupOutcome
  <2>. QED
    BY <1>10, <1>11, <2>2
<1>12. CASE r.call = "SessionLookup"
  <2>1. o \in SessionLookup(MayFail, db, rootToken)
    BY <1>12 DEF Outcomes, r
  <2>2. Harmless(db, o)
    BY <1>1, <1>7, <2>1, SessionLookupOutcome
  <2>. QED
    BY <1>10, <1>12, <2>2
<1>13. CASE r.call = "AccountCreate"
  <2>1. o \in AccountCreate(MayFail, db, r.name, r.secret, r.level) /\ db.nextId <= MaxAccounts
    BY <1>1, <1>13 DEF Outcomes, r
  <2>2. Harmless(db, o)
    <3>1. DbInv(db)
      BY <1>1
    <3>. QED
      BY <3>1, <1>6, <1>7, <2>1, AccountCreateOutcome
  <2>. QED
    BY <1>10, <1>13, <2>2
<1>14. CASE r.call = "AccountDelete"
  <2>1. o \in AccountDelete(MayFail, db, r.name)
    BY <1>14 DEF Outcomes, r
  <2>2. Harmless(db, o)
    BY <1>1, <1>6, <1>7, <2>1, AccountDeleteOutcome
  <2>. QED
    BY <1>10, <1>14, <2>2
<1>15. CASE r.call = "AccountSetLevel"
  <2>1. o \in AccountSetLevel(MayFail, db, r.name, r.level)
    BY <1>15 DEF Outcomes, r
  <2>2. Harmless(db, o)
    BY <1>1, <1>6, <1>7, <2>1, AccountSetLevelOutcome
  <2>. QED
    BY <1>10, <1>15, <2>2
<1>16. CASE r.call = "SessionCreate"
  <2>1. o \in SessionCreate(MayFail, db, r.account.id, s)
    BY <1>16 DEF Outcomes, r
  <2>2. /\ o.result \in {"Ok", "Error"} /\ o.account \in Account
        /\ \/ Keeps(db, o.db)
           \/ /\ HasId(db, r.account.id)
              /\ DbInv(o.db) /\ Evolves(db, o.db) /\ SessionsShrink(db, o.db, Tokens \ {s})
              /\ o.db.accounts = db.accounts
              /\ o.db.sessions[s].account = r.account.id
    <3>1. CreatesAtMost(MayFail, db, r.account.id, s, o)
      BY <1>1, <1>6, <1>7, <2>1, SessionCreateOutcome
    <3>. QED
      BY <3>1 DEF CreatesAtMost
  <2>3. {"Ok", "Error"} \subseteq Results \ {""}
    BY DEF Results
  <2>4. /\ q \in Request /\ q.kind = r.kind /\ q.call = r.call /\ q.reply = o.result
        /\ q.account = r.account /\ q.secret = r.secret
    BY <1>8, <2>2, <2>3 DEF account
  <2>5. DbInv(o.db) /\ Evolves(db, o.db) /\ SessionsShrink(db, o.db, Tokens \ {s})
    BY <2>2 DEF Keeps, SessionsShrink
  <2>. HIDE DEF q
  <2>6. CASE Keeps(db, o.db)
    <3>1. SessionsShrink(db, o.db, {s})
      BY <1>1, <2>6 DEF Keeps, SessionsShrink
    <3>2. SlotInv(o.db, r, s)
      BY <1>1, <2>5, <3>1, SlotInvKept
    <3>3. SlotInv(o.db, q, s)
      BY <1>1, <1>16, <2>4, <3>2 DEF SlotInv, Remembers, Owned
    <3>. QED
      BY <1>9, <2>5, <3>3 DEF q
  <2>7. CASE /\ HasId(db, r.account.id)
             /\ o.db.accounts = db.accounts
             /\ o.db.sessions[s].account = r.account.id
    <3>1. /\ r.account.id # 0 /\ r.account.id < db.nextId
          /\ \A n \in Names : db.accounts[n].id = r.account.id =>
                               db.accounts[n].secret = r.account.secret
          /\ r.account.secret = r.secret
      BY <1>1, <1>16 DEF SlotInv, Remembers
    <3>2. Owned(o.db, q, s)
      BY <2>4, <2>7, <3>1 DEF Owned, HasId
    <3>3. r.account.id < o.db.nextId
      <4>1. db.nextId \in Nat /\ o.db.nextId \in Nat
        BY <1>1, <2>5, Fields DEF DbInv
      <4>2. db.nextId <= o.db.nextId
        BY <2>5 DEF Evolves
      <4>3. r.account.id \in Nat
        <5>1. MaxAccounts \in Nat
          BY AuthAssumption
        <5>. QED
          BY <5>1, <1>6
      <4>. QED
        BY <3>1, <4>1, <4>2, <4>3
    <3>4. Remembers(o.db, q)
      BY <2>4, <2>7, <3>1, <3>3 DEF Remembers
    <3>5. SlotInv(o.db, q, s)
      BY <1>1, <1>16, <2>4, <3>2, <3>4 DEF SlotInv
    <3>. QED
      BY <1>9, <2>5, <3>5 DEF q
  <2>. QED
    BY <2>2, <2>6, <2>7
<1>. QED
  BY <1>1, <1>11, <1>12, <1>13, <1>14, <1>15, <1>16 DEF Calls

LEMMA NextIInv == IInv /\ [Next]_vars => IInv'
<1>. SUFFICES ASSUME IInv, [Next]_vars PROVE IInv'
  OBVIOUS
<1>1. CASE UNCHANGED vars
  BY <1>1 DEF vars, IInv, TypeOK, DbInv
<1>2. CASE Next
  <2>1. Secrets # {} /\ Names # {} /\ Levels # {}
    BY AuthAssumption DEF Levels
  <2>2. ASSUME NEW s \in Slots, NEW k \in Kinds, Reject(s, k)
        PROVE  IInv'
    BY <2>1, <2>2, ReceiveIInv
  <2>. QED
    BY <1>2, <2>2, StartupIInv, LinkLostIInv, SessionStepIInv, DbExecutesIInv, CallbackIInv,
       ReceiveIInv DEF Next
<1>. QED
  BY <1>1, <1>2

LEMMA AlwaysIInv == Spec => []IInv
  BY InitIInv, NextIInv, PTL DEF Spec

\* The tables, the requests and the counters keep their types, whatever the
\* number of requests, of accounts and of failures.
THEOREM AuthTypeCorrect == Spec => []TypeOK
<1>1. IInv => TypeOK
  BY DEF IInv
<1>. QED
  BY <1>1, AlwaysIInv, PTL

\* A token opens the account whose password its holder presented, for any
\* interleaving of logins, deletions, registrations, failures and lost links.
THEOREM TokensOpenOwnAccounts == Spec => []TokenOpensOwnAccount
<1>1. IInv => TokenOpensOwnAccount
  BY DEF IInv, SlotInv, Owned, TokenOpensOwnAccount
<1>. QED
  BY <1>1, AlwaysIInv, PTL
-----------------------------------------------------------------------------
(* What the clients are told, for as long as no statement has failed.      *)

Refusals == {"InvalidCredentials", "SessionExpired", "AccountExists", "NoSuchAccount"}

\* A reply that has come says what its call came to.
ReplyIsTrue(r) ==
  r.reply # "" =>
    /\ r.call = "AccountLookup" => \/ r.reply = "Found" /\ r.account.secret = r.secret
                                  \/ r.truth = "InvalidCredentials"
    /\ r.call = "SessionLookup" => r.reply = "Found" \/ r.truth = "SessionExpired"
    /\ r.call \in {"AccountCreate", "AccountDelete", "AccountSetLevel"} =>
         \/ r.reply = "Ok" /\ r.truth = "Success"
         \/ r.reply = "Conflict" /\ r.truth = "AccountExists"
         \/ r.reply = "NotFound" /\ r.truth = "NoSuchAccount"
    /\ r.call = "SessionCreate" /\ r.reply = "Ok" => r.truth = "Success"

SoundSlot(r) ==
  /\ r.verdict = "Success" => r.truth = "Success"
  /\ r.verdict \in Refusals => r.truth = r.verdict
  /\ r.verdict # "" => r.call = "none"
  /\ ReplyIsTrue(r)

SoundInv == sqlErrors = 0 => \A s \in Slots : SoundSlot(requests[s])

LEMMA InitSound == Init => SoundInv
<1>. SUFFICES ASSUME Init, NEW s \in Slots PROVE SoundSlot(requests[s])
  BY DEF SoundInv
<1>1. requests[s] = NoRequest(Root, AnySecret)
  BY DEF Init
<1>2. NoRequest(Root, AnySecret).verdict = "" /\ NoRequest(Root, AnySecret).reply = ""
  BY DEF NoRequest
<1>. QED
  BY <1>1, <1>2 DEF SoundSlot, ReplyIsTrue, Refusals

\* A step of one slot.
LEMMA SoundStep ==
  ASSUME IInv, SoundInv, NEW s \in Slots, NEW q, sqlErrors' = 0 => sqlErrors = 0,
         requests' = [requests EXCEPT ![s] = q], sqlErrors' = 0 => SoundSlot(q)
  PROVE  SoundInv'
<1>. SUFFICES ASSUME sqlErrors' = 0, NEW u \in Slots PROVE SoundSlot(requests'[u])
  BY DEF SoundInv
<1>1. requests'[u] = IF u = s THEN q ELSE requests[u]
  BY DEF IInv, TypeOK
<1>. QED
  BY <1>1 DEF SoundInv

LEMMA ReceiveSound ==
  ASSUME IInv, SoundInv, NEW s \in Slots, NEW k \in Kinds, NEW n \in Names, NEW w \in Secrets,
         NEW l \in Levels, Reject(s, k) \/ Receive(s, k, n, w, l)
  PROVE  SoundInv'
<1>. DEFINE r == requests[s]
<1>1. /\ r \in Request /\ requests \in [Slots -> Request] /\ UNCHANGED sqlErrors
      /\ r.reply = "" /\ r.call = "none"
  BY DEF IInv, SlotInv, TypeOK, Reject, Receive, IsNext
<1>2. CASE Reject(s, k)
  <2>. DEFINE q == [r EXCEPT !.kind = k, !.verdict = "MalformedRequest"]
  <2>1. requests' = [requests EXCEPT ![s] = q]
    BY <1>1, <1>2 DEF Reject
  <2>2. q.verdict = "MalformedRequest" /\ q.call = "none" /\ q.reply = ""
    BY <1>1 DEF Request
  <2>. HIDE DEF q
  <2>3. SoundSlot(q)
    BY <2>2 DEF SoundSlot, ReplyIsTrue, Refusals
  <2>. QED
    BY <1>1, <2>1, <2>3, SoundStep
<1>3. CASE Receive(s, k, n, w, l)
  <2>. DEFINE q == [NoRequest(n, w) EXCEPT !.kind = k, !.level = l, !.call = FirstCall(k)]
  <2>1. requests' = [requests EXCEPT ![s] = q]
    BY <1>1, <1>3 DEF Receive
  <2>2. q.verdict = "" /\ q.reply = ""
    BY DEF NoRequest
  <2>. HIDE DEF q
  <2>3. SoundSlot(q)
    BY <2>2 DEF SoundSlot, ReplyIsTrue, Refusals
  <2>. QED
    BY <1>1, <2>1, <2>3, SoundStep
<1>. QED
  BY <1>2, <1>3

LEMMA AnswerSound ==
  ASSUME IInv, SoundInv, NEW s \in Slots, NEW verdict \in Verdicts,
         sqlErrors = 0 => /\ verdict = "Success" => requests[s].truth = "Success"
                          /\ verdict \in Refusals => requests[s].truth = verdict,
         Answer(s, verdict), UNCHANGED sqlErrors
  PROVE  SoundInv'
<1>. DEFINE r == requests[s]
            q == [r EXCEPT !.call = "none", !.reply = "", !.verdict = verdict]
<1>1. r \in Request /\ requests \in [Slots -> Request]
  BY DEF IInv, SlotInv, TypeOK
<1>2. requests' = [requests EXCEPT ![s] = q]
  BY <1>1 DEF Answer
<1>3. q.call = "none" /\ q.reply = "" /\ q.verdict = verdict /\ q.truth = r.truth
  BY <1>1 DEF Request
<1>. HIDE DEF q
<1>4. sqlErrors' = 0 => SoundSlot(q)
  BY <1>3 DEF SoundSlot, ReplyIsTrue
<1>. QED
  BY <1>2, <1>4, SoundStep

LEMMA AskSound ==
  ASSUME IInv, SoundInv, NEW s \in Slots, NEW call \in Calls, requests[s].call # "none",
         Ask(s, call), UNCHANGED sqlErrors
  PROVE  SoundInv'
<1>. DEFINE r == requests[s]
            q == [r EXCEPT !.call = call, !.reply = ""]
<1>1. r \in Request /\ requests \in [Slots -> Request]
  BY DEF IInv, SlotInv, TypeOK
<1>2. requests' = [requests EXCEPT ![s] = q]
  BY <1>1 DEF Ask
<1>3. q.reply = "" /\ q.verdict = r.verdict
  BY <1>1 DEF Request
<1>4. sqlErrors = 0 => r.verdict = ""
  BY DEF SoundInv, SoundSlot
<1>. HIDE DEF q
<1>5. sqlErrors' = 0 => SoundSlot(q)
  BY <1>3, <1>4 DEF SoundSlot, ReplyIsTrue, Refusals
<1>. QED
  BY <1>2, <1>5, SoundStep

LEMMA CallbackSound ==
  ASSUME IInv, SoundInv, NEW s \in Slots, Callback(s)
  PROVE  SoundInv'
<1>. DEFINE r == requests[s]
<1>1. UNCHANGED sqlErrors /\ r.call # "none" /\ r.reply # ""
  BY DEF Callback, LoginLookedUp, LoginFinished, RegisterFinished, ConsoleFinished,
         AdminLookedUp, AdminFinished, Finished, Replied, SlotInv, IInv
<1>2. sqlErrors = 0 => ReplyIsTrue(r)
  BY DEF SoundInv, SoundSlot
<1>3. CASE LoginLookedUp(s)
  <2>1. "InvalidCredentials" \in Verdicts /\ "SessionCreate" \in Calls
    BY DEF Verdicts, Calls
  <2>2. CASE Ask(s, "SessionCreate")
    BY <1>1, <2>1, <2>2, AskSound
  <2>3. CASE /\ Answer(s, "InvalidCredentials")
             /\ ~(r.reply = "Found" /\ r.account.secret = r.secret)
    <3>1. sqlErrors = 0 => r.truth = "InvalidCredentials"
      BY <1>1, <1>2, <1>3, <2>3 DEF LoginLookedUp, Replied, ReplyIsTrue
    <3>. QED
      BY <1>1, <2>1, <2>3, <3>1, AnswerSound
  <2>. QED
    BY <1>3, <2>2, <2>3 DEF LoginLookedUp
<1>4. CASE LoginFinished(s)
  <2>. DEFINE v == IF r.reply = "Ok" THEN "Success" ELSE "ServerError"
  <2>1. v \in Verdicts /\ v \notin Refusals
    BY DEF Verdicts, Refusals
  <2>2. sqlErrors = 0 => (v = "Success" => r.truth = "Success")
    BY <1>1, <1>2, <1>4 DEF LoginFinished, Replied, ReplyIsTrue
  <2>3. Answer(s, v)
    BY <1>4 DEF LoginFinished
  <2>. HIDE DEF v
  <2>. QED
    BY <1>1, <2>1, <2>2, <2>3, AnswerSound
<1>5. CASE RegisterFinished(s) \/ ConsoleFinished(s) \/ AdminFinished(s)
  <2>. DEFINE v == WriteVerdict(r)
  <2>1. v \in Verdicts
    BY DEF WriteVerdict, Verdicts
  <2>2. Answer(s, v) /\ r.call \in {"AccountCreate", "AccountDelete", "AccountSetLevel"}
    BY <1>5 DEF RegisterFinished, ConsoleFinished, AdminFinished, Finished, Replied,
                FirstCall, AdminCall, AdminKinds
  <2>3. sqlErrors = 0 => /\ v = "Success" => r.truth = "Success"
                         /\ v \in Refusals => r.truth = v
    BY <1>1, <1>2, <2>2 DEF ReplyIsTrue, WriteVerdict, Refusals
  <2>. HIDE DEF v
  <2>. QED
    BY <1>1, <2>1, <2>2, <2>3, AnswerSound
<1>6. CASE AdminLookedUp(s)
  <2>1. /\ {"SessionExpired", "InsufficientPermission", "MalformedRequest"} \subseteq Verdicts
        /\ {"InsufficientPermission", "MalformedRequest", "Success"} \cap Refusals = {}
        /\ "SessionExpired" # "Success" /\ "InsufficientPermission" # "Success"
        /\ "MalformedRequest" # "Success"
    BY DEF Verdicts, Refusals
  <2>2. r.kind \in AdminKinds
    BY <1>6 DEF AdminLookedUp, Replied, IInv, SlotInv
  <2>3. AdminCall(r.kind) \in Calls
    BY <2>2 DEF AdminKinds, AdminCall, Calls
  <2>4. CASE Ask(s, AdminCall(r.kind))
    BY <1>1, <2>3, <2>4, AskSound
  <2>5. CASE r.reply # "Found" /\ Answer(s, "SessionExpired")
    <3>1. sqlErrors = 0 => r.truth = "SessionExpired"
      BY <1>1, <1>2, <1>6, <2>5 DEF AdminLookedUp, Replied, ReplyIsTrue
    <3>. QED
      BY <1>1, <2>1, <2>5, <3>1, AnswerSound
  <2>6. CASE Answer(s, "InsufficientPermission")
    BY <1>1, <2>1, <2>6, AnswerSound
  <2>7. CASE Answer(s, "MalformedRequest")
    BY <1>1, <2>1, <2>7, AnswerSound
  <2>. QED
    BY <1>6, <2>4, <2>5, <2>6, <2>7 DEF AdminLookedUp
<1>. QED
  BY <1>3, <1>4, <1>5, <1>6 DEF Callback

LEMMA LinkLostSound == IInv /\ SoundInv /\ LinkLost => SoundInv'
<1>. SUFFICES ASSUME IInv, SoundInv, LinkLost, sqlErrors = 0, NEW s \in Slots
              PROVE  SoundSlot(requests'[s])
  BY DEF SoundInv, LinkLost
<1>. DEFINE r == requests[s]
            q == [r EXCEPT !.call = "none", !.reply = "", !.verdict = "ServerError"]
<1>1. r \in Request /\ SoundSlot(r)
  BY DEF IInv, SlotInv, SoundInv
<1>2. requests'[s] = IF r.call = "none" THEN r ELSE q
  BY DEF LinkLost
<1>3. q.call = "none" /\ q.reply = "" /\ q.verdict = "ServerError"
  BY <1>1 DEF Request
<1>. HIDE DEF q
<1>4. SoundSlot(q)
  BY <1>3 DEF SoundSlot, ReplyIsTrue, Refusals
<1>. QED
  BY <1>1, <1>2, <1>4

LEMMA DbExecutesSound ==
  ASSUME IInv, SoundInv, NEW s \in Slots, DbExecutes(s)
  PROVE  SoundInv'
<1>. DEFINE r == requests[s]
<1>1. /\ SlotInv(db, r, s) /\ DbInv(db) /\ requests \in [Slots -> Request] /\ s \in Tokens
      /\ r \in Request /\ r.call \in Calls \ {"none"}
      /\ db.nextId <= MaxAccounts \/ r.call # "AccountCreate"
  BY SlotsAreTokens DEF IInv, SlotInv, TypeOK, DbExecutes, Request
<1>2. PICK o \in Outcomes(MayFail, s) :
        /\ db' = o.db
        /\ sqlErrors' = sqlErrors + (IF o \in Outcomes(FALSE, s) THEN 0 ELSE 1)
        /\ requests' = [requests EXCEPT ![s].reply = o.result,
                                        ![s].account = IF o.result = "Found" THEN o.account ELSE @,
                                        ![s].truth = Truth(s, requests[s], db, o.db)]
  BY DEF DbExecutes
<1>. DEFINE truth == Truth(s, r, db, o.db)
            account == IF o.result = "Found" THEN o.account ELSE r.account
            q == [r EXCEPT !.reply = o.result, !.account = account, !.truth = truth]
<1>3. requests' = [requests EXCEPT ![s] = q]
  BY <1>1, <1>2
<1>4. sqlErrors \in Nat
  <2>1. MaxSqlErrors \in Nat /\ sqlErrors \in 0..MaxSqlErrors
    BY AuthAssumption DEF IInv, TypeOK
  <2>. QED
    BY <2>1
<1>5. sqlErrors' = 0 => sqlErrors = 0 /\ o \in Outcomes(FALSE, s)
  <2>1. CASE o \in Outcomes(FALSE, s)
    <3>1. sqlErrors' = sqlErrors + 0
      BY <1>2, <2>1
    <3>2. sqlErrors' = 0 => sqlErrors = 0
      BY <1>4, <3>1
    <3>. QED
      BY <2>1, <3>2, Zenon
  <2>2. CASE o \notin Outcomes(FALSE, s)
    <3>1. sqlErrors' = sqlErrors + 1
      BY <1>2, <2>2
    <3>. QED
      BY <1>4, <3>1
  <2>. QED
    BY <2>1, <2>2
<1>6. /\ r.name \in Names /\ r.secret \in Secrets /\ r.level \in Levels
      /\ r.account \in Account /\ r.account.id \in 0..MaxAccounts /\ rootToken \in Tokens
  BY <1>1, SlotsAreTokens DEF Request, Account
<1>. HIDE DEF truth, account
<1>7. /\ q.call = r.call /\ q.reply = o.result /\ q.account = account /\ q.truth = truth
      /\ q.secret = r.secret /\ q.verdict = r.verdict
  BY <1>1 DEF Request
<1>. HIDE DEF q
<1>8. ASSUME sqlErrors' = 0 PROVE ReplyIsTrue(q)
  <2>1. PICK f \in BOOLEAN : ~f /\ o \in Outcomes(f, s)
    BY <1>5, <1>8
  <2>. HIDE DEF r
  <2>2. CASE r.call = "AccountLookup"
    <3>1. o \in AccountLookup(f, db, r.name)
      BY <2>1, <2>2 DEF Outcomes, r
    <3>2. /\ o.result = "Found" => o.account = db.accounts[r.name]
          /\ Exists(db, r.name) => o.result = "Found"
      BY <1>1, <1>6, <2>1, <3>1, AccountLookupOutcome
    <3>3. truth = IF Exists(db, r.name) /\ db.accounts[r.name].secret = r.secret
                  THEN "" ELSE "InvalidCredentials"
      BY <2>2 DEF truth, Truth
    <3>4. o.result = "Found" => account = o.account
      BY DEF account
    <3>. QED
      BY <1>7, <2>2, <3>2, <3>3, <3>4 DEF ReplyIsTrue
  <2>3. CASE r.call = "SessionLookup"
    <3>1. o \in SessionLookup(f, db, rootToken)
      BY <2>1, <2>3 DEF Outcomes, r
    <3>2. Live(db, rootToken) => o.result = "Found"
      BY <1>1, <1>6, <2>1, <3>1, SessionLookupOutcome
    <3>3. truth = IF Live(db, rootToken) THEN "" ELSE "SessionExpired"
      BY <2>3 DEF truth, Truth
    <3>. QED
      BY <1>7, <2>3, <3>2, <3>3 DEF ReplyIsTrue
  <2>4. CASE r.call = "AccountCreate"
    <3>1. o \in AccountCreate(f, db, r.name, r.secret, r.level) /\ db.nextId <= MaxAccounts
      BY <1>1, <2>1, <2>4 DEF Outcomes, r
    <3>2. \/ o.result = "Conflict" /\ Exists(db, r.name)
          \/ /\ o.result = "Ok" /\ ~Exists(db, r.name)
             /\ Exists(o.db, r.name) /\ o.db.accounts[r.name].level = r.level
      <4>1. DbInv(db)
        BY <1>1
      <4>. QED
        BY <4>1, <1>6, <2>1, <3>1, AccountCreateOutcome
    <3>3. truth = IF Exists(db, r.name) THEN "AccountExists"
                  ELSE IF Exists(o.db, r.name) /\ o.db.accounts[r.name].level = r.level
                       THEN "Success" ELSE "failed"
      BY <2>4 DEF truth, Truth
    <3>. QED
      BY <1>7, <2>4, <3>2, <3>3 DEF ReplyIsTrue
  <2>5. CASE r.call = "AccountDelete"
    <3>1. o \in AccountDelete(f, db, r.name)
      BY <2>1, <2>5 DEF Outcomes, r
    <3>2. \/ o.result = "NotFound" /\ ~Exists(db, r.name)
          \/ o.result = "Ok" /\ Exists(db, r.name) /\ ~Exists(o.db, r.name)
      BY <1>1, <1>6, <2>1, <3>1, AccountDeleteOutcome
    <3>3. truth = IF ~Exists(db, r.name) THEN "NoSuchAccount"
                  ELSE IF ~Exists(o.db, r.name) THEN "Success" ELSE "failed"
      BY <2>5 DEF truth, Truth
    <3>. QED
      BY <1>7, <2>5, <3>2, <3>3 DEF ReplyIsTrue
  <2>6. CASE r.call = "AccountSetLevel"
    <3>1. o \in AccountSetLevel(f, db, r.name, r.level)
      BY <2>1, <2>6 DEF Outcomes, r
    <3>2. \/ o.result = "NotFound" /\ ~Exists(db, r.name)
          \/ o.result = "Ok" /\ Exists(db, r.name) /\ o.db.accounts[r.name].level = r.level
      <4>1. DbInv(db)
        BY <1>1
      <4>. QED
        BY <4>1, <1>6, <2>1, <3>1, AccountSetLevelOutcome
    <3>3. truth = IF ~Exists(db, r.name) THEN "NoSuchAccount"
                  ELSE IF o.db.accounts[r.name].level = r.level THEN "Success" ELSE "failed"
      BY <2>6 DEF truth, Truth
    <3>. QED
      BY <1>7, <2>6, <3>2, <3>3 DEF ReplyIsTrue
  <2>7. CASE r.call = "SessionCreate"
    <3>1. o \in SessionCreate(f, db, r.account.id, s)
      BY <2>1, <2>7 DEF Outcomes, r
    <3>2. CreatesAtMost(f, db, r.account.id, s, o)
      BY <1>1, <1>6, <2>1, <3>1, SessionCreateOutcome
    <3>3. o.result = "Ok" => o.db.sessions[s].account = r.account.id /\ r.account.id # 0
      BY <2>1, <3>2 DEF CreatesAtMost, HasId
    <3>4. truth = IF o.db.sessions[s].account # 0 THEN "Success" ELSE "failed"
      BY <2>7 DEF truth, Truth
    <3>. QED
      BY <1>7, <2>7, <3>3, <3>4 DEF ReplyIsTrue
  <2>. QED
    BY <1>1, <2>2, <2>3, <2>4, <2>5, <2>6, <2>7 DEF Calls
<1>9. sqlErrors = 0 => q.verdict = ""
  BY <1>1, <1>7 DEF SoundInv, SoundSlot
<1>10. sqlErrors' = 0 => SoundSlot(q)
  BY <1>5, <1>8, <1>9 DEF SoundSlot, Refusals
<1>. QED
  BY <1>3, <1>5, <1>10, SoundStep

LEMMA NextSound == IInv /\ SoundInv /\ [Next]_vars => SoundInv'
<1>. SUFFICES ASSUME IInv, SoundInv, [Next]_vars PROVE SoundInv'
  OBVIOUS
<1>1. CASE UNCHANGED requests /\ (sqlErrors' = 0 => sqlErrors = 0)
  BY <1>1 DEF SoundInv
<1>2. sqlErrors \in Nat
  <2>1. MaxSqlErrors \in Nat /\ sqlErrors \in 0..MaxSqlErrors
    BY AuthAssumption DEF IInv, TypeOK
  <2>. QED
    BY <2>1
<1>3. CASE UNCHANGED vars \/ Purge \/ \E t \in Tokens : SessionExpires(t) \/ SessionRedeemed(t)
  BY <1>1, <1>3 DEF vars, Purge, SessionExpires, SessionRedeemed
<1>4. CASE StartupExecutes \/ StartupCallback
  <2>1. UNCHANGED requests
        /\ (UNCHANGED sqlErrors \/ \E x \in {0, 1} : sqlErrors' = sqlErrors + x)
    BY <1>4 DEF StartupExecutes, StartupCallback
  <2>2. sqlErrors' = 0 => sqlErrors = 0
    BY <1>2, <2>1
  <2>. QED
    BY <1>1, <2>1, <2>2
<1>5. CASE LinkLost
  BY <1>5, LinkLostSound
<1>6. ASSUME NEW s \in Slots, DbExecutes(s) \/ Callback(s) \/ \E k \in Kinds : Reject(s, k)
      PROVE  SoundInv'
  <2>1. Secrets # {} /\ Names # {} /\ Levels # {}
    BY AuthAssumption DEF Levels
  <2>. QED
    BY <1>6, <2>1, DbExecutesSound, CallbackSound, ReceiveSound
<1>. QED
  BY <1>3, <1>4, <1>5, <1>6, ReceiveSound DEF Next

LEMMA AlwaysSound == Spec => []SoundInv
  BY InitSound, NextSound, AlwaysIInv, PTL DEF Spec

\* Until a statement of the database fails, a request told Success has done
\* what it asked for, whatever else runs between its calls and however often
\* the links are lost.
THEOREM SuccessesAreTrue == Spec => [](sqlErrors = 0 => SuccessIsTrue)
<1>1. SoundInv => (sqlErrors = 0 => SuccessIsTrue)
  BY DEF SoundInv, SoundSlot, SuccessIsTrue
<1>. QED
  BY <1>1, AlwaysSound, PTL

\* Until a statement of the database fails, a refusal names the real reason.
THEOREM RefusalsAreTrue == Spec => [](sqlErrors = 0 => RefusalIsTrue)
<1>1. SoundInv => (sqlErrors = 0 => RefusalIsTrue)
  BY DEF SoundInv, SoundSlot, RefusalIsTrue, Refusals
<1>. QED
  BY <1>1, AlwaysSound, PTL
=============================================================================
