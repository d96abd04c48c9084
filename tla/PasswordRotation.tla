-------------------------- MODULE PasswordRotation --------------------------
(***************************************************************************)
(* rotate.sh changes the database password under a running API. The API's  *)
(* pool (src/database/database.module.ts) connects to PgBouncer, which has *)
(* its own few connections to Postgres and lends one for a transaction     *)
(* (pgbouncer/pgbouncer.ini: pool_mode = transaction). PgBouncer knows no  *)
(* password: for every client that logs in it asks Postgres for the role's *)
(* SCRAM hash (auth_query), and the keys the last client showed are what it*)
(* logs in to Postgres with. The script may die between any two steps.     *)
(*                                                                         *)
(* A login goes by the password the role had when it began. A backend that *)
(* is still authenticating is not in pg_stat_activity.                     *)
(***************************************************************************)
EXTENDS Naturals

CONSTANTS
  Conn,             \* places in the API's pool
  Server,           \* places in PgBouncer's pool
  MaxPassword       \* bound: passwords, the first is 1

ASSUME PasswordAssumption == MaxPassword \in Nat \ {0}

Password == 1..MaxPassword
Empty == 0          \* the file between > and printf; no password

VARIABLES
  rolePassword,     \* what Postgres knows
  passwordFile,     \* DB_PASSWORD_FILE
  newPw,            \* NEW_PW of the last run
  step,             \* what the script has done
  conn,             \* conn[c]: the API's connection to PgBouncer
  backend,          \* backend[s]: PgBouncer's connection to Postgres
  lent,             \* <<c, s>>: c's transaction runs on s
  keys,             \* PgBouncer: the password whose SCRAM keys it has
  loginFailed       \* PgBouncer: its last login to Postgres failed

script == <<rolePassword, passwordFile, newPw, step>>
rotateVars == <<script, conn, backend, lent, keys, loginFailed>>

\* A connection: how far it is, the password it logs in with, and whether the last
\* rotation could not reach it (history).
Link(states) == [at : states, by : Password \cup {Empty}, spared : BOOLEAN]
Gone == [at |-> "none", by |-> Empty, spared |-> FALSE]
Begun == [at |-> "login", by |-> rolePassword, spared |-> FALSE]
Moved(pool, x, where) == [pool EXCEPT ![x].at = where]

PasswordTypeOK ==
  /\ rolePassword \in Password /\ passwordFile \in Password \cup {Empty}
  /\ newPw \in Password /\ step \in {"none", "altered", "truncated", "written"}
  /\ conn \in [Conn -> Link({"none", "login", "proof", "wait", "busy", "open"})]
  /\ backend \in [Server -> Link({"none", "login", "up"})]
  /\ lent \subseteq Conn \X Server
  /\ keys \in Password \cup {Empty} /\ loginFailed \in BOOLEAN

PasswordInit ==
  /\ rolePassword = 1 /\ passwordFile = 1 /\ newPw = 1 /\ step = "none"
  /\ conn = [c \in Conn |-> Gone] /\ backend = [s \in Server |-> Gone]
  /\ lent = {} /\ keys = Empty /\ loginFailed = FALSE

-----------------------------------------------------------------------------
\* 1/3 ALTER ROLE with a new random password.
alterRole ==
  /\ step = "none" /\ newPw < MaxPassword
  /\ newPw' = newPw + 1 /\ rolePassword' = newPw' /\ step' = "altered"
  /\ UNCHANGED <<passwordFile, conn, backend, lent, keys, loginFailed>>

\* 2/3 the file is rewritten in place: truncated by the redirection, then written.
truncateFile ==
  /\ step = "altered" /\ passwordFile' = Empty /\ step' = "truncated"
  /\ UNCHANGED <<rolePassword, newPw, conn, backend, lent, keys, loginFailed>>

\* Mutant: no step 3.
writeFileLast ==
  /\ step = "truncated" /\ passwordFile' = newPw /\ step' = "none"
  /\ UNCHANGED <<rolePassword, newPw, conn, backend, lent, keys, loginFailed>>
writeFile ==
  /\ step = "truncated" /\ passwordFile' = newPw /\ step' = "written"
  /\ UNCHANGED <<rolePassword, newPw, conn, backend, lent, keys, loginFailed>>

\* 3/3 pg_terminate_backend: Postgres closes PgBouncer's connections. A client
\* whose transaction ran on one is disconnected, and pool.on('error') or its query
\* hears of it; the other sessions of the API's pool notice nothing.
terminateBackends ==
  /\ step = "written" /\ step' = "none"
  /\ backend' = [s \in Server |->
                   IF backend[s].at = "up" THEN Gone
                   ELSE [backend[s] EXCEPT !.spared = (backend[s].at = "login")]]
  /\ conn' = [c \in Conn |->
                IF conn[c].at = "busy" THEN Gone
                ELSE [conn[c] EXCEPT !.spared = (conn[c].at \in {"login", "proof"})]]
  /\ lent' = {}
  /\ UNCHANGED <<rolePassword, passwordFile, newPw, keys, loginFailed>>

\* The script dies. What it has done stays; NEW_PW is lost with it.
killScript ==
  /\ step # "none" /\ step' = "none"
  /\ backend' = [s \in Server |-> [backend[s] EXCEPT !.spared = (backend[s].at # "none")]]
  /\ conn' = [c \in Conn |-> [conn[c] EXCEPT !.spared = (conn[c].at # "none")]]
  /\ UNCHANGED <<rolePassword, passwordFile, newPw, lent, keys, loginFailed>>

-----------------------------------------------------------------------------
\* A query finds no free connection in the API's pool (GET /health/db, or any
\* other request): a new one is begun, and PgBouncer asks for the role's hash.
connect(c) ==
  /\ conn[c].at = "none" /\ conn' = [conn EXCEPT ![c] = Begun]
  /\ UNCHANGED <<script, backend, lent, keys, loginFailed>>

\* Mutant: the password is a string, read when the pool was made.
passwordAtStart == 1
\* password: async () => readFile(...).
password == passwordFile

\* The file is read for this login. Another password than the hash stands for is
\* refused: the query fails and readiness() answers 503.
readPassword(c) ==
  /\ conn[c].at = "login"
  /\ conn' = IF password = conn[c].by THEN Moved(conn, c, "proof")
                                      ELSE [conn EXCEPT ![c] = Gone]
  /\ UNCHANGED <<script, backend, lent, keys, loginFailed>>

\* PgBouncer checks the proof and keeps the keys that came with it. The query the
\* connection was made for waits for a connection to Postgres.
authenticate(c) ==
  /\ conn[c].at = "proof" /\ conn' = Moved(conn, c, "wait")
  /\ keys' = conn[c].by
  /\ UNCHANGED <<script, backend, lent, loginFailed>>

\* A query on a free connection of the pool.
query(c) ==
  /\ conn[c].at = "open" /\ conn' = Moved(conn, c, "wait")
  /\ UNCHANGED <<script, backend, lent, keys, loginFailed>>

finishQuery(c) ==
  /\ conn[c].at = "busy" /\ conn' = Moved(conn, c, "open")
  /\ lent' = {l \in lent : l[1] # c}
  /\ UNCHANGED <<script, backend, keys, loginFailed>>

\* idleTimeoutMillis.
closeIdle(c) ==
  /\ conn[c].at = "open" /\ conn' = [conn EXCEPT ![c] = Gone]
  /\ UNCHANGED <<script, backend, lent, keys, loginFailed>>

-----------------------------------------------------------------------------
Waits == \E c \in Conn : conn[c].at = "wait"
Lent(s) == \E c \in Conn : <<c, s>> \in lent

\* PgBouncer logs in to Postgres when a client waits and no connection is free, and
\* again after a failure, for a client it has sent away (server_login_retry).
openServer(s) ==
  /\ backend[s].at = "none" /\ (Waits \/ loginFailed)
  /\ \A t \in Server : backend[t].at = "up" => Lent(t)
  /\ backend' = [backend EXCEPT ![s] = Begun]
  /\ UNCHANGED <<script, conn, lent, keys, loginFailed>>

serverLogin(s) ==
  /\ backend[s].at = "login"
  /\ backend' = IF keys = backend[s].by THEN Moved(backend, s, "up")
                                        ELSE [backend EXCEPT ![s] = Gone]
  /\ loginFailed' = (keys # backend[s].by)
  /\ UNCHANGED <<script, conn, lent, keys>>

\* A free connection is lent for one transaction.
lend(c, s) ==
  /\ conn[c].at = "wait" /\ backend[s].at = "up" /\ ~Lent(s)
  /\ conn' = Moved(conn, c, "busy") /\ lent' = lent \cup {<<c, s>>}
  /\ UNCHANGED <<script, backend, keys, loginFailed>>

\* "server login has been failing": a client that waits while PgBouncer has no
\* connection is sent away, and the pool drops it.
refuse(c) ==
  /\ conn[c].at = "wait" /\ loginFailed /\ \A s \in Server : backend[s].at # "up"
  /\ conn' = [conn EXCEPT ![c] = Gone]
  /\ UNCHANGED <<script, backend, lent, keys, loginFailed>>

\* server_idle_timeout, server_lifetime.
closeServer(s) ==
  /\ backend[s].at = "up" /\ ~Lent(s) /\ ~Waits
  /\ backend' = [backend EXCEPT ![s] = Gone]
  /\ UNCHANGED <<script, conn, lent, keys, loginFailed>>

RotateStep ==
  alterRole \/ truncateFile \/ writeFile \/ terminateBackends \/ killScript
PoolStep(c) ==
  connect(c) \/ readPassword(c) \/ authenticate(c) \/ query(c) \/ finishQuery(c)
ServerStep(s) ==
  openServer(s) \/ serverLogin(s) \/ \E c \in Conn : lend(c, s)

PasswordNext ==
  \/ RotateStep
  \/ \E c \in Conn : PoolStep(c) \/ refuse(c) \/ closeIdle(c)
  \/ \E s \in Server : ServerStep(s) \/ closeServer(s)

PasswordSpec == PasswordInit /\ [][PasswordNext]_rotateVars

-----------------------------------------------------------------------------
\* When a rotation is over no backend works on with the old password, however
\* PgBouncer's connections came and went between its steps, except one that
\* Postgres had begun to authenticate by then, or that a killed run left alone.
BackendsCurrent ==
  step = "none" =>
    \A s \in Server :
      backend[s].at = "up" => backend[s].by = rolePassword \/ backend[s].spared

\* rotate.sh: "pg_terminate_backend — рвемо старі зʼєднання, пул відкриває нові й
\* перечитує файл". When a rotation is over no idle connection of the API's pool
\* was made with the old password, except as in BackendsCurrent.
SessionsCurrent ==
  step = "none" =>
    \A c \in Conn :
      conn[c].at = "open" => conn[c].by = rolePassword \/ conn[c].spared

\* Why BackendsCurrent: between rotations every server connection in hand that was
\* not spared, one that still authenticates too, goes by the role's password.
HandsCurrent ==
  step = "none" =>
    \A s \in Server :
      backend[s].at # "none" => backend[s].by = rolePassword \/ backend[s].spared

\* A transaction runs on a backend that is up, its own alone, and only while its
\* client knows of it.
LentIsUsed ==
  /\ \A l \in lent : conn[l[1]].at = "busy" /\ backend[l[2]].at = "up"
  /\ \A l, m \in lent : l[1] = m[1] \/ l[2] = m[2] => l = m
  /\ \A c \in Conn : conn[c].at = "busy" => \E s \in Server : <<c, s>> \in lent

PasswordInv == PasswordTypeOK /\ HandsCurrent /\ LentIsUsed

Agree == step = "none" /\ passwordFile = rolePassword

\* Once rotations end well, queries of the API reach Postgres again and again
\* without a restart of it or of PgBouncer, whatever earlier runs broke or failed
\* to finish and whichever sessions and keys they left behind.
PoolRecovers == <>[]Agree => []<>(\E c \in Conn : conn[c].at = "busy")
=============================================================================
